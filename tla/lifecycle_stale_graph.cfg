SPECIFICATION LifecycleSpec
CONSTANTS
  Clients = {c1, c2}
  MaxUploads = 2
  Schemas = {"1.0"}
  MayLabel = FALSE
  MayCrash = FALSE
  LoneClient = c1
  SharedUploads = 2
  SharedSchemas = {"1.0"}
INVARIANT ServedGraphIsSource
CHECK_DEADLOCK FALSE
