SPECIFICATION LifecycleSpec
CONSTANTS
  Clients = {c1, c2}
  MaxUploads = 3
  Schemas = {"1.0", "1.1"}
  MayLabel = TRUE
  MayCrash = TRUE
  LoneClient = c1
  SharedUploads = 2
  SharedSchemas = {"1.0"}
INVARIANTS ServedAlone EvaluatedAfterIntegrity GraphWasApproved
CHECK_DEADLOCK FALSE
