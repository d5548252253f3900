SPECIFICATION DocsSpec
CONSTANTS
  Services = {s1}
  Documents = {"sop"}
  Versions = {"1", "2"}
  Texts = {"a"}
  MaxCalls = 3
INVARIANT DocumentsKept
CHECK_DEADLOCK FALSE
