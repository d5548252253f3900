SPECIFICATION Spec
CONSTANTS
  Runners = {a}
  Safe = {"match"}
  Rejected = {"empty"}
  Writing = {"merge"}
  MaxAttempts = 2
  MaxResumes = 1
  MayChange = TRUE
INVARIANT StartedWhenReady
CHECK_DEADLOCK FALSE
