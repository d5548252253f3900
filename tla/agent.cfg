SPECIFICATION AgentSpec
CONSTANTS
  Runners = {a, b}
  Safe = {"match"}
  Rejected = {"empty", "unscoped"}
  Writing = {"merge"}
  MaxAttempts = 2
  MaxResumes = 3
  SharedResumes = 1
  MayChange = TRUE
INVARIANTS OnlyValidatedRuns RefusedNeverRuns EvidenceIsTrue
PROPERTIES OneAnswer EveryCallEnds
CHECK_DEADLOCK FALSE
