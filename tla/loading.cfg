SPECIFICATION LoadingSpec
CONSTANTS
  Clients = {c1, c2, c3}
  MaxTokens = 1
  MayStop = TRUE
  Pages = {p1, p2}
  Kinds = {"profile"}
  MaxJobs = 2
INVARIANTS OneLoadPerLock ReaderRestored PassMeansLoaded RowsAreWhole SucceededIsDone
PROPERTIES EventuallyReader RunningEnds
CHECK_DEADLOCK FALSE
