SPECIFICATION PagesSpec
CONSTANTS
  Tabs = {t1, t2}
  Workspaces = {"cip", "other"}
  HomeProject = "cip"
  ListLimit = 1
  MaxTurns = 2
  MaxThreads = 3
  Selectable = {"cip", "other"}
  FirstChoice = "cip"
  MaxAsked = 2
  Studios = {"cip", "other"}
  MaxUploads = 2
  MaxOpens = 2
  Nodes = {"a", "c", "d", "e"}
  Owner <- MCOwner
  Label <- MCLabel
  Key <- MCKey
  Edges <- MCEdges
  Owners = {"cip-dmd", "other"}
  OpenProject = "cip-dmd"
  PathLimits = {3}
  Depths = {2}
  RenderLimit = 2
  MaxOpened = 2
  Columns = {"c1", "c2"}
  Values = {"x", "y"}
  RowTable <- MCRowTable
  MaxRows = 3
  MaxScored = 2
  Terminals = {m1, m2}
  QuestionCount = 2
  VariantCount = 1
  MaxData = 1
  MaxRuns = 3
  Extracts <- MCExtracts
  Placeholders = {"part_id_b"}
  PublishedCounts <- MCExpected
  ExpectedMissing = 0
  BatchSize = 3
  Scripts = {s1, s2}
  MaxStarts = 2
SYMMETRY TabSymmetry
CONSTRAINT Regular
INVARIANTS TurnsApart TurnsKept AnswersApart GraphStaysInProject ApprovalFitsUpload DrawingIsGraph AcceptedIsPaired
  SummaryAdds FingerprintNamesSnapshots NumbersHaveReport NothingSkipped
PROPERTY PassIsPayload
CHECK_DEADLOCK FALSE
