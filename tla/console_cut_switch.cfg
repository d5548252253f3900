SPECIFICATION TalkSpec
CONSTANTS
  Tabs = {t1}
  Workspaces = {"cip", "other"}
  HomeProject = "cip"
  ListLimit = 1
  MaxTurns = 2
  MaxThreads = 3
INVARIANT SwitchIsAtomic
CHECK_DEADLOCK FALSE
