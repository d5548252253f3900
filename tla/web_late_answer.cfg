SPECIFICATION WebSpec
CONSTANTS
  Selectable = {"cip", "other"}
  MaxAsked = 1
INVARIANT ShownIsSelected
CHECK_DEADLOCK FALSE
