SPECIFICATION Spec
CONSTANTS
  MaxSplits = 2
  MaxTimeouts = 0
  Event = {"cancel", "limit"}
  NoUpdate = NoUpdate
INVARIANT
  NobodyWritesAfterEnd
CHECK_DEADLOCK FALSE
