SPECIFICATION Spec
CONSTANTS
  MaxSplits = 2
  MaxTimeouts = 1
  Event = {}
  NoUpdate = NoUpdate
INVARIANTS
  RunOnce
  NoSplitAfterEnd
  WholeOutput
CHECK_DEADLOCK FALSE
