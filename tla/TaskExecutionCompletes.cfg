SPECIFICATION FairSpec
CONSTANTS
  MaxSplits = 1
  MaxTimeouts = 1
  Event = {"limit"}
  NoUpdate = NoUpdate
PROPERTY
  TaskCompletes
CHECK_DEADLOCK FALSE
