SPECIFICATION Spec
CONSTANTS
  MaxSplits = 2
  MaxTimeouts = 0
  Event = {"fail", "abort"}
  NoUpdate = NoUpdate
INVARIANTS
  IInv
  FinishedTaskRanEverything
CHECK_DEADLOCK FALSE
