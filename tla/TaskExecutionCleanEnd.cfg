SPECIFICATION Spec
CONSTANTS
  MaxSplits = 1
  MaxTimeouts = 0
  Event = {"fail"}
  NoUpdate = NoUpdate
INVARIANT
  EndMeansClean
CHECK_DEADLOCK FALSE
