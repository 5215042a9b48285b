CONSTANTS
  small = small
  large = large
  Page = {small, large}
  Bytes <- BytesDef
  Request = {r1, r2, r3}
  NoRead = NoRead
  DoneRead = DoneRead
  NoRequest = NoRequest
  NoInstance = NoInstance
  MinTries = 3
  Writer = {w1}
  MaxBytes = 2
  MaxBatch = 1
  MaxPages = 2
  Event = {}
  MaxInstance = 1
SPECIFICATION Spec
SYMMETRY Symmetry
INVARIANTS ReceivedInOrder NoInvalidSequenceId NothingLost Inv
CHECK_DEADLOCK FALSE
