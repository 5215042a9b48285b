CONSTANTS
  small = small
  large = large
  Page = {small}
  Bytes <- BytesDef
  Request = {r1, r2}
  NoRead = NoRead
  DoneRead = DoneRead
  NoRequest = NoRequest
  NoInstance = NoInstance
  MinTries = 2
  Writer = {w1}
  MaxBytes = 2
  MaxBatch = 1
  MaxPages = 2
  Event = {"restart", "cancel"}
  MaxInstance = 2
SPECIFICATION Spec
SYMMETRY Symmetry
INVARIANT Inv
PROPERTY ImplementsPageStream
CHECK_DEADLOCK FALSE
