CONSTANTS
  small = small
  large = large
  Page = {large}
  Bytes <- BytesDef
  Request = {r1, r2}
  NoRead = NoRead
  DoneRead = DoneRead
  NoRequest = NoRequest
  NoInstance = NoInstance
  MinTries = 2
  Writer = {w1}
  MaxBytes = 2
  MaxBatch = 1
  MaxPages = 1
  Event = {"restart"}
  MaxInstance = 2
SPECIFICATION FairSpec
PROPERTIES RestartIsNoticed
CHECK_DEADLOCK FALSE
