CONSTANTS
  small = small
  large = large
  Page = {large}
  Bytes <- BytesDef
  Request = {r1, r2}
  NoRead = NoRead
  DoneRead = DoneRead
  NoRequest = NoRequest
  NoInstance = NoInstance
  MinTries = 2
  Writer = {w1}
  MaxBytes = 2
  MaxBatch = 1
  MaxPages = 2
  Event = {"cancel"}
  MaxInstance = 1
SPECIFICATION FairSpec
PROPERTIES StreamSettles BufferIsReleased
CHECK_DEADLOCK FALSE
