SPECIFICATION ProgressSpec
CONSTANTS
  general = general
  reserved = reserved
  Pool = {general, reserved}
  Query = {q1, q2}
  Tag = {t1, move}
  MOVE_QUERY_TAG = move
  maxBytes <- Sizes
  maxTotalMemory = 2
  maxRevocableMemory = 1
  NoMove = NoMove
  Null = Null
INVARIANTS
  IInv NoLostWakeup MemoryAddsUp
PROPERTIES
  EndShown SettingsTakeEffect FinalInformationShown BarsAppear ExtractIsWhole
  RefreshesUntilFinal
CHECK_DEADLOCK FALSE
