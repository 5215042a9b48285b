SPECIFICATION ViewsSpec
CONSTANTS
  Killer = {k1}
  Preempter = {p1}
  Failer = {f1}
  Canceler = {c1}
  Commit = Commit
  Null = Null
  MaxDrivers = 2
INVARIANTS
  FailedHasCause FinishedMeansCommitted ConflictMeansOther
  HeadsTellTruth ListCurrent RatesAccounted AnswersShown ListAccountsForBar
  EveryTaskShown GraphIsPlan
PROPERTIES
  EndsOnce EndShownStays GrowingReadsGrowing
CHECK_DEADLOCK FALSE
