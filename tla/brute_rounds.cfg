SPECIFICATION FairSpec
CONSTANTS
  ByteMax = 2
  PadChr = 1
  Absent = Absent
  Worker = {w1, w2}
  Repeat = 2
  Cases <- GeneratorsAndShortLists
  CountsOf <- Program
  Panics = TRUE
INVARIANTS
  TypeOK
  UpdateContract
  GuessesDistinct
  EveryJobReports
  OutlierIsFarthest
  ErrOnlyIfNothingCounted
PROPERTIES
  RoundsSpec
  BruteReturns
