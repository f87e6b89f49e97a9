SPECIFICATION FairSpec
CONSTANTS
  ByteMax = 2
  PadChr = 1
  Absent = Absent
  Second = 2
  Digits = {1, 3}
  UMax = 40
  HistoryLen = 1
  ArgcMax = 2
  ArgvLenMax = 2
  StdinLenMax = 2
  MinChr = 0
  MaxChr = 2
  CountsOf <- Comparing
  SecretArg <- WantedArg
  SecretStdin <- WantedStdin
  SecretBytes <- WantedBytes
  Cost <- Longer
  Programs <- AllSessions
  Panics = TRUE
INVARIANTS
  PipelineTypeOK
  RunSolves
  LengthsAgree
  ErrHasCause
  LengthsSuffice
  TimeoutAsGiven
  ShownRoundExists
PROPERTIES
  KeepsEarlierStages
  NewestShownFirst
  ContinueGoesThrough
