SPECIFICATION Spec
CONSTANTS
  ByteMax = 2
  PadChr = 1
  Absent = Absent
  Second = 2
  Digits = {}
  UMax = 40
  HistoryLen = 1
  ArgcMax = 2
  ArgvLenMax = 2
  StdinLenMax = 2
  MinChr = 0
  MaxChr = 2
  CountsOf <- Comparing
  SecretArg <- WantedArg
  SecretStdin <- WantedStdin
  SecretBytes <- WantedBytes
  Cost <- Longer
  Programs <- EmptyStdin
  Panics = FALSE
INVARIANTS
  EmptyStdinIsFine
