SPECIFICATION FairSpec
CONSTANTS
  ByteMax = 2
  PadChr = 1
  Absent = Absent
  Worker = {w1, w2}
  Repeat = 2
  Cases <- OneGenerator
  CountsOf <- Unsteady
  Panics = FALSE
PROPERTIES
  CountsAreAverages
