SPECIFICATION Spec
CONSTANTS
  WordSize = 2
  Image <- SmallImage
  Flow <- SmallProgram
  Cases <- WordsApart
  Trap = 9
  None = None
INVARIANTS
  TypeOK
  TrapsAreBreakpoints
  LoadedFirst
  AtAnInstruction
  StaysInRegions
