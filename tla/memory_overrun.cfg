SPECIFICATION Spec
CONSTANTS
  WordSize = 2
  Image <- SmallImage
  Flow <- SmallProgram
  Cases <- ThreeBytes
  Trap = 9
  None = None
INVARIANTS
  StaysInRegions
