SPECIFICATION Spec
CONSTANTS
  ByteBits = 2
  WordBytes = 3
  MaxBits = 3
  Buffers = {0, 1, 3}
  Fields <- MCFields
  Runs <- MCRuns
  Old = Old
INVARIANTS
  IInv
  CountersAgree
  CopyStartsClean
  PastEndZero
PROPERTY ImplementsWire
