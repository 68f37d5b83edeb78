SPECIFICATION Spec
CONSTANTS
  ByteBits = 2
  WordBytes = 2
  HalfBytes = 1
  Packets <- MCPackets
  Slacks <- MCSlacks
  Counts = {0, 1, 2, 4}
INVARIANTS
  IInv
  LoadsInside
PROPERTY ImplementsReader
