SPECIFICATION ArithmeticSpec
CONSTANT LaneBits = 3
INVARIANTS
  TypeOK
  DivisionSoFar
PROPERTY ImplementsNative
