SPECIFICATION Spec
CONSTANTS
  LaneBits = 3
  Bounds <- MCBounds
  IntegerBits <- MCIntegerBits
  FractionBits <- MCFractionBits
INVARIANTS
  PanicsOutsideTheRange
  WireIsTheOffset
  ReadsTheRange
CHECK_DEADLOCK FALSE
