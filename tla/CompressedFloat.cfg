SPECIFICATION FloatSpec
CONSTANTS
  Precision = 3
  UnitBits = 8
  TopBits = 15
  IntegerWidth = 5
  Bounds <- MCBounds
  Resolutions <- MCResolutions
  Deltas <- MCDeltas
  Values <- MCValues
INVARIANTS
  ReaderAcceptsWriter
  DecodesBetweenEnds
  DerivedConstantsServe
  MeasureAgrees
CHECK_DEADLOCK FALSE
