SPECIFICATION Spec
CONSTANTS
  ByteBits = 2
  WordBytes = 2
  Buckets <- MCBuckets
  IntRelativeMax = 8
  AbsoluteBits = 4
  Packets <- MCPackets
  Later <- MCLater
  Widths = {1, 3}
  Spans = {0, 2, 3}
  NonFinite <- MCNonFinite
  FloatBits = 3
  Counts = {0, 1, 2}
  Sizes = {1, 3}
  Follow <- MCFollow
  Continuation = {3}
  Previous = {0, 2, 8}
  Depth = 2
INVARIANTS
  IInv
  Canonical
  OneEncoding
  ReturnsTheLatch
PROPERTY RefusalStands
