SPECIFICATION LoopSpec
CONSTANTS
  ByteBits = 2
  WordBytes = 2
  Buckets <- MCBuckets
  IntRelativeMax = 8
  AbsoluteBits = 4
  Packets <- MCPackets
  Later = {}
  Widths = {2}
  Spans = {0, 2}
  NonFinite = {}
  FloatBits = 3
  Counts = {}
  Sizes = {}
  Follow <- MCFollow
  Continuation = {}
  Previous = {0, 2}
  Depth = 0
INVARIANT BoundedByPacket
PROPERTY Terminates
CHECK_DEADLOCK FALSE
