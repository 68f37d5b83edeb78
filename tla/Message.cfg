SPECIFICATION Spec
CONSTANTS
  ByteBits = 2
  WordBytes = 2
  Buckets <- MCBuckets
  IntRelativeMax = 8
  AbsoluteBits = 4
  Follow <- MCFollow
  Continuation = {3}
  Schemas <- MCSchemas
  Sources <- MCSources
INVARIANTS
  LongestThatFits
  Arrives
  DamageShows
  OnlyAPrefix
CHECK_DEADLOCK FALSE
