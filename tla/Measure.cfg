SPECIFICATION Spec
CONSTANTS
  ByteBits = 4
  WordBytes = 2
  Buckets <- MCBuckets
  IntRelativeMax = 15
  AbsoluteBits = 4
  Fields <- MCFields
  MaxFieldBits = 4
  Ranges <- MCRanges
  FloatBits = 4
  Counts = {0, 1, 3}
  Texts <- MCTexts
  Sizes = {0, 1, 2, 3, 4}
  Relatives <- MCRelatives
  MaxCalls = 5
INVARIANTS
  TypeOK
  Enough
  OnlyAlignsEstimated
  SameTrap
