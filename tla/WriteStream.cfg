SPECIFICATION Spec
CONSTANTS
  ByteBits = 2
  WordBytes = 2
  Buffers = {0, 2, 3}
  Fields <- MCFields
  Runs <- MCRuns
  Texts <- MCTexts
  RelWidths <- MCRelWidths
  AbsoluteBits = 3
  Old = Old
INVARIANTS
  TypeOK
  IInv
  ScratchClean
  PastEndZero
  BlockCopyAligned
  PendingWordFits
PROPERTY ImplementsWire
