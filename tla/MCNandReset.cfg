CONSTANTS
  b = b
  None = None
  Radix = 2
  SpareSize = 1
  BlockPages = 2
  ExtraRows = 2
  Bits <- MCBits
  ForcedErase = TRUE
  Images <- MCImages
  Operations <- MCOperations
  MaxReads = 3
  MaxAddress = 5
  MaxData = 6
  Features <- MCReset
SPECIFICATION Spec
INVARIANT
  NoAssertionFails
