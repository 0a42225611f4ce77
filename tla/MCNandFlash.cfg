CONSTANTS
  b = b
  None = None
  Radix = 2
  SpareSize = 1
  BlockPages = 2
  ExtraRows = 2
  Bits <- MCBits
  ForcedErase = FALSE
  Images <- MCImages
  Operations <- MCOperations
  MaxReads = 3
  MaxAddress = 5
  MaxData = 6
  Features <- MCAllFeatures
SPECIFICATION Spec
INVARIANTS
  TypeOK
  OperationsAreAccepted
  ReadsAreAnswered
PROPERTIES
  OperationsAreAtomic
