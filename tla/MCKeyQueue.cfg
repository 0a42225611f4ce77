CONSTANTS
  k1 = k1
  k2 = k2
  Keys <- MCKeys
  MinHold = 2
  MaxEvents = 2
  Features <- MCAllFeatures
SPECIFICATION FairSpec
INVARIANTS
  TypeOK
  NoKeyStuckDown
  EveryPressIsScanned
PROPERTIES
  ReleaseArrives
