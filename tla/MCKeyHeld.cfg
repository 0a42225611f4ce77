CONSTANTS
  k1 = k1
  k2 = k2
  Keys <- MCOneKey
  MinHold = 2
  MaxEvents = 2
  Features <- MCNoFeatures
SPECIFICATION Spec
INVARIANT
  HeldKeyIsDown
