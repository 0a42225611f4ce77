CONSTANTS
  A = A
  B = B
  NotNor = NotNor
  Model = "nc3000"
  Addresses <- MCUnlockAddresses
  Bytes <- MCInfoBytes
  NorPages <- MCPages
  Mappings <- MCMappings
  Images <- MCErased
SPECIFICATION Spec
INVARIANTS
  TypeOK
  AssertionsHold
PROPERTIES
  OnlyCommandsChangeFlash
