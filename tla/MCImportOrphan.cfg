CONSTANTS
  Bytes <- MCBytes
  Sources <- MCSources
  LoadRequests <- MCNoLoads
  Speeds <- MCConstantSpeed
  MaxFile = 3
  WaitLimit = 0
  StallLimit = 0
SPECIFICATION Spec
INVARIANT
  NoImportOutlivesStop
