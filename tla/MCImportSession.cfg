CONSTANTS
  Bytes <- MCBytes
  Sources <- MCSources
  LoadRequests <- MCLoadRequests
  Speeds <- MCConstantSpeed
  MaxFile = 3
  WaitLimit = 0
  StallLimit = 0
SPECIFICATION Spec
INVARIANTS
  TypeOK
  SuccessMeansComplete
  TransferConserved
  AbandonedPortIsDrained
