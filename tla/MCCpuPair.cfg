SPECIFICATION Spec
CONSTANTS
  Rom <- MCRom
  Code <- MCCode
  Starts <- MCStarts
  Chain <- MCChain
  ChainStarts <- MCChainStarts
  MaxSlices = 3
  NmiRoom = 3
INVARIANTS
  TypeOK
  CoresAgree
  AluMatchesArithmetic
PROPERTY ReturnRestores
CHECK_DEADLOCK FALSE
