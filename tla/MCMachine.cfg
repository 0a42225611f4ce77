CONSTANTS
  nc3000mode = FALSE
  EmulateCks = TRUE
  Second = 4
  Sixty = 2
  Day = 2
  SlicesPerTick = 1
  MaxBurst = 2
  CksWritten <- MCCks
  RtcWritten <- MCRtc
  Rcr0Written <- MCRcr0
SPECIFICATION FairSpec
INVARIANTS
  TypeOK
  RunsAtASpeed
  NoResetUnderWay
  NmiIsWanted
PROPERTIES
  AlarmWakes
  VectorsInsist
