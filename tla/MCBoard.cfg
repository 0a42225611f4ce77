CONSTANTS
  Boards <- MCBoards
  Wrap = 2
  Fix <- MCFix
  SliceCycles = {1, 5}
  MaxCycles = 9
  Controls <- MCControls
  Written = {1}
  Keys <- MCKeys
  Setups <- MCSetups
  Written0 <- MCWritten0
  Written1 <- MCWritten1
  Directions0 <- MCDirections0
  Directions1 <- MCDirections1
  uart_advance = TRUE
  SP_BUFFER = 3
  BSRWritten <- MCBSR
  LCRWritten <- MCLCR
  Frame = 1
  FrameWords = 6
  dsp_busy_len_wqx = 1
  dsp_drop_len_wqx = 3
  dsp_drop_len_host = 1
  Words <- MCWords
  Moved = {1}
  MaxData = 6
  BanksWritten <- MCBanks
  BbsWritten <- MCBbs
  VolumesWritten <- MCVolumes
  ZpWritten <- MCZp
SPECIFICATION BoardSpec
INVARIANTS
  BoardTypeOK
  TimerKeepsTime
  OverflowIsReported
  ScanSeesKeys
  OutputsReadBack
  ReceivedWhileEnabled
  LineAsProgrammed
  PoliteProgramLosesNothing
  PollingEnds
  RegistersDecideTheMap
PROPERTIES
  AnnouncedByteIsThere
