CONSTANTS
  Bytes <- MCBytes
  Sources <- MCShortSources
  LoadRequests <- MCNoLoads
  Speeds = {TRUE, FALSE}
  MaxFile = 2
  WaitLimit = 1
  StallLimit = 1
SPECIFICATION FairSpec
INVARIANTS
  SpeedIsBorrowed
  ImportRunsUnpaced
PROPERTIES
  ImportEnds
