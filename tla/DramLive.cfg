SPECIFICATION FairSpec
CONSTANTS
  Wgs = {0, 1}
  Pairs = 1
  LastRow = 1
  BurstFifoDepth = 1
  CmdFifoDepth = 2
  RefDelays = {5}
  MaxRefPending = 1
  MaxBursts = 2
  Policies = {"LINEAR", "ALAP"}
  Buffer <- Apart
PROPERTIES
  RequestsComplete
  RefreshesHappen
