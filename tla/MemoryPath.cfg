SPECIFICATION MemoryFairSpec
CONSTANTS
  Threads = 16
  MinWidth = 4
  Lanes = 8
  BankWords = 4
  Detectors = {"3R1W", "1R1W_16b"}
  IdxFifoDepth = 4
  BurstDepth = 2
  SpBus = 4
  Programs <- Mixed
INVARIANTS
  TransfersDoWhatTheIsaSays
  OnlyVectorsClash
  AccessesAreAllowedFor
PROPERTIES
  TransfersEnd
CHECK_DEADLOCK FALSE
