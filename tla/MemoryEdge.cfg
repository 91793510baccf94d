SPECIFICATION MemorySpec
CONSTANTS
  Threads = 32
  MinWidth = 16
  Lanes = 8
  BankWords = 4
  Detectors = {"3R1W", "1R1W_16b"}
  IdxFifoDepth = 4
  BurstDepth = 2
  SpBus = 4
  Programs <- EdgeLoads
INVARIANTS
  TransfersDoWhatTheIsaSays
CHECK_DEADLOCK FALSE
