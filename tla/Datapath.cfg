SPECIFICATION MCSpec
CONSTANTS
  THREADS = 8
  LANES = 4
  LINE = 2
  RCPUS = 2
  W = 4
  Stages = 3
  BufferDims <- MCBufferDims
INVARIANTS EntriesMatch KeepsGoing
PROPERTIES ImplementsThreads
