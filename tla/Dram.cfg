SPECIFICATION Spec
CONSTANTS
  Wgs = {0, 1}
  Pairs = 2
  LastRow = 1
  BurstFifoDepth = 1
  CmdFifoDepth = 2
  RefDelays = {3, 5}
  MaxRefPending = 1
  MaxBursts = 3
  Policies = {"LINEAR", "ALAP"}
  Buffer <- LastPair
INVARIANTS
  AllBanksPrecharged
  ActiveRowsArePredicted
PROPERTIES
  RowsAreOpen
  RefreshIsLegal
  RefreshComesFirst
  ServesRequests
