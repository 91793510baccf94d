SPECIFICATION FairSpec
CONSTANTS
  Units = 2
  Works <- TwoWgs
  LoadTime = 1
  WgFifoDepth = 1
  KickDepth = 2
  TicketMod = 2
  MaxLdst = 1
  LdstKinds = {"BLOCKED_DRAM_POSTEXIT", "BLOCKED_SP"}
  PairwiseWg = TRUE
  NoParallelDramSp = TRUE
  Shadow = {}
INVARIANTS
  PairwiseNeverWedged
  OneTransferAtATime
PROPERTIES
  KernelFinishes
