SPECIFICATION Spec
CONSTANTS
  Units = 2
  Works <- Grids
  LoadTime = 2
  WgFifoDepth = 1
  KickDepth = 2
  TicketMod = 2
  MaxLdst = 1
  LdstKinds = {"BLOCKED_DRAM", "BLOCKED_DRAM_POSTEXIT", "BLOCKED_SP"}
  PairwiseWg = FALSE
  NoParallelDramSp = FALSE
  Shadow = {"exit"}
INVARIANTS
  TypeOK
  OneRequestPerBlockedWg
  CompletionsFindTheirWg
  NoAccessExecuteHazard
  NoLostKick
PROPERTIES
  ImplementsKernelExec
