SPECIFICATION Spec
CONSTANTS
  Units = 2
  Works <- OneRow
  LoadTime = 1
  WgFifoDepth = 1
  KickDepth = 2
  TicketMod = 2
  MaxLdst = 1
  LdstKinds = {"BLOCKED_DRAM", "BLOCKED_DRAM_POSTEXIT", "BLOCKED_SP"}
  PairwiseWg = FALSE
  NoParallelDramSp = FALSE
  Shadow = {"ldst"}
INVARIANTS
  CompletionsFindTheirWg
