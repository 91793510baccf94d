SPECIFICATION TimedSpec
CONSTANTS
  Stages = 3
  LastWarp = 1
  Lanes = 1
  StackSize = 3
  TicketMod = 2
  Path <- UnknownPath
  Programs <- Timed
  Prompt <- ExitIsLast
  BranchCycle <- Annotated
INVARIANTS StackIsPredicted RunsAlongTheDAG WithinBound
