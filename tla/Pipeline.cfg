SPECIFICATION Spec
CONSTANTS
  Stages = 3
  LastWarp = 1
  Lanes = 1
  StackSize = 3
  TicketMod = 2
  Path <- UnknownPath
  Programs <- ShortOrEarly
  Prompt <- ExitIsLast
INVARIANTS
  TypeOK
  NoStaleOperand
  ScoreboardMatchesPipeline
PROPERTIES
  CommitsInProgramOrder
  OnlyRunningWgsCommit
  TicketsInOrder
