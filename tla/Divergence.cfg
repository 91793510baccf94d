SPECIFICATION FairSpec
CONSTANTS
  Stages = 3
  LastWarp = 1
  Lanes = 1
  StackSize = 3
  TicketMod = 2
  Path <- StructuredPath
  Programs <- StructuredCode
  Prompt <- ExitIsLast
INVARIANTS
  PushesAreCounted
PROPERTIES
  ImplementsIsa
  ThreadsFollowTheirPath
  SomeThreadComesBack
  StallsEnd
