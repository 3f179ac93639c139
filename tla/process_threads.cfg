SPECIFICATION FairSpec
CONSTANTS
  Client = {c1, c2}
  NoClient = NoClient
  Backlog = 1
  MaxReads = 2
  MaxCommands = 2
  Faults <- AllFaults
INVARIANTS
  TypeOK
  StartupStateOutlivesThread
  ExitTellsFailure
  ReasonIsTrue
  SuccessIsReal
PROPERTIES
  ShutdownEnds
  ClientsAreServed
