SPECIFICATION FairSpec
CONSTANTS
  Stubborn <- AllProcesses
  Faults <- AllFaults
INVARIANTS
  TypeOK
  ReportIsTrue
  NothingLeftToReap
  SignalsHitTheChild
  PoliteGroupIsGone
PROPERTIES
  RunReturns
