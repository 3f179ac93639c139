SPECIFICATION FairSpec
CONSTANTS
  Node = {1}
  Id = {1, 2, 3, 4}
  Peers <- TwoPeers
  Priority <- MCPriority
  DryRun = FALSE
  AllowMutation = TRUE
  VipConfigured = TRUE
  RequireQuorum = TRUE
  QuorumSize = 3
  Preempt = FALSE
  HeartbeatInterval = 1
  HeartbeatTimeout = 2
  DiscoveryEnabled = TRUE
  DiscoveryInterval = 1
  DiscoveryTimeout = 2
  Segment = {1, 4}
  ApiEnabled = TRUE
  IterationElapsed = 1
  InitialOwners = {}
  Faults = {"send", "receive", "probe", "add", "announce", "remove", "signal", "api", "kill", "power", "release"}
INVARIANTS
  TypeOK
  ViewIsFresh
  OperationsMatchInterface
  HeartbeatFailureFailsClosed
  OwnersSeeQuorum
  ElectionIsObeyed
PROPERTIES
  ClaimsSeeQuorum
  ShutdownStops
  SelfFencing
