SPECIFICATION Spec
CONSTANTS
  Node = {1}
  Id = {1, 2, 3}
  Peers <- TwoPeers
  Priority <- MCPriority
  DryRun = FALSE
  AllowMutation = TRUE
  VipConfigured = TRUE
  RequireQuorum = TRUE
  QuorumSize = 0
  Preempt = FALSE
  HeartbeatInterval = 1
  HeartbeatTimeout = 3
  DiscoveryEnabled = FALSE
  DiscoveryInterval = 1
  DiscoveryTimeout = 2
  Segment = {1, 2, 3}
  ApiEnabled = TRUE
  IterationElapsed = 1
  InitialOwners = {}
  Faults = {}
PROPERTIES
  MutationAfterWarmup
