SPECIFICATION ClusterSpec
CONSTANTS
  Node = {1, 2, 3}
  Id = {1, 2, 3}
  Peers <- AllOthers
  Priority <- Descending
  DryRun = FALSE
  AllowMutation = TRUE
  VipConfigured = TRUE
  RequireQuorum = TRUE
  QuorumSize = 0
  Preempt = TRUE
  HeartbeatInterval = 1
  HeartbeatTimeout = 2
  DiscoveryEnabled = FALSE
  DiscoveryInterval = 1
  DiscoveryTimeout = 2
  Segment = {1, 2, 3}
  ApiEnabled = FALSE
  IterationElapsed = 1
  InitialOwners = {1}
  Faults = {"kill", "power"}
  InboxCapacity = 2
  MaxCrashes = 0
  MaxLinkChanges = 1
  LinkStates <- FirstCutOff
  AgeLimit = 0
  RestartDelay = 2
INVARIANTS
  AtMostOneWarmOwner
