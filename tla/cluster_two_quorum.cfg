SPECIFICATION FairClusterSpec
CONSTANTS
  Node = {1, 2}
  Id = {1, 2}
  Peers <- AllOthers
  Priority <- Descending
  DryRun = FALSE
  AllowMutation = TRUE
  VipConfigured = TRUE
  RequireQuorum = TRUE
  QuorumSize = 0
  Preempt = TRUE
  HeartbeatInterval = 1
  HeartbeatTimeout = 3
  DiscoveryEnabled = FALSE
  DiscoveryInterval = 1
  DiscoveryTimeout = 2
  Segment = {1, 2}
  ApiEnabled = FALSE
  IterationElapsed = 1
  InitialOwners = {}
  Faults = {"kill", "power"}
  InboxCapacity = 4
  MaxCrashes = 1
  MaxLinkChanges = 1
  LinkStates <- AnyLinks
  AgeLimit = 12
  RestartDelay = 2
INVARIANTS
  ClusterTypeOK
  AtMostOneOwner
  DetectionIsBounded
PROPERTIES
  EveryNodeIsADaemon
  TopNodeTakesOver
