SPECIFICATION FairClusterSpec
CONSTANTS
  Node = {1, 2}
  Id = {1, 2}
  Peers <- AllOthers
  Priority <- Descending
  DryRun = FALSE
  AllowMutation = TRUE
  VipConfigured = TRUE
  RequireQuorum = FALSE
  QuorumSize = 0
  Preempt = FALSE
  HeartbeatInterval = 1
  HeartbeatTimeout = 2
  DiscoveryEnabled = TRUE
  DiscoveryInterval = 1
  DiscoveryTimeout = 2
  Segment = {1, 2}
  ApiEnabled = FALSE
  IterationElapsed = 1
  InitialOwners = {1, 2}
  Faults = {"kill", "power"}
  InboxCapacity = 3
  MaxCrashes = 1
  MaxLinkChanges = 1
  LinkStates <- AnyLinks
  AgeLimit = 10
  RestartDelay = 2
INVARIANTS
  ViewIsFresh
  PoolIsBounded
PROPERTIES
  OneOwnerInTheEnd
