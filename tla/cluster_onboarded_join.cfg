SPECIFICATION FairClusterSpec
CONSTANTS
  Node = {1, 2}
  Id = {1, 2}
  Peers <- Onboarded
  Priority <- Descending
  DryRun = FALSE
  AllowMutation = TRUE
  VipConfigured = TRUE
  RequireQuorum = FALSE
  QuorumSize = 0
  Preempt = TRUE
  HeartbeatInterval = 1
  HeartbeatTimeout = 2
  DiscoveryEnabled = FALSE
  DiscoveryInterval = 1
  DiscoveryTimeout = 2
  Segment = {1, 2}
  ApiEnabled = FALSE
  IterationElapsed = 1
  InitialOwners = {1}
  Faults = {"kill", "power"}
  InboxCapacity = 3
  MaxCrashes = 0
  MaxLinkChanges = 0
  LinkStates <- Connected
  AgeLimit = 0
  RestartDelay = 2
PROPERTIES
  OneOwnerInTheEnd
