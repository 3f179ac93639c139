SPECIFICATION Spec
CONSTANTS
  Client = {editor}
  Dashboard = {editor}
  Cockpit = {}
  vipA = vipA
  Vip = {vipA}
  HalfVip = HalfVip
  Torn = Torn
  None = None
  InitialConfig <- Packaged
  Faults = {}
  MaxVersion = 2
  QueueCapacity = 1
INVARIANTS
  AckedApplyStarts
