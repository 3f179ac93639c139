SPECIFICATION Spec
CONSTANTS
  Client = {script}
  Dashboard = {}
  Cockpit = {page}
  vipA = vipA
  Vip = {vipA}
  HalfVip = HalfVip
  Torn = Torn
  None = None
  InitialConfig <- Packaged
  Faults = {}
  MaxVersion = 2
  QueueCapacity = 1
PROPERTIES
  BackupReflectsTheReplaced
