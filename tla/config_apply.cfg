SPECIFICATION Spec
CONSTANTS
  Client = {editor, script}
  Dashboard = {editor}
  Cockpit = {page}
  vipA = vipA
  Vip = {vipA}
  HalfVip = HalfVip
  Torn = Torn
  None = None
  InitialConfig <- Packaged
  Faults = {"kill", "power", "disk"}
  MaxVersion = 3
  QueueCapacity = 1
INVARIANTS
  ConfigTypeOK
  StoredConfigIsSound
  AckedApplyIsKept
PROPERTIES
  BackupIsTheReplaced
  FileIsARegister
