\* A device comes back after more changes than the event log retains.
SPECIFICATION Spec
CONSTANTS
  doc = doc
  Device = {c1, c2}
  Admin = Admin
  Path <- MCPath
  Parent <- MCParent
  CopyName = {s1, s2}
  LocalCopyName = {l1, l2}
  KindsAt <- MCKindsAt
  KindsAtDoc = {"file"}
  UserActsAt = {"idle"}
  Content = {x, y, z}
  Op = {}
  MaxEvents = 1
  MaxEdits = 3
  MaxAborts = 0
  MaxRestores = 0
  MaxPrunes = 0
  CoarseClock = FALSE
  NoPath = NoPath  NoContent = NoContent  NoEntry = NoEntry
  NoVersion = NoVersion  NoReply = NoReply  NoOp = NoOp
  NoFile = NoFile  DirNode = DirNode  NoState = NoState  NoWork = NoWork
SYMMETRY Symmetric
INVARIANTS
  SettledMirrorsServer
