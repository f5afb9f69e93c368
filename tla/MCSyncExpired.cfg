\* A file is made again after its tombstone has left the trash.
SPECIFICATION FairSpec
CONSTANTS
  doc = doc
  Device = {c1}
  Admin = Admin
  Path <- MCPath
  Parent <- MCParent
  CopyName = {s1, s2}
  LocalCopyName = {l1, l2}
  KindsAt <- MCKindsAt
  KindsAtDoc = {"file"}
  UserActsAt = {"idle"}
  Content = {x, y, z}
  Op = {}
  MaxEvents = 100
  MaxEdits = 3
  MaxAborts = 0
  MaxRestores = 0
  MaxPrunes = 1
  CoarseClock = FALSE
  NoPath = NoPath  NoContent = NoContent  NoEntry = NoEntry
  NoVersion = NoVersion  NoReply = NoReply  NoOp = NoOp
  NoFile = NoFile  DirNode = DirNode  NoState = NoState  NoWork = NoWork
PROPERTIES
  Converges
