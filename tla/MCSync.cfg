\* Two devices, two edits of one file at any moment but while a download lands or an answer is on its way, a restore; engines that go on.
SPECIFICATION FairSpec
CONSTANTS
  doc = doc
  Device = {c1, c2}
  Admin = Admin
  Path <- MCPath
  Parent <- MCParent
  CopyName = {s1, s2}
  LocalCopyName = {l1, l2}
  KindsAt <- MCKindsAt
  KindsAtDoc = {"file"}
  UserActsAt = {"idle", "pull", "settle", "scan", "push", "drop"}
  Content = {x, y}
  Op = {}
  MaxEvents = 100
  MaxEdits = 2
  MaxAborts = 0
  MaxRestores = 1
  MaxPrunes = 0
  CoarseClock = FALSE
  NoPath = NoPath  NoContent = NoContent  NoEntry = NoEntry
  NoVersion = NoVersion  NoReply = NoReply  NoOp = NoOp
  NoFile = NoFile  DirNode = DirNode  NoState = NoState  NoWork = NoWork
INVARIANTS
  TypeOK SettledMirrorsServer EditsAreKept
PROPERTIES
  Converges
