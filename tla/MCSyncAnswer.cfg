\* A round is cut short after the server has applied its request.
SPECIFICATION Spec
CONSTANTS
  doc = doc
  Device = {c1, c2}
  Admin = Admin
  Path <- MCPath
  Parent <- MCParent
  CopyName = {s1, s2}
  LocalCopyName = {l1, l2}
  KindsAt <- MCKindsAt
  KindsAtDoc = {"file"}
  UserActsAt = {"idle"}
  Content = {x, y}
  Op = {}
  MaxEvents = 100
  MaxEdits = 2
  MaxAborts = 1
  MaxRestores = 0
  MaxPrunes = 0
  CoarseClock = FALSE
  NoPath = NoPath  NoContent = NoContent  NoEntry = NoEntry
  NoVersion = NoVersion  NoReply = NoReply  NoOp = NoOp
  NoFile = NoFile  DirNode = DirNode  NoState = NoState  NoWork = NoWork
SYMMETRY Symmetric
INVARIANTS
  SettledMirrorsServer
