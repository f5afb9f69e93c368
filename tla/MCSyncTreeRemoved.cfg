\* A directory removed on one device while a file is made in it on another.
SPECIFICATION Spec
CONSTANTS
  d = d  f = f  dCopy = dCopy  fCopy = fCopy  fLocal = fLocal
  Device = {c1, c2}
  Admin = Admin
  Path <- MCPath
  Parent <- MCParent
  CopyName <- MCCopyName
  LocalCopyName <- MCLocalCopyName
  KindsAt <- MCKindsAt
  UserActsAt = {"idle"}
  Content = {x, y, z}
  Op = {}
  MaxEvents = 100
  MaxEdits = 3
  MaxAborts = 0
  MaxRestores = 0
  MaxPrunes = 0
  CoarseClock = FALSE
  NoPath = NoPath  NoContent = NoContent  NoEntry = NoEntry
  NoVersion = NoVersion  NoReply = NoReply  NoOp = NoOp
  NoFile = NoFile  DirNode = DirNode  NoState = NoState  NoWork = NoWork
SYMMETRY Symmetric
INVARIANTS
  SettledMirrorsServer
