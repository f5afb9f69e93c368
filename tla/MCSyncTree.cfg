\* A directory and a file in it, edited at any moment but while a download lands.
SPECIFICATION Spec
CONSTANTS
  d = d  f = f  dCopy = dCopy  fCopy = fCopy  fLocal = fLocal
  Device = {c1, c2}
  Admin = Admin
  Path <- MCPath
  Parent <- MCParent
  CopyName <- MCCopyName
  LocalCopyName <- MCLocalCopyName
  KindsAt <- MCKindsAt
  UserActsAt = {"idle", "pull", "settle", "scan", "push", "drop", "answer"}
  Content = {x, y, z}
  Op = {}
  MaxEvents = 100
  MaxEdits = 4
  MaxAborts = 0
  MaxRestores = 0
  MaxPrunes = 0
  CoarseClock = FALSE
  NoPath = NoPath  NoContent = NoContent  NoEntry = NoEntry
  NoVersion = NoVersion  NoReply = NoReply  NoOp = NoOp
  NoFile = NoFile  DirNode = DirNode  NoState = NoState  NoWork = NoWork
SYMMETRY Symmetric
INVARIANTS
  EditsAreKept
