\* Files and directories at one path, rounds cut short, the trash restored and expired; edits at any moment but while a download lands.
SPECIFICATION Spec
CONSTANTS
  doc = doc
  Device = {c1, c2}
  Admin = Admin
  Path <- MCPath
  Parent <- MCParent
  CopyName = {s1, s2, s3}
  LocalCopyName = {l1, l2, l3}
  KindsAt <- MCKindsAt
  KindsAtDoc = {"file", "dir"}
  UserActsAt = {"idle", "pull", "settle", "scan", "push", "drop", "answer"}
  Content = {x, y}
  Op = {}
  MaxEvents = 100
  MaxEdits = 2
  MaxAborts = 1
  MaxRestores = 0
  MaxPrunes = 1
  CoarseClock = FALSE
  NoPath = NoPath  NoContent = NoContent  NoEntry = NoEntry
  NoVersion = NoVersion  NoReply = NoReply  NoOp = NoOp
  NoFile = NoFile  DirNode = DirNode  NoState = NoState  NoWork = NoWork
SYMMETRY Symmetric
PROPERTIES
  OnlyDirTombstonesLoseEdits
