\* Counterexample: a commit whose save fails is seen by a device and lost by a crash; its event number is used again.
SPECIFICATION TransferSpec
CONSTANTS
  doc = doc  k1 = k1  k2 = k2  k3 = k3
  Device = {c1, c2}
  Admin = Admin
  Path <- MCPath
  Parent <- MCParent
  CopyName = {s1}
  LocalCopyName = {l1}
  TempName = {t1}
  KindsAt <- MCKindsAt
  UserActsAt = {"idle", "verify", "read", "send", "commit"}
  CutAt = {}
  Content <- MCContent
  Chunk <- MCChunk
  Text <- MCText
  NoChunk = NoChunk
  Op = {}
  MaxEvents = 100
  MaxEdits = 2
  MaxAborts = 1
  MaxRestores = 0
  MaxPrunes = 0
  MaxFaults = 2
  CoarseClock = FALSE
  NoPath = NoPath  NoContent = NoContent  NoEntry = NoEntry
  NoVersion = NoVersion  NoReply = NoReply  NoOp = NoOp
  NoFile = NoFile  DirNode = DirNode  NoState = NoState  NoWork = NoWork
SYMMETRY Symmetric
INVARIANTS
  SettledMirrorsServer
CHECK_DEADLOCK FALSE
