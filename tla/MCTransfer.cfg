\* Two devices, two edits, and one of: a save that fails, a crash of the server, a client that dies, the network.
SPECIFICATION TransferSpec
CONSTANTS
  doc = doc  k1 = k1  k2 = k2  k3 = k3
  Device = {c1, c2}
  Admin = Admin
  Path <- MCPath
  Parent <- MCParent
  CopyName = {s1}
  LocalCopyName = {l1}
  TempName = {t1}
  KindsAt <- MCKindsAt
  UserActsAt = {"idle", "verify", "read", "send", "commit"}
  CutAt = {"land", "settle", "send"}
  Content <- MCContent
  Chunk <- MCChunk
  Text <- MCText
  NoChunk = NoChunk
  Op = {}
  MaxEvents = 100
  MaxEdits = 2
  MaxAborts = 1
  MaxRestores = 0
  MaxPrunes = 0
  MaxFaults = 1
  CoarseClock = FALSE
  NoPath = NoPath  NoContent = NoContent  NoEntry = NoEntry
  NoVersion = NoVersion  NoReply = NoReply  NoOp = NoOp
  NoFile = NoFile  DirNode = DirNode  NoState = NoState  NoWork = NoWork
SYMMETRY Symmetric
CHECK_DEADLOCK FALSE
INVARIANTS
  TransferTypeOK Downloadable WholeFiles SettledIsRight
