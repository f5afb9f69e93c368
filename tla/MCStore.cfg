\* Three operations, each handled up to twice, one failed save, one crash, one restore.
SPECIFICATION Spec
CONSTANTS
  d = d  f = f  dCopy = dCopy  fCopy = fCopy
  Device = {dev}
  Admin = Admin
  Path <- MCPath
  Parent <- MCParent
  CopyName <- MCCopyName
  Content = {x, y}
  Op = {o1, o2, o3}
  MaxEvents = 3
  MaxAttempts = 2
  MaxFailures = 1
  MaxRestores = 1
  MaxCrashes = 1
  NoPath = NoPath  NoContent = NoContent  NoEntry = NoEntry
  NoVersion = NoVersion  NoReply = NoReply  NoOp = NoOp  NoRequest = NoRequest
CHECK_DEADLOCK FALSE
SYMMETRY Symmetric
INVARIANTS
  EventWindow FilesMatchLog BaseChain OneVersionPerOperation
  AckedIsDurable RestoredIsDeleted
PROPERTIES
  ImplementsHistory
