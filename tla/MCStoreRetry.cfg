\* What a retry of a handled operation leaves behind.
SPECIFICATION Spec
CONSTANTS
  d = d  f = f  dCopy = dCopy  fCopy = fCopy
  Device = {dev}
  Admin = Admin
  Path <- MCPath
  Parent <- MCParent
  CopyName <- MCCopyName
  Content = {x, y}
  Op = {o1, o2, o3}
  MaxEvents = 3
  MaxAttempts = 2
  MaxFailures = 0
  MaxRestores = 0
  MaxCrashes = 0
  NoPath = NoPath  NoContent = NoContent  NoEntry = NoEntry
  NoVersion = NoVersion  NoReply = NoReply  NoOp = NoOp  NoRequest = NoRequest
CHECK_DEADLOCK FALSE
SYMMETRY Symmetric
PROPERTIES
  RetryMakesNoVersion
