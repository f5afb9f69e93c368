\* Three requests that touch the same facts, two at once, with one save that fails and one crash.
SPECIFICATION Spec
CONSTANTS
  a1 = a1  a2 = a2  a3 = a3  d = d  x = x  y = y
  Account = {a1, a2, a3}
  Admin = a1
  Space = {"default", "docs"}
  Default = "default"
  Device = {d}
  Root = {x, y}
  Name = {"root", "second", "third"}
  AdminName = "root"
  Password = {"first", "second"}
  AdminPassword = "first"
  Settings = {"quick", "slow"}
  DefaultSettings = "quick"
  Request <- MCRequest
  Ask <- MCAsk
  Seed <- MCSeed
  Batch <- MCBatch
  MaxOpen = 2
  MaxFailures = 1
  MaxCrashes = 1
  MaxRecords = 1
  NoName = NoName  NoRoot = NoRoot  NoDevice = NoDevice  NoToken = NoToken
  NoAccount = NoAccount  Nobody = Nobody  Startup = Startup  Unknown = Unknown
CHECK_DEADLOCK FALSE
INVARIANTS
  TypeOK AckedSurvives LoadedIsConsistent LateIsRefused AdminRemains
PROPERTIES
  RecordsKeepNewest
