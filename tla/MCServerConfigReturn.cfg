\* A server that goes back to a directory it had left finds its old port there.
SPECIFICATION Spec
CONSTANTS
  Port <- MCPort
  DefaultPort = p18002
  LongPort = p119000
  Dir <- MCDir
  DefaultDir = serverData
  OtherDir = other
  None = None
  Wrong = Wrong
  Absent = Absent
  Empty = Empty
  Cut = Cut
  Length <- MCLength
  Update = {u1, u2}
  Forms <- MCForms
  FlagSets <- NoFlags
  MaxUpdates = 2
  MaxFailures = 0
  MaxCrashes = 2
INVARIANT UpdateTakesEffect
CHECK_DEADLOCK FALSE
