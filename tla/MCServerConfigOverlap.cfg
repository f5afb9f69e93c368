\* Two updates at once write over each other: the file is no longer JSON.
SPECIFICATION Spec
CONSTANTS
  Port <- MCPort
  DefaultPort = p18002
  LongPort = p119000
  Dir <- MCDir
  DefaultDir = serverData
  OtherDir = other
  None = None
  Wrong = Wrong
  Absent = Absent
  Empty = Empty
  Cut = Cut
  Length <- MCLength
  Update = {u1, u2}
  Forms <- MCForms
  FlagSets <- NoFlags
  MaxUpdates = 2
  MaxFailures = 0
  MaxCrashes = 0
INVARIANT FileIsReadable
CHECK_DEADLOCK FALSE
