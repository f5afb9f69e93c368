\* Three updates, two at a time, one failure, two crashes.
SPECIFICATION FairSpec
CONSTANTS
  Port <- MCPort
  DefaultPort = p18002
  LongPort = p119000
  Dir <- MCDir
  DefaultDir = serverData
  OtherDir = other
  None = None
  Wrong = Wrong
  Absent = Absent
  Empty = Empty
  Cut = Cut
  Length <- MCLength
  Update = {u1, u2}
  Forms <- MCForms
  FlagSets <- MCFlags
  MaxUpdates = 3
  MaxFailures = 1
  MaxCrashes = 2
CHECK_DEADLOCK FALSE
INVARIANTS
  TypeOK UpdateKept
PROPERTIES
  StartsAgain
