\* foreground refuses to start because of a lock nobody holds.
SPECIFICATION Spec
CONSTANTS
  Operator = {o1}
  Command = {"start", "foreground"}
  Pid = {1, 2, 3, 4, 5, 6}
  NoPid = NoPid
  PidsReturn = FALSE
  Patient = TRUE
  MaxOpen = 1
  MaxCommands = 2
  MaxCrashes = 0
  MaxKills = 0
  MaxReboots = 1
INVARIANT ForegroundStarts
CHECK_DEADLOCK FALSE
