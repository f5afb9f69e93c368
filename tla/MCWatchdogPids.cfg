\* After a restart of the machine the pid files name a stranger.
SPECIFICATION Spec
CONSTANTS
  Operator = {o1}
  Command = {"start", "stop"}
  Pid = {1, 2, 3, 4, 5, 6}
  NoPid = NoPid
  PidsReturn = TRUE
  Patient = TRUE
  MaxOpen = 1
  MaxCommands = 2
  MaxCrashes = 0
  MaxKills = 0
  MaxReboots = 1
INVARIANT StrangersAreLeft
CHECK_DEADLOCK FALSE
