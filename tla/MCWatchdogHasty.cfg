\* foreground right after a start, then a stop: the EXIT trap removes the lock of the other watchdog.
SPECIFICATION Spec
CONSTANTS
  Operator = {o1}
  Command = {"start", "stop", "restart", "upgrade", "foreground"}
  Pid = {1, 2, 3, 4, 5, 6}
  NoPid = NoPid
  PidsReturn = FALSE
  Patient = FALSE
  MaxOpen = 1
  MaxCommands = 3
  MaxCrashes = 0
  MaxKills = 0
  MaxReboots = 0
INVARIANTS OneOfEach
CHECK_DEADLOCK FALSE
