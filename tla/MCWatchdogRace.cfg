\* Two starts at once: each takes the other's lock away.
SPECIFICATION Spec
CONSTANTS
  Operator = {o1, o2}
  Command = {"start"}
  Pid = {1, 2, 3, 4, 5, 6}
  NoPid = NoPid
  PidsReturn = FALSE
  Patient = TRUE
  MaxOpen = 2
  MaxCommands = 2
  MaxCrashes = 0
  MaxKills = 0
  MaxReboots = 0
INVARIANT OneOfEach
CHECK_DEADLOCK FALSE
