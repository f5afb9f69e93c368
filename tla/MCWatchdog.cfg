\* Three commands one after another; a child crash, a killed watchdog, a restart of the machine.
SPECIFICATION FairSpec
CONSTANTS
  Operator = {o1}
  Command = {"start", "stop", "restart", "upgrade", "foreground"}
  Pid = {1, 2, 3, 4, 5, 6}
  NoPid = NoPid
  PidsReturn = FALSE
  Patient = TRUE
  MaxOpen = 1
  MaxCommands = 3
  MaxCrashes = 1
  MaxKills = 1
  MaxReboots = 1
CHECK_DEADLOCK FALSE
INVARIANTS
  TypeOK OneOfEach FilesNameThem UpgradeReplaces
PROPERTIES
  StopLeavesNothing ChildIsKept
