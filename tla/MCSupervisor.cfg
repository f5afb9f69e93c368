\* One space; four changes, so that a goroutine that ended late has left a
\* running one without flags when the account's sync is switched off.
SPECIFICATION FairSpec
CONSTANTS
  default = default  docs = docs
  Space = {default}
  Default = default
  FirstSpaces = {default}
  Root = {r1, r2}
  Goroutine = {g1, g2, g3, g4, g5}
  RealtimeEnabled = TRUE
  MaxChanges = 4
  NoRoot = NoRoot  NoGoroutine = NoGoroutine  NoAnswer = NoAnswer
CHECK_DEADLOCK FALSE
INVARIANTS
  FlagMeansRunning
PROPERTIES
  EnabledIsSynced DisabledRests RootIsFollowed CancelEndsAll
