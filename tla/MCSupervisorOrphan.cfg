\* Counterexample: an engine goroutine nobody can cancel.
SPECIFICATION FairSpec
CONSTANTS
  default = default  docs = docs
  Space <- BothSpaces
  Default = default
  FirstSpaces = {docs}
  Root = {r1}
  Goroutine = {g1, g2, g3, g4, g5}
  RealtimeEnabled = FALSE
  MaxChanges = 3
  NoRoot = NoRoot  NoGoroutine = NoGoroutine  NoAnswer = NoAnswer
CHECK_DEADLOCK FALSE
PROPERTIES
  InactiveRests
