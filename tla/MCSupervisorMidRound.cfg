\* Counterexample: a round whose directory changes.
SPECIFICATION FairSpec
CONSTANTS
  default = default  docs = docs
  Space <- BothSpaces
  Default = default
  FirstSpaces = {docs}
  Root = {r1, r2}
  Goroutine = {g1, g2, g3, g4}
  RealtimeEnabled = TRUE
  MaxChanges = 2
  NoRoot = NoRoot  NoGoroutine = NoGoroutine  NoAnswer = NoAnswer
CHECK_DEADLOCK FALSE
PROPERTIES
  RoundStaysInRoot
