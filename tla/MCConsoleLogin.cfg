\* Counterexample: the account logged in is not the one that is synchronised.
SPECIFICATION FairSpec
CONSTANTS
  Account = {a1, a2}
  Sync = {s1, s2, s3, s4, s5, s6}
  MaxClicks = 3
  NoAccount = NoAccount  NoSync = NoSync
CHECK_DEADLOCK FALSE
PROPERTIES
  WhoIsSynced
