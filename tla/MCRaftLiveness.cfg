SPECIFICATION FairSpec
CONSTANTS
  Server = {s1, s2}
  Command = {c1}
  Call = {k1, k2}
  Nil = Nil
  MaxTerm = 1
  MaxLog = 2
  MaxPending = 1
  MaxRestart = 0
  MaxVoteCalls = 2
  MaxGoroutines = 2
CHECK_DEADLOCK FALSE
PROPERTY EventuallyApplied
