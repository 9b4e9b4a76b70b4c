SPECIFICATION Spec
CONSTANTS
  Server = {s1, s2}
  Command = {c1, c2}
  Call = {k1, k2}
  Nil = Nil
  MaxTerm = 2
  MaxLog = 1
  MaxPending = 1
  MaxRestart = 0
  MaxVoteCalls = 2
  MaxGoroutines = 2
CONSTRAINT Bounds
SYMMETRY Symmetry
CHECK_DEADLOCK FALSE
INVARIANT StateMachineSafety
