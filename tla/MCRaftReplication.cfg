SPECIFICATION Spec
CONSTANTS
  Server = {s1, s2}
  Command = {c1, c2}
  Call = {k1, k2}
  Nil = Nil
  MaxTerm = 1
  MaxLog = 2
  MaxPending = 2
  MaxRestart = 0
  MaxVoteCalls = 2
  MaxGoroutines = 2
CONSTRAINT Bounds
SYMMETRY Symmetry
CHECK_DEADLOCK FALSE
INVARIANTS NextIndexAtLeastOne ApplyReadsEntries NoApplyGap StateMachineSafety LogMatching
