SPECIFICATION Spec
CONSTANTS
  Server = {s1, s2, s3}
  Command = {c1}
  Call = {k1}
  Nil = Nil
  MaxTerm = 2
  MaxLog = 2
  MaxPending = 0
  MaxRestart = 1
  MaxVoteCalls = 5
  MaxGoroutines = 0
CONSTRAINT Bounds
SYMMETRY Symmetry
CHECK_DEADLOCK FALSE
INVARIANTS TypeOK ElectionSafety VoteCountExact DurableState EntryTermsElected
PROPERTY VoteOncePerTerm
