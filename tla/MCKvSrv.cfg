SPECIFICATION Spec
CONSTANTS
  Client = {c1, c2}
  Key = {k1}
  Token = {t1}
  Text <- MCText
  Reserved <- MCNoneReserved
  Nil = Nil
  MaxSeq = 2
INVARIANTS TypeOK InSequence
PROPERTIES Linearizable CallsReturn
CHECK_DEADLOCK FALSE
