SPECIFICATION Spec
CONSTANTS
    Worker = {w1, w2, w3}
    NMap = 2
    NReduce = 2
    Nil = Nil
    Slow = TRUE
    IOErrors = TRUE
    MaxCrash = 1
SYMMETRY Symmetry
INVARIANTS RePendingValid
CHECK_DEADLOCK FALSE
