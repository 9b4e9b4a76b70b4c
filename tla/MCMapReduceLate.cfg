SPECIFICATION Spec
CONSTANTS
    Worker = {w1, w2}
    NMap = 1
    NReduce = 1
    Nil = Nil
    Slow = TRUE
    IOErrors = FALSE
    MaxCrash = 0
SYMMETRY Symmetry
INVARIANTS JobComplete
CHECK_DEADLOCK FALSE
