SPECIFICATION FairSpec
CONSTANTS
    Worker = {w1, w2, w3}
    NMap = 2
    NReduce = 2
    Nil = Nil
    Slow = FALSE
    IOErrors = FALSE
    MaxCrash = 2
INVARIANTS TypeOK ReduceReadsAll JobComplete
PROPERTY JobFinishes
CHECK_DEADLOCK FALSE
