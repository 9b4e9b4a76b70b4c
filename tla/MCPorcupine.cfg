SPECIFICATION FairSpec
CONSTANTS
    k1 = k1
    k2 = k2
    a = a
    b = b
    Key <- MCKey
    Value <- MCValue
    Histories <- MCHistories
INVARIANTS VerdictRight PartialsLegal PartialsLongest ListExact
PROPERTY CheckReturns
CHECK_DEADLOCK FALSE
