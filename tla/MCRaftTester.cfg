SPECIFICATION FairSpec
CONSTANTS
    N = 2
    Call = {c1}
    EndName <- MCEndName
    ServerName <- MCPeer
    Server <- MCServer
    Nil = Nil
    Cmd = {v1, v2}
    MaxIndex = 2
    MaxGen = 2
    MaxSteps = 3
INVARIANTS TypeOK AckedIsDurable EndsFollowConnected DisagreementFails OneMeansCommitted
PROPERTY CallReturns
CHECK_DEADLOCK FALSE
