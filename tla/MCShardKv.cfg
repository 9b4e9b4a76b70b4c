SPECIFICATION FairSpec
CONSTANTS
    Call = {c1, c2}
    EndName = {c1, c2}
    ServerName <- MCServerName
    Server <- MCServer
    Nil = Nil
    Gid = {1, 2}
    N = 1
    NCtl = 2
    Key <- MCKey
    NShards = 2
    Configs <- MCConfigs
    MaxOps = 1
    MaxGen = 2
    MaxSteps = 2
INVARIANTS TypeOK AckedIsDurable
PROPERTIES KeepsTrying ServedOnceSettled
CHECK_DEADLOCK FALSE
