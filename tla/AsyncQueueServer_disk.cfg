CONSTANTS
    c1 = c1
    c2 = c2
    NoClient = NoClient
    k1 = k1
    k2 = k2
    Clients = {c1, c2}
    Keys = {k1}
    MaxMsgs = 4
    MaxObjs = 2
    MaxJoins = 2
    SoloCreate = TRUE
    OneKeyTrans = TRUE
    DiskFails = TRUE
SPECIFICATION FairSpec
INVARIANT NothingFromFailed
PROPERTY EveryRequestReturns
CHECK_DEADLOCK FALSE
