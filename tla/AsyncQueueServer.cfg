CONSTANTS
    c1 = c1
    c2 = c2
    NoClient = NoClient
    k1 = k1
    k2 = k2
    Clients = {c1, c2}
    Keys = {k1, k2}
    MaxMsgs = 3
    MaxObjs = 2
    MaxJoins = 2
    SoloCreate = TRUE
    OneKeyTrans = TRUE
    DiskFails = FALSE
SPECIFICATION Spec
SYMMETRY Symmetry
INVARIANT AckedKept
INVARIANT UsedQueuesOpen
INVARIANT DequeuedKept
CHECK_DEADLOCK FALSE
