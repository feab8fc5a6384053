CONSTANTS
    a = a
    b = b
    t1 = t1
    t2 = t2
    NoThread = NoThread
    NoPool = NoPool
    Pools = {a, b}
    Threads = {t1, t2}
    Size = 2
    MaxIds = 2
    MaxFails = 1
    OneIdle = TRUE
    Serial = TRUE
    CalmStart = TRUE
SPECIFICATION Spec
SYMMETRY Symmetry
INVARIANT SocketsInOwnPool
INVARIANT PoolReachesCore
INVARIANT NoBadPointer
INVARIANT IteratorsValid
INVARIANT LockedInHands
CHECK_DEADLOCK FALSE
