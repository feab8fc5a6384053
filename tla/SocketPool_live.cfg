CONSTANTS
    a = a
    b = b
    t1 = t1
    t2 = t2
    NoThread = NoThread
    NoPool = NoPool
    Pools = {a}
    Threads = {t1, t2}
    Size = 2
    MaxIds = 1
    MaxFails = 1
    OneIdle = TRUE
    Serial = TRUE
    CalmStart = TRUE
SPECIFICATION FairSpec
PROPERTY CallsReturn
CHECK_DEADLOCK FALSE
