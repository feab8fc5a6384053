CONSTANTS
    t1 = t1
    t2 = t2
    NoThread = NoThread
    ra = ra
    rb = rb
    rm = rm
    Threads = {t1, t2}
    ReqIds = {ra, rb}
    MuteIds = {rm}
    MaxCalls = 2
    MaxCloses = 1
    Random = TRUE
    Exclusive = TRUE
    PatientReconnect = TRUE
    QuietCancel = TRUE
SPECIFICATION FairSpec
INVARIANT CallbackKept
PROPERTY EverySentSettles
