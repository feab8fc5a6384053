CONSTANTS
    t1 = t1
    t2 = t2
    NoThread = NoThread
    ra = ra
    rb = rb
    rm = rm
    Threads = {t1, t2}
    ReqIds = {ra, rb}
    MuteIds = {rm}
    MaxCalls = 3
    MaxCloses = 1
    Random = FALSE
    Exclusive = TRUE
    PatientReconnect = TRUE
    QuietCancel = TRUE
SPECIFICATION Spec
SYMMETRY Symmetry
INVARIANT TypeOK
INVARIANT OnePlace
INVARIANT OwnResult
INVARIANT CallbackKept
INVARIANT FiresOnce
