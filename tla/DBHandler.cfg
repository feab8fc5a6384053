CONSTANTS
    Thread = {t1, t2}
    MaxCalls = 3
    MaxCloses = 1
    MaxExceptions = 1
    Prepared <- OneProcedure
    Batches <- OneBatch
    Arrays <- SomeArrays
    BatchSize = 3
    MidCall = FALSE
    PatientReconnect = TRUE
SPECIFICATION Spec
INVARIANT BindsOwnParameters
INVARIANT RowsComplete
INVARIANT OutputsInPlace
INVARIANT NoStalePointer
SYMMETRY Symmetry
CHECK_DEADLOCK FALSE
