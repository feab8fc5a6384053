CONSTANTS
    MaxCalls = 5
    MaxCloses = 2
    MaxRestarts = 1
    Width = 8
    PendingAtStart = FALSE
    NestedStart = FALSE
    SharedSending = FALSE
    SendToLeftovers = FALSE
SPECIFICATION FairSpec
INVARIANT InStep
INVARIANT OwnResult
PROPERTY EveryQueuedAnswered
