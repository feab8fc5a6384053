CONSTANTS
    MaxTransfers = 3
    Plans <- AtMostOneOdd
    MaxDownloading = 2
    MaxCancels = 1
    MaxBreaks = 1
    RacyCancel = FALSE
    ReadFails = TRUE
    Overlap = FALSE
SPECIFICATION FairSpec
INVARIANT FrontOwnsReply
INVARIANT EndsOnce
INVARIANT SuccessIsComplete
INVARIANT FailedDownloadUndone
INVARIANT NoHalfUpload
PROPERTY EveryTransferEnds
CHECK_DEADLOCK FALSE
