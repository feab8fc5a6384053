CONSTANTS
    MaxTransfers = 2
    Plans <- UploadThenDownload
    MaxDownloading = 1
    MaxCancels = 0
    MaxBreaks = 0
    RacyCancel = FALSE
    ReadFails = FALSE
    Overlap = TRUE
SPECIFICATION Spec
INVARIANT FrontOwnsReply
CHECK_DEADLOCK FALSE
