CONSTANTS
    Tables <- TwoTables
    Key = {1, 2}
    Value = {7}
    Big <- BigRow
    Databases <- OneDatabase
    Kinds = {TRUE, FALSE}
    MaxChanges = 2
    MaxBreaks = 1
    MaxReinits = 1
    MaxFailures = 1
    QuietSnapshot = TRUE
    FreshReinit = TRUE
SPECIFICATION FairSpec
INVARIANT CacheCurrent
INVARIANT WholeCache
PROPERTY CatchesUp
CHECK_DEADLOCK FALSE
