\* Two ALMA requests at once, everything that goes over the network may fail.
SPECIFICATION Spec
CONSTANTS
    Threads <- Both
    Asked <- TwoRequests
    RowsOf <- ArchiveAndGone
    Unreadable <- Gone
    Settings <- BothSettings
    MaxBytes = 7
    MaxDatasets = 1
    MaxFileBytes = 3
    MinFree = 3
    Disk = 5
    TokenLife = 3
    Margin = 2
    Retries = 2
    CallFails = TRUE
    SubmitFails = TRUE
    DeleteFails = TRUE
    MaxMoves = 2
    MaxTicks = 3
INVARIANTS
    StagingIsSound
    NeverFull
    FreshToken
PROPERTIES
    StagingEnds
\* Every request ends.
CHECK_DEADLOCK FALSE
