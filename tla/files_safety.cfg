SPECIFICATION Spec
CONSTANTS
    Paths = {1, 2}
    RawIds <- MCRawIds
    IdOf <- MCIdOf
    MaxVersion = 3
    MaxChunks = 2
    Frames <- HeadedFrames
    Calls <- AllCalls
    Keys <- MCKeys
    Whole <- MCWhole
    Detect = "hash"
    Mode = "create_if_missing"
    DeleteOrphans = FALSE
    TwoPhase = FALSE
    Limits <- MCLimitOne
    MaxFaults = 1
    Online = TRUE
    Restores = FALSE
INVARIANTS
    TypeOK
    SkippedIsIngested
    CursorInv
PROPERTIES
    SyncedStaysSynced
    FailedRunKeepsCursor
