SPECIFICATION FairSpec
CONSTANTS
    Paths = {1, 2}
    RawIds <- MCRawIds
    IdOf <- MCIdOf
    MaxVersion = 3
    MaxChunks = 2
    Frames <- PlainFrames
    Calls <- AllCalls
    Keys <- MCKeys
    Whole <- MCWhole
    Detect = "hash"
    Mode = "create_if_missing"
    DeleteOrphans = TRUE
    TwoPhase = TRUE
    Limits <- MCNoLimit
    MaxFaults = 1
    Online = TRUE
    Restores = FALSE
PROPERTIES
    FilesOfARunAreLinked
    ImplementsMirror
    EventuallyIngested
