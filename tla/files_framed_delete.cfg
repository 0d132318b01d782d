SPECIFICATION Spec
CONSTANTS
    Paths = {1, 2}
    RawIds <- MCRawIds
    IdOf <- MCIdOf
    MaxVersion = 3
    MaxChunks = 2
    Frames <- SplitFrames
    Keys <- MCKeys
    Whole <- MCWhole
    Detect = "hash"
    Mode = "create_if_missing"
    DeleteOrphans = TRUE
    TwoPhase = FALSE
    Limits <- MCNoLimit
    MaxFaults = 0
    Online = FALSE
    Restores = FALSE
INVARIANTS
    MirrorsAtCompletion
