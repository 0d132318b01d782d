SPECIFICATION Spec
CONSTANTS
    Paths = {1, 2}
    RawIds <- MCRawIds
    IdOf <- MCIdOf
    MaxVersion = 4
    MaxChunks = 2
    Frames <- PlainFrames
    Calls <- AllCalls
    Keys <- MCKeys
    Whole <- MCWhole
    Detect = "hash"
    Mode = "create_if_missing"
    DeleteOrphans = TRUE
    TwoPhase = FALSE
    Limits <- MCNoLimit
    MaxFaults = 0
    Online = FALSE
    Restores = TRUE
INVARIANTS
    MirrorsAtCompletion
