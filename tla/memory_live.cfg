SPECIFICATION FairSpec
CONSTANTS
    Events = {1, 2, 3}
    Sessions = {1, 2}
    SessionOf <- TwoSessions
    Facts = {f}
    NoFact = nofact
    FactOf <- NobodyStates
    EventTs <- SomeDated
    Episodes <- CutAfterOne
    Windows <- CutAfterTwo
    Cells = {"consolidate"}
    MinAge = 0
    MaxSessions = 0
    DocLimit = 0
    DeleteOrphans = FALSE
    MaxTime = 6
    MaxFaults = 1
    Monotone = FALSE
    Straddle = FALSE
    Prunes = FALSE
PROPERTIES
    EventuallyRemembered
