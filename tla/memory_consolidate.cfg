SPECIFICATION Spec
CONSTANTS
    Events = {1, 2, 3}
    Sessions = {1, 2}
    SessionOf <- TwoSessions
    Facts = {f}
    NoFact = nofact
    FactOf <- AllState
    EventTs <- SomeDated
    Episodes <- CutAfterOne
    Windows <- CutAfterTwo
    Cells = {"consolidate"}
    MinAge = 1
    MaxSessions = 0
    DocLimit = 1
    DeleteOrphans = FALSE
    MaxTime = 8
    MaxFaults = 1
    Monotone = TRUE
    Straddle = FALSE
    Prunes = FALSE
INVARIANTS
    RetiredIsRemembered
    FactsOfSessionSettled
