SPECIFICATION Spec
CONSTANTS
    Events = {1, 2, 3}
    Sessions = {1, 2}
    SessionOf <- OneSession
    Facts = {f}
    NoFact = nofact
    FactOf <- NobodyStates
    EventTs <- Undated
    Episodes <- CutAfterOne
    Windows <- CutAfterTwo
    Cells = {"realtime", "consolidate"}
    MinAge = 0
    MaxSessions = 0
    DocLimit = 0
    DeleteOrphans = FALSE
    MaxTime = 6
    MaxFaults = 0
    Monotone = FALSE
    Straddle = FALSE
    Prunes = FALSE
INVARIANTS
    RetiredIsRemembered
