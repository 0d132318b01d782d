SPECIFICATION Spec
CONSTANTS
    Events = {1, 2}
    Sessions = {1}
    SessionOf <- OneSession
    Facts = {f}
    NoFact = nofact
    FactOf <- AllState
    EventTs <- Undated
    Episodes <- CutAfterOne
    Windows <- CutAfterTwo
    Cells = {"realtime", "consolidate"}
    MinAge = 0
    MaxSessions = 0
    DocLimit = 0
    DeleteOrphans = FALSE
    MaxTime = 4
    MaxFaults = 1
    Monotone = TRUE
    Straddle = TRUE
    Prunes = TRUE
INVARIANTS
    RowsContiguous
