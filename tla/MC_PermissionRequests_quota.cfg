SPECIFICATION Spec
CHECK_DEADLOCK FALSE
CONSTANTS
    h1 = h1
    h2 = h2
    r1 = r1
    r2 = r2
    r3 = r3
    r4 = r4
    None = None
    Handlers = {h1, h2}
    Filers = {h1}
    Deciders = {h2}
    Passes = {h2}
    Reverters = {}
    Requests = {r1, r2, r3, r4}
    Employees = {"ann"}
    Dates <- OneDate
    Today = 1
    Week <- OneWeek
    Durations = {60, 180}
    Scheduled <- Enough
    Required <- Enough
    SurplusSafe = 1
    Levels = 2
    Limit = 50
    Filed <- Nothing
    Settings = {}
    Initial <- Rejecting
    MaxSaves = 0
    MaxFailures = 0
SYMMETRY Symmetric
INVARIANTS
    
    WeeklyQuota
