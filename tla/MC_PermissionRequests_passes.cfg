SPECIFICATION FairSpec
CHECK_DEADLOCK FALSE
CONSTANTS
    h1 = h1
    h2 = h2
    r1 = r1
    r2 = r2
    r3 = r3
    r4 = r4
    None = None
    Handlers = {h1, h2}
    Filers = {}
    Deciders = {}
    Passes = {h1, h2}
    Reverters = {h1, h2}
    Requests = {r1, r2, r3, r4}
    Employees = {"ann", "bob", "cat", "dan"}
    Dates <- TwoDates
    Today = 1
    Week <- SameWeek
    Durations = {60}
    Scheduled <- Heads
    Required <- Needed
    SurplusSafe = 1
    Levels = 2
    Limit = 50
    Filed <- SpreadFiled
    Settings = {}
    Initial <- Approving
    MaxSaves = 0
    MaxFailures = 0
INVARIANTS
    SurplusKept

    
    
