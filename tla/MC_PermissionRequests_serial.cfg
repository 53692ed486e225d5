SPECIFICATION Spec
CHECK_DEADLOCK FALSE
CONSTANTS
    h1 = h1
    h2 = h2
    r1 = r1
    r2 = r2
    r3 = r3
    r4 = r4
    None = None
    Handlers = {h1}
    Filers = {h1}
    Deciders = {h1}
    Passes = {h1}
    Reverters = {h1}
    Requests = {r1, r2}
    Employees = {"ann"}
    Dates <- TwoDates
    Today = 1
    Week <- SameWeek
    Durations = {60}
    Scheduled <- SomeDanger
    Required <- Needed
    SurplusSafe = 1
    Levels = 1
    Limit = 50
    Filed <- PairNothing
    Settings <- AnySettings
    Initial <- Off
    MaxSaves = 2
    MaxFailures = 1
PROPERTIES
    
    AutoActsOnRecord
