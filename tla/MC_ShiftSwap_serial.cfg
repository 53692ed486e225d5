SPECIFICATION Spec
CHECK_DEADLOCK FALSE
CONSTANTS
    h1 = h1
    h2 = h2
    r1 = r1
    r2 = r2
    Off = Off
    Manual = Manual
    None = None
    Handlers = {h1}
    Requests = {r1, r2}
    Shifts <- MCShifts
    Female <- MCFemale
    Midnight <- MCMidnight
    ShortRest <- MCShortRest
    Cells <- TwoDays
    Roster <- TwoDaysRoster
    MaxEdits = 1
    MaxFailures = 1
INVARIANTS
    
    AppliedOnce
PROPERTIES
    
    
    RestIsCounted
