SPECIFICATION FairSpec
CHECK_DEADLOCK FALSE
CONSTANTS
    h1 = h1
    h2 = h2
    r1 = r1
    r2 = r2
    Off = Off
    Manual = Manual
    None = None
    Handlers <- MCHandlers
    Requests = {r1, r2}
    Shifts = {"M", "EE"}
    Female <- MCFemale
    Midnight = {}
    ShortRest = {}
    Cells <- Pair
    Roster <- PairRoster
    MaxEdits = 0
    MaxFailures = 0
INVARIANTS
    ApprovedIsApplied
    SnapshotsAreCurrent
PROPERTIES
    CallsEnd
    ImplementsLedger
