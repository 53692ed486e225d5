SPECIFICATION Spec
CHECK_DEADLOCK FALSE
CONSTANTS
    r1 = r1
    r2 = r2
    a = a
    b = b
    None = None
    Handlers = {"h1"}
    Slots = {a, b}
    Plans <- TheApart
    Requests = {r1, r2}
    Windows <- Asked
    Intervals <- Halves
    Spare <- SpareHeads
    MinAvailable = 3
    Snapshots <- Queues
    MaxSnapshots = 1
    MaxPlans = 2
    MaxFailures = 1
SYMMETRY Symmetric
INVARIANTS
    SlotsExplained
PROPERTIES
    GrantsKeepCoverage
