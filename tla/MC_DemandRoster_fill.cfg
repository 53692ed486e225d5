SPECIFICATION Spec
CHECK_DEADLOCK FALSE
CONSTANTS
    Staff = {"ann", "bob", "cat"}
    Female = {"ann"}
    NumDays = 4
    Mixes <- SomeMixes
    Leaves <- SomeLeaves
    OffDaysPerWeek = 1
    MinRestHours = 10
    MaxConsec = 2
    LastShifts = {"M", "N", "OFF"}
    Priors = {0, 1, 2}
INVARIANTS
    AtMostOneEntry
    LeaveIsKept
    RestKept
    RunsBounded
    SlotsAccounted
    GapsAreReal
    NightsLast
