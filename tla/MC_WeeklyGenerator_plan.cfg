SPECIFICATION Spec
CHECK_DEADLOCK FALSE
CONSTANTS
    Teams <- AloneAndTrio
    Female = {"ann"}
    OffDaysPerWeek = {1, 2}
    MinRestHours = 10
    FirstWeeks <- SomeWeeks
    LastShifts <- AnyShift
    Streaks = {0, 3, 6, 7}
    MaxWeeks = 2
    MaxPerCall = 2
INVARIANTS
    OffDaysExact
    OneWeekendDay
    RunsBounded
    SpreadEvenly
PROPERTIES
    RestKept
