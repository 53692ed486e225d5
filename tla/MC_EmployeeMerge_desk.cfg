SPECIFICATION Spec
CHECK_DEADLOCK FALSE
CONSTANTS
    h1 = h1
    h2 = h2
    i1 = i1
    a = a
    b = b
    c = c
    d = d
    None = None
    Merges = {h1, h2}
    Imports = {i1}
    Employees = {a, b, c, d}
    Known = {a, b, c}
    Dates = {1, 2}
    Rows <- SheetRows
    OnFile <- FirstRecords
    MaxFailures = 1
SYMMETRY Alike
INVARIANTS
    AliasesLead
    MoveIsFree
    DatesAreKept
