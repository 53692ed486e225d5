SPECIFICATION Spec
CHECK_DEADLOCK FALSE
CONSTANTS
    h1 = h1
    h2 = h2
    c1 = c1
    c2 = c2
    s1 = s1
    v1 = v1
    v2 = v2
    None = None
    Off = Off
    Days <- TwoDays
    Codes = {"M", "B", "N"}
    Day <- ChangeDay
    Value <- NightWish
    Existing <- OneRecord
    MaxFailures = 1
    Handlers = {h1}
    Corrections = {}
    Fielded = {}
    Changes = {s1}
    Versions = {}
    Plan <- NoPlan
INVARIANTS
    ChangeIsApplied
