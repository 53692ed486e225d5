SPECIFICATION Spec
CHECK_DEADLOCK FALSE
CONSTANTS
    h1 = h1
    h2 = h2
    c1 = c1
    c2 = c2
    s1 = s1
    v1 = v1
    v2 = v2
    None = None
    Off = Off
    Days <- TwoDays
    Codes = {"M", "B", "N"}
    Day <- ChangeDay
    Value <- NightWish
    Existing <- OneRecord
    MaxFailures = 1
    Handlers = {h1, h2}
    Corrections = {c1, c2}
    Fielded = {c1}
    Changes = {s1}
    Versions = {v1, v2}
    Plan <- TwoPlans
SYMMETRY Alike
INVARIANTS
    OneVersionShown
    SettledAgrees
    WeekIsStamped
