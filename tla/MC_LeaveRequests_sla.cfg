SPECIFICATION FairSpec
CHECK_DEADLOCK FALSE
CONSTANTS
    r1 = r1
    r2 = r2
    t1 = t1
    None = None
    Requests = {r1, r2}
    Reports = {t1}
    RequestPasses = {"requests"}
    ReportPasses = {"reports"}
    Reviewers = {"rta"}
    Limit = 2
    MaxFailures = 1
    Filers = {"h1"}
    Approvers = {"h1"}
    Durations = {1}
    Entitlements = {1}
    MaxChanges = 1
INVARIANTS
    ToldOnce
    StampedIsTold
PROPERTIES
    NewLeaveFits
    OverdueIsEscalated
