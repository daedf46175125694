\* Expected to fail: a check fails after the incident was resolved.
CONSTANTS
    r1 = r1
    c1 = c1
    a1 = a1
    None = None
    Requests = {r1}
    Commits = {c1}
    Assets = {a1}
    Authorities = {FALSE}
    CleanRuns = 2
    AllowOneClean = TRUE
    MaxEvents = 22
    MaxEvaluations = 3
    MaxOperator = 0
SPECIFICATION AppliedSpec
CHECK_DEADLOCK FALSE
INVARIANTS
    FailedCheckLocks
