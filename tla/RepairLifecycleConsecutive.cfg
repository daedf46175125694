\* Expected to fail: a failing recovery between two clean ones is overtaken.
CONSTANTS
    r1 = r1
    r2 = r2
    c1 = c1
    a1 = a1
    None = None
    Requests = {r1, r2}
    Commits = {c1}
    Assets = {a1}
    Authorities = {FALSE}
    CleanRuns = 2
    AllowOneClean = TRUE
    MaxEvents = 16
    MaxEvaluations = 3
    MaxOperator = 0
SPECIFICATION AppliedSpec
CHECK_DEADLOCK FALSE
INVARIANTS
    ResumeIsConsecutive
