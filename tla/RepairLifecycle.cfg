\* Two workers, two possible commits, an operator who moves or deletes the branch;
\* and two recoveries that race after the repair was applied.
CONSTANTS
    r1 = r1
    r2 = r2
    c1 = c1
    c2 = c2
    a1 = a1
    None = None
    Requests = {r1, r2}
    Commits = {c1, c2}
    Assets = {a1}
    Authorities = {TRUE, FALSE}
    CleanRuns = 2
    AllowOneClean = TRUE
    MaxEvents = 13
    MaxEvaluations = 2
    MaxOperator = 1
SPECIFICATION BothSpec
SYMMETRY Symmetry
CONSTRAINT Horizon
CHECK_DEADLOCK FALSE
INVARIANTS
    TypeOK
    DeployedIsAccountable
    ResolvedAfterApplied
    ResolutionIsReported
    ResumeHasEvidence
