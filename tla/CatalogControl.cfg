\* Two incidents on the same assets, one operation at a time, any failure.
CONSTANTS
    i1 = i1
    i2 = i2
    x1 = x1
    batch = batch
    report = report
    model = model
    projection = projection
    None = None
    Incidents = {i1, i2}
    Datasets = {batch, report, model}
    Natives = {projection}
    Control = report
    Mirrors <- MCMirrors
    Plan <- MCPlan
    Status <- MCStatus
    Executors = {x1}
    CleanRuns = 2
    AllowOneClean = TRUE
    MaxEvaluations = 3
SPECIFICATION Spec
CHECK_DEADLOCK FALSE
INVARIANTS
    TypeOK
    ReleasedOnOwnEvidence
    NoOrphans
    OwnershipOutlivesReset
