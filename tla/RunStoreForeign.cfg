\* One id reset and started again under a handler that is still working.
CONSTANTS
    i1 = i1
    r1 = r1
    r2 = r2
    Incidents = {i1}
    Requests = {r1, r2}
    RunThread = RunThread
    NoIncident = NoIncident
    FinalStates = {"QUARANTINED"}
    MaxEvents = 2
    MaxRuns = 2
    MaxWriteErrors = 0
    MaxDeaths = 0
SPECIFICATION Spec
CHECK_DEADLOCK FALSE
INVARIANTS
    LiveEventsFromThisRun
