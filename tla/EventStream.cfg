\* A reader whose connection drops, against the whole store: a write fails, the
\* process dies and restarts.  Liveness holds of the behaviours without a death.
CONSTANTS
    i1 = i1
    r1 = r1
    Incidents = {i1}
    Requests = {r1}
    RunThread = RunThread
    NoIncident = NoIncident
    FinalStates = {"QUARANTINED"}
    MaxEvents = 2
    MaxRuns = 2
    MaxWriteErrors = 1
    MaxDeaths = 1
    MaxDrops = 1
SPECIFICATION FairStreamSpec
CHECK_DEADLOCK FALSE
INVARIANTS
    PrefixReceived
    CompleteOnReturn
PROPERTIES
    RunsTerminate
    StreamEnds
