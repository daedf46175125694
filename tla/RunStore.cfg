\* Two incident ids and two request workers, a failed write and two crashes.
CONSTANTS
    i1 = i1
    i2 = i2
    r1 = r1
    r2 = r2
    Incidents = {i1, i2}
    Requests = {r1, r2}
    RunThread = RunThread
    NoIncident = NoIncident
    FinalStates = {"QUARANTINED"}
    MaxEvents = 2
    MaxRuns = 2
    MaxWriteErrors = 1
    MaxDeaths = 2
SPECIFICATION Spec
SYMMETRY Symmetry
CHECK_DEADLOCK FALSE
INVARIANTS
    TypeOK
    SingleActiveRun
    NoAcknowledgedEventLost
    Contiguous
    UntornIsReadable
PROPERTIES
    HistoryIsFinal
    ImplementsEventLog
