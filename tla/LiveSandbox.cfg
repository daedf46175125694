\* Two sessions, two streams, two runs of two events, two faults.
CONSTANTS
    s1 = s1
    s2 = s2
    k1 = k1
    c1 = c1
    c2 = c2
    address = address
    Absent = Absent
    Sessions = {s1, s2}
    Clients = {address}
    Address <- MCAddress
    Keys = {k1}
    Streams = {c1, c2}
    RateLimit = 1
    ClientRateLimit = 2
    MaxRuns = 2
    NumEvents = 2
    MaxPolls = 1
    MaxCreated = 3
    MaxFaults = 1
SPECIFICATION Spec
SYMMETRY Symmetry
CHECK_DEADLOCK FALSE
INVARIANTS
    TypeOK
    OneRunning
    EachEventOnce
    CompletedIsWhole
    RateLimited
    OneRunPerKey
PROPERTIES
    GoneStaysGone
