CONSTANTS
    u = u
    w = w
    p1 = p1
    p2 = p2
    p3 = p3
    p4 = p4
    p5 = p5
    v1 = v1
    v2 = v2
    v3 = v3
    v4 = v4
    v5 = v5
    Users = {u, w}
    Entries <- MCEntries
    EventIds = {v1, v2, v3, v4, v5}
    UserOf <- MCUserOf
    EventsOf <- MCEventsOf
    MaxBatch = 3
    Faults = TRUE
SPECIFICATION FairSpec
INVARIANT
    PendingInOnePlace
PROPERTIES
    ImplementsIngest
    EveryRequestSettles
CHECK_DEADLOCK FALSE
