CONSTANTS
    a = a
    b = b
    e1 = e1
    e2 = e2
    e3 = e3
    r1 = r1
    r2 = r2
    Devices = {a, b}
    EventIds = {e1, e2, e3}
    ReqIds = {r1, r2}
    BatchMax = 2
    Requests <- MCRequests
    Unstorable = {e3}
    FaultSets = {{}, {"query"}, {"overlap", "query"}}
SPECIFICATION FairSpec
INVARIANTS
    ProcessedAreStored
    AnsweredIsSettled
    UnmarkedHasCause
    RowIsOwnDevices
    OneRequestPerEvent
    AnsweredClockKept
    DiscardedIsAbsent
PROPERTY RequestEnds
CHECK_DEADLOCK FALSE
