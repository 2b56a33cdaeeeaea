CONSTANTS
    phone = phone
    e1 = e1
    e2 = e2
    e3 = e3
    d1 = d1
    d2 = d2
    Devices = {phone}
    EventIds = {e1, e2}
    Drains = {d1, d2}
    QueueMax = 3
    FlushBatch = 1
    ReplyClocks <- NoClocks
    FaultSets = {{}}
SPECIFICATION Spec
INVARIANT EnqueuedIsKept
CHECK_DEADLOCK FALSE
