CONSTANTS
    phone = phone
    e1 = e1
    e2 = e2
    e3 = e3
    d1 = d1
    d2 = d2
    Devices = {phone}
    EventIds = {e1, e2}
    Drains = {d1, d2}
    QueueMax = 2
    FlushBatch = 1
    ReplyClocks <- NoClocks
    FaultSets = {{}, {"post", "kill"}, {"post", "storage"}}
SPECIFICATION FairSpec
INVARIANTS
    QueueIsBounded
    IdleMeansDrained
PROPERTIES
    LossIsExplained
    NeverStuckSilently
CHECK_DEADLOCK FALSE
