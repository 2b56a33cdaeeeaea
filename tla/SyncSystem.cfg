CONSTANTS
    phone = phone
    NoPost = NoPost
    e1 = e1
    e2 = e2
    d1 = d1
    d2 = d2
    r1 = r1
    r2 = r2
    Devices = {phone}
    EventIds = {e1, e2}
    Drains = {d1, d2}
    QueueMax = 2
    FlushBatch = 2
    ReqIds = {r1, r2}
    BatchMax = 2
    Unstorable = {}
    PhoneFaults = {"post", "kill"}
    ServerFaults = {"overlap", "query"}
SPECIFICATION Spec
SYMMETRY Symmetry
INVARIANTS
    AnswerMatchesBatch
    ArbitrationNeverFires
PROPERTY ImplementsLedger
CHECK_DEADLOCK FALSE
