CONSTANTS
    phone1 = phone1
    phone2 = phone2
    user1 = user1
    user2 = user2
    message = message
    None = None
    Devices = {phone1, phone2}
    Users = {user1, user2}
    UserOf <- MCUserOf
    Pushes = {message}
    MaxSockets = 2
    MaxUpsets = 2
    FaultSets = {{"cut", "crash", "term", "badToken", "calls"}, {"cut", "silent", "slow", "calls"}, {"push", "calls"},
                 {"others", "push", "cut"}}
SPECIFICATION FairSpec
INVARIANTS
    TypeOK
    RoomsAreConnections
    OneLifeline
    PushReachesOthersOnce
PROPERTIES
    DeadPeersPruned
    BackInRoom
CHECK_DEADLOCK FALSE
