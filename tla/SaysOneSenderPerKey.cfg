SPECIFICATION Spec
CONSTANTS
    u1 = u1
    w1 = w1
    w2 = w2
    r1 = r1
    r2 = r2
    Broadcasts <- OneBroadcast
    Users <- OneUser
    Owner <- OwnerOfOne
    Encoding = {1}
    Finite = {}
    Workers <- TwoWorkers
    Requests <- TwoRequests
    Clock = Clock
    Nobody = Nobody
    Allowed = 2
    EncodeBudget = 1
    MaxRestarts = 0
    MaxBoots = 1
    World = {"overlap"}
CHECK_DEADLOCK FALSE
INVARIANTS
    OneSenderPerKey
