SPECIFICATION Spec
CONSTANTS
    u1 = u1
    w1 = w1
    w2 = w2
    r1 = r1
    r2 = r2
    Broadcasts <- TwoBroadcasts
    Users <- OneUser
    Owner <- OwnerOfTwo
    Encoding = {1, 2}
    Finite = {1}
    Workers <- TwoWorkers
    Requests <- OneRequest
    Clock = Clock
    Nobody = Nobody
    Allowed = 2
    EncodeBudget = 1
    MaxRestarts = 0
    MaxBoots = 2
    World = {"fail", "exit", "crash", "delete"}
SYMMETRY PairSymmetry
CHECK_DEADLOCK FALSE
INVARIANTS
    OneSenderUnlessRaced
    WantedHasWorkerUnlessRaced
PROPERTIES
    YoutubeEndsLast
