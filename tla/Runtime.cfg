SPECIFICATION OnAirSpec
CONSTANTS
    DayLen = 4
    p1 = p1
    p2 = p2
    NoPid = NoPid
    Pids <- MCPids
    ScheduleTable <- TwoWindows
    StartTime = 7
    EndTime = 9
    RestoreOnLaunch = TRUE
    World = {"edit", "exit", "crash", "local_test"}
    Windows = {1}
    MaxMade = 2
    MaxTroubles = 1
    Bots = {1, 2}
    Texts = {"a", "b"}
    Lists <- MCLists
    Callers = {k1, k2}
    Used = {"liveBroadcasts.list", "liveBroadcasts.insert", "search.list"}
    Allowance = 303
    MaxCalls = 4
    LastDay = 1
SYMMETRY Symmetry
INVARIANTS
    TypeOK
    EngineIsWhole
    OffAirOutsideWindows
    SenderIsKnown
    ChannelIsKept
    ChatIsOneVoice
    LedgerCoversGoogle
PROPERTIES
    StartsAreWanted
    ImplementsLifecycle
