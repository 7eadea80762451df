SPECIFICATION ServiceSpec
CONSTANTS
    MaxMade = 3
    MaxStreams = 2
    MaxMeddling = 1
    LIMIT = 1
    Threads = {t1, t2}
    MaxAccounts = 2
    MaxTokens = 3
    Rows = {1, 2}
    Names = {a}
    Perishable = {a}
    Urls = {1, 2, 3, 4}
    Pages = {4}
    MaxEdits = 1
CHECK_DEADLOCK FALSE
INVARIANTS
    ChannelIsWhole
    TokenSurvivesRotation
    OfferedWasOpened
PROPERTIES
    StatusCatchesUp
    FreshAddressReachesAir
