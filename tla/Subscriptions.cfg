CONSTANTS
    Plans = {1, 2}
    MaxOrders = 2
    MaxCharges = 2
    MaxAnnounced = 2
    Requests = {"r1", "r2"}
    GrantPlans = {1, 2}
    Operators = {"op1", "op2"}
    MaxGrants = 3
    Horizon = 2
    Tokens = {t1, t2}
    Callers = {c1, c2}
    WINDOW = 3
    MAX_ATTEMPTS = 2
    MAX_TRACKED = 1
    MaxClock = 6
    Openers = {api, runner}
    Keys = {"storage", "cctv"}
    StorageKeys = {"storage"}
    Figures = {0, 1, 2}
    MaxOpens = 2
    NoFigure = NoFigure
    Themes <- MCThemes
SPECIFICATION EntitlementsSpec
CHECK_DEADLOCK FALSE
INVARIANTS
    PlansArePaidFor
    ChargesAreAccountedFor
    SignInIsGuarded
    OperatorsFigureStands
PROPERTIES
    OnlyWithdrawalUncovers
