CONSTANTS
    Clients = {"c1", "c2"}
    Owners = {"p1", "p2"}
    RoleOf <- MCRoleOf
    MaxCalls = 2
    MaxBoots = 2
    DAY = 4
    Rows <- MCRows
    MaxInstant = 9
    MaxDeaths = 1
SPECIFICATION RunSpec
CHECK_DEADLOCK FALSE
INVARIANTS
    OneOwner
    OccurrencesAreServedOnce
PROPERTIES
    EndedAfterHalt
    StrayWorkerEnds
    WindowEnds
