SPECIFICATION RuntimeSpec
CONSTANTS
    DayLen = 4
    p1 = p1
    p2 = p2
    NoPid = NoPid
    Pids <- MCPids
    ScheduleTable <- OneWindow
    StartTime = 8
    EndTime = 9
    RestoreOnLaunch = TRUE
    World = {"exit"}
PROPERTIES
    RespawnIsRetried
