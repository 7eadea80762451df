SPECIFICATION FairRuntimeSpec
CONSTANTS
    DayLen = 4
    p1 = p1
    p2 = p2
    NoPid = NoPid
    Pids <- OnePid
    ScheduleTable <- OneWindow
    StartTime = 8
    EndTime = 9
    RestoreOnLaunch = TRUE
    World = {"exit", "stall"}
PROPERTIES
    WindowServed
    EngineKeepsMoving
