SPECIFICATION DesktopSpec
CONSTANTS
    DayLen = 4
    Table <- MCTable
    Slots = 2
    EndTime = 36
    Files = {f, g}
    Profiles = {p, q}
    MaxChanges = 1
INVARIANTS
    ScheduleAnswersAreExact
    ReadyHasFile
PROPERTIES
    QueuedIsTakenUnlessMissed
