SPECIFICATION MediaSpec
CONSTANTS
    Media = {"m1", "m2"}
    Sources <- MCSources
    Threads = {1, 2}
    MaxRuns = 2
    MaxEdits = 1
    MaxCrashes = 1
    Uploaders = {1, 2}
    VOLUME = 8
    FLOOR = 4
    EVERY = 2
    PER_FILE = 2
    CEILING = 2
    Infos <- MCInfos
CHECK_DEADLOCK FALSE
INVARIANTS
    RowIsSound
    OnAirIsSound
    FloorAndQuotaHold
    PreparationIsSound
PROPERTIES
    PreparationSettles
