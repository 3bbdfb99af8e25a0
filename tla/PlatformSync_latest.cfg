CONSTANTS
    MaxCommands = 3
    Faults = FALSE
SPECIFICATION SyncSpec
CHECK_DEADLOCK FALSE
PROPERTIES
    LatestValuesReachPlatform
