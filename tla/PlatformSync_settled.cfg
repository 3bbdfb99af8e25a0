CONSTANTS
    MaxCommands = 3
    Faults = TRUE
SPECIFICATION SyncSpec
CHECK_DEADLOCK FALSE
INVARIANTS
    SyncTypeOK
    SettledIsLatest
    OneUpdateWaits
