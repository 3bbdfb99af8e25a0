CONSTANTS
    Epsilon = 2
    UnpairDelay = 3
    NetworkDelay = 6
    MaxTime = 13
    NoTime = NoTime
SPECIFICATION ButtonSpec
CHECK_DEADLOCK FALSE
INVARIANTS
    ButtonTypeOK
    OneCallPerPress
