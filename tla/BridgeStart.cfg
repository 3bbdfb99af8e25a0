CONSTANTS
    Hosts = {"a", "b"}
    Addresses = {"x"}
    Tables <- TwoTables
    High <- OddAndEven
    Unmappable = {"oled"}
    MaxNoise = 1
SPECIFICATION LiveSpec
INVARIANTS
    TypeOK
    NothingLeftOver
    EntryIsDestinations
PROPERTY
    StartEnds
