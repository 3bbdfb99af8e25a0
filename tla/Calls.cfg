CONSTANTS
    Peers = {1, 2}
    Settings = {"local", "input1", "delay"}
    Values = {5, 20}
    Versions = {1, 2}
    Defaults <- SomeDefaults
    MaxLines = 1
SPECIFICATION Spec
CONSTRAINT Apart
INVARIANTS
    TypeOK
    CallsOnePeer
    HeldBackIfOn
    ServiceHasSettings
    VersionsSaved
