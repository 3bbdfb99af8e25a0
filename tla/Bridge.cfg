CONSTANTS
    Macs = {{1}, {0, 2}}
    BoxMac = {0, 2}
SPECIFICATION Spec
CONSTRAINT TwoIndependent
INVARIANTS
    TypeOK
    SyncPacketsSent
PROPERTIES
    MovesItsSwitches
