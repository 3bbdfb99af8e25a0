CONSTANTS
    MaxUpgrades = 3
    MaxCrashes = 3
SPECIFICATION Spec
CHECK_DEADLOCK FALSE
INVARIANTS
    TypeOK
    AwaitedIsFlagged
    PlatformKnowsVersion
PROPERTIES
    AnnouncedAfterReboot
    UpgradeAnnounced
    StoppedTpxReturns
