CONSTANTS
    Entries = {9}
    Readings = {2}
    Starts <- OneStart
    Word = 512
SPECIFICATION Spec
CONSTRAINT OneChanged
VIEW NoHistory
INVARIANTS
    TypeOK
    OneDestination
PROPERTY
    KeepsTheSheet
