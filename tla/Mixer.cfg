CONSTANTS
    Gains = {4, 20}
    Word = 32
SPECIFICATION Spec
CONSTRAINT Few
INVARIANTS
    TypeOK
    ProductIsHeard
    BarShowsVolume
    SilentAfterExit
    FiltersAsSaid
