CONSTANTS
    Callers = {mqtt, http}
    Blinkers = {b1, b2}
    Nobody = Nobody
SPECIFICATION LedSpec
SYMMETRY Symmetry
INVARIANTS
    LedTypeOK
    LedShowsStatus
    NamedBlinkerBlinks
