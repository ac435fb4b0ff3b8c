SPECIFICATION SessionsSpec
SYMMETRY Symmetry
CHECK_DEADLOCK FALSE
CONSTANTS
    Connections = {t1, t2, t3, t4}
    Offers <- MCOffers
    MaxEntries = 2
    Lifetime = 1
    MaxTime = 2
INVARIANTS
    ResumedSound
PROPERTY RetainedWhileRoom
