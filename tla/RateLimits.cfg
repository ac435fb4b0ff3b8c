SPECIFICATION LimiterSpec
CONSTANTS
    Callers = {c1, c2}
    Capacity = 2
    RefillPeriod = 2
    IdleTtl = 3
    MaxTime = 5
SYMMETRY CallerSymmetry
INVARIANTS
    BurstBounded
    NoStarvation
CHECK_DEADLOCK FALSE
