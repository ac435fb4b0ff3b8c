SPECIFICATION Spec
CONSTANTS
    Workers = {w1, w2}
    Serials = {s1, s2}
    Own = "GM CA"
    IssuerCns = {"GM CA", "Old CA"}
    Profiles = {"default"}
    DefaultProfile = "default"
    Validities <- MCValidities
    SecondsPerDay = 2
    MaxDays = 3
    MaxSeconds = 2
    Faults = TRUE
    Restarts = TRUE
    MaxCrls = 2
SYMMETRY CaSymmetry
INVARIANTS
    IssuedIsRecorded
    RevocationHolds
    CrlSupersedes
CHECK_DEADLOCK FALSE
