SPECIFICATION Spec
CONSTANTS
    Workers = {w1, w2}
    Tickets = {t1, t2, t3}
    Forged = {f1}
    KeyIds = {1, 2}
    Secrets = {a}
    MaxKeys = 2
    Deployments <- Stores
    TicketFailClosed = TRUE
    CacheSize = 2
    HexLen = 600
    ColumnWidth = 128
    Day = 3
    HandshakeTimeout = 1
    MaxAccepted = 2
INVARIANTS
    SingleUse
    FirstUseSucceeds
    RotationKeepsTickets
SYMMETRY StoreSymmetry
CHECK_DEADLOCK FALSE
