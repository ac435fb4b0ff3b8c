SPECIFICATION FairSpec
CONSTANTS
    h1 = h1
    h2 = h2
    t1 = t1
    t2 = t2
    Hosts = {h1, h2}
    Tasks = {t1, t2}
    Workloads <- TwoRequests
    Framings <- Layouts
    Limits = {1, 2}
    MaxIdle = 1
    Cancels = TRUE
    Closes = TRUE
INVARIANTS
    ExclusiveUse
    PoolBounded
    OwnResponse
PROPERTIES
    RequestsEnd
CHECK_DEADLOCK FALSE
