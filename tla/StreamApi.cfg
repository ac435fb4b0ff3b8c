SPECIFICATION FairSpec
CONSTANTS
    Threshold = 1
    Limit = 2
    MaxSeq = 3
    MaxNonceCache = 1
    EvictBatch = 1
    Apis = {"stream", "rekey"}
    Backpressure = TRUE
    Lens = {2}
    Caps = {1, 2}
    MaxRecords <- ThreeAndNone
INVARIANTS
    ReadsSucceed
PROPERTIES
    ReliableDelivery
    EventuallyDelivered
CHECK_DEADLOCK FALSE
