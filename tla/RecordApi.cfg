SPECIFICATION Spec
CONSTANTS
    Threshold = 1
    Limit = 2
    MaxSeq = 3
    MaxNonceCache = 1
    EvictBatch = 1
    Apis = {"record", "rekey", "close"}
    Backpressure = FALSE
    Lens = {1}
    Caps = {1}
    MaxRecords <- ThreeAndOne
INVARIANTS
    NonceUnique
    NonceGuardSilent
    NonceCacheBounded
    KeysInSync
    PendingUpdateFirst
PROPERTIES
    ReliableDelivery
CHECK_DEADLOCK FALSE
