SPECIFICATION FairSpec
CHECK_DEADLOCK FALSE
CONSTANTS
    MaxSeq = 4
    MaxLen = 2
    Lens = {2, 3}
    Caps = {1, 2}
    MaxRecords <- FourAndNone
INVARIANTS
    NonceUnique
    ReadsSucceed
PROPERTIES
    ReliableDelivery
    EventuallyDelivered
