SPECIFICATION FairSpec
CONSTANTS
    Configs <- AllConfigs
    Timeouts = TRUE
INVARIANTS
    PeersVerified
    TranscriptsAgree
    GoodHandshakeSucceeds
PROPERTIES
    HandshakeEnds
CHECK_DEADLOCK FALSE
