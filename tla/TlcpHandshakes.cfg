SPECIFICATION FairSpec
CHECK_DEADLOCK FALSE
CONSTANTS
    MaxDepth = 4
    Now = 5
    Cases <- MCCases
INVARIANTS
    OutcomesAgree
    PeersVerified
    CompatibleSucceeds
PROPERTY HandshakeEnds
