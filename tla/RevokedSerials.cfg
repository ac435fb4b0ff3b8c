SPECIFICATION CheckSpec
CHECK_DEADLOCK FALSE
CONSTANTS
    MaxDepth = 4
    Now = 5
    Inputs <- SerialInputs
INVARIANT RevokedRejected
