CONSTANTS
    Capacity = 2
    Period = 3
    TTL = 4
    Skew = 1
    MaxTime = 12
SPECIFICATION RateSpec
INVARIANTS
    RateTypeOK
    WindowBound
    NeverLockedOut
CHECK_DEADLOCK FALSE
