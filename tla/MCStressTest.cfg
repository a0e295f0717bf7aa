SPECIFICATION SFairSpec
CONSTANTS
    Callers = {w1, w2}
    Nobody = Nobody
    FailureThreshold = 1
    SuccessThreshold = 1
    ResetTimeout = 1
    MaxRequests = 6
    TotalRequests = 3
    Latencies = {1, 2, 3}
    Day = 4
INVARIANTS
    SignalsConserved
    ResultComplete
    ExtremesCover
PROPERTIES
    Terminates
CHECK_DEADLOCK FALSE
