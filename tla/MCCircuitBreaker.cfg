SPECIFICATION FairSpec
CONSTANTS
    Callers = {c1, c2}
    Nobody = Nobody
    FailureThreshold = 2
    SuccessThreshold = 2
    ResetTimeout = 2
    MaxRequests = 11
INVARIANTS
    HalfOpenAdmits
    NoFailureAfterTrip
    GaugeNeverOptimistic
PROPERTIES
    ImplementsContract
    OpenIsProbed
