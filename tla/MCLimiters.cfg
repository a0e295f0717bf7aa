SPECIFICATION Spec
CHECK_DEADLOCK FALSE
CONSTANTS
    a = a
    b = b
    u = u
    Requests = {1, 2, 3, 4, 5}
    Names = {a, b, u}
    Blank = blank
    Anonymous = anonymous
    Shared = shared
    Header <- Headers
    RemoteAddr <- Addresses
    Limit = 2
    Window = 2
    Rate = 1
    Burst = 2
    Slack = 1
    MaxTime = 5
INVARIANTS
    WindowBound
    BucketBound
PROPERTIES
    RefusedForCause
