SPECIFICATION FairSpec
CHECK_DEADLOCK FALSE
CONSTANTS
    Callers = {c1, c2}
    Addresses = {1, 2, 3}
    Weight <- Weights
    Plain = {1}
    MaxInt32 = 3
    Counters = {x1, x2, x3, x4, x5}
    MaxCalls = 5
    MaxChanges = 1
    None = none
INVARIANTS
    ChoosesFromTheList
    NoFailedInstance
    EvenSpread
    PanicsOnlyAfterWrap
PROPERTIES
    ListFollowsEtcd
