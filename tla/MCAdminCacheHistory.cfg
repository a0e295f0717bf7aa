SPECIFICATION HistorySpec
CONSTANTS
    p1 = p1
    p2 = p2
    n1 = n1
    n2 = n2
    Procs = {p1, p2}
    Nodes = {n1, n2}
    NodeOf <- TwoNodes
    Ids = {1}
    Keys = {1, list}
    List = list
    Width = 2
    MaxVersion = 1
    Faults = {"redis", "ack", "lag"}
    None = none
INVARIANTS
    CachedWasCommitted
    StaleOnlyAfterDisturbance
