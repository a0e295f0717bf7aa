SPECIFICATION Spec
CHECK_DEADLOCK FALSE
SYMMETRY Symmetry
CONSTANTS
    Goroutines = {g1, g2}
    Commands = {c1, c2, c3}
    MaxTime = 2
    None = none
INVARIANTS
    Recorded
    CostOfOverlap
    MongoRecorded
