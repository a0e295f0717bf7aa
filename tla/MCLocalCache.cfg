SPECIFICATION Spec
SYMMETRY Symmetry
CONSTANTS
    Threads = {t1, t2}
    Keys = {k1, k2}
    Values = {v1, v2}
    Elements = {e1, e2, e3, e4}
    Capacity = 1
    None = None
INVARIANTS
    MappedIsLinked
    WithinCapacity
PROPERTIES
    ImplementsLossyCache
