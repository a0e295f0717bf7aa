SPECIFICATION Spec
CONSTANTS
    e1 = e1
    e2 = e2
    e3 = e3
    Threads = {t1, t2}
    Order <- Three
    Root = root
    None = none
INVARIANT BackIsAnElement
