SPECIFICATION Spec
CONSTANTS
    None = None
    w1 = w1
    w2 = w2
    h1 = h1
    d1 = d1
    r1 = r1
    r2 = r2
    Binders = {w1, w2}
    Key <- KeyOf
    Requests = {}
    Cap = 1
    Established = {}
    MayUnbind = {w1, w2}
    MayPanic = {}
    MayDrop = {}
INVARIANTS
    KeepsServing
CHECK_DEADLOCK FALSE
