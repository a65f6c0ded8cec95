SPECIFICATION Spec
CONSTANTS
    None = None
    k1 = k1
    k2 = k2
    p1 = p1
    p2 = p2
    s1 = s1
    Paths = {p1, p2}
    Callers = {k1}
    Target <- OneCall
    ServerCalls = {}
    NumIds = 1
    Cap = 1
    MaxRetries = 2
    MayClose = {p1}
    MayBreak = {}
    MayUnbind = {}
    MayPanic = {}
INVARIANTS
    KeepsRunning
CHECK_DEADLOCK FALSE
