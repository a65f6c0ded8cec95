SPECIFICATION FairRestSpec
CONSTANTS
    None = None
    a1 = a1
    a2 = a2
    c1 = c1
    c2 = c2
    k1 = k1
    k2 = k2
    k3 = k3
    k4 = k4
    k5 = k5
    p1 = p1
    p2 = p2
    p3 = p3
    Conns = {c1, c2}
    Addrs = {a1, a2}
    AddrOf <- OwnAddr
    Callers = {k1, k2}
    HandlerCallers = {}
    HookCallers = {}
    PeerCalls = {p1}
    NumIds = 2
    Cap = 2
    Established = {c1, c2}
    MayClose = {}
    MayUnbind = FALSE
    MayPanic = FALSE
INVARIANTS
    AnswerOwn
PROPERTIES
    CallsSettle
    PeerCallsReturn
