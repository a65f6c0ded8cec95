SPECIFICATION FreshSpec
CONSTANTS
    None = None
    a1 = a1
    a2 = a2
    c1 = c1
    c2 = c2
    k1 = k1
    k2 = k2
    k3 = k3
    k4 = k4
    k5 = k5
    p1 = p1
    p2 = p2
    p3 = p3
    Conns = {c1}
    Addrs = {a1}
    AddrOf <- OneAddr
    Callers = {k1, k2, k3, k4, k5}
    HandlerCallers = {}
    HookCallers = {}
    PeerCalls = {p1}
    NumIds = 4
    Cap = 2
    Established = {c1}
    MayClose = {}
    MayUnbind = FALSE
    MayPanic = FALSE
SYMMETRY Symmetry
INVARIANTS
    NoWorkerConnCycle
    NoWorkerRouteCycle
    AnswerOwn
