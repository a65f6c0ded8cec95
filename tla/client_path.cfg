SPECIFICATION FairRestSpec
CONSTANTS
    None = None
    k1 = k1
    k2 = k2
    p1 = p1
    p2 = p2
    s1 = s1
    Paths = {p1}
    Callers = {k1, k2}
    Target <- OnePath
    ServerCalls = {s1}
    NumIds = 1
    Cap = 1
    MaxRetries = 2
    MayClose = {p1}
    MayBreak = {p1}
    MayUnbind = {p1}
    MayPanic = {p1}
INVARIANTS
    TypeOK
    AnswerOwn
    HooksOnce
PROPERTIES
    PromiseKept
    HooksRun
