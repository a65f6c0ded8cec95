SPECIFICATION FairRestSpec
CONSTANTS
    None = None
    w1 = w1
    w2 = w2
    h1 = h1
    d1 = d1
    r1 = r1
    r2 = r2
    Binders = {w1, w2, h1, d1}
    Key <- KeyOf
    Requests = {r1, r2}
    Cap = 1
    Established = {w1, h1}
    MayUnbind = {w1, h1}
    MayPanic = {h1}
    MayDrop = {r1}
INVARIANTS
    TypeOK
    BoundServes
    EndsOnlyByFaults
    RoutedRight
PROPERTIES
    NothingForTheGone
    
    BindingsReturn
    RouteTasksEnd
