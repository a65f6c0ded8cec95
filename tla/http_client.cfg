SPECIFICATION FairRestSpec
CONSTANTS
    None = None
    c1 = c1
    c2 = c2
    b1 = b1
    b2 = b2
    Calls = {c1, c2}
    Inputs <- OneInput
    MaxQuery = 24
    Names <- AllNames
    Characters <- AllCharacters
    Binders = {b1, b2}
    Established = b1
    MayUnbind = {b1}
    MayBreak = {c1}
    Cap = 1
    MaxRetries = 2
    Base = 2
    Width = 2
INVARIANTS
    TypeOK
    FramesInOrder
    NothingRepeated
    ArgumentsArrive
PROPERTIES
    RequestReturns
