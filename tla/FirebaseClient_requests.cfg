CONSTANTS
    a = a
    b = b
    s = s
    RestCallers <- MCRest
    StreamCallers <- MCStream
    InitTries = 2
    Lifetime = 6
    Period = 2
    FetchTime = 1
    WaitTime = 1
    Chunk = 1
    RestCap = 2
    SmallCap = 1
    LargeCap = 2
    MaxCap = 2
SPECIFICATION Spec
INVARIANTS
    OwnExchange
    BufferFits
    FreshWhenRefreshed
