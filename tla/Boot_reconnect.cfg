CONSTANTS
    sched = sched
    cmd = cmd
    RestCallers <- MCRest
    StreamCallers = {}
    Scheduler = sched
    InitTries = 2
    OwnerTries = 2
    MaxDrops = 1
    Lifetime = 3
    Period = 1
    FetchTime = 0
    WaitTime = 1
    Chunk = 1
    RestCap = 2
    SmallCap = 1
    LargeCap = 2
    MaxCap = 2
SPECIFICATION FairBootSpec
PROPERTY ReconnectKeepsRunning
