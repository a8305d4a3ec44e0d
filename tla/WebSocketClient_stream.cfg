CONSTANTS
    Camera = TRUE
    MaxMessage = 5
    BufferSize = 2
    PingEvery = 1
    PongTimeout = 3
    Reconnect = 1
SPECIFICATION FairSpec
INVARIANTS
    MessagesFit
PROPERTIES
    PongIsOverdue
    ComesBack
