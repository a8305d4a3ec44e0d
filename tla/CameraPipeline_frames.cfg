CONSTANTS
    b1 = b1
    b2 = b2
    Bases <- MCBases
    FbCount = 2
    QueueLength = 3
    MaxFailures = 2
    Patience = 2
SPECIFICATION FairSpec
INVARIANTS
    NoFrameLost
PROPERTIES
    ReinitOnlyIfSickOrStuck
    StreamRecovers
    StreamDrains
