CONSTANTS
    BeginTries = 2
    Window = 1
    Samples = 2
    Timeout = 5
    MaxLoop = 2
    HostWrap = 10
    SensorWrap = 5
    Polls = 2
    MaxGet = 1
    MaxVerdicts = 2
SPECIFICATION FairPetSpec
INVARIANTS
    DetectorInTime
PROPERTIES
    WaitKeepsItsTime
    PetIsThere
    PetIsSeen
    InitEnds
    VerdictIsNew
