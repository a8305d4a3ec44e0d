CONSTANTS
    BeepSamples = 2
    MaxSamples = 3
    MaxBeeps = 2
    Lengths <- MCLengths
    MaxMessages = 2
    MaxDrops = 1
SPECIFICATION Spec
INVARIANTS
    RestIsQuiet
PROPERTIES
    LoneBeepIsHeard
    VoiceIsHeard
    BeepEnds
CHECK_DEADLOCK FALSE
