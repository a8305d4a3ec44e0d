CONSTANTS
    Tables <- EditedTables
    MaxSchedules = 2
    SlotsPerMinute = 3
    MinutesPerDay = 3
    DaysPerWeek = 2
    CheckSlots = 1
    RefreshSlots = 3
    MaxFetchSlots = 1
    MaxFeedSlots = 4
    Horizon = 6
    MaxEdits = 1
    MaxRequests = 1
    MaxFailures = 1
    MaxReboots = 1
SPECIFICATION Spec
INVARIANTS
    FiresOncePerMinuteAndBoot
    RefreshHonoured
    StaleBounded
PROPERTIES
    DueMinuteIsServed
