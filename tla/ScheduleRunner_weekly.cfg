CONSTANTS
    Tables <- WeeklyTables
    MaxSchedules = 2
    SlotsPerMinute = 3
    MinutesPerDay = 3
    DaysPerWeek = 2
    CheckSlots = 1
    RefreshSlots = 3
    MaxFetchSlots = 1
    MaxFeedSlots = 2
    Horizon = 13
    MaxEdits = 0
    MaxRequests = 0
    MaxFailures = 0
    MaxReboots = 0
SPECIFICATION Spec
PROPERTY DueMinuteIsServed
