CONSTANTS
    Grams <- MCGrams
    DefaultGrams <- MCDefaultGrams
    NoGrams = NoGrams
    NoCmd = NoCmd
    Offers <- MCOffers
    MaxCommands = 1
    MaxFires = 2
    MaxLostAcks = 0
    MaxToggles = 0
    MaxReboots = 1
    Tables <- MCTables
    MaxSchedules = 2
    SlotsPerMinute = 2
    MinutesPerDay = 2
    DaysPerWeek = 2
    CheckSlots = 1
    RefreshSlots = 3
    MaxFetchSlots = 0
    MaxFeedSlots = 1
    Horizon = 2
    MaxEdits = 1
    MaxFailures = 0
SPECIFICATION FeederSpec
INVARIANTS
    EventsTruthful
    NoticesAgree
    EveryPourAsked
PROPERTIES
    ForcedFeedPours
    DueMealAnswered
