CONSTANTS
    Grams <- MCGrams
    DefaultGrams <- MCDefaultGrams
    NoGrams = NoGrams
    NoCmd = NoCmd
    Offers <- MCOffers
    MaxCommands = 1
    MaxFires = 1
    MaxLostAcks = 1
    MaxToggles = 2
    MaxReboots = 1
SPECIFICATION FairSpec
CONSTRAINT LostOrWatched
INVARIANTS
    CommandOnce
PROPERTIES
    ServiceSpec
    FeedEnds
    CommandConsumed
    LiveViewStops
