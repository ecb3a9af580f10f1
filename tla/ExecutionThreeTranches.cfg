CONSTANTS
    Tick = 1
    Scale = 2
    Tranches <- ThreeTranches
    TrancheVolume = 1
    TotalVolume = 3
    MaxChildOrders = 2
    NoTarget = NoTarget
    Bids <- MCBid
    Intents <- MCIntents
    Reports <- MCReports
    StartOffset <- Together
    DeadlineOffset <- Staggered
    Duration = 2
    Decisions = 2
    MaxActive = 2
    MaxOutages = 0
    MaxUserCalls = 2
    MaxMoves = 0
    MaxSurprises = 0
SPECIFICATION SystemSpec
INVARIANTS
    HardLimits
    VenueNeverOversells
    BookFollowsVenue
PROPERTIES
    ImplementsCoordinator
    StartsInTime
CHECK_DEADLOCK FALSE
