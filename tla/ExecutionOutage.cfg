CONSTANTS
    Tick = 1
    Scale = 2
    Tranches <- OneTranche
    TrancheVolume = 2
    TotalVolume = 2
    MaxChildOrders = 3
    NoTarget = NoTarget
    Bids <- MCBid
    Intents <- MCIntents
    Reports <- MCReports
    StartOffset <- StartsAtOnce
    DeadlineOffset <- LateDeadline
    Duration = 2
    Decisions = 2
    MaxActive = 1
    MaxOutages = 1
    MaxUserCalls = 1
    MaxMoves = 0
    MaxSurprises = 1
SPECIFICATION SystemSpec
INVARIANTS
    VenueNeverOversells
    BookFollowsVenue
PROPERTIES
    CancelledSendsNothing
CHECK_DEADLOCK FALSE
