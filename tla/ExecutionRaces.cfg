CONSTANTS
    Tick = 1
    Scale = 2
    Tranches <- OneTranche
    TrancheVolume = 2
    TotalVolume = 2
    MaxChildOrders = 3
    NoTarget = NoTarget
    Bids <- MCBids
    Intents <- MCIntents
    Reports <- MCReports
    StartOffset <- StartsAtOnce
    DeadlineOffset <- LateDeadline
    Duration = 2
    Decisions = 2
    MaxActive = 1
    MaxOutages = 0
    MaxUserCalls = 2
    MaxMoves = 1
    MaxSurprises = 0
SPECIFICATION SystemSpec
INVARIANTS
    SystemTypeOK
    VenueNeverOversells
    BookFollowsVenue
    SoldOutIsCompleted
PROPERTIES
    CancelledSendsNothing
CHECK_DEADLOCK FALSE
