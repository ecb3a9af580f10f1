CONSTANTS
    Tick = 1
    Scale = 2
    Tranches <- OneTranche
    TrancheVolume = 2
    TotalVolume = 2
    MaxChildOrders = 3
    NoTarget = NoTarget
    Bids <- MCBids
    Intents <- MCIntents
    Reports <- MCReports
    StartOffset <- StartsAtOnce
    DeadlineOffset <- Milestones
    Duration = 1
    Decisions = 1
    MaxActive = 1
    MaxOutages = 0
    MaxUserCalls = 0
    MaxMoves = 1
    MaxSurprises = 0
SPECIFICATION FairSpec
PROPERTIES
    DeadlineCompletesParent
CHECK_DEADLOCK FALSE
