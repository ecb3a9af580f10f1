CONSTANTS
    Tick = 1
    Scale = 2
    Tranches <- OneTranche
    TrancheVolume = 1
    TotalVolume = 1
    MaxChildOrders = 2
    NoTarget = NoTarget
    Bids <- MCBid
    Intents <- PassiveOnly
    Reports <- MCReports
    StartOffset <- StartsAtOnce
    DeadlineOffset <- Milestones
    Duration = 1
    Decisions = 1
    MaxActive = 1
    MaxOutages = 1
    MaxUserCalls = 0
    MaxMoves = 0
    MaxSurprises = 0
SPECIFICATION FairSpec
PROPERTIES
    PausedOrdersClear
CHECK_DEADLOCK FALSE
