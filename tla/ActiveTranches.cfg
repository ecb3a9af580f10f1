CONSTANTS
    Tick = 1
    Scale = 2
    Tranches <- TwoTranches
    TrancheVolume = 1
    TotalVolume = 2
    MaxChildOrders = 3
    NoTarget = NoTarget
    Bids <- MCBids
    Intents <- MCIntents
    Reports <- MCReports
    StartOffset <- StartsAtOnce
    DeadlineOffset <- Milestones
    Duration = 2
    Decisions = 2
    MaxActive = 1
    MaxOutages = 0
    MaxUserCalls = 0
    MaxMoves = 0
    MaxSurprises = 0
SPECIFICATION SystemSpec
INVARIANTS
    ActiveTranchesLimited
CHECK_DEADLOCK FALSE
