CONSTANTS
    Tick = 2
    Scale = 2
    Tranches = {t1}
    TrancheVolume = 2
    TotalVolume = 2
    MaxChildOrders = 2
    NoTarget = NoTarget
    Bids <- MCBids
    Reports <- MCReports
    Intents <- MCIntents
SPECIFICATION Spec
INVARIANTS
    TypeOK
    HardLimits
    TargetsDivideRemaining
    FillsAddUp
    CancelledParentIsWindingDown
PROPERTIES
    NoOrderWhileCancelPending
    FinalOrdersStayFinal
    FillsAreNotReplenished
    ImplementsMandate
