CONSTANTS
    c1 = c1
    c2 = c2
    ClientIds = {c1, c2}
    Prices = {1, 2}
    Quantities <- SomeQuantities
    MaxOrders = 4
    MaxRestarts = 1
SPECIFICATION Spec
SYMMETRY Symmetry
INVARIANTS
    MatchTypeOK
    NothingLeftToTrade
    LastReportIsTrue
    ReportsTellOneStory
PROPERTIES
    PriceTimePriority
CHECK_DEADLOCK FALSE
