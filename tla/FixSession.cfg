CONSTANTS
    Configs <- EveryConfig
    MaxSends = 2
    MaxDisturbances = 2
SPECIFICATION Spec
INVARIANTS
    SessionTypeOK
    NeverAhead
PROPERTIES
    ImplementsDelivery
    SkipsOnlyUnchecked
CHECK_DEADLOCK FALSE
