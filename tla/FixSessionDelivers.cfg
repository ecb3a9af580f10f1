CONSTANTS
    Configs <- EveryConfig
    MaxSends = 2
    MaxDisturbances = 1
SPECIFICATION FairSpec
PROPERTIES
    EventuallyDelivered
CHECK_DEADLOCK FALSE
