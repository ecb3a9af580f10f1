CONSTANTS
    Day = 4
    MaxSets = 3
    MaxTarget = 1
    MaxCrashes = 2
    MaxTime = 7
SPECIFICATION Spec
INVARIANTS
    StoreTypeOK
    NothingToLose
    ReadsLastStored
PROPERTIES
    OldNumbersForgotten
    KeptThroughSession
CHECK_DEADLOCK FALSE
