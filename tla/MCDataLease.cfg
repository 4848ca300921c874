SPECIFICATION FairSpec
CONSTANTS
    Operations = {o1, o2}
    NoToken = NoToken
    LeaseSeconds = 3
    MinimumRemaining = 1
    FaultsUntil = 5
    MaxTime = 9
INVARIANTS
    MemoryImpliesRow
    CheckpointWindow
PROPERTIES
    EveryOperationRuns
    ImplementsMutex
CHECK_DEADLOCK FALSE
