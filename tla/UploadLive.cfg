SPECIFICATION FairSpec
CONSTANTS
    Artifacts = {a1, a2}
    Calls = {"awaited"}
    Dest <- SameDest
    Addressed = {"sha256"}
    Capacity = 1
    Budget = 1
    MaxConcurrent = 1
    MaxAttempts = 1
    Threshold = 1
    Events = {}
    MaxCrashes = 0
INVARIANTS
    SlotsAreUsed
PROPERTIES
    DrainCompletes
    WaiterReleased
CHECK_DEADLOCK FALSE
