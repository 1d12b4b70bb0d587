SPECIFICATION Spec
CONSTANTS
    Artifacts = {a1}
    Calls = {"bytes", "durable", "awaited"}
    Dest <- SameDest
    Addressed = {"sha256"}
    Capacity = 1
    Budget = 2
    MaxConcurrent = 1
    MaxAttempts = 2
    Threshold = 1
    Events = {"age", "io", "drop", "recover", "purge", "power"}
    MaxCrashes = 2
INVARIANTS
    TypeOK
    CloudIsWhole
    IdleMeansSettled
    GaugesHold
    WaiterIsOwed
    DrainLeavesNothing
    MarksAreHeld
PROPERTIES
    KeepsPromise
CHECK_DEADLOCK FALSE
