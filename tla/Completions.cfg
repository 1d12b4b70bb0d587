SPECIFICATION FairSpec
CONSTANTS
    Bash = {b}
    Subagents = {s}
    AutoWakes = {TRUE, FALSE}
    MaxPending = 1
    MaxPrompts = 1
    MaxCancels = 1
    MaxCalls = 2
INVARIANTS
    TypeOK
    NothingVanishes
    AwaitedIsNotWoken
PROPERTIES
    EventuallyTold
CHECK_DEADLOCK FALSE
