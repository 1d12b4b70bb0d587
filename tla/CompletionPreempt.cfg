SPECIFICATION Spec
CONSTANTS
    Bash = {b}
    Subagents = {s}
    AutoWakes = {TRUE}
    MaxPending = 1
    MaxPrompts = 1
    MaxCancels = 0
    MaxCalls = 0
INVARIANTS
    PreemptedIsRemindable
CHECK_DEADLOCK FALSE
