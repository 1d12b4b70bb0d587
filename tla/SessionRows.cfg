SPECIFICATION Spec
CONSTANTS
    u1 = u1
    u2 = u2
    u3 = u3
    c1 = c1
    c2 = c2
    None = None
    Mcp = Mcp
    Users = {u1, u2, u3}
    Interjects = {}
    Wakes = {}
    Goals = {}
    Plans = {}
    Drains = {}
    Clients = {c1, c2}
    OwnerOf <- TwoOwners
    MaxVersion = 1
    Waiters = {}
    Calls = {k1}
    GoalTurns = {}
INVARIANTS
    RowsMirrored
    NoPromptLost
    SweepKeepsOrder
    SendNowSlotIsLoop
    ReorderIsStableSort
