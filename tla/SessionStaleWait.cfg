SPECIFICATION Spec
CONSTANTS
    u1 = u1
    u2 = u2
    u3 = u3
    c1 = c1
    c2 = c2
    None = None
    Mcp = Mcp
    Users = {u1, u2}
    Interjects = {}
    Wakes = {}
    Goals = {}
    Plans = {}
    Drains = {}
    Clients = {c1}
    OwnerOf <- OneOwner
    MaxVersion = 0
    Waiters = {u1, u2}
    Calls = {k1, k2}
    GoalTurns = {u2}
INVARIANT DepthIsCurrent
