SPECIFICATION Spec
CONSTANTS
    u1 = u1
    u2 = u2
    u3 = u3
    c1 = c1
    c2 = c2
    None = None
    Mcp = Mcp
    Users = {u1}
    Interjects = {}
    Wakes = {w1}
    Goals = {g1}
    Plans = {}
    Drains = {d1}
    Clients = {c1}
    OwnerOf <- OneOwner
    MaxVersion = 0
    Waiters = {}
    Calls = {k1}
    GoalTurns = {}
PROPERTIES
    Schedules
