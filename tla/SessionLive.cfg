SPECIFICATION FairSpec
CONSTANTS
    u1 = u1
    u2 = u2
    u3 = u3
    c1 = c1
    c2 = c2
    None = None
    Mcp = Mcp
    Users = {u1}
    Interjects = {i1}
    Wakes = {w1}
    Goals = {}
    Plans = {}
    Drains = {}
    Clients = {c1}
    OwnerOf <- OneOwner
    MaxVersion = 0
    Waiters = {u1}
    Calls = {k1}
    GoalTurns = {}
INVARIANTS
    NothingStranded
    NoPromptLost
PROPERTIES
    EventuallyAnswered
