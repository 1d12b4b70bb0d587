SPECIFICATION Spec
CONSTANTS
    Clients = {c1, c2}
    Leaders = {l1, l2}
    Nobody = Nobody
    Stale = {}
    Events = {}
    MaxEvents = 0
INVARIANTS
    NoSocketMeansSpawner
CHECK_DEADLOCK FALSE
