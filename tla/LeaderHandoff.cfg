SPECIFICATION FairSpec
CONSTANTS
    Clients = {c1, c2}
    Leaders = {l1, l2}
    Nobody = Nobody
    Stale = {l1}
    Events = {"crash", "kill", "exit", "fail"}
    MaxEvents = 1
INVARIANTS
    TypeOK
    PidIsHolder
PROPERTIES
    Settles
CHECK_DEADLOCK FALSE
