SPECIFICATION FairSpec
CONSTANTS
    Callers = {c1, c2}
    OpenFor = 1
    WindowFor = 0
    MinSamples = 1
    RateNum = 1
    RateDen = 2
    MaxProbes = 1
    MaxEntries = 2
    WordMax = 3
    MaxInside = 2
    MaxStall = 1
INVARIANTS
    TypeOK
    WindowCounts
PROPERTIES
    OneTakeover
    KeepsProbing
