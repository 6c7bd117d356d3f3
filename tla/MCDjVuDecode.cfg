SPECIFICATION LiveSpec
CONSTANTS
    p1 = p1
    p2 = p2
    d1 = d1
    Pages = {p1, p2}
    Dicts = {d1}
    Includes <- TwoPages
    MaxRequests = 2
    Damages <- OneDamaged
    None = None
INVARIANTS
    DecodedIsWhole
    FailuresExplained
    NobodyWaitsInVain
PROPERTY
    WorkEnds
CHECK_DEADLOCK FALSE
