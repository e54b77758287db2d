SPECIFICATION FairSpec
CONSTANTS
    c1 = c1
    c2 = c2
    c3 = c3
    p1 = p1
    p2 = p2
    NoCall = NoCall
    Calls = {c1, c2, c3}
    Paths = {p1, p2}
    PathOf <- MCPathOf
    Bypass = {p2}
    Limit = 1
    Window = 3
    BypassWindow = 1
    Second = 2
    Skew <- MCAhead
    GlobalLimit = 2
    Workers = 2
    Hazards <- MCHazards
INVARIANTS
    TypeOK
    NeverRefusedTwice
    OneAtATime
    AtMostOnce
PROPERTIES
    EveryCallAnswered
