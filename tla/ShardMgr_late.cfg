SPECIFICATION Spec
CONSTANTS
    s1 = s1
    s2 = s2
    Shards = {s1, s2}
    StartOrder <- MCStartOrder
    Conns = {c1, c2}
    NoShard = NoShard
    NoConn = NoConn
    Hazards = {"slowStrand", "slowPool", "liveInvalidSession", "lateOpen"}
    MaxFaults = 1
    c1 = c1
    c2 = c2
SYMMETRY MCSymmetry
INVARIANTS
    QueueNoDup
    ConnectingHasShard
PROPERTIES
    ShutdownIsFinal
