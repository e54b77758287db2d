SPECIFICATION FairSpec
CONSTANTS
    s1 = s1
    s2 = s2
    Shards = {s1, s2}
    StartOrder <- MCStartOrder
    Conns = {c1, c2, c3}
    NoShard = NoShard
    NoConn = NoConn
    Hazards = {"tornReady"}
    MaxFaults = 2
    c1 = c1
    c2 = c2
    c3 = c3
INVARIANTS
    TypeOK
    NeverLost
    DialIsHead
    NoRuntimeError
    OpenIsOwned
PROPERTIES
    EventuallyOnline
    LeavesListOnOpen
    ImplementsLifecycle
