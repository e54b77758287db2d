SPECIFICATION Spec
CONSTANTS
    Started = 2
    MaxThreads = 3
    MaxPosts = 3
    Setups <- MCClustered
    None = None
CHECK_DEADLOCK FALSE
INVARIANTS
    FindsShard
