SPECIFICATION FairSpec
CONSTANTS
    Started = 2
    MaxThreads = 3
    MaxPosts = 3
    Setups <- MCAlone
    None = None
CHECK_DEADLOCK FALSE
INVARIANTS
    OutlivedByNone
PROPERTIES
    Finishes
