SPECIFICATION FairSpec
CONSTANTS
    t1 = t1
    t2 = t2
    None = None
    Thread = {t1, t2}
    Apps = 1
    Ids = 4
    Void = FALSE
INVARIANTS
    TypeOK
    NoFault
    AtMostOnce
    SameValue
CHECK_DEADLOCK FALSE
PROPERTIES
    Answered
