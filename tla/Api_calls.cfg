SPECIFICATION FairSpec
CONSTANTS
    c1 = c1
    r1 = r1
    guild = guild
    self = self
    other = other
    Callers = {c1}
    Guild = guild
    Self = self
    Other = other
    Roles = {r1}
    Asked <- MCAsked
    Masks <- MCMasks
    Overwrites <- MCOverwrites
    MaxChanges = 2
    WriterFirst = TRUE
INVARIANTS
    BetweenViews
    DecidesLikeServer
    ChannelsSettle
    NoTerminate
PROPERTIES
    Answered
CHECK_DEADLOCK FALSE
