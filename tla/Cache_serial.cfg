SPECIFICATION Spec
CONSTANTS
    g1 = g1
    g2 = g2
    ch1 = ch1
    ch2 = ch2
    u1 = u1
    u2 = u2
    r1 = r1
    r2 = r2
    t1 = t1
    t2 = t2
    Null = Null
    Guilds = {g1}
    Channels = {ch1, ch2}
    Users = {u1, u2}
    Roles = {r1}
    GuildOf <- MCOneGuild
    Threads = {t1}
    Kinds <- AllKinds
    Offline = {u2}
    FirstMembers = {u1, u2}
    FirstChannels = {ch1}
    FirstRoles = {}
    MaxEvents = 3
    MaxKicks = 1
    MaxOutages = 1
INVARIANTS
    TypeOK
    NothingExtra
    Complete
    NoFault
