---------------------------- MODULE Cache_proofs ----------------------------
(* Theorems about the cache, for any number of threads and any guilds,     *)
(* channels, users and roles.                                              *)
EXTENDS Cache, FiniteSetTheorems, SequenceTheorems, TLAPS

-----------------------------------------------------------------------------
(* Types.                                                                  *)

ChannelKinds == {"CHANNEL_CREATE", "CHANNEL_UPDATE", "CHANNEL_DELETE",
                 "MESSAGE_CREATE", "MESSAGE_UPDATE", "TYPING_START"}
UserKinds == {"GUILD_MEMBER_ADD", "GUILD_MEMBER_UPDATE", "GUILD_MEMBER_REMOVE",
              "PRESENCE_UPDATE", "MESSAGE_CREATE", "MESSAGE_UPDATE", "TYPING_START",
              "VOICE_STATE_UPDATE"}
RoleKinds == {"GUILD_ROLE_CREATE", "GUILD_ROLE_DELETE"}
MessageKinds == {"MESSAGE_CREATE", "MESSAGE_UPDATE"}
LoadKinds == {"GUILD_CREATE", "GUILD_UPDATE"}

\* What the server puts into an event of each kind.
WellFormed(e) ==
    /\ e.kind # "READY" => e.guild \in Guilds
    /\ e.kind \in ChannelKinds => e.channel \in Channels /\ GuildOf[e.channel] = e.guild
    /\ e.kind \in UserKinds => e.user \in Users
    /\ e.kind \in RoleKinds => e.role \in Roles
    /\ e.kind \in MessageKinds => e.load.members[e.user] # NoInfo
    /\ \A c \in e.load.channels : GuildOf[c] = e.guild

HandledAt ==
    [idle |-> {"READY"}, ready |-> {"READY"},
     create |-> {"GUILD_CREATE", "VOICE_STATE_UPDATE"},
     find |-> DOMAIN AfterFind,
     load |-> LoadKinds, loadChannels |-> LoadKinds, loadChannel |-> LoadKinds,
     mark |-> {"GUILD_DELETE"}, remove |-> {"GUILD_DELETE"},
     createChannel |-> {"CHANNEL_CREATE", "CHANNEL_UPDATE", "MESSAGE_UPDATE", "TYPING_START"},
     findChannel |-> {"CHANNEL_DELETE", "MESSAGE_CREATE"},
     link |-> {"CHANNEL_CREATE"}, update |-> {"CHANNEL_UPDATE"},
     lockChannel |-> {"CHANNEL_DELETE"}, erase |-> {"CHANNEL_DELETE"},
     lockGuilds |-> {"GUILD_MEMBER_REMOVE"}, removeMember |-> {"GUILD_MEMBER_REMOVE"},
     join |-> {"GUILD_MEMBER_ADD", "GUILD_MEMBER_UPDATE", "GUILD_MEMBERS_CHUNK",
               "PRESENCE_UPDATE"},
     message |-> MessageKinds, add |-> MessageKinds, joinUser |-> MessageKinds,
     loadRole |-> {"GUILD_ROLE_CREATE"}, removeRole |-> {"GUILD_ROLE_DELETE"}]

GuildSteps == {"load", "loadChannels", "loadChannel", "mark", "remove", "link", "update",
               "lockChannel", "erase", "removeMember", "join", "add", "loadRole", "removeRole"}
ChannelSteps == {"loadChannel", "link", "update", "lockChannel", "erase", "message"}

\* What a handler has in hand at each step.
Equipped(r) ==
    /\ r.step = "idle" => r = Idle
    /\ WellFormed(r.event) /\ r.event.kind \in HandledAt[r.step]
    /\ r.step \in GuildSteps => r.guild # 0
    /\ r.step \in ChannelSteps => r.channel # 0
    /\ r.step \in {"createChannel", "findChannel"}
            /\ r.event.kind \notin MessageKinds \cup {"TYPING_START"} => r.guild # 0
    /\ r.guild # 0 => r.event.guild \in Guilds
    /\ r.channel # 0 => r.event.channel \in Channels /\ GuildOf[r.event.channel] = r.event.guild
    /\ r.todo \subseteq IF r.event.kind \in LoadKinds THEN r.event.load.channels
                                                      ELSE Listed(r.event)

ServerPart ==
    /\ server \in [Guilds -> ServerGuild] /\ link \in BOOLEAN
    /\ events \in 0..MaxEvents /\ kicks \in 0..MaxKicks /\ outages \in 0..MaxOutages
    /\ gone \in SUBSET (Channels \cup Roles)
    /\ \A g \in Guilds : \A c \in server[g].channels : GuildOf[c] = g

TaskPart == tasks \in Seq(Event) /\ \A k \in 1..Len(tasks) : WellFormed(tasks[k])

ThreadPart == thread \in [Threads -> ThreadState] /\ \A t \in Threads : Equipped(thread[t])

\* The objects in stale_guilds and stale_channels were made, and those in the maps.
GuildPart ==
    /\ guilds \in SUBSET Guilds /\ staleGuilds \in [Guilds -> Nat]
    /\ guildObj \in [Guilds -> Seq(GuildObject)]
    /\ \A g \in Guilds : staleGuilds[g] <= Len(guildObj[g]) /\ (g \in guilds => guildObj[g] # <<>>)

ChannelPart ==
    /\ channels \in SUBSET Channels /\ staleChannels \in [Channels -> Nat]
    /\ channelObj \in [Channels -> Seq(ChannelObject)]
    /\ \A c \in Channels :
           staleChannels[c] <= Len(channelObj[c]) /\ (c \in channels => channelObj[c] # <<>>)

UserPart == users \in [Users -> {"none", "bare", "named"}] /\ info \in [Users -> [Guilds -> Membership]]

\* A mutex is held by the thread that waits for another with it, and
\* ws_guild_member_remove has the guild of the map while it does.
LockPart ==
    /\ holder \in [{"guilds", "channels"} -> Holder] /\ fault \in {"none", "null", "noInfo"}
    /\ \A t \in Threads :
        /\ holder["guilds"] = t <=> thread[t].step = "removeMember"
        /\ holder["channels"] = t <=> thread[t].step = "erase"
        /\ thread[t].step = "removeMember" =>
               /\ thread[t].event.guild \in guilds
               /\ thread[t].guild = Len(guildObj[thread[t].event.guild])

TypeInv == ServerPart /\ TaskPart /\ ThreadPart /\ GuildPart /\ ChannelPart /\ UserPart /\ LockPart

-----------------------------------------------------------------------------
(* The events of the server.                                               *)

LEMMA Memberships == NoInfo \notin SUBSET Roles /\ {} \in Membership /\ NoInfo \in Membership
  BY CacheAssumption DEF NoInfo, Membership

LEMMA BlankType == Blank \in ServerGuild /\ Blank.channels = {}
  BY Memberships DEF Blank, ServerGuild

LEMMA PacketType ==
    ASSUME NEW kind \in AllKinds, NEW g \in Guilds
    PROVE  /\ Packet(kind, g) \in Event
           /\ Packet(kind, g).kind = kind /\ Packet(kind, g).guild = g
           /\ Packet(kind, g).load = Blank
  <1>1. NoEvent \in Event /\ NoEvent.load = Blank
    BY BlankType DEF NoEvent, Event, AllKinds
  <1> QED BY <1>1 DEF Packet, Event

LEMMA IdleType == Idle \in ThreadState /\ Equipped(Idle) /\ Idle.event = NoEvent
  <1>1. NoEvent \in Event /\ WellFormed(NoEvent) /\ NoEvent.kind = "READY"
    BY BlankType DEF NoEvent, Event, AllKinds, WellFormed, ChannelKinds, UserKinds, RoleKinds,
       MessageKinds
  <1>2. /\ Idle.step = "idle" /\ Idle.event = NoEvent /\ Idle.guild = 0 /\ Idle.channel = 0
        /\ Idle.todo = {}
    BY DEF Idle
  <1>3. Idle \in ThreadState
    BY <1>1 DEF Idle, ThreadState, Step
  <1>4. NoEvent.kind \in HandledAt["idle"]
    BY <1>1 DEF HandledAt
  <1> HIDE DEF Idle
  <1> QED BY <1>1, <1>2, <1>3, <1>4 DEF Equipped, GuildSteps, ChannelSteps

\* An event of the server that a handler may rely on.
Sent(e) == e \in Event /\ WellFormed(e)

LEMMA PacketSent ==
    ASSUME NEW g \in Guilds
    PROVE  Sent(Packet("GUILD_DELETE", g))
  BY PacketType, BlankType
  DEF Sent, WellFormed, AllKinds, ChannelKinds, UserKinds, RoleKinds, MessageKinds

LEMMA GuildCreateSent ==
    ASSUME NEW g \in Guilds, NEW sg \in ServerGuild, \A c \in sg.channels : GuildOf[c] = g
    PROVE  Sent(GuildCreate(g, sg)) /\ GuildCreate(g, sg).kind = "GUILD_CREATE"
  <1> DEFINE load == [sg EXCEPT !.members = [u \in Users |-> IF u \in Offline THEN NoInfo ELSE @[u]]]
             p == Packet("GUILD_CREATE", g)
             e == [p EXCEPT !.load = load]
  <1>1. p \in Event /\ p.kind = "GUILD_CREATE" /\ p.guild = g
    BY PacketType DEF AllKinds
  <1>2. load \in ServerGuild /\ load.channels = sg.channels
    BY Memberships DEF ServerGuild
  <1> HIDE DEF p, load
  <1>3. e \in Event /\ e.kind = "GUILD_CREATE" /\ e.guild = g /\ e.load = load
    BY <1>1, <1>2 DEF Event
  <1>4. WellFormed(e)
    BY <1>2, <1>3 DEF WellFormed, ChannelKinds, UserKinds, RoleKinds, MessageKinds
  <1> QED BY <1>3, <1>4 DEF Sent, GuildCreate, p, load

LEMMA AppendSent ==
    ASSUME TaskPart, NEW e, Sent(e), tasks' = Append(tasks, e)
    PROVE  TaskPart'
  <1>1. tasks \in Seq(Event) /\ e \in Event
    BY DEF TaskPart, Sent
  <1>2. /\ tasks' \in Seq(Event) /\ Len(tasks') = Len(tasks) + 1
        /\ \A k \in 1..Len(tasks) : tasks'[k] = tasks[k]
        /\ tasks'[Len(tasks) + 1] = e
    BY <1>1, AppendProperties
  <1>3. ASSUME NEW k \in 1..Len(tasks') PROVE WellFormed(tasks'[k])
    <2>1. k \in 1..Len(tasks) \/ k = Len(tasks) + 1
      BY <1>1, <1>2, LenProperties
    <2> QED BY <1>2, <2>1 DEF TaskPart, Sent
  <1> QED BY <1>2, <1>3 DEF TaskPart, WellFormed

\* A new state of a guild as the server may have it.
Possible(g, new) == new \in ServerGuild /\ \A c \in new.channels : GuildOf[c] = g

\* What a change of the server leaves alone, but for how often the bot has left.
BotVars == <<thread, guildVars, channelVars, userVars, holder, fault>>

LEMMA ChangeType ==
    ASSUME TypeInv, NEW e, NEW new, Change(e, new), Sent(e), e.guild \in Guilds,
           Possible(e.guild, new), kicks' \in 0..MaxKicks, gone' \in SUBSET (Channels \cup Roles)
    PROVE  /\ ServerPart' /\ TaskPart' /\ UNCHANGED BotVars
           /\ tasks' = tasks \/ tasks' = Append(tasks, e)
           /\ server' = [server EXCEPT ![e.guild] = new]
  <1>1. /\ events < MaxEvents /\ server' = [server EXCEPT ![e.guild] = new]
        /\ events' = events + 1 /\ tasks' = (IF link THEN Append(tasks, e) ELSE tasks)
        /\ link' = link /\ outages' = outages /\ UNCHANGED BotVars
    BY DEF Change, BotVars
  <1>2. server' \in [Guilds -> ServerGuild] /\ \A g \in Guilds : \A c \in server'[g].channels : GuildOf[c] = g
    BY <1>1 DEF TypeInv, ServerPart, Possible
  <1>3. events' \in 0..MaxEvents
    BY <1>1, CacheAssumption DEF TypeInv, ServerPart
  <1>4. ServerPart'
    BY <1>1, <1>2, <1>3 DEF TypeInv, ServerPart
  <1>5. TaskPart'
    <2>1. CASE link
      BY <1>1, <2>1, AppendSent DEF TypeInv
    <2>2. CASE ~link
      BY <1>1, <2>2 DEF TypeInv, TaskPart, WellFormed
    <2> QED BY <2>1, <2>2
  <1> QED BY <1>1, <1>4, <1>5

LEMMA ServerAt ==
    ASSUME TypeInv, NEW g \in Guilds
    PROVE  Possible(g, server[g]) /\ GuildOf \in [Channels -> Guilds]
  BY CacheAssumption DEF TypeInv, ServerPart, Possible

\* What the server changes by itself: its guilds, what it told of, and nothing
\* of the bot's.
ServerStep == ServerPart' /\ TaskPart' /\ UNCHANGED BotVars

LEMMA NotifyType ==
    ASSUME TypeInv, NEW e, Sent(e), e.guild \in Guilds, Notify(e)
    PROVE  ServerStep
  <1>1. kicks' \in 0..MaxKicks /\ gone' \in SUBSET (Channels \cup Roles)
    BY DEF Notify, TypeInv, ServerPart
  <1> QED BY <1>1, ServerAt, ChangeType DEF Notify, ServerStep

LEMMA InviteType ==
    ASSUME TypeInv, NEW g \in Guilds, Invite(g)
    PROVE  ServerStep
  <1> DEFINE new == [server[g] EXCEPT !.joined = TRUE]
  <1>1. Possible(g, new)
    BY ServerAt DEF Possible, ServerGuild
  <1>2. Sent(GuildCreate(g, new))
    BY <1>1, GuildCreateSent DEF Possible
  <1>3. GuildCreate(g, new).guild = g
    BY PacketType DEF GuildCreate, AllKinds, Event
  <1>4. kicks' \in 0..MaxKicks /\ gone' \in SUBSET (Channels \cup Roles) /\ Change(GuildCreate(g, new), new)
    BY DEF Invite, TypeInv, ServerPart
  <1> HIDE DEF new
  <1> QED BY <1>1, <1>2, <1>3, <1>4, ChangeType DEF ServerStep

LEMMA KickType ==
    ASSUME TypeInv, NEW g \in Guilds, Kick(g)
    PROVE  ServerStep /\ kicks < MaxKicks /\ kicks' = kicks + 1
  <1> DEFINE new == [server[g] EXCEPT !.joined = FALSE]
  <1>1. Possible(g, new)
    BY ServerAt DEF Possible, ServerGuild
  <1>2. Sent(Packet("GUILD_DELETE", g)) /\ Packet("GUILD_DELETE", g).guild = g
    BY PacketSent, PacketType DEF AllKinds
  <1>3. /\ kicks < MaxKicks /\ kicks' = kicks + 1 /\ gone' = gone
        /\ Change(Packet("GUILD_DELETE", g), new)
    BY DEF Kick
  <1>4. kicks' \in 0..MaxKicks /\ gone' \in SUBSET (Channels \cup Roles)
    BY <1>3, CacheAssumption DEF TypeInv, ServerPart
  <1> HIDE DEF new
  <1> QED BY <1>1, <1>2, <1>3, <1>4, ChangeType DEF ServerStep

LEMMA ChangeGuildType ==
    ASSUME TypeInv, NEW g \in Guilds, ChangeGuild(g)
    PROVE  ServerStep
  <1> DEFINE d == [Packet("GUILD_UPDATE", g) EXCEPT !.load.roles = server[g].roles]
             e == [Packet("GUILD_MEMBERS_CHUNK", g) EXCEPT !.load.members = server[g].members]
  <1>1. server[g] \in ServerGuild
    BY ServerAt DEF Possible
  <1>2. /\ d \in Event /\ d.kind = "GUILD_UPDATE" /\ d.guild = g /\ d.load.channels = {}
    BY <1>1, PacketType, BlankType DEF AllKinds, Event, ServerGuild
  <1>3. /\ e \in Event /\ e.kind = "GUILD_MEMBERS_CHUNK" /\ e.guild = g /\ e.load.channels = {}
    BY <1>1, PacketType, BlankType DEF AllKinds, Event, ServerGuild
  <1>4. Notify(d) \/ Notify(e)
    BY DEF ChangeGuild
  <1> HIDE DEF d, e
  <1>5. Sent(d) /\ Sent(e)
    BY <1>2, <1>3 DEF Sent, WellFormed, ChannelKinds, UserKinds, RoleKinds, MessageKinds
  <1> QED BY <1>2, <1>3, <1>4, <1>5, NotifyType

LEMMA ChangeChannelType ==
    ASSUME TypeInv, NEW g \in Guilds, NEW c \in Channels, ChangeChannel(g, c)
    PROVE  ServerStep
  <1> DEFINE Tale(kind) == [Packet(kind, g) EXCEPT !.channel = c]
  <1>1. ASSUME NEW kind \in {"CHANNEL_CREATE", "CHANNEL_UPDATE", "CHANNEL_DELETE"}, GuildOf[c] = g
        PROVE  Sent(Tale(kind)) /\ Tale(kind).guild = g
    <2>1. /\ Tale(kind) \in Event /\ Tale(kind).kind = kind /\ Tale(kind).guild = g
          /\ Tale(kind).channel = c /\ Tale(kind).load.channels = {}
      BY PacketType, BlankType DEF AllKinds, Event
    <2> HIDE DEF Tale
    <2> QED BY <1>1, <2>1 DEF Sent, WellFormed, UserKinds, RoleKinds, MessageKinds
  <1>2. PICK kind \in {"CHANNEL_CREATE", "CHANNEL_UPDATE", "CHANNEL_DELETE"},
             new \in {[server[g] EXCEPT !.channels = @ \cup {c}], server[g],
                      [server[g] EXCEPT !.channels = @ \ {c}]} :
          /\ GuildOf[c] = g /\ Change(Tale(kind), new) /\ kicks' = kicks
          /\ gone' \in {gone, gone \cup {c}}
    BY DEF ChangeChannel
  <1>3. Possible(g, new)
    BY <1>2, ServerAt DEF Possible, ServerGuild
  <1>4. kicks' \in 0..MaxKicks /\ gone' \in SUBSET (Channels \cup Roles)
    BY <1>2 DEF TypeInv, ServerPart
  <1> HIDE DEF Tale
  <1> QED BY <1>1, <1>2, <1>3, <1>4, ChangeType DEF ServerStep

LEMMA AboutType ==
    ASSUME NEW kind \in AllKinds, NEW g \in Guilds, NEW u \in Users, NEW m \in Membership
    PROVE  LET e == About(kind, g, u, m) IN
           /\ e \in Event /\ e.kind = kind /\ e.guild = g /\ e.user = u
           /\ e.load.channels = {} /\ e.load.members[u] = m
  <1> DEFINE load == [Blank EXCEPT !.members[u] = m]
             p == Packet(kind, g)
             e == [p EXCEPT !.user = u, !.load = load]
  <1>1. load \in ServerGuild /\ load.channels = {} /\ load.members[u] = m
    BY BlankType DEF ServerGuild
  <1>2. p \in Event /\ p.kind = kind /\ p.guild = g /\ p.load = Blank
    BY PacketType
  <1>3. About(kind, g, u, m) = e
    BY <1>2 DEF About, Event
  <1> HIDE DEF p, load
  <1> QED BY <1>1, <1>2, <1>3 DEF Event

LEMMA AboutSent ==
    ASSUME NEW kind \in UserKinds, kind \notin ChannelKinds, NEW g \in Guilds, NEW u \in Users,
           NEW m \in Membership
    PROVE  Sent(About(kind, g, u, m)) /\ About(kind, g, u, m).guild = g
           /\ About(kind, g, u, m).kind = kind
  <1>1. kind \in AllKinds
    BY DEF UserKinds, AllKinds
  <1> QED BY <1>1, AboutType DEF Sent, WellFormed, ChannelKinds, UserKinds, RoleKinds, MessageKinds

LEMMA ChangeMemberType ==
    ASSUME TypeInv, NEW g \in Guilds, NEW u \in Users, ChangeMember(g, u)
    PROVE  ServerStep
  <1> DEFINE New(m) == [server[g] EXCEPT !.members[u] = m]
  <1>1. PICK kind \in {"GUILD_MEMBER_ADD", "GUILD_MEMBER_REMOVE", "GUILD_MEMBER_UPDATE"},
             m \in Membership :
          Change(About(kind, g, u, m), New(m)) /\ kicks' = kicks /\ gone' = gone
    <2>1. ASSUME NEW R \in SUBSET server[g].roles PROVE R \in Membership
      BY ServerAt DEF Possible, ServerGuild, Membership
    <2> QED BY <2>1, Memberships DEF ChangeMember
  <1>2. Possible(g, New(m))
    BY <1>1, ServerAt DEF Possible, ServerGuild
  <1>3. kicks' \in 0..MaxKicks /\ gone' \in SUBSET (Channels \cup Roles)
    BY <1>1 DEF TypeInv, ServerPart
  <1>4. Sent(About(kind, g, u, m)) /\ About(kind, g, u, m).guild = g
    BY AboutSent DEF UserKinds, ChannelKinds
  <1> HIDE DEF New
  <1> QED BY <1>1, <1>2, <1>3, <1>4, ChangeType DEF ServerStep

LEMMA ActivityType ==
    ASSUME TypeInv, NEW g \in Guilds, NEW u \in Users, Activity(g, u)
    PROVE  ServerStep
  <1> DEFINE m == server[g].members[u]
             a == About("PRESENCE_UPDATE", g, u, m)
             b == [Packet("VOICE_STATE_UPDATE", g) EXCEPT !.user = u]
             T(c) == [Packet("TYPING_START", g) EXCEPT !.channel = c, !.user = u]
             M(kind, c) == [About(kind, g, u, m) EXCEPT !.channel = c]
  <1>1. m \in Membership /\ m # NoInfo
    BY ServerAt DEF Possible, ServerGuild, Activity
  <1>2. Sent(a) /\ a.guild = g
    BY <1>1, AboutSent DEF UserKinds, ChannelKinds
  <1>3. Sent(b) /\ b.guild = g
    <2>1. /\ b \in Event /\ b.kind = "VOICE_STATE_UPDATE" /\ b.guild = g /\ b.user = u
          /\ b.load.channels = {}
      BY PacketType, BlankType DEF AllKinds, Event
    <2> HIDE DEF b
    <2> QED BY <2>1 DEF Sent, WellFormed, ChannelKinds, RoleKinds, MessageKinds
  <1>4. ASSUME NEW c \in server[g].channels PROVE c \in Channels /\ GuildOf[c] = g
    BY ServerAt DEF Possible, ServerGuild
  <1>5. ASSUME NEW c \in server[g].channels PROVE Sent(T(c)) /\ T(c).guild = g
    <2>1. /\ T(c) \in Event /\ T(c).kind = "TYPING_START" /\ T(c).guild = g /\ T(c).user = u
          /\ T(c).channel = c /\ T(c).load.channels = {}
      <3> DEFINE p == Packet("TYPING_START", g)
      <3>1. p \in Event /\ p.kind = "TYPING_START" /\ p.guild = g /\ p.load.channels = {}
        BY PacketType, BlankType DEF AllKinds
      <3> HIDE DEF p
      <3>2. LET q == [p EXCEPT !.channel = c, !.user = u] IN
            /\ q \in Event /\ q.kind = "TYPING_START" /\ q.guild = g /\ q.user = u
            /\ q.channel = c /\ q.load.channels = {}
        BY <1>4, <3>1 DEF Event
      <3> QED BY <3>2 DEF p
    <2> HIDE DEF T
    <2> QED BY <1>4, <2>1 DEF Sent, WellFormed, RoleKinds, MessageKinds
  <1>6. ASSUME NEW c \in server[g].channels, NEW kind \in MessageKinds
        PROVE  Sent(M(kind, c)) /\ M(kind, c).guild = g
    <2>1. kind \in AllKinds
      BY DEF MessageKinds, AllKinds
    <2>2. /\ M(kind, c) \in Event /\ M(kind, c).kind = kind /\ M(kind, c).guild = g
          /\ M(kind, c).user = u /\ M(kind, c).channel = c /\ M(kind, c).load.channels = {}
          /\ M(kind, c).load.members[u] = m
      BY <1>1, <1>4, <2>1, AboutType DEF Event
    <2> HIDE DEF M
    <2> QED BY <1>1, <1>4, <2>2 DEF Sent, WellFormed, RoleKinds, MessageKinds
  <1>7. \/ Notify(a) \/ Notify(b)
        \/ \E c \in server[g].channels : Notify(T(c)) \/ \E kind \in MessageKinds : Notify(M(kind, c))
    BY DEF Activity, MessageKinds
  <1> HIDE DEF a, b, T, M
  <1> QED BY <1>2, <1>3, <1>5, <1>6, <1>7, NotifyType

LEMMA ChangeRoleType ==
    ASSUME TypeInv, NEW g \in Guilds, NEW r \in Roles, ChangeRole(g, r)
    PROVE  ServerStep
  <1> DEFINE Tale(kind) == [Packet(kind, g) EXCEPT !.role = r]
             Less(m) == IF m = NoInfo THEN NoInfo ELSE m \ {r}
             lost == [server[g] EXCEPT !.roles = @ \ {r},
                                       !.members = [u \in Users |-> Less(@[u])]]
             won == [server[g] EXCEPT !.roles = @ \cup {r}]
  <1>1. ASSUME NEW kind \in RoleKinds PROVE Sent(Tale(kind)) /\ Tale(kind).guild = g
    <2>1. /\ Tale(kind) \in Event /\ Tale(kind).kind = kind /\ Tale(kind).guild = g
          /\ Tale(kind).role = r /\ Tale(kind).load.channels = {}
      BY PacketType, BlankType DEF AllKinds, Event, RoleKinds
    <2> HIDE DEF Tale
    <2> QED BY <2>1 DEF Sent, WellFormed, ChannelKinds, UserKinds, RoleKinds, MessageKinds
  <1>2. server[g] \in ServerGuild /\ \A c \in server[g].channels : GuildOf[c] = g
    BY ServerAt DEF Possible
  <1>3. Possible(g, lost)
    <2>1. \A m \in Membership : Less(m) \in Membership
      BY DEF Membership
    <2> HIDE DEF Less
    <2> QED BY <1>2, <2>1 DEF Possible, ServerGuild
  <1>4. Possible(g, won)
    BY <1>2 DEF Possible, ServerGuild
  <1>5. PICK kind \in RoleKinds, new \in {lost, won} :
          Change(Tale(kind), new) /\ kicks' = kicks /\ gone' \in {gone, gone \cup {r}}
    BY DEF ChangeRole, RoleKinds
  <1>6. kicks' \in 0..MaxKicks /\ gone' \in SUBSET (Channels \cup Roles)
    BY <1>5 DEF TypeInv, ServerPart
  <1> HIDE DEF Tale, lost, won
  <1> QED BY <1>1, <1>3, <1>4, <1>5, <1>6, ChangeType DEF ServerStep

\* The greeting of a session: READY, and a GUILD_CREATE for each guild.
Greets(e) == Sent(e) /\ e.kind \in {"READY", "GUILD_CREATE"}

LEMMA GreetingType ==
    ASSUME ServerPart
    PROVE  Greeting \in Seq(Event) /\ \A k \in 1..Len(Greeting) : Greets(Greeting[k])
  <1> DEFINE S == {GuildCreate(g, server[g]) : g \in Joined}
             hello == [NoEvent EXCEPT !.all = Joined]
  <1>1. IsFiniteSet(S)
    <2>1. IsFiniteSet(Joined)
      BY CacheAssumption, FS_Subset DEF Joined
    <2> DEFINE f == [g \in Joined |-> GuildCreate(g, server[g])]
    <2>2. f \in Surjection(Joined, S)
      <3>1. f \in [Joined -> S] /\ \A e \in S : \E g \in Joined : f[g] = e
        OBVIOUS
      <3> QED BY <3>1 DEF Surjection
    <2> QED BY <2>1, <2>2, FS_Surjection
  <1>2. ASSUME NEW e \in S PROVE Greets(e)
    BY GuildCreateSent DEF Greets, Joined, ServerPart
  <1>3. Greets(hello)
    <2>1. hello \in Event /\ hello.kind = "READY" /\ hello.load = Blank
      BY BlankType DEF NoEvent, Event, AllKinds, Joined
    <2> HIDE DEF hello
    <2> QED BY <2>1, BlankType DEF Greets, Sent, WellFormed, ChannelKinds, UserKinds, RoleKinds,
            MessageKinds
  <1>4. SetToSeq(S) \in [1..Cardinality(S) -> S]
    <2>1. \E f \in [1..Cardinality(S) -> S] : IsInjective(f)
      <3> HIDE DEF S
      <3>1. ExistsBijection(1..Cardinality(S), S)
        BY <1>1, FS_NatBijection, FS_CountingElements, FS_CardinalityType
      <3> QED BY <3>1 DEF ExistsBijection, Bijection, Injection, IsInjective
    <2> HIDE DEF S
    <2> QED BY <2>1 DEF SetToSeq
  <1> HIDE DEF S, hello
  <1>5. Cardinality(S) \in Nat
    BY <1>1, FS_CardinalityType
  <1>6. \A e \in S : e \in Event
    BY <1>2 DEF Greets, Sent
  <1>7. /\ SetToSeq(S) \in Seq(Event) /\ Len(SetToSeq(S)) = Cardinality(S)
    <2>1. SetToSeq(S) \in [1..Cardinality(S) -> Event]
      BY <1>4, <1>6
    <2> QED BY <1>5, <2>1, SeqDef
  <1>8. Greeting = <<hello>> \o SetToSeq(S)
    BY DEF Greeting, S, hello
  <1>9. <<hello>> \in Seq(Event) /\ Len(<<hello>>) = 1 /\ <<hello>>[1] = hello
    BY <1>3 DEF Greets, Sent
  <1>10. Greeting \in Seq(Event) /\ Len(Greeting) = 1 + Cardinality(S)
    BY <1>7, <1>8, <1>9, ConcatProperties
  <1>11. ASSUME NEW k \in 1..Len(Greeting) PROVE Greets(Greeting[k])
    <2>1. CASE k = 1
      <3>1. Greeting[1] = hello
        BY <1>7, <1>8, <1>9, ConcatProperties
      <3> QED BY <1>3, <2>1, <3>1
    <2>2. CASE k # 1
      <3>1. k - 1 \in 1..Cardinality(S) /\ Greeting[k] = SetToSeq(S)[k - 1]
        BY <1>5, <1>7, <1>8, <1>9, <1>10, <2>2, ConcatProperties
      <3> QED BY <1>2, <1>4, <3>1
    <2> QED BY <2>1, <2>2
  <1> QED BY <1>10, <1>11

LEMMA SessionType ==
    ASSUME TypeInv, LoseSession \/ NewSession
    PROVE  ServerStep
  <1>1. CASE LoseSession
    <2>1. ServerPart' /\ UNCHANGED BotVars /\ tasks' = tasks
      <3>1. /\ UNCHANGED <<server, events, kicks, gone, tasks>> /\ UNCHANGED BotVars
            /\ outages < MaxOutages /\ outages' = outages + 1 /\ link' = FALSE
        BY <1>1 DEF LoseSession, BotVars
      <3>2. outages' \in 0..MaxOutages
        BY <3>1, CacheAssumption DEF TypeInv, ServerPart
      <3> QED BY <3>1, <3>2 DEF TypeInv, ServerPart
    <2> QED BY <2>1 DEF TypeInv, TaskPart, ServerStep, WellFormed
  <1>2. CASE NewSession
    <2>1. ServerPart' /\ UNCHANGED BotVars /\ tasks' = tasks \o Greeting
      BY <1>2 DEF NewSession, TypeInv, ServerPart, BotVars
    <2>2. Greeting \in Seq(Event) /\ \A k \in 1..Len(Greeting) : Greets(Greeting[k])
      BY GreetingType DEF TypeInv
    <2>3. tasks \in Seq(Event) /\ \A k \in 1..Len(tasks) : WellFormed(tasks[k])
      BY DEF TypeInv, TaskPart
    <2> HIDE DEF Greeting
    <2>4. /\ tasks' \in Seq(Event) /\ Len(tasks') = Len(tasks) + Len(Greeting)
          /\ \A k \in 1..Len(tasks') : tasks'[k] = IF k <= Len(tasks) THEN tasks[k]
                                                   ELSE Greeting[k - Len(tasks)]
      BY <2>1, <2>2, <2>3, ConcatProperties
    <2>5. ASSUME NEW k \in 1..Len(tasks') PROVE WellFormed(tasks'[k])
      <3>1. Len(tasks) \in Nat /\ Len(Greeting) \in Nat
        BY <2>2, <2>3, LenProperties
      <3>2. CASE k <= Len(tasks)
        BY <2>3, <2>4, <3>1, <3>2
      <3>3. CASE k > Len(tasks)
        <4>1. k - Len(tasks) \in 1..Len(Greeting)
          BY <2>4, <3>1, <3>3
        <4> QED BY <2>2, <2>4, <3>1, <3>3, <4>1 DEF Greets, Sent
      <3> QED BY <3>1, <3>2, <3>3
    <2>6. TaskPart'
      BY <2>4, <2>5 DEF TaskPart, WellFormed
    <2> QED BY <2>1, <2>6 DEF ServerStep
  <1> QED BY <1>1, <1>2

LEMMA ServerType ==
    ASSUME TypeInv, ServerChanges
    PROVE  ServerStep
  <1>1. \A g \in Joined : g \in Guilds
    BY DEF Joined
  <1> QED BY <1>1, SessionType, InviteType, KickType, ChangeGuildType, ChangeChannelType,
          ChangeMemberType, ActivityType, ChangeRoleType DEF ServerChanges

-----------------------------------------------------------------------------
(* The parts of the state that a step of a thread may touch.               *)

\* The thread goes on at s with the guild n and the channel m.
Going(r, s, n, m) == [r EXCEPT !.step = s, !.guild = n, !.channel = m]

LEMMA GoingType ==
    ASSUME NEW r \in ThreadState, NEW s \in Step, NEW n \in Nat, NEW m \in Nat
    PROVE  LET q == Going(r, s, n, m) IN
           /\ q \in ThreadState /\ q.step = s /\ q.guild = n /\ q.channel = m
           /\ q.event = r.event /\ q.todo = r.todo
  BY DEF Going, ThreadState

LEMMA ThreadAt ==
    ASSUME TypeInv, NEW t \in Threads
    PROVE  /\ thread \in [Threads -> ThreadState] /\ thread[t] \in ThreadState /\ Equipped(thread[t])
           /\ thread[t].event \in Event /\ WellFormed(thread[t].event)
           /\ thread[t].event.kind \in HandledAt[thread[t].step]
           /\ thread[t].guild \in Nat /\ thread[t].channel \in Nat
           /\ thread[t].event.load \in ServerGuild
  <1>1. thread \in [Threads -> ThreadState] /\ thread[t] \in ThreadState /\ Equipped(thread[t])
    BY DEF TypeInv, ThreadPart
  <1>2. thread[t].event \in Event /\ thread[t].guild \in Nat /\ thread[t].channel \in Nat
    BY <1>1 DEF ThreadState
  <1> QED BY <1>1, <1>2 DEF Event, Equipped

LEMMA GotoGoes ==
    ASSUME TypeInv, NEW t \in Threads, NEW s \in Step, NEW n \in Nat
    PROVE  /\ Goto(t, s) => thread' = [thread EXCEPT ![t] =
                                          Going(thread[t], s, thread[t].guild, thread[t].channel)]
           /\ [thread EXCEPT ![t].step = s, ![t].guild = n]
                = [thread EXCEPT ![t] = Going(thread[t], s, n, thread[t].channel)]
           /\ [thread EXCEPT ![t].step = s, ![t].channel = n]
                = [thread EXCEPT ![t] = Going(thread[t], s, thread[t].guild, n)]
  BY ThreadAt DEF Goto, Going, ThreadState

LEMMA ThreadKept ==
    ASSUME TypeInv, NEW t \in Threads, NEW r \in ThreadState, Equipped(r),
           thread' = [thread EXCEPT ![t] = r]
    PROVE  ThreadPart' /\ thread'[t] = r /\ \A u \in Threads : u # t => thread'[u] = thread[u]
  <1>1. thread' \in [Threads -> ThreadState] /\ thread'[t] = r
        /\ \A u \in Threads : u # t => thread'[u] = thread[u]
    BY ThreadAt
  <1>2. \A u \in Threads : Equipped(thread'[u])
    BY <1>1 DEF TypeInv, ThreadPart
  <1> QED BY <1>1, <1>2 DEF ThreadPart, Equipped, WellFormed, Listed

\* A step of the thread t that leaves it with r.
Steps(t, r) == r \in ThreadState /\ Equipped(r) /\ thread' = [thread EXCEPT ![t] = r]

LEMMA Returns ==
    ASSUME NEW t \in Threads, Return(t)
    PROVE  Steps(t, Idle)
  BY IdleType DEF Return, Steps

LEMMA ServerKept ==
    ASSUME TypeInv, UNCHANGED serverVars
    PROVE  ServerPart'
  BY DEF TypeInv, ServerPart, serverVars

LEMMA TasksKept ==
    ASSUME TypeInv, UNCHANGED tasks
    PROVE  TaskPart'
  BY DEF TypeInv, TaskPart, WellFormed

LEMMA GuildsKept ==
    ASSUME TypeInv, UNCHANGED guildVars
    PROVE  GuildPart'
  BY DEF TypeInv, GuildPart, guildVars

LEMMA ChannelsKept ==
    ASSUME TypeInv, UNCHANGED channelVars
    PROVE  ChannelPart'
  BY DEF TypeInv, ChannelPart, channelVars

LEMMA NewType == NewGuild \in GuildObject /\ NewChannel \in ChannelObject
  BY DEF NewGuild, NewChannel, GuildObject, ChannelObject, Holder

LEMMA MakeGuildsType ==
    ASSUME TypeInv, NEW G \in SUBSET Guilds, MakeGuilds(G)
    PROVE  /\ GuildPart'
           /\ \A g \in Guilds :
                 /\ g \in G \ guilds => /\ Len(guildObj'[g]) = Len(guildObj[g]) + 1
                                        /\ guildObj'[g][Len(guildObj'[g])] = NewGuild
                 /\ g \notin G \ guilds => guildObj'[g] = guildObj[g]
  <1>1. ASSUME NEW g \in Guilds
        PROVE  /\ guildObj'[g] \in Seq(GuildObject)
               /\ g \in G \ guilds => /\ Len(guildObj'[g]) = Len(guildObj[g]) + 1
                                      /\ guildObj'[g][Len(guildObj'[g])] = NewGuild
               /\ g \notin G \ guilds => guildObj'[g] = guildObj[g]
    <2>1. guildObj[g] \in Seq(GuildObject)
      BY DEF TypeInv, GuildPart
    <2>2. guildObj'[g] = IF g \in G \ guilds THEN Append(guildObj[g], NewGuild) ELSE guildObj[g]
      BY DEF MakeGuilds
    <2> QED BY <2>1, <2>2, NewType, AppendProperties
  <1>2. guildObj' \in [Guilds -> Seq(GuildObject)]
    BY <1>1 DEF MakeGuilds
  <1>3. guilds' = guilds \cup G /\ staleGuilds' = staleGuilds
    BY DEF MakeGuilds
  <1>4. ASSUME NEW g \in Guilds
        PROVE  staleGuilds'[g] <= Len(guildObj'[g]) /\ (g \in guilds' => guildObj'[g] # <<>>)
    <2>1. /\ guildObj[g] \in Seq(GuildObject) /\ staleGuilds[g] \in Nat
          /\ staleGuilds[g] <= Len(guildObj[g]) /\ (g \in guilds => guildObj[g] # <<>>)
      BY DEF TypeInv, GuildPart
    <2>2. Len(guildObj[g]) \in Nat
      BY <2>1, LenProperties
    <2>3. CASE g \in G \ guilds
      BY <1>1, <1>3, <2>1, <2>2, <2>3, EmptySeq
    <2>4. CASE g \notin G \ guilds
      BY <1>1, <1>3, <2>1, <2>4
    <2> QED BY <2>3, <2>4
  <1> QED BY <1>1, <1>2, <1>3, <1>4 DEF TypeInv, GuildPart

LEMMA MakeChannelType ==
    ASSUME TypeInv, NEW c \in Channels, MakeChannel(c)
    PROVE  /\ ChannelPart' /\ channels' = channels \cup {c} /\ staleChannels' = staleChannels
           /\ \A d \in Channels : d # c => channelObj'[d] = channelObj[d]
           /\ c \in channels => channelObj'[c] = channelObj[c]
           /\ c \notin channels => channelObj'[c] = Append(channelObj[c], NewChannel)
           /\ Len(channelObj'[c]) \in Nat /\ Len(channelObj'[c]) # 0
  <1>1. /\ channelObj \in [Channels -> Seq(ChannelObject)] /\ channels \subseteq Channels
        /\ \A d \in Channels : staleChannels[d] \in Nat /\ staleChannels[d] <= Len(channelObj[d])
                               /\ (d \in channels => channelObj[d] # <<>>)
        /\ staleChannels \in [Channels -> Nat]
    BY DEF TypeInv, ChannelPart
  <1>2. channels' = channels \cup {c} /\ staleChannels' = staleChannels
    BY DEF MakeChannel
  <1>3. CASE c \in channels
    <2>1. channelObj' = channelObj
      BY <1>3 DEF MakeChannel, WithChannel
    <2> QED BY <1>1, <1>2, <1>3, <2>1, EmptySeq, LenProperties DEF ChannelPart
  <1>4. CASE c \notin channels
    <2>1. channelObj' = [channelObj EXCEPT ![c] = Append(channelObj[c], NewChannel)]
      BY <1>4 DEF MakeChannel, WithChannel
    <2>2. /\ Append(channelObj[c], NewChannel) \in Seq(ChannelObject)
          /\ Len(Append(channelObj[c], NewChannel)) = Len(channelObj[c]) + 1
      BY <1>1, NewType, AppendProperties
    <2>3. Len(channelObj[c]) \in Nat
      BY <1>1, LenProperties
    <2>4. Append(channelObj[c], NewChannel) # <<>>
      <3>1. Len(<<>>) = 0
        OBVIOUS
      <3> QED BY <2>2, <2>3, <3>1
    <2> QED BY <1>1, <1>2, <1>4, <2>1, <2>2, <2>3, <2>4 DEF ChannelPart
  <1> QED BY <1>3, <1>4

\* The object in the hands of a thread is one that was made.
LEMMA GuildInHand ==
    ASSUME TypeInv, NEW t \in Threads, thread[t].guild # 0,
           Uses(t) \/ thread[t].step = "removeMember"
    PROVE  /\ thread[t].event.guild \in Guilds
           /\ thread[t].guild \in 1..Len(guildObj[thread[t].event.guild])
           /\ Obj(t) \in GuildObject
           /\ guildObj[thread[t].event.guild] \in Seq(GuildObject)
  <1> DEFINE g == thread[t].event.guild
             n == thread[t].guild
  <1>1. g \in Guilds /\ n \in Nat
    BY ThreadAt DEF Equipped
  <1>2. /\ guildObj[g] \in Seq(GuildObject) /\ staleGuilds[g] <= Len(guildObj[g])
        /\ g \in guilds => guildObj[g] # <<>>
    BY <1>1 DEF TypeInv, GuildPart
  <1>3. n <= Len(guildObj[g])
    <2>1. CASE Uses(t)
      BY <1>1, <1>2, <2>1, LenProperties DEF Uses, GuildAlive, GuildPtr
    <2>2. CASE thread[t].step = "removeMember"
      BY <1>2, <2>2, LenProperties DEF TypeInv, LockPart
    <2> QED BY <2>1, <2>2
  <1>4. n \in 1..Len(guildObj[g])
    BY <1>1, <1>2, <1>3, LenProperties
  <1>5. Obj(t) \in GuildObject
    BY <1>2, <1>4, ElementOfSeq DEF Obj
  <1> QED BY <1>1, <1>2, <1>4, <1>5

LEMMA ChannelInHand ==
    ASSUME TypeInv, NEW t \in Threads, thread[t].channel # 0, Uses(t)
    PROVE  /\ thread[t].event.channel \in Channels
           /\ thread[t].channel \in 1..Len(channelObj[thread[t].event.channel])
           /\ Chan(t) \in ChannelObject
           /\ channelObj[thread[t].event.channel] \in Seq(ChannelObject)
  <1> DEFINE c == thread[t].event.channel
             n == thread[t].channel
  <1>1. c \in Channels /\ n \in Nat
    BY ThreadAt DEF Equipped
  <1>2. channelObj[c] \in Seq(ChannelObject) /\ staleChannels[c] <= Len(channelObj[c])
    BY <1>1 DEF TypeInv, ChannelPart
  <1>3. n <= Len(channelObj[c])
    BY <1>1, <1>2, LenProperties DEF Uses, ChannelAlive, ChannelPtr
  <1>4. n \in 1..Len(channelObj[c])
    BY <1>1, <1>2, <1>3, LenProperties
  <1>5. Chan(t) \in ChannelObject
    BY <1>2, <1>4, ElementOfSeq DEF Chan
  <1> QED BY <1>1, <1>2, <1>4, <1>5

\* One object changes: no other does, and none is made.
LEMMA SetObjType ==
    ASSUME TypeInv, NEW t \in Threads, thread[t].guild # 0,
           Uses(t) \/ thread[t].step = "removeMember",
           NEW obj \in GuildObject, SetObj(t, obj)
    PROVE  /\ GuildPart' /\ guilds' = guilds /\ staleGuilds' = staleGuilds
           /\ guildObj'[thread[t].event.guild][thread[t].guild] = obj
           /\ \A g \in Guilds :
                 /\ Len(guildObj'[g]) = Len(guildObj[g])
                 /\ \A i \in 1..Len(guildObj[g]) :
                       g # thread[t].event.guild \/ i # thread[t].guild
                           => guildObj'[g][i] = guildObj[g][i]
  <1> DEFINE h == thread[t].event.guild
             n == thread[t].guild
  <1>1. /\ h \in Guilds /\ n \in 1..Len(guildObj[h]) /\ guildObj[h] \in Seq(GuildObject)
    BY GuildInHand
  <1>2. guildObj \in [Guilds -> Seq(GuildObject)]
    BY DEF TypeInv, GuildPart
  <1>3. guildObj' = [guildObj EXCEPT ![h] = [guildObj[h] EXCEPT ![n] = obj]]
        /\ guilds' = guilds /\ staleGuilds' = staleGuilds
    BY DEF SetObj
  <1>4. /\ [guildObj[h] EXCEPT ![n] = obj] \in Seq(GuildObject)
        /\ Len([guildObj[h] EXCEPT ![n] = obj]) = Len(guildObj[h])
        /\ [guildObj[h] EXCEPT ![n] = obj][n] = obj
        /\ \A i \in 1..Len(guildObj[h]) : i # n => [guildObj[h] EXCEPT ![n] = obj][i] = guildObj[h][i]
    BY <1>1, ExceptSeq
  <1> HIDE DEF h, n
  <1>5. /\ guildObj' \in [Guilds -> Seq(GuildObject)]
        /\ \A g \in Guilds : Len(guildObj'[g]) = Len(guildObj[g])
        /\ guildObj'[h][n] = obj
        /\ \A g \in Guilds : \A i \in 1..Len(guildObj[g]) :
              g # h \/ i # n => guildObj'[g][i] = guildObj[g][i]
    BY <1>1, <1>2, <1>3, <1>4
  <1>6. \A g \in Guilds :
           staleGuilds'[g] <= Len(guildObj'[g]) /\ (g \in guilds' => guildObj'[g] # <<>>)
    <2> SUFFICES ASSUME NEW g \in Guilds
                 PROVE  staleGuilds'[g] <= Len(guildObj'[g]) /\ (g \in guilds' => guildObj'[g] # <<>>)
      OBVIOUS
    <2>1. guildObj[g] \in Seq(GuildObject) /\ guildObj'[g] \in Seq(GuildObject)
      BY <1>2, <1>5
    <2>2. staleGuilds[g] <= Len(guildObj[g]) /\ (g \in guilds => guildObj[g] # <<>>)
      BY DEF TypeInv, GuildPart
    <2>3. guildObj'[g] = <<>> => guildObj[g] = <<>>
      BY <1>5, <2>1, EmptySeq
    <2> QED BY <1>3, <1>5, <2>2, <2>3
  <1> QED BY <1>3, <1>5, <1>6 DEF TypeInv, GuildPart, h, n

LEMMA SetChanType ==
    ASSUME TypeInv, NEW t \in Threads, thread[t].channel # 0, Uses(t),
           NEW chan \in ChannelObject,
           channelObj' = [channelObj EXCEPT ![thread[t].event.channel][thread[t].channel] = chan]
    PROVE  /\ channelObj' \in [Channels -> Seq(ChannelObject)]
           /\ channelObj'[thread[t].event.channel][thread[t].channel] = chan
           /\ \A c \in Channels :
                 /\ Len(channelObj'[c]) = Len(channelObj[c])
                 /\ channelObj[c] # <<>> => channelObj'[c] # <<>>
                 /\ \A i \in 1..Len(channelObj[c]) :
                       c # thread[t].event.channel \/ i # thread[t].channel
                           => channelObj'[c][i] = channelObj[c][i]
  <1> DEFINE h == thread[t].event.channel
             n == thread[t].channel
  <1>1. /\ h \in Channels /\ n \in 1..Len(channelObj[h]) /\ channelObj[h] \in Seq(ChannelObject)
    BY ChannelInHand
  <1>2. channelObj \in [Channels -> Seq(ChannelObject)]
    BY DEF TypeInv, ChannelPart
  <1>3. channelObj' = [channelObj EXCEPT ![h] = [channelObj[h] EXCEPT ![n] = chan]]
    OBVIOUS
  <1>4. /\ [channelObj[h] EXCEPT ![n] = chan] \in Seq(ChannelObject)
        /\ Len([channelObj[h] EXCEPT ![n] = chan]) = Len(channelObj[h])
        /\ [channelObj[h] EXCEPT ![n] = chan][n] = chan
        /\ \A i \in 1..Len(channelObj[h]) :
              i # n => [channelObj[h] EXCEPT ![n] = chan][i] = channelObj[h][i]
    BY <1>1, ExceptSeq
  <1> HIDE DEF h, n
  <1>5. /\ channelObj' \in [Channels -> Seq(ChannelObject)]
        /\ \A c \in Channels : Len(channelObj'[c]) = Len(channelObj[c])
        /\ channelObj'[h][n] = chan
        /\ \A c \in Channels : \A i \in 1..Len(channelObj[c]) :
              c # h \/ i # n => channelObj'[c][i] = channelObj[c][i]
    BY <1>1, <1>2, <1>3, <1>4
  <1>6. \A c \in Channels : channelObj[c] # <<>> => channelObj'[c] # <<>>
    BY <1>2, <1>5, EmptySeq
  <1> QED BY <1>5, <1>6 DEF h, n

LEMMA ChannelPartKept ==
    ASSUME TypeInv, NEW t \in Threads, thread[t].channel # 0, Uses(t),
           NEW chan \in ChannelObject, SetChan(t, chan)
    PROVE  ChannelPart' /\ channels' = channels /\ staleChannels' = staleChannels
  <1>1. /\ channelObj' = [channelObj EXCEPT ![thread[t].event.channel][thread[t].channel] = chan]
        /\ channels' = channels /\ staleChannels' = staleChannels
    BY DEF SetChan
  <1> QED BY <1>1, SetChanType DEF TypeInv, ChannelPart

\* The map's objects are where a thread that holds _guild_m found them.
MapHeld ==
    \/ Free(holder["guilds"])
    \/ guilds' = guilds /\ \A g \in Guilds : Len(guildObj'[g]) = Len(guildObj[g])

Holding == {"removeMember", "erase"}

LEMMA LocksKept ==
    ASSUME TypeInv, NEW t \in Threads, NEW r, Steps(t, r), thread[t].step \notin Holding,
           r.step \notin Holding, holder' = holder, fault' \in {"none", "null", "noInfo"}, MapHeld
    PROVE  LockPart'
  <1>1. thread'[t] = r /\ \A u \in Threads : u # t => thread'[u] = thread[u]
    BY ThreadKept DEF Steps
  <1>2. Null \notin Threads
    BY CacheAssumption
  <1>3. ASSUME NEW u \in Threads
        PROVE  /\ holder["guilds"] = u <=> thread'[u].step = "removeMember"
               /\ holder["channels"] = u <=> thread'[u].step = "erase"
               /\ thread'[u].step = "removeMember" =>
                      /\ thread'[u].event.guild \in guilds'
                      /\ thread'[u].guild = Len(guildObj'[thread'[u].event.guild])
    <2>1. CASE u = t
      BY <1>1, <2>1 DEF TypeInv, LockPart, Holding
    <2>2. CASE u # t
      <3>1. thread'[u] = thread[u]
        BY <1>1, <2>2
      <3>2. thread[u].step = "removeMember" =>
                /\ holder["guilds"] = u /\ thread[u].event.guild \in guilds
                /\ thread[u].guild = Len(guildObj[thread[u].event.guild])
        BY DEF TypeInv, LockPart
      <3>3. guilds \subseteq Guilds
        BY DEF TypeInv, GuildPart
      <3>4. thread[u].step = "removeMember" =>
                guilds' = guilds /\ \A g \in Guilds : Len(guildObj'[g]) = Len(guildObj[g])
        BY <1>2, <3>2 DEF MapHeld, Free
      <3> QED BY <3>1, <3>2, <3>3, <3>4 DEF TypeInv, LockPart
    <2> QED BY <2>1, <2>2
  <1> QED BY <1>3 DEF TypeInv, LockPart

-----------------------------------------------------------------------------
(* The handlers keep the types.                                            *)

LEMMA KindsAt ==
    /\ HandledAt["idle"] = {"READY"} /\ HandledAt["ready"] = {"READY"}
    /\ HandledAt["create"] = {"GUILD_CREATE", "VOICE_STATE_UPDATE"}
    /\ HandledAt["find"] = DOMAIN AfterFind
    /\ HandledAt["load"] = LoadKinds /\ HandledAt["loadChannels"] = LoadKinds
    /\ HandledAt["loadChannel"] = LoadKinds
    /\ HandledAt["mark"] = {"GUILD_DELETE"} /\ HandledAt["remove"] = {"GUILD_DELETE"}
    /\ HandledAt["createChannel"] = {"CHANNEL_CREATE", "CHANNEL_UPDATE", "MESSAGE_UPDATE", "TYPING_START"}
    /\ HandledAt["findChannel"] = {"CHANNEL_DELETE", "MESSAGE_CREATE"}
    /\ HandledAt["link"] = {"CHANNEL_CREATE"} /\ HandledAt["update"] = {"CHANNEL_UPDATE"}
    /\ HandledAt["lockChannel"] = {"CHANNEL_DELETE"} /\ HandledAt["erase"] = {"CHANNEL_DELETE"}
    /\ HandledAt["lockGuilds"] = {"GUILD_MEMBER_REMOVE"}
    /\ HandledAt["removeMember"] = {"GUILD_MEMBER_REMOVE"}
    /\ HandledAt["join"] = {"GUILD_MEMBER_ADD", "GUILD_MEMBER_UPDATE", "GUILD_MEMBERS_CHUNK",
                            "PRESENCE_UPDATE"}
    /\ HandledAt["message"] = MessageKinds /\ HandledAt["add"] = MessageKinds
    /\ HandledAt["joinUser"] = MessageKinds
    /\ HandledAt["loadRole"] = {"GUILD_ROLE_CREATE"} /\ HandledAt["removeRole"] = {"GUILD_ROLE_DELETE"}
  BY DEF HandledAt

\* A handler goes on to another step.
LEMMA GoesOn ==
    ASSUME TypeInv, NEW t \in Threads, NEW s \in Step, NEW n \in Nat, NEW m \in Nat,
           s # "idle", thread[t].event.kind \in HandledAt[s],
           s \in GuildSteps => n # 0,
           s \in ChannelSteps => m # 0,
           s \in {"createChannel", "findChannel"}
             /\ thread[t].event.kind \notin MessageKinds \cup {"TYPING_START"} => n # 0,
           n # 0 => thread[t].event.guild \in Guilds,
           m # 0 => /\ thread[t].event.channel \in Channels
                    /\ GuildOf[thread[t].event.channel] = thread[t].event.guild,
           thread' = [thread EXCEPT ![t] = Going(thread[t], s, n, m)]
    PROVE  Steps(t, Going(thread[t], s, n, m))
  <1> DEFINE q == Going(thread[t], s, n, m)
  <1>1. /\ q \in ThreadState /\ q.step = s /\ q.guild = n /\ q.channel = m
        /\ q.event = thread[t].event /\ q.todo = thread[t].todo
    BY ThreadAt, GoingType
  <1>2. Equipped(thread[t])
    BY ThreadAt
  <1> HIDE DEF q
  <1>3. Equipped(q)
    BY <1>1, <1>2 DEF Equipped
  <1> QED BY <1>1, <1>3 DEF Steps, q

LEMMA NoLoad ==
    ASSUME NEW e, WellFormed(e)
    PROVE  /\ e.kind # "READY" => e.guild \in Guilds
           /\ e.kind \in ChannelKinds => e.channel \in Channels /\ GuildOf[e.channel] = e.guild
           /\ e.kind \in UserKinds => e.user \in Users
           /\ e.kind \in RoleKinds => e.role \in Roles
           /\ e.kind \in MessageKinds => e.load.members[e.user] # NoInfo
  BY DEF WellFormed

LEMMA Handled ==
    ASSUME TypeInv, NEW t \in Threads, NEW r, Steps(t, r), UNCHANGED <<serverVars, tasks>>,
           GuildPart', ChannelPart', UserPart', LockPart'
    PROVE  TypeInv'
  BY ServerKept, TasksKept, ThreadKept DEF TypeInv, Steps

LEMMA UsersKept ==
    ASSUME TypeInv, users' \in [Users -> {"none", "bare", "named"}],
           info' \in [Users -> [Guilds -> Membership]]
    PROVE  UserPart'
  BY DEF UserPart

\* A handler that touches no object.
LEMMA Passing ==
    ASSUME TypeInv, NEW t \in Threads, NEW r, Steps(t, r),
           UNCHANGED <<serverVars, tasks, guildVars, channelVars, holder>>, UserPart',
           fault' \in {"none", "null", "noInfo"}, thread[t].step \notin Holding, r.step \notin Holding
    PROVE  TypeInv'
  <1>1. MapHeld
    BY DEF MapHeld, guildVars
  <1>2. LockPart'
    BY <1>1, LocksKept
  <1> QED BY <1>2, GuildsKept, ChannelsKept, Handled

LEMMA TakeType ==
    ASSUME TypeInv, NEW t \in Threads, Take(t)
    PROVE  TypeInv' /\ \E r : Steps(t, r) /\ r.event = Head(tasks) /\ r.guild = 0 /\ r.channel = 0
  <1> DEFINE e == Head(tasks)
             todo == IF e.kind \in {"GUILD_CREATE", "GUILD_UPDATE"} THEN e.load.channels ELSE Listed(e)
             r == [Idle EXCEPT !.step = First(e.kind), !.event = e, !.todo = todo]
  <1>1. /\ thread[t].step = "idle" /\ fault' = fault /\ tasks # <<>> /\ tasks' = Tail(tasks)
        /\ thread' = [thread EXCEPT ![t] = r]
        /\ UNCHANGED <<serverVars, guildVars, channelVars, userVars, holder>>
    BY DEF Take, At
  <1>2. tasks \in Seq(Event) /\ \A k \in 1..Len(tasks) : WellFormed(tasks[k])
    BY DEF TypeInv, TaskPart
  <1>3. e \in Event /\ WellFormed(e)
    BY <1>1, <1>2, HeadTailProperties, LenProperties, EmptySeq
  <1>4. /\ First(e.kind) \in Step \ ({"idle"} \cup GuildSteps \cup ChannelSteps \cup Holding)
        /\ e.kind \in HandledAt[First(e.kind)]
        /\ First(e.kind) = "createChannel" => e.kind \in MessageKinds \cup {"TYPING_START"}
        /\ First(e.kind) = "findChannel" => e.kind \in MessageKinds
    <2>1. e.kind \in AllKinds
      BY <1>3 DEF Event
    <2> QED BY <2>1, KindsAt
            DEF AllKinds, First, Step, GuildSteps, ChannelSteps, Holding, MessageKinds, AfterFind
  <1>5. todo \in SUBSET (Channels \cup Users)
    BY <1>3 DEF Event, ServerGuild, Listed
  <1>6. todo \subseteq IF e.kind \in LoadKinds THEN e.load.channels ELSE Listed(e)
    BY DEF LoadKinds
  <1> HIDE DEF e, todo
  <1>7. /\ r \in ThreadState /\ r.step = First(e.kind) /\ r.event = e /\ r.guild = 0 /\ r.channel = 0
        /\ r.todo = todo
    BY <1>3, <1>4, <1>5, IdleType DEF Idle, ThreadState
  <1> HIDE DEF r
  <1>8. Steps(t, r)
    BY <1>1, <1>3, <1>4, <1>6, <1>7 DEF Steps, Equipped
  <1>9. LockPart'
    <2>1. MapHeld
      BY <1>1 DEF MapHeld, guildVars
    <2> QED BY <1>1, <1>4, <1>7, <1>8, <2>1, LocksKept DEF Holding, TypeInv, LockPart
  <1>10. TaskPart'
    <2>1. tasks' \in Seq(Event) /\ Len(tasks') = Len(tasks) - 1
          /\ \A k \in 1..Len(tasks') : tasks'[k] = tasks[k + 1]
      BY <1>1, <1>2, HeadTailProperties
    <2>2. Len(tasks) \in Nat /\ \A k \in 1..Len(tasks') : k + 1 \in 1..Len(tasks)
      BY <1>2, <2>1, LenProperties
    <2> QED BY <1>2, <2>1, <2>2 DEF TaskPart, WellFormed
  <1>11. UserPart'
    BY <1>1 DEF TypeInv, UserPart, userVars
  <1>12. ThreadPart'
    BY <1>8, ThreadKept DEF Steps
  <1>13. TypeInv'
    BY <1>1, <1>9, <1>10, <1>11, <1>12, ServerKept, GuildsKept, ChannelsKept DEF TypeInv
  <1> QED BY <1>7, <1>8, <1>13 DEF e

LEMMA ReadyType ==
    ASSUME TypeInv, NEW t \in Threads, Ready(t)
    PROVE  TypeInv'
  <1>1. /\ MakeGuilds(thread[t].event.all) /\ Free(holder["guilds"]) /\ Return(t) /\ fault' = fault
        /\ thread[t].step = "ready"
        /\ UNCHANGED <<serverVars, tasks, channelVars, userVars, holder>>
    BY DEF Ready, At
  <1>2. GuildPart'
    <2>1. thread[t].event.all \in SUBSET Guilds
      BY ThreadAt DEF Event
    <2> QED BY <1>1, <2>1, MakeGuildsType
  <1>3. Steps(t, Idle) /\ Idle.step = "idle"
    BY <1>1, Returns DEF Idle
  <1>4. LockPart'
    BY <1>1, <1>3, LocksKept DEF Holding, MapHeld, TypeInv, LockPart
  <1>5. UserPart'
    BY <1>1 DEF TypeInv, UserPart, userVars
  <1> QED BY <1>1, <1>2, <1>3, <1>4, <1>5, ChannelsKept, Handled

LEMMA CreateType ==
    ASSUME TypeInv, NEW t \in Threads, Create(t)
    PROVE  TypeInv'
  <1> DEFINE e == thread[t].event
             n == Len(guildObj'[e.guild])
             r == IF e.kind = "GUILD_CREATE" THEN Going(thread[t], "load", n, thread[t].channel) ELSE Idle
  <1>1. /\ MakeGuilds({e.guild}) /\ Free(holder["guilds"]) /\ fault' = fault
        /\ thread[t].step = "create"
        /\ UNCHANGED <<serverVars, tasks, channelVars, userVars, holder>>
        /\ thread' = [thread EXCEPT ![t] =
               IF e.kind = "GUILD_CREATE" THEN [@ EXCEPT !.step = "load", !.guild = n] ELSE Idle]
    BY DEF Create, At
  <1>2. e.guild \in Guilds /\ (e.kind = "GUILD_CREATE" \/ e.kind = "VOICE_STATE_UPDATE")
    BY <1>1, ThreadAt, KindsAt, NoLoad
  <1>3. GuildPart'
    BY <1>1, <1>2, MakeGuildsType
  <1>4. n \in Nat /\ n # 0
    <2>1. guildObj'[e.guild] \in Seq(GuildObject) /\ guildObj'[e.guild] # <<>>
      BY <1>1, <1>2, <1>3 DEF GuildPart, MakeGuilds
    <2> QED BY <2>1, EmptySeq, LenProperties
  <1>5. thread' = [thread EXCEPT ![t] = r]
    BY <1>1, <1>4, ThreadAt DEF Going, ThreadState
  <1>6. Steps(t, r)
    <2> HIDE DEF n, e
    <2>1. CASE e.kind = "GUILD_CREATE"
      <3>1. r = Going(thread[t], "load", n, thread[t].channel)
        BY <2>1
      <3>2. "load" \in Step /\ "load" \notin ChannelSteps /\ thread[t].channel \in Nat
            /\ (thread[t].channel # 0 => /\ thread[t].event.channel \in Channels
                                         /\ GuildOf[thread[t].event.channel] = thread[t].event.guild)
        BY ThreadAt DEF Step, ChannelSteps, Equipped
      <3> QED BY <1>2, <1>4, <1>5, <2>1, <3>1, <3>2, KindsAt, GoesOn DEF LoadKinds, e
    <2>2. CASE e.kind # "GUILD_CREATE"
      BY <1>5, <2>2, IdleType DEF Steps
    <2> QED BY <2>1, <2>2
  <1>7. r.step \notin Holding
    <2>1. "load" \in Step /\ thread[t] \in ThreadState /\ thread[t].channel \in Nat
      BY ThreadAt DEF Step
    <2>2. Going(thread[t], "load", n, thread[t].channel).step = "load"
      <3>1. \A q \in ThreadState, k \in Nat, m \in Nat : Going(q, "load", k, m).step = "load"
        BY <2>1, GoingType
      <3> HIDE DEF n
      <3> QED BY <1>4, <2>1, <3>1
    <2>3. Idle.step = "idle"
      BY DEF Idle
    <2> QED BY <2>2, <2>3 DEF Holding
  <1>8. LockPart'
    <2>1. MapHeld
      BY <1>1 DEF MapHeld, MakeGuilds
    <2>2. fault' \in {"none", "null", "noInfo"}
      BY <1>1 DEF TypeInv, LockPart
    <2>3. thread[t].step \notin Holding
      BY <1>1 DEF Holding
    <2> HIDE DEF r
    <2> QED BY <1>1, <1>6, <1>7, <2>1, <2>2, <2>3, LocksKept
  <1>9. UserPart'
    BY <1>1 DEF TypeInv, UserPart, userVars
  <1> QED BY <1>1, <1>3, <1>6, <1>8, <1>9, ChannelsKept, Handled

LEMMA PtrType ==
    ASSUME TypeInv
    PROVE  /\ \A g \in Guilds : GuildPtr(g) \in Nat /\ (g \in guilds => GuildPtr(g) # 0)
           /\ \A c \in Channels : ChannelPtr(c) \in Nat /\ (c \in channels => ChannelPtr(c) # 0)
  <1>1. ASSUME NEW g \in Guilds PROVE GuildPtr(g) \in Nat /\ (g \in guilds => GuildPtr(g) # 0)
    BY EmptySeq, LenProperties DEF TypeInv, GuildPart, GuildPtr
  <1>2. ASSUME NEW c \in Channels PROVE ChannelPtr(c) \in Nat /\ (c \in channels => ChannelPtr(c) # 0)
    BY EmptySeq, LenProperties DEF TypeInv, ChannelPart, ChannelPtr
  <1> QED BY <1>1, <1>2

\* What the handler has of a channel, if it has one.
LEMMA ChannelOf ==
    ASSUME TypeInv, NEW t \in Threads
    PROVE  thread[t].channel # 0 => /\ thread[t].event.channel \in Channels
                                    /\ GuildOf[thread[t].event.channel] = thread[t].event.guild
  BY ThreadAt DEF Equipped

LEMMA FindType ==
    ASSUME TypeInv, NEW t \in Threads, Find(t)
    PROVE  TypeInv'
  <1> DEFINE e == thread[t].event
             n == GuildPtr(e.guild)
             r == Going(thread[t], AfterFind[e.kind], n, thread[t].channel)
  <1>1. /\ fault' \in {fault, "null"} /\ thread[t].step = "find"
        /\ UNCHANGED <<serverVars, tasks, guildVars, channelVars, info, holder>>
        /\ users' \in {users, [users EXCEPT ![e.user] = Made(e.user)]}
        /\ users' # users => e.kind \in {"GUILD_MEMBER_ADD", "GUILD_MEMBER_UPDATE", "PRESENCE_UPDATE"}
        /\ \/ Return(t)
           \/ n # 0 /\ thread' = [thread EXCEPT ![t].step = AfterFind[e.kind], ![t].guild = n]
    BY DEF Find, At
  <1>2. e.kind \in DOMAIN AfterFind
    BY <1>1, ThreadAt, KindsAt
  <1>3. e.kind # "READY" /\ AfterFind[e.kind] \in Step \ ({"idle"} \cup ChannelSteps \cup Holding)
        /\ e.kind \in HandledAt[AfterFind[e.kind]]
    BY <1>2, KindsAt DEF AfterFind, Step, ChannelSteps, Holding, LoadKinds
  <1>4. e.guild \in Guilds /\ n \in Nat
    BY <1>3, ThreadAt, NoLoad, PtrType
  <1>5. UserPart'
    <2>1. users \in [Users -> {"none", "bare", "named"}] /\ info \in [Users -> [Guilds -> Membership]]
      BY DEF TypeInv, UserPart
    <2>2. users' # users => e.user \in Users
      BY <1>1, ThreadAt, NoLoad DEF UserKinds
    <2> QED BY <1>1, <2>1, <2>2 DEF UserPart, Made
  <1>6. fault' \in {"none", "null", "noInfo"}
    BY <1>1 DEF TypeInv, LockPart
  <1>7. CASE Return(t)
    <2>1. Idle.step \notin Holding
      BY DEF Idle, Holding
    <2> QED BY <1>1, <1>5, <1>6, <1>7, <2>1, Returns, Passing DEF Holding
  <1>8. CASE n # 0 /\ thread' = [thread EXCEPT ![t].step = AfterFind[e.kind], ![t].guild = n]
    <2> HIDE DEF n
    <2>1. thread' = [thread EXCEPT ![t] = r]
      BY <1>8, ThreadAt DEF Going, ThreadState
    <2>2. Steps(t, r)
      BY <1>3, <1>4, <1>8, <2>1, ThreadAt, ChannelOf, GoesOn
    <2>3. r.step \notin Holding
      BY <1>3, <1>4, ThreadAt, GoingType
    <2> HIDE DEF r
    <2> QED BY <1>1, <1>5, <1>6, <2>2, <2>3, Passing DEF Holding
  <1> QED BY <1>1, <1>7, <1>8

\* A handler that changes the object of its guild, and no channel.
LEMMA AtGuild ==
    ASSUME TypeInv, NEW t \in Threads, NEW r, Steps(t, r), thread[t].guild # 0, Uses(t),
           NEW obj \in GuildObject, SetObj(t, obj),
           UNCHANGED <<serverVars, tasks, channelVars, holder, fault>>, UserPart',
           thread[t].step \notin Holding, r.step \notin Holding
    PROVE  TypeInv'
  <1>1. GuildPart' /\ MapHeld
    BY SetObjType DEF MapHeld
  <1>2. fault' \in {"none", "null", "noInfo"}
    BY DEF TypeInv, LockPart
  <1>3. LockPart'
    BY <1>1, <1>2, LocksKept
  <1> QED BY <1>1, <1>3, ChannelsKept, Handled

\* Where a thread is, it has what it needs.
LEMMA HasGuild ==
    ASSUME TypeInv, NEW t \in Threads, thread[t].step \in GuildSteps
    PROVE  thread[t].guild # 0
  BY ThreadAt DEF Equipped

LEMMA HasChannel ==
    ASSUME TypeInv, NEW t \in Threads, thread[t].step \in ChannelSteps
    PROVE  thread[t].channel # 0
  BY ThreadAt DEF Equipped

\* A handler goes on with the objects it has.
LEMMA GoesOnWith ==
    ASSUME TypeInv, NEW t \in Threads, NEW s \in Step, Goto(t, s),
           s \notin {"idle", "createChannel", "findChannel"},
           thread[t].event.kind \in HandledAt[s],
           s \in GuildSteps => thread[t].guild # 0,
           s \in ChannelSteps => thread[t].channel # 0
    PROVE  LET r == Going(thread[t], s, thread[t].guild, thread[t].channel) IN
           Steps(t, r) /\ r.step = s
  <1> DEFINE r == Going(thread[t], s, thread[t].guild, thread[t].channel)
  <1>1. /\ thread[t].guild \in Nat /\ thread[t].channel \in Nat /\ thread[t] \in ThreadState
        /\ thread[t].guild # 0 => thread[t].event.guild \in Guilds
    BY ThreadAt DEF Equipped
  <1>2. thread' = [thread EXCEPT ![t] = r]
    BY <1>1, GotoGoes
  <1>3. r.step = s
    BY <1>1, GoingType
  <1>4. Steps(t, r)
    BY <1>1, <1>2, ChannelOf, GoesOn
  <1> QED BY <1>3, <1>4

LEMMA LoadType ==
    ASSUME TypeInv, NEW t \in Threads, Load(t)
    PROVE  TypeInv'
  <1> DEFINE e == thread[t].event
             obj == [Obj(t) EXCEPT !.roles = @ \cup e.load.roles,
                                   !.members = @ \cup Listed(e), !.holder = t]
  <1>1. /\ thread[t].step = "load" /\ Uses(t) /\ SetObj(t, obj) /\ Goto(t, "loadChannels")
        /\ users' = [u \in Users |-> IF u \in Listed(e) THEN "named" ELSE users[u]]
        /\ info' = [u \in Users |-> IF u \in Listed(e)
                                    THEN [info[u] EXCEPT ![e.guild] = e.load.members[u]]
                                    ELSE info[u]]
        /\ UNCHANGED <<serverVars, tasks, channelVars, holder, fault>>
    BY DEF Load, At
  <1>2. thread[t].guild # 0
    BY <1>1, HasGuild DEF GuildSteps
  <1>3. e.kind \in LoadKinds /\ e.load \in ServerGuild
    BY <1>1, ThreadAt, KindsAt
  <1>4. obj \in GuildObject
    <2>1. Obj(t) \in GuildObject
      BY <1>1, <1>2, GuildInHand
    <2> QED BY <1>3, <2>1 DEF GuildObject, ServerGuild, Listed, Holder
  <1>5. UserPart'
    BY <1>1, <1>3 DEF TypeInv, UserPart, ServerGuild
  <1>6. PICK r : Steps(t, r) /\ r.step = "loadChannels"
    <2>1. "loadChannels" \in Step \ (ChannelSteps \cup {"idle", "createChannel", "findChannel"})
      BY DEF Step, ChannelSteps
    <2>2. e.kind \in HandledAt["loadChannels"]
      BY <1>3, KindsAt
    <2> QED BY <1>1, <1>2, <2>1, <2>2, GoesOnWith
  <1> HIDE DEF obj
  <1> QED BY <1>1, <1>2, <1>4, <1>5, <1>6, AtGuild DEF Holding

\* The user part when only known users are made or named.
LEMMA UsersSame ==
    ASSUME TypeInv, UNCHANGED userVars
    PROVE  UserPart'
  BY DEF TypeInv, UserPart, userVars

LEMMA ReturnsHome ==
    ASSUME TypeInv, NEW t \in Threads, Return(t)
    PROVE  Steps(t, Idle) /\ Idle.step = "idle" /\ Idle.step \notin Holding
  BY Returns DEF Idle, Holding

LEMMA LoadedType ==
    ASSUME TypeInv, NEW t \in Threads, Loaded(t)
    PROVE  TypeInv'
  <1> DEFINE obj == [Obj(t) EXCEPT !.holder = Null]
  <1>1. /\ thread[t].step = "loadChannels" /\ Uses(t) /\ SetObj(t, obj) /\ Return(t)
        /\ UNCHANGED <<serverVars, tasks, channelVars, userVars, holder, fault>>
    BY DEF Loaded, At
  <1>2. thread[t].guild # 0
    BY <1>1, HasGuild DEF GuildSteps
  <1>3. obj \in GuildObject
    BY <1>1, <1>2, GuildInHand DEF GuildObject, Holder
  <1> HIDE DEF obj
  <1> QED BY <1>1, <1>2, <1>3, UsersSame, ReturnsHome, AtGuild DEF Holding

LEMMA MarkType ==
    ASSUME TypeInv, NEW t \in Threads, Mark(t)
    PROVE  TypeInv'
  <1>1. /\ thread[t].step = "mark" /\ Uses(t) /\ Goto(t, "remove")
        /\ UNCHANGED <<serverVars, tasks, guildVars, channelVars, userVars, holder, fault>>
    BY DEF Mark, At
  <1>2. thread[t].guild # 0
    BY <1>1, HasGuild DEF GuildSteps
  <1>3. PICK r : Steps(t, r) /\ r.step = "remove"
    <2>1. "remove" \in Step \ (ChannelSteps \cup {"idle", "createChannel", "findChannel"})
      BY DEF Step, ChannelSteps
    <2>2. thread[t].event.kind \in HandledAt["remove"]
      BY <1>1, ThreadAt, KindsAt
    <2> QED BY <1>1, <1>2, <2>1, <2>2, GoesOnWith
  <1>4. fault' \in {"none", "null", "noInfo"}
    BY <1>1 DEF TypeInv, LockPart
  <1> QED BY <1>1, <1>3, <1>4, UsersSame, Passing DEF Holding

LEMMA RemoveGuildType ==
    ASSUME TypeInv, NEW t \in Threads, RemoveGuild(t)
    PROVE  TypeInv'
  <1> DEFINE g == thread[t].event.guild
  <1>1. /\ thread[t].step = "remove" /\ Free(holder["guilds"]) /\ Return(t)
        /\ guilds' = guilds \ {g} /\ staleGuilds' = Emplace(staleGuilds, g, GuildPtr(g))
        /\ UNCHANGED <<serverVars, tasks, guildObj, channelVars, userVars, holder, fault>>
    BY DEF RemoveGuild, At
  <1>2. g \in Guilds
    BY <1>1, ThreadAt, KindsAt, NoLoad
  <1>3. GuildPart'
    <2>1. GuildPtr(g) \in Nat /\ GuildPtr(g) <= Len(guildObj[g])
      BY <1>2, PtrType, LenProperties DEF GuildPtr, TypeInv, GuildPart
    <2> QED BY <1>1, <1>2, <2>1 DEF TypeInv, GuildPart, Emplace
  <1>4. fault' \in {"none", "null", "noInfo"}
    BY <1>1 DEF TypeInv, LockPart
  <1>5. LockPart'
    BY <1>1, <1>4, ReturnsHome, LocksKept DEF Holding, MapHeld
  <1> QED BY <1>1, <1>3, <1>5, ReturnsHome, UsersSame, ChannelsKept, Handled

LEMMA NextChannelType ==
    ASSUME TypeInv, NEW t \in Threads, NextChannel(t)
    PROVE  TypeInv'
  <1>1. PICK c \in thread[t].todo :
          /\ MakeChannel(c)
          /\ thread' = [thread EXCEPT ![t] = [@ EXCEPT
                 !.step = "loadChannel", !.event.channel = c,
                 !.channel = Len(channelObj'[c]), !.todo = thread[t].todo \ {c}]]
    BY DEF NextChannel
  <1>2. /\ thread[t].step = "loadChannels" /\ Uses(t) /\ fault' = fault
        /\ UNCHANGED <<serverVars, tasks, guildVars, userVars, holder>>
    BY DEF NextChannel, At
  <1> DEFINE e == thread[t].event
             d == [e EXCEPT !.channel = c]
             n == Len(channelObj'[c])
             T == thread[t].todo \ {c}
             r == [thread[t] EXCEPT !.step = "loadChannel", !.event = d, !.channel = n, !.todo = T]
  <1>3. /\ e \in Event /\ WellFormed(e) /\ e.kind \in LoadKinds /\ e.guild \in Guilds
        /\ thread[t] \in ThreadState /\ thread[t].guild # 0 /\ e.load \in ServerGuild
    BY <1>2, ThreadAt, KindsAt, NoLoad, HasGuild DEF LoadKinds, GuildSteps
  <1>4. thread[t].todo \subseteq e.load.channels
    BY <1>3, ThreadAt DEF Equipped
  <1>5. c \in Channels /\ GuildOf[c] = e.guild
    BY <1>3, <1>4 DEF WellFormed, ServerGuild
  <1>6. ChannelPart' /\ n \in Nat /\ n # 0
    BY <1>1, <1>5, MakeChannelType
  <1>7. /\ d \in Event /\ d.kind = e.kind /\ d.guild = e.guild /\ d.channel = c /\ d.load = e.load
        /\ d.user = e.user /\ d.role = e.role
    BY <1>3, <1>5 DEF Event
  <1>8. T \in SUBSET (Channels \cup Users) /\ T \subseteq e.load.channels
    BY <1>3, <1>4 DEF ThreadState
  <1>9. thread' = [thread EXCEPT ![t] = r]
    BY <1>1, <1>3, <1>7, ThreadAt DEF ThreadState
  <1> HIDE DEF d, n, T, e
  <1>10. /\ r \in ThreadState /\ r.step = "loadChannel" /\ r.event = d /\ r.guild = thread[t].guild
         /\ r.channel = n /\ r.todo = T
    BY <1>3, <1>6, <1>7, <1>8 DEF ThreadState, Step
  <1> HIDE DEF r
  <1>11. WellFormed(d)
    BY <1>3, <1>5, <1>7 DEF WellFormed
  <1>12. d.kind \in HandledAt["loadChannel"]
    BY <1>3, <1>7, KindsAt
  <1>13. Equipped(r)
    BY <1>3, <1>5, <1>6, <1>7, <1>8, <1>10, <1>11, <1>12 DEF Equipped
  <1>14. Steps(t, r)
    BY <1>9, <1>10, <1>13 DEF Steps
  <1>15. MapHeld /\ fault' \in {"none", "null", "noInfo"}
    BY <1>2 DEF TypeInv, LockPart, MapHeld, guildVars
  <1>16. LockPart'
    BY <1>2, <1>10, <1>14, <1>15, LocksKept DEF Holding
  <1> QED BY <1>2, <1>6, <1>14, <1>16, UsersSame, GuildsKept, Handled

\* A handler that changes its channel and enters it in its guild.
LEMMA AtChannel ==
    ASSUME TypeInv, NEW t \in Threads, NEW r, Steps(t, r), thread[t].guild # 0,
           thread[t].channel # 0, Uses(t), NEW chan \in ChannelObject, SetChan(t, chan), Enters(t),
           UNCHANGED <<serverVars, tasks, userVars, holder, fault>>,
           thread[t].step \notin Holding, r.step \notin Holding
    PROVE  TypeInv'
  <1> DEFINE obj == [Obj(t) EXCEPT !.channels = Emplace(@, thread[t].event.channel, thread[t].channel)]
  <1>1. SetObj(t, obj)
    BY DEF Enters
  <1>2. obj \in GuildObject
    <2>1. Obj(t) \in GuildObject /\ thread[t].event.channel \in Channels /\ thread[t].channel \in Nat
      BY GuildInHand, ChannelInHand, ThreadAt
    <2> QED BY <2>1 DEF GuildObject, Emplace
  <1> HIDE DEF obj
  <1>3. GuildPart' /\ MapHeld
    BY <1>1, <1>2, SetObjType DEF MapHeld
  <1>4. fault' \in {"none", "null", "noInfo"}
    BY DEF TypeInv, LockPart
  <1>5. LockPart'
    BY <1>3, <1>4, LocksKept
  <1> QED BY <1>3, <1>5, UsersSame, ChannelPartKept, Handled

LEMMA LoadChannelType ==
    ASSUME TypeInv, NEW t \in Threads, LoadChannel(t)
    PROVE  TypeInv'
  <1> DEFINE chan == [Chan(t) EXCEPT !.known = TRUE, !.guild = thread[t].guild]
  <1>1. /\ thread[t].step = "loadChannel" /\ Uses(t) /\ SetChan(t, chan) /\ Enters(t)
        /\ Goto(t, "loadChannels") /\ UNCHANGED <<serverVars, tasks, userVars, holder, fault>>
    BY DEF LoadChannel, At
  <1>2. thread[t].guild # 0 /\ thread[t].channel # 0
    BY <1>1, HasGuild, HasChannel DEF GuildSteps, ChannelSteps
  <1>3. chan \in ChannelObject
    BY <1>1, <1>2, ChannelInHand, ThreadAt DEF ChannelObject
  <1>4. PICK r : Steps(t, r) /\ r.step = "loadChannels"
    <2>1. "loadChannels" \in Step \ (ChannelSteps \cup {"idle", "createChannel", "findChannel"})
      BY DEF Step, ChannelSteps
    <2>2. thread[t].event.kind \in HandledAt["loadChannels"]
      BY <1>1, ThreadAt, KindsAt
    <2> QED BY <1>1, <1>2, <2>1, <2>2, GoesOnWith
  <1> HIDE DEF chan
  <1> QED BY <1>1, <1>2, <1>3, <1>4, AtChannel DEF Holding

LEMMA LinkType ==
    ASSUME TypeInv, NEW t \in Threads, Link(t)
    PROVE  TypeInv'
  <1> DEFINE chan == [Chan(t) EXCEPT !.known = TRUE, !.guild = thread[t].guild]
  <1>1. /\ thread[t].step = "link" /\ Uses(t) /\ SetChan(t, chan) /\ Enters(t)
        /\ Return(t) /\ UNCHANGED <<serverVars, tasks, userVars, holder, fault>>
    BY DEF Link, At
  <1>2. thread[t].guild # 0 /\ thread[t].channel # 0
    BY <1>1, HasGuild, HasChannel DEF GuildSteps, ChannelSteps
  <1>3. chan \in ChannelObject
    BY <1>1, <1>2, ChannelInHand, ThreadAt DEF ChannelObject
  <1> HIDE DEF chan
  <1> QED BY <1>1, <1>2, <1>3, ReturnsHome, AtChannel DEF Holding

LEMMA UpdateType ==
    ASSUME TypeInv, NEW t \in Threads, Update(t)
    PROVE  TypeInv'
  <1> DEFINE chan == [Chan(t) EXCEPT !.known = TRUE]
  <1>1. /\ thread[t].step = "update" /\ Uses(t) /\ SetChan(t, chan) /\ Enters(t)
        /\ Return(t) /\ UNCHANGED <<serverVars, tasks, userVars, holder, fault>>
    BY DEF Update, At
  <1>2. thread[t].guild # 0 /\ thread[t].channel # 0
    BY <1>1, HasGuild, HasChannel DEF GuildSteps, ChannelSteps
  <1>3. chan \in ChannelObject
    BY <1>1, <1>2, ChannelInHand DEF ChannelObject
  <1> HIDE DEF chan
  <1> QED BY <1>1, <1>2, <1>3, ReturnsHome, AtChannel DEF Holding

LEMMA CreateChannelType ==
    ASSUME TypeInv, NEW t \in Threads, CreateChannel(t)
    PROVE  TypeInv'
  <1> DEFINE e == thread[t].event
             c == e.channel
             n == Len(channelObj'[c])
             r == Going(thread[t], AfterChannel[e.kind], thread[t].guild, n)
  <1>1. /\ thread[t].step = "createChannel" /\ MakeChannel(c) /\ fault' = fault
        /\ UNCHANGED <<serverVars, tasks, guildVars, info, holder>>
        /\ users' = (IF e.kind = "TYPING_START" THEN [users EXCEPT ![e.user] = Made(e.user)] ELSE users)
        /\ IF e.kind = "TYPING_START" THEN Return(t)
           ELSE thread' = [thread EXCEPT ![t].step = AfterChannel[e.kind], ![t].channel = n]
    BY DEF CreateChannel, At
  <1>2. e.kind \in {"CHANNEL_CREATE", "CHANNEL_UPDATE", "MESSAGE_UPDATE", "TYPING_START"}
    BY <1>1, ThreadAt, KindsAt
  <1>3. c \in Channels /\ GuildOf[c] = e.guild /\ e.guild \in Guilds
    BY <1>2, ThreadAt, NoLoad DEF ChannelKinds
  <1>4. ChannelPart' /\ n \in Nat /\ n # 0
    BY <1>1, <1>3, MakeChannelType
  <1>5. UserPart'
    <2>1. users \in [Users -> {"none", "bare", "named"}] /\ info \in [Users -> [Guilds -> Membership]]
      BY DEF TypeInv, UserPart
    <2>2. e.kind = "TYPING_START" => e.user \in Users
      BY ThreadAt, NoLoad DEF UserKinds
    <2> QED BY <1>1, <2>1, <2>2 DEF UserPart, Made
  <1>6. PICK q : Steps(t, q) /\ q.step \notin Holding
    <2>1. CASE e.kind = "TYPING_START"
      BY <1>1, <2>1, ReturnsHome
    <2>2. CASE e.kind # "TYPING_START"
      <3>1. /\ AfterChannel[e.kind] \in Step \ (Holding \cup {"idle", "createChannel", "findChannel"})
            /\ e.kind \in HandledAt[AfterChannel[e.kind]]
            /\ e.kind \in MessageKinds => AfterChannel[e.kind] \notin GuildSteps
        BY <1>2, <2>2, KindsAt DEF AfterChannel, Step, Holding, MessageKinds, GuildSteps
      <3>2. e.kind \notin MessageKinds => thread[t].guild # 0
        BY <1>1, <2>2, ThreadAt DEF Equipped
      <3>3. thread' = [thread EXCEPT ![t] = r]
        <4> DEFINE s == AfterChannel[e.kind]
        <4>1. thread' = [thread EXCEPT ![t].step = s, ![t].channel = n]
          BY <1>1, <2>2
        <4>2. s \in Step
          BY <3>1
        <4> HIDE DEF n, s
        <4>3. [thread EXCEPT ![t].step = s, ![t].channel = n]
                = [thread EXCEPT ![t] = Going(thread[t], s, thread[t].guild, n)]
          BY <1>4, <4>2, ThreadAt DEF Going, ThreadState
        <4> QED BY <4>1, <4>3 DEF s
      <3> HIDE DEF n
      <3>4. thread[t].guild \in Nat /\ thread[t] \in ThreadState
        BY ThreadAt
      <3>5. Steps(t, r)
        BY <1>3, <1>4, <3>1, <3>2, <3>3, <3>4, GoesOn
      <3>6. r.step \notin Holding
        BY <1>4, <3>1, <3>4, GoingType
      <3> QED BY <3>5, <3>6
    <2> QED BY <2>1, <2>2
  <1>7. LockPart'
    BY <1>1, <1>6, LocksKept DEF Holding, MapHeld, guildVars, TypeInv, LockPart
  <1> HIDE DEF n
  <1> QED BY <1>1, <1>4, <1>5, <1>6, <1>7, GuildsKept, Handled

LEMMA FindChannelType ==
    ASSUME TypeInv, NEW t \in Threads, FindChannel(t)
    PROVE  TypeInv'
  <1> DEFINE e == thread[t].event
             n == ChannelPtr(e.channel)
             s == AfterChannel[e.kind]
             r == Going(thread[t], s, thread[t].guild, n)
  <1>1. /\ thread[t].step = "findChannel"
        /\ UNCHANGED <<serverVars, tasks, guildVars, channelVars, userVars, holder, fault>>
        /\ IF n = 0 THEN Return(t) ELSE thread' = [thread EXCEPT ![t].step = s, ![t].channel = n]
    BY DEF FindChannel, At
  <1>2. e.kind \in {"CHANNEL_DELETE", "MESSAGE_CREATE"}
    BY <1>1, ThreadAt, KindsAt
  <1>3. e.channel \in Channels /\ GuildOf[e.channel] = e.guild /\ e.guild \in Guilds /\ n \in Nat
    BY <1>2, ThreadAt, NoLoad, PtrType DEF ChannelKinds
  <1>4. /\ s \in Step \ (Holding \cup {"idle", "createChannel", "findChannel"})
        /\ e.kind \in HandledAt[s] /\ (e.kind \in MessageKinds => s \notin GuildSteps)
    BY <1>2, KindsAt DEF AfterChannel, Step, Holding, MessageKinds, GuildSteps
  <1>5. e.kind \notin MessageKinds => thread[t].guild # 0
    BY <1>1, <1>2, ThreadAt DEF Equipped
  <1>6. thread[t].guild \in Nat /\ thread[t] \in ThreadState
    BY ThreadAt
  <1>7. UserPart' /\ fault' \in {"none", "null", "noInfo"}
    BY <1>1, UsersSame DEF TypeInv, LockPart
  <1>8. PICK q : Steps(t, q) /\ q.step \notin Holding
    <2>1. CASE n = 0
      BY <1>1, <2>1, ReturnsHome
    <2>2. CASE n # 0
      <3>1. thread' = [thread EXCEPT ![t].step = s, ![t].channel = n]
        BY <1>1, <2>2
      <3> HIDE DEF n, s
      <3>2. thread' = [thread EXCEPT ![t] = r]
        BY <1>3, <1>4, <3>1, ThreadAt DEF Going, ThreadState
      <3>3. Steps(t, r)
        BY <1>3, <1>4, <1>5, <1>6, <2>2, <3>2, GoesOn
      <3>4. r.step \notin Holding
        BY <1>3, <1>4, <1>6, GoingType
      <3> QED BY <3>3, <3>4
    <2> QED BY <2>1, <2>2
  <1> QED BY <1>1, <1>7, <1>8, Passing DEF Holding

\* Null is no thread, so that a free mutex has no holder.
LEMMA NoThread == Null \notin Threads
  BY CacheAssumption

LEMMA LockChannelType ==
    ASSUME TypeInv, NEW t \in Threads, LockChannel(t)
    PROVE  TypeInv'
  <1> DEFINE chan == [Chan(t) EXCEPT !.holder = t]
  <1>1. /\ thread[t].step = "lockChannel" /\ Uses(t) /\ Free(holder["channels"]) /\ SetChan(t, chan)
        /\ holder' = [holder EXCEPT !["channels"] = t] /\ Goto(t, "erase")
        /\ UNCHANGED <<serverVars, tasks, guildVars, userVars, fault>>
    BY DEF LockChannel, At
  <1>2. thread[t].guild # 0 /\ thread[t].channel # 0
    BY <1>1, HasGuild, HasChannel DEF GuildSteps, ChannelSteps
  <1>3. chan \in ChannelObject
    BY <1>1, <1>2, ChannelInHand DEF ChannelObject, Holder
  <1>4. PICK r : Steps(t, r) /\ r.step = "erase"
    <2>1. "erase" \in Step \ {"idle", "createChannel", "findChannel"}
      BY DEF Step
    <2>2. thread[t].event.kind \in HandledAt["erase"]
      BY <1>1, ThreadAt, KindsAt
    <2> QED BY <1>1, <1>2, <2>1, <2>2, GoesOnWith
  <1>5. thread'[t] = r /\ \A u \in Threads : u # t => thread'[u] = thread[u]
    BY <1>4, ThreadKept DEF Steps
  <1>6. LockPart'
    <2>1. /\ holder \in [{"guilds", "channels"} -> Holder] /\ fault \in {"none", "null", "noInfo"}
          /\ \A u \in Threads :
                /\ holder["guilds"] = u <=> thread[u].step = "removeMember"
                /\ holder["channels"] = u <=> thread[u].step = "erase"
                /\ thread[u].step = "removeMember" =>
                       /\ thread[u].event.guild \in guilds
                       /\ thread[u].guild = Len(guildObj[thread[u].event.guild])
      BY DEF TypeInv, LockPart
    <2>2. holder' \in [{"guilds", "channels"} -> Holder] /\ holder'["channels"] = t
          /\ holder'["guilds"] = holder["guilds"]
      BY <1>1, <2>1 DEF Holder
    <2>3. guilds' = guilds /\ guildObj' = guildObj /\ fault' = fault
      BY <1>1 DEF guildVars
    <2>4. \A u \in Threads : u # t => thread[u].step # "erase"
      BY <1>1, <2>1, NoThread DEF Free
    <2> QED BY <1>1, <1>4, <1>5, <2>1, <2>2, <2>3, <2>4 DEF LockPart
  <1> HIDE DEF chan
  <1> QED BY <1>1, <1>2, <1>3, <1>4, <1>6, UsersSame, GuildsKept, ChannelPartKept, Handled

LEMMA EraseType ==
    ASSUME TypeInv, NEW t \in Threads, Erase(t)
    PROVE  TypeInv'
  <1> DEFINE c == thread[t].event.channel
             obj == [Obj(t) EXCEPT !.channels[c] = 0]
             chan == [Chan(t) EXCEPT !.holder = Null]
  <1>1. /\ thread[t].step = "erase" /\ Uses(t) /\ SetObj(t, obj) /\ channels' = channels \ {c}
        /\ staleChannels' = Emplace(staleChannels, c, ChannelPtr(c))
        /\ channelObj' = [channelObj EXCEPT ![c][thread[t].channel].holder = Null]
        /\ holder' = [holder EXCEPT !["channels"] = Null] /\ Return(t)
        /\ UNCHANGED <<serverVars, tasks, userVars, fault>>
    BY DEF Erase, At
  <1>2. thread[t].guild # 0 /\ thread[t].channel # 0
    BY <1>1, HasGuild, HasChannel DEF GuildSteps, ChannelSteps
  <1>3. /\ c \in Channels /\ Obj(t) \in GuildObject /\ Chan(t) \in ChannelObject
        /\ thread[t].channel \in 1..Len(channelObj[c])
    BY <1>1, <1>2, GuildInHand, ChannelInHand
  <1>4. obj \in GuildObject /\ chan \in ChannelObject
    BY <1>3 DEF GuildObject, ChannelObject, Holder
  <1>5. channelObj' = [channelObj EXCEPT ![c][thread[t].channel] = chan]
    <2>1. channelObj \in [Channels -> Seq(ChannelObject)]
      BY DEF TypeInv, ChannelPart
    <2> QED BY <1>1, <1>3, <2>1 DEF Chan
  <1> HIDE DEF obj, chan
  <1>6. GuildPart' /\ guilds' = guilds /\ \A g \in Guilds : Len(guildObj'[g]) = Len(guildObj[g])
    BY <1>1, <1>2, <1>4, SetObjType
  <1>7. ChannelPart'
    <2>1. /\ channelObj' \in [Channels -> Seq(ChannelObject)]
          /\ \A d \in Channels : /\ Len(channelObj'[d]) = Len(channelObj[d])
                                 /\ channelObj[d] # <<>> => channelObj'[d] # <<>>
      BY <1>1, <1>2, <1>4, <1>5, SetChanType
    <2>2. ChannelPtr(c) \in Nat /\ ChannelPtr(c) <= Len(channelObj[c])
      BY <1>3, PtrType, LenProperties DEF ChannelPtr, TypeInv, ChannelPart
    <2>3. staleChannels' \in [Channels -> Nat]
          /\ \A d \in Channels : staleChannels'[d] <= Len(channelObj[d])
      BY <1>1, <1>3, <2>2 DEF TypeInv, ChannelPart, Emplace
    <2> QED BY <1>1, <2>1, <2>3 DEF TypeInv, ChannelPart
  <1>8. Steps(t, Idle) /\ Idle.step = "idle"
    BY <1>1, ReturnsHome
  <1>9. thread'[t] = Idle /\ \A u \in Threads : u # t => thread'[u] = thread[u]
    BY <1>8, ThreadKept DEF Steps
  <1>10. LockPart'
    <2>1. /\ holder \in [{"guilds", "channels"} -> Holder] /\ fault \in {"none", "null", "noInfo"}
          /\ \A u \in Threads :
                /\ holder["guilds"] = u <=> thread[u].step = "removeMember"
                /\ holder["channels"] = u <=> thread[u].step = "erase"
                /\ thread[u].step = "removeMember" =>
                       /\ thread[u].event.guild \in guilds
                       /\ thread[u].guild = Len(guildObj[thread[u].event.guild])
      BY DEF TypeInv, LockPart
    <2>2. holder' \in [{"guilds", "channels"} -> Holder] /\ holder'["channels"] = Null
          /\ holder'["guilds"] = holder["guilds"] /\ holder["channels"] = t
      BY <1>1, <2>1 DEF Holder
    <2>3. guilds \subseteq Guilds
      BY DEF TypeInv, GuildPart
    <2>4. ASSUME NEW u \in Threads
          PROVE  /\ holder'["guilds"] = u <=> thread'[u].step = "removeMember"
                 /\ holder'["channels"] = u <=> thread'[u].step = "erase"
      <3>1. CASE u = t
        BY <1>1, <1>8, <1>9, <2>1, <2>2, <3>1, NoThread
      <3>2. CASE u # t
        <4>1. thread'[u] = thread[u]
          BY <1>9, <3>2
        <4> QED BY <2>1, <2>2, <3>2, <4>1, NoThread
      <3> QED BY <3>1, <3>2
    <2>5. ASSUME NEW u \in Threads, thread'[u].step = "removeMember"
          PROVE  /\ thread'[u].event.guild \in guilds'
                 /\ thread'[u].guild = Len(guildObj'[thread'[u].event.guild])
      BY <1>6, <1>8, <1>9, <2>1, <2>3, <2>5
    <2>6. fault' = fault
      BY <1>1
    <2> QED BY <2>1, <2>2, <2>4, <2>5, <2>6 DEF LockPart
  <1> QED BY <1>1, <1>6, <1>7, <1>8, <1>10, UsersSame, Handled

LEMMA LockGuildsType ==
    ASSUME TypeInv, NEW t \in Threads, LockGuilds(t)
    PROVE  TypeInv'
  <1> DEFINE g == thread[t].event.guild
             n == GuildPtr(g)
             r == Going(thread[t], "removeMember", n, thread[t].channel)
  <1>1. /\ thread[t].step = "lockGuilds" /\ Free(holder["guilds"])
        /\ UNCHANGED <<serverVars, tasks, guildVars, channelVars, userVars, fault>>
        /\ IF n = 0 THEN Return(t) /\ UNCHANGED holder
           ELSE /\ holder' = [holder EXCEPT !["guilds"] = t]
                /\ thread' = [thread EXCEPT ![t].step = "removeMember", ![t].guild = n]
    BY DEF LockGuilds, At
  <1>2. thread[t].event.kind = "GUILD_MEMBER_REMOVE" /\ g \in Guilds /\ n \in Nat
    BY <1>1, ThreadAt, KindsAt, NoLoad, PtrType
  <1>3. UserPart' /\ fault' \in {"none", "null", "noInfo"}
    BY <1>1, UsersSame DEF TypeInv, LockPart
  <1>4. CASE n = 0
    BY <1>1, <1>3, <1>4, ReturnsHome, Passing DEF Holding
  <1>5. CASE n # 0
    <2>1. /\ holder' = [holder EXCEPT !["guilds"] = t]
          /\ thread' = [thread EXCEPT ![t].step = "removeMember", ![t].guild = n]
      BY <1>1, <1>5
    <2>2. g \in guilds /\ n = Len(guildObj[g])
      BY <1>5 DEF GuildPtr
    <2>3. "removeMember" \in Step /\ "removeMember" \notin ChannelSteps \cup {"createChannel", "findChannel"}
      BY DEF Step, ChannelSteps
    <2>4. thread[t].channel \in Nat /\ thread[t] \in ThreadState
      BY ThreadAt
    <2>5. thread[t].event.kind \in HandledAt["removeMember"]
      BY <1>2, KindsAt
    <2>6. thread' = [thread EXCEPT ![t] = r]
      BY <1>2, <2>1, <2>3, ThreadAt DEF Going, ThreadState
    <2> HIDE DEF n
    <2>7. Steps(t, r)
      BY <1>2, <1>5, <2>3, <2>4, <2>5, <2>6, ChannelOf, GoesOn
    <2>8. r.step = "removeMember" /\ r.guild = n /\ r.event = thread[t].event
      BY <1>2, <2>3, <2>4, GoingType
    <2> HIDE DEF r
    <2>9. thread'[t] = r /\ \A u \in Threads : u # t => thread'[u] = thread[u]
      BY <2>7, ThreadKept DEF Steps
    <2>10. LockPart'
      <3>1. /\ holder \in [{"guilds", "channels"} -> Holder] /\ fault \in {"none", "null", "noInfo"}
            /\ \A u \in Threads :
                  /\ holder["guilds"] = u <=> thread[u].step = "removeMember"
                  /\ holder["channels"] = u <=> thread[u].step = "erase"
                  /\ thread[u].step = "removeMember" =>
                         /\ thread[u].event.guild \in guilds
                         /\ thread[u].guild = Len(guildObj[thread[u].event.guild])
        BY DEF TypeInv, LockPart
      <3>2. holder' \in [{"guilds", "channels"} -> Holder] /\ holder'["guilds"] = t
            /\ holder'["channels"] = holder["channels"]
        BY <2>1, <3>1 DEF Holder
      <3>3. guilds' = guilds /\ guildObj' = guildObj
        BY <1>1 DEF guildVars
      <3>4. \A u \in Threads : thread[u].step # "removeMember"
        BY <1>1, <3>1, NoThread DEF Free
      <3> QED BY <1>1, <1>3, <2>2, <2>8, <2>9, <3>1, <3>2, <3>3, <3>4 DEF LockPart
    <2> QED BY <1>1, <1>3, <2>7, <2>10, GuildsKept, ChannelsKept, Handled
  <1> QED BY <1>4, <1>5

LEMMA RemoveMemberType ==
    ASSUME TypeInv, NEW t \in Threads, RemoveMember(t)
    PROVE  TypeInv'
  <1> DEFINE g == thread[t].event.guild
             u == thread[t].event.user
             obj == [Obj(t) EXCEPT !.members = @ \ {u}]
  <1>1. /\ thread[t].step = "removeMember" /\ SetObj(t, obj) /\ Return(t)
        /\ info' \in {info, [info EXCEPT ![u][g] = NoInfo]} /\ users' = users
        /\ fault' \in {fault, "noInfo"} /\ holder' = [holder EXCEPT !["guilds"] = Null]
        /\ UNCHANGED <<serverVars, tasks, channelVars>>
    BY DEF RemoveMember, At, userVars
  <1>2. thread[t].guild # 0 /\ g \in Guilds /\ u \in Users
    BY <1>1, ThreadAt, KindsAt, NoLoad, HasGuild DEF GuildSteps, UserKinds
  <1>3. obj \in GuildObject
    BY <1>1, <1>2, GuildInHand DEF GuildObject
  <1>4. UserPart'
    BY <1>1, <1>2, Memberships DEF TypeInv, UserPart
  <1> HIDE DEF obj
  <1>5. GuildPart' /\ guilds' = guilds /\ \A h \in Guilds : Len(guildObj'[h]) = Len(guildObj[h])
    BY <1>1, <1>2, <1>3, SetObjType
  <1>6. Steps(t, Idle) /\ Idle.step = "idle"
    BY <1>1, ReturnsHome
  <1>7. thread'[t] = Idle /\ \A v \in Threads : v # t => thread'[v] = thread[v]
    BY <1>6, ThreadKept DEF Steps
  <1>8. LockPart'
    <2>1. /\ holder \in [{"guilds", "channels"} -> Holder] /\ fault \in {"none", "null", "noInfo"}
          /\ \A v \in Threads :
                /\ holder["guilds"] = v <=> thread[v].step = "removeMember"
                /\ holder["channels"] = v <=> thread[v].step = "erase"
      BY DEF TypeInv, LockPart
    <2>2. /\ holder' \in [{"guilds", "channels"} -> Holder] /\ holder'["guilds"] = Null
          /\ holder'["channels"] = holder["channels"] /\ holder["guilds"] = t
      BY <1>1, <2>1 DEF Holder
    <2> QED BY <1>1, <1>6, <1>7, <2>1, <2>2, NoThread DEF LockPart
  <1> QED BY <1>1, <1>4, <1>5, <1>6, <1>8, ChannelsKept, Handled

LEMMA JoinType ==
    ASSUME TypeInv, NEW t \in Threads, Join(t)
    PROVE  TypeInv'
  <1> DEFINE e == thread[t].event
  <1>1. PICK u \in thread[t].todo :
          /\ SetObj(t, [Obj(t) EXCEPT !.members = @ \cup {u}])
          /\ users' \in {[users EXCEPT ![u] = "named"], [users EXCEPT ![u] = Made(u)]}
          /\ info' = [info EXCEPT ![u][e.guild] = e.load.members[u]]
          /\ Return(t) \/ thread' = [thread EXCEPT ![t].todo = @ \ {u}]
    BY DEF Join
  <1>2. /\ thread[t].step = "join" /\ Uses(t)
        /\ UNCHANGED <<serverVars, tasks, channelVars, holder, fault>>
    BY DEF Join, At
  <1> DEFINE obj == [Obj(t) EXCEPT !.members = @ \cup {u}]
             T == thread[t].todo \ {u}
             r == [thread[t] EXCEPT !.todo = T]
  <1>3. /\ thread[t].guild # 0 /\ e.kind \notin LoadKinds /\ e.guild \in Guilds /\ e.load \in ServerGuild
        /\ thread[t] \in ThreadState /\ Equipped(thread[t])
    BY <1>2, ThreadAt, KindsAt, NoLoad, HasGuild DEF GuildSteps, LoadKinds
  <1>4. u \in Users
    BY <1>3 DEF Equipped, Listed
  <1>5. obj \in GuildObject
    BY <1>2, <1>3, <1>4, GuildInHand DEF GuildObject
  <1>6. UserPart'
    <2>1. e.load.members[u] \in Membership
      BY <1>3, <1>4 DEF ServerGuild
    <2> QED BY <1>1, <1>3, <1>4, <2>1 DEF TypeInv, UserPart, Made
  <1>7. PICK q : Steps(t, q) /\ q.step \in {"idle", "join"}
    <2>1. CASE Return(t)
      BY <2>1, ReturnsHome
    <2>2. CASE thread' = [thread EXCEPT ![t].todo = @ \ {u}]
      <3>1. thread' = [thread EXCEPT ![t] = r]
        BY <2>2, <1>3, ThreadAt DEF ThreadState
      <3>2. /\ r \in ThreadState /\ r.step = "join" /\ r.event = e /\ r.guild = thread[t].guild
            /\ r.channel = thread[t].channel /\ r.todo \subseteq thread[t].todo
        BY <1>2, <1>3 DEF ThreadState
      <3> HIDE DEF r
      <3>3. Equipped(r)
        BY <1>2, <1>3, <3>2 DEF Equipped
      <3> QED BY <3>1, <3>2, <3>3 DEF Steps
    <2> QED BY <1>1, <2>1, <2>2
  <1>8. SetObj(t, obj)
    BY <1>1
  <1> HIDE DEF obj
  <1> QED BY <1>2, <1>3, <1>5, <1>6, <1>7, <1>8, AtGuild DEF Holding

LEMMA MessageType ==
    ASSUME TypeInv, NEW t \in Threads, Message(t)
    PROVE  TypeInv'
  <1> DEFINE e == thread[t].event
             n == Chan(t).guild
             r == Going(thread[t], "add", n, thread[t].channel)
  <1>1. /\ thread[t].step = "message" /\ Uses(t) /\ fault' \in {fault, "null"}
        /\ users' \in {users, [users EXCEPT ![e.user] = "named"]}
        /\ UNCHANGED <<serverVars, tasks, guildVars, channelVars, info, holder>>
        /\ \/ Return(t)
           \/ n # 0 /\ thread' = [thread EXCEPT ![t].step = "add", ![t].guild = n]
    BY DEF Message, At
  <1>2. e.kind \in MessageKinds /\ e.kind # "READY" /\ e.kind \in UserKinds
    BY <1>1, ThreadAt, KindsAt DEF MessageKinds, UserKinds
  <1>3. e.guild \in Guilds /\ e.user \in Users
    BY <1>2, ThreadAt, NoLoad
  <1>4. n \in Nat
    <2>1. Chan(t) \in ChannelObject
      BY <1>1, HasChannel, ChannelInHand DEF ChannelSteps
    <2> QED BY <2>1 DEF ChannelObject
  <1>5. UserPart' /\ fault' \in {"none", "null", "noInfo"}
    BY <1>1, <1>3 DEF TypeInv, LockPart, UserPart
  <1>6. PICK q : Steps(t, q) /\ q.step \notin Holding
    <2>1. CASE Return(t)
      BY <2>1, ReturnsHome
    <2>2. CASE n # 0 /\ thread' = [thread EXCEPT ![t].step = "add", ![t].guild = n]
      <3>1. "add" \in Step \ (ChannelSteps \cup Holding \cup {"createChannel", "findChannel"})
        BY DEF Step, ChannelSteps, Holding
      <3>2. thread[t].channel \in Nat /\ thread[t] \in ThreadState /\ e.kind \in HandledAt["add"]
        BY <1>2, ThreadAt, KindsAt
      <3>3. thread' = [thread EXCEPT ![t] = r]
        BY <1>4, <2>2, <3>1, ThreadAt DEF Going, ThreadState
      <3> HIDE DEF n
      <3>4. Steps(t, r)
        BY <1>3, <1>4, <2>2, <3>1, <3>2, <3>3, ChannelOf, GoesOn
      <3>5. r.step = "add"
        BY <1>4, <3>1, <3>2, GoingType
      <3> QED BY <3>1, <3>4, <3>5
    <2> QED BY <1>1, <2>1, <2>2
  <1> QED BY <1>1, <1>5, <1>6, Passing DEF Holding

LEMMA AddType ==
    ASSUME TypeInv, NEW t \in Threads, Add(t)
    PROVE  TypeInv'
  <1> DEFINE obj == [Obj(t) EXCEPT !.members = @ \cup {thread[t].event.user}]
  <1>1. /\ thread[t].step = "add" /\ Uses(t) /\ SetObj(t, obj) /\ Goto(t, "joinUser")
        /\ UNCHANGED <<serverVars, tasks, channelVars, userVars, holder, fault>>
    BY DEF Add, At
  <1>2. thread[t].guild # 0 /\ thread[t].event.kind \in MessageKinds /\ thread[t].event.user \in Users
    BY <1>1, ThreadAt, KindsAt, NoLoad, HasGuild DEF GuildSteps, MessageKinds, UserKinds
  <1>3. obj \in GuildObject
    BY <1>1, <1>2, GuildInHand DEF GuildObject
  <1>4. PICK r : Steps(t, r) /\ r.step = "joinUser"
    <2>1. "joinUser" \in Step \ (ChannelSteps \cup {"idle", "createChannel", "findChannel"})
      BY DEF Step, ChannelSteps
    <2>2. thread[t].event.kind \in HandledAt["joinUser"]
      BY <1>2, KindsAt
    <2> QED BY <1>1, <1>2, <2>1, <2>2, GoesOnWith
  <1> HIDE DEF obj
  <1> QED BY <1>1, <1>2, <1>3, <1>4, UsersSame, AtGuild DEF Holding

LEMMA JoinUserType ==
    ASSUME TypeInv, NEW t \in Threads, JoinUser(t)
    PROVE  TypeInv'
  <1> DEFINE e == thread[t].event
  <1>1. /\ thread[t].step = "joinUser" /\ Return(t)
        /\ info' = [info EXCEPT ![e.user][e.guild] = e.load.members[e.user]]
        /\ UNCHANGED <<serverVars, tasks, guildVars, channelVars, users, holder, fault>>
    BY DEF JoinUser, At
  <1>2. e.kind \in MessageKinds /\ e.user \in Users /\ e.guild \in Guilds /\ e.load \in ServerGuild
    BY <1>1, ThreadAt, KindsAt, NoLoad DEF MessageKinds, UserKinds
  <1>3. UserPart'
    <2>1. e.load.members[e.user] \in Membership
      BY <1>2 DEF ServerGuild
    <2> QED BY <1>1, <1>2, <2>1 DEF TypeInv, UserPart
  <1>4. fault' \in {"none", "null", "noInfo"}
    BY <1>1 DEF TypeInv, LockPart
  <1> QED BY <1>1, <1>3, <1>4, ReturnsHome, Passing DEF Holding

LEMMA RolesType ==
    ASSUME TypeInv, NEW t \in Threads, LoadRole(t) \/ RemoveRole(t)
    PROVE  TypeInv'
  <1> DEFINE g == thread[t].event.guild
             more == [Obj(t) EXCEPT !.roles = @ \cup {thread[t].event.role}]
             less == [Obj(t) EXCEPT !.roles = @ \ {thread[t].event.role}]
  <1>1. /\ thread[t].step \in {"loadRole", "removeRole"} /\ Uses(t) /\ Return(t)
        /\ SetObj(t, more) \/ SetObj(t, less)
        /\ \/ info' = info
           \/ info' = [v \in Users |-> IF v \in Obj(t).members /\ info[v][g] = NoInfo
                                       THEN [info[v] EXCEPT ![g] = {}] ELSE info[v]]
        /\ UNCHANGED <<serverVars, tasks, channelVars, users, holder, fault>>
    BY DEF LoadRole, RemoveRole, At, userVars
  <1>2. thread[t].guild # 0 /\ thread[t].event.role \in Roles /\ g \in Guilds
    BY <1>1, ThreadAt, KindsAt, NoLoad, HasGuild DEF GuildSteps, RoleKinds
  <1>3. more \in GuildObject /\ less \in GuildObject
    BY <1>1, <1>2, GuildInHand DEF GuildObject
  <1>4. UserPart'
    <2>1. users' = users /\ info \in [Users -> [Guilds -> Membership]]
      BY <1>1 DEF TypeInv, UserPart
    <2>2. CASE info' = info
      BY <2>1, <2>2 DEF TypeInv, UserPart
    <2>3. CASE info' = [v \in Users |-> IF v \in Obj(t).members /\ info[v][g] = NoInfo
                                        THEN [info[v] EXCEPT ![g] = {}] ELSE info[v]]
      <3>1. \A v \in Users : [info[v] EXCEPT ![g] = {}] \in [Guilds -> Membership]
        BY <1>2, <2>1, Memberships
      <3> HIDE DEF g
      <3>2. info' \in [Users -> [Guilds -> Membership]]
        BY <2>1, <2>3, <3>1
      <3> QED BY <2>1, <3>2 DEF TypeInv, UserPart
    <2> QED BY <1>1, <2>2, <2>3
  <1> HIDE DEF more, less
  <1>5. thread[t].step \notin Holding
    BY <1>1 DEF Holding
  <1> QED BY <1>1, <1>2, <1>3, <1>4, <1>5, ReturnsHome, AtGuild

LEMMA InitType ==
    ASSUME Init
    PROVE  TypeInv
  <1>1. ServerPart
    <2> DEFINE sg(g) == [FirstServer EXCEPT !.channels = {c \in FirstChannels : GuildOf[c] = g}]
    <2>1. FirstServer \in ServerGuild
      BY Memberships, CacheAssumption DEF FirstServer, ServerGuild
    <2>2. ASSUME NEW g \in Guilds PROVE sg(g) \in ServerGuild /\ \A c \in sg(g).channels : GuildOf[c] = g
      BY <2>1, CacheAssumption DEF ServerGuild
    <2>3. server = [g \in Guilds |-> sg(g)]
      BY DEF Init
    <2> HIDE DEF sg
    <2>4. server \in [Guilds -> ServerGuild] /\ \A g \in Guilds : \A c \in server[g].channels : GuildOf[c] = g
      BY <2>2, <2>3
    <2> QED BY <2>4, CacheAssumption DEF Init, ServerPart
  <1>2. TaskPart
    BY <1>1, GreetingType DEF Init, TaskPart, Greets, Sent
  <1>3. ThreadPart
    BY IdleType DEF Init, ThreadPart
  <1>4. GuildPart
    BY EmptySeq, LenProperties DEF Init, GuildPart
  <1>5. ChannelPart
    BY EmptySeq, LenProperties DEF Init, ChannelPart
  <1>6. UserPart
    BY Memberships DEF Init, UserPart
  <1>7. LockPart
    <2>1. Idle.step = "idle" /\ \A t \in Threads : thread[t] = Idle
      BY DEF Init, Idle
    <2> QED BY <2>1, NoThread DEF Init, LockPart, Holder
  <1> QED BY <1>1, <1>2, <1>3, <1>4, <1>5, <1>6, <1>7 DEF TypeInv

LEMMA ServerStepType ==
    ASSUME TypeInv, ServerStep
    PROVE  TypeInv'
  <1>1. UNCHANGED <<thread, guildVars, channelVars, userVars, holder, fault>>
    BY DEF ServerStep, BotVars
  <1>2. LockPart'
    BY <1>1 DEF TypeInv, LockPart, guildVars
  <1>3. ThreadPart'
    BY <1>1 DEF TypeInv, ThreadPart, Equipped, WellFormed, Listed
  <1> QED BY <1>1, <1>2, <1>3, GuildsKept, ChannelsKept, UsersSame DEF ServerStep, TypeInv

LEMMA StutterType ==
    ASSUME TypeInv, UNCHANGED vars
    PROVE  TypeInv'
  <1>1. UNCHANGED <<serverVars, tasks, thread, guildVars, channelVars, userVars, holder, fault>>
    BY DEF vars
  <1>2. ServerStep
    BY <1>1, ServerKept, TasksKept DEF ServerStep, BotVars
  <1> QED BY <1>2, ServerStepType

LEMMA RunType ==
    ASSUME TypeInv, NEW t \in Threads, Run(t)
    PROVE  TypeInv'
  BY TakeType, ReadyType, CreateType, FindType, LoadType, NextChannelType, LoadChannelType,
     LoadedType, MarkType, RemoveGuildType, CreateChannelType, FindChannelType, LinkType,
     UpdateType, LockChannelType, EraseType, LockGuildsType, RemoveMemberType, JoinType,
     MessageType, AddType, JoinUserType, RolesType
  DEF Run

LEMMA NextType ==
    ASSUME TypeInv, [Next]_vars
    PROVE  TypeInv'
  BY ServerType, ServerStepType, RunType, StutterType DEF Next, Terminated

LEMMA TypesThroughout == Spec => []TypeInv
  <1> QED BY InitType, NextType, PTL DEF Spec

\* The type of every variable, for any number of threads, guilds, channels and
\* users.
THEOREM TypeCorrect == Spec => []TypeOK
  <1>1. TypeInv => TypeOK
    BY DEF TypeInv, ServerPart, TaskPart, ThreadPart, GuildPart, ChannelPart, UserPart, LockPart,
       TypeOK
  <1> QED BY <1>1, TypesThroughout, PTL

-----------------------------------------------------------------------------
(* Members and their entries.                                              *)

\* A step of a thread is a step of no other.
LEMMA OthersWait ==
    ASSUME TypeInv, NEW t \in Threads, Run(t), NEW u \in Threads, u # t
    PROVE  thread'[u] = thread[u]
  <1>1. thread \in [Threads -> ThreadState]
    BY DEF TypeInv, ThreadPart
  <1>2. ASSUME NEW r, thread' = [thread EXCEPT ![t] = r] PROVE thread'[u] = thread[u]
    BY <1>1, <1>2
  <1>3. CASE Take(t) \/ Ready(t) \/ Create(t) \/ Find(t)
    BY <1>1, <1>3 DEF Take, Ready, Create, Find, Return
  <1>4. CASE Load(t) \/ NextChannel(t) \/ LoadChannel(t) \/ Loaded(t) \/ Mark(t) \/ RemoveGuild(t)
    BY <1>1, <1>4 DEF Load, NextChannel, LoadChannel, Loaded, Mark, RemoveGuild, Return, Goto
  <1>5. CASE CreateChannel(t) \/ FindChannel(t) \/ Link(t) \/ Update(t) \/ LockChannel(t) \/ Erase(t)
    BY <1>1, <1>5 DEF CreateChannel, FindChannel, Link, Update, LockChannel, Erase, Return, Goto
  <1>6. CASE LockGuilds(t) \/ RemoveMember(t) \/ Join(t) \/ Message(t)
    BY <1>1, <1>6 DEF LockGuilds, RemoveMember, Join, Message, Return, Goto
  <1>7. CASE Add(t) \/ JoinUser(t) \/ LoadRole(t) \/ RemoveRole(t)
    BY <1>1, <1>7 DEF Add, JoinUser, LoadRole, RemoveRole, Return, Goto
  <1> QED BY <1>3, <1>4, <1>5, <1>6, <1>7 DEF Run

\* A handler that has entered the user in the guild, and not yet the guild in the user.
Joining(t, u, g) ==
    thread[t].step = "joinUser" /\ thread[t].event.user = u /\ thread[t].event.guild = g

Entry(u, g) == info[u][g] # NoInfo \/ \E t \in Threads : Joining(t, u, g)

LEMMA EntryIs == MembersHaveInfo <=> \A g \in guilds : \A u \in Current(g).members : Entry(u, g)
  BY DEF MembersHaveInfo, Entry, Joining

\* The members that a step may add are those of M in the guild h.
Grows(h, M) ==
    \A g \in guilds' : \A u \in Current(g)'.members :
        (g \in guilds /\ u \in Current(g).members) \/ (g = h /\ u \in M)

LEMMA CurrentType ==
    ASSUME TypeInv, NEW g \in guilds
    PROVE  /\ g \in Guilds /\ Len(guildObj[g]) \in Nat \ {0} /\ Current(g) \in GuildObject
           /\ Current(g) = guildObj[g][Len(guildObj[g])]
  <1>1. g \in Guilds /\ guildObj[g] \in Seq(GuildObject) /\ guildObj[g] # <<>>
    BY DEF TypeInv, GuildPart
  <1>2. Len(guildObj[g]) \in Nat \ {0}
    BY <1>1, EmptySeq, LenProperties
  <1> QED BY <1>1, <1>2, ElementOfSeq DEF Current

LEMMA SameGrows ==
    ASSUME guilds' \subseteq guilds, guildObj' = guildObj, NEW h, NEW M
    PROVE  Grows(h, M)
  BY DEF Grows, Current

LEMMA MakeGrows ==
    ASSUME TypeInv, NEW G \in SUBSET Guilds, MakeGuilds(G), NEW h, NEW M
    PROVE  Grows(h, M)
  <1> SUFFICES ASSUME NEW g \in guilds', NEW u \in Current(g)'.members
               PROVE  g \in guilds /\ u \in Current(g).members
    BY DEF Grows
  <1>1. guilds' = guilds \cup G /\ guilds \subseteq Guilds
    BY DEF MakeGuilds, TypeInv, GuildPart
  <1>2. CASE g \in G \ guilds
    <2>1. Current(g)' = NewGuild
      BY <1>1, <1>2, MakeGuildsType DEF Current
    <2> QED BY <2>1 DEF NewGuild
  <1>3. CASE g \notin G \ guilds
    BY <1>1, <1>3, MakeGuildsType DEF Current
  <1> QED BY <1>2, <1>3

LEMMA SetGrows ==
    ASSUME TypeInv, NEW t \in Threads, thread[t].guild # 0,
           Uses(t) \/ thread[t].step = "removeMember",
           NEW obj \in GuildObject, SetObj(t, obj), NEW M, obj.members \subseteq Obj(t).members \cup M
    PROVE  Grows(thread[t].event.guild, M)
  <1> SUFFICES ASSUME NEW g \in guilds', NEW u \in Current(g)'.members
               PROVE  \/ g \in guilds /\ u \in Current(g).members
                      \/ g = thread[t].event.guild /\ u \in M
    BY DEF Grows
  <1>1. guilds' = guilds
    BY SetObjType
  <1>2. g \in Guilds /\ Len(guildObj[g]) \in Nat \ {0} /\ Current(g) = guildObj[g][Len(guildObj[g])]
    BY <1>1, CurrentType
  <1>3. Len(guildObj'[g]) = Len(guildObj[g])
    BY <1>2, SetObjType
  <1>4. Current(g)' = guildObj'[g][Len(guildObj[g])]
    BY <1>3 DEF Current
  <1>5. CASE g = thread[t].event.guild /\ thread[t].guild = Len(guildObj[g])
    <2>1. guildObj'[thread[t].event.guild][thread[t].guild] = obj
      BY SetObjType
    <2>2. Current(g)' = obj
      BY <1>4, <1>5, <2>1
    <2>3. Obj(t) = Current(g)
      BY <1>2, <1>5 DEF Obj
    <2> QED BY <1>1, <1>5, <2>2, <2>3
  <1>6. CASE ~(g = thread[t].event.guild /\ thread[t].guild = Len(guildObj[g]))
    <2>1. Len(guildObj[g]) \in 1..Len(guildObj[g])
      BY <1>2
    <2>2. Current(g)' = Current(g)
      BY <1>2, <1>4, <1>6, <2>1, SetObjType
    <2> QED BY <1>1, <2>2
  <1> QED BY <1>5, <1>6

\* What a step must keep of the entries and of the handlers between the two.
LEMMA EntriesKept ==
    ASSUME TypeInv, MembersHaveInfo, NEW h, NEW M, Grows(h, M),
           \A u \in M : Entry(u, h)',
           \A g \in guilds' : \A u \in Current(g)'.members :
               info[u][g] # NoInfo => info'[u][g] # NoInfo,
           \A t \in Threads, u \in Users, g \in Guilds :
               Joining(t, u, g) => Entry(u, g)'
    PROVE  MembersHaveInfo'
  <1>1. ASSUME NEW g \in guilds', NEW u \in Current(g)'.members
        PROVE  Entry(u, g)'
    <2>1. CASE g \in guilds /\ u \in Current(g).members
      <3>1. Entry(u, g)
        BY <2>1, EntryIs
      <3>2. g \in Guilds /\ u \in Users
        BY <2>1, CurrentType DEF GuildObject
      <3>3. CASE info[u][g] # NoInfo
        BY <1>1, <3>3 DEF Entry
      <3>4. CASE \E t \in Threads : Joining(t, u, g)
        BY <3>2, <3>4
      <3> QED BY <3>1, <3>3, <3>4 DEF Entry
    <2>2. CASE g = h /\ u \in M
      BY <2>2
    <2> QED BY <2>1, <2>2 DEF Grows
  <1> QED BY <1>1 DEF MembersHaveInfo, Entry, Joining

\* A handler that is not between the two leaves those that are.
LEMMA JoiningKept ==
    ASSUME TypeInv, NEW t \in Threads, Run(t), thread[t].step # "joinUser",
           NEW v \in Threads, NEW u \in Users, NEW g \in Guilds, Joining(v, u, g)
    PROVE  Entry(u, g)'
  <1>1. v # t
    BY DEF Joining
  <1>2. thread'[v] = thread[v]
    BY <1>1, OthersWait
  <1> QED BY <1>2 DEF Entry, Joining

\* A handler that adds no member and takes no entry away.
LEMMA AddsNone ==
    ASSUME TypeInv, MembersHaveInfo, NEW t \in Threads, Run(t), thread[t].step # "joinUser",
           NEW h, Grows(h, {}), info' = info
    PROVE  MembersHaveInfo'
  <1>1. \A v \in Threads, u \in Users, g \in Guilds : Joining(v, u, g) => Entry(u, g)'
    BY JoiningKept
  <1>2. \A u \in {} : Entry(u, h)'
    OBVIOUS
  <1> QED BY <1>1, <1>2, EntriesKept

LEMMA QuietHandlers ==
    ASSUME TypeInv, MembersHaveInfo, NEW t \in Threads,
           \/ Take(t) \/ Ready(t) \/ Create(t) \/ Find(t) \/ NextChannel(t) \/ Mark(t)
           \/ RemoveGuild(t) \/ CreateChannel(t) \/ FindChannel(t) \/ LockChannel(t)
           \/ LockGuilds(t) \/ Message(t)
    PROVE  MembersHaveInfo'
  <1>1. Run(t)
    BY DEF Run
  <1>2. CASE Ready(t)
    <2>1. thread[t].event.all \in SUBSET Guilds
      BY ThreadAt DEF Event
    <2>2. Grows(t, {}) /\ info' = info /\ thread[t].step # "joinUser"
      BY <1>2, <2>1, MakeGrows DEF Ready, At, userVars
    <2> QED BY <1>1, <2>2, AddsNone
  <1>3. CASE Create(t)
    <2>1. thread[t].event.guild \in Guilds
      BY <1>3, ThreadAt, KindsAt, NoLoad DEF Create, At
    <2>2. Grows(t, {}) /\ info' = info /\ thread[t].step # "joinUser"
      BY <1>3, <2>1, MakeGrows DEF Create, At, userVars
    <2> QED BY <1>1, <2>2, AddsNone
  <1>4. CASE Take(t) \/ Find(t) \/ NextChannel(t) \/ Mark(t) \/ CreateChannel(t)
    <2>1. guilds' = guilds /\ guildObj' = guildObj /\ info' = info /\ thread[t].step # "joinUser"
      BY <1>4 DEF Take, Find, NextChannel, Mark, CreateChannel, At, userVars, guildVars
    <2> QED BY <1>1, <2>1, SameGrows, AddsNone
  <1>5. CASE RemoveGuild(t) \/ FindChannel(t) \/ LockChannel(t) \/ LockGuilds(t) \/ Message(t)
    <2>1. guilds' \subseteq guilds /\ guildObj' = guildObj /\ info' = info /\ thread[t].step # "joinUser"
      BY <1>5 DEF RemoveGuild, FindChannel, LockChannel, LockGuilds, Message, At, userVars, guildVars
    <2> QED BY <1>1, <2>1, SameGrows, AddsNone
  <1> QED BY <1>2, <1>3, <1>4, <1>5

\* Handlers that write to the object, and not to its members.
LEMMA WritesElsewhere ==
    ASSUME TypeInv, MembersHaveInfo, NEW t \in Threads,
           \/ LoadChannel(t) \/ Loaded(t) \/ Link(t) \/ Update(t) \/ Erase(t) \/ LoadRole(t)
    PROVE  MembersHaveInfo'
  <1> DEFINE o == Obj(t)
             c == thread[t].event.channel
             entered == [o EXCEPT !.channels = Emplace(@, c, thread[t].channel)]
             let == [o EXCEPT !.holder = Null]
             erased == [o EXCEPT !.channels[c] = 0]
             added == [o EXCEPT !.roles = @ \cup {thread[t].event.role}]
  <1>1. Run(t)
    BY DEF Run
  <1>2. /\ Uses(t) /\ info' = info
        /\ thread[t].step \in {"loadChannel", "loadChannels", "link", "update", "erase", "loadRole"}
    BY DEF LoadChannel, Loaded, Link, Update, Erase, LoadRole, At, userVars
  <1>3. thread[t].guild # 0 /\ thread[t].step # "joinUser" /\ thread[t].channel \in Nat
    BY <1>2, HasGuild, ThreadAt DEF GuildSteps
  <1>4. o \in GuildObject
    BY <1>2, <1>3, GuildInHand
  <1>5. \/ thread[t].channel # 0 /\ SetObj(t, entered)
        \/ SetObj(t, let)
        \/ thread[t].channel # 0 /\ SetObj(t, erased)
        \/ thread[t].step = "loadRole" /\ SetObj(t, added)
    BY HasChannel DEF LoadChannel, Loaded, Link, Update, Erase, LoadRole, Enters, ChannelSteps, At
  <1>6. /\ thread[t].channel # 0 => entered \in GuildObject /\ erased \in GuildObject
        /\ let \in GuildObject
        /\ thread[t].step = "loadRole" => added \in GuildObject
    <2>1. thread[t].channel # 0 => c \in Channels
      BY ChannelOf
    <2>2. thread[t].step = "loadRole" => thread[t].event.role \in Roles
      BY ThreadAt, KindsAt, NoLoad DEF RoleKinds
    <2> HIDE DEF o, c
    <2> QED BY <1>3, <1>4, <2>1, <2>2 DEF GuildObject, Emplace, Holder
  <1>7. /\ entered.members = o.members /\ let.members = o.members /\ erased.members = o.members
        /\ added.members = o.members
    <2> HIDE DEF o, c
    <2> QED BY <1>4 DEF GuildObject
  <1>8. PICK obj \in GuildObject : SetObj(t, obj) /\ obj.members = o.members
    <2> HIDE DEF entered, let, erased, added, o
    <2> QED BY <1>5, <1>6, <1>7
  <1>9. Grows(thread[t].event.guild, {})
    BY <1>2, <1>3, <1>8, SetGrows
  <1> QED BY <1>1, <1>2, <1>3, <1>9, AddsNone

LEMMA MemberAfter ==
    ASSUME TypeInv', NEW g \in guilds', NEW u \in Current(g)'.members
    PROVE  g \in Guilds /\ u \in Users
  <1>1. g \in Guilds /\ guildObj'[g] \in Seq(GuildObject) /\ guildObj'[g] # <<>>
    BY DEF TypeInv, GuildPart
  <1>2. Len(guildObj'[g]) \in 1..Len(guildObj'[g])
    BY <1>1, EmptySeq, LenProperties
  <1>3. Current(g)' \in GuildObject
    BY <1>1, <1>2, ElementOfSeq DEF Current
  <1> QED BY <1>1, <1>3 DEF GuildObject

\* A handler that makes the entries of the members it adds.
LEMMA AddsBoth ==
    ASSUME TypeInv, MembersHaveInfo, NEW t \in Threads, Run(t), thread[t].step # "joinUser",
           NEW h, NEW M, Grows(h, M), \A u \in M : info'[u][h] # NoInfo,
           \A u \in Users, g \in Guilds : info[u][g] # NoInfo => info'[u][g] # NoInfo
    PROVE  MembersHaveInfo'
  <1>1. \A v \in Threads, u \in Users, g \in Guilds : Joining(v, u, g) => Entry(u, g)'
    BY JoiningKept
  <1>2. \A u \in M : Entry(u, h)'
    BY DEF Entry
  <1>3. TypeInv'
    BY RunType
  <1>4. ASSUME NEW g \in guilds', NEW u \in Current(g)'.members, info[u][g] # NoInfo
        PROVE  info'[u][g] # NoInfo
    BY <1>3, <1>4, MemberAfter
  <1> QED BY <1>1, <1>2, <1>4, EntriesKept

LEMMA LoadEntered ==
    ASSUME TypeInv, MembersHaveInfo, NEW t \in Threads, Load(t)
    PROVE  MembersHaveInfo'
  <1> DEFINE e == thread[t].event
             obj == [Obj(t) EXCEPT !.roles = @ \cup e.load.roles,
                                   !.members = @ \cup Listed(e), !.holder = t]
  <1>1. /\ thread[t].step = "load" /\ Uses(t) /\ SetObj(t, obj)
        /\ info' = [u \in Users |-> IF u \in Listed(e)
                                    THEN [info[u] EXCEPT ![e.guild] = e.load.members[u]]
                                    ELSE info[u]]
    BY DEF Load, At
  <1>2. thread[t].guild # 0 /\ e.load \in ServerGuild /\ e.guild \in Guilds
    BY <1>1, HasGuild, ThreadAt, KindsAt, NoLoad DEF GuildSteps, LoadKinds
  <1>3. obj \in GuildObject /\ obj.members = Obj(t).members \cup Listed(e)
    BY <1>1, <1>2, GuildInHand DEF GuildObject, ServerGuild, Listed, Holder
  <1> HIDE DEF obj
  <1>4. Grows(e.guild, Listed(e))
    BY <1>1, <1>2, <1>3, SetGrows
  <1>5. info \in [Users -> [Guilds -> Membership]]
    BY DEF TypeInv, UserPart
  <1>6. \A u \in Users, g \in Guilds :
           info'[u][g] = IF u \in Listed(e) /\ g = e.guild THEN e.load.members[u] ELSE info[u][g]
    BY <1>1, <1>2, <1>5
  <1>7. \A u \in Listed(e) : u \in Users /\ e.load.members[u] # NoInfo
    BY DEF Listed
  <1> HIDE DEF e
  <1>8. /\ \A u \in Listed(e) : info'[u][e.guild] # NoInfo
        /\ \A u \in Users, g \in Guilds : info[u][g] # NoInfo => info'[u][g] # NoInfo
    BY <1>2, <1>6, <1>7
  <1>9. Run(t)
    BY DEF Run
  <1> QED BY <1>1, <1>4, <1>8, <1>9, AddsBoth

LEMMA JoinEntered ==
    ASSUME TypeInv, MembersHaveInfo, NEW t \in Threads, Join(t)
    PROVE  MembersHaveInfo'
  <1> DEFINE e == thread[t].event
  <1>1. PICK v \in thread[t].todo :
          /\ SetObj(t, [Obj(t) EXCEPT !.members = @ \cup {v}])
          /\ info' = [info EXCEPT ![v][e.guild] = e.load.members[v]]
    BY DEF Join
  <1> DEFINE obj == [Obj(t) EXCEPT !.members = @ \cup {v}]
  <1>2. thread[t].step = "join" /\ Uses(t)
    BY DEF Join, At
  <1>3. thread[t].guild # 0 /\ e.kind \notin LoadKinds /\ e.guild \in Guilds /\ Equipped(thread[t])
    BY <1>2, HasGuild, ThreadAt, KindsAt, NoLoad DEF GuildSteps, LoadKinds
  <1>4. v \in Users /\ e.load.members[v] # NoInfo
    BY <1>3 DEF Equipped, Listed
  <1>5. obj \in GuildObject /\ obj.members = Obj(t).members \cup {v}
    BY <1>2, <1>3, <1>4, GuildInHand DEF GuildObject
  <1>6. SetObj(t, obj)
    BY <1>1
  <1> HIDE DEF obj
  <1>7. Grows(e.guild, {v})
    BY <1>2, <1>3, <1>5, <1>6, SetGrows
  <1>8. info \in [Users -> [Guilds -> Membership]]
    BY DEF TypeInv, UserPart
  <1>9. \A u \in Users, g \in Guilds :
           info'[u][g] = IF u = v /\ g = e.guild THEN e.load.members[v] ELSE info[u][g]
    BY <1>1, <1>3, <1>4, <1>8
  <1> HIDE DEF e
  <1>10. /\ \A u \in {v} : info'[u][e.guild] # NoInfo
         /\ \A u \in Users, g \in Guilds : info[u][g] # NoInfo => info'[u][g] # NoInfo
    BY <1>3, <1>4, <1>9
  <1>11. Run(t)
    BY DEF Run
  <1> QED BY <1>2, <1>7, <1>10, <1>11, AddsBoth

LEMMA AddEntered ==
    ASSUME TypeInv, MembersHaveInfo, NEW t \in Threads, Add(t)
    PROVE  MembersHaveInfo'
  <1> DEFINE e == thread[t].event
             obj == [Obj(t) EXCEPT !.members = @ \cup {e.user}]
  <1>1. thread[t].step = "add" /\ Uses(t) /\ SetObj(t, obj) /\ Goto(t, "joinUser") /\ info' = info
    BY DEF Add, At, userVars
  <1>2. thread[t].guild # 0 /\ e.user \in Users
    BY <1>1, ThreadAt, KindsAt, NoLoad, HasGuild DEF GuildSteps, MessageKinds, UserKinds
  <1>3. obj \in GuildObject /\ obj.members = Obj(t).members \cup {e.user}
    BY <1>1, <1>2, GuildInHand DEF GuildObject
  <1> HIDE DEF obj
  <1>4. PICK h, w : h = e.guild /\ w = e.user /\ Grows(h, {w})
    BY <1>1, <1>2, <1>3, SetGrows
  <1>5. thread'[t].step = "joinUser" /\ thread'[t].event = e
    BY <1>1, ThreadAt DEF Goto, ThreadState
  <1>6. \A u \in {w} : Entry(u, h)'
    BY <1>4, <1>5 DEF Entry, Joining
  <1>7. \A v \in Threads, u \in Users, g \in Guilds : Joining(v, u, g) => Entry(u, g)'
    BY <1>1, JoiningKept DEF Run
  <1>8. \A g \in guilds' : \A u \in Current(g)'.members :
            info[u][g] # NoInfo => info'[u][g] # NoInfo
    BY <1>1
  <1> HIDE DEF e
  <1> QED BY <1>4, <1>6, <1>7, <1>8, EntriesKept

LEMMA JoinUserEntered ==
    ASSUME TypeInv, MembersHaveInfo, NEW t \in Threads, JoinUser(t)
    PROVE  MembersHaveInfo'
  <1> DEFINE e == thread[t].event
  <1>1. /\ thread[t].step = "joinUser" /\ guilds' = guilds /\ guildObj' = guildObj
        /\ info' = [info EXCEPT ![e.user][e.guild] = e.load.members[e.user]]
    BY DEF JoinUser, At, guildVars
  <1>2. e.user \in Users /\ e.guild \in Guilds /\ e.load.members[e.user] # NoInfo
    BY <1>1, ThreadAt, KindsAt, NoLoad DEF MessageKinds, UserKinds
  <1>3. info \in [Users -> [Guilds -> Membership]]
    BY DEF TypeInv, UserPart
  <1>4. \A u, g : info[u][g] # NoInfo => info'[u][g] # NoInfo
    BY <1>1, <1>2, <1>3
  <1>5. info'[e.user][e.guild] # NoInfo
    BY <1>1, <1>2, <1>3
  <1>6. ASSUME NEW v \in Threads, NEW u \in Users, NEW g \in Guilds, Joining(v, u, g)
        PROVE  Entry(u, g)'
    <2>1. CASE v = t
      BY <1>5, <1>6, <2>1 DEF Entry, Joining
    <2>2. CASE v # t
      <3>1. thread'[v] = thread[v]
        BY <2>2, OthersWait DEF Run
      <3> QED BY <1>6, <3>1 DEF Entry, Joining
    <2> QED BY <2>1, <2>2
  <1>7. Grows(e, {}) /\ \A u \in {} : Entry(u, e)'
    BY <1>1, SameGrows
  <1> HIDE DEF e
  <1> QED BY <1>4, <1>6, <1>7, EntriesKept

\* The guild a member leaves is the one in the map: _guild_m is held.
LEMMA RemoveMemberEntered ==
    ASSUME TypeInv, MembersHaveInfo, NEW t \in Threads, RemoveMember(t)
    PROVE  MembersHaveInfo'
  <1> PICK h, w : h = thread[t].event.guild /\ w = thread[t].event.user
    OBVIOUS
  <1> DEFINE obj == [Obj(t) EXCEPT !.members = @ \ {w}]
  <1>1. /\ thread[t].step = "removeMember" /\ SetObj(t, obj)
        /\ info' \in {info, [info EXCEPT ![w][h] = NoInfo]}
    BY DEF RemoveMember, At
  <1>2. thread[t].guild # 0 /\ h \in Guilds /\ w \in Users
    BY <1>1, ThreadAt, KindsAt, NoLoad, HasGuild DEF GuildSteps, UserKinds
  <1>3. obj \in GuildObject /\ obj.members = Obj(t).members \ {w}
    BY <1>1, <1>2, GuildInHand DEF GuildObject
  <1>4. thread[t].guild = Len(guildObj[h])
    BY <1>1 DEF TypeInv, LockPart
  <1> HIDE DEF obj
  <1>5. Grows(h, {})
    BY <1>1, <1>2, <1>3, SetGrows
  <1>6. w \notin Current(h)'.members
    <2>1. Len(guildObj'[h]) = Len(guildObj[h]) /\ guildObj'[h][thread[t].guild] = obj
      BY <1>1, <1>2, <1>3, SetObjType
    <2>2. Current(h)' = obj
      BY <1>4, <2>1 DEF Current
    <2> QED BY <1>3, <2>2
  <1>7. info \in [Users -> [Guilds -> Membership]]
    BY DEF TypeInv, UserPart
  <1>8. \A u \in Users, g \in Guilds :
           info[u][g] # NoInfo => (info'[u][g] # NoInfo \/ (u = w /\ g = h))
    BY <1>1, <1>2, <1>7
  <1>9. ASSUME NEW g \in guilds', NEW u \in Current(g)'.members, info[u][g] # NoInfo
        PROVE  info'[u][g] # NoInfo
    BY <1>6, <1>8, <1>9, RemoveMemberType, MemberAfter
  <1>10. \A v \in Threads, u \in Users, g \in Guilds : Joining(v, u, g) => Entry(u, g)'
    BY <1>1, JoiningKept DEF Run
  <1>11. \A u \in {} : Entry(u, h)'
    OBVIOUS
  <1> QED BY <1>5, <1>9, <1>10, <1>11, EntriesKept

LEMMA RemoveRoleEntered ==
    ASSUME TypeInv, MembersHaveInfo, NEW t \in Threads, RemoveRole(t)
    PROVE  MembersHaveInfo'
  <1> DEFINE h == thread[t].event.guild
             obj == [Obj(t) EXCEPT !.roles = @ \ {thread[t].event.role}]
  <1>1. /\ thread[t].step = "removeRole" /\ Uses(t) /\ SetObj(t, obj)
        /\ info' = [u \in Users |-> IF u \in Obj(t).members /\ info[u][h] = NoInfo
                                    THEN [info[u] EXCEPT ![h] = {}] ELSE info[u]]
    BY DEF RemoveRole, At
  <1>2. thread[t].guild # 0 /\ h \in Guilds
    BY <1>1, ThreadAt, KindsAt, NoLoad, HasGuild DEF GuildSteps
  <1>3. obj \in GuildObject /\ obj.members = Obj(t).members
    BY <1>1, <1>2, GuildInHand DEF GuildObject
  <1> HIDE DEF obj
  <1>4. Grows(h, {})
    BY <1>1, <1>2, <1>3, SetGrows
  <1>5. info \in [Users -> [Guilds -> Membership]]
    BY DEF TypeInv, UserPart
  <1>6. ASSUME NEW u \in Users, NEW g \in Guilds, info[u][g] # NoInfo
        PROVE  info'[u][g] # NoInfo
    <2>1. info'[u] = (IF u \in Obj(t).members /\ info[u][h] = NoInfo
                      THEN [info[u] EXCEPT ![h] = {}] ELSE info[u])
      BY <1>1
    <2> HIDE DEF h
    <2> QED BY <1>2, <1>5, <1>6, <2>1
  <1>7. Run(t) /\ thread[t].step # "joinUser" /\ \A u \in {} : info'[u][h] # NoInfo
    BY <1>1 DEF Run
  <1> HIDE DEF h
  <1> QED BY <1>4, <1>6, <1>7, AddsBoth

LEMMA RunEntered ==
    ASSUME TypeInv, MembersHaveInfo, NEW t \in Threads, Run(t)
    PROVE  MembersHaveInfo'
  BY QuietHandlers, WritesElsewhere, LoadEntered, JoinEntered, AddEntered, JoinUserEntered,
     RemoveMemberEntered, RemoveRoleEntered
  DEF Run

\* A member in the cache has an entry for its guild in its user, the one user::leave
\* erases unchecked, unless its handler is between the two.
THEOREM MembersEntered == Spec => []MembersHaveInfo
  <1>1. Init => MembersHaveInfo
    BY DEF Init, MembersHaveInfo
  <1>2. ASSUME TypeInv, MembersHaveInfo, [Next]_vars PROVE MembersHaveInfo'
    <2>1. CASE ServerChanges
      BY <1>2, <2>1, ServerType
      DEF ServerStep, BotVars, MembersHaveInfo, Current, guildVars, userVars
    <2>2. CASE \E t \in Threads : Run(t)
      BY <1>2, <2>2, RunEntered
    <2>3. CASE UNCHANGED vars
      BY <1>2, <2>3 DEF vars, MembersHaveInfo, Current, guildVars, userVars
    <2> QED BY <1>2, <2>1, <2>2, <2>3 DEF Next, Terminated
  <1> QED BY <1>1, <1>2, TypesThroughout, PTL DEF Spec

-----------------------------------------------------------------------------
(* Pointers.                                                               *)

\* An object that is owned stays owned.
GuildsLast == \A g \in Guilds : \A n : GuildAlive(g, n) => GuildAlive(g, n)'
ChannelsLast == \A c \in Channels : \A n : ChannelAlive(c, n) => ChannelAlive(c, n)'

\* The guild of every channel object that was made is owned.
Owned(c) == \A i \in 1..Len(channelObj[c]) :
                channelObj[c][i].guild # 0 => GuildAlive(GuildOf[c], channelObj[c][i].guild)

PointerInv == (\A t \in Threads : Uses(t)) /\ (\A c \in Channels : Owned(c))

LEMMA PointersFollow ==
    ASSUME TypeInv, PointerInv
    PROVE  PointersValid
  <1>1. ASSUME NEW c \in channels, channelObj[c][ChannelPtr(c)].guild # 0
        PROVE  GuildAlive(GuildOf[c], channelObj[c][ChannelPtr(c)].guild)
    <2>1. c \in Channels /\ channelObj[c] \in Seq(ChannelObject) /\ channelObj[c] # <<>>
      BY DEF TypeInv, ChannelPart
    <2>2. ChannelPtr(c) \in 1..Len(channelObj[c])
      BY <2>1, EmptySeq, LenProperties DEF ChannelPtr
    <2> QED BY <1>1, <2>1, <2>2 DEF PointerInv, Owned
  <1> QED BY <1>1 DEF PointerInv, PointersValid

\* A step keeps the pointers if nothing that is owned is lost, if the thread's own
\* pointers are good, and if the only pointer it writes is that of its guild.
LEMMA PointersKept ==
    ASSUME TypeInv, PointerInv, NEW t \in Threads, Run(t), GuildsLast, ChannelsLast, Uses(t)',
           \A c \in Channels : \A i \in 1..Len(channelObj'[c]) :
               \/ channelObj'[c][i].guild = 0
               \/ i \in 1..Len(channelObj[c]) /\ channelObj'[c][i].guild = channelObj[c][i].guild
               \/ /\ thread[t].guild # 0 /\ thread[t].event.guild = GuildOf[c]
                  /\ channelObj'[c][i].guild = thread[t].guild
    PROVE  PointerInv'
  <1>1. ASSUME NEW u \in Threads PROVE Uses(u)'
    <2>1. CASE u = t
      BY <2>1
    <2>2. CASE u # t
      <3>1. thread'[u] = thread[u] /\ Uses(u)
        BY <2>2, OthersWait DEF PointerInv
      <3>2. /\ thread[u].guild # 0 => thread[u].event.guild \in Guilds
            /\ thread[u].channel # 0 => thread[u].event.channel \in Channels
        BY ThreadAt DEF Equipped
      <3> QED BY <3>1, <3>2 DEF Uses, GuildsLast, ChannelsLast
    <2> QED BY <2>1, <2>2
  <1>2. ASSUME NEW c \in Channels PROVE Owned(c)'
    <2>1. GuildOf[c] \in Guilds
      BY CacheAssumption
    <2>2. ASSUME NEW i \in 1..Len(channelObj'[c]), NEW n, n = channelObj'[c][i].guild, n # 0
          PROVE  GuildAlive(GuildOf[c], n)'
      <3>1. GuildAlive(GuildOf[c], n)
        BY <2>2 DEF PointerInv, Owned, Uses
      <3> QED BY <2>1, <3>1 DEF GuildsLast
    <2> QED BY <2>2 DEF Owned, GuildAlive
  <1> QED BY <1>1, <1>2 DEF PointerInv

-----------------------------------------------------------------------------
(* Events that come once.                                                  *)

Pending(E) ==
    (\E k \in 1..Len(tasks) : tasks[k] \in E) \/ (\E t \in Threads : thread[t].event \in E)

\* One event of E at most is on its way or being handled.
Single(E) ==
    /\ \A k, l \in 1..Len(tasks) : tasks[k] \in E /\ tasks[l] \in E => k = l
    /\ \A t, u \in Threads : thread[t].event \in E /\ thread[u].event \in E => t = u
    /\ \A k \in 1..Len(tasks), t \in Threads : ~(tasks[k] \in E /\ thread[t].event \in E)

Stays(E) == (Single(E) => Single(E)') /\ (Pending(E)' => Pending(E))

LEMMA HandlingStays ==
    ASSUME NEW t \in Threads, tasks' = tasks, \A u \in Threads : u # t => thread'[u] = thread[u],
           NEW E, thread'[t].event \in E => thread[t].event \in E
    PROVE  Stays(E)
  <1>1. \A u \in Threads : thread'[u].event \in E => thread[u].event \in E
    OBVIOUS
  <1> QED BY <1>1 DEF Stays, Single, Pending

\* The one event of E is handled.
LEMMA HandledLast ==
    ASSUME NEW t \in Threads, tasks' = tasks, \A u \in Threads : u # t => thread'[u] = thread[u],
           NEW E, Single(E), thread[t].event \in E, thread'[t].event \notin E
    PROVE  Single(E)' /\ ~Pending(E)'
  <1>1. \A u \in Threads : thread'[u].event \notin E
    BY DEF Single
  <1>2. \A k \in 1..Len(tasks) : tasks[k] \notin E
    BY DEF Single
  <1> QED BY <1>1, <1>2 DEF Single, Pending

LEMMA TakingStays ==
    ASSUME TypeInv, NEW t \in Threads, tasks # <<>>, tasks' = Tail(tasks),
           \A u \in Threads : u # t => thread'[u] = thread[u],
           thread'[t].event = Head(tasks), NEW E, thread[t].event \notin E
    PROVE  Stays(E)
  <1>1. tasks \in Seq(Event)
    BY DEF TypeInv, TaskPart
  <1>2. Len(tasks) \in Nat \ {0} /\ Head(tasks) = tasks[1]
    BY <1>1, EmptySeq, LenProperties, HeadTailProperties
  <1>3. Len(tasks') = Len(tasks) - 1 /\ \A k \in 1..Len(tasks') : tasks'[k] = tasks[k + 1]
    BY <1>1, <1>2, HeadTailProperties
  <1>4. \A k \in 1..Len(tasks') : k + 1 \in 1..Len(tasks) /\ k + 1 # 1
    BY <1>2, <1>3
  <1>5. 1 \in 1..Len(tasks)
    BY <1>2
  <1>6. Pending(E)' => Pending(E)
    BY <1>2, <1>3, <1>4, <1>5 DEF Pending
  <1>7. ASSUME Single(E) PROVE Single(E)'
    <2>1. \A k, l \in 1..Len(tasks') : tasks'[k] \in E /\ tasks'[l] \in E => k = l
      <3>1. ASSUME NEW k \in 1..Len(tasks'), NEW l \in 1..Len(tasks'), tasks'[k] \in E, tasks'[l] \in E
            PROVE  k = l
        <4>1. k + 1 = l + 1
          BY <1>3, <1>4, <1>7, <3>1 DEF Single
        <4> QED BY <4>1
      <3> QED BY <3>1
    <2>2. \A u, v \in Threads : thread'[u].event \in E /\ thread'[v].event \in E => u = v
      BY <1>2, <1>5, <1>7 DEF Single
    <2>3. \A k \in 1..Len(tasks'), u \in Threads : ~(tasks'[k] \in E /\ thread'[u].event \in E)
      BY <1>2, <1>3, <1>4, <1>5, <1>7 DEF Single
    <2> QED BY <2>1, <2>2, <2>3 DEF Single
  <1> QED BY <1>6, <1>7 DEF Stays

\* What the server posts besides.
Posts(E) == \A k \in 1..Len(tasks') :
                (k \in 1..Len(tasks) /\ tasks'[k] = tasks[k]) \/ tasks'[k] \notin E

LEMMA PostingStays ==
    ASSUME thread' = thread, NEW E, Posts(E)
    PROVE  Stays(E)
  BY DEF Stays, Posts, Single, Pending

LEMMA AppendPosts ==
    ASSUME TypeInv, NEW e \in Event, tasks' = (IF link THEN Append(tasks, e) ELSE tasks)
    PROVE  /\ \A k \in 1..Len(tasks') :
                 (k \in 1..Len(tasks) /\ tasks'[k] = tasks[k]) \/ (k = Len(tasks') /\ tasks'[k] = e)
           /\ Len(tasks') \in Nat
  <1>1. tasks \in Seq(Event) /\ Len(tasks) \in Nat
    BY LenProperties DEF TypeInv, TaskPart
  <1>2. CASE tasks' = tasks
    BY <1>1, <1>2
  <1>3. CASE tasks' = Append(tasks, e)
    <2>1. /\ Len(tasks') = Len(tasks) + 1 /\ tasks'[Len(tasks) + 1] = e
          /\ \A k \in 1..Len(tasks) : tasks'[k] = tasks[k]
      BY <1>1, <1>3, AppendProperties
    <2>2. \A k \in 1..Len(tasks') : k \in 1..Len(tasks) \/ k = Len(tasks')
      BY <1>1, <2>1
    <2> QED BY <1>1, <2>1, <2>2
  <1> QED BY <1>2, <1>3

\* The first event of E is told.
LEMMA FirstTold ==
    ASSUME TypeInv, NEW e \in Event, tasks' = (IF link THEN Append(tasks, e) ELSE tasks),
           thread' = thread, NEW E, ~Pending(E)
    PROVE  Single(E)'
  <1>1. \A k \in 1..Len(tasks') : tasks'[k] \in E => k = Len(tasks')
    BY AppendPosts DEF Pending
  <1>2. \A t \in Threads : thread'[t].event \notin E
    BY DEF Pending
  <1> QED BY <1>1, <1>2 DEF Single

Departures == {e \in Event : e.kind = "GUILD_DELETE"}
Deletions(c) == {e \in Event : e.kind = "CHANNEL_DELETE" /\ e.channel = c}

\* The bot leaves one guild, so stale_guilds has room for its object when the event
\* comes; an id of a channel is deleted once, so stale_channels has.
LeftOnce ==
    /\ Single(Departures)
    /\ Pending(Departures) => \A g \in Guilds : staleGuilds[g] = 0
    /\ Pending(Departures) \/ (\E g \in Guilds : staleGuilds[g] # 0) => kicks # 0

ErasedOnce == \A c \in Channels :
    /\ Single(Deletions(c))
    /\ Pending(Deletions(c)) => staleChannels[c] = 0
    /\ Pending(Deletions(c)) \/ staleChannels[c] # 0 =>
           c \in gone /\ c \notin server[GuildOf[c]].channels

LEMMA NeverIdle == NoEvent \notin Departures /\ \A c : NoEvent \notin Deletions(c)
  BY DEF NoEvent, Departures, Deletions

\* What a thread handles after a step, if it does not take a task.
LEMMA EventAfter ==
    ASSUME TypeInv, NEW t \in Threads, Run(t), ~Take(t)
    PROVE  /\ tasks' = tasks
           /\ \/ thread'[t] = Idle
              \/ thread'[t].event = thread[t].event
              \/ thread[t].event.kind \in LoadKinds /\ thread'[t].event.kind = thread[t].event.kind
  <1>1. thread[t] \in ThreadState /\ thread \in [Threads -> ThreadState]
    BY ThreadAt
  <1>2. Return(t) => thread'[t] = Idle
    BY <1>1 DEF Return
  <1>3. \A s : Goto(t, s) => thread'[t].event = thread[t].event
    BY <1>1 DEF Goto, ThreadState
  <1>4. \A S : [thread EXCEPT ![t].todo = S][t].event = thread[t].event
    BY <1>1 DEF ThreadState
  <1>5. CASE NextChannel(t)
    <2>1. PICK c : \E n, S : thread' = [thread EXCEPT ![t] = [@ EXCEPT
               !.step = "loadChannel", !.event.channel = c, !.channel = n, !.todo = S]]
      BY <1>5 DEF NextChannel
    <2>2. thread'[t].event.kind = thread[t].event.kind
      BY <1>1, <2>1, ThreadAt DEF ThreadState, Event
    <2>3. thread[t].event.kind \in LoadKinds /\ tasks' = tasks
      BY <1>5, ThreadAt, KindsAt DEF NextChannel, At
    <2> QED BY <2>2, <2>3
  <1>6. CASE Ready(t) \/ Loaded(t) \/ RemoveGuild(t) \/ Link(t) \/ Update(t) \/ Erase(t)
             \/ RemoveMember(t) \/ JoinUser(t) \/ LoadRole(t) \/ RemoveRole(t)
    BY <1>2, <1>6 DEF Ready, Loaded, RemoveGuild, Link, Update, Erase, RemoveMember, JoinUser,
       LoadRole, RemoveRole
  <1>7. CASE Load(t) \/ LoadChannel(t) \/ Mark(t) \/ LockChannel(t) \/ Add(t)
    BY <1>3, <1>7 DEF Load, LoadChannel, Mark, LockChannel, Add
  <1>8. CASE Find(t) \/ CreateChannel(t) \/ FindChannel(t) \/ LockGuilds(t) \/ Message(t)
    <2>1. tasks' = tasks
      BY <1>8 DEF Find, CreateChannel, FindChannel, LockGuilds, Message
    <2>2. PICK s, n : \/ Return(t)
                       \/ thread' = [thread EXCEPT ![t].step = s, ![t].guild = n]
                     \/ thread' = [thread EXCEPT ![t].step = s, ![t].channel = n]
      <3>1. CASE Find(t)
        BY <3>1 DEF Find
      <3>2. CASE CreateChannel(t)
        BY <3>2 DEF CreateChannel
      <3>3. CASE FindChannel(t)
        BY <3>3 DEF FindChannel
      <3>4. CASE LockGuilds(t)
        BY <3>4 DEF LockGuilds
      <3>5. CASE Message(t)
        BY <3>5 DEF Message
      <3> QED BY <1>8, <3>1, <3>2, <3>3, <3>4, <3>5
    <2>3. thread'[t] = Idle \/ thread'[t].event = thread[t].event
      <3>1. CASE thread' = [thread EXCEPT ![t].step = s, ![t].guild = n]
        BY <1>1, <3>1 DEF ThreadState
      <3>2. CASE thread' = [thread EXCEPT ![t].step = s, ![t].channel = n]
        BY <1>1, <3>2 DEF ThreadState
      <3> QED BY <1>2, <2>2, <3>1, <3>2
    <2> QED BY <2>1, <2>3
  <1>9. CASE Join(t)
    BY <1>2, <1>4, <1>9 DEF Join
  <1>10. CASE Create(t)
    <2>1. \A n : [thread EXCEPT ![t] = [@ EXCEPT !.step = "load", !.guild = n]][t].event = thread[t].event
      BY <1>1 DEF ThreadState
    <2>2. [thread EXCEPT ![t] = Idle][t] = Idle
      BY <1>1
    <2> QED BY <1>1, <1>10 DEF Create, ThreadState
  <1> QED BY <1>5, <1>6, <1>7, <1>8, <1>9, <1>10 DEF Run

LEMMA RunStays ==
    ASSUME TypeInv, NEW t \in Threads, Run(t)
    PROVE  Stays(Departures) /\ \A c \in Channels : Stays(Deletions(c))
  <1>1. \A u \in Threads : u # t => thread'[u] = thread[u]
    BY OthersWait
  <1>2. CASE Take(t)
    <2>1. PICK r : Steps(t, r) /\ r.event = Head(tasks)
      BY <1>2, TakeType
    <2>2. thread'[t].event = Head(tasks)
      BY <2>1, ThreadKept DEF Steps
    <2>3. tasks # <<>> /\ tasks' = Tail(tasks) /\ thread[t].step = "idle"
      BY <1>2 DEF Take, At
    <2>4. thread[t].event = NoEvent
      BY <2>3, ThreadAt, IdleType DEF Equipped
    <2> QED BY <1>1, <2>2, <2>3, <2>4, NeverIdle, TakingStays
  <1>3. CASE ~Take(t)
    <2>1. Idle.event = NoEvent
      BY IdleType
    <2>2. ASSUME NEW E, E \in {Departures} \cup {Deletions(c) : c \in Channels}
          PROVE  thread'[t].event \in E => thread[t].event \in E
      <3>1. \A e \in E : e.kind \notin LoadKinds
        BY <2>2 DEF Departures, Deletions, LoadKinds
      <3>2. NoEvent \notin E
        BY <2>2, NeverIdle
      <3> QED BY <1>3, <2>1, <3>1, <3>2, EventAfter
    <2>3. tasks' = tasks
      BY <1>3, EventAfter
    <2>4. ASSUME NEW E, E \in {Departures} \cup {Deletions(c) : c \in Channels} PROVE Stays(E)
      BY <1>1, <2>2, <2>3, <2>4, HandlingStays
    <2> QED BY <2>4
  <1> QED BY <1>2, <1>3

LEMMA LeftOnceKept ==
    ASSUME LeftOnce, Stays(Departures), staleGuilds' = staleGuilds, kicks' = kicks
    PROVE  LeftOnce'
  BY DEF LeftOnce, Stays

LEMMA ErasedOnceKept ==
    ASSUME ErasedOnce, NEW d, \A c \in Channels : c # d => Stays(Deletions(c)),
           d \in Channels => Stays(Deletions(d)),
           staleChannels' = staleChannels, gone \subseteq gone',
           \A c \in Channels :
               c \in server'[GuildOf[c]].channels => c \in server[GuildOf[c]].channels \/ c \notin gone
    PROVE  ErasedOnce'
  <1>1. ASSUME NEW c \in Channels
        PROVE  /\ Single(Deletions(c))' /\ (Pending(Deletions(c))' => staleChannels'[c] = 0)
               /\ Pending(Deletions(c))' \/ staleChannels'[c] # 0 =>
                      c \in gone' /\ c \notin server'[GuildOf[c]].channels
    BY DEF ErasedOnce, Stays
  <1> QED BY <1>1 DEF ErasedOnce, Single, Pending, Deletions

\* The departure is handled: the object is stale_guilds' first.
LEMMA RemoveGuildOnce ==
    ASSUME TypeInv, LeftOnce, NEW t \in Threads, RemoveGuild(t)
    PROVE  LeftOnce' /\ \A g \in Guilds : staleGuilds[g] = 0
  <1>1. thread[t].step = "remove" /\ Return(t) /\ tasks' = tasks /\ kicks' = kicks
    BY DEF RemoveGuild, At, serverVars
  <1>2. thread[t].event \in Departures
    BY <1>1, ThreadAt, KindsAt DEF Departures
  <1>3. Pending(Departures) /\ Single(Departures)
    BY <1>2 DEF Pending, LeftOnce
  <1>4. thread'[t].event \notin Departures
    BY <1>1, ReturnsHome, ThreadKept, IdleType, NeverIdle DEF Steps
  <1>5. Single(Departures)' /\ ~Pending(Departures)'
    BY <1>1, <1>2, <1>3, <1>4, OthersWait, HandledLast DEF Run
  <1> QED BY <1>1, <1>3, <1>5 DEF LeftOnce

LEMMA EraseOnce ==
    ASSUME TypeInv, ErasedOnce, NEW t \in Threads, Erase(t)
    PROVE  ErasedOnce' /\ staleChannels[thread[t].event.channel] = 0
  <1> PICK d : d = thread[t].event.channel
    OBVIOUS
  <1>1. /\ thread[t].step = "erase" /\ Return(t) /\ tasks' = tasks
        /\ gone' = gone /\ server' = server
        /\ staleChannels' = Emplace(staleChannels, d, ChannelPtr(d))
    BY DEF Erase, At, serverVars
  <1>2. thread[t].event \in Deletions(d) /\ d \in Channels
    BY <1>1, ThreadAt, KindsAt, NoLoad DEF Deletions, ChannelKinds
  <1>3. Pending(Deletions(d)) /\ Single(Deletions(d)) /\ staleChannels[d] = 0
        /\ d \in gone /\ d \notin server[GuildOf[d]].channels
    BY <1>2 DEF Pending, ErasedOnce
  <1>4. thread'[t].event = NoEvent
    BY <1>1, ReturnsHome, ThreadKept, IdleType DEF Steps
  <1>5. Single(Deletions(d))' /\ ~Pending(Deletions(d))'
    BY <1>1, <1>2, <1>3, <1>4, NeverIdle, OthersWait, HandledLast DEF Run
  <1>6. \A c \in Channels : c # d => staleChannels'[c] = staleChannels[c]
    BY <1>1 DEF Emplace, TypeInv, ChannelPart
  <1>7. \A c \in Channels : Stays(Deletions(c))
    BY RunStays DEF Run
  <1>8. ASSUME NEW c \in Channels
        PROVE  /\ Single(Deletions(c))' /\ (Pending(Deletions(c))' => staleChannels'[c] = 0)
               /\ Pending(Deletions(c))' \/ staleChannels'[c] # 0 =>
                      c \in gone' /\ c \notin server'[GuildOf[c]].channels
    <2>1. CASE c = d
      BY <1>1, <1>3, <1>5, <2>1
    <2>2. CASE c # d
      BY <1>1, <1>6, <1>7, <2>2 DEF ErasedOnce, Stays
    <2> QED BY <2>1, <2>2
  <1> QED BY <1>3, <1>8 DEF ErasedOnce, Single, Pending, Deletions

-----------------------------------------------------------------------------
(* Objects stay owned.                                                     *)

LEMMA SameLast ==
    /\ UNCHANGED guildVars => GuildsLast
    /\ UNCHANGED channelVars => ChannelsLast
  BY DEF guildVars, channelVars, GuildsLast, ChannelsLast, GuildAlive, ChannelAlive, GuildPtr,
     ChannelPtr

LEMMA MakeGuildsLast ==
    ASSUME TypeInv, NEW G \in SUBSET Guilds, MakeGuilds(G)
    PROVE  GuildsLast
  <1>1. guilds' = guilds \cup G /\ staleGuilds' = staleGuilds
    BY DEF MakeGuilds
  <1>2. ASSUME NEW g \in Guilds, NEW n, GuildAlive(g, n)
        PROVE  GuildAlive(g, n)'
    <2>1. CASE n = staleGuilds[g]
      BY <1>1, <1>2, <2>1 DEF GuildAlive
    <2>2. CASE n = GuildPtr(g)
      <3>1. g \in guilds
        BY <1>2, <2>2 DEF GuildAlive, GuildPtr
      <3>2. guildObj'[g] = guildObj[g]
        BY <3>1, MakeGuildsType
      <3> QED BY <1>1, <1>2, <2>2, <3>1, <3>2 DEF GuildAlive, GuildPtr
    <2> QED BY <1>2, <2>1, <2>2 DEF GuildAlive
  <1> QED BY <1>2 DEF GuildsLast

LEMMA SetObjLast ==
    ASSUME TypeInv, NEW t \in Threads, thread[t].guild # 0,
           Uses(t) \/ thread[t].step = "removeMember",
           NEW obj \in GuildObject, SetObj(t, obj)
    PROVE  GuildsLast
  <1>1. guilds' = guilds /\ staleGuilds' = staleGuilds
        /\ \A g \in Guilds : Len(guildObj'[g]) = Len(guildObj[g])
    BY SetObjType
  <1> QED BY <1>1 DEF GuildsLast, GuildAlive, GuildPtr

\* stale_guilds takes the object of the map, as it has none.
LEMMA RemoveGuildLast ==
    ASSUME TypeInv, NEW t \in Threads, RemoveGuild(t), \A g \in Guilds : staleGuilds[g] = 0
    PROVE  GuildsLast
  <1> PICK h : h = thread[t].event.guild
    OBVIOUS
  <1>1. guilds' = guilds \ {h} /\ staleGuilds' = Emplace(staleGuilds, h, GuildPtr(h))
        /\ guildObj' = guildObj
    BY DEF RemoveGuild
  <1>2. h \in Guilds
    BY ThreadAt, KindsAt, NoLoad DEF RemoveGuild, At
  <1>3. staleGuilds' = [staleGuilds EXCEPT ![h] = GuildPtr(h)] /\ staleGuilds \in [Guilds -> Nat]
    BY <1>1, <1>2 DEF Emplace, TypeInv, GuildPart
  <1>4. ASSUME NEW g \in Guilds, NEW n, GuildAlive(g, n)
        PROVE  GuildAlive(g, n)'
    <2>1. n = GuildPtr(g) /\ n # 0
      BY <1>4 DEF GuildAlive
    <2>2. CASE g = h
      BY <1>2, <1>3, <2>1, <2>2 DEF GuildAlive
    <2>3. CASE g # h
      BY <1>1, <2>1, <2>3 DEF GuildAlive, GuildPtr
    <2> QED BY <2>2, <2>3
  <1> QED BY <1>4 DEF GuildsLast

LEMMA MakeChannelLast ==
    ASSUME TypeInv, NEW c \in Channels, MakeChannel(c)
    PROVE  /\ ChannelsLast
           /\ ChannelAlive(c, Len(channelObj[c]))'
           /\ \A d \in Channels : \A i \in 1..Len(channelObj'[d]) :
                  \/ channelObj'[d][i].guild = 0
                  \/ i \in 1..Len(channelObj[d]) /\ channelObj'[d][i].guild = channelObj[d][i].guild
  <1>1. channels' = channels \cup {c} /\ staleChannels' = staleChannels
    BY MakeChannelType
  <1>2. ASSUME NEW d \in Channels, NEW n, ChannelAlive(d, n)
        PROVE  ChannelAlive(d, n)'
    <2>1. CASE n = staleChannels[d]
      BY <1>1, <1>2, <2>1 DEF ChannelAlive
    <2>2. CASE n = ChannelPtr(d)
      <3>1. d \in channels
        BY <1>2, <2>2 DEF ChannelAlive, ChannelPtr
      <3>2. channelObj'[d] = channelObj[d]
        BY <3>1, MakeChannelType
      <3> QED BY <1>1, <1>2, <2>2, <3>1, <3>2 DEF ChannelAlive, ChannelPtr
    <2> QED BY <1>2, <2>1, <2>2 DEF ChannelAlive
  <1>3. ChannelAlive(c, Len(channelObj[c]))'
    <2>1. c \in channels' /\ Len(channelObj'[c]) # 0
      BY <1>1, MakeChannelType
    <2> QED BY <2>1 DEF ChannelAlive, ChannelPtr
  <1>4. ASSUME NEW d \in Channels, NEW i \in 1..Len(channelObj'[d])
        PROVE  \/ channelObj'[d][i].guild = 0
               \/ i \in 1..Len(channelObj[d]) /\ channelObj'[d][i].guild = channelObj[d][i].guild
    <2>1. CASE channelObj'[d] = channelObj[d]
      BY <1>4, <2>1
    <2>2. CASE channelObj'[d] # channelObj[d]
      <3>1. channelObj'[d] = Append(channelObj[d], NewChannel) /\ channelObj[d] \in Seq(ChannelObject)
        BY <2>2, MakeChannelType DEF TypeInv, ChannelPart
      <3>2. /\ Len(channelObj[d]) \in Nat /\ Len(channelObj'[d]) = Len(channelObj[d]) + 1
            /\ channelObj'[d][Len(channelObj[d]) + 1] = NewChannel
            /\ \A k \in 1..Len(channelObj[d]) : channelObj'[d][k] = channelObj[d][k]
        BY <3>1, AppendProperties, LenProperties
      <3>3. CASE i \in 1..Len(channelObj[d])
        BY <3>2, <3>3
      <3>4. CASE i \notin 1..Len(channelObj[d])
        <4>1. i = Len(channelObj[d]) + 1
          BY <1>4, <3>2, <3>4
        <4> QED BY <3>2, <4>1 DEF NewChannel
      <3> QED BY <3>3, <3>4
    <2> QED BY <2>1, <2>2
  <1> QED BY <1>2, <1>3, <1>4 DEF ChannelsLast

\* A handler writes to the object of its channel.
LEMMA SetChanLast ==
    ASSUME TypeInv, NEW t \in Threads, thread[t].channel # 0, Uses(t),
           NEW chan \in ChannelObject,
           channelObj' = [channelObj EXCEPT ![thread[t].event.channel][thread[t].channel] = chan],
           chan.guild \in {Chan(t).guild, thread[t].guild}
    PROVE  /\ channels' = channels /\ staleChannels' = staleChannels => ChannelsLast
           /\ \A c \in Channels : \A i \in 1..Len(channelObj'[c]) :
                  \/ channelObj'[c][i].guild = 0
                  \/ i \in 1..Len(channelObj[c]) /\ channelObj'[c][i].guild = channelObj[c][i].guild
                  \/ /\ thread[t].guild # 0 /\ thread[t].event.guild = GuildOf[c]
                     /\ channelObj'[c][i].guild = thread[t].guild
  <1>1. /\ channelObj'[thread[t].event.channel][thread[t].channel] = chan
        /\ \A c \in Channels :
              /\ Len(channelObj'[c]) = Len(channelObj[c])
              /\ \A i \in 1..Len(channelObj[c]) :
                    c # thread[t].event.channel \/ i # thread[t].channel
                        => channelObj'[c][i] = channelObj[c][i]
    BY SetChanType
  <1>2. channels' = channels /\ staleChannels' = staleChannels => ChannelsLast
    BY <1>1 DEF ChannelsLast, ChannelAlive, ChannelPtr
  <1>3. ASSUME NEW c \in Channels, NEW i \in 1..Len(channelObj'[c])
        PROVE  \/ channelObj'[c][i].guild = 0
               \/ i \in 1..Len(channelObj[c]) /\ channelObj'[c][i].guild = channelObj[c][i].guild
               \/ /\ thread[t].guild # 0 /\ thread[t].event.guild = GuildOf[c]
                  /\ channelObj'[c][i].guild = thread[t].guild
    <2>1. i \in 1..Len(channelObj[c])
      BY <1>1, <1>3
    <2>2. CASE c = thread[t].event.channel /\ i = thread[t].channel
      <3>1. GuildOf[c] = thread[t].event.guild
        BY <2>2, ChannelOf
      <3>2. channelObj[c][i] = Chan(t) /\ channelObj'[c][i] = chan
        BY <1>1, <2>2 DEF Chan
      <3> QED BY <2>1, <3>1, <3>2
    <2>3. CASE ~(c = thread[t].event.channel /\ i = thread[t].channel)
      BY <1>1, <2>1, <2>3
    <2> QED BY <2>2, <2>3
  <1> QED BY <1>2, <1>3

-----------------------------------------------------------------------------
(* The pointers of each handler.                                           *)

LEMMA Objectless ==
    ASSUME channelObj' = channelObj, NEW t
    PROVE  \A c \in Channels : \A i \in 1..Len(channelObj'[c]) :
               \/ channelObj'[c][i].guild = 0
               \/ i \in 1..Len(channelObj[c]) /\ channelObj'[c][i].guild = channelObj[c][i].guild
               \/ /\ thread[t].guild # 0 /\ thread[t].event.guild = GuildOf[c]
                  /\ channelObj'[c][i].guild = thread[t].guild
  OBVIOUS

\* A thread that is done uses nothing.
LEMMA HomeUses ==
    ASSUME TypeInv, NEW t \in Threads, Return(t)
    PROVE  Uses(t)'
  <1>1. thread'[t] = Idle /\ Idle.guild = 0 /\ Idle.channel = 0
    BY ReturnsHome, ThreadKept DEF Steps, Idle
  <1> QED BY <1>1 DEF Uses

\* A thread that goes on with what it has uses what is still there.
LEMMA SameUses ==
    ASSUME TypeInv, NEW t \in Threads, Uses(t), GuildsLast, ChannelsLast,
           thread'[t].event = thread[t].event, thread'[t].guild = thread[t].guild,
           thread'[t].channel = thread[t].channel
    PROVE  Uses(t)'
  <1>1. /\ thread[t].guild # 0 => thread[t].event.guild \in Guilds
        /\ thread[t].channel # 0 => thread[t].event.channel \in Channels
    BY ThreadAt DEF Equipped
  <1> QED BY <1>1 DEF Uses, GuildsLast, ChannelsLast

\* A thread that finds a guild, or a channel, uses it too.
LEMMA GuildUses ==
    ASSUME TypeInv, NEW t \in Threads, Uses(t), ChannelsLast,
           thread'[t].event = thread[t].event, thread'[t].channel = thread[t].channel,
           thread'[t].guild # 0 => GuildAlive(thread[t].event.guild, thread[t].guild)'
    PROVE  Uses(t)'
  <1>1. thread[t].channel # 0 => thread[t].event.channel \in Channels
    BY ThreadAt DEF Equipped
  <1> QED BY <1>1 DEF Uses, ChannelsLast

LEMMA ChannelUses ==
    ASSUME TypeInv, NEW t \in Threads, Uses(t), GuildsLast,
           thread'[t].event.guild = thread[t].event.guild, thread'[t].guild = thread[t].guild,
           ChannelAlive(thread[t].event.channel, thread[t].channel)'
    PROVE  Uses(t)'
  <1>1. thread[t].guild # 0 => thread[t].event.guild \in Guilds
    BY ThreadAt DEF Equipped
  <1> QED BY <1>1 DEF Uses, GuildsLast

LEMMA Gone ==
    ASSUME TypeInv, NEW t \in Threads, NEW s, Goto(t, s)
    PROVE  /\ thread'[t].event = thread[t].event /\ thread'[t].guild = thread[t].guild
           /\ thread'[t].channel = thread[t].channel
  BY ThreadAt DEF Goto, ThreadState

LEMMA TakePointers ==
    ASSUME TypeInv, PointerInv, NEW t \in Threads, Take(t)
    PROVE  PointerInv'
  <1>1. PICK r : Steps(t, r) /\ r.guild = 0 /\ r.channel = 0
    BY TakeType
  <1>2. Uses(t)'
    BY <1>1, ThreadKept DEF Steps, Uses
  <1>3. UNCHANGED <<guildVars, channelVars>>
    BY DEF Take
  <1>4. channelObj' = channelObj
    BY <1>3 DEF channelVars
  <1> QED BY <1>2, <1>3, <1>4, SameLast, Objectless, PointersKept DEF Run

LEMMA MakerPointers ==
    ASSUME TypeInv, PointerInv, NEW t \in Threads, Ready(t) \/ Create(t)
    PROVE  PointerInv'
  <1>1. UNCHANGED channelVars /\ channelObj' = channelObj /\ Uses(t)
    BY DEF Ready, Create, channelVars, PointerInv
  <1>2. CASE Ready(t)
    <2>1. thread[t].event.all \in SUBSET Guilds
      BY ThreadAt DEF Event
    <2>2. GuildsLast /\ Uses(t)'
      BY <1>2, <2>1, MakeGuildsLast, HomeUses DEF Ready
    <2> QED BY <1>1, <1>2, <2>2, SameLast, Objectless, PointersKept DEF Run
  <1>3. CASE Create(t)
    <2> PICK g : g = thread[t].event.guild
      OBVIOUS
    <2>1. g \in Guilds
      BY <1>3, ThreadAt, KindsAt, NoLoad DEF Create, At
    <2>2. MakeGuilds({g}) /\ GuildsLast /\ ChannelsLast
      BY <1>1, <1>3, <2>1, MakeGuildsLast, SameLast DEF Create
    <2>3. thread'[t] = Idle \/ /\ thread'[t].event = thread[t].event
                               /\ thread'[t].channel = thread[t].channel
                               /\ thread'[t].guild = Len(guildObj'[g])
      <3>1. thread' = [thread EXCEPT ![t] =
               IF thread[t].event.kind = "GUILD_CREATE"
               THEN [@ EXCEPT !.step = "load", !.guild = Len(guildObj'[g])] ELSE Idle]
        BY <1>3 DEF Create
      <3>2. thread[t] \in ThreadState /\ thread \in [Threads -> ThreadState]
        BY ThreadAt
      <3> QED BY <3>1, <3>2 DEF ThreadState
    <2>4. CASE thread'[t] = Idle
      <3>1. Uses(t)'
        BY <2>4 DEF Uses, Idle
      <3> QED BY <1>1, <1>3, <2>2, <3>1, Objectless, PointersKept DEF Run
    <2>5. CASE /\ thread'[t].event = thread[t].event /\ thread'[t].channel = thread[t].channel
               /\ thread'[t].guild = Len(guildObj'[g])
      <3>1. g \in guilds'
        BY <2>2 DEF MakeGuilds
      <3>2. thread'[t].guild # 0 => GuildAlive(thread[t].event.guild, thread[t].guild)'
        BY <2>5, <3>1 DEF GuildAlive, GuildPtr
      <3>3. Uses(t)'
        BY <1>1, <2>2, <2>5, <3>2, GuildUses
      <3> QED BY <1>1, <1>3, <2>2, <3>3, Objectless, PointersKept DEF Run
    <2> QED BY <2>3, <2>4, <2>5
  <1> QED BY <1>2, <1>3

LEMMA FinderPointers ==
    ASSUME TypeInv, PointerInv, NEW t \in Threads,
           Find(t) \/ LockGuilds(t) \/ FindChannel(t) \/ Mark(t) \/ JoinUser(t)
    PROVE  PointerInv'
  <1>1. UNCHANGED <<guildVars, channelVars>>
    BY DEF Find, LockGuilds, FindChannel, Mark, JoinUser
  <1>2. channelObj' = channelObj /\ GuildsLast /\ ChannelsLast
    BY <1>1, SameLast DEF channelVars
  <1>3. Uses(t)
    BY DEF PointerInv
  <1> PICK g, c : g = thread[t].event.guild /\ c = thread[t].event.channel
    OBVIOUS
  <1>4. PICK s, n, m :
          \/ Return(t) \/ Goto(t, s)
          \/ n = GuildPtr(g) /\ thread' = [thread EXCEPT ![t].step = s, ![t].guild = n]
          \/ m = ChannelPtr(c) /\ m # 0 /\ thread' = [thread EXCEPT ![t].step = s, ![t].channel = m]
    <2>1. CASE Find(t)
      BY <2>1 DEF Find
    <2>2. CASE LockGuilds(t)
      BY <2>2 DEF LockGuilds
    <2>3. CASE FindChannel(t)
      BY <2>3 DEF FindChannel
    <2>4. CASE Mark(t) \/ JoinUser(t)
      BY <2>4 DEF Mark, JoinUser
    <2> QED BY <2>1, <2>2, <2>3, <2>4
  <1>5. Uses(t)'
    <2>1. CASE Return(t)
      BY <2>1, HomeUses
    <2>2. CASE Goto(t, s)
      BY <1>2, <1>3, <2>2, Gone, SameUses
    <2>3. CASE n = GuildPtr(g) /\ thread' = [thread EXCEPT ![t].step = s, ![t].guild = n]
      <3>1. /\ thread'[t].event = thread[t].event /\ thread'[t].guild = n
            /\ thread'[t].channel = thread[t].channel
        BY <2>3, ThreadAt DEF ThreadState
      <3>2. n # 0 => GuildAlive(g, n)'
        BY <1>1, <2>3 DEF GuildAlive, GuildPtr, guildVars
      <3>3. thread'[t].guild # 0 => GuildAlive(thread[t].event.guild, thread[t].guild)'
        BY <3>1, <3>2 DEF GuildAlive
      <3> QED BY <1>2, <1>3, <3>1, <3>3, GuildUses
    <2>4. CASE m = ChannelPtr(c) /\ m # 0 /\ thread' = [thread EXCEPT ![t].step = s, ![t].channel = m]
      <3>1. /\ thread'[t].event = thread[t].event /\ thread'[t].channel = m
            /\ thread'[t].guild = thread[t].guild
        BY <2>4, ThreadAt DEF ThreadState
      <3>2. ChannelAlive(c, m)'
        BY <1>1, <2>4 DEF ChannelAlive, ChannelPtr, channelVars
      <3>3. ChannelAlive(thread[t].event.channel, thread[t].channel)'
        BY <3>1, <3>2 DEF ChannelAlive
      <3> QED BY <1>2, <1>3, <3>1, <3>3, ChannelUses
    <2> QED BY <1>4, <2>1, <2>2, <2>3, <2>4
  <1> QED BY <1>2, <1>5, Objectless, PointersKept DEF Run

\* Handlers that write to the object of their guild only.
LEMMA GuildWriterPointers ==
    ASSUME TypeInv, PointerInv, NEW t \in Threads, Run(t), thread[t].guild # 0,
           NEW obj \in GuildObject, SetObj(t, obj), UNCHANGED channelVars,
           \/ Return(t)
           \/ /\ thread'[t].event = thread[t].event /\ thread'[t].guild = thread[t].guild
              /\ thread'[t].channel = thread[t].channel
    PROVE  PointerInv'
  <1>1. Uses(t)
    BY DEF PointerInv
  <1>2. GuildsLast /\ ChannelsLast /\ channelObj' = channelObj
    BY <1>1, SetObjLast, SameLast DEF channelVars
  <1>3. Uses(t)'
    BY <1>1, <1>2, HomeUses, SameUses
  <1> QED BY <1>2, <1>3, Objectless, PointersKept

LEMMA LoadPointers ==
    ASSUME TypeInv, PointerInv, NEW t \in Threads, Load(t)
    PROVE  PointerInv'
  <1> DEFINE e == thread[t].event
             obj == [Obj(t) EXCEPT !.roles = @ \cup e.load.roles,
                                   !.members = @ \cup Listed(e), !.holder = t]
  <1>1. /\ thread[t].step = "load" /\ Uses(t) /\ SetObj(t, obj) /\ Goto(t, "loadChannels")
        /\ UNCHANGED channelVars
    BY DEF Load, At
  <1>2. thread[t].guild # 0 /\ e.load \in ServerGuild
    BY <1>1, HasGuild, ThreadAt DEF GuildSteps
  <1>3. obj \in GuildObject
    BY <1>1, <1>2, GuildInHand DEF GuildObject, ServerGuild, Listed, Holder
  <1> HIDE DEF obj
  <1> QED BY <1>1, <1>2, <1>3, Gone, GuildWriterPointers DEF Run

LEMMA MemberPointers ==
    ASSUME TypeInv, PointerInv, NEW t \in Threads, RemoveMember(t) \/ Join(t) \/ Add(t)
    PROVE  PointerInv'
  <1> DEFINE left == [Obj(t) EXCEPT !.members = @ \ {thread[t].event.user}]
             came(u) == [Obj(t) EXCEPT !.members = @ \cup {u}]
  <1>1. thread[t].step \in {"removeMember", "join", "add"} /\ UNCHANGED channelVars /\ Uses(t)
    BY DEF RemoveMember, Join, Add, At, PointerInv
  <1>2. thread[t].guild # 0
    BY <1>1, HasGuild DEF GuildSteps
  <1>3. Obj(t) \in GuildObject
    BY <1>1, <1>2, GuildInHand
  <1>4. left \in GuildObject /\ \A u \in Users : came(u) \in GuildObject
    BY <1>3 DEF GuildObject
  <1>5. CASE RemoveMember(t)
    <2>1. SetObj(t, left) /\ Return(t)
      BY <1>5 DEF RemoveMember
    <2> HIDE DEF left
    <2> QED BY <1>1, <1>2, <1>4, <1>5, <2>1, GuildWriterPointers DEF Run
  <1>6. CASE Add(t)
    <2>1. thread[t].event.user \in Users
      BY <1>6, ThreadAt, KindsAt, NoLoad DEF Add, At, MessageKinds, UserKinds
    <2>2. SetObj(t, came(thread[t].event.user)) /\ Goto(t, "joinUser")
      BY <1>6 DEF Add
    <2> HIDE DEF came
    <2> QED BY <1>1, <1>2, <1>4, <1>6, <2>1, <2>2, Gone, GuildWriterPointers DEF Run
  <1>7. CASE Join(t)
    <2>1. PICK u \in thread[t].todo :
            SetObj(t, came(u)) /\ (Return(t) \/ thread' = [thread EXCEPT ![t].todo = @ \ {u}])
      BY <1>7 DEF Join
    <2>2. u \in Users
      <3>1. thread[t].event.kind \notin LoadKinds
        BY <1>7, ThreadAt, KindsAt DEF Join, At, LoadKinds
      <3> QED BY <2>1, <3>1, ThreadAt DEF Equipped, Listed
    <2>3. \/ Return(t)
          \/ /\ thread'[t].event = thread[t].event /\ thread'[t].guild = thread[t].guild
             /\ thread'[t].channel = thread[t].channel
      BY <2>1, ThreadAt DEF ThreadState
    <2> HIDE DEF came
    <2> QED BY <1>1, <1>2, <1>4, <1>7, <2>1, <2>2, <2>3, GuildWriterPointers DEF Run
  <1> QED BY <1>5, <1>6, <1>7

LEMMA RolePointers ==
    ASSUME TypeInv, PointerInv, NEW t \in Threads, Loaded(t) \/ LoadRole(t) \/ RemoveRole(t)
    PROVE  PointerInv'
  <1> DEFINE let == [Obj(t) EXCEPT !.holder = Null]
             more == [Obj(t) EXCEPT !.roles = @ \cup {thread[t].event.role}]
             less == [Obj(t) EXCEPT !.roles = @ \ {thread[t].event.role}]
  <1>1. /\ thread[t].step \in {"loadChannels", "loadRole", "removeRole"} /\ UNCHANGED channelVars
        /\ Uses(t) /\ Return(t)
        /\ SetObj(t, let) \/ (thread[t].step = "loadRole" /\ SetObj(t, more)) \/ SetObj(t, less)
    BY DEF Loaded, LoadRole, RemoveRole, At
  <1>2. thread[t].guild # 0
    BY <1>1, HasGuild DEF GuildSteps
  <1>3. Obj(t) \in GuildObject /\ (thread[t].step = "loadRole" => thread[t].event.role \in Roles)
    BY <1>1, <1>2, GuildInHand, ThreadAt, KindsAt, NoLoad DEF RoleKinds
  <1>4. let \in GuildObject /\ less \in GuildObject
        /\ (thread[t].step = "loadRole" => more \in GuildObject)
    BY <1>3 DEF GuildObject, Holder
  <1>5. PICK obj \in GuildObject : SetObj(t, obj)
    <2> HIDE DEF let, more, less
    <2> QED BY <1>1, <1>4
  <1> QED BY <1>1, <1>2, <1>5, GuildWriterPointers DEF Run

\* Handlers that make the channel, or find the one they have to make.
LEMMA ChannelMakerPointers ==
    ASSUME TypeInv, PointerInv, NEW t \in Threads, NextChannel(t) \/ CreateChannel(t)
    PROVE  PointerInv'
  <1>1. Uses(t) /\ UNCHANGED guildVars
    BY DEF PointerInv, NextChannel, CreateChannel
  <1>2. PICK c \in Channels :
          /\ MakeChannel(c)
          /\ \/ Return(t)
             \/ /\ thread'[t].event.guild = thread[t].event.guild
                /\ thread'[t].guild = thread[t].guild
                /\ thread'[t].event.channel = c /\ thread'[t].channel = Len(channelObj'[c])
    <2>1. thread[t] \in ThreadState /\ thread \in [Threads -> ThreadState] /\ thread[t].event \in Event
      BY ThreadAt
    <2>2. CASE NextChannel(t)
      <3>1. PICK c \in thread[t].todo :
              /\ MakeChannel(c)
              /\ thread' = [thread EXCEPT ![t] = [@ EXCEPT
                     !.step = "loadChannel", !.event.channel = c,
                     !.channel = Len(channelObj'[c]), !.todo = thread[t].todo \ {c}]]
        BY <2>2 DEF NextChannel
      <3>2. c \in Channels
        <4>1. thread[t].event.kind \in LoadKinds
          <5>1. thread[t].step = "loadChannels"
            BY <2>2 DEF NextChannel, At
          <5> QED BY <5>1, ThreadAt, KindsAt
        <4> QED BY <3>1, <4>1, ThreadAt DEF Equipped, ServerGuild
      <3>3. /\ thread'[t].event.guild = thread[t].event.guild
            /\ thread'[t].guild = thread[t].guild
            /\ thread'[t].event.channel = c /\ thread'[t].channel = Len(channelObj'[c])
        BY <2>1, <3>1 DEF ThreadState, Event
      <3> QED BY <3>1, <3>2, <3>3
    <2>3. CASE CreateChannel(t)
      <3> PICK c : c = thread[t].event.channel
        OBVIOUS
      <3>1. c \in Channels
        BY <2>3, ThreadAt, KindsAt, NoLoad DEF CreateChannel, At, ChannelKinds
      <3>2. /\ MakeChannel(c)
            /\ \/ Return(t)
               \/ \E s : thread' = [thread EXCEPT ![t].step = s, ![t].channel = Len(channelObj'[c])]
        BY <2>3 DEF CreateChannel
      <3>3. \/ Return(t)
            \/ /\ thread'[t].event = thread[t].event /\ thread'[t].guild = thread[t].guild
               /\ thread'[t].channel = Len(channelObj'[c])
        BY <2>1, <3>2 DEF ThreadState
      <3> QED BY <3>1, <3>2, <3>3
    <2> QED BY <2>2, <2>3
  <1>3. GuildsLast /\ ChannelsLast
    BY <1>1, <1>2, SameLast, MakeChannelLast
  <1>4. Uses(t)'
    <2>1. CASE Return(t)
      BY <2>1, HomeUses
    <2>2. CASE ~Return(t)
      <3>1. ChannelAlive(c, Len(channelObj[c]))'
        BY <1>2, MakeChannelLast
      <3>2. ChannelAlive(thread[t].event.channel, thread[t].channel)'
        BY <1>2, <2>2, <3>1 DEF ChannelAlive
      <3> QED BY <1>1, <1>2, <1>3, <2>2, <3>2, ChannelUses
    <2> QED BY <2>1, <2>2
  <1>5. \A d \in Channels : \A i \in 1..Len(channelObj'[d]) :
           \/ channelObj'[d][i].guild = 0
           \/ i \in 1..Len(channelObj[d]) /\ channelObj'[d][i].guild = channelObj[d][i].guild
    BY <1>2, MakeChannelLast
  <1> QED BY <1>3, <1>4, <1>5, PointersKept DEF Run

LEMMA LinkerPointers ==
    ASSUME TypeInv, PointerInv, NEW t \in Threads,
           LoadChannel(t) \/ Link(t) \/ Update(t) \/ LockChannel(t)
    PROVE  PointerInv'
  <1> DEFINE entered == [Obj(t) EXCEPT !.channels =
                            Emplace(@, thread[t].event.channel, thread[t].channel)]
             tied == [Chan(t) EXCEPT !.known = TRUE, !.guild = thread[t].guild]
             known == [Chan(t) EXCEPT !.known = TRUE]
             held == [Chan(t) EXCEPT !.holder = t]
  <1>1. /\ thread[t].step \in {"loadChannel", "link", "update", "lockChannel"} /\ Uses(t)
        /\ SetObj(t, entered) \/ UNCHANGED guildVars
        /\ SetChan(t, tied) \/ SetChan(t, known) \/ SetChan(t, held)
        /\ Return(t) \/ \E s : Goto(t, s)
    BY DEF LoadChannel, Link, Update, LockChannel, Enters, At
  <1>2. thread[t].guild # 0 /\ thread[t].channel # 0
    BY <1>1, HasGuild, HasChannel DEF GuildSteps, ChannelSteps
  <1>3. /\ Obj(t) \in GuildObject /\ Chan(t) \in ChannelObject
        /\ thread[t].event.channel \in Channels /\ thread[t].guild \in Nat /\ thread[t].channel \in Nat
    BY <1>1, <1>2, GuildInHand, ChannelInHand, ThreadAt
  <1>4. entered \in GuildObject
    BY <1>3 DEF GuildObject, Emplace
  <1>5. PICK chan \in ChannelObject :
          SetChan(t, chan) /\ chan.guild \in {Chan(t).guild, thread[t].guild}
    <2>1. /\ tied \in ChannelObject /\ tied.guild = thread[t].guild
          /\ known \in ChannelObject /\ known.guild = Chan(t).guild
          /\ held \in ChannelObject /\ held.guild = Chan(t).guild
      BY <1>3 DEF ChannelObject, Holder
    <2> HIDE DEF tied, known, held
    <2> QED BY <1>1, <2>1
  <1> HIDE DEF entered
  <1>6. GuildsLast
    BY <1>1, <1>2, <1>4, SetObjLast, SameLast
  <1>7. /\ channels' = channels /\ staleChannels' = staleChannels
        /\ channelObj' = [channelObj EXCEPT ![thread[t].event.channel][thread[t].channel] = chan]
    BY <1>5 DEF SetChan
  <1>8. ChannelsLast
    BY <1>1, <1>2, <1>5, <1>7, SetChanLast
  <1>9. Uses(t)'
    BY <1>1, <1>6, <1>8, HomeUses, Gone, SameUses
  <1>10. \A c \in Channels : \A i \in 1..Len(channelObj'[c]) :
            \/ channelObj'[c][i].guild = 0
            \/ i \in 1..Len(channelObj[c]) /\ channelObj'[c][i].guild = channelObj[c][i].guild
            \/ /\ thread[t].guild # 0 /\ thread[t].event.guild = GuildOf[c]
               /\ channelObj'[c][i].guild = thread[t].guild
    BY <1>1, <1>2, <1>5, <1>7, SetChanLast
  <1> QED BY <1>6, <1>8, <1>9, <1>10, PointersKept DEF Run

\* stale_channels takes the object of the map, as it has none.
LEMMA ErasePointers ==
    ASSUME TypeInv, PointerInv, NEW t \in Threads, Erase(t),
           staleChannels[thread[t].event.channel] = 0
    PROVE  PointerInv'
  <1> PICK d : d = thread[t].event.channel
    OBVIOUS
  <1> DEFINE obj == [Obj(t) EXCEPT !.channels[d] = 0]
             chan == [Chan(t) EXCEPT !.holder = Null]
  <1>1. /\ thread[t].step = "erase" /\ Uses(t) /\ SetObj(t, obj) /\ channels' = channels \ {d}
        /\ staleChannels' = Emplace(staleChannels, d, ChannelPtr(d))
        /\ channelObj' = [channelObj EXCEPT ![d][thread[t].channel].holder = Null]
        /\ Return(t)
    BY DEF Erase, At
  <1>2. thread[t].guild # 0 /\ thread[t].channel # 0
    BY <1>1, HasGuild, HasChannel DEF GuildSteps, ChannelSteps
  <1>3. /\ d \in Channels /\ Obj(t) \in GuildObject /\ Chan(t) \in ChannelObject
        /\ thread[t].channel \in 1..Len(channelObj[d])
    BY <1>1, <1>2, GuildInHand, ChannelInHand
  <1>4. obj \in GuildObject /\ chan \in ChannelObject /\ chan.guild = Chan(t).guild
    BY <1>3 DEF GuildObject, ChannelObject, Holder
  <1>5. channelObj' = [channelObj EXCEPT ![thread[t].event.channel][thread[t].channel] = chan]
    <2>1. channelObj \in [Channels -> Seq(ChannelObject)]
      BY DEF TypeInv, ChannelPart
    <2> QED BY <1>1, <1>3, <2>1 DEF Chan
  <1> HIDE DEF obj, chan
  <1>6. GuildsLast
    BY <1>1, <1>2, <1>4, SetObjLast
  <1>7. \A c \in Channels : Len(channelObj'[c]) = Len(channelObj[c])
    BY <1>1, <1>2, <1>4, <1>5, SetChanType
  <1>8. \A c \in Channels : \A i \in 1..Len(channelObj'[c]) :
            \/ channelObj'[c][i].guild = 0
            \/ i \in 1..Len(channelObj[c]) /\ channelObj'[c][i].guild = channelObj[c][i].guild
            \/ /\ thread[t].guild # 0 /\ thread[t].event.guild = GuildOf[c]
               /\ channelObj'[c][i].guild = thread[t].guild
    BY <1>1, <1>2, <1>4, <1>5, SetChanLast
  <1>9. ASSUME NEW c \in Channels, NEW n, ChannelAlive(c, n)
        PROVE  ChannelAlive(c, n)'
    <2>1. staleChannels' = [staleChannels EXCEPT ![d] = ChannelPtr(d)]
          /\ staleChannels \in [Channels -> Nat]
      BY <1>1 DEF Emplace, TypeInv, ChannelPart
    <2>2. CASE c = d
      BY <1>9, <2>1, <2>2 DEF ChannelAlive
    <2>3. CASE c # d
      <3>1. staleChannels'[c] = staleChannels[c] /\ (c \in channels' <=> c \in channels)
        BY <1>1, <2>1, <2>3
      <3> QED BY <1>7, <1>9, <3>1 DEF ChannelAlive, ChannelPtr
    <2> QED BY <2>2, <2>3
  <1>10. Uses(t)' /\ ChannelsLast
    BY <1>1, <1>9, HomeUses DEF ChannelsLast
  <1> QED BY <1>6, <1>8, <1>10, PointersKept DEF Run

\* The guild of a message's channel is still there: the channel's pointer is good.
LEMMA MessagePointers ==
    ASSUME TypeInv, PointerInv, NEW t \in Threads, Message(t)
    PROVE  PointerInv'
  <1> PICK g, c, n : g = thread[t].event.guild /\ c = thread[t].event.channel /\ n = Chan(t).guild
    OBVIOUS
  <1>1. /\ thread[t].step = "message" /\ Uses(t) /\ UNCHANGED <<guildVars, channelVars>>
        /\ \/ Return(t)
           \/ n # 0 /\ thread' = [thread EXCEPT ![t].step = "add", ![t].guild = n]
    BY DEF Message, At
  <1>2. channelObj' = channelObj /\ GuildsLast /\ ChannelsLast
    BY <1>1, SameLast DEF channelVars
  <1>3. Uses(t)'
    <2>1. CASE Return(t)
      BY <2>1, HomeUses
    <2>2. CASE n # 0 /\ thread' = [thread EXCEPT ![t].step = "add", ![t].guild = n]
      <3>1. /\ thread'[t].event = thread[t].event /\ thread'[t].guild = n
            /\ thread'[t].channel = thread[t].channel
        BY <2>2, ThreadAt DEF ThreadState
      <3>2. thread[t].channel # 0
        BY <1>1, HasChannel DEF ChannelSteps
      <3>3. c \in Channels /\ thread[t].channel \in 1..Len(channelObj[c]) /\ GuildOf[c] = g
            /\ g \in Guilds
        BY <1>1, <3>2, ChannelInHand, ChannelOf, CacheAssumption
      <3>4. GuildAlive(g, n)
        BY <2>2, <3>3 DEF PointerInv, Owned, Chan
      <3>5. GuildAlive(g, n)'
        BY <1>2, <3>3, <3>4 DEF GuildsLast
      <3>6. thread'[t].guild # 0 => GuildAlive(thread[t].event.guild, thread[t].guild)'
        BY <3>1, <3>5 DEF GuildAlive
      <3> QED BY <1>1, <1>2, <3>1, <3>6, GuildUses
    <2> QED BY <1>1, <2>1, <2>2
  <1> QED BY <1>2, <1>3, Objectless, PointersKept DEF Run

LEMMA RemoveGuildPointers ==
    ASSUME TypeInv, PointerInv, NEW t \in Threads, RemoveGuild(t),
           \A g \in Guilds : staleGuilds[g] = 0
    PROVE  PointerInv'
  <1>1. UNCHANGED channelVars /\ channelObj' = channelObj /\ Return(t)
    BY DEF RemoveGuild, channelVars
  <1>2. GuildsLast /\ ChannelsLast /\ Uses(t)'
    BY <1>1, RemoveGuildLast, SameLast, HomeUses
  <1> QED BY <1>1, <1>2, Objectless, PointersKept DEF Run

\* The pointers, and why there is room for the objects that the maps give up.
KeptInv == PointerInv /\ LeftOnce /\ ErasedOnce

LEMMA RunKeeps ==
    ASSUME TypeInv, KeptInv, NEW t \in Threads, Run(t)
    PROVE  KeptInv'
  <1>1. PointerInv /\ LeftOnce /\ ErasedOnce
    BY DEF KeptInv
  <1>2. Stays(Departures) /\ \A c \in Channels : Stays(Deletions(c))
    BY RunStays
  <1>3. UNCHANGED serverVars
    BY DEF Run, Take, Ready, Create, Find, Load, NextChannel, LoadChannel, Loaded, Mark,
       RemoveGuild, CreateChannel, FindChannel, Link, Update, LockChannel, Erase, LockGuilds,
       RemoveMember, Join, Message, Add, JoinUser, LoadRole, RemoveRole
  <1>4. kicks' = kicks /\ gone' = gone /\ server' = server
    BY <1>3 DEF serverVars
  <1>5. CASE RemoveGuild(t)
    <2>1. LeftOnce' /\ \A g \in Guilds : staleGuilds[g] = 0
      BY <1>1, <1>5, RemoveGuildOnce
    <2>2. staleChannels' = staleChannels
      BY <1>5 DEF RemoveGuild, channelVars
    <2>3. ErasedOnce'
      BY <1>1, <1>2, <1>4, <2>2, ErasedOnceKept
    <2> QED BY <1>1, <1>5, <2>1, <2>3, RemoveGuildPointers DEF KeptInv
  <1>6. CASE Erase(t)
    <2>1. ErasedOnce' /\ staleChannels[thread[t].event.channel] = 0
      BY <1>1, <1>6, EraseOnce
    <2>2. staleGuilds' = staleGuilds
      BY <1>6 DEF Erase, SetObj
    <2>3. LeftOnce'
      BY <1>1, <1>2, <1>4, <2>2, LeftOnceKept
    <2> QED BY <1>1, <1>6, <2>1, <2>3, ErasePointers DEF KeptInv
  <1>7. CASE ~RemoveGuild(t) /\ ~Erase(t)
    <2>1. staleGuilds' = staleGuilds
      BY <1>7 DEF Run, Take, Ready, Create, Find, Load, NextChannel, LoadChannel, Loaded, Mark,
         CreateChannel, FindChannel, Link, Update, LockChannel, LockGuilds, RemoveMember, Join,
         Message, Add, JoinUser, LoadRole, RemoveRole, MakeGuilds, SetObj, Enters, guildVars
    <2>2. staleChannels' = staleChannels
      BY <1>7 DEF Run, Take, Ready, Create, Find, Load, NextChannel, LoadChannel, Loaded, Mark,
         CreateChannel, FindChannel, Link, Update, LockChannel, LockGuilds, RemoveMember, Join,
         Message, Add, JoinUser, LoadRole, RemoveRole, MakeChannel, SetChan, channelVars
    <2>3. PointerInv'
      BY <1>1, <1>7, TakePointers, MakerPointers, FinderPointers, LoadPointers, MemberPointers,
         RolePointers, ChannelMakerPointers, LinkerPointers, MessagePointers DEF Run
    <2> QED BY <1>1, <1>2, <1>4, <2>1, <2>2, <2>3, LeftOnceKept, ErasedOnceKept DEF KeptInv
  <1> QED BY <1>5, <1>6, <1>7

-----------------------------------------------------------------------------
(* What the server says of departures and deletions.                       *)

\* Ids that were given up are not taken again.
IdsSpent == \A d \in Channels :
    d \in server'[GuildOf[d]].channels => d \in server[GuildOf[d]].channels \/ d \notin gone

\* A step of the server that tells of no departure and no deletion.
Elsewhere ==
    /\ Posts(Departures) /\ \A c \in Channels : Posts(Deletions(c))
    /\ kicks' = kicks /\ gone \subseteq gone' /\ IdsSpent

LEMMA ElsewhereKeeps ==
    ASSUME TypeInv, KeptInv, ServerStep, Elsewhere
    PROVE  KeptInv'
  <1>1. UNCHANGED BotVars /\ thread' = thread /\ staleGuilds' = staleGuilds
        /\ staleChannels' = staleChannels
    BY DEF ServerStep, BotVars, guildVars, channelVars
  <1>2. Stays(Departures) /\ \A c \in Channels : Stays(Deletions(c))
    BY <1>1, PostingStays DEF Elsewhere
  <1>3. LeftOnce' /\ ErasedOnce'
    BY <1>1, <1>2, LeftOnceKept, ErasedOnceKept DEF KeptInv, Elsewhere, IdsSpent
  <1>4. PointerInv'
    BY <1>1 DEF KeptInv, PointerInv, Uses, Owned, GuildAlive, ChannelAlive, GuildPtr, ChannelPtr,
       BotVars, guildVars, channelVars
  <1> QED BY <1>3, <1>4 DEF KeptInv

LEMMA AnyAppended ==
    ASSUME TypeInv, NEW e, tasks' = (IF link THEN Append(tasks, e) ELSE tasks),
           NEW k \in 1..Len(tasks')
    PROVE  (k \in 1..Len(tasks) /\ tasks'[k] = tasks[k]) \/ tasks'[k] = e
  <1>1. tasks \in Seq(Event \cup {e}) /\ Len(tasks) \in Nat
    BY LenProperties DEF TypeInv, TaskPart
  <1>2. CASE tasks' = tasks
    BY <1>1, <1>2
  <1>3. CASE tasks' = Append(tasks, e)
    <2>1. /\ Len(tasks') = Len(tasks) + 1 /\ tasks'[Len(tasks) + 1] = e
          /\ \A i \in 1..Len(tasks) : tasks'[i] = tasks[i]
      BY <1>1, <1>3, AppendProperties
    <2>2. k \in 1..Len(tasks) \/ k = Len(tasks) + 1
      BY <1>1, <2>1
    <2> QED BY <2>1, <2>2
  <1> QED BY <1>2, <1>3

LEMMA OtherNews ==
    ASSUME TypeInv, NEW e, NEW new, Change(e, new), e.kind \notin {"GUILD_DELETE", "CHANNEL_DELETE"},
           kicks' = kicks, gone \subseteq gone', e.guild \in Guilds,
           \A d \in new.channels : d \in server[e.guild].channels \/ d \notin gone
    PROVE  Elsewhere
  <1>1. /\ tasks' = (IF link THEN Append(tasks, e) ELSE tasks)
        /\ server' = [server EXCEPT ![e.guild] = new] /\ server \in [Guilds -> ServerGuild]
    BY DEF Change, TypeInv, ServerPart
  <1>2. e \notin Departures /\ \A c : e \notin Deletions(c)
    BY DEF Departures, Deletions
  <1>3. Posts(Departures) /\ \A c \in Channels : Posts(Deletions(c))
    BY <1>1, <1>2, AnyAppended DEF Posts
  <1>4. IdsSpent
    <2>1. \A d \in Channels : GuildOf[d] \in Guilds
      BY CacheAssumption
    <2> QED BY <1>1, <2>1 DEF IdsSpent
  <1> QED BY <1>3, <1>4 DEF Elsewhere

LEMMA OtherNotice ==
    ASSUME TypeInv, NEW e, Notify(e), e.kind \notin {"GUILD_DELETE", "CHANNEL_DELETE"},
           e.guild \in Guilds
    PROVE  Elsewhere
  BY OtherNews DEF Notify

LEMMA MembersElsewhere ==
    ASSUME TypeInv, NEW g \in Guilds, NEW u \in Users, ChangeMember(g, u)
    PROVE  Elsewhere
  <1> DEFINE Tell(kind, m) == /\ Change(About(kind, g, u, m), [server[g] EXCEPT !.members[u] = m])
                              /\ UNCHANGED <<kicks, gone>>
  <1>1. PICK kind \in {"GUILD_MEMBER_ADD", "GUILD_MEMBER_REMOVE", "GUILD_MEMBER_UPDATE"} :
          \E m : Tell(kind, m)
    <2>1. \/ Tell("GUILD_MEMBER_ADD", {}) \/ Tell("GUILD_MEMBER_REMOVE", NoInfo)
          \/ \E R \in SUBSET server[g].roles : Tell("GUILD_MEMBER_UPDATE", R)
      BY DEF ChangeMember
    <2> HIDE DEF Tell
    <2> QED BY <2>1
  <1>2. PICK m : Tell(kind, m)
    BY <1>1
  <1>3. About(kind, g, u, m).kind = kind /\ About(kind, g, u, m).guild = g
    BY DEF About, Packet, NoEvent
  <1>4. [server[g] EXCEPT !.members[u] = m].channels = server[g].channels
    BY ServerAt DEF Possible, ServerGuild
  <1> QED BY <1>1, <1>2, <1>3, <1>4, OtherNews

LEMMA ActivityElsewhere ==
    ASSUME TypeInv, NEW g \in Guilds, NEW u \in Users, Activity(g, u)
    PROVE  Elsewhere
  <1> DEFINE m == server[g].members[u]
             a == About("PRESENCE_UPDATE", g, u, m)
             b == [Packet("VOICE_STATE_UPDATE", g) EXCEPT !.user = u]
             T(c) == [Packet("TYPING_START", g) EXCEPT !.channel = c, !.user = u]
             M(kind, c) == [About(kind, g, u, m) EXCEPT !.channel = c]
  <1>1. /\ a.kind = "PRESENCE_UPDATE" /\ a.guild = g
        /\ b.kind = "VOICE_STATE_UPDATE" /\ b.guild = g
        /\ \A c : T(c).kind = "TYPING_START" /\ T(c).guild = g
        /\ \A kind, c : M(kind, c).kind = kind /\ M(kind, c).guild = g
    BY DEF About, Packet, NoEvent
  <1>2. \/ Notify(a) \/ Notify(b)
        \/ \E c : Notify(T(c)) \/ \E kind \in MessageKinds : Notify(M(kind, c))
    BY DEF Activity, MessageKinds
  <1> HIDE DEF a, b, T, M
  <1> QED BY <1>1, <1>2, OtherNotice DEF MessageKinds

LEMMA GuildElsewhere ==
    ASSUME TypeInv, NEW g \in Guilds, Invite(g) \/ ChangeGuild(g)
    PROVE  Elsewhere
  <1>1. CASE Invite(g)
    <2> DEFINE new == [server[g] EXCEPT !.joined = TRUE]
    <2>1. Change(GuildCreate(g, new), new) /\ kicks' = kicks /\ gone' = gone
      BY <1>1 DEF Invite
    <2>2. GuildCreate(g, new).kind = "GUILD_CREATE" /\ GuildCreate(g, new).guild = g
      BY DEF GuildCreate, Packet, NoEvent
    <2>3. new.channels = server[g].channels
      BY ServerAt DEF Possible, ServerGuild
    <2> HIDE DEF new
    <2> QED BY <2>1, <2>2, <2>3, OtherNews
  <1>2. CASE ChangeGuild(g)
    <2> DEFINE d == [Packet("GUILD_UPDATE", g) EXCEPT !.load.roles = server[g].roles]
               e == [Packet("GUILD_MEMBERS_CHUNK", g) EXCEPT !.load.members = server[g].members]
    <2>1. /\ d.kind = "GUILD_UPDATE" /\ d.guild = g
          /\ e.kind = "GUILD_MEMBERS_CHUNK" /\ e.guild = g
      BY DEF Packet, NoEvent
    <2>2. Notify(d) \/ Notify(e)
      BY <1>2 DEF ChangeGuild
    <2> HIDE DEF d, e
    <2> QED BY <2>1, <2>2, OtherNotice
  <1> QED BY <1>1, <1>2

LEMMA RolesElsewhere ==
    ASSUME TypeInv, NEW g \in Guilds, NEW r \in Roles, ChangeRole(g, r)
    PROVE  Elsewhere
  <1> DEFINE Tell(kind, new) ==
               /\ Change([Packet(kind, g) EXCEPT !.role = r], new) /\ new.channels = server[g].channels
               /\ kicks' = kicks /\ gone \subseteq gone'
  <1>1. PICK kind \in RoleKinds : \E new : Tell(kind, new)
    <2>1. \/ \E new : Tell("GUILD_ROLE_CREATE", new)
          \/ \E new : Tell("GUILD_ROLE_DELETE", new)
      BY ServerAt DEF ChangeRole, Possible, ServerGuild
    <2> HIDE DEF Tell
    <2> QED BY <2>1 DEF RoleKinds
  <1>2. PICK new : Tell(kind, new)
    BY <1>1
  <1>3. [Packet(kind, g) EXCEPT !.role = r].kind = kind /\ [Packet(kind, g) EXCEPT !.role = r].guild = g
    BY DEF Packet, NoEvent
  <1> QED BY <1>2, <1>3, OtherNews DEF RoleKinds

LEMMA SessionElsewhere ==
    ASSUME TypeInv, LoseSession \/ NewSession
    PROVE  Elsewhere
  <1>1. server' = server /\ kicks' = kicks /\ gone' = gone /\ (tasks' = tasks \/ tasks' = tasks \o Greeting)
    BY DEF LoseSession, NewSession
  <1>2. CASE tasks' = tasks
    BY <1>1, <1>2 DEF Elsewhere, Posts, IdsSpent
  <1>3. CASE tasks' = tasks \o Greeting
    <2>1. Greeting \in Seq(Event) /\ \A k \in 1..Len(Greeting) : Greets(Greeting[k])
      BY GreetingType DEF TypeInv
    <2>2. tasks \in Seq(Event)
      BY DEF TypeInv, TaskPart
    <2> HIDE DEF Greeting
    <2>3. /\ Len(tasks') = Len(tasks) + Len(Greeting)
          /\ \A k \in 1..Len(tasks') : tasks'[k] = IF k <= Len(tasks) THEN tasks[k]
                                                   ELSE Greeting[k - Len(tasks)]
      BY <1>3, <2>1, <2>2, ConcatProperties
    <2>4. ASSUME NEW k \in 1..Len(tasks')
          PROVE  \/ k \in 1..Len(tasks) /\ tasks'[k] = tasks[k]
                 \/ tasks'[k].kind \in {"READY", "GUILD_CREATE"}
      <3>1. Len(tasks) \in Nat /\ Len(Greeting) \in Nat
        BY <2>1, <2>2, LenProperties
      <3>2. CASE k <= Len(tasks)
        BY <2>3, <3>1, <3>2
      <3>3. CASE k > Len(tasks)
        <4>1. k - Len(tasks) \in 1..Len(Greeting)
          BY <2>3, <3>1, <3>3
        <4> QED BY <2>1, <2>3, <3>1, <3>3, <4>1 DEF Greets
      <3> QED BY <3>1, <3>2, <3>3
    <2>5. Posts(Departures) /\ \A c \in Channels : Posts(Deletions(c))
      BY <2>4 DEF Posts, Departures, Deletions
    <2> QED BY <1>1, <2>5 DEF Elsewhere, IdsSpent
  <1> QED BY <1>1, <1>2, <1>3

LEMMA KickKeeps ==
    ASSUME TypeInv, KeptInv, MaxKicks <= 1, NEW g \in Guilds, Kick(g)
    PROVE  KeptInv'
  <1> PICK e : e = Packet("GUILD_DELETE", g)
    OBVIOUS
  <1>1. ServerStep /\ kicks < MaxKicks /\ kicks' = kicks + 1 /\ gone' = gone
    BY KickType DEF Kick
  <1>2. e \in Event /\ e.kind = "GUILD_DELETE"
    BY PacketType DEF AllKinds
  <1>3. kicks = 0 /\ kicks' = 1
    BY <1>1, CacheAssumption DEF TypeInv, ServerPart
  <1>4. /\ tasks' = (IF link THEN Append(tasks, e) ELSE tasks)
        /\ server' = [server EXCEPT ![g] = [server[g] EXCEPT !.joined = FALSE]]
    BY DEF Kick, Change, Packet, NoEvent
  <1>5. thread' = thread /\ staleGuilds' = staleGuilds /\ staleChannels' = staleChannels
    BY <1>1 DEF ServerStep, BotVars, guildVars, channelVars
  <1>6. ~Pending(Departures) /\ \A h \in Guilds : staleGuilds[h] = 0
    BY <1>3 DEF KeptInv, LeftOnce
  <1>7. LeftOnce'
    BY <1>2, <1>3, <1>4, <1>5, <1>6, FirstTold DEF LeftOnce
  <1>8. ErasedOnce'
    <2>1. ASSUME NEW c \in Channels PROVE Stays(Deletions(c))
      <3>1. e \notin Deletions(c)
        BY <1>2 DEF Deletions
      <3> QED BY <1>4, <1>5, <3>1, AnyAppended, PostingStays DEF Posts
    <2>2. \A d \in Channels : server'[GuildOf[d]].channels = server[GuildOf[d]].channels
      BY <1>4, CacheAssumption DEF TypeInv, ServerPart, ServerGuild
    <2> QED BY <1>1, <1>5, <2>1, <2>2, ErasedOnceKept DEF KeptInv
  <1>9. PointerInv'
    BY <1>1 DEF KeptInv, PointerInv, Uses, Owned, GuildAlive, ChannelAlive, GuildPtr, ChannelPtr,
       ServerStep, BotVars, guildVars, channelVars
  <1> QED BY <1>7, <1>8, <1>9 DEF KeptInv

LEMMA ChannelKeeps ==
    ASSUME TypeInv, KeptInv, NEW g \in Guilds, NEW c \in Channels, ChangeChannel(g, c)
    PROVE  KeptInv'
  <1> DEFINE Tale(kind) == [Packet(kind, g) EXCEPT !.channel = c]
             made == [server[g] EXCEPT !.channels = @ \cup {c}]
             lost == [server[g] EXCEPT !.channels = @ \ {c}]
  <1>1. GuildOf[c] = g /\ kicks' = kicks
    BY DEF ChangeChannel
  <1>2. server \in [Guilds -> ServerGuild] /\ server[g] \in ServerGuild
    BY DEF TypeInv, ServerPart
  <1>3. \A kind : Tale(kind).kind = kind /\ Tale(kind).guild = g /\ Tale(kind).channel = c
    BY DEF Packet, NoEvent
  <1>4. made.channels = server[g].channels \cup {c} /\ lost.channels = server[g].channels \ {c}
    BY <1>2 DEF ServerGuild
  <1>5. \/ c \notin gone /\ Change(Tale("CHANNEL_CREATE"), made) /\ gone' = gone
        \/ Change(Tale("CHANNEL_UPDATE"), server[g]) /\ gone' = gone
        \/ /\ c \in server[g].channels /\ Change(Tale("CHANNEL_DELETE"), lost)
           /\ gone' = gone \cup {c}
    BY DEF ChangeChannel
  <1>6. ServerStep
    BY ChangeChannelType
  <1>7. Tale("CHANNEL_DELETE") \in Event
    BY PacketType DEF AllKinds, Event
  <1> HIDE DEF Tale, made, lost
  <1>8. CASE \/ c \notin gone /\ Change(Tale("CHANNEL_CREATE"), made) /\ gone' = gone
             \/ Change(Tale("CHANNEL_UPDATE"), server[g]) /\ gone' = gone
    <2>1. Elsewhere
      BY <1>1, <1>3, <1>4, <1>8, OtherNews
    <2> QED BY <1>6, <2>1, ElsewhereKeeps
  <1>9. CASE /\ c \in server[g].channels /\ Change(Tale("CHANNEL_DELETE"), lost)
             /\ gone' = gone \cup {c}
    <2> PICK e : e = Tale("CHANNEL_DELETE")
      OBVIOUS
    <2>1. /\ tasks' = (IF link THEN Append(tasks, e) ELSE tasks)
          /\ server' = [server EXCEPT ![g] = lost]
      BY <1>3, <1>9 DEF Change
    <2>2. e \in Event /\ e.kind = "CHANNEL_DELETE" /\ e.channel = c
      BY <1>3, <1>7
    <2>3. thread' = thread /\ staleGuilds' = staleGuilds /\ staleChannels' = staleChannels
      BY <1>6 DEF ServerStep, BotVars, guildVars, channelVars
    <2>4. ASSUME NEW E, e \notin E PROVE Stays(E)
      BY <2>1, <2>3, <2>4, AnyAppended, PostingStays DEF Posts
    <2>5. LeftOnce'
      <3>1. e \notin Departures
        BY <2>2 DEF Departures
      <3> QED BY <1>1, <2>3, <2>4, <3>1, LeftOnceKept DEF KeptInv
    <2>6. ~Pending(Deletions(c)) /\ staleChannels[c] = 0
      BY <1>1, <1>9 DEF KeptInv, ErasedOnce
    <2>7. Single(Deletions(c))'
      BY <2>1, <2>2, <2>3, <2>6, FirstTold
    <2>8. ASSUME NEW d \in Channels
          PROVE  /\ Single(Deletions(d))' /\ (Pending(Deletions(d))' => staleChannels'[d] = 0)
                 /\ Pending(Deletions(d))' \/ staleChannels'[d] # 0 =>
                        d \in gone' /\ d \notin server'[GuildOf[d]].channels
      <3>1. CASE d = c
        BY <1>1, <1>2, <1>4, <1>9, <2>1, <2>3, <2>6, <2>7, <3>1
      <3>2. CASE d # c
        <4>1. Stays(Deletions(d))
          BY <2>2, <2>4, <3>2 DEF Deletions
        <4>2. server'[GuildOf[d]].channels \subseteq server[GuildOf[d]].channels
          BY <1>2, <1>4, <2>1, CacheAssumption
        <4> QED BY <1>9, <2>3, <4>1, <4>2 DEF KeptInv, ErasedOnce, Stays
      <3> QED BY <3>1, <3>2
    <2>9. ErasedOnce'
      BY <2>8 DEF ErasedOnce, Single, Pending, Deletions
    <2>10. PointerInv'
      BY <1>6 DEF KeptInv, PointerInv, Uses, Owned, GuildAlive, ChannelAlive, GuildPtr, ChannelPtr,
         ServerStep, BotVars, guildVars, channelVars
    <2> QED BY <2>5, <2>9, <2>10 DEF KeptInv
  <1> QED BY <1>5, <1>8, <1>9

LEMMA ServerKeeps ==
    ASSUME TypeInv, KeptInv, MaxKicks <= 1, ServerChanges
    PROVE  KeptInv'
  <1>1. ServerStep /\ \A g \in Joined : g \in Guilds
    BY ServerType DEF Joined
  <1> QED BY <1>1, ElsewhereKeeps, SessionElsewhere, GuildElsewhere, MembersElsewhere,
          ActivityElsewhere, RolesElsewhere, KickKeeps, ChannelKeeps DEF ServerChanges

LEMMA InitKeeps ==
    ASSUME Init
    PROVE  KeptInv
  <1>1. TypeInv /\ \A k \in 1..Len(tasks) : Greets(tasks[k])
    BY InitType, GreetingType DEF Init, TypeInv
  <1>2. \A t \in Threads : thread[t].event = NoEvent /\ thread[t].guild = 0 /\ thread[t].channel = 0
    BY DEF Init, Idle
  <1>3. ~Pending(Departures) /\ \A c \in Channels : ~Pending(Deletions(c))
    BY <1>1, <1>2, NeverIdle DEF Pending, Greets, Departures, Deletions
  <1>4. PointerInv
    BY <1>2 DEF Init, PointerInv, Uses, Owned
  <1>5. LeftOnce /\ ErasedOnce
    BY <1>3 DEF Init, LeftOnce, ErasedOnce, Pending, Single
  <1> QED BY <1>4, <1>5 DEF KeptInv

\* As long as the bot leaves no more than one guild, the guild of every channel in the
\* cache and the objects in a handler's hands are owned by the cache, in the maps or among
\* the stale objects, however many threads handle events and however they interleave.
THEOREM PointersStay == ASSUME MaxKicks <= 1 PROVE Spec => []PointersValid
  <1>1. Init => KeptInv
    BY InitKeeps
  <1>2. ASSUME TypeInv, KeptInv, [Next]_vars PROVE KeptInv'
    <2>1. CASE ServerChanges
      BY <1>2, <2>1, ServerKeeps
    <2>2. CASE \E t \in Threads : Run(t)
      BY <1>2, <2>2, RunKeeps
    <2>3. CASE UNCHANGED vars
      <3>1. /\ UNCHANGED <<server, kicks, gone, tasks, thread>> /\ UNCHANGED guildVars
            /\ UNCHANGED channelVars
        BY <2>3 DEF vars, serverVars
      <3> QED BY <1>2, <3>1 DEF KeptInv, PointerInv, Uses, Owned, GuildAlive, ChannelAlive,
              GuildPtr, ChannelPtr, guildVars, channelVars, LeftOnce, ErasedOnce, Single, Pending,
              Deletions, Departures
    <2> QED BY <1>2, <2>1, <2>2, <2>3 DEF Next, Terminated
  <1>3. TypeInv /\ KeptInv => PointersValid
    BY PointersFollow DEF KeptInv
  <1> QED BY <1>1, <1>2, <1>3, TypesThroughout, PTL DEF Spec
=============================================================================
