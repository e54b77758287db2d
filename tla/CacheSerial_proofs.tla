------------------------- MODULE CacheSerial_proofs -------------------------
(* Theorems about the cache when one thread runs the io_context: it then   *)
(* follows the server, whatever the server does, for any guilds, channels, *)
(* users and roles.                                                        *)
(*                                                                         *)
(* The cache lags behind the server by the events that wait, so the        *)
(* invariant names what the server was between any two of them (History),  *)
(* and says that the cache is what the server was when it had sent the     *)
(* event at hand, but for what the handler has yet to do (Matches).        *)
EXTENDS Cache_proofs

-----------------------------------------------------------------------------
(* The history of the server.                                              *)

\* What the server was when it had sent an event, and the guilds it had described by
\* then in the session.
Stage == [server : [Guilds -> ServerGuild], gone : SUBSET (Channels \cup Roles),
          told : SUBSET Guilds]

\* What an event takes away and what it brings.
DropsRole(e) == IF e.kind = "GUILD_ROLE_DELETE" THEN {e.role} ELSE {}
BringsRole(e) == IF e.kind = "GUILD_ROLE_CREATE" THEN {e.role} ELSE {}
DropsChannel(e) == IF e.kind = "CHANNEL_DELETE" THEN {e.channel} ELSE {}
BringsChannel(e) == IF e.kind = "CHANNEL_CREATE" THEN {e.channel} ELSE {}
DropsMember(e) == IF e.kind = "GUILD_MEMBER_REMOVE" THEN {e.user} ELSE {}
BringsMember(e) == IF e.kind \in {"GUILD_MEMBER_ADD", "GUILD_MEMBER_UPDATE"} THEN {e.user} ELSE {}

\* The members of a guild have roles of it, and its channels are of no other.
Sound(q) == \A g \in Guilds :
    /\ \A c \in q.server[g].channels : GuildOf[c] = g
    /\ \A u \in Users : q.server[g].members[u] # NoInfo =>
                            q.server[g].members[u] \subseteq q.server[g].roles

\* What READY and the other events say is so at q.
Greeted(e, q) == q.told = {} /\ e.all = {g \in Guilds : q.server[g].joined}

Says(e, q, a) ==
    /\ e.guild \in q.told
    /\ a.joined <=> e.kind # "GUILD_DELETE"
    /\ \A u \in Listed(e) : e.load.members[u] = a.members[u]
    /\ e.load.roles \subseteq a.roles
    /\ e.kind # "GUILD_CREATE" => e.load.channels = {}
    /\ e.kind = "GUILD_CREATE" =>
           /\ e.load.roles = a.roles /\ e.load.channels = a.channels
           /\ \A u \in Users \ Offline : a.members[u] # NoInfo => u \in Listed(e)
    /\ e.kind \in ChannelKinds \ {"CHANNEL_DELETE"} => e.channel \in a.channels
    /\ e.kind \in {"GUILD_MEMBER_ADD", "GUILD_MEMBER_UPDATE", "PRESENCE_UPDATE"}
         => e.user \in Listed(e)
    /\ BringsRole(e) \cap q.gone = {} /\ BringsRole(e) \subseteq a.roles
    /\ DropsRole(e) \cap a.roles = {} /\ DropsChannel(e) \cap a.channels = {}
    /\ \A u \in DropsMember(e) : a.members[u] = NoInfo

True(e, q) == IF e.kind = "READY" THEN Greeted(e, q) ELSE Says(e, q, q.server[e.guild])

Seen(p, g) == p.server[g].roles \cup p.gone
Grown(p, q) == \A g \in Guilds : Seen(p, g) \subseteq Seen(q, g)

\* How a guild changes with an event about it.
Turns(e, a, b) ==
    /\ e.kind # "GUILD_CREATE" => a.joined
    /\ b.roles = (a.roles \ DropsRole(e)) \cup BringsRole(e)
    /\ b.channels = (a.channels \ DropsChannel(e)) \cup BringsChannel(e)
    /\ \A u \in Users \ (DropsMember(e) \cup BringsMember(e)) :
          b.members[u] = IF a.members[u] = NoInfo THEN NoInfo ELSE a.members[u] \ DropsRole(e)

\* The server was at p before it sent e, and at q after.
After(p, e, q) ==
    /\ True(e, q) /\ Grown(p, q)
    /\ e.kind = "READY" => (outages = 0 => q.server = p.server)
    /\ e.kind # "READY" =>
          /\ q.told = p.told \cup (IF e.kind = "GUILD_CREATE" THEN {e.guild} ELSE {})
          /\ q.gone = p.gone \cup DropsRole(e) \cup DropsChannel(e)
          /\ \A x \in Guilds \ {e.guild} : q.server[x] = p.server[x]
          /\ Turns(e, p.server[e.guild], q.server[e.guild])

Now == [server |-> server, gone |-> gone, told |-> Guilds]

\* The stages between events.
Chain(h, ts) ==
    /\ h \in [1..(Len(ts) + 1) -> Stage] /\ \A k \in 1..(Len(ts) + 1) : Sound(h[k])
    /\ \A k \in 1..Len(ts) : After(h[k], ts[k], h[k + 1])

\* The stages of the events that wait.
History(h, ts) ==
    /\ Chain(h, ts)
    /\ Sound(Now) /\ Grown(h[Len(ts) + 1], Now)
    /\ link => /\ h[Len(ts) + 1].server = server /\ h[Len(ts) + 1].gone = gone
               /\ Joined \subseteq h[Len(ts) + 1].told
    /\ outages = 0 => link

ChanOf(c) == channelObj[c][ChannelPtr(c)]

\* The handler has the objects of the maps; a channel it loads is one of the payload.
HasCurrent(r) ==
    /\ r.guild # 0 => r.guild = GuildPtr(r.event.guild)
    /\ r.channel # 0 => r.channel = ChannelPtr(r.event.channel)
    /\ r.step = "loadChannel" => r.event.channel \in r.event.load.channels

Entries(g) == \A c \in Channels : Current(g).channels[c] # 0 =>
    GuildOf[c] = g /\ Current(g).channels[c] = ChannelPtr(c)

AllKnown(r) == \A c \in channels :
    ChanOf(c).known \/ (c = r.event.channel /\ r.step \in {"loadChannel", "link", "update"})

RolesSeen(q) == \A g \in Guilds, u \in Users :
    info[u][g] # NoInfo => info[u][g] \subseteq Seen(q, g)

\* What of a guild the handler has not entered yet, and what it has not removed.
Concerns(r, g) == r.event.kind # "READY" /\ g = r.event.guild
LateGuild(r, g) ==
    Concerns(r, g) /\ r.event.kind = "GUILD_CREATE" /\ r.step = "create"
        /\ r.todo = r.event.load.channels
LateLoad(r, g) == Concerns(r, g) /\ r.event.kind = "GUILD_CREATE" /\ r.step \in {"create", "load"}
LateRole(r, g, x) == LateLoad(r, g) \/ (Concerns(r, g) /\ x \in BringsRole(r.event))
LateMember(r, g, u) ==
    LateLoad(r, g) \/ (Concerns(r, g) /\ u \in BringsMember(r.event) /\ u \in r.todo)
LateChannel(r, g, c) ==
    /\ Concerns(r, g)
    /\ \/ r.event.kind = "GUILD_CREATE" /\ (c \in r.todo \/ (r.step = "loadChannel"
         /\ c = r.event.channel))
       \/ c \in BringsChannel(r.event)

HasRoles(q, r, g) == \A x \in q.server[g].roles : x \in Current(g).roles \/ LateRole(r, g, x)

HasMember(q, g, u) ==
    /\ u \in Current(g).members /\ info[u][g] # NoInfo
    /\ info[u][g] \cap q.server[g].roles = q.server[g].members[u]

HasMembers(q, r, g) == \A u \in Users \ Offline :
    q.server[g].members[u] # NoInfo => HasMember(q, g, u) \/ LateMember(r, g, u)

Linked(g, c) ==
    /\ c \in channels /\ Current(g).channels[c] = ChannelPtr(c)
    /\ ChanOf(c).known /\ ChanOf(c).guild = GuildPtr(g)

HasChannels(q, r, g) == \A c \in q.server[g].channels : Linked(g, c) \/ LateChannel(r, g, c)

Has(q, r, g) == g \in guilds /\ HasRoles(q, r, g) /\ HasMembers(q, r, g) /\ HasChannels(q, r, g)

HasAll(q, r) == \A g \in q.told : q.server[g].joined => Has(q, r, g) \/ LateGuild(r, g)

OnlyHas(q, r, g) ==
    LET a == q.server[g] IN
    /\ a.joined \/ (Concerns(r, g) /\ r.event.kind = "GUILD_DELETE")
    /\ \A x \in Current(g).roles : x \in a.roles \/ (Concerns(r, g) /\ x \in DropsRole(r.event))
    /\ \A u \in Current(g).members : a.members[u] # NoInfo \/ (Concerns(r, g)
         /\ u \in DropsMember(r.event))
    /\ \A c \in Channels : Current(g).channels[c] # 0 =>
           c \in a.channels \/ (Concerns(r, g) /\ c \in DropsChannel(r.event))

HasNoMore(q, r) == outages = 0 => \A g \in guilds : OnlyHas(q, r, g)

Matches(q, r) ==
    /\ fault = "none" /\ HasCurrent(r) /\ (\A g \in guilds : Entries(g)) /\ AllKnown(r)
         /\ RolesSeen(q)
    /\ HasAll(q, r) /\ HasNoMore(q, r)
    /\ r.step # "idle" => True(r.event, q)

SerialInv(me) == \E h, ts, r :
    ts = tasks /\ r = thread[me] /\ History(h, ts) /\ Matches(h[1], r)

-----------------------------------------------------------------------------
(* Reading the definitions.                                                *)

\* What a step shows of the guilds and channels in the maps.
SameGuilds ==
    /\ guilds' = guilds
    /\ \A g \in guilds : Current(g)' = Current(g) /\ GuildPtr(g)' = GuildPtr(g)

SameChannels ==
    /\ channels' = channels
    /\ \A c \in Channels : ChannelPtr(c)' = ChannelPtr(c)
    /\ \A c \in channels : ChanOf(c)' = ChanOf(c)

Makes(G) ==
    /\ guilds' = guilds \cup G
    /\ \A g \in guilds : Current(g)' = Current(g) /\ GuildPtr(g)' = GuildPtr(g)
    /\ \A g \in G \ guilds : Current(g)' = NewGuild

Writes(h, obj) ==
    /\ guilds' = guilds /\ h \in guilds /\ Current(h)' = obj
    /\ \A g \in guilds \ {h} : Current(g)' = Current(g)
    /\ \A g \in guilds : GuildPtr(g)' = GuildPtr(g)

Opens(c) ==
    /\ channels' = channels \cup {c}
    /\ \A d \in Channels : d \in channels \/ d # c => ChannelPtr(d)' = ChannelPtr(d)
    /\ \A d \in channels : ChanOf(d)' = ChanOf(d)

WritesChan(c, chan) ==
    /\ channels' = channels /\ c \in channels /\ ChanOf(c)' = chan
    /\ \A d \in Channels : ChannelPtr(d)' = ChannelPtr(d)
    /\ \A d \in channels \ {c} : ChanOf(d)' = ChanOf(d)

LEMMA GuildsRead ==
    ASSUME UNCHANGED guildVars
    PROVE  SameGuilds
  BY DEF guildVars, SameGuilds, Current, GuildPtr

LEMMA ChannelsRead ==
    ASSUME UNCHANGED channelVars
    PROVE  SameChannels
  BY DEF channelVars, SameChannels, ChanOf, ChannelPtr

LEMMA MakesRead ==
    ASSUME TypeInv, NEW G \in SUBSET Guilds, MakeGuilds(G)
    PROVE  Makes(G)
  <1>1. guilds' = guilds \cup G /\ guilds \subseteq Guilds
    BY DEF MakeGuilds, TypeInv, GuildPart
  <1>2. ASSUME NEW g \in guilds PROVE Current(g)' = Current(g) /\ GuildPtr(g)' = GuildPtr(g)
    <2>1. guildObj'[g] = guildObj[g]
      BY <1>1, MakeGuildsType
    <2> QED BY <1>1, <2>1 DEF Current, GuildPtr
  <1>3. ASSUME NEW g \in G \ guilds PROVE Current(g)' = NewGuild
    BY MakeGuildsType DEF Current
  <1> QED BY <1>1, <1>2, <1>3 DEF Makes

LEMMA InHand ==
    ASSUME TypeInv, NEW me \in Threads, NEW r, r = thread[me], HasCurrent(r), r.guild # 0
    PROVE  /\ r.event.guild \in guilds /\ r.guild = Len(guildObj[r.event.guild])
           /\ Obj(me) = Current(r.event.guild) /\ Obj(me) \in GuildObject
  <1>1. r.guild = GuildPtr(r.event.guild)
    BY DEF HasCurrent
  <1>2. r.event.guild \in guilds /\ r.guild = Len(guildObj[r.event.guild])
    BY <1>1 DEF GuildPtr
  <1> QED BY <1>2, CurrentType DEF Obj, Current

LEMMA ChanInHand ==
    ASSUME TypeInv, NEW me \in Threads, NEW r, r = thread[me], HasCurrent(r), r.channel # 0
    PROVE  /\ r.event.channel \in channels /\ r.event.channel \in Channels
           /\ r.channel = Len(channelObj[r.event.channel])
           /\ Chan(me) = ChanOf(r.event.channel) /\ Chan(me) \in ChannelObject
           /\ r.channel = ChannelPtr(r.event.channel)
  <1>1. r.channel = ChannelPtr(r.event.channel)
    BY DEF HasCurrent
  <1>2. r.event.channel \in channels /\ r.channel = Len(channelObj[r.event.channel])
    BY <1>1 DEF ChannelPtr
  <1>3. channels \subseteq Channels /\ channelObj[r.event.channel] \in Seq(ChannelObject)
        /\ channelObj[r.event.channel] # <<>>
    BY <1>2 DEF TypeInv, ChannelPart
  <1>4. Len(channelObj[r.event.channel]) \in 1..Len(channelObj[r.event.channel])
    BY <1>3, EmptySeq, LenProperties
  <1>5. Chan(me) \in ChannelObject
    BY <1>2, <1>3, <1>4, ElementOfSeq DEF Chan
  <1> QED BY <1>1, <1>2, <1>3, <1>5 DEF Chan, ChanOf

LEMMA WritesRead ==
    ASSUME TypeInv, NEW me \in Threads, NEW r, r = thread[me], HasCurrent(r), r.guild # 0,
           Uses(me) \/ r.step = "removeMember", NEW obj \in GuildObject, SetObj(me, obj)
    PROVE  Writes(r.event.guild, obj)
  <1>1. /\ r.event.guild \in guilds /\ r.guild = Len(guildObj[r.event.guild])
    BY InHand
  <1>2. guilds' = guilds
    BY SetObjType
  <1>3. \A g \in Guilds : Len(guildObj'[g]) = Len(guildObj[g])
    BY SetObjType
  <1>4. guilds \subseteq Guilds
    BY DEF TypeInv, GuildPart
  <1>5. \A g \in guilds : GuildPtr(g)' = GuildPtr(g)
    BY <1>2, <1>3, <1>4 DEF GuildPtr
  <1>6. Current(r.event.guild)' = obj
    <2>1. guildObj'[r.event.guild][r.guild] = obj
      BY SetObjType
    <2> QED BY <1>1, <1>3, <1>4, <2>1 DEF Current
  <1>7. ASSUME NEW g \in guilds \ {r.event.guild} PROVE Current(g)' = Current(g)
    <2>1. guildObj'[g] = guildObj[g]
      BY <1>4 DEF SetObj, TypeInv, GuildPart
    <2> QED BY <2>1 DEF Current
  <1> QED BY <1>1, <1>2, <1>5, <1>6, <1>7 DEF Writes

LEMMA OpensRead ==
    ASSUME TypeInv, NEW c \in Channels, MakeChannel(c)
    PROVE  /\ Opens(c) /\ ChannelPtr(c)' = Len(channelObj'[c]) /\ Len(channelObj'[c]) \in Nat \ {0}
           /\ c \notin channels => ChanOf(c)' = NewChannel
  <1>1. /\ channels' = channels \cup {c} /\ channels \subseteq Channels
        /\ \A d \in Channels : d # c => channelObj'[d] = channelObj[d]
        /\ c \in channels => channelObj'[c] = channelObj[c]
        /\ c \notin channels => channelObj'[c] = Append(channelObj[c], NewChannel)
        /\ Len(channelObj'[c]) \in Nat \ {0}
    BY MakeChannelType DEF TypeInv, ChannelPart
  <1>2. \A d \in Channels : d \in channels \/ d # c => ChannelPtr(d)' = ChannelPtr(d)
    BY <1>1 DEF ChannelPtr
  <1>3. \A d \in channels : ChanOf(d)' = ChanOf(d)
    BY <1>1, <1>2 DEF ChanOf
  <1>4. ChannelPtr(c)' = Len(channelObj'[c])
    BY <1>1 DEF ChannelPtr
  <1>5. ASSUME c \notin channels PROVE ChanOf(c)' = NewChannel
    <2>1. channelObj[c] \in Seq(ChannelObject)
      BY DEF TypeInv, ChannelPart
    <2>2. channelObj'[c][Len(channelObj'[c])] = NewChannel
      BY <1>1, <1>5, <2>1, NewType, AppendProperties
    <2> QED BY <1>4, <2>2 DEF ChanOf
  <1> QED BY <1>1, <1>2, <1>3, <1>4, <1>5 DEF Opens

LEMMA WritesChanRead ==
    ASSUME TypeInv, NEW me \in Threads, NEW r, r = thread[me], HasCurrent(r), r.channel # 0,
           NEW chan \in ChannelObject, SetChan(me, chan)
    PROVE  WritesChan(r.event.channel, chan)
  <1> PICK c, n : c = r.event.channel /\ n = r.channel
    OBVIOUS
  <1>1. c \in channels /\ c \in Channels /\ n = Len(channelObj[c]) /\ channels \subseteq Channels
    BY ChanInHand DEF TypeInv, ChannelPart
  <1>2. channels' = channels /\ channelObj' = [channelObj EXCEPT ![c][n] = chan]
    BY DEF SetChan
  <1>3. channelObj \in [Channels -> Seq(ChannelObject)] /\ channelObj[c] # <<>>
    BY <1>1 DEF TypeInv, ChannelPart
  <1>4. n \in 1..Len(channelObj[c])
    BY <1>1, <1>3, EmptySeq, LenProperties
  <1>5. /\ Len(channelObj'[c]) = n /\ channelObj'[c][n] = chan
        /\ \A d \in Channels : d # c => channelObj'[d] = channelObj[d]
    <2>1. channelObj'[c] = [channelObj[c] EXCEPT ![n] = chan]
      BY <1>1, <1>2, <1>3
    <2>2. Len([channelObj[c] EXCEPT ![n] = chan]) = Len(channelObj[c])
          /\ [channelObj[c] EXCEPT ![n] = chan][n] = chan
      BY <1>1, <1>3, <1>4, ExceptSeq
    <2> QED BY <1>1, <1>2, <1>3, <2>1, <2>2
  <1>6. \A d \in Channels : ChannelPtr(d)' = ChannelPtr(d)
    BY <1>1, <1>2, <1>5 DEF ChannelPtr
  <1>7. ChanOf(c)' = chan
    BY <1>1, <1>2, <1>5 DEF ChanOf, ChannelPtr
  <1>8. \A d \in channels \ {c} : ChanOf(d)' = ChanOf(d)
    BY <1>1, <1>5, <1>6 DEF ChanOf
  <1> QED BY <1>1, <1>2, <1>6, <1>7, <1>8 DEF WritesChan

-----------------------------------------------------------------------------
(* The steps of the handlers.                                              *)

\* The handler goes on as s, and the cache is what q and s say.
Carried(me, q) == \E s : s = thread'[me] /\ Matches(q, s)'

LEMMA IdleQuiet ==
    /\ Idle.step = "idle" /\ Idle.guild = 0 /\ Idle.channel = 0 /\ Idle.event.kind = "READY"
    /\ \A g : ~Concerns(Idle, g) /\ ~LateGuild(Idle, g) /\ ~LateLoad(Idle, g)
    /\ \A g, x : ~LateRole(Idle, g, x) /\ ~LateMember(Idle, g, x) /\ ~LateChannel(Idle, g, x)
  BY DEF Idle, NoEvent, Concerns, LateGuild, LateLoad, LateRole, LateMember, LateChannel

LEMMA Here ==
    ASSUME TypeInv, NEW me \in Threads, NEW q \in Stage, NEW r, r = thread[me], Matches(q, r)
    PROVE  /\ r \in ThreadState /\ Equipped(r) /\ r.event \in Event /\ WellFormed(r.event)
           /\ r.event.kind \in HandledAt[r.step] /\ r.event.kind \in AllKinds
           /\ r.guild \in Nat /\ r.channel \in Nat
           /\ \A g \in Guilds : q.server[g] \in ServerGuild
           /\ r.event.kind # "READY" /\ r.step # "idle" =>
                  /\ r.event.guild \in Guilds
                  /\ Says(r.event, q, q.server[r.event.guild])
  <1>1. /\ r \in ThreadState /\ Equipped(r) /\ r.event \in Event /\ WellFormed(r.event)
        /\ r.event.kind \in HandledAt[r.step] /\ r.guild \in Nat /\ r.channel \in Nat
    BY ThreadAt
  <1>2. \A g \in Guilds : q.server[g] \in ServerGuild
    BY DEF Stage
  <1>3. r.event.kind # "READY" => r.event.guild \in Guilds
    BY <1>1, NoLoad
  <1> QED BY <1>1, <1>2, <1>3 DEF Matches, True, Event

LEMMA GoesTo ==
    ASSUME TypeInv, NEW me \in Threads, NEW r, r = thread[me]
    PROVE  /\ \A st : Goto(me, st) => /\ thread'[me].step = st /\ thread'[me].event = r.event
                                      /\ thread'[me].guild = r.guild
                                      /\ thread'[me].channel = r.channel
                                      /\ thread'[me].todo = r.todo
           /\ Return(me) => thread'[me] = Idle
  <1>1. thread \in [Threads -> ThreadState] /\ r \in ThreadState
    BY ThreadAt
  <1> QED BY <1>1 DEF Goto, Return, ThreadState

\* Where a guild is described, it is in the cache.
LEMMA Described ==
    ASSUME TypeInv, NEW me \in Threads, NEW q \in Stage, NEW r, r = thread[me], Matches(q, r),
           r.event.kind \notin {"READY", "GUILD_DELETE"}, r.step # "idle", ~LateGuild(r,
               r.event.guild)
    PROVE  /\ r.event.guild \in guilds /\ r.event.guild \in Guilds
           /\ HasRoles(q, r, r.event.guild) /\ HasMembers(q, r, r.event.guild)
           /\ HasChannels(q, r, r.event.guild)
           /\ Says(r.event, q, q.server[r.event.guild])
           /\ q.server[r.event.guild] \in ServerGuild
  <1>1. /\ r.event.guild \in Guilds /\ Says(r.event, q, q.server[r.event.guild])
        /\ q.server[r.event.guild] \in ServerGuild
    BY Here
  <1>2. r.event.guild \in q.told /\ q.server[r.event.guild].joined
    BY <1>1 DEF Says
  <1>3. Has(q, r, r.event.guild)
    BY <1>2 DEF Matches, HasAll
  <1> QED BY <1>1, <1>3 DEF Has

\* A step leaves the guilds other than h alone, and their channels.
Beside(h) ==
    /\ \A g \in Guilds \ {h} : g \in guilds' <=> g \in guilds
    /\ \A g \in guilds \ {h} : /\ Current(g)' = Current(g) /\ GuildPtr(g)' = GuildPtr(g)
                              /\ \A u \in Users : info'[u][g] = info[u][g]
    /\ \A c \in Channels : GuildOf[c] # h =>
           /\ c \in channels => c \in channels' /\ ChanOf(c)' = ChanOf(c)
           /\ ChannelPtr(c)' = ChannelPtr(c)

LEMMA Aside ==
    ASSUME TypeInv, TypeInv', NEW q \in Stage, Sound(q), NEW r, NEW s, NEW h, Beside(h),
        NEW g \in Guilds, g # h,
           ~Concerns(r, g), ~Concerns(s, g)
    PROVE  /\ g \in guilds /\ Entries(g) => Entries(g)'
           /\ Has(q, r, g) => Has(q, s, g)'
           /\ g \in guilds /\ OnlyHas(q, r, g) => OnlyHas(q, s, g)'
  <1>1. ASSUME g \in guilds PROVE Current(g)' = Current(g) /\ Current(g) \in GuildObject
            /\ g \in guilds'
    BY <1>1, CurrentType DEF Beside
  <1>2. ASSUME g \in guilds, Entries(g) PROVE Entries(g)'
    BY <1>1, <1>2 DEF Entries, Beside
  <1>3. ASSUME Has(q, r, g) PROVE Has(q, s, g)'
    <2>1. g \in guilds /\ HasRoles(q, r, g) /\ HasMembers(q, r, g) /\ HasChannels(q, r, g)
      BY <1>3 DEF Has
    <2>2. HasRoles(q, s, g)'
      BY <1>1, <2>1 DEF HasRoles, LateRole, LateLoad
    <2>3. HasMembers(q, s, g)'
      BY <1>1, <2>1 DEF HasMembers, HasMember, LateMember, LateLoad, Beside
    <2>4. q.server[g].channels \subseteq Channels /\ \A c \in q.server[g].channels : GuildOf[c] = g
      BY DEF Stage, ServerGuild, Sound
    <2>5. HasChannels(q, s, g)'
      BY <1>1, <2>1, <2>4 DEF HasChannels, Linked, LateChannel, Beside
    <2> QED BY <1>1, <2>1, <2>2, <2>3, <2>5 DEF Has
  <1>4. ASSUME g \in guilds, OnlyHas(q, r, g) PROVE OnlyHas(q, s, g)'
    BY <1>1, <1>4 DEF OnlyHas
  <1> QED BY <1>2, <1>3, <1>4

\* A step of the handler is sound if it is for the guild it is about.
LEMMA Whole ==
    ASSUME TypeInv, TypeInv', NEW me \in Threads, NEW q \in Stage, Sound(q), NEW r, r = thread[me],
           Matches(q, r), NEW s, s = thread'[me], NEW h, Beside(h),
           \A g \in Guilds : Concerns(r, g) \/ Concerns(s, g) => g = h,
           fault' = "none", outages' = outages, HasCurrent(s)', AllKnown(s)', RolesSeen(q)',
           s.step # "idle" => True(s.event, q),
           h \in guilds' => Entries(h)',
           h \in q.told /\ q.server[h].joined => Has(q, s, h)' \/ LateGuild(s, h),
           outages = 0 /\ h \in guilds' => OnlyHas(q, s, h)'
    PROVE  Carried(me, q)
  <1>1. guilds \subseteq Guilds /\ guilds' \subseteq Guilds /\ q.told \subseteq Guilds
    BY DEF TypeInv, GuildPart, Stage
  <1>2. \A g \in guilds' : Entries(g)'
    <2> SUFFICES ASSUME NEW g \in guilds' PROVE Entries(g)'
      OBVIOUS
    <2>1. CASE g # h
      BY <1>1, <2>1, Aside DEF Matches, Beside
    <2> QED BY <2>1
  <1>3. HasAll(q, s)'
    <2> SUFFICES ASSUME NEW g \in q.told, q.server[g].joined PROVE Has(q, s, g)' \/ LateGuild(s, g)
      BY DEF HasAll, LateGuild, Concerns
    <2>1. CASE g # h
      <3>1. Has(q, r, g)
        BY <1>1, <2>1 DEF Matches, HasAll, LateGuild
      <3> QED BY <1>1, <2>1, <3>1, Aside
    <2> QED BY <2>1
  <1>4. HasNoMore(q, s)'
    <2> SUFFICES ASSUME outages = 0, NEW g \in guilds' PROVE OnlyHas(q, s, g)'
      BY DEF HasNoMore
    <2>1. CASE g # h
      <3>1. g \in guilds /\ OnlyHas(q, r, g)
        BY <1>1, <2>1 DEF Matches, HasNoMore, Beside
      <3> QED BY <1>1, <2>1, <3>1, Aside
    <2> QED BY <2>1
  <1>5. Matches(q, s)'
    BY <1>2, <1>3, <1>4, Zenon DEF Matches, True, Says, Greeted, Listed
  <1> QED BY <1>5 DEF Carried

\* What a handler has yet to enter it has still to enter after the step.
StillLate(r, s, h) ==
    /\ \A x \in Roles : LateRole(r, h, x) => LateRole(s, h, x)
    /\ \A u \in Users : LateMember(r, h, u) => LateMember(s, h, u)

\* An event that takes nothing away.
DropsNothing(e) == DropsRole(e) = {} /\ DropsMember(e) = {} /\ DropsChannel(e) = {}

\* The handlers that enter a channel in its guild.
LEMMA EntersCarried ==
    ASSUME TypeInv, TypeInv', NEW me \in Threads, NEW q \in Stage, Sound(q), NEW r, r = thread[me],
           Matches(q, r), r.step \in {"loadChannel", "link", "update"},
           Uses(me), NEW chan \in ChannelObject, SetChan(me, chan), Enters(me),
           chan.known, chan.guild = r.guild, info' = info, fault' = fault, outages' = outages,
           r.event.channel \in q.server[r.event.guild].channels,
           DropsNothing(r.event), r.event.kind \notin {"READY", "GUILD_DELETE"},
           NEW s, s = thread'[me], s.step \notin {"loadChannel", "link", "update"},
           s = Idle \/ (s.event = r.event /\ s.guild = r.guild /\ s.channel = r.channel),
           StillLate(r, s, r.event.guild),
           \A d \in Channels : LateChannel(r, r.event.guild, d) =>
               d = r.event.channel \/ LateChannel(s, r.event.guild, d)
    PROVE  Carried(me, q)
  <1> PICK h, c, n, k : h = r.event.guild /\ c = r.event.channel /\ n = r.guild /\ k = r.channel
    OBVIOUS
  <1> DEFINE obj == [Obj(me) EXCEPT !.channels = Emplace(@, c, k)]
  <1>1. SetObj(me, obj) /\ fault = "none"
    BY DEF Enters, Matches
  <1>2. n # 0 /\ k # 0
    BY HasGuild, HasChannel DEF GuildSteps, ChannelSteps
  <1>3. h \in guilds /\ Obj(me) = Current(h) /\ Obj(me) \in GuildObject /\ n = GuildPtr(h)
            /\ n \in Nat
    BY <1>2, InHand, Here DEF Matches, HasCurrent
  <1>4. c \in channels /\ c \in Channels /\ Chan(me) = ChanOf(c) /\ Chan(me) \in ChannelObject
        /\ k = ChannelPtr(c) /\ k \in Nat /\ GuildOf[c] = h
    BY <1>2, ChanInHand, Here DEF Matches, Equipped
  <1>5. PICK ob : ob = obj
    BY Zenon
  <1>7. /\ ob \in GuildObject /\ ob.roles = Current(h).roles /\ ob.members = Current(h).members
        /\ \A d \in Channels : ob.channels[d] = IF d = c /\ Current(h).channels[c] = 0 THEN k
                                                ELSE Current(h).channels[d]
    BY <1>3, <1>4, <1>5, Zenon DEF GuildObject, Emplace
  <1>8. Writes(h, ob)
    BY <1>1, <1>2, <1>5, <1>7, WritesRead DEF Matches
  <1>9. WritesChan(c, chan)
    BY <1>1, <1>2, WritesChanRead DEF Matches
  <1>10. /\ HasRoles(q, r, h) /\ HasMembers(q, r, h) /\ HasChannels(q, r, h)
         /\ Says(r.event, q, q.server[h]) /\ q.server[h] \in ServerGuild /\ h \in Guilds
    BY Described DEF LateGuild
  <1> HIDE DEF obj
  <1>12. Entries(h)'
    BY <1>3, <1>4, <1>7, <1>8, <1>9 DEF Entries, Matches, Writes, WritesChan
  <1>11. HasCurrent(s)' /\ (s.step # "idle" => s.event = r.event)
    BY <1>2, <1>3, <1>4, <1>8, <1>9, IdleQuiet DEF HasCurrent, Writes, WritesChan
  <1>13. AllKnown(s)'
    BY <1>9 DEF AllKnown, Matches, WritesChan
  <1>14. RolesSeen(q)'
    BY <1>1 DEF RolesSeen, Matches, Seen
  <1>15. Has(q, s, h)'
    <2>1. HasRoles(q, s, h)'
      BY <1>7, <1>8, <1>10, Zenon DEF HasRoles, StillLate, Writes, ServerGuild
    <2>2. HasMembers(q, s, h)'
      BY <1>7, <1>8, <1>10, Zenon DEF HasMembers, HasMember, StillLate, Writes
    <2>3. HasChannels(q, s, h)'
      <3>1. ob.channels[c] = k
        BY <1>3, <1>4, <1>7 DEF Matches, Entries
      <3>2. Linked(h, c)'
        BY <1>3, <1>4, <1>8, <1>9, <3>1 DEF Linked, Writes, WritesChan
      <3>3. ASSUME NEW d \in q.server[h].channels, d # c PROVE Linked(h, d)' \/ LateChannel(s, h, d)
        <4>1. d \in Channels /\ (Linked(h, d) \/ LateChannel(r, h, d))
          BY <1>10, <3>3 DEF HasChannels, ServerGuild
        <4> QED BY <1>3, <1>7, <1>8, <1>9, <3>3, <4>1 DEF Linked, Writes, WritesChan
      <3> QED BY <3>2, <3>3 DEF HasChannels
    <2> QED BY <1>3, <1>8, <2>1, <2>2, <2>3 DEF Has, Writes
  <1>16. ASSUME outages = 0 PROVE OnlyHas(q, s, h)'
    <2>1. OnlyHas(q, r, h) /\ c \in q.server[h].channels
      BY <1>3, <1>10, <1>16 DEF Matches, HasNoMore
    <2> QED BY <1>3, <1>4, <1>7, <1>8, <2>1, Zenon DEF OnlyHas, Writes, DropsNothing
  <1>17. Beside(h)
    BY <1>1, <1>4, <1>8, <1>9 DEF Beside, Writes, WritesChan
  <1>18. \A g \in Guilds : Concerns(r, g) \/ Concerns(s, g) => g = h
    BY IdleQuiet DEF Concerns
  <1>19. s.step # "idle" => True(s.event, q)
    BY <1>11, IdleQuiet DEF Matches
  <1> QED BY <1>1, <1>11, <1>12, <1>13, <1>14, <1>15, <1>16, <1>17, <1>18, <1>19, Whole

LEMMA LinkCarried ==
    ASSUME TypeInv, NEW me \in Threads, NEW q \in Stage, Sound(q), NEW r, r = thread[me],
           Matches(q, r), Link(me)
    PROVE  Carried(me, q)
  <1> DEFINE chan == [Chan(me) EXCEPT !.known = TRUE, !.guild = thread[me].guild]
  <1>1. /\ r.step = "link" /\ Uses(me) /\ SetChan(me, chan) /\ Enters(me)
        /\ Return(me) /\ info' = info /\ fault' = fault /\ outages' = outages /\ TypeInv'
    BY LinkType, Zenon DEF Link, At, userVars, serverVars
  <1>2. r.event.kind = "CHANNEL_CREATE" /\ r.channel # 0 /\ r.guild \in Nat
    BY <1>1, Here, KindsAt, HasChannel DEF ChannelSteps
  <1>3. chan \in ChannelObject /\ chan.known /\ chan.guild = r.guild
    BY <1>2, ChanInHand DEF Matches, ChannelObject
  <1>4. r.event.channel \in q.server[r.event.guild].channels
    BY <1>1, <1>2, Here DEF Says, ChannelKinds
  <1>5. Idle = thread'[me]
    BY <1>1, GoesTo
  <1>6. DropsNothing(r.event) /\ StillLate(r, Idle, r.event.guild)
        /\ \A d \in Channels : LateChannel(r, r.event.guild, d) => d = r.event.channel
    BY <1>2 DEF DropsNothing, DropsRole, DropsMember, DropsChannel, StillLate, LateRole, LateMember,
       LateChannel, LateLoad, BringsRole, BringsMember, BringsChannel
  <1> HIDE DEF chan
  <1> QED BY <1>1, <1>2, <1>3, <1>4, <1>5, <1>6, IdleQuiet, EntersCarried

LEMMA UpdateCarried ==
    ASSUME TypeInv, NEW me \in Threads, NEW q \in Stage, Sound(q), NEW r, r = thread[me],
           Matches(q, r), Update(me)
    PROVE  Carried(me, q)
  <1> DEFINE chan == [Chan(me) EXCEPT !.known = TRUE]
  <1>1. /\ r.step = "update" /\ Uses(me) /\ SetChan(me, chan) /\ Enters(me)
        /\ Return(me) /\ info' = info /\ fault' = fault /\ outages' = outages /\ TypeInv'
    BY UpdateType DEF Update, At, userVars, serverVars
  <1>2. r.event.kind = "CHANNEL_UPDATE" /\ r.channel # 0 /\ r.guild # 0
    BY <1>1, Here, KindsAt, HasGuild, HasChannel DEF GuildSteps, ChannelSteps
  <1>4. r.event.channel \in q.server[r.event.guild].channels
    BY <1>1, <1>2, Here DEF Says, ChannelKinds
  <1>3. chan \in ChannelObject /\ chan.known /\ chan.guild = r.guild
    <2>1. Chan(me) \in ChannelObject /\ Chan(me) = ChanOf(r.event.channel)
      BY <1>2, ChanInHand DEF Matches
    <2>2. HasChannels(q, r, r.event.guild)
      BY <1>1, <1>2, Described DEF LateGuild
    <2>3. Linked(r.event.guild, r.event.channel)
      BY <1>2, <1>4, <2>2 DEF HasChannels, LateChannel, BringsChannel
    <2>4. Chan(me).guild = r.guild
      BY <1>2, <2>1, <2>3 DEF Linked, Matches, HasCurrent
    <2> QED BY <2>1, <2>4 DEF ChannelObject
  <1>5. Idle = thread'[me]
    BY <1>1, GoesTo
  <1>6. DropsNothing(r.event) /\ StillLate(r, Idle, r.event.guild)
        /\ \A d \in Channels : LateChannel(r, r.event.guild, d) => d = r.event.channel
    BY <1>2 DEF DropsNothing, DropsRole, DropsMember, DropsChannel, StillLate, LateRole, LateMember,
       LateChannel, LateLoad, BringsRole, BringsMember, BringsChannel
  <1> HIDE DEF chan
  <1> QED BY <1>1, <1>2, <1>3, <1>4, <1>5, <1>6, IdleQuiet, EntersCarried

LEMMA LoadChannelCarried ==
    ASSUME TypeInv, NEW me \in Threads, NEW q \in Stage, Sound(q), NEW r, r = thread[me],
           Matches(q, r), LoadChannel(me)
    PROVE  Carried(me, q)
  <1> DEFINE chan == [Chan(me) EXCEPT !.known = TRUE, !.guild = thread[me].guild]
  <1>1. /\ r.step = "loadChannel" /\ Uses(me) /\ SetChan(me, chan) /\ Enters(me)
        /\ Goto(me, "loadChannels") /\ info' = info /\ fault' = fault /\ outages' = outages
        /\ TypeInv'
    BY LoadChannelType, Zenon DEF LoadChannel, At, userVars, serverVars
  <1>2. r.event.kind \in LoadKinds /\ r.channel # 0 /\ r.guild # 0 /\ r.guild \in Nat
    BY <1>1, Here, KindsAt, HasGuild, HasChannel DEF GuildSteps, ChannelSteps
  <1>3. chan \in ChannelObject /\ chan.known /\ chan.guild = r.guild
    BY <1>2, ChanInHand, Zenon DEF Matches, ChannelObject
  <1>4. r.event.channel \in q.server[r.event.guild].channels
    BY <1>1, <1>2, Here DEF Says, LoadKinds, Matches, HasCurrent
  <1> PICK s : s = thread'[me]
    OBVIOUS
  <1>5. s.step = "loadChannels" /\ s.event = r.event /\ s.guild = r.guild /\ s.channel = r.channel
        /\ s.todo = r.todo
    BY <1>1, GoesTo
  <1>6. DropsNothing(r.event) /\ StillLate(r, s, r.event.guild)
        /\ \A d \in Channels : LateChannel(r, r.event.guild, d) =>
               d = r.event.channel \/ LateChannel(s, r.event.guild, d)
    BY <1>1, <1>2, <1>5 DEF DropsNothing, DropsRole, DropsMember, DropsChannel, StillLate,
        LateRole, LateMember,
       LateChannel, LateLoad, BringsRole, BringsMember, BringsChannel, LoadKinds, Concerns
  <1>7. r.event.kind \notin {"READY", "GUILD_DELETE"}
    BY <1>2 DEF LoadKinds
  <1> HIDE DEF chan
  <1> QED BY <1>1, <1>2, <1>3, <1>4, <1>5, <1>6, <1>7, IdleQuiet, EntersCarried

\* A step that changes nothing of what the cache says.
Still ==
    /\ guilds' = guilds /\ channels' = channels /\ info' = info
    /\ \A g \in guilds : /\ GuildPtr(g)' = GuildPtr(g) /\ Current(g)'.roles = Current(g).roles
                         /\ Current(g)'.members = Current(g).members
                         /\ Current(g)'.channels = Current(g).channels
    /\ \A c \in Channels : ChannelPtr(c)' = ChannelPtr(c)
    /\ \A c \in channels : /\ ChanOf(c)'.known = ChanOf(c).known
                           /\ ChanOf(c)'.guild = ChanOf(c).guild

Linking == {"loadChannel", "link", "update"}

StillLateAll(r, s, h) ==
    /\ StillLate(r, s, h)
    /\ \A d \in Channels : LateChannel(r, h, d) => LateChannel(s, h, d)
    /\ LateGuild(r, h) => LateGuild(s, h)

LEMMA StillCarried ==
    ASSUME TypeInv, TypeInv', NEW me \in Threads, NEW q \in Stage, Sound(q), NEW r, r = thread[me],
           Matches(q, r), NEW h, h = r.event.guild, r.event.kind # "READY", r.step # "idle",
           Beside(h), Still, fault' = fault, outages' = outages,
           NEW s, s = thread'[me], s = Idle \/ s.event = r.event, HasCurrent(s)',
               r.step \notin Linking,
           StillLateAll(r, s, h),
           outages = 0 /\ h \in guilds /\ OnlyHas(q, r, h) => OnlyHas(q, s, h)
    PROVE  Carried(me, q)
  <1>1. h \in Guilds /\ q.server[h] \in ServerGuild
    BY Here
  <1>2. h \in guilds' => Entries(h)'
    BY DEF Entries, Still, Matches
  <1>3. h \in q.told /\ q.server[h].joined => Has(q, s, h)' \/ LateGuild(s, h)
    <2> SUFFICES ASSUME h \in q.told, q.server[h].joined, ~LateGuild(s, h)
                 PROVE  Has(q, s, h)'
      OBVIOUS
    <2>1. /\ h \in guilds /\ HasRoles(q, r, h) /\ HasMembers(q, r, h) /\ HasChannels(q, r, h)
      BY DEF Matches, HasAll, Has, StillLateAll
    <2>2. HasRoles(q, s, h)'
      BY <1>1, <2>1 DEF HasRoles, StillLateAll, StillLate, Still, ServerGuild
    <2>3. HasMembers(q, s, h)'
      BY <1>1, <2>1, Zenon DEF HasMembers, HasMember, StillLateAll, StillLate, Still
    <2>4. HasChannels(q, s, h)'
      BY <1>1, <2>1 DEF HasChannels, Linked, StillLateAll, Still, ServerGuild
    <2> QED BY <2>1, <2>2, <2>3, <2>4 DEF Has, Still
  <1>4. outages = 0 /\ h \in guilds' => OnlyHas(q, s, h)'
    BY Zenon DEF Matches, HasNoMore, OnlyHas, Still
  <1>5. AllKnown(s)'
    BY DEF AllKnown, Matches, Still, Linking
  <1>6. RolesSeen(q)'
    BY DEF RolesSeen, Seen, Matches, Still
  <1>7. \A g \in Guilds : Concerns(r, g) \/ Concerns(s, g) => g = h
    BY IdleQuiet DEF Concerns
  <1>8. fault' = "none" /\ (s.step # "idle" => True(s.event, q))
    BY IdleQuiet DEF Matches
  <1> QED BY <1>2, <1>3, <1>4, <1>5, <1>6, <1>7, <1>8, Whole

LEMMA StillThere ==
    ASSUME UNCHANGED <<guildVars, channelVars, info>>, NEW h
    PROVE  Still /\ Beside(h)
  <1>1. SameGuilds /\ SameChannels
    BY GuildsRead, ChannelsRead
  <1> QED BY <1>1 DEF Still, Beside, SameGuilds, SameChannels

LEMMA FindCarried ==
    ASSUME TypeInv, NEW me \in Threads, NEW q \in Stage, Sound(q), NEW r, r = thread[me],
           Matches(q, r), Find(me)
    PROVE  Carried(me, q)
  <1> PICK h, n, s : h = r.event.guild /\ n = GuildPtr(h) /\ s = thread'[me]
    OBVIOUS
  <1>1. /\ r.step = "find" /\ UNCHANGED <<guildVars, channelVars, info>> /\ outages' = outages
        /\ TypeInv'
        /\ fault' = (IF n = 0 /\ r.event.kind \in {"GUILD_MEMBER_ADD",
             "GUILD_ROLE_CREATE"} THEN "null" ELSE fault)
    BY FindType DEF Find, At, serverVars
  <1>2. r.event.kind \in DOMAIN AfterFind
    BY <1>1, Here, KindsAt
  <1>3. r.event.kind # "READY" /\ h \in Guilds
    BY <1>1, <1>2, Here DEF AfterFind
  <1>4. Still /\ Beside(h)
    BY <1>1, StillThere
  <1>5. r.event.kind # "GUILD_DELETE" => h \in guilds /\ n # 0
    BY <1>1, <1>2, Described, PtrType DEF LateGuild, AfterFind
  <1>6. fault' = fault
    BY <1>1, <1>5
  <1>7. CASE (n = 0 \/ (AfterFind[r.event.kind] = "join" /\ r.todo = {})) /\ Return(me)
    <2>1. s = Idle
      BY <1>7, GoesTo
    <2>2. HasCurrent(s)'
      BY <2>1, IdleQuiet DEF HasCurrent
    <2>3. h \in guilds => n # 0
      BY <1>3, PtrType
    <2>4. StillLateAll(r, s, h)
      BY <1>1, <1>2, <1>5, <1>7
      DEF StillLateAll, StillLate, LateRole, LateMember, LateChannel, LateLoad, LateGuild,
          BringsRole,
          BringsMember, BringsChannel, AfterFind
    <2>5. h \in guilds /\ OnlyHas(q, r, h) => OnlyHas(q, s, h)
      <3>1. h \in guilds => r.event.kind \in {"GUILD_MEMBER_ADD", "GUILD_MEMBER_UPDATE",
                                             "GUILD_MEMBERS_CHUNK", "PRESENCE_UPDATE"}
        BY <1>2, <1>7, <2>3 DEF AfterFind
      <3> QED BY <3>1, Zenon DEF OnlyHas, DropsRole, DropsMember, DropsChannel
    <2> QED BY <1>1, <1>3, <1>4, <1>6, <2>1, <2>2, <2>4, <2>5, StillCarried DEF Linking
  <1>8. CASE n # 0 /\ thread' = [thread EXCEPT ![me].step = AfterFind[r.event.kind],
            ![me].guild = n]
    <2>1. s.step = AfterFind[r.event.kind] /\ s.event = r.event /\ s.guild = n
              /\ s.channel = r.channel
          /\ s.todo = r.todo
      BY <1>8, ThreadAt DEF ThreadState
    <2>2. s.step \in {"load", "mark", "createChannel", "findChannel", "join", "loadRole",
              "removeRole"}
          /\ r.event.kind # "GUILD_CREATE"
      BY <1>2, <2>1 DEF AfterFind
    <2>3. HasCurrent(s)'
      <3>1. h \in guilds
        BY <1>8 DEF GuildPtr
      <3> QED BY <1>4, <2>1, <2>2, <3>1, Here DEF HasCurrent, Matches, Still, Equipped
    <2>4. StillLateAll(r, s, h)
      BY <1>2, <2>1, <2>2
      DEF StillLateAll, StillLate, LateRole, LateMember, LateChannel, LateLoad, LateGuild, Concerns
    <2>5. h \in guilds /\ OnlyHas(q, r, h) => OnlyHas(q, s, h)
      BY <2>1, Zenon DEF OnlyHas, Concerns
    <2> QED BY <1>1, <1>3, <1>4, <1>6, <2>1, <2>3, <2>4, <2>5, StillCarried DEF Linking
  <1> QED BY <1>7, <1>8 DEF Find

LEMMA MarkCarried ==
    ASSUME TypeInv, NEW me \in Threads, NEW q \in Stage, Sound(q), NEW r, r = thread[me],
           Matches(q, r), Mark(me)
    PROVE  Carried(me, q)
  <1> PICK h, s : h = r.event.guild /\ s = thread'[me]
    OBVIOUS
  <1>1. /\ r.step = "mark" /\ UNCHANGED <<guildVars, channelVars, info>> /\ outages' = outages
        /\ TypeInv'
        /\ fault' = fault /\ Goto(me, "remove")
    BY MarkType DEF Mark, At, serverVars, userVars
  <1>2. r.event.kind = "GUILD_DELETE" /\ r.guild # 0
    BY <1>1, Here, KindsAt, HasGuild DEF GuildSteps
  <1>3. h \in guilds
    BY <1>2, InHand DEF Matches
  <1>4. Still /\ Beside(h)
    BY <1>1, StillThere
  <1>5. s.step = "remove" /\ s.event = r.event /\ s.guild = r.guild /\ s.channel = r.channel
        /\ s.todo = r.todo
    BY <1>1, GoesTo
  <1>6. HasCurrent(s)'
    BY <1>3, <1>4, <1>5, Here DEF HasCurrent, Matches, Still, Equipped
  <1>7. StillLateAll(r, s, h)
    BY <1>2, <1>5
    DEF StillLateAll, StillLate, LateRole, LateMember, LateChannel, LateLoad, LateGuild, Concerns
  <1>8. OnlyHas(q, r, h) => OnlyHas(q, s, h)
    BY <1>5, Zenon DEF OnlyHas, Concerns
  <1> QED BY <1>1, <1>2, <1>4, <1>5, <1>6, <1>7, <1>8, StillCarried DEF Linking

LEMMA FindChannelCarried ==
    ASSUME TypeInv, NEW me \in Threads, NEW q \in Stage, Sound(q), NEW r, r = thread[me],
           Matches(q, r), FindChannel(me)
    PROVE  Carried(me, q)
  <1> PICK h, c, n, s : h = r.event.guild /\ c = r.event.channel /\ n = ChannelPtr(c)
          /\ s = thread'[me]
    OBVIOUS
  <1>1. /\ r.step = "findChannel" /\ UNCHANGED <<guildVars, channelVars, info>>
        /\ outages' = outages /\ TypeInv'
        /\ fault' = fault
    BY FindChannelType DEF FindChannel, At, serverVars, userVars
  <1>2. r.event.kind \in {"CHANNEL_DELETE", "MESSAGE_CREATE"}
    BY <1>1, Here, KindsAt
  <1>3. r.event.kind # "READY" /\ h \in Guilds /\ c \in Channels
    BY <1>1, <1>2, Here, NoLoad DEF ChannelKinds
  <1>4. Still /\ Beside(h)
    BY <1>1, StillThere
  <1>5. h \in guilds
    BY <1>1, <1>2, Described DEF LateGuild
  <1>7. CASE n = 0 /\ Return(me)
    <2>1. s = Idle
      BY <1>7, GoesTo
    <2>2. HasCurrent(s)'
      BY <2>1, IdleQuiet DEF HasCurrent
    <2>3. Current(h).channels[c] = 0
      BY <1>3, <1>5, <1>7 DEF Matches, Entries
    <2>4. StillLateAll(r, s, h)
      BY <1>1, <1>2
      DEF StillLateAll, StillLate, LateRole, LateMember, LateChannel, LateLoad, LateGuild,
          BringsRole,
          BringsMember, BringsChannel
    <2>5. OnlyHas(q, r, h) => OnlyHas(q, s, h)
      BY <1>2, <2>3, Zenon DEF OnlyHas, DropsRole, DropsMember, DropsChannel
    <2> QED BY <1>1, <1>3, <1>4, <2>1, <2>2, <2>4, <2>5, StillCarried DEF Linking
  <1>8. CASE n # 0 /\ thread' = [thread EXCEPT ![me].step = AfterChannel[r.event.kind],
            ![me].channel = n]
    <2>1. s.step = AfterChannel[r.event.kind] /\ s.event = r.event /\ s.guild = r.guild
              /\ s.channel = n
          /\ s.todo = r.todo
      BY <1>8, ThreadAt DEF ThreadState
    <2>2. s.step \in {"lockChannel", "message"}
      BY <1>2, <2>1 DEF AfterChannel
    <2>3. HasCurrent(s)'
      BY <1>3, <1>4, <1>5, <2>1, <2>2 DEF HasCurrent, Matches, Still
    <2>4. StillLateAll(r, s, h)
      BY <1>2, <2>1, <2>2
      DEF StillLateAll, StillLate, LateRole, LateMember, LateChannel, LateLoad, LateGuild, Concerns
    <2>5. OnlyHas(q, r, h) => OnlyHas(q, s, h)
      BY <2>1, Zenon DEF OnlyHas, Concerns
    <2> QED BY <1>1, <1>3, <1>4, <2>1, <2>3, <2>4, <2>5, StillCarried DEF Linking
  <1> QED BY <1>7, <1>8 DEF FindChannel

LEMMA LockGuildsCarried ==
    ASSUME TypeInv, NEW me \in Threads, NEW q \in Stage, Sound(q), NEW r, r = thread[me],
           Matches(q, r), LockGuilds(me)
    PROVE  Carried(me, q)
  <1> PICK h, n, s : h = r.event.guild /\ n = GuildPtr(h) /\ s = thread'[me]
    OBVIOUS
  <1>1. /\ r.step = "lockGuilds" /\ UNCHANGED <<guildVars, channelVars, info>>
        /\ outages' = outages /\ TypeInv'
        /\ fault' = fault
    BY LockGuildsType DEF LockGuilds, At, serverVars, userVars
  <1>2. r.event.kind = "GUILD_MEMBER_REMOVE"
    BY <1>1, Here, KindsAt
  <1>3. h \in guilds /\ h \in Guilds
    BY <1>1, <1>2, Described DEF LateGuild
  <1>4. Still /\ Beside(h)
    BY <1>1, StillThere
  <1>5. n # 0 /\ thread' = [thread EXCEPT ![me].step = "removeMember", ![me].guild = n]
    BY <1>3, PtrType DEF LockGuilds
  <1>6. s.step = "removeMember" /\ s.event = r.event /\ s.guild = n /\ s.channel = r.channel
        /\ s.todo = r.todo
    BY <1>5, ThreadAt DEF ThreadState
  <1>7. HasCurrent(s)'
    BY <1>3, <1>4, <1>6, Here DEF HasCurrent, Matches, Still, Equipped
  <1>8. StillLateAll(r, s, h)
    BY <1>2, <1>6
    DEF StillLateAll, StillLate, LateRole, LateMember, LateChannel, LateLoad, LateGuild, Concerns
  <1>9. OnlyHas(q, r, h) => OnlyHas(q, s, h)
    BY <1>6, Zenon DEF OnlyHas, Concerns
  <1> QED BY <1>1, <1>2, <1>4, <1>6, <1>7, <1>8, <1>9, StillCarried DEF Linking

LEMMA MessageCarried ==
    ASSUME TypeInv, NEW me \in Threads, NEW q \in Stage, Sound(q), NEW r, r = thread[me],
           Matches(q, r), Message(me)
    PROVE  Carried(me, q)
  <1> PICK h, c, n, s : h = r.event.guild /\ c = r.event.channel /\ n = Chan(me).guild
          /\ s = thread'[me]
    OBVIOUS
  <1>1. /\ r.step = "message" /\ UNCHANGED <<guildVars, channelVars, info>>
        /\ outages' = outages /\ TypeInv'
        /\ fault' = fault \/ ~Chan(me).known
        /\ \/ Return(me)
           \/ n # 0 /\ thread' = [thread EXCEPT ![me].step = "add", ![me].guild = n]
    BY MessageType DEF Message, At, serverVars
  <1>2. r.event.kind \in MessageKinds
    BY <1>1, Here, KindsAt
  <1>3. r.event.kind \notin {"READY", "GUILD_CREATE", "GUILD_DELETE"} /\ h \in Guilds
            /\ c \in Channels
    BY <1>2, Here, NoLoad DEF ChannelKinds, MessageKinds
  <1>4. Still /\ Beside(h)
    BY <1>1, StillThere
  <1>5. h \in guilds /\ HasChannels(q, r, h) /\ Says(r.event, q, q.server[h])
    BY <1>1, <1>3, Described DEF LateGuild
  <1>6. r.channel # 0 /\ Chan(me) = ChanOf(c)
    BY <1>1, HasChannel, ChanInHand DEF ChannelSteps, Matches
  <1>7. Linked(h, c)
    BY <1>2, <1>3, <1>5 DEF HasChannels, LateChannel, BringsChannel, MessageKinds, Says,
        ChannelKinds
  <1>8. Chan(me).known /\ n = GuildPtr(h) /\ fault' = fault
    BY <1>1, <1>6, <1>7 DEF Linked
  <1>9. CASE Return(me)
    <2>1. s = Idle
      BY <1>9, GoesTo
    <2>2. HasCurrent(s)'
      BY <2>1, IdleQuiet DEF HasCurrent
    <2>3. StillLateAll(r, s, h)
      BY <1>2, <1>3
      DEF StillLateAll, StillLate, LateRole, LateMember, LateChannel, LateLoad, LateGuild,
          BringsRole,
          BringsMember, BringsChannel, MessageKinds
    <2>4. OnlyHas(q, r, h) => OnlyHas(q, s, h)
      BY <1>2, Zenon DEF OnlyHas, DropsRole, DropsMember, DropsChannel, MessageKinds
    <2> QED BY <1>1, <1>3, <1>4, <1>8, <2>1, <2>2, <2>3, <2>4, StillCarried DEF Linking
  <1>10. CASE thread' = [thread EXCEPT ![me].step = "add", ![me].guild = n]
    <2>1. s.step = "add" /\ s.event = r.event /\ s.guild = n /\ s.channel = r.channel
              /\ s.todo = r.todo
      BY <1>10, ThreadAt DEF ThreadState
    <2>2. HasCurrent(s)'
      BY <1>3, <1>4, <1>5, <1>8, <2>1 DEF HasCurrent, Matches, Still
    <2>3. StillLateAll(r, s, h)
      BY <1>3, <2>1
      DEF StillLateAll, StillLate, LateRole, LateMember, LateChannel, LateLoad, LateGuild, Concerns
    <2>4. OnlyHas(q, r, h) => OnlyHas(q, s, h)
      BY <2>1, Zenon DEF OnlyHas, Concerns
    <2> QED BY <1>1, <1>3, <1>4, <1>8, <2>1, <2>2, <2>3, <2>4, StillCarried DEF Linking
  <1> QED BY <1>1, <1>9, <1>10

LEMMA LockChannelCarried ==
    ASSUME TypeInv, NEW me \in Threads, NEW q \in Stage, Sound(q), NEW r, r = thread[me],
           Matches(q, r), LockChannel(me)
    PROVE  Carried(me, q)
  <1> PICK h, c, s : h = r.event.guild /\ c = r.event.channel /\ s = thread'[me]
    OBVIOUS
  <1> DEFINE chan == [Chan(me) EXCEPT !.holder = me]
  <1>1. /\ r.step = "lockChannel" /\ UNCHANGED <<guildVars, info>> /\ outages' = outages /\ TypeInv'
        /\ fault' = fault /\ SetChan(me, chan) /\ Goto(me, "erase")
    BY LockChannelType DEF LockChannel, At, serverVars, userVars
  <1>2. r.event.kind = "CHANNEL_DELETE" /\ r.channel # 0
    BY <1>1, Here, KindsAt, HasChannel DEF ChannelSteps
  <1>3. h \in guilds /\ h \in Guilds
    BY <1>1, <1>2, Described DEF LateGuild
  <1>4. c \in channels /\ c \in Channels /\ Chan(me) = ChanOf(c) /\ Chan(me) \in ChannelObject
            /\ GuildOf[c] = h
    BY <1>2, ChanInHand, Here DEF Matches, Equipped
  <1>5. chan \in ChannelObject /\ chan.known = ChanOf(c).known /\ chan.guild = ChanOf(c).guild
    BY <1>4 DEF ChannelObject, Holder
  <1> HIDE DEF chan
  <1>6. WritesChan(c, chan)
    BY <1>1, <1>2, <1>5, WritesChanRead DEF Matches
  <1>7. SameGuilds
    BY <1>1, GuildsRead
  <1>8. Still /\ Beside(h)
    BY <1>1, <1>4, <1>5, <1>6, <1>7 DEF Still, Beside, SameGuilds, WritesChan
  <1>9. s.step = "erase" /\ s.event = r.event /\ s.guild = r.guild /\ s.channel = r.channel
        /\ s.todo = r.todo
    BY <1>1, GoesTo
  <1>10. HasCurrent(s)'
    BY <1>3, <1>4, <1>8, <1>9, Here DEF HasCurrent, Matches, Still
  <1>11. StillLateAll(r, s, h)
    BY <1>2, <1>9
    DEF StillLateAll, StillLate, LateRole, LateMember, LateChannel, LateLoad, LateGuild, Concerns
  <1>12. OnlyHas(q, r, h) => OnlyHas(q, s, h)
    BY <1>9, Zenon DEF OnlyHas, Concerns
  <1> QED BY <1>1, <1>2, <1>8, <1>9, <1>10, <1>11, <1>12, StillCarried DEF Linking

LEMMA LoadedCarried ==
    ASSUME TypeInv, NEW me \in Threads, NEW q \in Stage, Sound(q), NEW r, r = thread[me],
           Matches(q, r), Loaded(me)
    PROVE  Carried(me, q)
  <1> PICK h : h = r.event.guild
    OBVIOUS
  <1> DEFINE obj == [Obj(me) EXCEPT !.holder = Null]
  <1>1. /\ r.step = "loadChannels" /\ UNCHANGED <<channelVars, info>> /\ outages' = outages
        /\ TypeInv'
        /\ fault' = fault /\ Uses(me) /\ SetObj(me, obj) /\ Return(me) /\ r.todo = {}
    BY LoadedType DEF Loaded, At, serverVars, userVars
  <1>2. r.event.kind \in LoadKinds /\ r.guild # 0
    BY <1>1, Here, KindsAt, HasGuild DEF GuildSteps
  <1>3. h \in guilds /\ Obj(me) = Current(h) /\ Obj(me) \in GuildObject
    BY <1>2, InHand DEF Matches
  <1>4. /\ obj \in GuildObject /\ obj.roles = Current(h).roles /\ obj.members = Current(h).members
        /\ obj.channels = Current(h).channels
    BY <1>3 DEF GuildObject, Holder
  <1> HIDE DEF obj
  <1>5. Writes(h, obj)
    BY <1>1, <1>2, <1>4, WritesRead DEF Matches
  <1>6. SameChannels
    BY <1>1, ChannelsRead
  <1>7. Still /\ Beside(h)
    BY <1>1, <1>4, <1>5, <1>6 DEF Still, Beside, Writes, SameChannels
  <1>8. Idle = thread'[me] /\ HasCurrent(Idle)'
    BY <1>1, GoesTo, IdleQuiet DEF HasCurrent
  <1>9. StillLateAll(r, Idle, h)
    BY <1>1, <1>2
    DEF StillLateAll, StillLate, LateRole, LateMember, LateChannel, LateLoad, LateGuild, BringsRole,
        BringsMember, BringsChannel, LoadKinds
  <1>10. OnlyHas(q, r, h) => OnlyHas(q, Idle, h)
    BY <1>2, Zenon DEF OnlyHas, DropsRole, DropsMember, DropsChannel, LoadKinds
  <1> QED BY <1>1, <1>2, <1>7, <1>8, <1>9, <1>10, StillCarried DEF Linking, LoadKinds

\* The handlers that make a channel.
LEMMA OpensCarried ==
    ASSUME TypeInv, TypeInv', NEW me \in Threads, NEW q \in Stage, Sound(q), NEW r, r = thread[me],
           Matches(q, r), NEW h, h = r.event.guild, r.event.kind # "READY", r.step # "idle",
           UNCHANGED <<guildVars, info>>, fault' = fault, outages' = outages,
           NEW c \in Channels, GuildOf[c] = h, MakeChannel(c),
           NEW s, s = thread'[me], r.step \notin Linking,
           c \notin channels => s.step \in Linking /\ s.event.channel = c,
           \A g \in Guilds : Concerns(s, g) => g = h,
           s.step # "idle" => True(s.event, q), HasCurrent(s)',
           StillLateAll(r, s, h),
           outages = 0 /\ h \in guilds /\ OnlyHas(q, r, h) => OnlyHas(q, s, h)
    PROVE  Carried(me, q)
  <1>1. SameGuilds /\ Opens(c) /\ channels \subseteq Channels
    BY GuildsRead, OpensRead DEF TypeInv, ChannelPart
  <1>2. Beside(h)
    BY <1>1 DEF Beside, SameGuilds, Opens
  <1>3. h \in Guilds /\ q.server[h] \in ServerGuild
    BY Here
  <1>4. h \in guilds' => Entries(h)'
    BY <1>1 DEF Entries, Matches, SameGuilds, Opens, ChannelPtr
  <1>5. h \in q.told /\ q.server[h].joined => Has(q, s, h)' \/ LateGuild(s, h)
    <2> SUFFICES ASSUME h \in q.told, q.server[h].joined, ~LateGuild(s, h)
                 PROVE  Has(q, s, h)'
      OBVIOUS
    <2>1. /\ h \in guilds /\ HasRoles(q, r, h) /\ HasMembers(q, r, h) /\ HasChannels(q, r, h)
      BY DEF Matches, HasAll, Has, StillLateAll
    <2>2. HasRoles(q, s, h)'
      BY <1>1, <1>3, <2>1 DEF HasRoles, StillLateAll, StillLate, SameGuilds, ServerGuild
    <2>3. HasMembers(q, s, h)'
      BY <1>1, <2>1, Zenon DEF HasMembers, HasMember, StillLateAll, StillLate, SameGuilds
    <2>4. HasChannels(q, s, h)'
      BY <1>1, <1>3, <2>1 DEF HasChannels, Linked, StillLateAll, SameGuilds, Opens, ServerGuild
    <2> QED BY <1>1, <2>1, <2>2, <2>3, <2>4 DEF Has, SameGuilds
  <1>6. outages = 0 /\ h \in guilds' => OnlyHas(q, s, h)'
    BY <1>1, Zenon DEF Matches, HasNoMore, OnlyHas, SameGuilds
  <1>7. AllKnown(s)'
    BY <1>1 DEF AllKnown, Matches, Opens, Linking
  <1>8. RolesSeen(q)'
    BY DEF RolesSeen, Seen, Matches
  <1>9. \A g \in Guilds : Concerns(r, g) \/ Concerns(s, g) => g = h
    BY DEF Concerns
  <1>10. fault' = "none"
    BY DEF Matches
  <1> QED BY <1>2, <1>4, <1>5, <1>6, <1>7, <1>8, <1>9, <1>10, Whole

LEMMA CreateChannelCarried ==
    ASSUME TypeInv, NEW me \in Threads, NEW q \in Stage, Sound(q), NEW r, r = thread[me],
           Matches(q, r), CreateChannel(me)
    PROVE  Carried(me, q)
  <1> PICK h, c, n, s : h = r.event.guild /\ c = r.event.channel /\ n = Len(channelObj'[c])
          /\ s = thread'[me]
    OBVIOUS
  <1>1. /\ r.step = "createChannel" /\ UNCHANGED <<guildVars, info>> /\ outages' = outages
        /\ TypeInv'
        /\ fault' = fault /\ MakeChannel(c)
        /\ IF r.event.kind = "TYPING_START" THEN Return(me)
           ELSE thread' = [thread EXCEPT ![me].step = AfterChannel[r.event.kind], ![me].channel = n]
    BY CreateChannelType DEF CreateChannel, At, serverVars
  <1>2. r.event.kind \in {"CHANNEL_CREATE", "CHANNEL_UPDATE", "MESSAGE_UPDATE", "TYPING_START"}
    BY <1>1, Here, KindsAt
  <1>3. r.event.kind # "READY" /\ h \in Guilds /\ c \in Channels /\ GuildOf[c] = h
    BY <1>2, Here, NoLoad DEF ChannelKinds
  <1>4. h \in guilds /\ HasChannels(q, r, h) /\ Says(r.event, q, q.server[h])
    BY <1>1, <1>2, Described DEF LateGuild
  <1>5. r.event.kind # "CHANNEL_CREATE" => c \in channels
    BY <1>2, <1>4 DEF HasChannels, Linked, LateChannel, BringsChannel, Says, ChannelKinds
  <1>6. SameGuilds /\ Opens(c) /\ ChannelPtr(c)' = n /\ channels' = channels \cup {c}
    BY <1>1, <1>3, GuildsRead, OpensRead DEF Opens
  <1>7. CASE r.event.kind = "TYPING_START"
    <2>1. s = Idle
      BY <1>1, <1>7, GoesTo
    <2>2. HasCurrent(s)' /\ \A g \in Guilds : Concerns(s, g) => g = h
      BY <2>1, IdleQuiet DEF HasCurrent
    <2>3. StillLateAll(r, s, h)
      BY <1>7
      DEF StillLateAll, StillLate, LateRole, LateMember, LateChannel, LateLoad, LateGuild,
          BringsRole,
          BringsMember, BringsChannel
    <2>4. OnlyHas(q, r, h) => OnlyHas(q, s, h)
      BY <1>7 DEF OnlyHas, DropsRole, DropsMember, DropsChannel
    <2> QED BY <1>1, <1>3, <1>5, <1>7, <2>1, <2>2, <2>3, <2>4, IdleQuiet, OpensCarried DEF Linking
  <1>8. CASE r.event.kind # "TYPING_START"
    <2>1. s.step = AfterChannel[r.event.kind] /\ s.event = r.event /\ s.channel = n
              /\ s.guild = r.guild
          /\ s.todo = r.todo
      BY <1>1, <1>8, ThreadAt DEF ThreadState
    <2>2. /\ s.step \in {"link", "update", "message"}
          /\ r.event.kind = "CHANNEL_CREATE" => s.step = "link"
      BY <1>2, <1>8, <2>1 DEF AfterChannel
    <2>3. HasCurrent(s)'
      BY <1>4, <1>6, <2>1, <2>2 DEF HasCurrent, Matches, SameGuilds
    <2>4. StillLateAll(r, s, h)
      BY <1>2, <2>1, <2>2
      DEF StillLateAll, StillLate, LateRole, LateMember, LateChannel, LateLoad, LateGuild, Concerns
    <2>5. OnlyHas(q, r, h) => OnlyHas(q, s, h)
      BY <2>1, Zenon DEF OnlyHas, Concerns
    <2>6. True(s.event, q) /\ \A g \in Guilds : Concerns(s, g) => g = h
      BY <1>1, <2>1 DEF Matches, Concerns
    <2>7. c \notin channels => s.step \in Linking /\ s.event.channel = c
      BY <1>5, <2>1, <2>2 DEF Linking
    <2>8. r.step \notin Linking /\ r.step # "idle"
      BY <1>1 DEF Linking
    <2> QED BY <1>1, <1>3, <2>3, <2>4, <2>5, <2>6, <2>7, <2>8, OpensCarried
  <1> QED BY <1>7, <1>8

\* An event that brings and takes nothing but its load says what another with the load says.
LEMMA SaysOther ==
    ASSUME NEW q, NEW a, NEW e, NEW f, Says(e, q, a), f.kind = e.kind, f.guild = e.guild,
        f.load = e.load,
           BringsRole(f) = {}, DropsRole(f) = {}, DropsChannel(f) = {}, DropsMember(f) = {},
           f.kind \notin ChannelKinds \cup {"GUILD_MEMBER_ADD", "GUILD_MEMBER_UPDATE",
               "PRESENCE_UPDATE"}
    PROVE  Says(f, q, a)
  <1>1. Listed(f) = Listed(e)
    BY DEF Listed
  <1>2. /\ f.guild \in q.told /\ (a.joined <=> f.kind # "GUILD_DELETE")
        /\ \A u \in Listed(f) : f.load.members[u] = a.members[u]
        /\ f.load.roles \subseteq a.roles
        /\ f.kind # "GUILD_CREATE" => f.load.channels = {}
    BY <1>1 DEF Says
  <1>3. f.kind = "GUILD_CREATE" =>
           /\ f.load.roles = a.roles /\ f.load.channels = a.channels
           /\ \A u \in Users \ Offline : a.members[u] # NoInfo => u \in Listed(f)
    BY <1>1 DEF Says
  <1>4. /\ BringsRole(f) \cap q.gone = {} /\ BringsRole(f) \subseteq a.roles
        /\ DropsRole(f) \cap a.roles = {} /\ DropsChannel(f) \cap a.channels = {}
        /\ \A u \in DropsMember(f) : a.members[u] = NoInfo
    OBVIOUS
  <1>5. /\ f.kind \in ChannelKinds \ {"CHANNEL_DELETE"} => f.channel \in a.channels
        /\ f.kind \in {"GUILD_MEMBER_ADD", "GUILD_MEMBER_UPDATE", "PRESENCE_UPDATE"}
             => f.user \in Listed(f)
    OBVIOUS
  <1> QED BY <1>2, <1>3, <1>4, <1>5 DEF Says

LEMMA NextChannelCarried ==
    ASSUME TypeInv, NEW me \in Threads, NEW q \in Stage, Sound(q), NEW r, r = thread[me],
           Matches(q, r), NextChannel(me)
    PROVE  Carried(me, q)
  <1> PICK h, s : h = r.event.guild /\ s = thread'[me]
    OBVIOUS
  <1>1. /\ r.step = "loadChannels" /\ UNCHANGED <<guildVars, info>> /\ outages' = outages
        /\ TypeInv'
        /\ fault' = fault
    BY NextChannelType, Zenon DEF NextChannel, At, serverVars, userVars
  <1>2. PICK c \in r.todo : /\ MakeChannel(c)
            /\ thread' = [thread EXCEPT ![me] = [@ EXCEPT !.step = "loadChannel",
                 !.event.channel = c,
               !.channel = Len(channelObj'[c]), !.todo = r.todo \ {c}]]
    BY Zenon DEF NextChannel
  <1>3. r.event.kind \in LoadKinds /\ r.guild # 0 /\ r.event.kind # "READY"
    BY <1>1, Here, KindsAt, HasGuild DEF GuildSteps, LoadKinds
  <1>4. c \in r.event.load.channels /\ h \in Guilds /\ c \in Channels /\ GuildOf[c] = h
    <2>1. c \in r.event.load.channels
      BY <1>2, <1>3, Here DEF Equipped
    <2> QED BY <1>3, <2>1, Here DEF WellFormed, Event, ServerGuild
  <1>5. h \in guilds /\ Says(r.event, q, q.server[h])
    BY <1>1, <1>3, Described DEF LateGuild, LoadKinds
  <1> PICK n : n = Len(channelObj'[c])
    OBVIOUS
  <1>6. SameGuilds /\ Opens(c) /\ ChannelPtr(c)' = n /\ channels' = channels \cup {c}
    BY <1>1, <1>2, <1>4, GuildsRead, OpensRead DEF Opens
  <1>7. s.step = "loadChannel" /\ s.channel = n /\ s.guild = r.guild /\ s.todo = r.todo \ {c}
        /\ s.event = [r.event EXCEPT !.channel = c]
    BY <1>2, ThreadAt DEF ThreadState
  <1>8. /\ s.event.channel = c /\ s.event.kind = r.event.kind /\ s.event.guild = h
        /\ s.event.load = r.event.load /\ s.event.user = r.event.user /\ s.event.role = r.event.role
    BY <1>7, Here DEF Event
  <1>9. HasCurrent(s)'
    BY <1>4, <1>5, <1>6, <1>7, <1>8 DEF HasCurrent, Matches, SameGuilds
  <1>10. StillLateAll(r, s, h)
    BY <1>1, <1>3, <1>7, <1>8
    DEF StillLateAll, StillLate, LateRole, LateMember, LateChannel, LateLoad, LateGuild,
        Concerns, LoadKinds,
        BringsRole, BringsMember, BringsChannel
  <1>11. OnlyHas(q, r, h) => OnlyHas(q, s, h)
    BY <1>3, <1>8, Zenon DEF OnlyHas, Concerns, DropsRole, DropsMember, DropsChannel, LoadKinds
  <1>12. Says(s.event, q, q.server[h])
    <2> PICK e, f : e = r.event /\ f = s.event
      OBVIOUS
    <2>1. /\ f.kind = e.kind /\ e.kind \in LoadKinds /\ f.guild = e.guild /\ f.load = e.load
          /\ Says(e, q, q.server[h])
      BY <1>3, <1>5, <1>8
    <2>2. /\ BringsRole(f) = {} /\ DropsRole(f) = {} /\ DropsChannel(f) = {} /\ DropsMember(f) = {}
          /\ f.kind \notin ChannelKinds \cup {"GUILD_MEMBER_ADD", "GUILD_MEMBER_UPDATE",
               "PRESENCE_UPDATE"}
      BY <2>1 DEF BringsRole, DropsRole, DropsChannel, DropsMember, LoadKinds, ChannelKinds
    <2>3. Listed(f) = Listed(e)
      BY <2>1 DEF Listed
    <2>4. \A u \in DropsMember(f) : q.server[h].members[u] = NoInfo
      BY <2>2
    <2> QED BY <2>1, <2>2, <2>3, <2>4, SaysOther
  <1>13. True(s.event, q) /\ \A g \in Guilds : Concerns(s, g) => g = h
    BY <1>3, <1>8, <1>12 DEF True, Concerns
  <1>14. r.step \notin Linking /\ r.step # "idle" /\ s.step \in Linking
    BY <1>1, <1>7 DEF Linking
  <1> QED BY <1>1, <1>2, <1>3, <1>4, <1>8, <1>9, <1>10, <1>11, <1>13, <1>14, OpensCarried

\* A handler writes the members and roles of its guild h and goes on as s.
Rewrites(q, r, s, h, a, obj) ==
    /\ h = r.event.guild /\ a = q.server[h]
    /\ Writes(h, obj) /\ SameChannels /\ obj.channels = Current(h).channels
    /\ fault' = fault /\ outages' = outages
    /\ s = Idle \/ (s.event = r.event /\ s.guild = r.guild /\ s.channel = r.channel
         /\ s.step # "loadChannel")
    /\ \A u \in Users : \A g \in Guilds \ {h} : info'[u][g] = info[u][g]
    /\ \A u \in Users : info'[u][h] = info[u][h] \/ info'[u][h] = NoInfo \/ info'[u][h] \subseteq a.roles
    /\ \A x \in a.roles : x \in obj.roles \/ LateRole(s, h, x)
    /\ \A u \in Users \ Offline : a.members[u] # NoInfo =>
           \/ u \in obj.members /\ info'[u][h] # NoInfo /\ info'[u][h] \cap a.roles = a.members[u]
           \/ LateMember(s, h, u)
    /\ \A c \in Channels : LateChannel(r, h, c) => LateChannel(s, h, c)
    /\ outages = 0 => obj.roles \subseteq a.roles /\ \A u \in obj.members : a.members[u] # NoInfo

LEMMA WritesCarried ==
    ASSUME TypeInv, TypeInv', NEW me \in Threads, NEW q \in Stage, Sound(q), NEW r, r = thread[me],
           Matches(q, r), r.event.kind \notin {"READY", "GUILD_DELETE", "CHANNEL_DELETE"},
           r.step \notin Linking \cup {"idle", "create"},
           NEW h, NEW a, NEW obj \in GuildObject, NEW s, s = thread'[me], Rewrites(q, r, s, h, a,
               obj)
    PROVE  Carried(me, q)
  <1> USE DEF Rewrites
  <1>1. /\ h \in guilds /\ h \in Guilds /\ HasChannels(q, r, h) /\ Says(r.event, q, a)
        /\ a \in ServerGuild
    BY Described, Zenon DEF LateGuild
  <1>0. guilds \subseteq Guilds
    BY Zenon DEF TypeInv, GuildPart
  <1>2. Beside(h)
    BY <1>0, Zenon DEF Beside, Writes, SameChannels
  <1>3. HasCurrent(s)'
    <2>1. CASE s = Idle
      BY <2>1, IdleQuiet, Zenon DEF HasCurrent
    <2>2. CASE s.event = r.event /\ s.guild = r.guild /\ s.channel = r.channel
              /\ s.step # "loadChannel"
      <3>1. GuildPtr(h)' = GuildPtr(h)
        BY <1>1, Zenon DEF Writes
      <3>2. r.channel # 0 => r.event.channel \in Channels
        BY Here, Zenon DEF Equipped
      <3> QED BY <2>2, <3>1, <3>2, Zenon DEF HasCurrent, Matches, SameChannels
    <2> QED BY <2>1, <2>2, Zenon
  <1>4. AllKnown(s)'
    BY Zenon DEF AllKnown, Matches, SameChannels, Linking
  <1>5. RolesSeen(q)'
    <2> SUFFICES ASSUME NEW g \in Guilds, NEW u \in Users, info'[u][g] # NoInfo
                 PROVE  info'[u][g] \subseteq Seen(q, g)
      BY Zenon DEF RolesSeen, Seen
    <2>1. info[u][g] # NoInfo => info[u][g] \subseteq Seen(q, g)
      BY Zenon DEF RolesSeen, Matches
    <2>2. CASE g # h
      BY <2>1, <2>2, Zenon
    <2>3. CASE g = h
      BY <2>1, <2>3, Zenon DEF Seen
    <2> QED BY <2>2, <2>3, Zenon
  <1>6. Entries(h)'
    <2>1. Entries(h)
      BY <1>1, Zenon DEF Matches
    <2>2. Current(h)'.channels = Current(h).channels
              /\ \A c \in Channels : ChannelPtr(c)' = ChannelPtr(c)
      BY Zenon DEF Writes, SameChannels
    <2> QED BY <2>1, <2>2, Zenon DEF Entries
  <1>7. Has(q, s, h)'
    <2>1. HasRoles(q, s, h)'
      BY DEF HasRoles, Writes
    <2>2. HasMembers(q, s, h)'
      BY Zenon DEF HasMembers, HasMember, Writes
    <2>3. HasChannels(q, s, h)'
      BY <1>1, Zenon DEF HasChannels, Linked, Writes, SameChannels, ServerGuild
    <2> QED BY <1>1, <2>1, <2>2, <2>3, Zenon DEF Has, Writes
  <1>8. ASSUME outages = 0 PROVE OnlyHas(q, s, h)'
    <2>1. OnlyHas(q, r, h) /\ a.joined /\ DropsChannel(r.event) = {}
      BY <1>1, <1>8, Zenon DEF Matches, HasNoMore, Says, DropsChannel
    <2> QED BY <1>8, <2>1, Zenon DEF OnlyHas, Writes
  <1>9. \A g \in Guilds : Concerns(r, g) \/ Concerns(s, g) => g = h
    BY IdleQuiet, Zenon DEF Concerns
  <1>10. fault' = "none" /\ (s.step # "idle" => True(s.event, q))
    BY IdleQuiet, Zenon DEF Matches
  <1> QED BY <1>1, <1>2, <1>3, <1>4, <1>5, <1>6, <1>7, <1>8, <1>9, <1>10, Whole, Zenon

LEMMA LoadCarried ==
    ASSUME TypeInv, NEW me \in Threads, NEW q \in Stage, Sound(q), NEW r, r = thread[me],
           Matches(q, r), Load(me)
    PROVE  Carried(me, q)
  <1> PICK h, e, a, s : h = r.event.guild /\ e = r.event /\ a = q.server[h] /\ s = thread'[me]
    OBVIOUS
  <1> DEFINE obj == [Obj(me) EXCEPT !.roles = @ \cup e.load.roles,
                                    !.members = @ \cup Listed(e), !.holder = me]
  <1>1. /\ r.step = "load" /\ UNCHANGED channelVars /\ outages' = outages /\ TypeInv'
        /\ fault' = fault /\ Uses(me) /\ SetObj(me, obj) /\ Goto(me, "loadChannels")
        /\ info' = [u \in Users |-> IF u \in Listed(e)
                                    THEN [info[u] EXCEPT ![h] = e.load.members[u]] ELSE info[u]]
    BY LoadType, Zenon DEF Load, At, serverVars
  <1>2. e.kind \in LoadKinds /\ r.guild # 0
    BY <1>1, Here, KindsAt, HasGuild DEF GuildSteps
  <1>3. h \in guilds /\ Obj(me) = Current(h) /\ Obj(me) \in GuildObject /\ e.load \in ServerGuild
    BY <1>2, InHand, Here DEF Matches, Event
  <1>4. /\ obj \in GuildObject /\ obj.roles = Current(h).roles \cup e.load.roles
        /\ obj.members = Current(h).members \cup Listed(e) /\ obj.channels = Current(h).channels
    BY <1>3, Zenon DEF GuildObject, Holder, ServerGuild, Listed
  <1> HIDE DEF obj
  <1>5. Writes(h, obj) /\ SameChannels
    BY <1>1, <1>2, <1>4, WritesRead, ChannelsRead DEF Matches
  <1>6. s.step = "loadChannels" /\ s.event = e /\ s.guild = r.guild /\ s.channel = r.channel
            /\ s.todo = r.todo
    BY <1>1, GoesTo
  <1>7. /\ HasRoles(q, r, h) /\ HasMembers(q, r, h) /\ Says(e, q, a) /\ a \in ServerGuild
        /\ h \in Guilds
    BY <1>1, <1>2, Described DEF LateGuild, LoadKinds
  <1>8. /\ \A u \in Listed(e) : e.load.members[u] = a.members[u] /\ a.members[u] # NoInfo
        /\ \A u \in Listed(e) : a.members[u] \subseteq a.roles
    <2>1. \A u \in Users : a.members[u] # NoInfo => a.members[u] \subseteq a.roles
      BY <1>7 DEF Sound
    <2>2. \A u \in Listed(e) : u \in Users /\ e.load.members[u] = a.members[u]
              /\ e.load.members[u] # NoInfo
      BY <1>7, Zenon DEF Says, Listed
    <2> QED BY <2>1, <2>2
  <1>9. \A u \in Users : \A g \in Guilds :
            /\ g = h /\ u \in Listed(e) => info'[u][g] = a.members[u]
            /\ g # h \/ u \notin Listed(e) => info'[u][g] = info[u][g]
    BY <1>1, <1>7, <1>8, Zenon DEF TypeInv, UserPart
  <1>10. \A x \in a.roles : x \in obj.roles \/ LateRole(s, h, x)
    BY <1>2, <1>4, <1>7, Zenon
    DEF HasRoles, LateRole, LateLoad, Concerns, BringsRole, LoadKinds, Says
  <1>11. \A u \in Users \ Offline : a.members[u] # NoInfo =>
               \/ u \in obj.members /\ info'[u][h] # NoInfo
                    /\ info'[u][h] \cap a.roles = a.members[u]
               \/ LateMember(s, h, u)
    <2> SUFFICES ASSUME NEW u \in Users \ Offline, a.members[u] # NoInfo
                 PROVE  u \in obj.members /\ info'[u][h] # NoInfo
                     /\ info'[u][h] \cap a.roles = a.members[u]
      OBVIOUS
    <2>1. CASE u \in Listed(e)
      <3>1. h \in Guilds /\ u \in obj.members
        BY <1>4, <1>7, <2>1
      <3>2. info'[u][h] = a.members[u]
        BY <1>9, <2>1, <3>1
      <3>3. a.members[u] \subseteq a.roles /\ a.members[u] # NoInfo
        BY <1>8, <2>1, Zenon
      <3> QED BY <3>1, <3>2, <3>3, Zenon
    <2>2. CASE u \notin Listed(e)
      <3>1. HasMember(q, h, u)
        BY <1>2, <1>7, <2>2, Zenon DEF HasMembers, LateMember, LateLoad, Concerns, BringsMember,
            LoadKinds, Says
      <3> QED BY <1>4, <1>7, <1>9, <2>2, <3>1, Zenon DEF HasMember
    <2> QED BY <2>1, <2>2, Zenon
  <1>12. \A c \in Channels : LateChannel(r, h, c) => LateChannel(s, h, c)
    BY <1>1, <1>2, <1>6 DEF LateChannel, Concerns, LoadKinds
  <1>13. outages = 0 => obj.roles \subseteq a.roles /\ \A u \in obj.members : a.members[u] # NoInfo
    <2> SUFFICES ASSUME outages = 0
                 PROVE  obj.roles \subseteq a.roles /\ \A u \in obj.members : a.members[u] # NoInfo
      OBVIOUS
    <2>1. OnlyHas(q, r, h) /\ DropsRole(e) = {} /\ DropsMember(e) = {}
      BY <1>2, <1>3 DEF Matches, HasNoMore, DropsRole, DropsMember, LoadKinds
    <2>2. e.load.roles \subseteq a.roles
      BY <1>7, Zenon DEF Says
    <2> QED BY <1>4, <1>8, <2>1, <2>2, Zenon DEF OnlyHas
  <1>14. r.event.kind \notin {"READY", "GUILD_DELETE", "CHANNEL_DELETE"}
             /\ r.step \notin Linking \cup {"idle", "create"}
    BY <1>1, <1>2 DEF LoadKinds, Linking
  <1>15. /\ \A u \in Users : \A g \in Guilds \ {h} : info'[u][g] = info[u][g]
         /\ \A u \in Users : info'[u][h] = info[u][h] \/ info'[u][h] = NoInfo \/ info'[u][h] \subseteq a.roles
    <2>1. h \in Guilds
      BY <1>7
    <2>2. ASSUME NEW u \in Users, NEW g \in Guilds \ {h} PROVE info'[u][g] = info[u][g]
      BY <1>9
    <2>3. ASSUME NEW u \in Users PROVE info'[u][h] = info[u][h] \/ info'[u][h] \subseteq a.roles
      <3>1. CASE u \in Listed(e)
        BY <1>8, <1>9, <2>1, <3>1
      <3>2. CASE u \notin Listed(e)
        BY <1>9, <2>1, <3>2
      <3> QED BY <3>1, <3>2
    <2> QED BY <2>2, <2>3
  <1>16. s = Idle \/ (s.event = r.event /\ s.guild = r.guild /\ s.channel = r.channel
             /\ s.step # "loadChannel")
    BY <1>6
  <1>17. Rewrites(q, r, s, h, a, obj)
    BY <1>1, <1>4, <1>5, <1>10, <1>11, <1>12, <1>13, <1>15, <1>16, Zenon DEF Rewrites
  <1> QED BY <1>1, <1>4, <1>14, <1>17, WritesCarried

LEMMA JoinCarried ==
    ASSUME TypeInv, NEW me \in Threads, NEW q \in Stage, Sound(q), NEW r, r = thread[me],
           Matches(q, r), Join(me)
    PROVE  Carried(me, q)
  <1> PICK h, e, a, s : h = r.event.guild /\ e = r.event /\ a = q.server[h] /\ s = thread'[me]
    OBVIOUS
  <1>1. /\ r.step = "join" /\ UNCHANGED channelVars /\ outages' = outages /\ TypeInv'
        /\ fault' = fault /\ Uses(me)
    BY JoinType DEF Join, At, serverVars
  <1>2. PICK u \in r.todo : /\ SetObj(me, [Obj(me) EXCEPT !.members = @ \cup {u}])
                            /\ info' = [info EXCEPT ![u][h] = e.load.members[u]]
                            /\ IF r.todo = {u} THEN Return(me)
                               ELSE thread' = [thread EXCEPT ![me].todo = r.todo \ {u}]
    BY DEF Join
  <1>3. e.kind \in {"GUILD_MEMBER_ADD", "GUILD_MEMBER_UPDATE", "GUILD_MEMBERS_CHUNK",
            "PRESENCE_UPDATE"} /\ r.guild # 0
    BY <1>1, Here, KindsAt, HasGuild DEF GuildSteps
  <1>4. h \in guilds /\ Obj(me) = Current(h) /\ Obj(me) \in GuildObject
    BY <1>3, InHand DEF Matches
  <1>5. /\ HasRoles(q, r, h) /\ HasMembers(q, r, h) /\ Says(e, q, a) /\ a \in ServerGuild
        /\ h \in Guilds
    BY <1>1, <1>3, Described DEF LateGuild
  <1>6. u \in Users /\ e.load.members[u] # NoInfo
    BY <1>3, Here DEF Equipped, Listed, LoadKinds
  <1>7. e.load.members[u] = a.members[u] /\ a.members[u] # NoInfo /\ a.members[u] \subseteq a.roles
    <2>1. u \in Listed(e)
      BY <1>6 DEF Listed
    <2>2. e.load.members[u] = a.members[u]
      BY <1>5, <2>1, Zenon DEF Says
    <2>3. a.members[u] # NoInfo => a.members[u] \subseteq a.roles
      BY <1>5, <1>6 DEF Sound
    <2> QED BY <1>6, <2>2, <2>3, Zenon
  <1> PICK obj : obj = [Obj(me) EXCEPT !.members = @ \cup {u}]
    OBVIOUS
  <1>8. /\ obj \in GuildObject /\ obj.roles = Current(h).roles
        /\ obj.members = Current(h).members \cup {u} /\ obj.channels = Current(h).channels
    BY <1>4, <1>6 DEF GuildObject
  <1>9. Writes(h, obj) /\ SameChannels
    BY <1>1, <1>2, <1>3, <1>8, WritesRead, ChannelsRead DEF Matches
  <1>10. /\ info'[u][h] = a.members[u]
         /\ \A v \in Users : \A g \in Guilds : v # u \/ g # h => info'[v][g] = info[v][g]
    BY <1>2, <1>5, <1>6, <1>7, Zenon DEF TypeInv, UserPart
  <1>11. \/ s = Idle /\ r.todo = {u}
         \/ /\ s.step = r.step /\ s.event = e /\ s.guild = r.guild /\ s.channel = r.channel
            /\ s.todo = r.todo \ {u}
    <2>1. CASE r.todo = {u} /\ Return(me)
      BY <2>1, GoesTo
    <2>2. CASE thread' = [thread EXCEPT ![me].todo = r.todo \ {u}]
      BY <2>2, ThreadAt DEF ThreadState
    <2> QED BY <1>2, <2>1, <2>2
  <1>12. \A x \in a.roles : x \in obj.roles
    BY <1>3, <1>5, <1>8 DEF HasRoles, LateRole, LateLoad, Concerns, BringsRole
  <1>13. \A v \in Users \ Offline : a.members[v] # NoInfo =>
               \/ v \in obj.members /\ info'[v][h] # NoInfo
                    /\ info'[v][h] \cap a.roles = a.members[v]
               \/ LateMember(s, h, v)
    <2> SUFFICES ASSUME NEW v \in Users \ Offline, a.members[v] # NoInfo, ~LateMember(s, h, v)
                 PROVE  v \in obj.members /\ info'[v][h] # NoInfo
                     /\ info'[v][h] \cap a.roles = a.members[v]
      BY Zenon
    <2>1. CASE v = u
      BY <1>7, <1>8, <1>10, <2>1, Zenon
    <2>2. CASE v # u
      <3>1. ~LateMember(r, h, v)
        BY <1>3, <1>11, <2>2 DEF LateMember, LateLoad, Concerns
      <3>2. HasMember(q, h, v)
        BY <1>5, <3>1 DEF HasMembers
      <3>3. info'[v][h] = info[v][h]
        BY <1>5, <1>10, <2>2
      <3> QED BY <1>8, <3>2, <3>3, Zenon DEF HasMember
    <2> QED BY <2>1, <2>2, Zenon
  <1>14. outages = 0 => obj.roles \subseteq a.roles /\ \A v \in obj.members : a.members[v] # NoInfo
    <2> SUFFICES ASSUME outages = 0
                 PROVE  obj.roles \subseteq a.roles /\ \A v \in obj.members : a.members[v] # NoInfo
      OBVIOUS
    <2>1. OnlyHas(q, r, h) /\ DropsRole(e) = {} /\ DropsMember(e) = {}
      BY <1>3, <1>4 DEF Matches, HasNoMore, DropsRole, DropsMember
    <2> QED BY <1>7, <1>8, <2>1, Zenon DEF OnlyHas
  <1>15. \A c \in Channels : ~LateChannel(r, h, c)
    BY <1>3 DEF LateChannel, BringsChannel
  <1>16. \A v \in Users : info'[v][h] = info[v][h] \/ info'[v][h] = NoInfo \/ info'[v][h] \subseteq a.roles
    <2> SUFFICES ASSUME NEW v \in Users
            PROVE info'[v][h] = info[v][h] \/ info'[v][h] \subseteq a.roles
      OBVIOUS
    <2>1. CASE v = u
      BY <1>7, <1>10, <2>1, Zenon
    <2>2. CASE v # u
      BY <1>5, <1>10, <2>2
    <2> QED BY <2>1, <2>2
  <1>17. Rewrites(q, r, s, h, a, obj)
    BY <1>1, <1>8, <1>9, <1>10, <1>11, <1>12, <1>13, <1>14, <1>15, <1>16, Zenon DEF Rewrites
  <1> QED BY <1>1, <1>3, <1>8, <1>17, WritesCarried DEF Linking

LEMMA AddCarried ==
    ASSUME TypeInv, NEW me \in Threads, NEW q \in Stage, Sound(q), NEW r, r = thread[me],
           Matches(q, r), Add(me)
    PROVE  Carried(me, q)
  <1> PICK h, e, a, s, u : h = r.event.guild /\ e = r.event /\ a = q.server[h]
          /\ s = thread'[me] /\ u = e.user
    OBVIOUS
  <1>1. /\ r.step = "add" /\ UNCHANGED <<channelVars, info>> /\ outages' = outages /\ TypeInv'
        /\ fault' = fault /\ Uses(me) /\ Goto(me, "joinUser")
        /\ SetObj(me, [Obj(me) EXCEPT !.members = @ \cup {u}])
    BY AddType DEF Add, At, serverVars, userVars
  <1>3. e.kind \in MessageKinds /\ r.guild # 0
    BY <1>1, Here, KindsAt, HasGuild DEF GuildSteps
  <1>4. h \in guilds /\ Obj(me) = Current(h) /\ Obj(me) \in GuildObject
    BY <1>3, InHand DEF Matches
  <1>5. /\ HasRoles(q, r, h) /\ HasMembers(q, r, h) /\ Says(e, q, a) /\ a \in ServerGuild
        /\ h \in Guilds
    BY <1>1, <1>3, Described DEF LateGuild, MessageKinds
  <1>6. u \in Users /\ e.load.members[u] # NoInfo
    BY <1>3, Here DEF WellFormed, MessageKinds, UserKinds
  <1>7. e.load.members[u] = a.members[u] /\ a.members[u] # NoInfo /\ a.members[u] \subseteq a.roles
    <2>1. u \in Listed(e)
      BY <1>6 DEF Listed
    <2>2. e.load.members[u] = a.members[u]
      BY <1>5, <2>1, Zenon DEF Says
    <2>3. a.members[u] # NoInfo => a.members[u] \subseteq a.roles
      BY <1>5, <1>6, Zenon DEF Sound
    <2> QED BY <1>6, <2>2, <2>3, Zenon
  <1> PICK obj : obj = [Obj(me) EXCEPT !.members = @ \cup {u}]
    OBVIOUS
  <1>8. /\ obj \in GuildObject /\ obj.roles = Current(h).roles
        /\ obj.members = Current(h).members \cup {u} /\ obj.channels = Current(h).channels
    BY <1>4, <1>6 DEF GuildObject
  <1>9. Writes(h, obj) /\ SameChannels
    BY <1>1, <1>3, <1>8, WritesRead, ChannelsRead DEF Matches
  <1>11. s.step = "joinUser" /\ s.event = e /\ s.guild = r.guild /\ s.channel = r.channel
    BY <1>1, GoesTo
  <1>12. \A x \in a.roles : x \in obj.roles
    BY <1>3, <1>5, <1>8 DEF HasRoles, LateRole, LateLoad, Concerns, BringsRole, MessageKinds
  <1>13. \A v \in Users \ Offline : a.members[v] # NoInfo =>
               v \in obj.members /\ info'[v][h] # NoInfo /\ info'[v][h] \cap a.roles = a.members[v]
    BY <1>1, <1>3, <1>5, <1>8, Zenon
    DEF HasMembers, HasMember, LateMember, LateLoad, Concerns, BringsMember, MessageKinds
  <1>14. outages = 0 => obj.roles \subseteq a.roles /\ \A v \in obj.members : a.members[v] # NoInfo
    <2> SUFFICES ASSUME outages = 0
                 PROVE  obj.roles \subseteq a.roles /\ \A v \in obj.members : a.members[v] # NoInfo
      OBVIOUS
    <2>1. OnlyHas(q, r, h) /\ DropsRole(e) = {} /\ DropsMember(e) = {}
      BY <1>3, <1>4 DEF Matches, HasNoMore, DropsRole, DropsMember, MessageKinds
    <2> QED BY <1>7, <1>8, <2>1, Zenon DEF OnlyHas
  <1>15. \A c \in Channels : ~LateChannel(r, h, c)
    BY <1>3 DEF LateChannel, BringsChannel, MessageKinds
  <1>17. Rewrites(q, r, s, h, a, obj)
    BY <1>1, <1>8, <1>9, <1>11, <1>12, <1>13, <1>14, <1>15, Zenon DEF Rewrites
  <1>18. r.event.kind \notin {"READY", "GUILD_DELETE", "CHANNEL_DELETE"}
    BY <1>3 DEF MessageKinds
  <1> QED BY <1>1, <1>8, <1>17, <1>18, WritesCarried DEF Linking

LEMMA JoinUserCarried ==
    ASSUME TypeInv, NEW me \in Threads, NEW q \in Stage, Sound(q), NEW r, r = thread[me],
           Matches(q, r), JoinUser(me)
    PROVE  Carried(me, q)
  <1> PICK h, e, a, s, u, obj :
        /\ h = r.event.guild /\ e = r.event /\ a = q.server[h] /\ s = thread'[me] /\ u = e.user
        /\ obj = Current(h)
    OBVIOUS
  <1>1. /\ r.step = "joinUser" /\ UNCHANGED <<guildVars, channelVars>> /\ outages' = outages
        /\ TypeInv'
        /\ fault' = fault /\ Return(me) /\ info' = [info EXCEPT ![u][h] = e.load.members[u]]
    BY JoinUserType DEF JoinUser, At, serverVars
  <1>3. e.kind \in MessageKinds
    BY <1>1, Here, KindsAt
  <1>5. /\ h \in guilds /\ HasRoles(q, r, h) /\ HasMembers(q, r, h) /\ Says(e, q, a)
        /\ a \in ServerGuild
        /\ h \in Guilds
    BY <1>1, <1>3, Described DEF LateGuild, MessageKinds
  <1>4. obj \in GuildObject
    BY <1>5, CurrentType
  <1>6. u \in Users /\ e.load.members[u] # NoInfo
    BY <1>3, Here DEF WellFormed, MessageKinds, UserKinds
  <1>7. e.load.members[u] = a.members[u] /\ a.members[u] # NoInfo /\ a.members[u] \subseteq a.roles
    <2>1. u \in Listed(e)
      BY <1>6 DEF Listed
    <2>2. e.load.members[u] = a.members[u]
      BY <1>5, <2>1, Zenon DEF Says
    <2>3. a.members[u] # NoInfo => a.members[u] \subseteq a.roles
      BY <1>5, <1>6, Zenon DEF Sound
    <2> QED BY <1>6, <2>2, <2>3, Zenon
  <1>9. Writes(h, obj) /\ SameChannels
    BY <1>1, <1>5, GuildsRead, ChannelsRead DEF Writes, SameGuilds
  <1>10. /\ info'[u][h] = a.members[u]
         /\ \A v \in Users : \A g \in Guilds : v # u \/ g # h => info'[v][g] = info[v][g]
    <2>1. info' = [info EXCEPT ![u][h] = a.members[u]] /\ u \in Users /\ h \in Guilds
      BY <1>1, <1>5, <1>6, <1>7, Zenon
    <2>2. info \in [Users -> [Guilds -> Membership]]
      BY DEF TypeInv, UserPart
    <2> QED BY <2>1, <2>2, Zenon
  <1>11. s = Idle
    BY <1>1, GoesTo
  <1>12. \A x \in a.roles : x \in obj.roles
    BY <1>3, <1>5 DEF HasRoles, LateRole, LateLoad, Concerns, BringsRole, MessageKinds
  <1>13. \A v \in Users \ Offline : a.members[v] # NoInfo =>
               v \in obj.members /\ info'[v][h] # NoInfo /\ info'[v][h] \cap a.roles = a.members[v]
    <2> SUFFICES ASSUME NEW v \in Users \ Offline, a.members[v] # NoInfo
                 PROVE  v \in obj.members /\ info'[v][h] # NoInfo
                     /\ info'[v][h] \cap a.roles = a.members[v]
      BY Zenon
    <2>1. HasMember(q, h, v)
      BY <1>3, <1>5 DEF HasMembers, LateMember, LateLoad, Concerns, BringsMember, MessageKinds
    <2>2. CASE v = u
      BY <1>7, <1>10, <2>1, <2>2, Zenon DEF HasMember
    <2>3. CASE v # u
      <3>1. info'[v][h] = info[v][h]
        BY <1>5, <1>10, <2>3
      <3> QED BY <2>1, <3>1, Zenon DEF HasMember
    <2> QED BY <2>2, <2>3, Zenon
  <1>14. outages = 0 => obj.roles \subseteq a.roles /\ \A v \in obj.members : a.members[v] # NoInfo
    <2> SUFFICES ASSUME outages = 0
                 PROVE  obj.roles \subseteq a.roles /\ \A v \in obj.members : a.members[v] # NoInfo
      OBVIOUS
    <2>1. OnlyHas(q, r, h) /\ DropsRole(e) = {} /\ DropsMember(e) = {}
      BY <1>3, <1>5 DEF Matches, HasNoMore, DropsRole, DropsMember, MessageKinds
    <2> QED BY <2>1, Zenon DEF OnlyHas
  <1>15. \A c \in Channels : ~LateChannel(r, h, c)
    BY <1>3 DEF LateChannel, BringsChannel, MessageKinds
  <1>16. \A v \in Users : info'[v][h] = info[v][h] \/ info'[v][h] = NoInfo \/ info'[v][h] \subseteq a.roles
    <2> SUFFICES ASSUME NEW v \in Users
            PROVE info'[v][h] = info[v][h] \/ info'[v][h] \subseteq a.roles
      OBVIOUS
    <2>1. CASE v = u
      BY <1>7, <1>10, <2>1, Zenon
    <2>2. CASE v # u
      BY <1>5, <1>10, <2>2, Zenon
    <2> QED BY <2>1, <2>2
  <1>17. Rewrites(q, r, s, h, a, obj)
    BY <1>1, <1>9, <1>10, <1>11, <1>12, <1>13, <1>14, <1>15, <1>16, Zenon DEF Rewrites
  <1>18. r.event.kind \notin {"READY", "GUILD_DELETE", "CHANNEL_DELETE"}
    BY <1>3 DEF MessageKinds
  <1> QED BY <1>1, <1>4, <1>17, <1>18, WritesCarried DEF Linking

LEMMA RemoveMemberCarried ==
    ASSUME TypeInv, NEW me \in Threads, Threads = {me}, MembersHaveInfo,
           NEW q \in Stage, Sound(q), NEW r, r = thread[me], Matches(q, r), RemoveMember(me)
    PROVE  Carried(me, q)
  <1> PICK h, e, a, s, u : h = r.event.guild /\ e = r.event /\ a = q.server[h]
          /\ s = thread'[me] /\ u = e.user
    OBVIOUS
  <1> PICK found : found \in BOOLEAN /\ (found <=> u \in Obj(me).members)
    OBVIOUS
  <1>1. /\ r.step = "removeMember" /\ UNCHANGED channelVars /\ outages' = outages /\ TypeInv'
        /\ Return(me) /\ SetObj(me, [Obj(me) EXCEPT !.members = @ \ {u}])
        /\ found => info' = [info EXCEPT ![u][h] = NoInfo]
        /\ ~found => info' = info
        /\ fault' = fault \/ (found /\ info[u][h] = NoInfo)
    BY RemoveMemberType DEF RemoveMember, At, serverVars
  <1>3. e.kind = "GUILD_MEMBER_REMOVE" /\ r.guild # 0
    BY <1>1, Here, KindsAt, HasGuild DEF GuildSteps
  <1>4. h \in guilds /\ Obj(me) = Current(h) /\ Obj(me) \in GuildObject
    BY <1>3, InHand DEF Matches
  <1>5. /\ HasRoles(q, r, h) /\ HasMembers(q, r, h) /\ Says(e, q, a) /\ a \in ServerGuild
        /\ h \in Guilds
    BY <1>1, <1>3, Described DEF LateGuild
  <1>6. u \in Users
    BY <1>3, Here DEF WellFormed, UserKinds
  <1>7. a.members[u] = NoInfo
    BY <1>3, <1>5 DEF Says, DropsMember
  <1> PICK obj : obj = [Obj(me) EXCEPT !.members = @ \ {u}]
    OBVIOUS
  <1>8. /\ obj \in GuildObject /\ obj.roles = Current(h).roles
        /\ obj.members = Current(h).members \ {u} /\ obj.channels = Current(h).channels
    BY <1>4, <1>6 DEF GuildObject
  <1>9. Writes(h, obj) /\ SameChannels
    BY <1>1, <1>3, <1>8, WritesRead, ChannelsRead DEF Matches
  <1>10. /\ info'[u][h] = NoInfo \/ info'[u][h] = info[u][h]
         /\ \A v \in Users : \A g \in Guilds : v # u \/ g # h => info'[v][g] = info[v][g]
    <2>1. info \in [Users -> [Guilds -> Membership]]
      BY DEF TypeInv, UserPart
    <2>2. CASE found
      BY <1>1, <1>5, <1>6, <2>1, <2>2
    <2>3. CASE ~found
      BY <1>1, <2>3
    <2> QED BY <2>2, <2>3
  <1>11. s = Idle
    BY <1>1, GoesTo
  <1>18. fault' = fault
    <2>1. found => info[u][h] # NoInfo
      BY <1>1, <1>4 DEF MembersHaveInfo
    <2> QED BY <1>1, <2>1
  <1>12. \A x \in a.roles : x \in obj.roles
    BY <1>3, <1>5, <1>8 DEF HasRoles, LateRole, LateLoad, Concerns, BringsRole
  <1>13. \A v \in Users \ Offline : a.members[v] # NoInfo =>
               v \in obj.members /\ info'[v][h] # NoInfo /\ info'[v][h] \cap a.roles = a.members[v]
    <2> SUFFICES ASSUME NEW v \in Users \ Offline, a.members[v] # NoInfo
                 PROVE  v \in obj.members /\ info'[v][h] # NoInfo
                     /\ info'[v][h] \cap a.roles = a.members[v]
      OBVIOUS
    <2>1. HasMember(q, h, v)
      BY <1>3, <1>5 DEF HasMembers, LateMember, LateLoad, Concerns, BringsMember
    <2>2. v # u /\ info'[v][h] = info[v][h]
      BY <1>5, <1>7, <1>10
    <2> QED BY <1>8, <2>1, <2>2, Zenon DEF HasMember
  <1>14. outages = 0 => obj.roles \subseteq a.roles /\ \A v \in obj.members : a.members[v] # NoInfo
    <2> SUFFICES ASSUME outages = 0
                 PROVE  obj.roles \subseteq a.roles /\ \A v \in obj.members : a.members[v] # NoInfo
      OBVIOUS
    <2>1. OnlyHas(q, r, h) /\ DropsRole(e) = {} /\ DropsMember(e) = {u}
      BY <1>3, <1>4 DEF Matches, HasNoMore, DropsRole, DropsMember
    <2> QED BY <1>7, <1>8, <2>1, Zenon DEF OnlyHas
  <1>15. \A c \in Channels : ~LateChannel(r, h, c)
    BY <1>3 DEF LateChannel, BringsChannel
  <1>16. \A v \in Users : info'[v][h] = info[v][h] \/ info'[v][h] = NoInfo \/ info'[v][h] \subseteq a.roles
    BY <1>5, <1>10, Zenon
  <1>19. \A v \in Users : \A g \in Guilds \ {h} : info'[v][g] = info[v][g]
    BY <1>10
  <1>17. Rewrites(q, r, s, h, a, obj)
    BY <1>1, <1>8, <1>9, <1>11, <1>12, <1>13, <1>14, <1>15, <1>16, <1>18, <1>19, Zenon DEF Rewrites
  <1> QED BY <1>1, <1>3, <1>8, <1>17, WritesCarried DEF Linking

LEMMA LoadRoleCarried ==
    ASSUME TypeInv, NEW me \in Threads, NEW q \in Stage, Sound(q), NEW r, r = thread[me],
           Matches(q, r), LoadRole(me)
    PROVE  Carried(me, q)
  <1> PICK h, e, a, s, x0 : h = r.event.guild /\ e = r.event /\ a = q.server[h]
          /\ s = thread'[me] /\ x0 = e.role
    OBVIOUS
  <1>1. /\ r.step = "loadRole" /\ UNCHANGED <<channelVars, info>> /\ outages' = outages /\ TypeInv'
        /\ fault' = fault /\ Uses(me) /\ Return(me)
        /\ SetObj(me, [Obj(me) EXCEPT !.roles = @ \cup {x0}])
    BY RolesType DEF LoadRole, At, serverVars, userVars
  <1>3. e.kind = "GUILD_ROLE_CREATE" /\ r.guild # 0
    BY <1>1, Here, KindsAt, HasGuild DEF GuildSteps
  <1>4. h \in guilds /\ Obj(me) = Current(h) /\ Obj(me) \in GuildObject
    BY <1>3, InHand DEF Matches
  <1>5. /\ HasRoles(q, r, h) /\ HasMembers(q, r, h) /\ Says(e, q, a) /\ a \in ServerGuild
        /\ h \in Guilds
    BY <1>1, <1>3, Described DEF LateGuild
  <1>6. x0 \in a.roles /\ a.roles \subseteq Roles
    BY <1>3, <1>5, Zenon DEF Says, BringsRole, ServerGuild
  <1> PICK obj : obj = [Obj(me) EXCEPT !.roles = @ \cup {x0}]
    OBVIOUS
  <1>8. /\ obj \in GuildObject /\ obj.roles = Current(h).roles \cup {x0}
        /\ obj.members = Current(h).members /\ obj.channels = Current(h).channels
    BY <1>4, <1>6 DEF GuildObject
  <1>9. Writes(h, obj) /\ SameChannels
    BY <1>1, <1>3, <1>8, WritesRead, ChannelsRead DEF Matches
  <1>11. s = Idle
    BY <1>1, GoesTo
  <1>12. \A x \in a.roles : x \in obj.roles
    BY <1>3, <1>5, <1>8 DEF HasRoles, LateRole, LateLoad, Concerns, BringsRole
  <1>13. \A v \in Users \ Offline : a.members[v] # NoInfo =>
               v \in obj.members /\ info'[v][h] # NoInfo /\ info'[v][h] \cap a.roles = a.members[v]
    BY <1>1, <1>3, <1>5, <1>8, Zenon DEF HasMembers, HasMember, LateMember, LateLoad, Concerns,
        BringsMember
  <1>14. outages = 0 => obj.roles \subseteq a.roles /\ \A v \in obj.members : a.members[v] # NoInfo
    <2> SUFFICES ASSUME outages = 0
                 PROVE  obj.roles \subseteq a.roles /\ \A v \in obj.members : a.members[v] # NoInfo
      OBVIOUS
    <2>1. OnlyHas(q, r, h) /\ DropsRole(e) = {} /\ DropsMember(e) = {}
      BY <1>3, <1>4 DEF Matches, HasNoMore, DropsRole, DropsMember
    <2> QED BY <1>6, <1>8, <2>1, Zenon DEF OnlyHas
  <1>15. \A c \in Channels : ~LateChannel(r, h, c)
    BY <1>3 DEF LateChannel, BringsChannel
  <1>17. Rewrites(q, r, s, h, a, obj)
    BY <1>1, <1>8, <1>9, <1>11, <1>12, <1>13, <1>14, <1>15, Zenon DEF Rewrites
  <1> QED BY <1>1, <1>3, <1>8, <1>17, WritesCarried DEF Linking

LEMMA RemoveRoleCarried ==
    ASSUME TypeInv, NEW me \in Threads, NEW q \in Stage, Sound(q), NEW r, r = thread[me],
           Matches(q, r), RemoveRole(me)
    PROVE  Carried(me, q)
  <1> PICK h, e, a, s, x0 : h = r.event.guild /\ e = r.event /\ a = q.server[h]
          /\ s = thread'[me] /\ x0 = e.role
    OBVIOUS
  <1>1. /\ r.step = "removeRole" /\ UNCHANGED channelVars /\ outages' = outages /\ TypeInv'
        /\ fault' = fault /\ Uses(me) /\ Return(me)
        /\ SetObj(me, [Obj(me) EXCEPT !.roles = @ \ {x0}])
        /\ info' = [u \in Users |-> IF u \in Obj(me).members /\ info[u][h] = NoInfo
                                    THEN [info[u] EXCEPT ![h] = {}] ELSE info[u]]
    BY RolesType DEF RemoveRole, At, serverVars
  <1>3. e.kind = "GUILD_ROLE_DELETE" /\ r.guild # 0
    BY <1>1, Here, KindsAt, HasGuild DEF GuildSteps
  <1>4. h \in guilds /\ Obj(me) = Current(h) /\ Obj(me) \in GuildObject
    BY <1>3, InHand DEF Matches
  <1>5. /\ HasRoles(q, r, h) /\ HasMembers(q, r, h) /\ Says(e, q, a) /\ a \in ServerGuild
        /\ h \in Guilds
    BY <1>1, <1>3, Described DEF LateGuild
  <1>6. x0 \notin a.roles
    BY <1>3, <1>5 DEF Says, DropsRole
  <1> PICK obj : obj = [Obj(me) EXCEPT !.roles = @ \ {x0}]
    OBVIOUS
  <1>8. /\ obj \in GuildObject /\ obj.roles = Current(h).roles \ {x0}
        /\ obj.members = Current(h).members /\ obj.channels = Current(h).channels
    BY <1>4 DEF GuildObject
  <1>9. Writes(h, obj) /\ SameChannels
    BY <1>1, <1>3, <1>8, WritesRead, ChannelsRead DEF Matches
  <1>10. /\ \A u \in Users : info'[u][h] = info[u][h] \/ (info[u][h] = NoInfo /\ info'[u][h] = {})
         /\ \A u \in Users : \A g \in Guilds \ {h} : info'[u][g] = info[u][g]
    <2>1. info \in [Users -> [Guilds -> Membership]]
      BY DEF TypeInv, UserPart
    <2>2. ASSUME NEW u \in Users
          PROVE  /\ info'[u][h] = info[u][h] \/ (info[u][h] = NoInfo /\ info'[u][h] = {})
                 /\ \A g \in Guilds \ {h} : info'[u][g] = info[u][g]
      <3>1. CASE u \in Obj(me).members /\ info[u][h] = NoInfo
        BY <1>1, <1>5, <2>1, <3>1
      <3>2. CASE ~(u \in Obj(me).members /\ info[u][h] = NoInfo)
        BY <1>1, <3>2
      <3> QED BY <3>1, <3>2
    <2> QED BY <2>2
  <1>11. s = Idle
    BY <1>1, GoesTo
  <1>12. \A x \in a.roles : x \in obj.roles
    BY <1>3, <1>5, <1>6, <1>8 DEF HasRoles, LateRole, LateLoad, Concerns, BringsRole
  <1>13. \A v \in Users \ Offline : a.members[v] # NoInfo =>
               v \in obj.members /\ info'[v][h] # NoInfo /\ info'[v][h] \cap a.roles = a.members[v]
    <2> SUFFICES ASSUME NEW v \in Users \ Offline, a.members[v] # NoInfo
                 PROVE  v \in obj.members /\ info'[v][h] # NoInfo
                     /\ info'[v][h] \cap a.roles = a.members[v]
      OBVIOUS
    <2>1. HasMember(q, h, v)
      BY <1>3, <1>5 DEF HasMembers, LateMember, LateLoad, Concerns, BringsMember
    <2>2. info'[v][h] = info[v][h]
      BY <1>10, <2>1 DEF HasMember
    <2> QED BY <1>8, <2>1, <2>2, Zenon DEF HasMember
  <1>14. outages = 0 => obj.roles \subseteq a.roles /\ \A v \in obj.members : a.members[v] # NoInfo
    <2> SUFFICES ASSUME outages = 0
                 PROVE  obj.roles \subseteq a.roles /\ \A v \in obj.members : a.members[v] # NoInfo
      OBVIOUS
    <2>1. OnlyHas(q, r, h) /\ DropsRole(e) = {x0} /\ DropsMember(e) = {}
      BY <1>3, <1>4 DEF Matches, HasNoMore, DropsRole, DropsMember
    <2> QED BY <1>8, <2>1, Zenon DEF OnlyHas
  <1>15. \A c \in Channels : ~LateChannel(r, h, c)
    BY <1>3 DEF LateChannel, BringsChannel
  <1>16. \A v \in Users : info'[v][h] = info[v][h] \/ info'[v][h] = NoInfo \/ info'[v][h] \subseteq a.roles
    BY <1>10
  <1>17. Rewrites(q, r, s, h, a, obj)
    BY <1>1, <1>8, <1>9, <1>10, <1>11, <1>12, <1>13, <1>14, <1>15, <1>16, Zenon DEF Rewrites
  <1> QED BY <1>1, <1>3, <1>8, <1>17, WritesCarried DEF Linking

\* Both maps lose the channel.
LEMMA EraseCarried ==
    ASSUME TypeInv, NEW me \in Threads, NEW q \in Stage, Sound(q), NEW r, r = thread[me],
           Matches(q, r), Erase(me)
    PROVE  Carried(me, q)
  <1> PICK h, c, n, k, a, s : /\ h = r.event.guild /\ c = r.event.channel /\ n = r.guild
          /\ k = r.channel
                              /\ a = q.server[h] /\ s = thread'[me]
    OBVIOUS
  <1>1. /\ r.step = "erase" /\ info' = info /\ outages' = outages /\ TypeInv'
        /\ fault' = fault /\ Uses(me) /\ Return(me)
        /\ SetObj(me, [Obj(me) EXCEPT !.channels[c] = 0])
        /\ channels' = channels \ {c} /\ channelObj' = [channelObj EXCEPT ![c][k].holder = Null]
    BY EraseType, Zenon DEF Erase, At, serverVars, userVars
  <1>3. r.event.kind = "CHANNEL_DELETE" /\ n # 0 /\ k # 0
    BY <1>1, Here, KindsAt, HasGuild, HasChannel DEF GuildSteps, ChannelSteps
  <1>4. h \in guilds /\ Obj(me) = Current(h) /\ Obj(me) \in GuildObject
    BY <1>3, InHand DEF Matches
  <1>5. /\ HasRoles(q, r, h) /\ HasMembers(q, r, h) /\ HasChannels(q, r, h) /\ Says(r.event, q, a)
        /\ a \in ServerGuild /\ h \in Guilds
    BY <1>1, <1>3, Described DEF LateGuild
  <1>6. c \in Channels /\ GuildOf[c] = h /\ c \notin a.channels
    <2>1. c \in Channels /\ GuildOf[c] = h
      BY <1>3, Here DEF Equipped
    <2>2. c \in DropsChannel(r.event) /\ DropsChannel(r.event) \cap a.channels = {}
      BY <1>3, <1>5 DEF Says, DropsChannel
    <2> QED BY <2>1, <2>2
  <1> PICK obj : obj = [Obj(me) EXCEPT !.channels[c] = 0]
    OBVIOUS
  <1>8. /\ obj \in GuildObject /\ obj.roles = Current(h).roles /\ obj.members = Current(h).members
        /\ \A d \in Channels : obj.channels[d] = IF d = c THEN 0 ELSE Current(h).channels[d]
    BY <1>4, <1>6 DEF GuildObject
  <1>9. Writes(h, obj)
    BY <1>1, <1>3, <1>8, WritesRead DEF Matches
  <1>10. \A d \in Channels : d # c => channelObj'[d] = channelObj[d]
    BY <1>1, Zenon DEF TypeInv, ChannelPart
  <1>11. /\ \A d \in Channels : d # c => ChannelPtr(d)' = ChannelPtr(d)
         /\ \A d \in channels : d # c => ChanOf(d)' = ChanOf(d)
    <2>1. \A d \in Channels : d # c => ChannelPtr(d)' = ChannelPtr(d)
      BY <1>1, <1>10 DEF ChannelPtr
    <2> QED BY <1>10, <2>1 DEF ChanOf, TypeInv, ChannelPart
  <1>12. s = Idle
    BY <1>1, GoesTo
  <1>13. Beside(h)
    BY <1>1, <1>6, <1>9, <1>11 DEF Beside, Writes
  <1>14. HasCurrent(s)'
    BY <1>12, IdleQuiet DEF HasCurrent
  <1>15. AllKnown(s)'
    BY <1>1, <1>11 DEF AllKnown, Matches
  <1>16. RolesSeen(q)'
    BY <1>1 DEF RolesSeen, Matches, Seen
  <1>17. Entries(h)'
    <2>1. Entries(h)
      BY <1>4 DEF Matches
    <2> QED BY <1>8, <1>9, <1>11, <2>1 DEF Entries, Writes
  <1>18. Has(q, s, h)'
    <2>1. HasRoles(q, s, h)'
      BY <1>3, <1>5, <1>8, <1>9 DEF HasRoles, Writes, LateRole, LateLoad, BringsRole
    <2>2. HasMembers(q, s, h)'
      BY <1>1, <1>3, <1>5, <1>8, <1>9, Zenon DEF HasMembers, HasMember, Writes, LateMember, LateLoad,
          BringsMember
    <2>3. HasChannels(q, s, h)'
      <3> SUFFICES ASSUME NEW d \in a.channels PROVE Linked(h, d)'
        BY DEF HasChannels
      <3>1. d \in Channels /\ d # c
        BY <1>5, <1>6 DEF ServerGuild
      <3>2. Linked(h, d)
        BY <1>3, <1>5 DEF HasChannels, LateChannel, BringsChannel
      <3> QED BY <1>1, <1>4, <1>8, <1>9, <1>11, <3>1, <3>2, Zenon DEF Linked, Writes
    <2> QED BY <1>4, <1>9, <2>1, <2>2, <2>3 DEF Has, Writes
  <1>19. ASSUME outages = 0 PROVE OnlyHas(q, s, h)'
    <2>1. /\ OnlyHas(q, r, h) /\ a.joined /\ DropsRole(r.event) = {} /\ DropsMember(r.event) = {}
          /\ DropsChannel(r.event) = {c}
      BY <1>3, <1>4, <1>5, <1>19 DEF Matches, HasNoMore, DropsRole, DropsMember, DropsChannel, Says
    <2>2. /\ \A x \in obj.roles : x \in a.roles
          /\ \A u \in obj.members : a.members[u] # NoInfo
      BY <1>8, <2>1 DEF OnlyHas
    <2>3. ASSUME NEW d \in Channels, obj.channels[d] # 0 PROVE d \in a.channels
      <3>1. d # c /\ Current(h).channels[d] # 0
        BY <1>8, <2>3
      <3> QED BY <2>1, <3>1 DEF OnlyHas
    <2> QED BY <1>9, <2>1, <2>2, <2>3 DEF OnlyHas, Writes
  <1>20. \A g \in Guilds : Concerns(r, g) \/ Concerns(s, g) => g = h
    BY <1>12, IdleQuiet DEF Concerns
  <1>21. fault' = "none" /\ s.step = "idle"
    BY <1>1, <1>12, IdleQuiet DEF Matches
  <1> QED BY <1>1, <1>13, <1>14, <1>15, <1>16, <1>17, <1>18, <1>19, <1>20, <1>21, Whole

LEMMA ReadyCarried ==
    ASSUME TypeInv, NEW me \in Threads, NEW q \in Stage, Sound(q), NEW r, r = thread[me],
           Matches(q, r), Ready(me)
    PROVE  Carried(me, q)
  <1> PICK s : s = thread'[me]
    OBVIOUS
  <1>1. /\ r.step = "ready" /\ MakeGuilds(r.event.all) /\ Return(me)
        /\ UNCHANGED <<channelVars, info>> /\ outages' = outages /\ fault' = fault
    BY DEF Ready, At, serverVars, userVars
  <1>2. r.event.kind = "READY"
    BY <1>1, Here, KindsAt
  <1>3. q.told = {} /\ r.event.all = {g \in Guilds : q.server[g].joined}
    BY <1>1, <1>2 DEF Matches, True, Greeted
  <1>4. Makes(r.event.all) /\ SameChannels
    BY <1>1, <1>3, MakesRead, ChannelsRead
  <1>5. s = Idle
    BY <1>1, GoesTo
  <1>6. HasCurrent(s)'
    BY <1>5, IdleQuiet DEF HasCurrent
  <1>7. \A g \in guilds' : Entries(g)'
    <2> SUFFICES ASSUME NEW g \in guilds' PROVE Entries(g)'
      OBVIOUS
    <2>1. CASE g \in guilds
      BY <1>4, <2>1 DEF Entries, Matches, Makes, SameChannels
    <2>2. CASE g \notin guilds
      BY <1>4, <2>2 DEF Entries, Makes, NewGuild
    <2> QED BY <2>1, <2>2
  <1>8. AllKnown(s)'
    BY <1>1, <1>4 DEF AllKnown, Matches, SameChannels
  <1>9. RolesSeen(q)'
    BY <1>1 DEF RolesSeen, Matches, Seen
  <1>10. HasAll(q, s)'
    BY <1>3 DEF HasAll
  <1>11. HasNoMore(q, s)'
    <2> SUFFICES ASSUME outages = 0, NEW g \in guilds' PROVE OnlyHas(q, s, g)'
      BY <1>1 DEF HasNoMore
    <2>1. CASE g \in guilds
      <3>1. OnlyHas(q, r, g) /\ Current(g)' = Current(g)
        BY <1>4, <2>1 DEF Matches, HasNoMore, Makes
      <3> QED BY <1>2, <3>1 DEF OnlyHas, Concerns
    <2>2. CASE g \notin guilds
      <3>1. Current(g)' = NewGuild /\ q.server[g].joined
        BY <1>3, <1>4, <2>2 DEF Makes
      <3> QED BY <3>1 DEF OnlyHas, NewGuild
    <2> QED BY <2>1, <2>2
  <1>12. s.step = "idle" /\ fault' = "none"
    BY <1>1, <1>5, IdleQuiet DEF Matches
  <1>13. Matches(q, s)'
    BY <1>6, <1>7, <1>8, <1>9, <1>10, <1>11, <1>12 DEF Matches
  <1> QED BY <1>13 DEF Carried

LEMMA VoiceCarried ==
    ASSUME TypeInv, NEW me \in Threads, NEW q \in Stage, Sound(q), NEW r, r = thread[me],
           Matches(q, r), Create(me), r.event.kind # "GUILD_CREATE"
    PROVE  Carried(me, q)
  <1> PICK h, s : h = r.event.guild /\ s = thread'[me]
    OBVIOUS
  <1>1. /\ r.step = "create" /\ MakeGuilds({h}) /\ TypeInv'
        /\ UNCHANGED <<channelVars, info>> /\ outages' = outages /\ fault' = fault
        /\ Return(me)
    BY CreateType, Zenon DEF Create, At, serverVars, userVars, Return
  <1>2. r.event.kind = "VOICE_STATE_UPDATE"
    BY <1>1, Here, KindsAt
  <1>3. h \in guilds /\ h \in Guilds
    BY <1>1, <1>2, Described DEF LateGuild
  <1>4. Makes({h}) /\ SameChannels
    BY <1>1, <1>3, MakesRead, ChannelsRead
  <1>5. SameGuilds
    BY <1>3, <1>4 DEF SameGuilds, Makes
  <1>6. Still /\ Beside(h)
    BY <1>1, <1>4, <1>5 DEF Still, Beside, SameGuilds, SameChannels
  <1>7. s = Idle
    BY <1>1, GoesTo
  <1>8. HasCurrent(s)'
    BY <1>7, IdleQuiet DEF HasCurrent
  <1>9. StillLateAll(r, s, h)
    BY <1>2
    DEF StillLateAll, StillLate, LateRole, LateMember, LateChannel, LateLoad, LateGuild, BringsRole,
        BringsMember, BringsChannel
  <1>10. OnlyHas(q, r, h) => OnlyHas(q, s, h)
    BY <1>2 DEF OnlyHas, DropsRole, DropsMember, DropsChannel
  <1> QED BY <1>1, <1>2, <1>6, <1>7, <1>8, <1>9, <1>10, StillCarried DEF Linking

LEMMA CreateCarried ==
    ASSUME TypeInv, NEW me \in Threads, NEW q \in Stage, Sound(q), NEW r, r = thread[me],
           Matches(q, r), Create(me)
    PROVE  Carried(me, q)
  <1>0. CASE r.event.kind # "GUILD_CREATE"
    BY <1>0, VoiceCarried
  <1> SUFFICES ASSUME r.event.kind = "GUILD_CREATE" PROVE Carried(me, q)
    BY <1>0
  <1> PICK h, s, a, n : h = r.event.guild /\ s = thread'[me] /\ a = q.server[h]
          /\ n = Len(guildObj'[h])
    OBVIOUS
  <1>1. /\ r.step = "create" /\ MakeGuilds({h}) /\ TypeInv'
        /\ UNCHANGED <<channelVars, info>> /\ outages' = outages /\ fault' = fault
        /\ thread' = [thread EXCEPT ![me] = [@ EXCEPT !.step = "load", !.guild = n]]
    BY CreateType, Zenon DEF Create, At, serverVars, userVars
  <1>2. h \in Guilds /\ Says(r.event, q, a) /\ a \in ServerGuild
    BY <1>1, Here
  <1>3. Makes({h}) /\ SameChannels
    BY <1>1, <1>2, MakesRead, ChannelsRead
  <1>4. s.step = "load" /\ s.event = r.event /\ s.guild = n /\ s.channel = r.channel
            /\ s.todo = r.todo
    BY <1>1, ThreadAt DEF ThreadState
  <1>5. Beside(h) /\ h \in guilds'
    BY <1>1, <1>3 DEF Beside, Makes, SameChannels, TypeInv, GuildPart
  <1>6. HasCurrent(s)'
    <2>1. GuildPtr(h)' = n
      BY <1>5 DEF GuildPtr
    <2>2. r.channel # 0 => r.event.channel \in Channels
      BY Here DEF Equipped
    <2> QED BY <1>3, <1>4, <2>1, <2>2 DEF HasCurrent, Matches, SameChannels
  <1>7. AllKnown(s)'
    BY <1>1, <1>3 DEF AllKnown, Matches, SameChannels
  <1>8. RolesSeen(q)'
    BY <1>1 DEF RolesSeen, Matches, Seen
  <1>9. Entries(h)'
    <2>1. CASE h \in guilds
      BY <1>3, <2>1 DEF Entries, Matches, Makes, SameChannels
    <2>2. CASE h \notin guilds
      BY <1>3, <2>2 DEF Entries, Makes, NewGuild
    <2> QED BY <2>1, <2>2
  <1>10. ASSUME h \in q.told, a.joined PROVE Has(q, s, h)'
    <2>1. LateLoad(s, h)
      BY <1>4 DEF LateLoad, Concerns
    <2>2. HasRoles(q, s, h)' /\ HasMembers(q, s, h)'
      BY <2>1 DEF HasRoles, HasMembers, LateRole, LateMember
    <2>3. HasChannels(q, s, h)'
      <3> SUFFICES ASSUME NEW c \in a.channels PROVE Linked(h, c)' \/ LateChannel(s, h, c)
        BY DEF HasChannels
      <3>0. c \in Channels
        BY <1>2 DEF ServerGuild
      <3>1. CASE LateGuild(r, h)
        <4>1. c \in s.todo
          BY <1>2, <1>4, <3>1, Zenon DEF LateGuild, Says
        <4> QED BY <1>4, <4>1 DEF LateChannel, Concerns
      <3>2. CASE Has(q, r, h)
        <4>1. h \in guilds /\ (Linked(h, c) \/ LateChannel(r, h, c))
          BY <3>2 DEF Has, HasChannels
        <4>2. CASE Linked(h, c)
          BY <1>3, <3>0, <4>1, <4>2 DEF Linked, Makes, SameChannels
        <4>3. CASE LateChannel(r, h, c)
          BY <1>1, <1>4, <4>3 DEF LateChannel, Concerns
        <4> QED BY <4>1, <4>2, <4>3
      <3> QED BY <1>10, <3>1, <3>2 DEF Matches, HasAll
    <2> QED BY <1>5, <2>2, <2>3 DEF Has
  <1>11. ASSUME outages = 0 PROVE OnlyHas(q, s, h)'
    <2>1. CASE h \in guilds
      <3>1. OnlyHas(q, r, h) /\ Current(h)' = Current(h)
        BY <1>3, <1>11, <2>1 DEF Matches, HasNoMore, Makes
      <3> QED BY <1>4, <3>1, Zenon DEF OnlyHas, Concerns
    <2>2. CASE h \notin guilds
      <3>1. Current(h)' = NewGuild /\ a.joined
        BY <1>2, <1>3, <2>2, Zenon DEF Makes, Says
      <3> QED BY <3>1 DEF OnlyHas, NewGuild
    <2> QED BY <2>1, <2>2
  <1>12. \A g \in Guilds : Concerns(r, g) \/ Concerns(s, g) => g = h
    BY <1>4 DEF Concerns
  <1>13. fault' = "none" /\ True(s.event, q)
    BY <1>1, <1>4 DEF Matches
  <1> QED BY <1>1, <1>5, <1>6, <1>7, <1>8, <1>9, <1>10, <1>11, <1>12, <1>13, Whole

LEMMA RemoveGuildCarried ==
    ASSUME TypeInv, NEW me \in Threads, NEW q \in Stage, Sound(q), NEW r, r = thread[me],
           Matches(q, r), RemoveGuild(me)
    PROVE  Carried(me, q)
  <1> PICK h, s : h = r.event.guild /\ s = thread'[me]
    OBVIOUS
  <1>1. /\ r.step = "remove" /\ guilds' = guilds \ {h} /\ guildObj' = guildObj /\ TypeInv'
        /\ Return(me)
        /\ UNCHANGED <<channelVars, info>> /\ outages' = outages /\ fault' = fault
    BY RemoveGuildType DEF RemoveGuild, At, serverVars, userVars
  <1>2. r.event.kind = "GUILD_DELETE"
    BY <1>1, Here, KindsAt
  <1>3. h \in Guilds /\ ~q.server[h].joined
    BY <1>1, <1>2, Here DEF Says
  <1>4. SameChannels
    BY <1>1, ChannelsRead
  <1>5. Beside(h) /\ h \notin guilds'
    BY <1>1, <1>4 DEF Beside, SameChannels, Current, GuildPtr
  <1>6. s = Idle
    BY <1>1, GoesTo
  <1>7. HasCurrent(s)' /\ s.step = "idle" /\ fault' = "none"
    BY <1>1, <1>6, IdleQuiet DEF HasCurrent, Matches
  <1>8. AllKnown(s)'
    BY <1>1, <1>4 DEF AllKnown, Matches, SameChannels
  <1>9. RolesSeen(q)'
    BY <1>1 DEF RolesSeen, Matches, Seen
  <1>10. \A g \in Guilds : Concerns(r, g) \/ Concerns(s, g) => g = h
    BY <1>6, IdleQuiet DEF Concerns
  <1> QED BY <1>1, <1>3, <1>5, <1>7, <1>8, <1>9, <1>10, Whole

-----------------------------------------------------------------------------
(* A task is taken.                                                        *)

\* A handler that has just been given the event e.
Begun(e, s) ==
    /\ s.event = e /\ s.step = First(e.kind) /\ s.guild = 0 /\ s.channel = 0
    /\ s.todo = IF e.kind \in LoadKinds THEN e.load.channels ELSE Listed(e)

LEMMA FirstStep ==
    ASSUME NEW e \in Event
    PROVE  /\ First(e.kind) \in {"ready", "create", "lockGuilds", "findChannel", "createChannel",
                                  "find"}
           /\ e.kind = "GUILD_CREATE" => First(e.kind) = "create"
  BY DEF First

\* The guild of an event: what the cache had of it before, it has of it after.
LEMMA TurnsMember ==
    ASSUME NEW p \in Stage, NEW q \in Stage, NEW e \in Event, e.kind # "READY", After(p, e, q),
           e.guild \in Guilds, RolesSeen(p), Sound(p),
           NEW u \in Users, HasMember(p, e.guild, u), u \notin BringsMember(e),
           q.server[e.guild].members[u] # NoInfo, p.server[e.guild].members[u] # NoInfo
    PROVE  HasMember(q, e.guild, u)
  <1> PICK g, a, b, i : g = e.guild /\ a = p.server[g] /\ b = q.server[g] /\ i = info[u][g]
    OBVIOUS
  <1>1. Turns(e, a, b) /\ Says(e, q, b) /\ q.gone = p.gone \cup DropsRole(e) \cup DropsChannel(e)
    BY DEF After, True
  <1>2. u \in Current(g).members /\ i # NoInfo /\ i \cap a.roles = a.members[u]
            /\ i \subseteq a.roles \cup p.gone
    BY DEF HasMember, RolesSeen, Seen
  <1>3. u \notin DropsMember(e)
    BY <1>1 DEF Says
  <1>4. b.members[u] = a.members[u] \ DropsRole(e)
            /\ b.roles = (a.roles \ DropsRole(e)) \cup BringsRole(e)
    BY <1>1, <1>3 DEF Turns
  <1>5. BringsRole(e) \cap p.gone = {} /\ BringsRole(e) \cap DropsRole(e) = {}
    BY <1>1 DEF Says, BringsRole, DropsRole
  <1>6. i \cap b.roles = b.members[u]
    BY <1>2, <1>4, <1>5
  <1> QED BY <1>2, <1>6 DEF HasMember

LEMMA TurnsHas ==
    ASSUME TypeInv, NEW p \in Stage, NEW q \in Stage, Sound(p), Sound(q), NEW e \in Event,
        e.kind # "READY", After(p, e, q),
           NEW g, g = e.guild, g \in Guilds, RolesSeen(p), Has(p, Idle, g), NEW s, Begun(e, s)
    PROVE  Has(q, s, g)
  <1> PICK a, b : a = p.server[g] /\ b = q.server[g]
    OBVIOUS
  <1>1. Turns(e, a, b) /\ Says(e, q, b) /\ a \in ServerGuild /\ b \in ServerGuild
    BY DEF After, True, Stage
  <1>2. /\ g \in guilds /\ HasRoles(p, Idle, g) /\ HasMembers(p, Idle, g)
        /\ HasChannels(p, Idle, g) /\ Concerns(s, g)
    BY DEF Has, Concerns, Begun
  <1>3. HasRoles(q, s, g)
    BY <1>1, <1>2, IdleQuiet DEF HasRoles, Turns, LateRole, Begun
  <1>4. HasMembers(q, s, g)
    <2> SUFFICES ASSUME NEW u \in Users \ Offline, b.members[u] # NoInfo, ~LateMember(s, g, u)
                 PROVE  HasMember(q, g, u)
      BY DEF HasMembers
    <2>1. u \notin BringsMember(e)
      <3> SUFFICES ASSUME u \in BringsMember(e) PROVE FALSE
        OBVIOUS
      <3>1. e.kind \in {"GUILD_MEMBER_ADD", "GUILD_MEMBER_UPDATE"} /\ u = e.user
        BY DEF BringsMember
      <3>2. u \in Listed(e)
        BY <1>1, <3>1 DEF Says
      <3>3. u \in s.todo
        BY <3>1, <3>2 DEF Begun, LoadKinds
      <3> QED BY <1>2, <3>3 DEF LateMember, Begun
    <2>2. u \notin DropsMember(e)
      BY <1>1 DEF Says
    <2>3. a.members[u] # NoInfo
      BY <1>1, <2>1, <2>2 DEF Turns
    <2>4. HasMember(p, g, u)
      BY <1>2, <2>3, IdleQuiet DEF HasMembers
    <2> QED BY <2>1, <2>3, <2>4, TurnsMember
  <1>5. HasChannels(q, s, g)
    BY <1>1, <1>2, IdleQuiet DEF HasChannels, Turns, LateChannel, Begun
  <1> QED BY <1>2, <1>3, <1>4, <1>5 DEF Has

LEMMA TurnsOnly ==
    ASSUME TypeInv, NEW p \in Stage, NEW q \in Stage, NEW e \in Event, e.kind # "READY", After(p,
        e, q),
           NEW g, g = e.guild, g \in Guilds, g \in guilds, OnlyHas(p, Idle, g), NEW s, Begun(e, s)
    PROVE  OnlyHas(q, s, g)
  <1> PICK a, b : a = p.server[g] /\ b = q.server[g]
    OBVIOUS
  <1>1. Turns(e, a, b) /\ Says(e, q, b) /\ a \in ServerGuild /\ b \in ServerGuild
            /\ s.event = e /\ Concerns(s, g)
    BY DEF After, True, Stage, Begun, Concerns
  <1>2. /\ \A x \in Current(g).roles : x \in a.roles
        /\ \A u \in Current(g).members : a.members[u] # NoInfo
        /\ \A c \in Channels : Current(g).channels[c] # 0 => c \in a.channels
    BY IdleQuiet DEF OnlyHas
  <1>3. b.joined \/ e.kind = "GUILD_DELETE"
    BY <1>1 DEF Says
  <1>4. \A x \in Current(g).roles : x \in b.roles \/ x \in DropsRole(e)
    BY <1>1, <1>2 DEF Turns
  <1>5. \A c \in Channels : Current(g).channels[c] # 0 => c \in b.channels \/ c \in DropsChannel(e)
    BY <1>1, <1>2 DEF Turns
  <1>6. \A u \in Current(g).members : b.members[u] # NoInfo \/ u \in DropsMember(e)
    <2> SUFFICES ASSUME NEW u \in Current(g).members, u \notin DropsMember(e)
            PROVE b.members[u] # NoInfo
      OBVIOUS
    <2>1. CASE u \in BringsMember(e)
      <3>1. u \in Listed(e)
        BY <1>1, <2>1 DEF BringsMember, Says
      <3> QED BY <1>1, <3>1 DEF Says, Listed
    <2>2. CASE u \notin BringsMember(e)
      <3>1. u \in Users /\ a.members[u] # NoInfo
        <4>1. Current(g) \in GuildObject
          BY CurrentType
        <4> QED BY <1>2, <4>1 DEF GuildObject
      <3>2. b.members[u] = a.members[u] \ DropsRole(e)
        BY <1>1, <2>2, <3>1 DEF Turns
      <3>3. a.members[u] \in SUBSET Roles
        BY <1>1, <3>1 DEF ServerGuild, Membership
      <3> QED BY <3>2, <3>3, Memberships
    <2> QED BY <2>1, <2>2
  <1> QED BY <1>1, <1>3, <1>4, <1>5, <1>6 DEF OnlyHas

LEMMA BegunMatches ==
    ASSUME TypeInv, NEW p \in Stage, NEW q \in Stage, Sound(p), Sound(q), Matches(p, Idle),
           NEW e \in Event, WellFormed(e), After(p, e, q), NEW s, Begun(e, s)
    PROVE  Matches(q, s)
  <1> PICK h : h = e.guild
    OBVIOUS
  <1>1. guilds \subseteq Guilds /\ q.told \subseteq Guilds
    BY DEF TypeInv, GuildPart, Stage
  <1>2. HasCurrent(s)
    BY FirstStep DEF HasCurrent, Begun
  <1>3. AllKnown(s)
    BY IdleQuiet DEF AllKnown, Matches
  <1>4. RolesSeen(q)
    <2>1. \A g \in Guilds : Seen(p, g) \subseteq Seen(q, g)
      BY DEF After, Grown
    <2> QED BY <2>1 DEF RolesSeen, Matches
  <1>5. True(s.event, q)
    BY DEF After, Begun
  <1>6. e.kind # "READY" => h \in Guilds
    BY DEF WellFormed
  <1>7. \A g : Concerns(s, g) <=> e.kind # "READY" /\ g = h
    BY DEF Concerns, Begun
  <1>8. ASSUME NEW g \in Guilds, e.kind = "READY" \/ g # h
        PROVE  /\ Has(p, Idle, g) /\ q.server[g] = p.server[g] => Has(q, s, g)
               /\ OnlyHas(p, Idle, g) /\ q.server[g] = p.server[g] => OnlyHas(q, s, g)
    <2>1. ~Concerns(s, g)
      BY <1>7, <1>8
    <2>2. Has(p, Idle, g) /\ q.server[g] = p.server[g] => Has(q, s, g)
      BY <2>1, IdleQuiet
      DEF Has, HasRoles, HasMembers, HasMember, HasChannels, LateRole, LateMember, LateChannel,
          LateLoad
    <2>3. OnlyHas(p, Idle, g) /\ q.server[g] = p.server[g] => OnlyHas(q, s, g)
      BY <2>1, IdleQuiet DEF OnlyHas
    <2> QED BY <2>2, <2>3
  <1>9. HasAll(q, s)
    <2> SUFFICES ASSUME NEW g \in q.told, q.server[g].joined PROVE Has(q, s, g) \/ LateGuild(s, g)
      BY DEF HasAll
    <2>1. e.kind # "READY"
      BY DEF After, True, Greeted
    <2>2. CASE g # h
      <3>1. g \in p.told /\ q.server[g] = p.server[g]
        BY <1>1, <2>1, <2>2 DEF After
      <3>2. Has(p, Idle, g)
        BY <3>1, IdleQuiet DEF Matches, HasAll
      <3> QED BY <1>1, <1>8, <2>2, <3>1, <3>2
    <2>3. CASE g = h /\ e.kind = "GUILD_CREATE"
      BY <1>7, <2>3, FirstStep DEF LateGuild, Begun, LoadKinds
    <2>4. CASE g = h /\ e.kind # "GUILD_CREATE"
      <3>1. g \in p.told /\ p.server[g].joined
        BY <2>1, <2>4 DEF After, Turns
      <3>2. Has(p, Idle, g)
        BY <3>1, IdleQuiet DEF Matches, HasAll
      <3> QED BY <1>1, <2>1, <2>4, <3>2, TurnsHas DEF Matches
    <2> QED BY <2>2, <2>3, <2>4
  <1>10. HasNoMore(q, s)
    <2> SUFFICES ASSUME outages = 0, NEW g \in guilds PROVE OnlyHas(q, s, g)
      BY DEF HasNoMore
    <2>1. OnlyHas(p, Idle, g) /\ g \in Guilds
      BY <1>1 DEF Matches, HasNoMore
    <2>2. CASE e.kind # "READY" /\ g = h
      BY <2>1, <2>2, TurnsOnly
    <2>3. CASE e.kind = "READY" \/ g # h
      <3>1. q.server[g] = p.server[g]
        <4>1. CASE e.kind = "READY"
          BY <4>1 DEF After
        <4>2. CASE e.kind # "READY" /\ g # h
          BY <2>1, <4>2 DEF After
        <4> QED BY <2>3, <4>1, <4>2
      <3> QED BY <1>8, <2>1, <2>3, <3>1
    <2> QED BY <2>2, <2>3
  <1> QED BY <1>2, <1>3, <1>4, <1>5, <1>9, <1>10 DEF Matches

LEMMA AfterKept ==
    ASSUME NEW p, NEW e, NEW q, After(p, e, q), outages' = 0 => outages = 0
    PROVE  After(p, e, q)'
  BY DEF After

\* A history without its first stage, once the first event is taken.
LEMMA HistoryTail ==
    ASSUME NEW ts \in Seq(Event), ts # <<>>, NEW h, History(h, ts), UNCHANGED serverVars,
           NEW us, us = Tail(ts)
    PROVE  \E f : f[1] = h[2] /\ History(f, us)'
  <1> PICK n : n = Len(ts)
    OBVIOUS
  <1>1. n \in Nat /\ n # 0
    BY EmptySeq, LenProperties
  <1>2. Len(us) = n - 1 /\ \A k \in 1..(n - 1) : us[k] = ts[k + 1]
    BY <1>1, HeadTailProperties
  <1> PICK f : f = [k \in 1..n |-> h[k + 1]]
    OBVIOUS
  <1>4. /\ h \in [1..(n + 1) -> Stage] /\ \A k \in 1..(n + 1) : Sound(h[k])
        /\ \A k \in 1..n : After(h[k], ts[k], h[k + 1])
        /\ Sound(Now) /\ Grown(h[n + 1], Now)
        /\ link => /\ h[n + 1].server = server /\ h[n + 1].gone = gone
             /\ Joined \subseteq h[n + 1].told
        /\ outages = 0 => link
    BY DEF History, Chain
  <1>5. \A k \in 1..n : f[k] = h[k + 1] /\ k + 1 \in 1..(n + 1)
    BY <1>1
  <1>6. f \in [1..n -> Stage] /\ \A k \in 1..n : Sound(f[k])
    BY <1>1, <1>4, <1>5
  <1>10. UNCHANGED <<server, gone, link, outages>>
    BY DEF serverVars
  <1>7. ASSUME NEW k \in 1..(n - 1) PROVE After(f[k], us[k], f[k + 1])'
    <2>1. k \in 1..n /\ k + 1 \in 1..n
      BY <1>1
    <2>2. f[k] = h[k + 1] /\ f[k + 1] = h[(k + 1) + 1] /\ us[k] = ts[k + 1]
      BY <1>2, <1>5, <2>1
    <2>3. After(f[k], us[k], f[k + 1])
      BY <1>4, <2>1, <2>2
    <2> QED BY <1>10, <2>3, AfterKept
  <1>8. f[n] = h[n + 1] /\ f[1] = h[2]
    BY <1>1, <1>5
  <1>9. n - 1 \in Nat /\ (n - 1) + 1 = n
    BY <1>1
  <1>11. History(f, us)'
    <2>2. (Sound(Now) /\ Grown(f[n], Now))'
      BY <1>4, <1>8, <1>10 DEF Now, Sound, Grown, Seen
    <2>3. (link => /\ f[n].server = server /\ f[n].gone = gone /\ Joined \subseteq f[n].told)'
      BY <1>4, <1>8, <1>10 DEF Joined
    <2>4. (outages = 0 => link)'
      BY <1>4, <1>10
    <2> QED BY <1>2, <1>6, <1>7, <1>9, <2>2, <2>3, <2>4 DEF History, Chain
  <1> QED BY <1>8, <1>11

\* As long as the cache is left alone, it stays as it is said to be.
LEMMA MatchesKept ==
    ASSUME NEW q, NEW s, Matches(q, s), UNCHANGED <<guildVars, channelVars, info, fault>>,
           outages' = 0 => outages = 0
    PROVE  Matches(q, s)'
  <1>1. /\ guilds' = guilds /\ channels' = channels /\ info' = info /\ fault' = fault
        /\ \A g : GuildPtr(g)' = GuildPtr(g) /\ Current(g)' = Current(g)
        /\ \A c : ChannelPtr(c)' = ChannelPtr(c) /\ ChanOf(c)' = ChanOf(c)
    BY DEF guildVars, channelVars, GuildPtr, Current, ChannelPtr, ChanOf
  <1>2. HasCurrent(s)' /\ (\A g \in guilds : Entries(g))' /\ AllKnown(s)' /\ RolesSeen(q)'
    BY <1>1 DEF Matches, HasCurrent, Entries, AllKnown, RolesSeen, Seen
  <1>3. ASSUME NEW g, Has(q, s, g) PROVE Has(q, s, g)'
    BY <1>1, <1>3 DEF Has, HasRoles, HasMembers, HasMember, HasChannels, Linked
  <1>4. ASSUME NEW g, OnlyHas(q, s, g) PROVE OnlyHas(q, s, g)'
    BY <1>1, <1>4 DEF OnlyHas
  <1>5. HasAll(q, s)'
    BY <1>3 DEF Matches, HasAll
  <1>6. HasNoMore(q, s)'
    BY <1>1, <1>4 DEF Matches, HasNoMore
  <1> QED BY <1>1, <1>2, <1>5, <1>6 DEF Matches

LEMMA TakeCarried ==
    ASSUME TypeInv, NEW me \in Threads, NEW ts, ts = tasks, NEW r, r = thread[me], NEW h,
        History(h, ts),
           Matches(h[1], r), Take(me)
    PROVE  SerialInv(me)'
  <1> PICK e, s, us : e = Head(ts) /\ s = thread'[me] /\ us = Tail(ts)
    OBVIOUS
  <1> DEFINE todo == IF e.kind \in {"GUILD_CREATE",
          "GUILD_UPDATE"} THEN e.load.channels ELSE Listed(e)
  <1>1. /\ r.step = "idle" /\ ts # <<>> /\ tasks' = us
        /\ thread' = [thread EXCEPT ![me] = [Idle EXCEPT !.step = First(e.kind), !.event = e,
             !.todo = todo]]
        /\ UNCHANGED <<serverVars, guildVars, channelVars, info, fault>>
    BY DEF Take, At, userVars
  <1>2. ts \in Seq(Event) /\ \A k \in 1..Len(ts) : WellFormed(ts[k])
    BY DEF TypeInv, TaskPart
  <1>3. Len(ts) \in Nat /\ Len(ts) # 0 /\ e = ts[1] /\ e \in Event
    BY <1>1, <1>2, EmptySeq, LenProperties, HeadTailProperties
  <1>4. WellFormed(e) /\ After(h[1], e, h[2]) /\ h[1] \in Stage /\ h[2] \in Stage
            /\ Sound(h[1]) /\ Sound(h[2])
    <2>1. 1 \in 1..Len(ts) /\ 1 \in 1..(Len(ts) + 1) /\ 2 \in 1..(Len(ts) + 1) /\ 1 + 1 = 2
      BY <1>3
    <2> QED BY <1>2, <1>3, <2>1 DEF History, Chain
  <1>5. Begun(e, s)
    <2>1. s = [Idle EXCEPT !.step = First(e.kind), !.event = e, !.todo = todo]
      BY <1>1, ThreadAt
    <2>2. todo = IF e.kind \in LoadKinds THEN e.load.channels ELSE Listed(e)
      BY DEF LoadKinds
    <2> HIDE DEF todo
    <2> QED BY <2>1, <2>2 DEF Begun, Idle
  <1>6. r = Idle
    BY <1>1, ThreadAt DEF Equipped
  <1>7. Matches(h[2], s)
    BY <1>3, <1>4, <1>5, <1>6, BegunMatches
  <1> PICK q : q = h[2]
    OBVIOUS
  <1>8. Matches(q, s)'
    BY <1>1, <1>7, MatchesKept DEF serverVars
  <1>9. PICK f : f[1] = h[2] /\ History(f, us)'
    BY <1>1, <1>2, HistoryTail
  <1>10. Matches(f[1], s)'
    BY <1>8, <1>9
  <1> QED BY <1>1, <1>9, <1>10 DEF SerialInv

-----------------------------------------------------------------------------
(* The server changes.                                                     *)

\* The stages of two sequences of events, one after the other.
Meets(h, ts, i, us, vs) ==
    /\ ts \in Seq(Event) /\ us \in Seq(Event) /\ vs = ts \o us
    /\ Chain(h, ts) /\ Chain(i, us) /\ i[1] = h[Len(ts) + 1]

LEMMA ChainJoin ==
    ASSUME NEW ts, NEW us, NEW vs, NEW h, NEW i, Meets(h, ts, i, us, vs)
    PROVE  \E f : Chain(f, vs) /\ f[1] = h[1] /\ f[Len(vs) + 1] = i[Len(us) + 1]
  <1> PICK n, m : n = Len(ts) /\ m = Len(us)
    OBVIOUS
  <1> USE DEF Meets
  <1>1. n \in Nat /\ m \in Nat
    BY LenProperties
  <1>2. /\ Len(vs) = n + m
        /\ \A k \in 1..(n + m) : vs[k] = IF k <= n THEN ts[k] ELSE us[k - n]
    BY ConcatProperties
  <1> PICK f : f = [k \in 1..(n + m + 1) |-> IF k <= n THEN h[k] ELSE i[k - n]]
    OBVIOUS
  <1>3. /\ h \in [1..(n + 1) -> Stage] /\ \A k \in 1..(n + 1) : Sound(h[k])
        /\ \A k \in 1..n : After(h[k], ts[k], h[k + 1])
    BY DEF Chain
  <1>4. /\ i \in [1..(m + 1) -> Stage] /\ \A k \in 1..(m + 1) : Sound(i[k])
        /\ \A k \in 1..m : After(i[k], us[k], i[k + 1])
    BY DEF Chain
  <1>5. ASSUME NEW k \in 1..(n + m + 1)
        PROVE  /\ k <= n => k \in 1..(n + 1) /\ f[k] = h[k]
               /\ k > n => k - n \in 1..(m + 1) /\ f[k] = i[k - n]
    BY <1>1
  <1>6. ASSUME NEW k \in 1..(n + m + 1) PROVE f[k] \in Stage /\ Sound(f[k])
    <2>1. CASE k <= n
      <3>1. k \in 1..(n + 1) /\ f[k] = h[k]
        BY <1>5, <2>1
      <3>2. h[k] \in Stage /\ Sound(h[k])
        BY <1>3, <3>1
      <3> QED BY <3>1, <3>2
    <2>2. CASE k > n
      <3> PICK j : j = k - n
        OBVIOUS
      <3>1. j \in 1..(m + 1) /\ f[k] = i[j]
        BY <1>5, <2>2
      <3>2. i[j] \in Stage /\ Sound(i[j])
        BY <1>4, <3>1
      <3> QED BY <3>1, <3>2
    <2> QED BY <1>1, <2>1, <2>2
  <1>7. f \in [1..(n + m + 1) -> Stage]
    BY <1>6
  <1>8. f[n + 1] = h[n + 1]
    <2>1. n + 1 \in 1..(n + m + 1) /\ n + 1 > n /\ (n + 1) - n = 1
      BY <1>1
    <2> QED BY <1>5, <2>1
  <1>9. ASSUME NEW k \in 1..(n + m) PROVE After(f[k], vs[k], f[k + 1])
    <2>1. CASE k <= n
      <3>1. k \in 1..n /\ f[k] = h[k] /\ vs[k] = ts[k] /\ f[k + 1] = h[k + 1]
        <4>1. k \in 1..n /\ k \in 1..(n + m + 1) /\ k + 1 \in 1..(n + m + 1)
          BY <1>1, <2>1
        <4>2. k + 1 <= n \/ k = n
          BY <1>1, <2>1
        <4> QED BY <1>2, <1>5, <1>8, <2>1, <4>1, <4>2
      <3> QED BY <1>3, <3>1
    <2>2. CASE k > n
      <3>1. /\ k - n \in 1..m /\ k \in 1..(n + m + 1) /\ k + 1 \in 1..(n + m + 1) /\ k + 1 > n
            /\ (k + 1) - n = (k - n) + 1 /\ ~(k <= n)
        BY <1>1, <2>2
      <3>2. f[k] = i[k - n] /\ f[k + 1] = i[(k - n) + 1] /\ vs[k] = us[k - n]
        BY <1>2, <1>5, <2>2, <3>1
      <3> QED BY <1>4, <3>1, <3>2
    <2> QED BY <1>1, <2>1, <2>2
  <1>10. Chain(f, vs)
    BY <1>2, <1>6, <1>7, <1>9 DEF Chain
  <1>11. f[1] = h[1]
    <2>1. CASE n = 0
      BY <1>8, <2>1
    <2>2. CASE n # 0
      <3>1. 1 \in 1..(n + m + 1) /\ 1 <= n
        BY <1>1, <2>2
      <3> QED BY <1>5, <3>1
    <2> QED BY <2>1, <2>2
  <1>12. f[(n + m) + 1] = i[m + 1]
    <2>1. (n + m) + 1 \in 1..(n + m + 1) /\ (n + m) + 1 > n /\ ((n + m) + 1) - n = m + 1
      BY <1>1
    <2> QED BY <1>5, <2>1
  <1> QED BY <1>2, <1>10, <1>11, <1>12

LEMMA ChainKept ==
    ASSUME NEW h, NEW ts, Chain(h, ts), outages' = 0 => outages = 0
    PROVE  Chain(h, ts)'
  <1>1. \A k \in 1..Len(ts) : After(h[k], ts[k], h[k + 1])'
    BY AfterKept DEF Chain
  <1>2. (\A k \in 1..(Len(ts) + 1) : Sound(h[k]))'
    BY DEF Chain, Sound
  <1> QED BY <1>1, <1>2 DEF Chain

\* One more event.
LEMMA ChainOne ==
    ASSUME NEW p \in Stage, NEW q \in Stage, Sound(p), Sound(q), NEW e \in Event, After(p, e, q)
    PROVE  \E i : Chain(i, <<e>>) /\ i[1] = p /\ i[2] = q
  <1> PICK i : i = [k \in 1..2 |-> IF k = 1 THEN p ELSE q]
    OBVIOUS
  <1> PICK us : us = <<e>>
    OBVIOUS
  <1>1. Len(us) = 1 /\ us[1] = e
    OBVIOUS
  <1>2. i \in [1..2 -> Stage] /\ i[1] = p /\ i[2] = q /\ \A k \in 1..2 : Sound(i[k])
    OBVIOUS
  <1>3. \A k \in 1..1 : After(i[k], us[k], i[k + 1])
    BY <1>1, <1>2
  <1>4. Chain(i, us)
    BY <1>1, <1>2, <1>3 DEF Chain
  <1> QED BY <1>2, <1>4

\* The history goes on with the server.
Goes(h) == \E f, us : us = tasks' /\ f[1] = h[1] /\ History(f, us)'

LEMMA ServerCarried ==
    ASSUME NEW me, NEW r, r = thread[me], NEW h, Matches(h[1], r), Goes(h),
           UNCHANGED BotVars, outages' = 0 => outages = 0
    PROVE  SerialInv(me)'
  <1> PICK f, us : us = tasks' /\ f[1] = h[1] /\ History(f, us)'
    BY DEF Goes
  <1>1. thread'[me] = r /\ UNCHANGED <<guildVars, channelVars, info, fault>>
    BY DEF BotVars, userVars
  <1> PICK q : q = h[1]
    OBVIOUS
  <1>2. Matches(q, r)'
    BY <1>1, MatchesKept
  <1>3. Matches(f[1], r)'
    BY <1>2
  <1> QED BY <1>1, <1>3 DEF SerialInv

LEMMA LoseGoes ==
    ASSUME TypeInv, NEW ts, ts = tasks, NEW h, History(h, ts), LoseSession
    PROVE  Goes(h) /\ outages' # 0
  <1>1. /\ UNCHANGED <<server, gone, tasks>> /\ link' = FALSE /\ outages' # 0
    BY DEF LoseSession, TypeInv, ServerPart
  <1>2. Chain(h, ts)'
    BY <1>1, ChainKept DEF History
  <1>3. (Sound(Now) /\ Grown(h[Len(ts) + 1], Now))'
    BY <1>1 DEF History, Now, Sound, Grown, Seen
  <1>4. History(h, ts)'
    BY <1>1, <1>2, <1>3 DEF History
  <1> QED BY <1>1, <1>4 DEF Goes

\* An event says how the server changes to b the guild it is about.
Fits(e, b) ==
    /\ Sent(e) /\ e.kind # "READY" /\ e.guild \in Guilds /\ b \in ServerGuild
    /\ server' = [server EXCEPT ![e.guild] = b]
    /\ gone' = gone \cup DropsRole(e) \cup DropsChannel(e)
    /\ Turns(e, server[e.guild], b)
    /\ \A u \in Users : b.members[u] # NoInfo => b.members[u] \subseteq b.roles
    /\ \A q : q.gone = gone' /\ e.guild \in q.told => Says(e, q, b)

LEMMA FitsGoes ==
    ASSUME TypeInv, TypeInv', NEW ts, ts = tasks, NEW h, History(h, ts), NEW e, NEW b, Fits(e, b),
           tasks' = IF link THEN Append(tasks, e) ELSE tasks, link' = link, outages' = outages
    PROVE  Goes(h)
  <1> PICK g, a, n : g = e.guild /\ a = server[g] /\ n = Len(ts)
    OBVIOUS
  <1>1. /\ e \in Event /\ e.kind # "READY" /\ g \in Guilds /\ b \in ServerGuild /\ server'[g] = b
        /\ \A x \in Guilds \ {g} : server'[x] = server[x]
        /\ gone' = gone \cup DropsRole(e) \cup DropsChannel(e) /\ Turns(e, a, b)
        /\ server' \in [Guilds -> ServerGuild] /\ gone' \in SUBSET (Channels \cup Roles)
        /\ \A x \in Guilds : \A c \in server'[x].channels : GuildOf[c] = x
    BY DEF Fits, TypeInv, ServerPart, Sent
  <1>2. Chain(h, ts)' /\ Chain(h, ts) /\ ts \in Seq(Event) /\ n \in Nat
    BY ChainKept, LenProperties DEF History, TypeInv, TaskPart
  <1>3. /\ Sound(Now) /\ Grown(h[n + 1], Now)
        /\ link => /\ h[n + 1].server = server /\ h[n + 1].gone = gone
             /\ Joined \subseteq h[n + 1].told
        /\ outages = 0 => link
    BY DEF History
  <1>4. \A x \in Guilds : \A u \in Users :
            server'[x].members[u] # NoInfo => server'[x].members[u] \subseteq server'[x].roles
    <2> SUFFICES ASSUME NEW x \in Guilds, NEW u \in Users, server'[x].members[u] # NoInfo
                 PROVE  server'[x].members[u] \subseteq server'[x].roles
      OBVIOUS
    <2>1. CASE x = g
      BY <1>1, <2>1 DEF Fits
    <2>2. CASE x # g
      BY <1>1, <1>3, <2>2 DEF Sound, Now
    <2> QED BY <2>1, <2>2
  <1>5. Sound(Now)'
    BY <1>1, <1>4 DEF Sound, Now
  <1>6. \A x \in Guilds : server[x].roles \cup gone \subseteq server'[x].roles \cup gone'
    <2> SUFFICES ASSUME NEW x \in Guilds
            PROVE server[x].roles \cup gone \subseteq server'[x].roles \cup gone'
      OBVIOUS
    <2>1. CASE x = g
      BY <1>1, <2>1 DEF Turns
    <2>2. CASE x # g
      BY <1>1, <2>2
    <2> QED BY <2>1, <2>2
  <1>7. CASE ~link
    <2>1. Grown(h[n + 1], Now)'
      BY <1>3, <1>6 DEF Grown, Seen, Now
    <2>2. History(h, ts)'
      BY <1>2, <1>3, <1>5, <1>7, <2>1 DEF History
    <2> QED BY <1>7, <2>2 DEF Goes
  <1>8. CASE link
    <2> PICK p : p = h[n + 1]
      OBVIOUS
    <2> PICK T : T = p.told \cup (IF e.kind = "GUILD_CREATE" THEN {g} ELSE {})
      OBVIOUS
    <2> PICK z : z = [server |-> server', gone |-> gone', told |-> T]
      OBVIOUS
    <2>1. p \in Stage /\ Sound(p) /\ p.server = server /\ p.gone = gone /\ Joined \subseteq p.told
      BY <1>2, <1>3, <1>8 DEF Chain
    <2>2. z \in Stage /\ z.server = server' /\ z.gone = gone' /\ z.told = T
      BY <1>1, <2>1 DEF Stage
    <2>3. Sound(z)
      BY <1>1, <1>4, <2>2 DEF Sound
    <2>4. e.kind # "GUILD_CREATE" => g \in Joined
      BY <1>1 DEF Turns, Joined
    <2>5. g \in T
      BY <2>1, <2>4
    <2>6. Says(e, z, b)
      BY <2>2, <2>5 DEF Fits
    <2>7. After(p, e, z)
      <3>1. Grown(p, z)
        BY <1>6, <2>1, <2>2 DEF Grown, Seen
      <3> QED BY <1>1, <2>1, <2>2, <2>6, <3>1 DEF After, True
    <2>8. PICK i : Chain(i, <<e>>) /\ i[1] = p /\ i[2] = z
      BY <1>1, <2>1, <2>2, <2>3, <2>7, ChainOne
    <2> PICK us, vs : us = ts \o vs /\ vs = <<e>>
      OBVIOUS
    <2>9. vs \in Seq(Event) /\ Len(vs) = 1 /\ tasks' = us
      BY <1>1, <1>2, <1>8, AppendIsConcat
    <2>10. PICK f : Chain(f, us) /\ f[1] = h[1] /\ f[Len(us) + 1] = z
      <3>1. Meets(h, ts, i, vs, us)
        BY <1>2, <2>8, <2>9 DEF Meets
      <3>2. \E f : Chain(f, us) /\ f[1] = h[1] /\ f[Len(us) + 1] = i[Len(vs) + 1]
        BY ONLY <3>1, ChainJoin
      <3> QED BY <2>8, <2>9, <3>2
    <2>11. Chain(f, us)'
      BY <2>10, ChainKept
    <2>12. Joined' \subseteq T
      <3> SUFFICES ASSUME NEW x \in Guilds, server'[x].joined PROVE x \in T
        BY DEF Joined
      <3>1. CASE x = g
        BY <2>5, <3>1
      <3>2. CASE x # g
        BY <1>1, <2>1, <3>2 DEF Joined
      <3> QED BY <3>1, <3>2
    <2>13. Grown(f[Len(us) + 1], Now)'
      BY <2>2, <2>10 DEF Grown, Seen, Now
    <2>14. (link => f[Len(us) + 1].server = server /\ f[Len(us) + 1].gone = gone
                    /\ Joined \subseteq f[Len(us) + 1].told)'
      BY <2>2, <2>10, <2>12
    <2>15. (outages = 0 => link)'
      BY <1>8
    <2> QED BY <1>5, <2>9, <2>10, <2>11, <2>13, <2>14, <2>15 DEF Goes, History
  <1> QED BY <1>7, <1>8

\* The server has changed and told so, if there was a session.
Fitting ==
    \E e, b : /\ Fits(e, b) /\ link' = link /\ outages' = outages
              /\ tasks' = IF link THEN Append(tasks, e) ELSE tasks

LEMMA FitsChange ==
    ASSUME NEW e, NEW b, Change(e, b), Sent(e), e.kind # "READY", e.guild \in Guilds,
           b \in ServerGuild, gone' = gone \cup DropsRole(e) \cup DropsChannel(e),
           Turns(e, server[e.guild], b),
           \A u \in Users : b.members[u] # NoInfo => b.members[u] \subseteq b.roles,
           \A q : q.gone = gone' /\ e.guild \in q.told => Says(e, q, b)
    PROVE  Fitting
  <1>1. Fits(e, b)
    BY DEF Fits, Change
  <1> QED BY <1>1 DEF Fitting, Change

NoticeKinds == {"GUILD_UPDATE", "GUILD_MEMBERS_CHUNK", "PRESENCE_UPDATE", "VOICE_STATE_UPDATE",
                "TYPING_START", "MESSAGE_CREATE", "MESSAGE_UPDATE"}

\* A notice says what is so.
Honest(e, a) ==
    /\ Sent(e) /\ e.kind \in NoticeKinds
    /\ \A u \in Listed(e) : e.load.members[u] = a.members[u]
    /\ e.load.roles \subseteq a.roles /\ e.load.channels = {}
    /\ e.kind = "PRESENCE_UPDATE" => e.user \in Listed(e)
    /\ e.kind \in ChannelKinds => e.channel \in a.channels

LEMMA NotifyFits ==
    ASSUME TypeInv, Sound(Now), NEW e, e.guild \in Joined, Notify(e), Honest(e, server[e.guild])
    PROVE  Fitting
  <1> PICK g, a : g = e.guild /\ a = server[g]
    OBVIOUS
  <1>1. /\ Change(e, a) /\ gone' = gone /\ g \in Guilds /\ a.joined /\ a \in ServerGuild
        /\ Sent(e) /\ e.kind \in NoticeKinds
    BY DEF Notify, Joined, Honest, TypeInv, ServerPart
  <1>2. /\ DropsRole(e) = {} /\ BringsRole(e) = {} /\ DropsChannel(e) = {} /\ BringsChannel(e) = {}
        /\ DropsMember(e) = {} /\ BringsMember(e) = {} /\ e.kind \notin {"READY", "GUILD_CREATE",
             "GUILD_DELETE"}
    BY <1>1 DEF NoticeKinds, DropsRole, BringsRole, DropsChannel, BringsChannel, DropsMember,
        BringsMember
  <1>3. Turns(e, a, a)
    BY <1>1, <1>2 DEF Turns
  <1>4. \A u \in Users : a.members[u] # NoInfo => a.members[u] \subseteq a.roles
    BY <1>1 DEF Sound, Now
  <1>5. ASSUME NEW q, g \in q.told PROVE Says(e, q, a)
    BY <1>1, <1>2, <1>5 DEF Says, Honest, NoticeKinds
  <1> QED BY <1>1, <1>2, <1>3, <1>4, <1>5, FitsChange

\* What of a blank payload is set.
LEMMA BlankListed ==
    ASSUME NEW e, e.load = Blank
    PROVE  Listed(e) = {} /\ e.load.roles = {} /\ e.load.channels = {}
  BY DEF Listed, Blank

\* An event about one user lists nobody else.
Tells(e, kind, g, u, m) ==
    /\ e \in Event /\ e.kind = kind /\ e.guild = g /\ e.user = u
    /\ e.load.roles = {} /\ e.load.channels = {}
    /\ e.load.members = [x \in Users |-> IF x = u THEN m ELSE NoInfo]

LEMMA AboutTells ==
    ASSUME NEW kind \in AllKinds, NEW g \in Guilds, NEW u \in Users, NEW m \in Membership
    PROVE  Tells(About(kind, g, u, m), kind, g, u, m)
  <1> DEFINE load == [Blank EXCEPT !.members[u] = m]
             p == Packet(kind, g)
             e == [p EXCEPT !.user = u, !.load = load]
  <1>1. /\ load \in ServerGuild /\ load.roles = {} /\ load.channels = {}
        /\ load.members = [x \in Users |-> IF x = u THEN m ELSE NoInfo]
    <2>1. load \in ServerGuild
      BY BlankType DEF ServerGuild
    <2>2. load.members = [[x \in Users |-> NoInfo] EXCEPT ![u] = m]
      BY DEF Blank
    <2>3. load.roles = {} /\ load.channels = {}
      BY DEF Blank
    <2> QED BY <2>1, <2>2, <2>3
  <1>2. p \in Event /\ p.kind = kind /\ p.guild = g /\ p.load = Blank
    BY PacketType
  <1>3. About(kind, g, u, m) = e
    BY <1>2 DEF About, Event
  <1> HIDE DEF p, load
  <1>4. e \in Event /\ e.kind = kind /\ e.guild = g /\ e.user = u /\ e.load = load
    BY <1>1, <1>2 DEF Event
  <1> HIDE DEF e
  <1> QED BY <1>1, <1>3, <1>4 DEF Tells

LEMMA TellsListed ==
    ASSUME NEW e, NEW kind, NEW g, NEW u \in Users, NEW m, Tells(e, kind, g, u, m)
    PROVE  /\ e.load.members[u] = m
           /\ Listed(e) \subseteq {u}
           /\ m # NoInfo => Listed(e) = {u}
  BY DEF Tells, Listed

\* The guild is what it was but for being joined.
LEMMA TurnsAlike ==
    ASSUME NEW e, NEW a, NEW b, e.kind # "GUILD_CREATE" => a.joined,
           b.roles = a.roles, b.channels = a.channels, b.members = a.members,
           DropsRole(e) = {}, BringsRole(e) = {}, DropsChannel(e) = {}, BringsChannel(e) = {}
    PROVE  Turns(e, a, b)
  BY DEF Turns

\* A GUILD_CREATE says what the guild is, but for the members it leaves out.
Describes(e, g, sg) ==
    /\ e.kind = "GUILD_CREATE" /\ e.guild = g
    /\ e.load.roles = sg.roles /\ e.load.channels = sg.channels
    /\ e.load.members = [u \in Users |-> IF u \in Offline THEN NoInfo ELSE sg.members[u]]

LEMMA GuildCreateSays ==
    ASSUME NEW g \in Guilds, NEW sg \in ServerGuild
    PROVE  Describes(GuildCreate(g, sg), g, sg)
  <1> DEFINE load == [sg EXCEPT !.members = [u \in Users |-> IF u \in Offline THEN NoInfo ELSE @[u]]]
             p == Packet("GUILD_CREATE", g)
             e == [p EXCEPT !.load = load]
  <1>1. p \in Event /\ p.kind = "GUILD_CREATE" /\ p.guild = g
    BY PacketType DEF AllKinds
  <1>2. /\ load.roles = sg.roles /\ load.channels = sg.channels
        /\ load.members = [u \in Users |-> IF u \in Offline THEN NoInfo ELSE sg.members[u]]
    BY DEF ServerGuild
  <1> HIDE DEF p, load
  <1>3. e.kind = "GUILD_CREATE" /\ e.guild = g /\ e.load = load
    BY <1>1 DEF Event
  <1>4. GuildCreate(g, sg) = e
    BY DEF GuildCreate, p, load
  <1> HIDE DEF e
  <1> QED BY <1>2, <1>3, <1>4 DEF Describes

LEMMA DescribesSays ==
    ASSUME NEW e, NEW g \in Guilds, NEW a \in ServerGuild, a.joined, Describes(e, g, a),
           NEW q, g \in q.told
    PROVE  Says(e, q, a)
  <1>1. /\ DropsRole(e) = {} /\ BringsRole(e) = {} /\ DropsChannel(e) = {} /\ DropsMember(e) = {}
    BY DEF Describes, DropsRole, BringsRole, DropsChannel, DropsMember
  <1>2. \A u \in Users : e.load.members[u] = IF u \in Offline THEN NoInfo ELSE a.members[u]
    BY DEF Describes
  <1>3. \A u \in Listed(e) : u \in Users /\ e.load.members[u] = a.members[u]
    BY <1>2 DEF Listed
  <1>4. \A u \in Users \ Offline : a.members[u] # NoInfo => u \in Listed(e)
    BY <1>2 DEF Listed
  <1>5. /\ e.kind = "GUILD_CREATE" /\ e.guild = g
        /\ e.load.roles = a.roles /\ e.load.channels = a.channels
    BY DEF Describes
  <1> QED BY <1>1, <1>3, <1>4, <1>5 DEF Says, ChannelKinds

LEMMA ChangeGuildFits ==
    ASSUME TypeInv, Sound(Now), NEW g \in Joined, ChangeGuild(g)
    PROVE  Fitting
  <1> DEFINE d == [Packet("GUILD_UPDATE", g) EXCEPT !.load.roles = server[g].roles]
             e == [Packet("GUILD_MEMBERS_CHUNK", g) EXCEPT !.load.members = server[g].members]
  <1>1. g \in Guilds /\ server[g] \in ServerGuild
    BY ServerAt DEF Possible, Joined
  <1>2. /\ d \in Event /\ d.kind = "GUILD_UPDATE" /\ d.guild = g
        /\ d.load = [Blank EXCEPT !.roles = server[g].roles]
    BY <1>1, PacketType, BlankType DEF AllKinds, Event, ServerGuild
  <1>3. /\ e \in Event /\ e.kind = "GUILD_MEMBERS_CHUNK" /\ e.guild = g
        /\ e.load = [Blank EXCEPT !.members = server[g].members]
    BY <1>1, PacketType, BlankType DEF AllKinds, Event, ServerGuild
  <1>4. Notify(d) \/ Notify(e)
    BY DEF ChangeGuild
  <1> HIDE DEF d, e
  <1>5. Listed(d) = {} /\ d.load.roles = server[g].roles /\ d.load.channels = {}
    BY <1>2 DEF Blank, Listed
  <1>6. e.load.members = server[g].members /\ e.load.roles = {} /\ e.load.channels = {}
    BY <1>3 DEF Blank
  <1>7. Sent(d) /\ Sent(e)
    <2>1. Sent(d)
      BY <1>1, <1>2, <1>5 DEF Sent, WellFormed, ChannelKinds, UserKinds, RoleKinds, MessageKinds
    <2>2. Sent(e)
      BY <1>1, <1>3, <1>6 DEF Sent, WellFormed, ChannelKinds, UserKinds, RoleKinds, MessageKinds
    <2> QED BY <2>1, <2>2
  <1>8. Honest(d, server[g]) /\ Honest(e, server[g])
    BY <1>2, <1>3, <1>5, <1>6, <1>7 DEF Honest, NoticeKinds, ChannelKinds, MessageKinds
  <1> QED BY <1>2, <1>3, <1>4, <1>8, NotifyFits

LEMMA ActivityFits ==
    ASSUME TypeInv, Sound(Now), NEW g \in Joined, NEW u \in Users, Activity(g, u)
    PROVE  Fitting
  <1> DEFINE m == server[g].members[u]
             a == About("PRESENCE_UPDATE", g, u, m)
             b == [Packet("VOICE_STATE_UPDATE", g) EXCEPT !.user = u]
             T(c) == [Packet("TYPING_START", g) EXCEPT !.channel = c, !.user = u]
             M(kind, c) == [About(kind, g, u, m) EXCEPT !.channel = c]
  <1>1. m \in Membership /\ m # NoInfo /\ g \in Guilds
    BY ServerAt, Zenon DEF Possible, ServerGuild, Activity, Joined
  <1>2. Honest(a, server[g]) /\ a.guild = g
    <2>1. Tells(a, "PRESENCE_UPDATE", g, u, m)
      BY <1>1, AboutTells DEF AllKinds
    <2>2. Sent(a)
      BY <1>1, AboutSent DEF UserKinds, ChannelKinds
    <2> HIDE DEF a
    <2>3. Listed(a) = {u} /\ a.load.members[u] = m
      BY <1>1, <2>1, TellsListed
    <2> QED BY <2>1, <2>2, <2>3 DEF Honest, NoticeKinds, ChannelKinds, Tells
  <1>3. Honest(b, server[g]) /\ b.guild = g
    <2>1. /\ b \in Event /\ b.kind = "VOICE_STATE_UPDATE" /\ b.guild = g /\ b.user = u
          /\ b.load = Blank
      BY <1>1, PacketType DEF AllKinds, Event
    <2> HIDE DEF b
    <2>2. Sent(b)
      BY <1>1, <2>1, BlankListed DEF Sent, WellFormed, ChannelKinds, RoleKinds, MessageKinds
    <2> QED BY <2>1, <2>2, BlankListed DEF Honest, NoticeKinds, ChannelKinds
  <1>4. ASSUME NEW c \in server[g].channels PROVE c \in Channels /\ GuildOf[c] = g
    BY <1>1, ServerAt DEF Possible, ServerGuild
  <1>5. ASSUME NEW c \in server[g].channels PROVE Honest(T(c), server[g]) /\ T(c).guild = g
    <2>1. /\ T(c) \in Event /\ T(c).kind = "TYPING_START" /\ T(c).guild = g /\ T(c).user = u
          /\ T(c).channel = c /\ T(c).load = Blank
      <3> DEFINE p == Packet("TYPING_START", g)
      <3>1. p \in Event /\ p.kind = "TYPING_START" /\ p.guild = g /\ p.load = Blank
        BY <1>1, PacketType DEF AllKinds
      <3> HIDE DEF p
      <3>2. LET q == [p EXCEPT !.channel = c, !.user = u] IN
            /\ q \in Event /\ q.kind = "TYPING_START" /\ q.guild = g /\ q.user = u
            /\ q.channel = c /\ q.load = Blank
        BY <1>4, <3>1 DEF Event
      <3> QED BY <3>2 DEF p
    <2> HIDE DEF T
    <2>2. Sent(T(c))
      BY <1>1, <1>4, <2>1, BlankListed DEF Sent, WellFormed, RoleKinds, MessageKinds
    <2> QED BY <2>1, <2>2, BlankListed DEF Honest, NoticeKinds
  <1>6. ASSUME NEW c \in server[g].channels, NEW kind \in MessageKinds
        PROVE  Honest(M(kind, c), server[g]) /\ M(kind, c).guild = g
    <2> DEFINE p == About(kind, g, u, m)
    <2>1. kind \in AllKinds
      BY DEF MessageKinds, AllKinds
    <2>2. Tells(p, kind, g, u, m)
      BY <1>1, <2>1, AboutTells
    <2> HIDE DEF p
    <2>3. LET q == [p EXCEPT !.channel = c] IN
          /\ q \in Event /\ q.kind = kind /\ q.guild = g /\ q.user = u /\ q.channel = c
          /\ q.load = p.load
      BY <1>4, <2>2 DEF Event, Tells
    <2>4. /\ M(kind, c) \in Event /\ M(kind, c).kind = kind /\ M(kind, c).guild = g
          /\ M(kind, c).user = u /\ M(kind, c).channel = c /\ M(kind, c).load = p.load
      BY <2>3 DEF p
    <2> HIDE DEF M
    <2>5. Tells(M(kind, c), kind, g, u, m)
      BY <2>2, <2>4 DEF Tells
    <2>6. Listed(M(kind, c)) = {u} /\ M(kind, c).load.members[u] = m
      BY <1>1, <2>5, TellsListed
    <2>7. Sent(M(kind, c))
      BY <1>1, <1>4, <2>4, <2>5, <2>6 DEF Sent, WellFormed, RoleKinds, MessageKinds, Tells
    <2> QED BY <2>4, <2>5, <2>6, <2>7 DEF Honest, NoticeKinds, MessageKinds, Tells
  <1>7. \/ Notify(a) \/ Notify(b)
        \/ \E c \in server[g].channels : Notify(T(c)) \/ \E kind \in MessageKinds : Notify(M(kind, c))
    BY Zenon DEF Activity, MessageKinds
  <1> HIDE DEF a, b, T, M
  <1> QED BY <1>2, <1>3, <1>5, <1>6, <1>7, NotifyFits

LEMMA KickFits ==
    ASSUME TypeInv, Sound(Now), NEW g \in Joined, Kick(g)
    PROVE  Fitting
  <1> DEFINE new == [server[g] EXCEPT !.joined = FALSE]
  <1> PICK e, no : e = Packet("GUILD_DELETE", g) /\ no = FALSE
    OBVIOUS
  <1> PICK a, b : a = server[g] /\ b = [a EXCEPT !.joined = no]
    OBVIOUS
  <1>1. a \in ServerGuild /\ a.joined /\ g \in Guilds
    BY ServerAt DEF Possible, Joined
  <1>2. /\ b \in ServerGuild /\ b.joined = FALSE /\ b.roles = a.roles /\ b.channels = a.channels
        /\ b.members = a.members
    BY <1>1 DEF ServerGuild
  <1>3. Sent(e) /\ e.guild = g /\ e.kind = "GUILD_DELETE" /\ e.load = Blank
    BY <1>1, PacketSent, PacketType DEF AllKinds
  <1>4. Change(e, b) /\ gone' = gone
    BY DEF Kick
  <1>5. /\ DropsRole(e) = {} /\ BringsRole(e) = {} /\ DropsChannel(e) = {} /\ BringsChannel(e) = {}
        /\ DropsMember(e) = {} /\ BringsMember(e) = {}
    BY <1>3 DEF DropsRole, BringsRole, DropsChannel, BringsChannel, DropsMember, BringsMember
  <1>6. Turns(e, a, b)
    BY <1>1, <1>2, <1>5, TurnsAlike
  <1>7. \A u \in Users : b.members[u] # NoInfo => b.members[u] \subseteq b.roles
    BY <1>1, <1>2 DEF Sound, Now
  <1>8. ASSUME NEW q, g \in q.told PROVE Says(e, q, b)
    BY <1>2, <1>3, <1>5, <1>8, BlankListed DEF Says, ChannelKinds
  <1> QED BY <1>1, <1>2, <1>3, <1>4, <1>5, <1>6, <1>7, <1>8, FitsChange

LEMMA InviteFits ==
    ASSUME TypeInv, Sound(Now), NEW g \in Guilds, Invite(g)
    PROVE  Fitting
  <1> PICK a, yes : a = server[g] /\ yes = TRUE
    OBVIOUS
  <1> PICK b : b = [a EXCEPT !.joined = yes]
    OBVIOUS
  <1> PICK e : e = GuildCreate(g, b)
    OBVIOUS
  <1>1. a \in ServerGuild /\ \A c \in a.channels : GuildOf[c] = g
    BY ServerAt DEF Possible
  <1>2. /\ b \in ServerGuild /\ b.joined = TRUE /\ b.roles = a.roles /\ b.channels = a.channels
        /\ b.members = a.members
    BY <1>1 DEF ServerGuild
  <1>3. Change(e, b) /\ gone' = gone
    BY DEF Invite
  <1>4. Sent(e) /\ e.kind = "GUILD_CREATE"
    BY <1>1, <1>2, GuildCreateSent
  <1>5. Describes(e, g, b)
    BY <1>2, GuildCreateSays
  <1>6. /\ DropsRole(e) = {} /\ BringsRole(e) = {} /\ DropsChannel(e) = {} /\ BringsChannel(e) = {}
        /\ DropsMember(e) = {} /\ BringsMember(e) = {}
    BY <1>4 DEF DropsRole, BringsRole, DropsChannel, BringsChannel, DropsMember, BringsMember
  <1>7. Turns(e, a, b)
    BY <1>2, <1>4, <1>6, TurnsAlike
  <1>8. \A u \in Users : b.members[u] # NoInfo => b.members[u] \subseteq b.roles
    BY <1>1, <1>2 DEF Sound, Now
  <1>9. ASSUME NEW q, g \in q.told PROVE Says(e, q, b)
    BY <1>2, <1>5, <1>9, DescribesSays
  <1>10. e.guild = g /\ server[e.guild] = a
    BY <1>5 DEF Describes
  <1>11. \A q : q.gone = gone' /\ e.guild \in q.told => Says(e, q, b)
    BY <1>9, <1>10
  <1>12. /\ gone' = gone \cup DropsRole(e) \cup DropsChannel(e) /\ e.kind # "READY"
         /\ Turns(e, server[e.guild], b) /\ b \in ServerGuild /\ e.guild \in Guilds
    BY <1>2, <1>3, <1>4, <1>6, <1>7, <1>10
  <1>13. Change(e, b) /\ Sent(e)
    BY <1>3, <1>4
  <1> QED BY ONLY <1>8, <1>11, <1>12, <1>13, FitsChange

LEMMA ChangeChannelFits ==
    ASSUME TypeInv, Sound(Now), NEW g \in Joined, NEW c \in Channels, ChangeChannel(g, c)
    PROVE  Fitting
  <1> PICK a : a = server[g]
    OBVIOUS
  <1>1. a \in ServerGuild /\ a.joined /\ g \in Guilds
    BY ServerAt DEF Possible, Joined
  <1> DEFINE Tale(kind) == [Packet(kind, g) EXCEPT !.channel = c]
             kinds == {"CHANNEL_CREATE", "CHANNEL_UPDATE", "CHANNEL_DELETE"}
             Told(kind, b) ==
               /\ GuildOf[c] = g /\ Change(Tale(kind), b)
               /\ kind = "CHANNEL_CREATE" => /\ c \notin gone /\ gone' = gone
                                             /\ b = [a EXCEPT !.channels = @ \cup {c}]
               /\ kind = "CHANNEL_UPDATE" => c \in a.channels /\ gone' = gone /\ b = a
               /\ kind = "CHANNEL_DELETE" => /\ gone' = gone \cup {c}
                                             /\ b = [a EXCEPT !.channels = @ \ {c}]
  <1>a. PICK kind \in kinds : \E b : Told(kind, b)
    BY DEF ChangeChannel
  <1>2. PICK b : kind \in kinds /\ Told(kind, b)
    BY <1>a
  <1>3. /\ Tale(kind) \in Event /\ Tale(kind).kind = kind /\ Tale(kind).guild = g
        /\ Tale(kind).channel = c /\ Tale(kind).load = Blank
    BY <1>1, PacketType DEF AllKinds, Event
  <1> PICK e : e = Tale(kind)
    OBVIOUS
  <1>4. /\ e \in Event /\ e.kind = kind /\ e.guild = g /\ e.channel = c /\ e.load = Blank
        /\ Change(e, b)
    BY <1>2, <1>3
  <1> HIDE DEF Tale
  <1>5. Sent(e)
    BY <1>1, <1>2, <1>4, BlankListed DEF Sent, WellFormed, UserKinds, RoleKinds, MessageKinds
  <1>6. /\ DropsRole(e) = {} /\ BringsRole(e) = {} /\ DropsMember(e) = {} /\ BringsMember(e) = {}
        /\ DropsChannel(e) = IF kind = "CHANNEL_DELETE" THEN {c} ELSE {}
        /\ BringsChannel(e) = IF kind = "CHANNEL_CREATE" THEN {c} ELSE {}
    BY <1>2, <1>4 DEF DropsRole, BringsRole, DropsChannel, BringsChannel, DropsMember, BringsMember
  <1>7. /\ b \in ServerGuild /\ b.joined /\ b.roles = a.roles /\ b.members = a.members
        /\ b.channels = (a.channels \ DropsChannel(e)) \cup BringsChannel(e)
    <2>1. CASE kind = "CHANNEL_CREATE"
      <3>1. b = [a EXCEPT !.channels = @ \cup {c}]
        BY <1>2, <2>1
      <3>2. b \in ServerGuild
        BY <1>1, <3>1 DEF ServerGuild
      <3>3. /\ b.joined /\ b.roles = a.roles /\ b.members = a.members
            /\ b.channels = a.channels \cup {c}
        BY <1>1, <3>1 DEF ServerGuild
      <3> QED BY <1>6, <2>1, <3>2, <3>3
    <2>2. CASE kind = "CHANNEL_UPDATE"
      BY <1>1, <1>2, <1>6, <2>2 DEF ServerGuild
    <2>3. CASE kind = "CHANNEL_DELETE"
      <3>1. b = [a EXCEPT !.channels = @ \ {c}]
        BY <1>2, <2>3
      <3>2. b \in ServerGuild
        BY <1>1, <3>1 DEF ServerGuild
      <3>3. /\ b.joined /\ b.roles = a.roles /\ b.members = a.members
            /\ b.channels = a.channels \ {c}
        BY <1>1, <3>1 DEF ServerGuild
      <3> QED BY <1>6, <2>3, <3>2, <3>3
    <2> QED BY <1>2, <2>1, <2>2, <2>3
  <1>8. Turns(e, server[e.guild], b)
    BY <1>1, <1>4, <1>6, <1>7 DEF Turns
  <1>9. \A u \in Users : b.members[u] # NoInfo => b.members[u] \subseteq b.roles
    BY <1>1, <1>7 DEF Sound, Now
  <1>10. ASSUME NEW q, g \in q.told PROVE Says(e, q, b)
    <2>1. e.kind \in {"CHANNEL_CREATE", "CHANNEL_UPDATE"} => c \in b.channels
      BY <1>2, <1>4, <1>6, <1>7
    <2>2. DropsChannel(e) \cap b.channels = {}
      BY <1>6, <1>7
    <2> QED BY <1>1, <1>2, <1>4, <1>6, <1>7, <1>10, <2>1, <2>2, BlankListed DEF Says, ChannelKinds
  <1>11. \A q : q.gone = gone' /\ e.guild \in q.told => Says(e, q, b)
    BY <1>4, <1>10
  <1>12. /\ gone' = gone \cup DropsRole(e) \cup DropsChannel(e) /\ e.kind # "READY"
         /\ b \in ServerGuild /\ e.guild \in Guilds
    BY <1>1, <1>2, <1>4, <1>6, <1>7
  <1> QED BY ONLY <1>4, <1>5, <1>8, <1>9, <1>11, <1>12, FitsChange

LEMMA ChangeMemberFits ==
    ASSUME TypeInv, Sound(Now), NEW g \in Joined, NEW u \in Users, ChangeMember(g, u)
    PROVE  Fitting
  <1> PICK a : a = server[g]
    OBVIOUS
  <1>1. a \in ServerGuild /\ a.joined /\ g \in Guilds
    BY ServerAt DEF Possible, Joined
  <1> DEFINE Told(kind, m) == /\ Change(About(kind, g, u, m), [a EXCEPT !.members[u] = m])
                              /\ gone' = gone
             kinds == {"GUILD_MEMBER_ADD", "GUILD_MEMBER_REMOVE", "GUILD_MEMBER_UPDATE"}
  <1>a. \/ Told("GUILD_MEMBER_ADD", {}) \/ Told("GUILD_MEMBER_REMOVE", NoInfo)
        \/ \E R \in SUBSET a.roles : Told("GUILD_MEMBER_UPDATE", R)
    BY DEF ChangeMember
  <1> HIDE DEF Told
  <1>b. PICK kind \in kinds, m \in (SUBSET a.roles) \cup {NoInfo} :
          Told(kind, m) /\ (m = NoInfo <=> kind = "GUILD_MEMBER_REMOVE")
    <2>1. {} # NoInfo /\ \A R \in SUBSET a.roles : R # NoInfo
      BY <1>1, Memberships DEF ServerGuild
    <2> QED BY <1>a, <2>1
  <1> PICK e, b : e = About(kind, g, u, m) /\ b = [a EXCEPT !.members[u] = m]
    OBVIOUS
  <1>2. /\ kind \in {"GUILD_MEMBER_ADD", "GUILD_MEMBER_REMOVE", "GUILD_MEMBER_UPDATE"}
        /\ e = About(kind, g, u, m) /\ Change(e, b) /\ gone' = gone
        /\ b = [a EXCEPT !.members[u] = m]
        /\ m \in (SUBSET a.roles) \cup {NoInfo}
        /\ m = NoInfo <=> kind = "GUILD_MEMBER_REMOVE"
    BY <1>b DEF Told
  <1>3. m \in Membership /\ kind \in AllKinds
    BY <1>1, <1>2 DEF ServerGuild, Membership, AllKinds
  <1>4. Tells(e, kind, g, u, m)
    BY <1>1, <1>2, <1>3, AboutTells
  <1>5. Sent(e)
    BY <1>1, <1>2, <1>3, AboutSent DEF UserKinds, ChannelKinds
  <1>6. /\ DropsRole(e) = {} /\ BringsRole(e) = {} /\ DropsChannel(e) = {} /\ BringsChannel(e) = {}
        /\ DropsMember(e) \cup BringsMember(e) = {u}
        /\ \A x \in DropsMember(e) : x = u /\ m = NoInfo
    BY <1>2, <1>4 DEF DropsRole, BringsRole, DropsChannel, BringsChannel, DropsMember,
        BringsMember, Tells
  <1>7. /\ b \in ServerGuild /\ b.joined /\ b.roles = a.roles /\ b.channels = a.channels
        /\ b.members[u] = m /\ \A x \in Users \ {u} : b.members[x] = a.members[x]
    BY <1>1, <1>2, <1>3 DEF ServerGuild
  <1>8. Turns(e, server[e.guild], b)
    <2>1. e.guild = g /\ e.kind # "GUILD_CREATE"
      BY <1>2, <1>4 DEF Tells
    <2> QED BY <1>1, <1>6, <1>7, <2>1 DEF Turns
  <1>9. \A x \in Users : b.members[x] # NoInfo => b.members[x] \subseteq b.roles
    <2>1. \A x \in Users : a.members[x] # NoInfo => a.members[x] \subseteq a.roles
      BY <1>1 DEF Sound, Now
    <2> QED BY <1>2, <1>7, <2>1
  <1>10. ASSUME NEW q, g \in q.told PROVE Says(e, q, b)
    <2>1. /\ \A x \in Listed(e) : x = u /\ e.load.members[x] = m
          /\ m # NoInfo => u \in Listed(e)
      BY <1>4, TellsListed
    <2>2. /\ e.kind = kind /\ e.guild = g /\ e.user = u /\ e.load.roles = {} /\ e.load.channels = {}
      BY <1>4 DEF Tells
    <2>3. b.joined <=> e.kind # "GUILD_DELETE"
      BY <1>1, <1>2, <1>7, <2>2
    <2> QED BY <1>2, <1>6, <1>7, <1>10, <2>1, <2>2, <2>3 DEF Says, ChannelKinds
  <1>11. \A q : q.gone = gone' /\ e.guild \in q.told => Says(e, q, b)
    BY <1>4, <1>10 DEF Tells
  <1>12. /\ gone' = gone \cup DropsRole(e) \cup DropsChannel(e) /\ e.kind # "READY"
         /\ b \in ServerGuild /\ e.guild \in Guilds
    BY <1>1, <1>2, <1>4, <1>6, <1>7 DEF Tells
  <1>13. Change(e, b)
    BY <1>2
  <1> QED BY ONLY <1>5, <1>8, <1>9, <1>11, <1>12, <1>13, FitsChange

LEMMA ChangeRoleFits ==
    ASSUME TypeInv, Sound(Now), NEW g \in Joined, NEW r \in Roles, ChangeRole(g, r)
    PROVE  Fitting
  <1> DEFINE Tale(kind) == [Packet(kind, g) EXCEPT !.role = r]
             Less(m) == IF m = NoInfo THEN NoInfo ELSE m \ {r}
  <1> PICK a : a = server[g]
    OBVIOUS
  <1>1. a \in ServerGuild /\ a.joined /\ g \in Guilds
    BY ServerAt DEF Possible, Joined
  <1> DEFINE Told(kind, b) ==
               /\ Change(Tale(kind), b)
               /\ kind = "GUILD_ROLE_CREATE" => /\ r \notin gone /\ gone' = gone
                                                /\ b = [a EXCEPT !.roles = @ \cup {r}]
               /\ kind = "GUILD_ROLE_DELETE" =>
                    /\ gone' = gone \cup {r}
                    /\ b = [a EXCEPT !.roles = @ \ {r},
                                     !.members = [u \in Users |-> Less(@[u])]]
  <1>a. PICK kind \in RoleKinds : \E b : Told(kind, b)
    BY Zenon DEF ChangeRole, RoleKinds
  <1>2. PICK b : kind \in RoleKinds /\ Told(kind, b)
    BY <1>a
  <1>3. /\ Tale(kind) \in Event /\ Tale(kind).kind = kind /\ Tale(kind).guild = g
        /\ Tale(kind).role = r /\ Tale(kind).load = Blank
    BY <1>1, PacketType DEF AllKinds, Event, RoleKinds
  <1> PICK e : e = Tale(kind)
    OBVIOUS
  <1>4. /\ e \in Event /\ e.kind = kind /\ e.guild = g /\ e.role = r /\ e.load = Blank
        /\ Change(e, b)
    BY <1>2, <1>3
  <1> HIDE DEF Tale
  <1>5. Sent(e)
    BY <1>1, <1>2, <1>4, BlankListed
    DEF Sent, WellFormed, ChannelKinds, UserKinds, RoleKinds, MessageKinds
  <1>6. /\ DropsChannel(e) = {} /\ BringsChannel(e) = {} /\ DropsMember(e) = {}
        /\ BringsMember(e) = {}
        /\ DropsRole(e) = IF kind = "GUILD_ROLE_DELETE" THEN {r} ELSE {}
        /\ BringsRole(e) = IF kind = "GUILD_ROLE_CREATE" THEN {r} ELSE {}
    BY <1>2, <1>4
    DEF DropsRole, BringsRole, DropsChannel, BringsChannel, DropsMember, BringsMember, RoleKinds
  <1>7. /\ b \in ServerGuild /\ b.joined /\ b.channels = a.channels
        /\ b.roles = (a.roles \ DropsRole(e)) \cup BringsRole(e)
        /\ \A u \in Users : b.members[u] =
                IF a.members[u] = NoInfo THEN NoInfo ELSE a.members[u] \ DropsRole(e)
    <2>1. CASE kind = "GUILD_ROLE_CREATE"
      <3>1. b = [a EXCEPT !.roles = @ \cup {r}]
        BY <1>2, <2>1
      <3>2. b \in ServerGuild
        BY <1>1, <3>1 DEF ServerGuild
      <3>3. /\ b.joined /\ b.channels = a.channels /\ b.members = a.members
            /\ b.roles = a.roles \cup {r}
        BY <1>1, <3>1 DEF ServerGuild
      <3> QED BY <1>6, <2>1, <3>2, <3>3
    <2>2. CASE kind = "GUILD_ROLE_DELETE"
      <3>1. \A m \in Membership : Less(m) \in Membership
        BY DEF Membership
      <3> HIDE DEF Less
      <3>2. /\ b \in ServerGuild /\ b.joined /\ b.channels = a.channels
            /\ b.roles = a.roles \ {r} /\ \A u \in Users : b.members[u] = Less(a.members[u])
        <4> PICK M : M = [u \in Users |-> Less(a.members[u])]
          OBVIOUS
        <4>1. M \in [Users -> Membership] /\ \A u \in Users : M[u] = Less(a.members[u])
          BY <1>1, <3>1 DEF ServerGuild
        <4>2. b = [a EXCEPT !.roles = @ \ {r}, !.members = [u \in Users |-> Less(@[u])]]
          BY <1>2, <2>2
        <4>3. b = [a EXCEPT !.roles = a.roles \ {r}, !.members = M]
          BY <1>1, <4>2 DEF ServerGuild
        <4>4. b \in ServerGuild
          BY <1>1, <4>1, <4>3, Zenon DEF ServerGuild
        <4>5. b.joined /\ b.channels = a.channels /\ b.roles = a.roles \ {r} /\ b.members = M
          BY <1>1, <4>3 DEF ServerGuild
        <4> QED BY <4>1, <4>4, <4>5
      <3> QED BY <1>6, <2>2, <3>2 DEF Less
    <2> QED BY <1>2, <2>1, <2>2 DEF RoleKinds
  <1>8. Turns(e, server[e.guild], b)
    BY <1>1, <1>4, <1>6, <1>7 DEF Turns
  <1>9. \A u \in Users : b.members[u] # NoInfo => b.members[u] \subseteq b.roles
    <2>1. \A u \in Users : a.members[u] # NoInfo => a.members[u] \subseteq a.roles
      BY <1>1 DEF Sound, Now
    <2> QED BY <1>7, <2>1
  <1>10. ASSUME NEW q, q.gone = gone', g \in q.told PROVE Says(e, q, b)
    <2>1. BringsRole(e) \cap q.gone = {} /\ BringsRole(e) \subseteq b.roles
      BY <1>2, <1>6, <1>7, <1>10
    <2>2. DropsRole(e) \cap b.roles = {}
      BY <1>6, <1>7
    <2>3. kind \in {"GUILD_ROLE_CREATE", "GUILD_ROLE_DELETE"}
      BY DEF RoleKinds
    <2> QED BY <1>1, <1>4, <1>6, <1>7, <1>10, <2>1, <2>2, <2>3, BlankListed DEF Says, ChannelKinds
  <1>11. \A q : q.gone = gone' /\ e.guild \in q.told => Says(e, q, b)
    BY <1>4, <1>10
  <1>12. /\ gone' = gone \cup DropsRole(e) \cup DropsChannel(e) /\ e.kind # "READY"
         /\ b \in ServerGuild /\ e.guild \in Guilds
    BY <1>1, <1>2, <1>4, <1>6, <1>7 DEF RoleKinds
  <1> QED BY ONLY <1>4, <1>5, <1>8, <1>9, <1>11, <1>12, FitsChange

LEMMA AllListed ==
    ASSUME NEW S, IsFiniteSet(S)
    PROVE  /\ Cardinality(S) \in Nat /\ SetToSeq(S) \in [1..Cardinality(S) -> S]
           /\ \A e \in S : \E k \in 1..Cardinality(S) : SetToSeq(S)[k] = e
  <1> DEFINE n == Cardinality(S)
             s == SetToSeq(S)
  <1>1. n \in Nat
    BY FS_CardinalityType
  <1>2. s \in [1..n -> S] /\ IsInjective(s)
    <2>1. \E f \in [1..n -> S] : IsInjective(f)
      <3>1. ExistsBijection(1..n, S)
        BY FS_NatBijection, FS_CountingElements, FS_CardinalityType
      <3> QED BY <3>1 DEF ExistsBijection, Bijection, Injection, IsInjective
    <2> QED BY <2>1 DEF SetToSeq
  <1> HIDE DEF n, s
  <1>3. s \in Injection(1..n, S)
    BY <1>2 DEF Injection, IsInjective
  <1>4. IsFiniteSet(1..n) /\ Cardinality(1..n) = n
    BY <1>1, FS_Interval
  <1>5. s \in Surjection(1..n, S)
    BY <1>3, <1>4, FS_Injection DEF n
  <1> QED BY <1>1, <1>2, <1>5 DEF Surjection, n, s

\* READY, then every guild the bot has joined as the server has it.
Introduces(us, n, s) ==
    /\ n \in Nat /\ us \in Seq(Event) /\ Len(us) = n + 1
    /\ us[1].kind = "READY" /\ us[1].all = Joined
    /\ \A k \in 1..n : us[k + 1] = s[k]
    /\ \A k \in 1..n : \E g \in Joined : Describes(s[k], g, server[g])
    /\ \A g \in Joined : \E k \in 1..n : s[k].guild = g

LEMMA GreetingIntroduces ==
    ASSUME ServerPart
    PROVE  \E us, n, s : us = Greeting /\ Introduces(us, n, s)
  <1> DEFINE S == {GuildCreate(g, server[g]) : g \in Joined}
             hello == [NoEvent EXCEPT !.all = Joined]
             s == SetToSeq(S)
             n == Cardinality(S)
  <1>1. IsFiniteSet(S)
    <2>1. IsFiniteSet(Joined)
      BY CacheAssumption, FS_Subset DEF Joined
    <2> DEFINE f == [g \in Joined |-> GuildCreate(g, server[g])]
    <2>2. f \in Surjection(Joined, S)
      <3>1. f \in [Joined -> S] /\ \A e \in S : \E g \in Joined : f[g] = e
        OBVIOUS
      <3> QED BY <3>1 DEF Surjection
    <2> QED BY <2>1, <2>2, FS_Surjection
  <1>2. n \in Nat /\ s \in [1..n -> S] /\ \A e \in S : \E k \in 1..n : s[k] = e
    <2> HIDE DEF S
    <2> QED BY <1>1, AllListed
  <1>3. hello.kind = "READY" /\ hello.all = Joined /\ hello \in Event
    BY BlankType DEF NoEvent, Event, AllKinds, Joined
  <1>4. \A g \in Joined : g \in Guilds /\ server[g] \in ServerGuild
    BY DEF Joined, ServerPart
  <1>5. ASSUME NEW k \in 1..n PROVE \E g \in Joined : Describes(s[k], g, server[g])
    <2>1. PICK g \in Joined : s[k] = GuildCreate(g, server[g])
      <3>1. s[k] \in S
        BY <1>2
      <3> HIDE DEF s, n
      <3> QED BY <3>1
    <2> HIDE DEF s, n
    <2> QED BY <1>4, <2>1, GuildCreateSays
  <1>6. ASSUME NEW g \in Joined PROVE \E k \in 1..n : s[k].guild = g
    <2>1. GuildCreate(g, server[g]) \in S
      OBVIOUS
    <2>2. GuildCreate(g, server[g]).guild = g
      BY <1>4, GuildCreateSays DEF Describes
    <2> HIDE DEF s, n, S
    <2> QED BY <1>2, <2>1, <2>2
  <1>7. \A k \in 1..n : s[k] \in Event
    <2>1. \A e \in S : e \in Event
      BY <1>4, GuildCreateSent DEF ServerPart, Sent
    <2> HIDE DEF S, s, n
    <2> QED BY <1>2, <2>1
  <1>8. Greeting = <<hello>> \o s
    BY DEF Greeting
  <1>9. Greeting \in Seq(Event)
    BY GreetingType
  <1> HIDE DEF S, s, n, hello
  <1>10. s \in Seq(Event) /\ Len(s) = n
    <2>1. s \in [1..n -> Event]
      BY <1>2, <1>7
    <2> QED BY <1>2, <2>1, SeqDef
  <1>11. <<hello>> \in Seq(Event) /\ Len(<<hello>>) = 1 /\ <<hello>>[1] = hello
    BY <1>3
  <1>12. Len(Greeting) = n + 1 /\ Greeting[1] = hello /\ \A k \in 1..n : Greeting[k + 1] = s[k]
    BY <1>2, <1>8, <1>10, <1>11, ConcatProperties
  <1> PICK us : us = Greeting
    OBVIOUS
  <1>13. Introduces(us, n, s)
    BY <1>2, <1>3, <1>5, <1>6, <1>9, <1>12 DEF Introduces
  <1> QED BY <1>13

LEMMA IntroducesChain ==
    ASSUME ServerPart, NEW p \in Stage, Sound(p), Sound(Now), Grown(p, Now),
           outages = 0 => p.server = server, NEW us, NEW n, NEW s, Introduces(us, n, s)
    PROVE  \E i : /\ Chain(i, us) /\ i[1] = p
                  /\ i[Len(us) + 1].server = server /\ i[Len(us) + 1].gone = gone
                  /\ Joined \subseteq i[Len(us) + 1].told
  <1> DEFINE T(k) == {s[j].guild : j \in 1..k}
             Z(k) == [server |-> server, gone |-> gone, told |-> T(k)]
  <1>1. n \in Nat /\ us \in Seq(Event) /\ Len(us) = n + 1
    BY DEF Introduces
  <1>2. ASSUME NEW k \in 1..n PROVE s[k].guild \in Guilds
    <2>1. PICK g \in Joined : Describes(s[k], g, server[g])
      BY DEF Introduces
    <2> QED BY <2>1 DEF Describes, Joined
  <1>3. ASSUME NEW k \in 0..n
        PROVE  /\ Z(k) \in Stage /\ Sound(Z(k)) /\ Grown(p, Z(k))
               /\ Z(k).server = server /\ Z(k).gone = gone /\ Z(k).told = T(k)
    <2>1. T(k) \subseteq Guilds
      BY <1>1, <1>2
    <2> HIDE DEF T
    <2>2. Z(k) \in Stage
      BY <2>1 DEF Stage, ServerPart
    <2> QED BY <2>2 DEF Sound, Grown, Seen, Now
  <1>4. After(p, us[1], Z(0))
    <2>1. T(0) = {} /\ Z(0).told = {} /\ Z(0).server = server /\ Grown(p, Z(0))
      BY <1>1, <1>3
    <2>2. us[1].kind = "READY" /\ us[1].all = {g \in Guilds : server[g].joined}
      BY DEF Introduces, Joined
    <2> HIDE DEF Z
    <2> QED BY <2>1, <2>2 DEF After, True, Greeted
  <1>5. ASSUME NEW k \in 1..n PROVE After(Z(k - 1), us[k + 1], Z(k))
    <2> PICK e : e = us[k + 1]
      OBVIOUS
    <2>1. PICK g \in Joined : Describes(e, g, server[g]) /\ e = s[k]
      BY DEF Introduces
    <2> PICK a : a = server[g]
      OBVIOUS
    <2>2. a \in ServerGuild /\ g \in Guilds /\ a.joined /\ e.guild = g /\ e.kind = "GUILD_CREATE"
      BY <2>1 DEF ServerPart, Joined, Describes
    <2>3. T(k) = T(k - 1) \cup {g}
      <3>1. 1..k = (1..(k - 1)) \cup {k}
        OBVIOUS
      <3> QED BY <2>1, <2>2, <3>1
    <2>4. k \in 0..n /\ k - 1 \in 0..n
      BY <1>1
    <2> PICK z, y : z = Z(k) /\ y = Z(k - 1)
      OBVIOUS
    <2>5. /\ z.server = server /\ y.server = server /\ z.gone = gone /\ y.gone = gone
          /\ z.told = y.told \cup {g}
      BY <1>3, <2>3, <2>4
    <2> HIDE DEF Z, T
    <2>6. /\ DropsRole(e) = {} /\ BringsRole(e) = {} /\ DropsChannel(e) = {}
          /\ BringsChannel(e) = {}
      BY <2>2 DEF DropsRole, BringsRole, DropsChannel, BringsChannel
    <2>7. Turns(e, a, a)
      BY <2>2, <2>6, TurnsAlike
    <2>8. Says(e, z, a)
      BY <2>1, <2>2, <2>5, DescribesSays
    <2>9. Grown(y, z)
      BY <2>5 DEF Grown, Seen
    <2>10. After(y, e, z)
      BY <2>2, <2>5, <2>6, <2>7, <2>8, <2>9 DEF After, True
    <2> QED BY <2>10
  <1> HIDE DEF Z
  <1> PICK i : i = [k \in 1..(n + 2) |-> IF k = 1 THEN p ELSE Z(k - 2)]
    OBVIOUS
  <1>6. i[1] = p /\ \A k \in 2..(n + 2) : i[k] = Z(k - 2)
    BY <1>1
  <1>7. ASSUME NEW k \in 1..(n + 2) PROVE i[k] \in Stage /\ Sound(i[k])
    <2>1. CASE k = 1
      BY <1>6, <2>1
    <2>2. CASE k # 1
      <3>1. k \in 2..(n + 2) /\ k - 2 \in 0..n
        BY <1>1, <2>2
      <3> QED BY <1>3, <1>6, <3>1
    <2> QED BY <2>1, <2>2
  <1>8. ASSUME NEW k \in 1..(n + 1) PROVE After(i[k], us[k], i[k + 1])
    <2>1. CASE k = 1
      <3>1. i[k] = p /\ i[k + 1] = Z(0)
        <4>1. 2 \in 2..(n + 2) /\ k + 1 = 2
          BY <1>1, <2>1
        <4>2. i[2] = Z(2 - 2)
          BY <1>6, <4>1
        <4> QED BY <1>6, <2>1, <4>1, <4>2
      <3> QED BY <1>4, <2>1, <3>1
    <2>2. CASE k # 1
      <3> PICK j : j = k - 1
        OBVIOUS
      <3>1. j \in 1..n /\ k = j + 1 /\ k \in 2..(n + 2) /\ k + 1 \in 2..(n + 2)
            /\ k - 2 = j - 1 /\ (k + 1) - 2 = j
        BY <1>1, <2>2
      <3>2. i[k] = Z(j - 1) /\ i[k + 1] = Z(j)
        BY <1>6, <3>1
      <3> QED BY <1>5, <3>1, <3>2
    <2> QED BY <2>1, <2>2
  <1>9. Len(us) + 1 = n + 2
    BY <1>1
  <1>10. i \in [1..(n + 2) -> Stage]
    BY <1>7
  <1>11. Chain(i, us)
    BY <1>1, <1>7, <1>8, <1>9, <1>10 DEF Chain
  <1>12. i[n + 2] = Z(n)
    <2>1. n + 2 \in 2..(n + 2) /\ (n + 2) - 2 = n
      BY <1>1
    <2> QED BY <1>6, <2>1
  <1>13. Z(n).server = server /\ Z(n).gone = gone /\ Z(n).told = T(n)
    BY <1>1, <1>3
  <1>14. Joined \subseteq T(n)
    BY DEF Introduces
  <1> QED BY <1>6, <1>9, <1>11, <1>12, <1>13, <1>14

LEMMA NewSessionGoes ==
    ASSUME TypeInv, NEW ts, ts = tasks, NEW h, History(h, ts), NewSession
    PROVE  Goes(h)
  <1>1. /\ ts \in Seq(Event) /\ Chain(h, ts) /\ Sound(Now) /\ Grown(h[Len(ts) + 1], Now)
        /\ ServerPart /\ outages # 0
    BY DEF TypeInv, TaskPart, History, NewSession
  <1>2. /\ link' = TRUE /\ tasks' = ts \o Greeting
        /\ UNCHANGED <<server, outages, gone>>
    BY DEF NewSession
  <1>3. PICK us, n, s : us = Greeting /\ Introduces(us, n, s)
    BY <1>1, GreetingIntroduces
  <1> PICK p : p = h[Len(ts) + 1]
    OBVIOUS
  <1>4. p \in Stage /\ Sound(p) /\ Grown(p, Now) /\ us \in Seq(Event)
    BY <1>1, <1>3, LenProperties DEF Chain, Introduces
  <1>5. PICK i : /\ Chain(i, us) /\ i[1] = p
                 /\ i[Len(us) + 1].server = server /\ i[Len(us) + 1].gone = gone
                 /\ Joined \subseteq i[Len(us) + 1].told
    BY ONLY <1>1, <1>3, <1>4, IntroducesChain
  <1>6. PICK vs : vs = ts \o us
    OBVIOUS
  <1>7. Meets(h, ts, i, us, vs)
    BY <1>1, <1>4, <1>5, <1>6 DEF Meets
  <1>8. PICK f : Chain(f, vs) /\ f[1] = h[1] /\ f[Len(vs) + 1] = i[Len(us) + 1]
    BY ONLY <1>7, ChainJoin
  <1>9. Chain(f, vs)'
    BY <1>2, <1>8, ChainKept
  <1>10. tasks' = vs
    BY <1>2, <1>3, <1>6
  <1>11. (Sound(Now) /\ Grown(f[Len(vs) + 1], Now))'
    BY <1>1, <1>2, <1>5, <1>8 DEF Sound, Grown, Seen, Now
  <1>12. (f[Len(vs) + 1].server = server /\ f[Len(vs) + 1].gone = gone
              /\ Joined \subseteq f[Len(vs) + 1].told)'
    BY <1>2, <1>5, <1>8 DEF Joined
  <1>13. History(f, vs)'
    BY <1>2, <1>9, <1>11, <1>12 DEF History
  <1> QED BY <1>8, <1>10, <1>13 DEF Goes

LEMMA ServerGoes ==
    ASSUME TypeInv, TypeInv', NEW ts, ts = tasks, NEW h, History(h, ts), ServerChanges
    PROVE  Goes(h) /\ (outages' = 0 => outages = 0)
  <1>1. Sound(Now) /\ \A g \in Joined : g \in Guilds
    BY DEF History, Joined
  <1>2. LoseSession \/ NewSession \/ Fitting
    BY <1>1, InviteFits, KickFits, ChangeGuildFits, ChangeChannelFits, ChangeMemberFits,
       ActivityFits, ChangeRoleFits DEF ServerChanges
  <1>3. CASE LoseSession
    BY <1>3, LoseGoes
  <1>4. CASE NewSession
    BY <1>4, NewSessionGoes DEF NewSession
  <1>5. CASE Fitting
    <2>1. PICK e, b : /\ Fits(e, b) /\ link' = link /\ outages' = outages
                      /\ tasks' = IF link THEN Append(tasks, e) ELSE tasks
      BY <1>5 DEF Fitting
    <2>2. TypeInv /\ TypeInv' /\ ts = tasks /\ History(h, ts)
      OBVIOUS
    <2>3. Goes(h)
      BY ONLY <2>1, <2>2, FitsGoes
    <2> QED BY <2>1, <2>3
  <1> QED BY <1>2, <1>3, <1>4, <1>5

-----------------------------------------------------------------------------
(* The cache and the server.                                               *)

LEMMA InitSerial ==
    ASSUME Init, NEW me \in Threads
    PROVE  SerialInv(me)
  <1> PICK p : p = [server |-> server, gone |-> gone, told |-> {}]
    OBVIOUS
  <1>1. TypeInv /\ ServerPart
    BY InitType DEF TypeInv
  <1>2. p \in Stage /\ p.server = server /\ p.gone = gone /\ p.told = {}
    BY <1>1 DEF Stage, ServerPart
  <1>3. \A g \in Guilds, u \in Users : server[g].members[u] \in {{}, NoInfo}
    <2>1. FirstServer.members = [u \in Users |-> IF u \in FirstMembers THEN {} ELSE NoInfo]
      BY DEF FirstServer
    <2>2. ASSUME NEW g \in Guilds PROVE server[g].members = FirstServer.members
      <3> PICK sg : sg = FirstServer
        OBVIOUS
      <3>1. sg \in ServerGuild
        BY Memberships, CacheAssumption DEF FirstServer, ServerGuild
      <3>2. server[g] = [sg EXCEPT !.channels = {c \in FirstChannels : GuildOf[c] = g}]
        BY DEF Init
      <3> QED BY <3>1, <3>2 DEF ServerGuild
    <2> QED BY <2>1, <2>2
  <1>4. \A g \in Guilds : \A c \in server[g].channels : GuildOf[c] = g
    BY <1>1 DEF ServerPart
  <1>5. Sound(p) /\ Sound(Now) /\ Grown(p, Now)
    BY <1>2, <1>3, <1>4 DEF Sound, Now, Grown, Seen
  <1>6. PICK us, n, s : us = Greeting /\ Introduces(us, n, s)
    BY <1>1, GreetingIntroduces
  <1>7. PICK i : /\ Chain(i, us) /\ i[1] = p
                 /\ i[Len(us) + 1].server = server /\ i[Len(us) + 1].gone = gone
                 /\ Joined \subseteq i[Len(us) + 1].told
    <2>1. outages = 0 => p.server = server
      BY <1>2
    <2> QED BY ONLY <1>1, <1>2, <1>5, <1>6, <2>1, IntroducesChain
  <1>8. Grown(i[Len(us) + 1], Now)
    BY <1>7 DEF Grown, Seen, Now
  <1>9. us = tasks /\ link = TRUE
    BY <1>6 DEF Init
  <1>10. History(i, us)
    BY <1>5, <1>7, <1>8, <1>9 DEF History
  <1> PICK r : r = thread[me]
    OBVIOUS
  <1>11. r = Idle
    BY DEF Init
  <1>12. r.step = "idle" /\ r.guild = 0 /\ r.channel = 0
    BY <1>11 DEF Idle
  <1>13. /\ guilds = {} /\ channels = {} /\ fault = "none"
         /\ \A u \in Users, g \in Guilds : info[u][g] = NoInfo
    BY DEF Init
  <1>14. Matches(p, r)
    BY <1>2, <1>12, <1>13
    DEF Matches, HasCurrent, AllKnown, RolesSeen, HasAll, HasNoMore
  <1> QED BY <1>7, <1>9, <1>10, <1>14 DEF SerialInv

LEMMA RunCarried ==
    ASSUME TypeInv, NEW me \in Threads, Threads = {me}, MembersHaveInfo,
           NEW q \in Stage, Sound(q), NEW r, r = thread[me], Matches(q, r), Run(me), ~Take(me)
    PROVE  Carried(me, q)
  <1>1. CASE Ready(me) \/ Create(me) \/ Find(me) \/ Load(me) \/ NextChannel(me) \/ LoadChannel(me)
    BY <1>1, ReadyCarried, CreateCarried, FindCarried, LoadCarried, NextChannelCarried,
       LoadChannelCarried
  <1>2. CASE Loaded(me) \/ Mark(me) \/ RemoveGuild(me) \/ CreateChannel(me) \/ FindChannel(me)
    BY <1>2, LoadedCarried, MarkCarried, RemoveGuildCarried, CreateChannelCarried,
        FindChannelCarried
  <1>3. CASE Link(me) \/ Update(me) \/ LockChannel(me) \/ Erase(me) \/ LockGuilds(me) \/ RemoveMember(me)
    BY <1>3, LinkCarried, UpdateCarried, LockChannelCarried, EraseCarried, LockGuildsCarried,
       RemoveMemberCarried
  <1>4. CASE Join(me) \/ Message(me) \/ Add(me) \/ JoinUser(me) \/ LoadRole(me) \/ RemoveRole(me)
    BY <1>4, JoinCarried, MessageCarried, AddCarried, JoinUserCarried, LoadRoleCarried,
       RemoveRoleCarried
  <1> QED BY <1>1, <1>2, <1>3, <1>4 DEF Run

\* While a handler runs, the server does not change.
LEMMA RunServer ==
    ASSUME NEW t, Run(t), ~Take(t)
    PROVE  UNCHANGED <<serverVars, tasks>>
  <1>1. CASE Ready(t) \/ Create(t) \/ Find(t) \/ Load(t) \/ NextChannel(t) \/ LoadChannel(t)
    BY <1>1, Zenon DEF Ready, Create, Find, Load, NextChannel, LoadChannel
  <1>2. CASE Loaded(t) \/ Mark(t) \/ RemoveGuild(t) \/ CreateChannel(t) \/ FindChannel(t)
    BY <1>2 DEF Loaded, Mark, RemoveGuild, CreateChannel, FindChannel
  <1>3. CASE Link(t) \/ Update(t) \/ LockChannel(t) \/ Erase(t) \/ LockGuilds(t) \/ RemoveMember(t)
    BY <1>3, Zenon DEF Link, Update, LockChannel, Erase, LockGuilds, RemoveMember
  <1>4. CASE Join(t) \/ Message(t) \/ Add(t) \/ JoinUser(t) \/ LoadRole(t) \/ RemoveRole(t)
    BY <1>4 DEF Join, Message, Add, JoinUser, LoadRole, RemoveRole
  <1> QED BY <1>1, <1>2, <1>3, <1>4 DEF Run

LEMMA HistoryKept ==
    ASSUME NEW h, NEW ts, History(h, ts), UNCHANGED serverVars
    PROVE  History(h, ts)'
  <1>1. UNCHANGED <<server, link, outages, gone>>
    BY DEF serverVars
  <1>2. Chain(h, ts)'
    BY <1>1, ChainKept DEF History
  <1> QED BY <1>1, <1>2 DEF History, Sound, Grown, Seen, Now, Joined

LEMMA RunSerial ==
    ASSUME TypeInv, NEW me \in Threads, Threads = {me}, MembersHaveInfo, SerialInv(me), Run(me)
    PROVE  SerialInv(me)'
  <1>1. PICK h, ts, r : ts = tasks /\ r = thread[me] /\ History(h, ts) /\ Matches(h[1], r)
    BY DEF SerialInv
  <1>2. CASE Take(me)
    BY <1>1, <1>2, TakeCarried
  <1>3. CASE ~Take(me)
    <2>1. UNCHANGED <<serverVars, tasks>>
      BY <1>3, RunServer
    <2>2. History(h, ts)'
      BY <1>1, <2>1, HistoryKept
    <2> PICK q : q = h[1]
      OBVIOUS
    <2>3. q \in Stage /\ Sound(q)
      <3>1. ts \in Seq(Event) /\ Len(ts) \in Nat
        BY <1>1, LenProperties DEF TypeInv, TaskPart
      <3>2. 1 \in 1..(Len(ts) + 1)
        BY <3>1
      <3> QED BY <1>1, <3>2 DEF History, Chain
    <2>4. Carried(me, q)
      BY <1>1, <1>3, <2>3, RunCarried
    <2>5. PICK s : s = thread'[me] /\ Matches(q, s)'
      BY <2>4 DEF Carried
    <2>6. Matches(h[1], s)'
      BY <2>5
    <2> QED BY <1>1, <2>1, <2>2, <2>5, <2>6 DEF SerialInv
  <1> QED BY <1>2, <1>3

LEMMA ServerSerial ==
    ASSUME TypeInv, TypeInv', NEW me \in Threads, SerialInv(me), ServerChanges
    PROVE  SerialInv(me)'
  <1>1. PICK h, ts, r : ts = tasks /\ r = thread[me] /\ History(h, ts) /\ Matches(h[1], r)
    BY DEF SerialInv
  <1>2. Goes(h) /\ (outages' = 0 => outages = 0)
    BY <1>1, ServerGoes
  <1>3. UNCHANGED BotVars
    BY ServerType DEF ServerStep
  <1> QED BY <1>1, <1>2, <1>3, ServerCarried

LEMMA IdleSerial ==
    ASSUME NEW me \in Threads, SerialInv(me), UNCHANGED vars
    PROVE  SerialInv(me)'
  <1>1. PICK h, ts, r : ts = tasks /\ r = thread[me] /\ History(h, ts) /\ Matches(h[1], r)
    BY DEF SerialInv
  <1>2. /\ UNCHANGED serverVars /\ tasks' = tasks /\ thread' = thread
        /\ UNCHANGED <<guildVars, channelVars, info, fault>> /\ outages' = outages
    BY DEF vars, serverVars, userVars
  <1>3. History(h, ts)'
    BY <1>1, <1>2, HistoryKept
  <1> PICK q : q = h[1]
    OBVIOUS
  <1>4. Matches(q, r)'
    BY <1>1, <1>2, MatchesKept
  <1>5. Matches(h[1], r)'
    BY <1>4
  <1> QED BY <1>1, <1>2, <1>3, <1>5 DEF SerialInv

\* The cache of one thread is what the server was when it sent the event at hand.
LEMMA SeriallyKept ==
    ASSUME NEW me, Threads = {me}
    PROVE  Spec => []SerialInv(me)
  <1>1. me \in Threads
    OBVIOUS
  <1>2. Init => SerialInv(me)
    BY <1>1, InitSerial
  <1>3. ASSUME TypeInv, MembersHaveInfo, SerialInv(me), [Next]_vars PROVE SerialInv(me)'
    <2>1. CASE ServerChanges
      <3>1. TypeInv'
        BY <1>3, NextType
      <3> QED BY <1>1, <1>3, <2>1, <3>1, ServerSerial
    <2>2. CASE \E t \in Threads : Run(t)
      BY <1>1, <1>3, <2>2, RunSerial
    <2>3. CASE UNCHANGED vars
      BY <1>1, <1>3, <2>3, IdleSerial
    <2> QED BY <1>3, <2>1, <2>2, <2>3 DEF Next, Terminated
  <1> QED BY <1>2, <1>3, TypesThroughout, MembersEntered, PTL DEF Spec

\* All events are handled: the stage is that of now.
LEMMA QuietStage ==
    ASSUME TypeInv, NEW me, Threads = {me}, SerialInv(me), Quiet
    PROVE  \E q, r : /\ Matches(q, r) /\ r = Idle /\ (outages = 0 => link)
                     /\ link => q.server = server /\ Joined \subseteq q.told
  <1>1. PICK h, ts, r : ts = tasks /\ r = thread[me] /\ History(h, ts) /\ Matches(h[1], r)
    BY DEF SerialInv
  <1>2. ts = <<>> /\ r = Idle
    BY <1>1 DEF Quiet
  <1>3. Len(ts) + 1 = 1
    BY <1>2
  <1>4. /\ link => /\ h[1].server = server /\ Joined \subseteq h[1].told
        /\ outages = 0 => link
    BY <1>1, <1>3 DEF History
  <1> QED BY <1>1, <1>2, <1>4

\* What an idle thread has of a guild.
LEMMA IdleHas ==
    ASSUME TypeInv, NEW q, NEW r, r = Idle, Matches(q, r), q.server = server,
           Joined \subseteq q.told, NEW g \in Joined
    PROVE  /\ g \in guilds /\ server[g].roles \subseteq Current(g).roles
           /\ \A u \in Users \ Offline : server[g].members[u] # NoInfo => HasMember(q, g, u)
           /\ \A c \in server[g].channels : Linked(g, c)
  <1>1. r.event.kind = "READY"
    BY DEF Idle, NoEvent
  <1>2. ~Concerns(r, g)
    BY <1>1 DEF Concerns
  <1>3. g \in q.told /\ q.server[g].joined
    BY DEF Joined
  <1>4. Has(q, r, g)
    BY <1>2, <1>3 DEF Matches, HasAll, LateGuild
  <1> QED BY <1>2, <1>4
      DEF Has, HasRoles, HasMembers, HasChannels, LateRole, LateMember, LateChannel, LateLoad

LEMMA IdleOnly ==
    ASSUME NEW q, NEW r, r = Idle, Matches(q, r), q.server = server, outages = 0, NEW g \in guilds
    PROVE  /\ server[g].joined /\ Current(g).roles \subseteq server[g].roles
           /\ \A u \in Current(g).members : server[g].members[u] # NoInfo
           /\ \A c \in Channels : Current(g).channels[c] # 0 => c \in server[g].channels
  <1>1. ~Concerns(r, g)
    BY DEF Concerns, Idle, NoEvent
  <1>2. OnlyHas(q, r, g)
    BY DEF Matches, HasNoMore
  <1> QED BY <1>1, <1>2 DEF OnlyHas

LEMMA SerialNothingExtra ==
    ASSUME TypeInv, NEW me, Threads = {me}, SerialInv(me)
    PROVE  NothingExtra
  <1> SUFFICES ASSUME Quiet, outages = 0
               PROVE  /\ guilds = Joined
                      /\ \A g \in Joined :
                            /\ Current(g).members \subseteq Members(g)
                            /\ Current(g).roles = server[g].roles
                            /\ {c \in Channels : Current(g).channels[c] # 0} = server[g].channels
    BY DEF NothingExtra
  <1>1. PICK q, r : /\ Matches(q, r) /\ r = Idle /\ q.server = server /\ Joined \subseteq q.told
    BY QuietStage
  <1>2. guilds \subseteq Guilds
    BY DEF TypeInv, GuildPart
  <1>3. \A g \in guilds : server[g].joined
    BY <1>1, IdleOnly
  <1>4. \A g \in Joined : g \in guilds
    BY <1>1, IdleHas
  <1>5. guilds = Joined
    BY <1>2, <1>3, <1>4 DEF Joined
  <1>6. ASSUME NEW g \in Joined
        PROVE  /\ Current(g).members \subseteq Members(g)
               /\ Current(g).roles = server[g].roles
               /\ {c \in Channels : Current(g).channels[c] # 0} = server[g].channels
    <2>1. g \in guilds
      BY <1>5
    <2>2. /\ Current(g).roles \subseteq server[g].roles
          /\ \A u \in Current(g).members : server[g].members[u] # NoInfo
          /\ \A c \in Channels : Current(g).channels[c] # 0 => c \in server[g].channels
      BY <1>1, <2>1, IdleOnly
    <2>3. server[g].roles \subseteq Current(g).roles /\ \A c \in server[g].channels : Linked(g, c)
      BY <1>1, IdleHas
    <2>4. Current(g).members \subseteq Users
      BY <1>2, <2>1, CurrentType DEF GuildObject
    <2>5. \A c \in server[g].channels : c \in Channels /\ Current(g).channels[c] # 0
      <3>1. server[g].channels \subseteq Channels
        BY DEF TypeInv, ServerPart, ServerGuild, Joined
      <3>2. \A c \in channels : ChannelPtr(c) # 0
        BY EmptySeq, LenProperties DEF TypeInv, ChannelPart, ChannelPtr
      <3> QED BY <2>3, <3>1, <3>2 DEF Linked
    <2> QED BY <2>2, <2>3, <2>4, <2>5 DEF Members
  <1> QED BY <1>5, <1>6

LEMMA SerialComplete ==
    ASSUME TypeInv, NEW me, Threads = {me}, SerialInv(me)
    PROVE  Complete
  <1> SUFFICES ASSUME Quiet, link, NEW g \in Joined
               PROVE  /\ g \in guilds
                      /\ server[g].roles \subseteq Current(g).roles
                      /\ \A u \in Members(g) \ Offline :
                            /\ u \in Current(g).members
                            /\ info[u][g] # NoInfo
                            /\ info[u][g] \cap server[g].roles = server[g].members[u]
                      /\ \A c \in server[g].channels :
                            /\ c \in channels /\ Current(g).channels[c] = ChannelPtr(c)
                            /\ channelObj[c][ChannelPtr(c)].known
                            /\ channelObj[c][ChannelPtr(c)].guild = GuildPtr(g)
    BY DEF Complete
  <1>1. PICK q, r : /\ Matches(q, r) /\ r = Idle /\ q.server = server /\ Joined \subseteq q.told
    BY QuietStage
  <1>2. /\ g \in guilds /\ server[g].roles \subseteq Current(g).roles
        /\ \A u \in Users \ Offline : server[g].members[u] # NoInfo => HasMember(q, g, u)
        /\ \A c \in server[g].channels : Linked(g, c)
    BY <1>1, IdleHas
  <1> QED BY <1>1, <1>2 DEF HasMember, Linked, Members, ChanOf

\* With one thread and no event lost, the cache holds no guild, member, role or channel
\* that the server does not have once all events are handled, whatever the server did and
\* however many guilds there are (ws_guild_*, ws_channel_*).
THEOREM NothingLeftBehind == ASSUME NEW me, Threads = {me} PROVE Spec => []NothingExtra
  <1>1. TypeInv /\ SerialInv(me) => NothingExtra
    BY SerialNothingExtra
  <1> QED BY <1>1, TypesThroughout, SeriallyKept, PTL

\* With one thread, everything the server describes is in the cache once all events are
\* handled, even if sessions were lost with their events and others began: the members
\* with their roles, and each channel as the object of its id, tied to its guild.
THEOREM NothingMissed == ASSUME NEW me, Threads = {me} PROVE Spec => []Complete
  <1>1. TypeInv /\ SerialInv(me) => Complete
    BY SerialComplete
  <1> QED BY <1>1, TypesThroughout, SeriallyKept, PTL

\* With one thread, no handler dereferences nullptr or erases the end of a map: the guild
\* of a GUILD_MEMBER_ADD or a GUILD_ROLE_CREATE is there, and so is the entry of a member
\* that leaves.
THEOREM NoFaultSerially == ASSUME NEW me, Threads = {me} PROVE Spec => []NoFault
  <1>1. SerialInv(me) => NoFault
    BY DEF SerialInv, Matches, NoFault
  <1> QED BY <1>1, SeriallyKept, PTL
=============================================================================
