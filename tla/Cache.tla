-------------------------------- MODULE Cache --------------------------------
(***************************************************************************)
(* The cache of guilds, channels and users, and the handlers of gateway    *)
(* events that change it (impl/core.cpp, impl/guild.cpp, impl/channel.cpp, *)
(* impl/user.cpp).                                                         *)
(*                                                                         *)
(* Events are posted to the io_context in the order the gateway sent them  *)
(* and run by any of its threads.  An object is named by its id and the    *)
(* number of objects the id had when it was made; 0 is nullptr.  Locks     *)
(* held while another is awaited are kept as holders; sections that wait   *)
(* for nothing (_user_m and the mutex of a user always) are single steps.  *)
(***************************************************************************)
EXTENDS Naturals, SequencesExt

CONSTANTS
    Guilds, Channels, Users, Roles,
    GuildOf,       \* the guild of each channel
    Threads,       \* threads that run the io_context
    Kinds,         \* the kinds of event the gateway sends
    Offline,       \* users a GUILD_CREATE leaves out (large guilds)
    FirstMembers,  \* users, channels and roles of every guild at the start
    FirstChannels,
    FirstRoles,
    MaxEvents,     \* bound on the changes of the server
    MaxKicks,      \* bound on how often the bot leaves a guild
    MaxOutages,    \* bound on sessions that end without a resume
    Null           \* no thread, and an unused field of an event

AllKinds == {"GUILD_CREATE", "GUILD_UPDATE", "GUILD_DELETE",
             "CHANNEL_CREATE", "CHANNEL_UPDATE", "CHANNEL_DELETE",
             "GUILD_MEMBER_ADD", "GUILD_MEMBER_UPDATE", "GUILD_MEMBER_REMOVE",
             "GUILD_MEMBERS_CHUNK", "PRESENCE_UPDATE", "MESSAGE_CREATE",
             "MESSAGE_UPDATE", "TYPING_START", "GUILD_ROLE_CREATE",
             "GUILD_ROLE_DELETE", "VOICE_STATE_UPDATE", "READY"}

ASSUME CacheAssumption ==
    /\ IsFiniteSet(Guilds) /\ GuildOf \in [Channels -> Guilds]
    /\ Kinds \subseteq AllKinds
    /\ Offline \subseteq Users /\ FirstMembers \subseteq Users
    /\ FirstChannels \subseteq Channels /\ FirstRoles \subseteq Roles
    /\ {MaxEvents, MaxKicks, MaxOutages} \subseteq Nat
    /\ Null \notin Threads \cup Channels \cup Users \cup Roles

VARIABLES
    server,         \* the guilds as the server has them
    link,           \* whether the session is alive
    events,         \* how many changes the server has made
    kicks,          \* how often the bot has left a guild
    outages,        \* how many sessions were lost
    gone,           \* channels and roles that were deleted
    tasks,          \* events posted to the io_context
    thread,         \* what each thread does
    guilds,         \* ids in core::guilds
    staleGuilds,    \* the object of each id in stale_guilds
    guildObj,       \* the guild objects made for each id
    channels,       \* ids in core::channels
    staleChannels,  \* the object of each id in stale_channels
    channelObj,     \* the channel objects made for each id
    users,          \* whether a user object exists and has a name
    info,           \* user::guilds, the roles of a user in each guild
    holder,         \* who holds _guild_m and _channel_m
    fault           \* the undefined behaviour a thread ran into

serverVars == <<server, link, events, kicks, outages, gone>>
guildVars == <<guilds, staleGuilds, guildObj>>
channelVars == <<channels, staleChannels, channelObj>>
userVars == <<users, info>>
vars == <<serverVars, tasks, thread, guildVars, channelVars, userVars, holder, fault>>

\* The roles of a user in a guild, or no entry for it at all.
NoInfo == {Null}
Membership == (SUBSET Roles) \cup {NoInfo}
Holder == Threads \cup {Null}

ServerGuild == [joined : BOOLEAN, members : [Users -> Membership],
                channels : SUBSET Channels, roles : SUBSET Roles]

GuildObject == [members : SUBSET Users, channels : [Channels -> Nat],
                roles : SUBSET Roles, holder : Holder]

\* known: guild_id is set; guild: the object _guild points to.
ChannelObject == [known : BOOLEAN, guild : Nat, holder : Holder]

\* A payload that says nothing of members, channels or roles.
Blank == [joined |-> TRUE, members |-> [u \in Users |-> NoInfo], channels |-> {},
          roles |-> {}]

\* load: what the payload says of the guild; all: the guilds of READY.
Event == [kind : AllKinds, guild : Guilds \cup {Null}, channel : Channels \cup {Null},
          user : Users \cup {Null}, role : Roles \cup {Null},
          load : ServerGuild, all : SUBSET Guilds]

NoEvent == [kind |-> "READY", guild |-> Null, channel |-> Null, user |-> Null,
            role |-> Null, load |-> Blank, all |-> {}]

Step == {"idle", "ready", "find", "create", "load", "loadChannels", "loadChannel", "mark",
         "remove", "createChannel", "findChannel", "link", "update", "lockChannel", "erase",
         "lockGuilds", "removeMember", "join", "message", "add", "joinUser",
         "loadRole", "removeRole"}

ThreadState == [step : Step, event : Event, guild : Nat, channel : Nat,
                todo : SUBSET (Channels \cup Users)]

Idle == [step |-> "idle", event |-> NoEvent, guild |-> 0, channel |-> 0, todo |-> {}]

NewGuild == [members |-> {}, channels |-> [c \in Channels |-> 0], roles |-> {},
             holder |-> Null]

NewChannel == [known |-> FALSE, guild |-> 0, holder |-> Null]

TypeOK ==
    /\ server \in [Guilds -> ServerGuild]
    /\ link \in BOOLEAN
    /\ events \in 0..MaxEvents /\ kicks \in 0..MaxKicks /\ outages \in 0..MaxOutages
    /\ gone \in SUBSET (Channels \cup Roles)
    /\ tasks \in Seq(Event)
    /\ thread \in [Threads -> ThreadState]
    /\ guilds \in SUBSET Guilds
    /\ staleGuilds \in [Guilds -> Nat]
    /\ guildObj \in [Guilds -> Seq(GuildObject)]
    /\ channels \in SUBSET Channels
    /\ staleChannels \in [Channels -> Nat]
    /\ channelObj \in [Channels -> Seq(ChannelObject)]
    /\ users \in [Users -> {"none", "bare", "named"}]
    /\ info \in [Users -> [Guilds -> Membership]]
    /\ holder \in [{"guilds", "channels"} -> Holder]
    /\ fault \in {"none", "null", "noInfo"}

-----------------------------------------------------------------------------
(* Objects and locks.                                                      *)

\* find_guild_nolock, find_channel_nolock.
GuildPtr(g) == IF g \in guilds THEN Len(guildObj[g]) ELSE 0
ChannelPtr(c) == IF c \in channels THEN Len(channelObj[c]) ELSE 0

\* The object is owned by the map or by the map of stale objects.
GuildAlive(g, n) == n # 0 /\ n \in {GuildPtr(g), staleGuilds[g]}
ChannelAlive(c, n) == n # 0 /\ n \in {ChannelPtr(c), staleChannels[c]}

Free(h) == h = Null

\* guild_create, channel_create: the map's object, or a new one.
MakeGuilds(G) ==
    /\ guilds' = guilds \cup G
    /\ guildObj' = [g \in Guilds |-> IF g \in G \ guilds THEN Append(guildObj[g], NewGuild)
                                                        ELSE guildObj[g]]
    /\ UNCHANGED staleGuilds

WithChannel(c) ==
    IF c \in channels THEN channelObj
    ELSE [channelObj EXCEPT ![c] = Append(@, NewChannel)]

MakeChannel(c) ==
    /\ channels' = channels \cup {c}
    /\ channelObj' = WithChannel(c)
    /\ UNCHANGED staleChannels

\* user_create.
Made(u) == IF users[u] = "none" THEN "bare" ELSE users[u]

\* unordered_map::emplace keeps the entry that is there.
Emplace(map, c, n) == IF map[c] = 0 THEN [map EXCEPT ![c] = n] ELSE map

At(t, step) == fault = "none" /\ thread[t].step = step

Goto(t, step) == thread' = [thread EXCEPT ![t].step = step]

Return(t) == thread' = [thread EXCEPT ![t] = Idle]

-----------------------------------------------------------------------------
(* The server (external): it changes a guild and says so to a live session. *)

Packet(kind, g) == [NoEvent EXCEPT !.kind = kind, !.guild = g]

About(kind, g, u, membership) ==
    [Packet(kind, g) EXCEPT !.user = u, !.load.members[u] = membership]

\* The members a payload lists one by one.
Listed(e) == {u \in Users : e.load.members[u] # NoInfo}

GuildCreate(g, sg) ==
    [Packet("GUILD_CREATE", g) EXCEPT !.load =
        [sg EXCEPT !.members = [u \in Users |-> IF u \in Offline THEN NoInfo ELSE @[u]]]]

Joined == {g \in Guilds : server[g].joined}

Change(e, new) ==
    /\ fault = "none" /\ events < MaxEvents
    /\ e.kind \in Kinds
    /\ server' = [server EXCEPT ![e.guild] = new]
    /\ events' = events + 1
    /\ tasks' = IF link THEN Append(tasks, e) ELSE tasks
    /\ UNCHANGED <<link, outages, thread, guildVars, channelVars, userVars, holder, fault>>

\* Nothing but the session hears of it: typing, presence, messages, requests.
Notify(e) == link /\ Change(e, server[e.guild]) /\ UNCHANGED <<kicks, gone>>

Invite(g) ==
    LET new == [server[g] EXCEPT !.joined = TRUE] IN
    /\ ~server[g].joined
    /\ Change(GuildCreate(g, new), new)
    /\ UNCHANGED <<kicks, gone>>

Kick(g) ==
    /\ g \in Joined /\ kicks < MaxKicks
    /\ kicks' = kicks + 1
    /\ Change(Packet("GUILD_DELETE", g), [server[g] EXCEPT !.joined = FALSE])
    /\ UNCHANGED gone

ChangeGuild(g) ==
    \/ Notify([Packet("GUILD_UPDATE", g) EXCEPT !.load.roles = server[g].roles])
    \/ Notify([Packet("GUILD_MEMBERS_CHUNK", g) EXCEPT !.load.members = server[g].members])

ChangeChannel(g, c) ==
    LET sg == server[g]
        Tell(kind, new) ==
            Change([Packet(kind, g) EXCEPT !.channel = c], new) /\ UNCHANGED kicks
    IN
    /\ GuildOf[c] = g
    /\ \/ /\ c \notin sg.channels \cup gone
          /\ Tell("CHANNEL_CREATE", [sg EXCEPT !.channels = @ \cup {c}])
          /\ UNCHANGED gone
       \/ /\ c \in sg.channels
          /\ Tell("CHANNEL_UPDATE", sg)
          /\ UNCHANGED gone
       \/ /\ c \in sg.channels
          /\ Tell("CHANNEL_DELETE", [sg EXCEPT !.channels = @ \ {c}])
          /\ gone' = gone \cup {c}

ChangeMember(g, u) ==
    LET sg == server[g]
        Tell(kind, membership) ==
            /\ Change(About(kind, g, u, membership), [sg EXCEPT !.members[u] = membership])
            /\ UNCHANGED <<kicks, gone>>
    IN
    \/ sg.members[u] = NoInfo /\ Tell("GUILD_MEMBER_ADD", {})
    \/ sg.members[u] # NoInfo /\ Tell("GUILD_MEMBER_REMOVE", NoInfo)
    \/ /\ sg.members[u] # NoInfo
       /\ \E R \in SUBSET sg.roles : Tell("GUILD_MEMBER_UPDATE", R)

\* What a member does: come online, change voice channel, type, write, edit.
Activity(g, u) ==
    LET About_u(kind) == About(kind, g, u, server[g].members[u]) IN
    /\ server[g].members[u] # NoInfo
    /\ \/ Notify(About_u("PRESENCE_UPDATE"))
       \/ Notify([Packet("VOICE_STATE_UPDATE", g) EXCEPT !.user = u])
       \/ \E c \in server[g].channels :
             \/ Notify([Packet("TYPING_START", g) EXCEPT !.channel = c, !.user = u])
             \/ \E kind \in {"MESSAGE_CREATE", "MESSAGE_UPDATE"} :
                   Notify([About_u(kind) EXCEPT !.channel = c])

ChangeRole(g, r) ==
    LET sg == server[g]
        Without(membership) == IF membership = NoInfo THEN NoInfo ELSE membership \ {r}
        Tell(kind, new) ==
            Change([Packet(kind, g) EXCEPT !.role = r], new) /\ UNCHANGED kicks
    IN
    \/ /\ r \notin gone
       /\ Tell("GUILD_ROLE_CREATE", [sg EXCEPT !.roles = @ \cup {r}])
       /\ UNCHANGED gone
    \/ /\ r \in sg.roles
       /\ Tell("GUILD_ROLE_DELETE",
               [sg EXCEPT !.roles = @ \ {r},
                          !.members = [u \in Users |-> Without(@[u])]])
       /\ gone' = gone \cup {r}

\* A session ends and cannot be resumed: what happens next is not told.
LoseSession ==
    /\ fault = "none" /\ link /\ outages < MaxOutages
    /\ link' = FALSE
    /\ outages' = outages + 1
    /\ UNCHANGED <<server, events, kicks, gone, tasks, thread, guildVars, channelVars,
                   userVars, holder, fault>>

\* A new session: READY names the guilds, each is then described.
Greeting ==
    <<[NoEvent EXCEPT !.all = Joined]>>
        \o SetToSeq({GuildCreate(g, server[g]) : g \in Joined})

NewSession ==
    /\ fault = "none" /\ ~link
    /\ link' = TRUE
    /\ tasks' = tasks \o Greeting
    /\ UNCHANGED <<server, events, kicks, outages, gone, thread, guildVars, channelVars,
                   userVars, holder, fault>>

-----------------------------------------------------------------------------
(* The handlers.  Each step ends where the thread may wait for a lock.     *)

First(kind) ==
    CASE kind = "READY" -> "ready"
      [] kind \in {"GUILD_CREATE", "VOICE_STATE_UPDATE"} -> "create"
      [] kind = "GUILD_MEMBER_REMOVE" -> "lockGuilds"
      [] kind = "MESSAGE_CREATE" -> "findChannel"
      [] kind \in {"MESSAGE_UPDATE", "TYPING_START"} -> "createChannel"
      [] OTHER -> "find"

AfterFind == [GUILD_UPDATE |-> "load", GUILD_DELETE |-> "mark",
              CHANNEL_CREATE |-> "createChannel", CHANNEL_UPDATE |-> "createChannel",
              CHANNEL_DELETE |-> "findChannel", GUILD_MEMBER_ADD |-> "join",
              GUILD_MEMBER_UPDATE |-> "join", GUILD_MEMBERS_CHUNK |-> "join",
              PRESENCE_UPDATE |-> "join", GUILD_ROLE_CREATE |-> "loadRole",
              GUILD_ROLE_DELETE |-> "removeRole"]

AfterChannel == [CHANNEL_CREATE |-> "link", CHANNEL_UPDATE |-> "update",
                 CHANNEL_DELETE |-> "lockChannel", MESSAGE_CREATE |-> "message",
                 MESSAGE_UPDATE |-> "message"]

\* A thread takes the next task.
Take(t) ==
    /\ At(t, "idle") /\ tasks # <<>>
    /\ LET e == Head(tasks) IN
       thread' = [thread EXCEPT ![t] = [Idle EXCEPT
           !.step = First(e.kind), !.event = e,
           !.todo = IF e.kind \in {"GUILD_CREATE", "GUILD_UPDATE"} THEN e.load.channels
                                                                   ELSE Listed(e)]]
    /\ tasks' = Tail(tasks)
    /\ UNCHANGED <<serverVars, guildVars, channelVars, userVars, holder, fault>>

\* process_ready: an entry for every guild; the guilds of a bot come unavailable.
Ready(t) ==
    /\ At(t, "ready") /\ Free(holder["guilds"])
    /\ MakeGuilds(thread[t].event.all)
    /\ Return(t)
    /\ UNCHANGED <<serverVars, tasks, channelVars, userVars, holder, fault>>

\* guild_create for GUILD_CREATE and VOICE_STATE_UPDATE.
Create(t) ==
    LET e == thread[t].event IN
    /\ At(t, "create") /\ Free(holder["guilds"])
    /\ MakeGuilds({e.guild})
    /\ thread' = [thread EXCEPT ![t] =
           IF e.kind = "GUILD_CREATE"
           THEN [@ EXCEPT !.step = "load", !.guild = Len(guildObj'[e.guild])]
           ELSE Idle]
    /\ UNCHANGED <<serverVars, tasks, channelVars, userVars, holder, fault>>

Find_Unchecked(t) ==  \* mutant: every handler goes on with nullptr
    LET e == thread[t].event
        n == GuildPtr(e.guild)
    IN
    /\ At(t, "find") /\ Free(holder["guilds"])
    /\ IF n = 0 THEN Return(t)
       ELSE thread' = [thread EXCEPT ![t].step = AfterFind[e.kind], ![t].guild = n]
    /\ fault' = IF n = 0 THEN "null" ELSE fault
    /\ UNCHANGED <<serverVars, tasks, guildVars, channelVars, userVars, holder>>

\* find_guild, after user_create where the handler starts with it.  Without a
\* guild most handlers return; two go on with nullptr.
Find(t) ==
    LET e == thread[t].event
        n == GuildPtr(e.guild)
        makesUser == e.kind \in {"GUILD_MEMBER_ADD", "GUILD_MEMBER_UPDATE", "PRESENCE_UPDATE"}
        unchecked == e.kind \in {"GUILD_MEMBER_ADD", "GUILD_ROLE_CREATE"}
    IN
    /\ At(t, "find") /\ Free(holder["guilds"])
    /\ users' = IF makesUser THEN [users EXCEPT ![e.user] = Made(e.user)] ELSE users
    /\ IF n = 0 \/ (AfterFind[e.kind] = "join" /\ thread[t].todo = {}) THEN Return(t)
       ELSE thread' = [thread EXCEPT ![t].step = AfterFind[e.kind], ![t].guild = n]
    /\ fault' = IF n = 0 /\ unchecked THEN "null" ELSE fault
    /\ UNCHANGED <<serverVars, tasks, guildVars, channelVars, info, holder>>

-----------------------------------------------------------------------------
(* Steps at a guild object the handler found.                              *)

\* The objects whose pointers the thread holds still exist; without them the model
\* says nothing of what the thread does next.
Uses(t) ==
    /\ thread[t].guild # 0 => GuildAlive(thread[t].event.guild, thread[t].guild)
    /\ thread[t].channel # 0 => ChannelAlive(thread[t].event.channel, thread[t].channel)

\* The guild object of the thread.
Obj(t) == guildObj[thread[t].event.guild][thread[t].guild]

SetObj(t, obj) ==
    /\ guildObj' = [guildObj EXCEPT ![thread[t].event.guild][thread[t].guild] = obj]
    /\ UNCHANGED <<guilds, staleGuilds>>

\* The channel object of the thread, and its entry in the guild.
Chan(t) == channelObj[thread[t].event.channel][thread[t].channel]

SetChan(t, chan) ==
    /\ channelObj' =
          [channelObj EXCEPT ![thread[t].event.channel][thread[t].channel] = chan]
    /\ UNCHANGED <<channels, staleChannels>>

Enters(t) ==
    SetObj(t, [Obj(t) EXCEPT !.channels =
                  Emplace(@, thread[t].event.channel, thread[t].channel)])

\* guild::_load takes the mutex of the guild and keeps it; roles and members only
\* ever come in.
Load(t) ==
    LET e == thread[t].event IN
    /\ At(t, "load") /\ Uses(t) /\ Free(Obj(t).holder)
    /\ SetObj(t, [Obj(t) EXCEPT !.roles = @ \cup e.load.roles,
                                !.members = @ \cup Listed(e), !.holder = t])
    /\ users' = [u \in Users |-> IF u \in Listed(e) THEN "named" ELSE users[u]]
    /\ info' = [u \in Users |-> IF u \in Listed(e)
                                THEN [info[u] EXCEPT ![e.guild] = e.load.members[u]]
                                ELSE info[u]]
    /\ Goto(t, "loadChannels")
    /\ UNCHANGED <<serverVars, tasks, channelVars, holder, fault>>

\* For each channel of the payload: channel_create,
NextChannel(t) ==
    /\ At(t, "loadChannels") /\ Uses(t) /\ Free(holder["channels"])
    /\ \E c \in thread[t].todo :
        /\ MakeChannel(c)
        /\ thread' = [thread EXCEPT ![t] = [@ EXCEPT
               !.step = "loadChannel", !.event.channel = c,
               !.channel = Len(channelObj'[c]), !.todo = thread[t].todo \ {c}]]
    /\ UNCHANGED <<serverVars, tasks, guildVars, userVars, holder, fault>>

\* _load_with_guild under its mutex, and an entry in the guild.
LoadChannel(t) ==
    /\ At(t, "loadChannel") /\ Uses(t) /\ Free(Chan(t).holder)
    /\ SetChan(t, [Chan(t) EXCEPT !.known = TRUE, !.guild = thread[t].guild])
    /\ Enters(t)
    /\ Goto(t, "loadChannels")
    /\ UNCHANGED <<serverVars, tasks, userVars, holder, fault>>

Loaded(t) ==
    /\ At(t, "loadChannels") /\ Uses(t) /\ thread[t].todo = {}
    /\ SetObj(t, [Obj(t) EXCEPT !.holder = Null])
    /\ Return(t)
    /\ UNCHANGED <<serverVars, tasks, channelVars, userVars, holder, fault>>

\* ws_guild_delete writes to the guild, calls back,
Mark(t) ==
    /\ At(t, "mark") /\ Uses(t)
    /\ Goto(t, "remove")
    /\ UNCHANGED <<serverVars, tasks, guildVars, channelVars, userVars, holder, fault>>

RemoveGuild_NoStale(t) ==  \* mutant: the guild is erased at once
    /\ At(t, "remove") /\ Free(holder["guilds"])
    /\ guilds' = guilds \ {thread[t].event.guild}
    /\ Return(t)
    /\ UNCHANGED <<serverVars, tasks, staleGuilds, guildObj, channelVars, userVars, holder,
                   fault>>

\* and removes the id.  stale_guilds keeps the object only if it has none of that
\* id; otherwise it is destroyed.
RemoveGuild(t) ==
    LET g == thread[t].event.guild IN
    /\ At(t, "remove") /\ Free(holder["guilds"])
    /\ guilds' = guilds \ {g}
    /\ staleGuilds' = Emplace(staleGuilds, g, GuildPtr(g))
    /\ Return(t)
    /\ UNCHANGED <<serverVars, tasks, guildObj, channelVars, userVars, holder, fault>>

-----------------------------------------------------------------------------
(* Channels.                                                               *)

\* channel_create; TYPING_START does no more than that and user_create.
CreateChannel(t) ==
    LET e == thread[t].event
        c == e.channel
    IN
    /\ At(t, "createChannel") /\ Free(holder["channels"])
    /\ MakeChannel(c)
    /\ users' = IF e.kind = "TYPING_START" THEN [users EXCEPT ![e.user] = Made(e.user)]
                ELSE users
    /\ IF e.kind = "TYPING_START" THEN Return(t)
       ELSE thread' = [thread EXCEPT ![t].step = AfterChannel[e.kind],
                                     ![t].channel = Len(channelObj'[c])]
    /\ UNCHANGED <<serverVars, tasks, guildVars, info, holder, fault>>

\* find_channel; without a channel the handler returns.
FindChannel(t) ==
    LET e == thread[t].event
        n == ChannelPtr(e.channel)
    IN
    /\ At(t, "findChannel") /\ Free(holder["channels"])
    /\ IF n = 0 THEN Return(t)
       ELSE thread' = [thread EXCEPT ![t].step = AfterChannel[e.kind], ![t].channel = n]
    /\ UNCHANGED <<serverVars, tasks, guildVars, channelVars, userVars, holder, fault>>

Link_NoGuild(t) ==  \* mutant: the new channel is entered in the guild but does not point back to it
    /\ At(t, "link") /\ Uses(t)
    /\ Free(Chan(t).holder) /\ Free(holder["channels"]) /\ Free(Obj(t).holder)
    /\ SetChan(t, [Chan(t) EXCEPT !.known = TRUE])
    /\ Enters(t)
    /\ Return(t)
    /\ UNCHANGED <<serverVars, tasks, userVars, holder, fault>>

\* ws_channel_create locks the channel, the channels and the guild at once.
Link(t) ==
    /\ At(t, "link") /\ Uses(t)
    /\ Free(Chan(t).holder) /\ Free(holder["channels"]) /\ Free(Obj(t).holder)
    /\ SetChan(t, [Chan(t) EXCEPT !.known = TRUE, !.guild = thread[t].guild])
    /\ Enters(t)
    /\ Return(t)
    /\ UNCHANGED <<serverVars, tasks, userVars, holder, fault>>

\* ws_channel_update does without the mutex of the guild, and sets no _guild.
Update(t) ==
    /\ At(t, "update") /\ Uses(t)
    /\ Free(Chan(t).holder) /\ Free(holder["channels"])
    /\ SetChan(t, [Chan(t) EXCEPT !.known = TRUE])
    /\ Enters(t)
    /\ Return(t)
    /\ UNCHANGED <<serverVars, tasks, userVars, holder, fault>>

\* ws_channel_delete locks the channel and the channels,
LockChannel(t) ==
    /\ At(t, "lockChannel") /\ Uses(t)
    /\ Free(Chan(t).holder) /\ Free(holder["channels"])
    /\ SetChan(t, [Chan(t) EXCEPT !.holder = t])
    /\ holder' = [holder EXCEPT !["channels"] = t]
    /\ Goto(t, "erase")
    /\ UNCHANGED <<serverVars, tasks, guildVars, userVars, fault>>

\* then waits for the guild and removes the id from both maps.
Erase(t) ==
    LET c == thread[t].event.channel IN
    /\ At(t, "erase") /\ Uses(t) /\ Free(Obj(t).holder)
    /\ SetObj(t, [Obj(t) EXCEPT !.channels[c] = 0])
    /\ channels' = channels \ {c}
    /\ staleChannels' = Emplace(staleChannels, c, ChannelPtr(c))
    /\ channelObj' = [channelObj EXCEPT ![c][thread[t].channel].holder = Null]
    /\ holder' = [holder EXCEPT !["channels"] = Null]
    /\ Return(t)
    /\ UNCHANGED <<serverVars, tasks, userVars, fault>>

-----------------------------------------------------------------------------
(* Members and roles.                                                      *)

LockGuilds_KeepsLock(t) ==  \* mutant: the early return leaves _guild_m locked
    LET n == GuildPtr(thread[t].event.guild) IN
    /\ At(t, "lockGuilds") /\ Free(holder["guilds"])
    /\ holder' = [holder EXCEPT !["guilds"] = t]
    /\ IF n = 0 THEN Return(t)
       ELSE thread' = [thread EXCEPT ![t].step = "removeMember", ![t].guild = n]
    /\ UNCHANGED <<serverVars, tasks, guildVars, channelVars, userVars, fault>>

\* ws_guild_member_remove keeps _guild_m,
LockGuilds(t) ==
    LET n == GuildPtr(thread[t].event.guild) IN
    /\ At(t, "lockGuilds") /\ Free(holder["guilds"])
    /\ IF n = 0
       THEN Return(t) /\ UNCHANGED holder
       ELSE /\ holder' = [holder EXCEPT !["guilds"] = t]
            /\ thread' = [thread EXCEPT ![t].step = "removeMember", ![t].guild = n]
    /\ UNCHANGED <<serverVars, tasks, guildVars, channelVars, userVars, fault>>

RemoveMember_Leaves(t) ==  \* mutant: the user leaves, the member stays
    LET g == thread[t].event.guild
        u == thread[t].event.user
    IN
    /\ At(t, "removeMember") /\ Free(Obj(t).holder)
    /\ info' = [info EXCEPT ![u][g] = NoInfo]
    /\ holder' = [holder EXCEPT !["guilds"] = Null]
    /\ Return(t)
    /\ UNCHANGED <<serverVars, tasks, guildVars, channelVars, users, fault>>

\* waits for the guild, and takes a member it finds out of both lists: leave()
\* erases end() if the user has no entry for the guild.
RemoveMember(t) ==
    LET g == thread[t].event.guild
        u == thread[t].event.user
        found == u \in Obj(t).members
    IN
    /\ At(t, "removeMember") /\ Free(Obj(t).holder)
    /\ SetObj(t, [Obj(t) EXCEPT !.members = @ \ {u}])
    /\ info' = IF found THEN [info EXCEPT ![u][g] = NoInfo] ELSE info
    /\ fault' = IF found /\ info[u][g] = NoInfo THEN "noInfo" ELSE fault
    /\ holder' = [holder EXCEPT !["guilds"] = Null]
    /\ Return(t)
    /\ UNCHANGED <<serverVars, tasks, channelVars, users>>

Join_NoClear(t) ==  \* mutant: the roles of the entry are not cleared before those of the payload come in
    LET e == thread[t].event IN
    /\ At(t, "join") /\ Uses(t) /\ Free(Obj(t).holder)
    /\ \E u \in thread[t].todo :
        /\ SetObj(t, [Obj(t) EXCEPT !.members = @ \cup {u}])
        /\ users' = [users EXCEPT ![u] = "named"]
        /\ info' = [info EXCEPT ![u][e.guild] = @ \cup e.load.members[u]]
        /\ IF thread[t].todo = {u} THEN Return(t)
           ELSE thread' = [thread EXCEPT ![t].todo = @ \ {u}]
    /\ UNCHANGED <<serverVars, tasks, channelVars, holder, fault>>

Join_NoEntry(t) ==  \* mutant: the member enters the guild, the user gets no entry
    /\ At(t, "join") /\ Uses(t) /\ Free(Obj(t).holder)
    /\ SetObj(t, [Obj(t) EXCEPT !.members = @ \cup thread[t].todo])
    /\ Return(t)
    /\ UNCHANGED <<serverVars, tasks, channelVars, userVars, holder, fault>>

\* One member of the payload: user_create, then _load_nolock with both mutexes.
Join(t) ==
    LET e == thread[t].event
        named == e.kind # "PRESENCE_UPDATE"
    IN
    /\ At(t, "join") /\ Uses(t) /\ Free(Obj(t).holder)
    /\ \E u \in thread[t].todo :
        /\ SetObj(t, [Obj(t) EXCEPT !.members = @ \cup {u}])
        /\ users' = [users EXCEPT ![u] = IF named THEN "named" ELSE Made(u)]
        /\ info' = [info EXCEPT ![u][e.guild] = e.load.members[u]]
        /\ IF thread[t].todo = {u} THEN Return(t)
           ELSE thread' = [thread EXCEPT ![t].todo = @ \ {u}]
    /\ UNCHANGED <<serverVars, tasks, channelVars, holder, fault>>

\* The author of a message in a known channel: an unknown or nameless user is
\* loaded.  A channel without a guild id is taken for a private one.
Message(t) ==
    LET u == thread[t].event.user
        private == thread[t].event.kind = "MESSAGE_CREATE" /\ ~Chan(t).known
        loads == ~private /\ Chan(t).guild # 0 /\ users[u] # "named"
    IN
    /\ At(t, "message") /\ Uses(t)
    /\ fault' = IF private /\ users[u] = "none" THEN "null" ELSE fault
    /\ users' = IF loads THEN [users EXCEPT ![u] = "named"] ELSE users
    /\ IF loads
       THEN thread' = [thread EXCEPT ![t].step = "add", ![t].guild = Chan(t).guild]
       ELSE Return(t)
    /\ UNCHANGED <<serverVars, tasks, guildVars, channelVars, info, holder>>

\* _load_nolock with guild_lock: _add_member and _join lock one after the other.
Add(t) ==
    /\ At(t, "add") /\ Uses(t) /\ Free(Obj(t).holder)
    /\ SetObj(t, [Obj(t) EXCEPT !.members = @ \cup {thread[t].event.user}])
    /\ Goto(t, "joinUser")
    /\ UNCHANGED <<serverVars, tasks, channelVars, userVars, holder, fault>>

JoinUser(t) ==
    LET e == thread[t].event IN
    /\ At(t, "joinUser") /\ Uses(t)
    /\ info' = [info EXCEPT ![e.user][e.guild] = e.load.members[e.user]]
    /\ Return(t)
    /\ UNCHANGED <<serverVars, tasks, guildVars, channelVars, users, holder, fault>>

\* _load_role: no mutex is taken.
LoadRole(t) ==
    /\ At(t, "loadRole") /\ Uses(t)
    /\ SetObj(t, [Obj(t) EXCEPT !.roles = @ \cup {thread[t].event.role}])
    /\ Return(t)
    /\ UNCHANGED <<serverVars, tasks, channelVars, userVars, holder, fault>>

\* _remove_role takes the role out of a copy of the members' entries, and makes
\* the entries that are missing.
RemoveRole(t) ==
    LET g == thread[t].event.guild IN
    /\ At(t, "removeRole") /\ Uses(t) /\ Free(Obj(t).holder)
    /\ SetObj(t, [Obj(t) EXCEPT !.roles = @ \ {thread[t].event.role}])
    /\ info' = [u \in Users |-> IF u \in Obj(t).members /\ info[u][g] = NoInfo
                                THEN [info[u] EXCEPT ![g] = {}] ELSE info[u]]
    /\ Return(t)
    /\ UNCHANGED <<serverVars, tasks, channelVars, users, holder, fault>>

-----------------------------------------------------------------------------
FirstServer == [joined |-> TRUE,
                members |-> [u \in Users |-> IF u \in FirstMembers THEN {} ELSE NoInfo],
                channels |-> {}, roles |-> FirstRoles]

\* The bot has just identified: the events of its greeting are posted.
Init ==
    /\ server = [g \in Guilds |->
                    [FirstServer EXCEPT !.channels = {c \in FirstChannels : GuildOf[c] = g}]]
    /\ link = TRUE
    /\ events = 0 /\ kicks = 0 /\ outages = 0
    /\ gone = {}
    /\ tasks = Greeting
    /\ thread = [t \in Threads |-> Idle]
    /\ guilds = {}
    /\ staleGuilds = [g \in Guilds |-> 0]
    /\ guildObj = [g \in Guilds |-> <<>>]
    /\ channels = {}
    /\ staleChannels = [c \in Channels |-> 0]
    /\ channelObj = [c \in Channels |-> <<>>]
    /\ users = [u \in Users |-> "none"]
    /\ info = [u \in Users |-> [g \in Guilds |-> NoInfo]]
    /\ holder = [m \in {"guilds", "channels"} |-> Null]
    /\ fault = "none"

Quiet == tasks = <<>> /\ \A t \in Threads : thread[t] = Idle

\* Nothing is left to do, or undefined behaviour has ended the program.
Terminated ==
    /\ (Quiet /\ events = MaxEvents) \/ fault # "none"
    /\ UNCHANGED vars

Run(t) ==
    \/ Take(t) \/ Ready(t) \/ Create(t) \/ Find(t)
    \/ Load(t) \/ NextChannel(t) \/ LoadChannel(t) \/ Loaded(t) \/ Mark(t) \/ RemoveGuild(t)
    \/ CreateChannel(t) \/ FindChannel(t) \/ Link(t) \/ Update(t)
    \/ LockChannel(t) \/ Erase(t)
    \/ LockGuilds(t) \/ RemoveMember(t) \/ Join(t)
    \/ Message(t) \/ Add(t) \/ JoinUser(t) \/ LoadRole(t) \/ RemoveRole(t)

ServerChanges ==
    \/ LoseSession \/ NewSession
    \/ \E g \in Guilds : Invite(g)
    \/ \E g \in Joined :
          \/ Kick(g) \/ ChangeGuild(g)
          \/ \E c \in Channels : ChangeChannel(g, c)
          \/ \E u \in Users : ChangeMember(g, u) \/ Activity(g, u)
          \/ \E r \in Roles : ChangeRole(g, r)

Next == ServerChanges \/ (\E t \in Threads : Run(t)) \/ Terminated

Spec == Init /\ [][Next]_vars

\* The threads of the io_context go on as long as there is work.
FairSpec == Spec /\ \A t \in Threads : WF_vars(Run(t))

-----------------------------------------------------------------------------
(* Properties.                                                             *)

Members(g) == {u \in Users : server[g].members[u] # NoInfo}

\* The object of a guild in the map.
Current(g) == guildObj[g][Len(guildObj[g])]

\* With one thread, and as long as no event was lost, the cache holds nothing the
\* server does not have: its guilds, members, roles and channels are those of the
\* server whenever all events are handled (ws_guild_*, ws_channel_*).
NothingExtra ==
    Quiet /\ outages = 0 =>
        /\ guilds = Joined
        /\ \A g \in Joined :
              /\ Current(g).members \subseteq Members(g)
              /\ Current(g).roles = server[g].roles
              /\ {c \in Channels : Current(g).channels[c] # 0} = server[g].channels

\* With one thread, even after events were lost with a session, everything the
\* server describes is in the cache once all events are handled: the members with
\* their roles, and every channel as the object of its id, tied to its guild.
Complete ==
    Quiet /\ link => \A g \in Joined :
        /\ g \in guilds
        /\ server[g].roles \subseteq Current(g).roles
        /\ \A u \in Members(g) \ Offline :
              /\ u \in Current(g).members
              /\ info[u][g] # NoInfo /\ info[u][g] \cap server[g].roles = server[g].members[u]
        /\ \A c \in server[g].channels :
              /\ c \in channels /\ Current(g).channels[c] = ChannelPtr(c)
              /\ channelObj[c][ChannelPtr(c)].known
              /\ channelObj[c][ChannelPtr(c)].guild = GuildPtr(g)

\* No handler dereferences nullptr or erases the end of a map, whatever the order in
\* which guilds, channels and users come and go.
NoFault == fault = "none"

\* The guild of a channel in the cache is still owned by the cache, in guilds or in
\* stale_guilds (core.hpp:549-550), and so are the pointers a handler holds.
PointersValid ==
    /\ \A t \in Threads : Uses(t) \/ thread[t].step = "remove"
    /\ \A c \in channels : LET n == channelObj[c][ChannelPtr(c)].guild IN
          n # 0 => GuildAlive(GuildOf[c], n)

\* A member of a guild has an entry for it (user.hpp:219-228 erases it unchecked),
\* unless its handler is between the two.
MembersHaveInfo ==
    \A g \in guilds : \A u \in Current(g).members :
        \/ info[u][g] # NoInfo
        \/ \E t \in Threads : /\ thread[t].step = "joinUser"
                             /\ thread[t].event.user = u /\ thread[t].event.guild = g

\* Every event is handled: no handlers wait for each other's mutexes for ever.
AllHandled == <>[]Quiet
=============================================================================
