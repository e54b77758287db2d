-------------------------------- MODULE Api --------------------------------
(***************************************************************************)
(* A call of the library's API from the check of the bot's permissions in  *)
(* the cache to the outcome of its future: the caller reads guild, member  *)
(* and channel in several steps (guild.cpp:210-335), the gateway's events  *)
(* change them meanwhile, the request is posted to a pool thread           *)
(* (ratelimit.hpp:86-130) and the server decides by what it holds then.    *)
(*                                                                         *)
(* One guild with the channel Main, a channel for each call that creates   *)
(* one, a private channel, and a channel the cache does not know.  Events  *)
(* are handled one at a time and in order; the module Cache is about the   *)
(* other orders.                                                           *)
(***************************************************************************)
EXTENDS Requests, Sequences, FiniteSets

CONSTANTS
    Callers,      \* application threads, one call each
    Guild,        \* the id of the guild, which is that of its role everyone
    Self, Other,  \* the bot and another user
    Roles,        \* the ids of the other roles
    Asked,        \* the ways of calling that are tried: a subset of Rows
    Masks,        \* the masks the server gives to roles
    Overwrites,   \* the overwrites it gives to ids: records [allow, deny] of masks
    MaxChanges,   \* bound: changes the server makes by itself
    WriterFirst   \* whether a waiting writer stops new readers of a shared_mutex

ASSUME ApiAssumption ==
    /\ Asked \subseteq Rows
    /\ \A p \in Masks : p \subseteq Bit
    /\ \A o \in Overwrites : o.allow \subseteq Bit /\ o.deny \subseteq Bit
    /\ Guild \notin Roles /\ Self # Other /\ {Self, Other} \cap (Roles \cup {Guild}) = {}
    /\ "main" \notin Callers /\ MaxChanges \in Nat /\ WriterFirst \in BOOLEAN

VARIABLES
    server,    \* the guild as the server has it
    cache,     \* the guild as the cache has it
    events,    \* events on their way from the server to the cache
    waiting,   \* the gateway's handler waits for the guild's mutex
    readers,   \* callers that hold the guild's mutex shared
    private,   \* the private channel is known (user::dm_id)
    late,      \* channels a reply put into the cache after their deletion
    changes,   \* changes made so far
    call       \* per caller, its call

vars == <<server, cache, events, waiting, readers, private, late, changes, call>>

(* The channels: Main, and the one each caller's create_..._channel would make. *)
Main == "main"
Channels == {Main} \cup Callers
RoleIds == Roles \cup {Guild}

(* get_permissions with two ids, the one query that locks the guild for its whole length. *)
Query == [Open EXCEPT !.of = "ids", !.reply = "permission"]

NoCall == [row |-> Open, target |-> "guild", stage |-> "idle", mask |-> {}, todo |-> {},
           ever |-> {}, always |-> {}, met |-> 0, torn |-> FALSE, quiet |-> TRUE, opening |-> FALSE,
           code |-> "none", result |-> "none"]

(* What the cache would answer for a target where the bot's entry names these roles. *)
MaskBy(guild, held, target) ==
    LET base == BasePermissions(guild, Self, {held})
    IN  IF target = "guild" THEN base
        ELSE ComputeOverwrites(base, guild, Self, {guild.held}, guild.over)

Mask(guild, target) == MaskBy(guild, guild.held, target)

(* If a role that is gone counted for nothing: the cache lets it take all the others away. *)
MaskOfRest(guild, target) == MaskBy(guild, guild.held \cap DOMAIN guild.roles, target)

(* What the server would answer now, by the rule. *)
ServerGrants(target, b) ==
    LET admin == HasBase(server, {server.held}, Admin)
    IN  \/ server.owner = Self
        \/ admin
        \/ target = "guild" /\ HasBase(server, {server.held}, b)
        \/ target = "channel" /\ Granted(server, Self, {server.held}, server.over, b)
        \/ target = "private"

(* A message is one of Main, or of the private channel. *)
OfMain(row, target) ==
    \/ target = "channel"
    \/ row.reply = "message" /\ target = "guild" /\ ~row.opens

Permits(row, target) ==
    /\ OfMain(row, target) => Main \in server.channels
    /\ row.of = "nobody" \/ \A b \in row.needs : ServerGrants(target, b)
    /\ row.owner => server.owner = Self

-----------------------------------------------------------------------------
(* The server's changes and the events they send.  user::_load_nolock puts everyone's
   role into every entry it writes. *)

Send(e) == events' = Append(events, e)

(* A map with one entry written, over the one that is there if there is one. *)
With(map, i, value) == [j \in DOMAIN map \cup {i} |-> IF j = i THEN value ELSE map[j]]

(* What a caller holds in its hands is behind as soon as the server changes. *)
Disturbed == [c \in Callers |-> [call[c] EXCEPT !.quiet = FALSE]]

(* Changes are of interest until the last call has ended. *)
ServerChange(e, new) ==
    /\ changes < MaxChanges /\ \E c \in Callers : call[c].stage # "done"
    /\ changes' = changes + 1
    /\ server' = new /\ Send(e) /\ call' = Disturbed
    /\ UNCHANGED <<cache, waiting, readers, private, late>>

ChangeRole(r, p) ==
    /\ r \in DOMAIN server.roles /\ p # server.roles[r]
    /\ ServerChange([kind |-> "role", id |-> r, mask |-> p],
                    [server EXCEPT !.roles[r] = p])

DeleteRole(r) ==
    /\ r \in DOMAIN server.roles \ {Guild}
    /\ ServerChange([kind |-> "drop", id |-> r],
                    [server EXCEPT !.roles = [i \in DOMAIN @ \ {r} |-> @[i]],
                                   !.held = @ \ {r},
                                   !.over = [i \in DOMAIN @ \ {r} |-> @[i]]])

ChangeMember(H) ==
    /\ H \in SUBSET (DOMAIN server.roles \ {Guild}) /\ H \cup {Guild} # server.held
    /\ ServerChange([kind |-> "member", held |-> H \cup {Guild}],
                    [server EXCEPT !.held = H \cup {Guild}])

ChangeOverwrite(i, o) ==
    /\ ServerChange([kind |-> "over", over |-> With(server.over, i, o)],
                    [server EXCEPT !.over = With(@, i, o)])

DeleteChannel(ch) ==
    /\ ch \in server.channels
    /\ ServerChange([kind |-> "delete", id |-> ch], [server EXCEPT !.channels = @ \ {ch}])

ServerChanges ==
    \/ \E r \in RoleIds, p \in Masks : ChangeRole(r, p)
    \/ \E r \in Roles : DeleteRole(r)
    \/ \E H \in SUBSET Roles : ChangeMember(H)
    \/ \E i \in RoleIds \cup {Self}, o \in Overwrites : ChangeOverwrite(i, o)
    \/ \E ch \in Channels : DeleteChannel(ch)

-----------------------------------------------------------------------------
(* The gateway's handlers, on one thread. *)

(* _load_role takes no lock; CHANNEL_UPDATE takes the channel's; the others want the
   guild's mutex for themselves. *)
Locks(e) == e.kind \in {"drop", "member", "create", "delete"}

(* A writer that finds readers waits. *)
WaitForGuild ==
    /\ events # <<>> /\ Locks(Head(events)) /\ readers # {} /\ ~waiting
    /\ waiting' = TRUE
    /\ UNCHANGED <<server, cache, events, readers, private, late, changes, call>>

(* guild::_remove_role erases the role and edits copies of its members' entries. *)
RemoveRole(r) == [cache EXCEPT !.roles = [i \in DOMAIN @ \ {r} |-> @[i]]]

\* mutant: a channel a reply has made already is left as it is
CreateChannel_Known(ch) == IF ch \in cache.known THEN cache
                           ELSE [cache EXCEPT !.known = @ \cup {ch}, !.listed = @ \cup {ch},
                                              !.linked = @ \cup {ch}]

CreateChannel(ch) == [cache EXCEPT !.known = @ \cup {ch}, !.listed = @ \cup {ch},
                                   !.linked = @ \cup {ch}]

(* core::ws_channel_delete returns early for a channel it does not find. *)
RemoveChannel(ch) == [cache EXCEPT !.known = @ \ {ch}, !.listed = @ \ {ch},
                                   !.linked = @ \ {ch}]

After(e) ==
    CASE e.kind = "role"   -> [cache EXCEPT !.roles = With(@, e.id, e.mask)]
      [] e.kind = "drop"   -> RemoveRole(e.id)
      [] e.kind = "member" -> [cache EXCEPT !.held = e.held]
      [] e.kind = "over"   -> [cache EXCEPT !.over = e.over]
      [] e.kind = "create" -> CreateChannel(e.id)
      [] e.kind = "delete" -> RemoveChannel(e.id)

(* A call whose check is under way has met the event.  `ever' has the bits that the roles
   granted at some moment of the check, `always' those the cache granted at every one. *)
Met(c, e) ==
    IF call[c].stage \notin {"base", "entry", "role", "over"} THEN call[c]
    ELSE [call[c] EXCEPT !.met = IF e.kind \in {"role", "drop"} THEN @ + 1 ELSE @,
                         !.torn = @ \/ e.kind \in {"member", "over"},
                         !.ever = @ \cup MaskOfRest(After(e), call[c].target),
                         !.always = @ \cap Mask(After(e), call[c].target)]

HandleEvent ==
    /\ events # <<>>
    /\ LET e == Head(events)
       IN  /\ Locks(e) => readers = {}
           /\ cache' = After(e)
           /\ call' = [c \in Callers |-> Met(c, e)]
    /\ events' = Tail(events) /\ waiting' = FALSE
    /\ UNCHANGED <<server, readers, private, late, changes>>

-----------------------------------------------------------------------------
(* The caller's thread. *)

(* shared_mutex::lock_shared of the guild's mutex. *)
CanRead == ~(WriterFirst /\ waiting)

At(c, stage) == call[c].stage = stage

Set(c, r) == call' = [call EXCEPT ![c] = r]

Step(c, stage) == [call[c] EXCEPT !.stage = stage]

(* What the check computed is forgotten with the check. *)
Leaving(c, stage) ==
    [Step(c, stage) EXCEPT !.mask = {}, !.todo = {}, !.ever = {}, !.always = {}, !.met = 0, !.torn = FALSE]
Ended(c, result) == [Leaving(c, "done") EXCEPT !.result = result]

(* Where the reading of the base ends: a guild's call decides by it, a channel's goes on
   to the overwrites. *)
Based(c, mask) ==
    [Step(c, IF call[c].target = "guild" THEN "decide" ELSE "over") EXCEPT
        !.mask = mask, !.todo = {}]

AskedAs(c, row, target) ==
    [NoCall EXCEPT !.row = row, !.target = target,
        !.ever = MaskOfRest(cache, target), !.always = Mask(cache, target),
        !.quiet = /\ events = <<>> /\ cache.held \subseteq DOMAIN cache.roles
                  /\ OfMain(row, target) => Main \in cache.known]

(* A call that looks at no permissions fails by itself or posts its request;
   create_dm_message posts the opening of the private channel first. *)
Unchecked(c, row, target) ==
    /\ \/ row.of = "nobody" /\ target = "guild"
       \/ row.of = "channel" /\ row.alone = "send" /\ target = "private"
    /\ Set(c, IF row.fails # "no"
              THEN [AskedAs(c, row, target) EXCEPT !.stage = "done", !.result = row.fails]
              ELSE [AskedAs(c, row, target) EXCEPT
                       !.stage = "posted", !.opening = row.opens /\ ~private])
    /\ UNCHANGED readers

(* What a call on a channel without a guild, or on one the cache does not have, comes to
   when it is not sent. *)
Stranded(c, row, target) ==
    /\ \/ target = "unknown"
       \/ target = "private" /\ row.of = "channel" /\ row.alone # "send"
    /\ Set(c, [AskedAs(c, row, target) EXCEPT !.stage = "done",
                  !.result = IF target = "unknown" THEN row.unknown ELSE row.alone])
    /\ UNCHANGED readers

Checked(c, row, target) ==
    /\ row.of = target
    /\ Set(c, [AskedAs(c, row, target) EXCEPT !.stage = "base"])
    /\ UNCHANGED readers

(* get_permissions with ids takes the guild's mutex, which get_role takes again, unless the
   channel is gone. *)
Queried(c) ==
    /\ CanRead
    /\ IF Main \in cache.listed
       THEN /\ readers' = readers \cup {c}
            /\ Set(c, [AskedAs(c, Query, "channel") EXCEPT !.stage = "base"])
       ELSE /\ Set(c, [AskedAs(c, Query, "channel") EXCEPT
                          !.stage = "done", !.result = "value"])
            /\ UNCHANGED readers

Begin(c) ==
    /\ At(c, "idle")
    /\ \/ \E row \in Asked :
            \/ \E target \in {"guild", "private"} : Unchecked(c, row, target)
            \/ \E target \in {"private", "unknown"} :
                 (target = "unknown" => row.unknown # "-") /\ Stranded(c, row, target)
            \/ \E target \in {"guild", "channel"} : Checked(c, row, target)
       \/ Queried(c)
    /\ UNCHANGED <<server, cache, events, waiting, private, late, changes>>

Reading(c, r) ==
    /\ Set(c, r)
    /\ UNCHANGED <<server, cache, events, waiting, readers, private, late, changes>>

(* base_permissions: the owner, everyone's role, *)
ReadBase(c) ==
    /\ At(c, "base")
    /\ cache.owner # Self => CanRead
    /\ Reading(c, IF cache.owner = Self THEN Based(c, Bit)
                  ELSE [Step(c, "entry") EXCEPT !.mask = cache.roles[Guild]])

(* the roles the bot's entry names, as they are now, *)
ReadEntry(c) ==
    /\ At(c, "entry")
    /\ Reading(c, [Step(c, "role") EXCEPT !.todo = cache.held])

\* mutant: an administrator is not given every bit
ReadRole_NoAdmin(c) ==
    /\ At(c, "role")
    /\ \/ \E r \in call[c].todo :
            CanRead /\ Reading(c,
                IF r \notin DOMAIN cache.roles THEN Based(c, {})
                ELSE [call[c] EXCEPT !.mask = @ \cup cache.roles[r], !.todo = @ \ {r}])
       \/ call[c].todo = {} /\ Reading(c, Based(c, call[c].mask))

(* and each of them, in the order of the vector; a role that is gone throws. *)
ReadRole(c) ==
    /\ At(c, "role")
    /\ \/ \E r \in call[c].todo :
            CanRead /\ Reading(c,
                IF r \notin DOMAIN cache.roles THEN Based(c, {})
                ELSE [call[c] EXCEPT !.mask = @ \cup cache.roles[r], !.todo = @ \ {r}])
       \/ /\ call[c].todo = {}
          /\ Reading(c, Based(c, IF Admin \in call[c].mask THEN Bit ELSE call[c].mask))

(* compute_overwrites looks the entry up again. *)
ReadOverwrites(c) ==
    /\ At(c, "over")
    /\ LET mask == ComputeOverwrites(call[c].mask, cache, Self, {cache.held}, cache.over)
       IN  Set(c, [Step(c, "decide") EXCEPT !.mask = mask])
    /\ UNCHANGED <<server, cache, events, waiting, readers, private, late, changes>>

Sufficient(c) ==
    /\ call[c].row.needs \subseteq call[c].mask
    /\ call[c].row.owner => cache.owner = Self

\* mutant: the mutex is kept where the call is refused
Decide_KeepsMutex(c) ==
    /\ At(c, "decide")
    /\ Set(c, IF call[c].row.of = "ids" THEN Ended(c, "value")
              ELSE IF ~Sufficient(c) THEN Ended(c, "no_permission")
              ELSE IF call[c].row.fails # "no" THEN Ended(c, call[c].row.fails)
              ELSE Leaving(c, "posted"))
    /\ UNCHANGED <<server, cache, events, waiting, readers, private, late, changes>>

(* The call is refused, fails by itself or is posted; the query returns what it found and
   lets go of the mutex. *)
Decide(c) ==
    /\ At(c, "decide")
    /\ Set(c, IF call[c].row.of = "ids" THEN Ended(c, "value")
              ELSE IF ~Sufficient(c) THEN Ended(c, "no_permission")
              ELSE IF call[c].row.fails # "no" THEN Ended(c, call[c].row.fails)
              ELSE Leaving(c, "posted"))
    /\ readers' = readers \ {c}
    /\ UNCHANGED <<server, cache, events, waiting, private, late, changes>>

-----------------------------------------------------------------------------
(* The pool thread that performs the request, and the server behind it. *)

(* The server carries a permitted request out and answers with or without a content; a
   reply may get lost on the way (rest_controller.cpp:173). *)
Served(c, code) == Set(c, [Step(c, "served") EXCEPT !.code = code])

Perform(c) ==
    /\ At(c, "posted")
    /\ \/ /\ Permits(call[c].row, call[c].target)
          /\ \E code \in {"content", "empty", "failed"} :
               (call[c].row.adopts => code # "empty") /\ Served(c, code)
          /\ IF call[c].row.adopts
             THEN /\ server' = [server EXCEPT !.channels = @ \cup {c}]
                  /\ Send([kind |-> "create", id |-> c])
             ELSE UNCHANGED <<server, events>>
       \/ /\ ~Permits(call[c].row, call[c].target)
          /\ Served(c, "denied")
          /\ UNCHANGED <<server, events>>
    /\ UNCHANGED <<cache, waiting, readers, private, late, changes>>

(* The constructors of message are noexcept and look the channel up, whether the reply had
   a content or not (message.hpp:76 and 102): one that is not found ends the program. *)
NoChannel(c) ==
    /\ call[c].row.reply = "message" /\ ~call[c].opening
    /\ \/ call[c].code = "empty"
       \/ call[c].row.opens /\ ~private
       \/ OfMain(call[c].row, call[c].target) /\ Main \notin cache.known

(* post_task: a plain rest_reply carries the code as a value, every other type throws for
   a code that is not 2xx. *)
Outcome(c) ==
    IF call[c].row.reply = "rest_reply" THEN "value"
    ELSE IF call[c].code \notin {"content", "empty"} THEN "error"
    ELSE IF NoChannel(c) THEN "terminate" ELSE "value"

(* The continuation of create_..._channel makes the channel known and linked, without a
   mutex and without entering it in the guild's table (guild.cpp:662-674). *)
Adopt(c) ==
    /\ cache' = [cache EXCEPT !.known = @ \cup {c}, !.linked = @ \cup {c}]
    /\ late' = IF c \in server.channels
                  \/ \E i \in DOMAIN events : events[i].kind = "delete" /\ events[i].id = c
               THEN late ELSE late \cup {c}

\* mutant: the private channel is not made before the message is sent
Finish_NotMade(c) ==
    /\ At(c, "served")
    /\ Set(c, IF call[c].opening /\ Outcome(c) = "value"
              THEN [Step(c, "posted") EXCEPT !.opening = FALSE, !.code = "none"]
              ELSE Ended(c, Outcome(c)))
    /\ IF call[c].row.adopts /\ call[c].code = "content"
       THEN Adopt(c) ELSE UNCHANGED <<cache, late>>
    /\ UNCHANGED <<server, events, waiting, readers, private, changes>>

(* create_dm_message goes on with the message once the private channel is open. *)
Finish(c) ==
    /\ At(c, "served")
    /\ IF call[c].opening /\ Outcome(c) = "value"
       THEN /\ private' = TRUE
            /\ Set(c, [Step(c, "posted") EXCEPT !.opening = FALSE, !.code = "none"])
       ELSE UNCHANGED private /\ Set(c, Ended(c, Outcome(c)))
    /\ IF call[c].row.adopts /\ call[c].code = "content"
       THEN Adopt(c) ELSE UNCHANGED <<cache, late>>
    /\ UNCHANGED <<server, events, waiting, readers, changes>>

-----------------------------------------------------------------------------
Init ==
    /\ \E owner \in {Self, Other}, p \in Masks :
         LET roles == [r \in RoleIds |-> p]
         IN  /\ server = [id |-> Guild, owner |-> owner, roles |-> roles,
                          held |-> RoleIds, over |-> <<>>, channels |-> {Main}]
             /\ cache = [id |-> Guild, owner |-> owner, roles |-> roles, held |-> RoleIds,
                         over |-> <<>>, known |-> {Main}, listed |-> {Main},
                         linked |-> {Main}]
    /\ events = <<>> /\ waiting = FALSE /\ readers = {} /\ private = FALSE
    /\ late = {} /\ changes = 0
    /\ call = [c \in Callers |-> NoCall]

Caller(c) ==
    \/ Begin(c) \/ ReadBase(c) \/ ReadEntry(c) \/ ReadRole(c) \/ ReadOverwrites(c)
    \/ Decide(c) \/ Perform(c) \/ Finish(c)

Gateway == WaitForGuild \/ HandleEvent

Next == ServerChanges \/ Gateway \/ \E c \in Callers : Caller(c)

Spec == Init /\ [][Next]_vars

(* Threads run: the handlers of the gateway and the steps of a call that has begun.  A
   pthread rwlock gives a waiting writer its turn once the readers have gone. *)
FairSpec ==
    /\ Spec /\ WF_vars(Gateway)
    /\ \A c \in Callers : WF_vars(Caller(c) /\ ~At(c, "idle"))

-----------------------------------------------------------------------------
(* What a check computes while roles change under it, one lock at a time, is nothing the
   bot never had: it grants no bit that its roles granted at no moment of the check; and
   with a single change of a role it withholds none that was granted throughout.  A change
   of the bot's own entry or of the overwrites may be read by halves (guild.cpp:238 and
   287). *)
BetweenViews ==
    \A c \in Callers :
        At(c, "decide") /\ ~call[c].torn =>
            /\ call[c].mask \subseteq call[c].ever
            /\ call[c].met <= 1 => call[c].always \subseteq call[c].mask

(* Where the cache was up to date when a call began, no deleted role was left in the bot's
   entry and the server did not change before it served the call, the check and the server
   agree: a call refused locally would have been refused, and a call let through is not
   (guild.cpp:228-335 against the rule of the server). *)
DecidesLikeServer ==
    \A c \in Callers : call[c].quiet =>
        /\ call[c].code # "denied"
        /\ call[c].result = "no_permission" /\ call[c].row.fails # "no_permission" =>
             ~Permits(call[c].row, call[c].target)

(* Once the events are handled and the replies have come, the cache has the channels the
   server has, each linked to the guild and in its table, whichever of the reply of a
   create_..._channel and its CHANNEL_CREATE came first - and besides them only channels
   whose reply came after their CHANNEL_DELETE (guild.cpp:662). *)
ChannelsSettle ==
    events = <<>> /\ (\A c \in Callers : call[c].row.adopts => ~At(c, "served")) =>
        /\ cache.known \ late = server.channels
        /\ cache.listed = cache.known \ late
        /\ cache.linked = cache.known

(* Every call comes to an end and every event is handled, except where a handler that
   wants the guild's mutex came between the two times get_permissions takes it shared
   (guild.cpp:212 and 330). *)
Nested == waiting /\ \E c \in readers : call[c].stage \in {"base", "role"}
Answered ==
    /\ \A c \in Callers : ~At(c, "idle") ~> (At(c, "done") \/ Nested)
    /\ (events # <<>>) ~> (events = <<>> \/ Nested)

(* No call ends the program - by an exception that leaves a function declared noexcept -
   but a message whose channel was deleted before its reply came or whose reply was empty
   (message.hpp:76 and 102), and core::create_message for a private channel
   (core.cpp:2231).  A private channel opened on the way is found in time. *)
NoTerminate ==
    \A c \in Callers : call[c].result = "terminate" =>
        \/ call[c].row.alone = "terminate" /\ call[c].target = "private"
        \/ call[c].row.reply = "message" /\ (call[c].code = "empty" \/ Main \notin cache.known)

=============================================================================
