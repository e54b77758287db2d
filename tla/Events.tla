-------------------------------- MODULE Events --------------------------------
(***************************************************************************)
(* One gateway event from the moment its handler is posted                 *)
(* (core.cpp:842-880) to the end of the handler: what the handler looks    *)
(* up, what it changes, how the cache's reading and the conversion of its  *)
(* payload end and which of the two callbacks the user set it calls.       *)
(* Cache has the changes themselves and their interleavings; here they are *)
(* one flag, and the payload, the callbacks and the failures are in the    *)
(* foreground.  The same machine copies objects through to_json and        *)
(* from_json.  Payloads gives the parameters their values.                 *)
(***************************************************************************)
EXTENDS Sequences, Classes

CONSTANTS
    Jobs,           \* the events with their payloads, and the objects to be copied
    Payload(_),     \* the JSON text that comes with an event
    Loading(_, _),  \* what the cache's own reading of a payload comes to
    Reading(_)      \* what the conversion of a payload, or the copy, comes to

Ids(keys) == One(keys, "id", "needed", "never")

(***************************************************************************)
(* A handler: the rows its event object is converted by, whether it has    *)
(* changed the cache by then, and what it does when the guild (of a        *)
(* private message, the author) is not in the cache:                       *)
(*   "made"     creates it, or needs none;                                 *)
(*   "silent"   returns;         "rawOnly"  calls the raw callback first;  *)
(*   "throws"   throws;          "faults"   uses the null pointer.         *)
(***************************************************************************)
Handler(rows, changes, unknown) ==
    [rows |-> rows, changes |-> changes, unknown |-> unknown]

MessageEvents ==
    [MESSAGE_CREATE |-> Handler(message, TRUE, "silent"),
     MESSAGE_CREATE_DM |-> Handler(message, FALSE, "faults"),
     MESSAGE_UPDATE |-> Handler(message, TRUE, "throws")]

Deletion == One({"id"}, "plain", "needed", "never")
BulkDeletion == Ids({"channel_id", "guild_id"})
                @@ Rows({"ids"}, "id", TRUE, "needed", "never")
DeletionEvents ==
    [MESSAGE_DELETE |-> Handler(Deletion, TRUE, "made"),
     MESSAGE_DELETE_BULK |-> Handler(BulkDeletion, FALSE, "made")]

Typing == One({"timestamp"}, "plain", "needed", "never")
TypingEvents == [TYPING_START |-> Handler(Typing, TRUE, "made")]

Reaction == Ids({"user_id", "channel_id", "message_id"})
            @@ One({"guild_id"}, "id", "given", "never")
            @@ One({"emoji"}, "emoji", "needed", "never")
AllReactions == Ids({"channel_id", "message_id", "guild_id"})
ReactionEvents ==
    [MESSAGE_REACTION_ADD |-> Handler(Reaction, FALSE, "made"),
     MESSAGE_REACTION_REMOVE |-> Handler(Reaction, FALSE, "made"),
     MESSAGE_REACTION_REMOVE_ALL |-> Handler(AllReactions, FALSE, "made")]

ChannelEvents ==
    [CHANNEL_CREATE |-> Handler(channel, TRUE, "silent"),
     CHANNEL_UPDATE |-> Handler(channel, TRUE, "silent"),
     CHANNEL_DELETE |-> Handler(channel, TRUE, "silent")]
Pins == Ids({"channel_id"}) @@ One({"last_pin_timestamp"}, "plain", "given", "never")
Webhooks == Ids({"guild_id", "channel_id"})
NoticeEvents ==
    [CHANNEL_PINS_UPDATE |-> Handler(Pins, FALSE, "made"),
     WEBHOOKS_UPDATE |-> Handler(Webhooks, FALSE, "made")]

\* GUILD_DELETE changes the cache after its callbacks.
Departure == Ids({"id"}) @@ One({"unavailable"}, "plain", "bare", "never")
GuildEvents ==
    [GUILD_CREATE |-> Handler(guild, TRUE, "made"),
     GUILD_UPDATE |-> Handler(guild, TRUE, "rawOnly"),
     GUILD_DELETE |-> Handler(Departure, FALSE, "rawOnly")]
Emojis == Ids({"guild_id"}) @@ Rows({"emojis"}, "emoji", TRUE, "given", "never")
Integrations == Ids({"guild_id"})
InventoryEvents ==
    [GUILD_EMOJIS_UPDATE |-> Handler(Emojis, FALSE, "made"),
     GUILD_INTEGRATIONS_UPDATE |-> Handler(Integrations, FALSE, "made")]

AboutUser == Ids({"guild_id"}) @@ One({"user"}, "user", "needed", "never")
OfGuild == One({"user"}, "user", "needed", "never")
           @@ One({"guild_id"}, "id", "given", "never")
BanEvents ==
    [GUILD_BAN_ADD |-> Handler(AboutUser, FALSE, "made"),
     GUILD_BAN_REMOVE |-> Handler(AboutUser, FALSE, "made")]
MemberUpdate == OfGuild @@ One({"nick"}, "plain", "given", "never")
                @@ Rows({"roles"}, "id", TRUE, "given", "never")
MembersChunk == Ids({"guild_id"})
                @@ Rows({"members"}, "guild_member", TRUE, "given", "never")
MemberEvents ==
    [GUILD_MEMBER_ADD |-> Handler(guild_member, TRUE, "faults"),
     GUILD_MEMBER_REMOVE |-> Handler(OfGuild, TRUE, "made"),
     GUILD_MEMBER_UPDATE |-> Handler(MemberUpdate, TRUE, "rawOnly"),
     GUILD_MEMBERS_CHUNK |-> Handler(MembersChunk, TRUE, "silent")]
Presence == AboutUser @@ One({"game"}, "activity", "given", "never")
            @@ Rows({"roles"}, "role", TRUE, "given", "never")
UserEvents ==
    [PRESENCE_UPDATE |-> Handler(Presence, TRUE, "silent"),
     USER_UPDATE |-> Handler(user, TRUE, "made")]

AboutRole == Ids({"guild_id"}) @@ One({"role"}, "role", "needed", "never")
RoleDeletion == Ids({"guild_id", "role_id"})
RoleEvents ==
    [GUILD_ROLE_CREATE |-> Handler(AboutRole, TRUE, "faults"),
     GUILD_ROLE_UPDATE |-> Handler(AboutRole, TRUE, "faults"),
     GUILD_ROLE_DELETE |-> Handler(RoleDeletion, TRUE, "made")]

VoiceState ==
    One({"guild_id"}, "id", "given", "never") @@ Ids({"channel_id", "user_id"})
    @@ One({"session_id", "deaf", "mute", "self_deaf", "self_mute", "suppress"},
           "plain", "needed", "never")
    @@ One({"self_stream"}, "plain", "given", "never")
VoiceServer == Ids({"guild_id"}) @@ One({"token"}, "plain", "needed", "never")
               @@ One({"endpoint"}, "plain", "given", "never")
VoiceEvents ==
    [VOICE_STATE_UPDATE |-> Handler(VoiceState, TRUE, "made"),
     VOICE_SERVER_UPDATE |-> Handler(VoiceServer, FALSE, "made")]

Trace == Rows({"_trace"}, "plain", TRUE, "given", "never")
Greeting == One({"user"}, "user", "needed", "never")
            @@ Rows({"private_channels"}, "channel", TRUE, "given", "never")
            @@ Rows({"guilds"}, "guild", TRUE, "given", "never") @@ Trace
SessionEvents ==
    [READY |-> Handler(Greeting, TRUE, "made"),
     RESUMED |-> Handler(Trace, TRUE, "made")]

Tables == {MessageEvents, DeletionEvents, TypingEvents, ReactionEvents,
           ChannelEvents, NoticeEvents, GuildEvents, InventoryEvents, BanEvents,
           MemberEvents, UserEvents, RoleEvents, VoiceEvents, SessionEvents}
Event == [e \in UNION {DOMAIN t : t \in Tables} |->
             (CHOOSE t \in Tables : e \in DOMAIN t)[e]]

-----------------------------------------------------------------------------
VARIABLES
    job,        \* the event and its payload, or the object that is copied
    known,      \* the event's guild (author; in READY, the bot) is in the cache
    hook,       \* what the callbacks the user set do, once they are called
    stage,      \* where the handler is
    result,     \* what the conversion came to
    effect,     \* the event's change of the cache has been made, or begun
    told        \* the callbacks that were called
vars == <<job, known, hook, stage, result, effect, told>>

\* The events are those that setup_gateway names.
ASSUME JobsAssumption ==
    \A j \in Jobs : /\ j.kind \in {"event", "copy"}
                    /\ j.kind = "event" => j.name \in DOMAIN Event

\* A callback is not set, returns, throws, or asks the guild of the event
\* something, as any query of guild or member does, before it returns: either can
\* find the guild through the bot.  Which ones there are is drawn when they are due;
\* until then it is Undrawn.
RawHooks == {"none", "returns", "throws", "queries"}
TypedHooks == {"none", "returns", "throws", "queries"}
Hooks == [raw : RawHooks, typed : TypedHooks]
Undrawn == [raw |-> "any", typed |-> "any"]

InitEvent ==
    /\ job.kind = "event"
    /\ known \in BOOLEAN
    /\ stage = "posted"
InitCopy ==
    /\ job.kind = "copy"
    /\ known = TRUE
    /\ stage = "held"
Init ==
    /\ job \in Jobs
    /\ InitEvent \/ InitCopy
    /\ hook = Undrawn
    /\ result = "value"
    /\ effect = FALSE
    /\ told = <<>>

-----------------------------------------------------------------------------
(* The handler.                                                            *)

Now(s) == stage' = s

\* The payload was read, or an exception ends the handler and is logged (857-870);
\* from a noexcept function it ends the program; an undefined read may do anything.
Resumes(how, next) ==
    Now(CASE how = "value" -> next
          [] how = "throws" -> "caught"
          [] how = "terminates" -> "terminated"
          [] OTHER -> "fault")

\* The bot was shut down before the handler ran (844-845).
Drop ==
    /\ stage = "posted"
    /\ Now("dropped")
    /\ UNCHANGED <<job, known, hook, result, effect, told>>

\* GUILD_DELETE converts its payload before it looks the guild up.
ConvertsFirst == job.name = "GUILD_DELETE"
Begin ==
    /\ stage = "posted"
    /\ Now(IF ConvertsFirst THEN "convert" ELSE "lookup")
    /\ UNCHANGED <<job, known, hook, result, effect, told>>

\* A webhook's message is dropped (1310); a guild that becomes unavailable is in
\* an outage (1460).
Ignored(j) ==
    \/ j.name = "MESSAGE_CREATE" /\ Has(Payload(j), "webhook_id")
    \/ j.name = "GUILD_DELETE" /\ Has(Payload(j), "unavailable")

\* The channel of an update or a deletion is looked up by the guild's id, which
\* is read without asking (1711, 1747); one of no guild has no guild to be known.
Unasked(j) == /\ j.name \in {"CHANNEL_UPDATE", "CHANNEL_DELETE"}
              /\ ~Has(Payload(j), "guild_id")
InGuild(j) == /\ j.name \in {"CHANNEL_CREATE", "CHANNEL_UPDATE", "CHANNEL_DELETE"}
              => Given(Payload(j), "guild_id")
\* Only a message with its author and member needs the guild of its channel (1359).
AsksGuild(j) ==
    j.name = "MESSAGE_UPDATE" =>
        Has(Payload(j), "author") /\ Given(Payload(j), "member")
Unknown == ~known /\ InGuild(job) /\ AsksGuild(job)
\* Deleting a private channel leaves it in the cache (1747).
Changes(j) == Event[j.name].changes /\ (j.name = "CHANNEL_DELETE" => InGuild(j))

Lookup ==
    /\ stage = "lookup"
    /\ Now(IF Unasked(job) THEN "fault"
           ELSE IF Ignored(job) THEN "over"
           ELSE IF ~Unknown THEN "load"
           ELSE CASE Event[job.name].unknown = "made" -> "load"
                  [] Event[job.name].unknown = "silent" -> "over"
                  [] Event[job.name].unknown = "rawOnly" -> "rawOnly"
                  [] Event[job.name].unknown = "throws" -> "caught"
                  [] Event[job.name].unknown = "faults" -> "fault")
    /\ UNCHANGED <<job, known, hook, result, effect, told>>

\* The cache is changed key by key, as the payload is read: the change is there, in
\* part, when the reading fails.
Load ==
    /\ stage = "load"
    /\ effect' = Changes(job)
    /\ Resumes(Loading(job, known), IF ConvertsFirst THEN "raw" ELSE "convert")
    /\ UNCHANGED <<job, known, hook, result, told>>

Convert ==
    /\ stage = "convert"
    /\ result' = Reading(job)
    /\ Resumes(result', IF ConvertsFirst THEN "lookup" ELSE "raw")
    /\ UNCHANGED <<job, known, hook, effect, told>>

\* The callbacks the user set before run().
Draw ==
    /\ stage \in {"raw", "rawOnly"} /\ hook = Undrawn
    /\ hook' \in Hooks
    /\ UNCHANGED <<job, known, stage, result, effect, told>>

\* mutant: GUILD_MEMBERS_CHUNK keeps them too.
KeepsLocks_Chunk(e) == e \in {"GUILD_MEMBER_ADD", "GUILD_MEMBERS_CHUNK"}
\* GUILD_MEMBER_ADD keeps the mutexes of the member and of the guild to its end
\* (1852-1869): a query of either waits for the handler that calls it.
KeepsLocks(e) == e = "GUILD_MEMBER_ADD"
Returns(how) == how = "queries" => ~KeepsLocks(job.name)

\* mutant: without a raw callback the handler returns early.
CallRaw_OrReturn ==
    /\ stage \in {"raw", "rawOnly"} /\ hook # Undrawn
    /\ Returns(hook.raw)
    /\ told' = IF hook.raw = "none" THEN told ELSE Append(told, "raw")
    /\ Now(IF hook.raw = "throws" THEN "caught"
           ELSE IF stage = "rawOnly" \/ hook.raw = "none" THEN "over" ELSE "typed")
    /\ UNCHANGED <<job, known, hook, result, effect>>
CallRaw ==
    /\ stage \in {"raw", "rawOnly"} /\ hook # Undrawn
    /\ Returns(hook.raw)
    /\ told' = IF hook.raw = "none" THEN told ELSE Append(told, "raw")
    /\ Now(IF hook.raw = "throws" THEN "caught"
           ELSE IF stage = "rawOnly" THEN "over" ELSE "typed")
    /\ UNCHANGED <<job, known, hook, result, effect>>

\* mutant: without a typed callback the handler returns early.
CallTyped_OrReturn ==
    /\ stage = "typed"
    /\ Returns(hook.typed)
    /\ told' = IF hook.typed = "none" THEN told ELSE Append(told, "typed")
    /\ Now(IF hook.typed = "throws" THEN "caught"
           ELSE IF ConvertsFirst /\ hook.typed # "none" THEN "remove" ELSE "over")
    /\ UNCHANGED <<job, known, hook, result, effect>>
CallTyped ==
    /\ stage = "typed"
    /\ Returns(hook.typed)
    /\ told' = IF hook.typed = "none" THEN told ELSE Append(told, "typed")
    /\ Now(IF hook.typed = "throws" THEN "caught"
           ELSE IF ConvertsFirst THEN "remove" ELSE "over")
    /\ UNCHANGED <<job, known, hook, result, effect>>

\* The guild leaves the cache when both callbacks have returned (1490-1494).
RemoveGuild ==
    /\ stage = "remove"
    /\ effect' = TRUE
    /\ Now("over")
    /\ UNCHANGED <<job, known, hook, result, told>>

\* An object is written and the text read again.
Copy ==
    /\ stage = "held"
    /\ result' = Reading(job)
    /\ Now("copied")
    /\ UNCHANGED <<job, known, hook, effect, told>>

Ended == stage \in {"over", "dropped", "caught", "terminated", "fault", "copied"}
\* A callback that waits for its own handler's mutexes waits for ever.
Locked ==
    /\ job.name = "GUILD_MEMBER_ADD"
    /\ \/ stage = "raw" /\ hook.raw = "queries"
       \/ stage = "typed" /\ hook.typed = "queries"

Next == Drop \/ Begin \/ Lookup \/ Load \/ Convert \/ Draw \/ CallRaw
        \/ CallTyped \/ RemoveGuild \/ Copy
Spec == Init /\ [][Next]_vars
\* The handler runs to its end on one thread.
FairSpec == Spec /\ WF_vars(Begin \/ Lookup \/ Load \/ Convert \/ Draw
                           \/ CallRaw \/ CallTyped \/ RemoveGuild \/ Copy)

-----------------------------------------------------------------------------
(* Properties.                                                             *)

\* Handlers that change the cache and only then convert a key that may be null: a
\* member's joined_at, deaf or mute, an attachment's or an embed's type.
FailsLate == {"GUILD_MEMBER_ADD", "GUILD_MEMBERS_CHUNK", "GUILD_CREATE",
              "GUILD_UPDATE", "MESSAGE_CREATE", "MESSAGE_UPDATE", "READY"}

\* Handlers whose change of the cache may fail half-way, at a key it reads without
\* asking: a channel's nsfw or position, an overwrite's type, a status, a role's id,
\* a message's null author or, in the first READY, the bot's own name.  guild::_load
\* reads a member's status in a noexcept function.
FailsLoading(how) ==
    CASE how = "throws" ->
            {"CHANNEL_CREATE", "CHANNEL_UPDATE", "PRESENCE_UPDATE", "GUILD_CREATE",
             "GUILD_UPDATE", "MESSAGE_UPDATE", "READY"}
      [] how = "terminates" -> {"GUILD_CREATE", "GUILD_UPDATE"}
      [] how = "undefined" ->
            {"CHANNEL_CREATE", "CHANNEL_UPDATE", "PRESENCE_UPDATE", "GUILD_CREATE",
             "GUILD_UPDATE", "GUILD_ROLE_CREATE", "GUILD_ROLE_UPDATE", "READY"}
      [] OTHER -> {}

\* No other handler that has changed the cache fails to convert a payload, and
\* none converts a key that is not there (gateway/objects, gateway/events).
ASSUME ConversionAssumption ==
    \A j \in Jobs :
        j.kind = "event" /\ Changes(j) /\ ~Unasked(j) /\ ~Ignored(j) =>
            \/ Reading(j) = "value"
            \/ j.name \in FailsLate /\ Reading(j) = "throws"

\* No other handler fails to change the cache (channel.cpp:70-141, guild.cpp:97-142,
\* 369-521, user.cpp:37-103, core.cpp:688-743, 770-796).
ASSUME LoadingAssumption ==
    \A j \in Jobs, k \in BOOLEAN :
        j.kind = "event" =>
            Loading(j, k) = "value" \/ j.name \in FailsLoading(Loading(j, k))

SetHooks == (IF hook.raw = "none" THEN <<>> ELSE <<"raw">>)
            \o (IF hook.typed = "none" THEN <<>> ELSE <<"typed">>)

\* An event that changed the cache is told to both callbacks, the raw one first,
\* unless that one threw, or to neither: when one of seven handlers failed to
\* convert the payload after the change, or one of nine failed half-way through the
\* change (1207-2082).
ToldWhatChanged ==
    job.kind = "event" /\ Ended /\ effect =>
        \/ told = SetHooks
        \/ hook.raw = "throws" /\ told = <<"raw">>
        \/ told = <<>> /\
              \/ stage = "caught" /\ job.name \in FailsLate \cup FailsLoading("throws")
              \/ stage = "terminated" /\ job.name \in FailsLoading("terminates")
              \/ stage = "fault" /\ job.name \in FailsLoading("undefined")

\* A callback that throws costs the event nothing but the next callback: the
\* cache has what was told.  GUILD_DELETE alone removes the guild after its
\* callbacks and keeps it when one throws (1484-1494).
EffectDespiteHooks ==
    job.kind = "event" /\ Ended /\ told # <<>> /\ ~Unknown =>
        \/ effect
        \/ job.name # "GUILD_DELETE" /\ ~Event[job.name].changes
        \/ job.name = "CHANNEL_DELETE" /\ ~InGuild(job)
        \/ job.name = "GUILD_DELETE" /\ stage = "caught"

\* Every posted event is handled to its end, whatever its callbacks ask, but for
\* a query from a callback of GUILD_MEMBER_ADD (1852-1869).
Completes == <>(Ended \/ Locked)
=============================================================================
