------------------------------- MODULE Payloads -------------------------------
(***************************************************************************)
(* What the gateway sends with each event, what the conversion of each     *)
(* payload comes to, and the objects a bot makes and copies: the values    *)
(* of the parameters of Events.                                            *)
(***************************************************************************)
EXTENDS Naturals, Objects, Events

CONSTANTS
    Names,          \* the events considered
    Copied          \* the classes whose copies are considered

-----------------------------------------------------------------------------
(* A payload is the whole of what the peer sends, or lacks one key, or has *)
(* a null at one key, at the top or in one part.                           *)

Whole == [at |-> <<>>, how |-> "whole"]

\* What a payload has that only the loads read.
Loaded ==
    [PRESENCE_UPDATE |-> One({"status"}, "plain", "never", "never"),
     READY |-> One({"session_id"}, "plain", "needed", "never"),
     MESSAGE_CREATE |-> One({"member"}, "member", "given", "never"),
     MESSAGE_UPDATE |-> One({"member"}, "member", "given", "never")]
KeysOf(e) ==
    Event[e].rows @@ (IF e \in DOMAIN Loaded THEN Loaded[e] ELSE <<>>)

\* A key may be missing when its class asks for it first, or does not read it, and
\* the handler, which looks the event's subject up by it, does not need it.  Of a
\* channel that is in no guild the peer sends no guild_id.
Subject ==
    [MESSAGE_CREATE |-> {"author"}, MESSAGE_CREATE_DM |-> {"author"},
     GUILD_CREATE |-> {"id"}, GUILD_UPDATE |-> {"id"},
     GUILD_MEMBER_ADD |-> {"guild_id"}, GUILD_MEMBER_REMOVE |-> {"guild_id"},
     GUILD_MEMBER_UPDATE |-> {"guild_id"}, GUILD_MEMBERS_CHUNK |-> {"members"},
     VOICE_STATE_UPDATE |-> {"guild_id"}]
Private == {"CHANNEL_UPDATE", "CHANNEL_DELETE", "MESSAGE_REACTION_REMOVE_ALL"}
Optional(rows) == {k \in DOMAIN rows : rows[k].read \in {"given", "bare", "never"}}
OptionalOf(e) ==
    (Optional(KeysOf(e)) \ (IF e \in DOMAIN Subject THEN Subject[e] ELSE {}))
    \cup (IF e \in Private THEN {"guild_id"} ELSE {})

\* A presence always names its user.
OptionalIn(kind) == Optional(Class[kind]) \ (IF kind = "presence" THEN {"user"} ELSE {})
Parts(rows) == {k \in DOMAIN rows : rows[k].kind \in DOMAIN Class}
Oddities(e) ==
    LET rows == KeysOf(e)
        inner == UNION {{<<k, j>> : j \in OptionalIn(rows[k].kind)} : k \in Parts(rows)}
    IN  {Whole} \cup [at : {<<k>> : k \in OptionalOf(e)} \cup inner,
                      how : {"absent", "null"}]

Without(json, k) ==
    Object([j \in (DOMAIN json.f) \ {k} |-> json.f[j]])
Odd(json, k, how) ==
    IF json.t # "object" THEN json
    ELSE IF how = "absent" THEN Without(json, k)
    ELSE Object([json.f EXCEPT ![k] = Null])
OddPart(json, k, j, how) ==
    LET part == json.f[k]
    IN  Object([json.f EXCEPT ![k] =
            IF part.t = "array" THEN Array(<<Odd(part.s[1], j, how)>>)
            ELSE Odd(part, j, how)])

\* Most messages are no webhook's; one that is has the key.  A private channel has
\* a null for its guild.
ChannelNames == {"CHANNEL_CREATE", "CHANNEL_UPDATE", "CHANNEL_DELETE"}
Base(all, private) ==
    IF Has(all, "webhook_id") THEN Without(all, "webhook_id")
    ELSE IF private THEN Odd(all, "guild_id", "null")
    ELSE all
WithOddity(base, odd) ==
    CASE Len(odd.at) = 0 -> base
      [] Len(odd.at) = 1 -> Odd(base, odd.at[1], odd.how)
      [] Len(odd.at) = 2 -> OddPart(base, odd.at[1], odd.at[2], odd.how)
EventPayload(all, private, odd) ==
    IF odd.at # <<"webhook_id">> THEN WithOddity(Base(all, private), odd)
    ELSE IF odd.how = "null" THEN Odd(all, "webhook_id", "null")
    ELSE all

\* An object a bot may hold: everything set, all but one field, or one or two
\* fields; an activity is a game, a stream or something else.
FieldSets(C) ==
    LET all == DOMAIN Class[C]
    IN  {S \in SUBSET all : Cardinality(S) <= 2 \/ Cardinality(all \ S) <= 1}
Held(C, fields, type) ==
    [k \in DOMAIN Class[C] |->
        IF k \notin fields THEN <<>>
        ELSE IF C = "activity" /\ k = "type" THEN <<type>>
        ELSE FullAs(C)[1][k]]

Holdable(C) == FieldSets(C) \X {"Streaming", "Listening"}

\* What becomes of each object that is written and whose text is read again.
Copying(C, o) ==
    LET Reread(text) == IF text.is = "value" THEN Decode(C, text.of) ELSE text
    IN  Using(Encode(C, Held(C, o[1], o[2])), Reread)

-----------------------------------------------------------------------------
(* The parameters of Events.                                               *)

EventJobs ==
    UNION {[kind : {"event"}, name : {e}, odd : Oddities(e),
            private : IF e \in ChannelNames THEN BOOLEAN ELSE {FALSE}] : e \in Names}
CopyJobs == UNION {{[kind |-> "copy", name |-> C, object |-> o] : o \in Holdable(C)} :
                       C \in Copied}
AllJobs == EventJobs \cup CopyJobs

PayloadOfJob(j) ==
    LET Sent(all) == EventPayload(all, j.private, j.odd)
    IN  Using(PayloadOf(KeysOf(j.name)), Sent)

\* The rows the change of the cache reads the payload by; other changes read no
\* more than the ids the handler looks up.
LoadOf(j, k) ==
    CASE j.name \in {"CHANNEL_CREATE", "CHANNEL_UPDATE"} ->
            {IF InGuild(j) THEN "load_channel"
             ELSE IF j.name = "CHANNEL_CREATE" THEN "load_recipients" ELSE "load_dm"}
      [] j.name \in {"GUILD_CREATE", "GUILD_UPDATE"} -> {"load_guild"}
      [] j.name \in {"GUILD_MEMBER_ADD", "GUILD_MEMBER_UPDATE"} -> {"load_member"}
      [] j.name = "PRESENCE_UPDATE" -> {"update_presence"}
      [] j.name \in {"GUILD_ROLE_CREATE", "GUILD_ROLE_UPDATE"} -> {"update_role"}
      [] j.name = "VOICE_STATE_UPDATE" -> {"load_voicestate"}
      [] j.name = "MESSAGE_CREATE" -> {"create_message"}
      [] j.name = "MESSAGE_UPDATE" /\ AsksGuild(j) -> {"update_message"}
      [] j.name = "READY" -> {IF k THEN "process_ready" ELSE "process_first_ready"}
      [] OTHER -> {}
LoadingOfJob(j, k) ==
    LET got == {DecodeAs(load, PayloadOfJob(j)).is : load \in LoadOf(j, k)}
    IN  IF got = {} THEN "value" ELSE CHOOSE is \in got : TRUE
\* The rows of the handler read a payload; a copy is written and read again.
ReadingOfJob(j) ==
    IF j.kind = "event" THEN DecodeRows(Event[j.name].rows, PayloadOfJob(j)).is
    ELSE Copying(j.name, j.object).is

-----------------------------------------------------------------------------
(* What a copy keeps.                                                      *)

\* What the writer of a class leaves out, and the fields it leaves out for the
\* sake of another.
Unwritten(C) ==
    CASE C = "activity" -> {"timestamps"}
      [] C = "embed" -> {"type", "video", "provider"}
      [] C = "footer" -> {"proxy_icon_url"}
      [] C \in {"image", "thumbnail"} -> {"proxy_url"}
      [] C = "role" -> {"managed"}
      [] C = "user" -> {"avatar"}
      [] C = "voice_state" -> {"channel_id"}
      [] OTHER -> {}
MayLose(C) ==
    CASE C = "activity" -> DOMAIN activity \ {"name", "type"}
      [] C = "embed" -> {"footer", "image", "thumbnail"}
      [] C = "channel" -> {"owner_id"}
      [] OTHER -> {}
RECURSIVE Kept(_, _)
Kept(kind, v) ==
    IF kind \in Scalars \/ v = <<>> THEN v
    ELSE LET row == Class[kind]
             Part(k) == IF row[k].many
                        THEN [i \in DOMAIN v[1][k] |-> Kept(row[k].kind, v[1][k][i])]
                        ELSE Kept(row[k].kind, v[1][k])
         IN  Pack(Once([k \in DOMAIN row |->
                      IF k \in Unwritten(kind) THEN <<>>
                      ELSE IF row[k].read = "asId" THEN Kept("id", v[1]["id"])
                      ELSE Part(k)]))

\* The classes whose own text cannot be read again, and the states of three
\* others that cannot: a party with sizes, alone or in a game, and a channel made
\* by the bot, whose id is not written.
Breaks(C, o) ==
    \/ C \in {"emoji", "invite", "message", "reaction"}
    \/ C \in {"invites", "messages"} /\ o["list"] # <<>>
    \/ C = "party" /\ o["size"] # <<>>
    \/ C = "activity" /\ o["name"] # <<>> /\ o["type"] = <<>> /\ o["party"] # <<>>
    \/ C = "channel" /\ o["channel_id"] = <<>>

\* An object that is written by to_json and read by from_json is the same again,
\* but for the fields its writer leaves out; a class that cannot be read back
\* fails to, and never comes back as something else (gateway/objects).
RoundTrip ==
    stage = "copied" =>
        LET o == Held(job.name, job.object[1], job.object[2])
            kept == Unpack(job.name, Kept(job.name, Pack(o)))
            copy == Unpack(job.name, Copying(job.name, job.object).of)
        IN  IF Breaks(job.name, o) THEN result # "value"
            ELSE /\ result = "value"
                 /\ \A k \in DOMAIN o :
                       \/ copy[k] = kept[k]
                       \/ k \in MayLose(job.name) /\ copy[k] = <<>>
=============================================================================
