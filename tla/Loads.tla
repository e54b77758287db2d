-------------------------------- MODULE Loads ---------------------------------
(***************************************************************************)
(* What the loads of the cache read of a payload for themselves, before    *)
(* the event object is converted and the callbacks are called: rows like   *)
(* those of Classes, named after the functions that read them.             *)
(*                                                                         *)
(* Two more ways to read: "copied" is read without asking from a copy,     *)
(* where a missing key is null; "ofVoice" is read without asking when a    *)
(* bitrate is given.                                                       *)
(***************************************************************************)
EXTENDS Classes

Read(keys, kind, read) == One(keys, kind, read, "never")

load_overwrite ==
    Read({"id"}, "id", "copied") @@ Read({"allow", "deny", "type"}, "plain", "copied")

\* The name may be null, the position, the type and nsfw may not.
load_channel ==
    Read({"id", "name"}, "id", "needed")
    @@ Read({"position", "type"}, "plain", "needed")
    @@ Read({"nsfw"}, "plain", "bare")
    @@ Read({"bitrate", "topic"}, "plain", "given")
    @@ Read({"user_limit"}, "plain", "ofVoice")
    @@ Read({"last_message_id", "parent_id"}, "id", "given")
    @@ Rows({"permission_overwrites"}, "load_overwrite", TRUE, "given", "never")

\* dm_channel_create catches what the name and the type may throw (791); the
\* recipients of a direct message are indexed by CHANNEL_CREATE alone (1681-1684).
load_dm == Read({"id", "last_message_id"}, "id", "needed")
load_recipients == Read({"recipients"}, "list", "needed") @@ load_dm

\* user::_load_nolock catches what else a member may throw (97).
load_user == Read({"id"}, "id", "needed")
load_member == Read({"user"}, "load_user", "needed")

load_role == Read({"id"}, "id", "needed") @@ role
load_emoji == emoji
load_voicestate == Read({"user_id", "channel_id"}, "id", "needed") @@ voice_state
\* A presence names its user, who is read from a copy.
load_presence == Read({"status"}, "plain", "needed")

\* In guild::_load the fields of a member are read a second time, uncaught.
load_listed ==
    load_member @@ Read({"nick", "joined_at", "deaf", "mute"}, "plain", "given")
    @@ Rows({"roles"}, "plain", TRUE, "given", "never")
load_guild ==
    Read({"id"}, "id", "needed")
    @@ Read({"name", "icon", "splash", "region", "afk_timeout", "embed_enabled",
             "verification_level", "default_message_notifications", "mfa_level",
             "joined_at", "large", "unavailable", "member_count"}, "plain", "given")
    @@ Read({"owner_id", "afk_channel_id"}, "id", "given")
    @@ Rows({"roles"}, "load_role", TRUE, "bare", "never")
    @@ Rows({"members"}, "load_listed", TRUE, "bare", "never")
    @@ Rows({"channels"}, "load_channel", TRUE, "bare", "never")
    @@ Rows({"presences"}, "load_presence", TRUE, "bare", "never")
    @@ Rows({"emojis"}, "load_emoji", TRUE, "bare", "never")
    @@ Rows({"voice_states"}, "load_voicestate", TRUE, "given", "never")

\* What PRESENCE_UPDATE and the role events read.
update_presence ==
    Read({"user"}, "load_user", "needed") @@ Read({"status"}, "plain", "needed")
update_role == Read({"role"}, "load_role", "needed")
\* The author of a message, and the member the message makes of an author who is
\* not in the cache; an update may come without an author.
create_message == Read({"author"}, "user", "needed") @@ Read({"member"}, "member", "given")
update_message == Read({"author"}, "user", "bare") @@ Read({"member"}, "member", "given")

\* A guild of READY that is not unavailable is loaded under the mutex its load
\* locks again (734-735), which is undefined; the bot's own user is read by the
\* first READY alone (695-701).
load_unavailable ==
    Read({"id"}, "id", "needed") @@ Read({"unavailable"}, "plain", "needed")
load_self ==
    load_user @@ Read({"username", "discriminator", "mfa_enabled"}, "plain", "needed")
process_ready ==
    Read({"session_id"}, "plain", "needed")
    @@ Rows({"guilds"}, "load_unavailable", TRUE, "needed", "never")
process_first_ready == Read({"user"}, "load_self", "needed") @@ process_ready

LoadClass ==
    [load_overwrite |-> load_overwrite, load_channel |-> load_channel,
     load_dm |-> load_dm, load_recipients |-> load_recipients,
     load_user |-> load_user, load_member |-> load_member, load_role |-> load_role,
     load_emoji |-> load_emoji, load_voicestate |-> load_voicestate,
     load_presence |-> load_presence, load_listed |-> load_listed,
     load_guild |-> load_guild, update_presence |-> update_presence,
     update_role |-> update_role, create_message |-> create_message,
     update_message |-> update_message, load_unavailable |-> load_unavailable,
     load_self |-> load_self, process_ready |-> process_ready,
     process_first_ready |-> process_first_ready]

\* What throws in one of these ends the program: they are noexcept.
Noexcept == {"load_role", "load_emoji", "load_presence", "load_voicestate"}
=============================================================================
