------------------------------- MODULE Classes --------------------------------
(***************************************************************************)
(* The classes of src/include/aegis/gateway/objects: how from_json reads   *)
(* and to_json writes each key.                                            *)
(*                                                                         *)
(* A field of an object is a sequence: <<>> when it has its default, one   *)
(* element when it is set, the elements of a vector otherwise.  A JSON     *)
(* value is Null, an Atom (text, number or boolean), an Object or an       *)
(* Array.  The text of a field is "x"; only the type of an activity has    *)
(* values that are told apart.                                             *)
(***************************************************************************)
EXTENDS TLC

Null == [t |-> "null"]
Atom(v) == [t |-> "atom", v |-> v]
Object(f) == [t |-> "object", f |-> f]
Array(s) == [t |-> "array", s |-> s]
Has(json, k) == json.t = "object" /\ k \in DOMAIN json.f
Given(json, k) == Has(json, k) /\ json.f[k] # Null

(***************************************************************************)
(* A row of a class is how one key is converted.                           *)
(*                                                                         *)
(*   kind   "id" is a snowflake or a permission, which keeps its default   *)
(*          on null; "plain" throws on null; "idOf" is a snowflake read    *)
(*          from the id of an object; "list" is an array that is indexed;  *)
(*          anything else is a class;                                      *)
(*   many   a vector of that kind;                                         *)
(*   read   "needed" is read without asking, "bare" when the key is there, *)
(*          "given" when it is there and not null, "never" not at all,     *)
(*          "asId" is a copy of what the key id gave;                      *)
(*   write  "always", "set" when it differs from the default, "never".     *)
(***************************************************************************)
Rows(keys, kind, many, read, write) ==
    [k \in keys |-> [kind |-> kind, many |-> many, read |-> read,
                     write |-> write]]
One(keys, kind, read, write) == Rows(keys, kind, FALSE, read, write)
Many(keys, kind, read) == Rows(keys, kind, TRUE, read, "set")

activity ==
    One({"name", "type"}, "plain", "given", "always")
    @@ One({"flags", "instance"}, "plain", "given", "always")
    @@ One({"url", "details", "state"}, "plain", "given", "set")
    @@ One({"application_id"}, "id", "given", "always")
    @@ One({"timestamps"}, "timestamp", "given", "never")
    @@ One({"party"}, "party", "given", "always")
    @@ One({"assets"}, "asset", "given", "always")
    @@ One({"secrets"}, "secret", "given", "always")

asset ==
    One({"large_image", "large_text", "small_image", "small_text"}, "plain",
        "given", "set")

attachment ==
    One({"id"}, "id", "bare", "always")
    @@ One({"filename", "size", "url", "proxy_url"}, "plain", "bare", "always")
    @@ One({"height", "width"}, "plain", "given", "always")

ban ==
    One({"reason"}, "plain", "given", "always")
    @@ One({"user"}, "user", "given", "always")

\* channel_id is set from id (81); to_json asks it whether to write id (117).
channel ==
    One({"id"}, "id", "needed", "always")
    @@ One({"channel_id"}, "id", "asId", "never")
    @@ One({"type"}, "plain", "needed", "always")
    @@ One({"guild_id", "last_message_id", "owner_id", "application_id",
            "parent_id"}, "id", "given", "set")
    @@ One({"position", "topic", "nsfw", "bitrate", "user_limit", "icon"},
           "plain", "given", "set")
    @@ One({"name"}, "plain", "given", "always")
    @@ Many({"permission_overwrites"}, "permission_overwrite", "given")
    @@ Many({"recipients"}, "user", "given")

embed ==
    One({"title", "description", "timestamp", "color"}, "plain", "given",
        "always")
    @@ One({"type"}, "plain", "bare", "never")
    @@ One({"url"}, "plain", "given", "set")
    @@ One({"footer"}, "footer", "given", "always")
    @@ One({"image"}, "image", "given", "always")
    @@ One({"thumbnail"}, "thumbnail", "given", "always")
    @@ One({"video"}, "video", "given", "never")
    @@ One({"provider"}, "provider", "given", "never")
    @@ Many({"fields"}, "field", "given")

\* The user is read as an object and written as an id (83, 99).
emoji ==
    One({"id"}, "id", "needed", "always")
    @@ One({"name", "require_colons", "managed", "animated"}, "plain", "given",
           "always")
    @@ One({"user"}, "idOf", "given", "always")
    @@ Many({"roles"}, "id", "given")

field == One({"name", "value", "inline"}, "plain", "bare", "always")

footer ==
    One({"text", "icon_url"}, "plain", "given", "always")
    @@ One({"proxy_icon_url"}, "plain", "given", "never")

\* to_json of a guild writes nothing; four fields are never read.
guild ==
    One({"id", "owner_id", "afk_channel_id", "embed_channel_id"}, "id",
        "given", "never")
    @@ One({"guild_id"}, "id", "asId", "never")
    @@ One({"name", "icon", "splash", "region", "afk_timeout", "embed_enabled",
            "verification_level", "default_message_notifications",
            "mfa_level", "joined_at", "large", "unavailable", "member_count"},
           "plain", "given", "never")
    @@ One({"explicit_content_filter", "widget_enabled"}, "plain", "never",
           "never")
    @@ One({"application_id", "widget_channel_id"}, "id", "never", "never")
    @@ Rows({"roles"}, "role", TRUE, "bare", "never")
    @@ Rows({"members"}, "guild_member", TRUE, "bare", "never")
    @@ Rows({"channels"}, "channel", TRUE, "bare", "never")
    @@ Rows({"presences"}, "presence", TRUE, "bare", "never")
    @@ Rows({"emojis"}, "emoji", TRUE, "bare", "never")
    @@ Rows({"voice_states"}, "voice_state", TRUE, "bare", "never")
    @@ Rows({"features"}, "plain", TRUE, "bare", "never")

\* A member of a guild's list; there is no to_json.
guild_member ==
    One({"user"}, "user", "needed", "never")
    @@ One({"nick"}, "plain", "given", "never")
    @@ One({"guild_id"}, "id", "given", "never")
    @@ Rows({"roles"}, "id", TRUE, "given", "never")
    @@ One({"joined_at", "deaf", "mute"}, "plain", "bare", "never")

image ==
    One({"url", "height", "width"}, "plain", "given", "always")
    @@ One({"proxy_url"}, "plain", "given", "never")

\* Four ids are read as objects and written as ids (76-83, 107-110).
invite ==
    One({"code"}, "plain", "needed", "always")
    @@ One({"guild", "channel", "inviter", "target_user"}, "idOf", "given",
           "always")
    @@ One({"target_user_type", "approximate_presence_count",
            "approximate_member_count", "uses", "max_uses", "max_age",
            "temporary", "created_at"}, "plain", "given", "always")

member ==
    Many({"roles"}, "role", "given")
    @@ One({"nick", "joined_at", "mute", "deaf"}, "plain", "given", "always")
    @@ One({"user"}, "user", "given", "set")

\* mentions is read as users and written as ids; author, channel_id and
\* guild_id are not written.
message ==
    One({"id"}, "id", "needed", "always")
    @@ One({"channel_id"}, "id", "needed", "never")
    @@ One({"author"}, "user", "given", "never")
    @@ One({"guild_id"}, "id", "given", "never")
    @@ One({"content", "timestamp", "edited_timestamp", "tts",
            "mention_everyone", "pinned", "type"}, "plain", "given", "always")
    @@ One({"nonce"}, "id", "given", "set")
    @@ One({"webhook_id"}, "plain", "given", "set")
    @@ Many({"mentions"}, "idOf", "given")
    @@ Many({"roles"}, "id", "given")
    @@ Many({"attachments"}, "attachment", "given")
    @@ Many({"embeds"}, "embed", "given")
    @@ Many({"reactions"}, "reaction", "given")

\* size is read only of an array, which a party is not (38).
party ==
    One({"id"}, "plain", "given", "set")
    @@ One({"size"}, "plain", "never", "set")

\* The type is compared with "role": anything else, null too, is a member (49).
permission_overwrite ==
    One({"id"}, "id", "needed", "always")
    @@ One({"allow", "deny"}, "plain", "needed", "always")
    @@ One({"type"}, "id", "bare", "always")

presence == One({"status"}, "plain", "never", "never") @@ One({"user"}, "user", "never", "never")

provider == One({"name", "url"}, "plain", "given", "always")

reaction ==
    One({"count", "me"}, "plain", "needed", "always")
    @@ One({"emoji"}, "emoji", "needed", "always")

role ==
    One({"id", "permissions"}, "id", "given", "always")
    @@ One({"role_id"}, "id", "asId", "never")
    @@ One({"color", "name", "position", "hoist", "mentionable"}, "plain",
           "given", "always")
    @@ One({"managed"}, "plain", "never", "never")

secret == One({"join", "spectate", "match"}, "plain", "given", "set")

thumbnail ==
    One({"url"}, "plain", "bare", "always")
    @@ One({"proxy_url"}, "plain", "bare", "never")
    @@ One({"height", "width"}, "plain", "given", "always")

timestamp == One({"start", "end"}, "plain", "given", "set")

user ==
    One({"id"}, "plain", "needed", "always")
    @@ One({"guild_id", "username", "discriminator", "bot", "mfa_enabled",
            "verified"}, "plain", "given", "always")
    @@ One({"avatar"}, "plain", "given", "never")

video ==
    One({"url"}, "plain", "bare", "always")
    @@ One({"height", "width"}, "plain", "given", "always")

\* to_json writes the channel under "chanel_id" (85), which nothing reads.
voice_state ==
    One({"guild_id", "user_id"}, "id", "given", "always")
    @@ One({"channel_id"}, "id", "given", "never")
    @@ One({"session_id", "deaf", "mute", "self_deaf", "self_mute", "suppress",
            "self_stream"}, "plain", "given", "always")

\* A reply that is an array of objects: its one row is the array itself.
bans == Many({"list"}, "ban", "given")
invites == Many({"list"}, "invite", "given")
messages == Many({"list"}, "message", "given")

Class ==
    [activity |-> activity, asset |-> asset, attachment |-> attachment,
     ban |-> ban, bans |-> bans, channel |-> channel, embed |-> embed,
     emoji |-> emoji, field |-> field, footer |-> footer, guild |-> guild,
     guild_member |-> guild_member, image |-> image, invite |-> invite,
     invites |-> invites, member |-> member, message |-> message,
     messages |-> messages, party |-> party,
     permission_overwrite |-> permission_overwrite, presence |-> presence,
     provider |-> provider, reaction |-> reaction, role |-> role,
     secret |-> secret, thumbnail |-> thumbnail, timestamp |-> timestamp,
     user |-> user, video |-> video, voice_state |-> voice_state]

Scalars == {"id", "plain", "idOf"}
=============================================================================
