---------------------------- MODULE Permissions ----------------------------
(***************************************************************************)
(* What a member may do in a guild and in one of its channels: the class   *)
(* permission (permission.hpp) and the computation of guild.cpp            *)
(* (base_permissions, compute_overwrites, get_permissions).  A bitmask is  *)
(* the set of its bits.                                                    *)
(*                                                                         *)
(* A guild is a record [id, owner, roles], with roles a function from the  *)
(* ids of its roles to masks; a member's entry (user::guild_info) is the   *)
(* set of its role ids, in a set that is empty when the user has no entry  *)
(* for the guild; the overwrites of a channel are a function from the ids  *)
(* they name to records [allow, deny].                                     *)
(***************************************************************************)
EXTENDS Integers

(* The bits of an int64_t. *)
Bit == 0 .. 63

(* The bit each can_... looks at. *)
Can ==
    [invite |-> 0, kick |-> 1, ban |-> 2, admin |-> 3, manage_channels |-> 4,
     manage_guild |-> 5, add_reactions |-> 6, view_audit_logs |-> 7,
     priority_speaker |-> 8, read_messages |-> 10, send_messages |-> 11, tts |-> 12,
     manage_messages |-> 13, embed |-> 14, attach_files |-> 15, read_history |-> 16,
     mention_everyone |-> 17, external_emoiji |-> 18, voice_connect |-> 20,
     voice_speak |-> 21, voice_mute |-> 22, voice_deafen |-> 23, voice_move |-> 24,
     voice_activity |-> 25, change_name |-> 26, manage_names |-> 27,
     manage_roles |-> 28, manage_webhooks |-> 29, manage_emojis |-> 30]

(* set_...: the mask is ANDed with the bit. *)
SetOf(p, b) == p \cap {b}

Admin == Can.admin

(* An overwrite that changes nothing: what a find() that fails amounts to. *)
NoOverwrite == [allow |-> {}, deny |-> {}]

(* The overwrite of a channel for an id. *)
OverwriteFor(over, id) == IF id \in DOMAIN over THEN over[id] ELSE NoOverwrite

(* permissions &= ~deny; permissions |= allow. *)
Apply(p, o) == (p \ o.deny) \cup o.allow

(* guild::base_permissions.  get_role throws for an id that is no role of the guild,
   and the handler of the exception returns 0. *)
BasePermissions(guild, id, entry) ==
    IF guild.owner = id THEN Bit
    ELSE IF entry = {} \/ \E held \in entry : ~(held \cup {guild.id} \subseteq DOMAIN guild.roles)
    THEN {}
    ELSE LET p == UNION {guild.roles[r] : r \in {guild.id} \cup UNION entry}
         IN  IF Admin \in p THEN Bit ELSE p

(* The overwrites of a member's roles, everyone's aside, taken together. *)
RoleOverwrites(guild, held, over) ==
    LET named == (held \ {guild.id}) \cap DOMAIN over
    IN  [allow |-> UNION {over[r].allow : r \in named},
         deny  |-> UNION {over[r].deny : r \in named}]

\* mutant: the member's own overwrite before those of its roles
ComputeOverwrites_RolesLast(base, guild, id, entry, over) ==
    IF Admin \in base THEN Bit
    ELSE IF entry = {} THEN {}
    ELSE LET everyone == Apply(base, OverwriteFor(over, guild.id))
             own      == Apply(everyone, OverwriteFor(over, id))
         IN  Apply(own, RoleOverwrites(guild, UNION entry, over))

(* guild::compute_overwrites. *)
ComputeOverwrites(base, guild, id, entry, over) ==
    IF Admin \in base THEN Bit
    ELSE IF entry = {} THEN {}
    ELSE LET everyone == Apply(base, OverwriteFor(over, guild.id))
             roles    == Apply(everyone, RoleOverwrites(guild, UNION entry, over))
         IN  Apply(roles, OverwriteFor(over, id))

(* guild::get_permissions of a user and a channel. *)
GetPermissions(guild, id, entry, over) ==
    ComputeOverwrites(BasePermissions(guild, id, entry), guild, id, entry, over)

-----------------------------------------------------------------------------
(* The rule the computation stands for, bit by bit: the most specific of the member's
   own overwrite, those of its roles and everyone's decides, an allow before a deny, and
   the roles decide where no overwrite names the bit. *)
HasBase(guild, entry, b) ==
    \E held \in entry : \E r \in held \cup {guild.id} : b \in guild.roles[r]

Allowed(over, ids, b) == \E i \in ids \cap DOMAIN over : b \in over[i].allow
Denied(over, ids, b)  == \E i \in ids \cap DOMAIN over : b \in over[i].deny

Granted(guild, id, entry, over, b) ==
    LET mine     == {id}
        others   == (UNION entry) \ {guild.id}
        everyone == {guild.id}
    IN  \/ Allowed(over, mine, b)
        \/ ~Denied(over, mine, b) /\ Allowed(over, others, b)
        \/ ~Denied(over, mine \cup others, b) /\ Allowed(over, everyone, b)
        \/ ~Denied(over, mine \cup others \cup everyone, b) /\ HasBase(guild, entry, b)

=============================================================================
