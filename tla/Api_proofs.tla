----------------------------- MODULE Api_proofs -----------------------------
(***************************************************************************)
(* The computation of permissions agrees, bit by bit, with the rule it     *)
(* stands for; and the invariants of Api, for any callers, roles, masks    *)
(* and overwrites, any number of changes of the server and every way of    *)
(* calling.                                                                *)
(***************************************************************************)
EXTENDS Api, SequenceTheorems, TLAPS

(* Every role the entry names is a role of the guild. *)
RolesKnown(guild, entry) ==
    \A held \in entry : held \cup {guild.id} \subseteq DOMAIN guild.roles

-----------------------------------------------------------------------------
(* Applying an overwrite to a mask: the allowed bits win over the denied ones. *)
LEMMA ApplyBit ==
    ASSUME NEW p, NEW o, NEW b
    PROVE  b \in Apply(p, o) <=> b \in o.allow \/ (b \in p /\ b \notin o.deny)
BY DEF Apply

(* The overwrite found for an id allows and denies what the channel's table says. *)
LEMMA OverwriteBit ==
    ASSUME NEW over, NEW id, NEW b
    PROVE  /\ b \in OverwriteFor(over, id).allow <=> Allowed(over, {id}, b)
           /\ b \in OverwriteFor(over, id).deny <=> Denied(over, {id}, b)
<1>1. CASE id \in DOMAIN over
  BY <1>1 DEF OverwriteFor, Allowed, Denied
<1>2. CASE id \notin DOMAIN over
  BY <1>2 DEF OverwriteFor, NoOverwrite, Allowed, Denied
<1> QED BY <1>1, <1>2

(* The aggregate of the roles' overwrites allows what one of them allows. *)
LEMMA RoleOverwritesBit ==
    ASSUME NEW guild, NEW held, NEW over, NEW b
    PROVE  /\ b \in RoleOverwrites(guild, held, over).allow
                 <=> Allowed(over, held \ {guild.id}, b)
           /\ b \in RoleOverwrites(guild, held, over).deny
                 <=> Denied(over, held \ {guild.id}, b)
BY DEF RoleOverwrites, Allowed, Denied

(* A member who is neither owner nor administrator and whose roles are known has, at the
   base, the union of its roles' masks. *)
LEMMA BaseBit ==
    ASSUME NEW guild, NEW id, NEW entry, NEW b,
           guild.owner # id, entry # {}, RolesKnown(guild, entry),
           Admin \notin BasePermissions(guild, id, entry)
    PROVE  b \in BasePermissions(guild, id, entry) <=> HasBase(guild, entry, b)
<1> DEFINE p == UNION {guild.roles[r] : r \in {guild.id} \cup UNION entry}
<1>1. BasePermissions(guild, id, entry) = IF Admin \in p THEN Bit ELSE p
  BY DEF BasePermissions, RolesKnown
<1>2. Admin \in Bit
  BY DEF Admin, Can, Bit
<1>3. BasePermissions(guild, id, entry) = p
  BY <1>1, <1>2
<1>4. b \in p <=> \E r \in {guild.id} \cup UNION entry : b \in guild.roles[r]
  OBVIOUS
<1>5. (\E r \in {guild.id} \cup UNION entry : b \in guild.roles[r]) <=> HasBase(guild, entry, b)
  BY DEF HasBase
<1> QED BY <1>3, <1>4, <1>5

-----------------------------------------------------------------------------
(* The overwrites of a channel grant bit b to a member: its own, then those of its roles,
   then everyone's, an allow before a deny. *)
GrantedByOverwrites(guild, id, entry, over, b) ==
    LET others == (UNION entry) \ {guild.id}
    IN  \/ Allowed(over, {id}, b)
        \/ ~Denied(over, {id}, b) /\ Allowed(over, others, b)
        \/ ~Denied(over, {id} \cup others, b) /\ Allowed(over, {guild.id}, b)

(* No overwrite of a channel denies the member bit b. *)
NobodyDenies(guild, id, entry, over, b) ==
    ~Denied(over, {id} \cup ((UNION entry) \ {guild.id}) \cup {guild.id}, b)

(* One bit through compute_overwrites, whatever the base (guild.cpp:266-321). *)
LEMMA FollowBit ==
    ASSUME NEW guild, NEW id, NEW entry, NEW over, NEW b, entry # {},
           Admin \notin BasePermissions(guild, id, entry)
    PROVE  b \in GetPermissions(guild, id, entry, over)
              <=> \/ GrantedByOverwrites(guild, id, entry, over, b)
                  \/ /\ NobodyDenies(guild, id, entry, over, b)
                     /\ b \in BasePermissions(guild, id, entry)
<1> DEFINE base     == BasePermissions(guild, id, entry)
           others   == (UNION entry) \ {guild.id}
           everyone == Apply(base, OverwriteFor(over, guild.id))
           roles    == Apply(everyone, RoleOverwrites(guild, UNION entry, over))
<1>1. GetPermissions(guild, id, entry, over) = Apply(roles, OverwriteFor(over, id))
  BY DEF GetPermissions, ComputeOverwrites
<1>2. b \in Apply(roles, OverwriteFor(over, id))
        <=> Allowed(over, {id}, b) \/ (b \in roles /\ ~Denied(over, {id}, b))
  BY ApplyBit, OverwriteBit
<1>3. b \in roles <=> Allowed(over, others, b) \/ (b \in everyone /\ ~Denied(over, others, b))
  <2> DEFINE mine == RoleOverwrites(guild, UNION entry, over)
  <2>1. /\ b \in mine.allow <=> Allowed(over, others, b)
        /\ b \in mine.deny <=> Denied(over, others, b)
    BY RoleOverwritesBit
  <2> HIDE DEF mine, everyone, others
  <2>2. b \in Apply(everyone, mine) <=> b \in mine.allow \/ (b \in everyone /\ b \notin mine.deny)
    BY ApplyBit
  <2> QED BY <2>1, <2>2 DEF mine
<1>4. b \in everyone
        <=> Allowed(over, {guild.id}, b) \/ (b \in base /\ ~Denied(over, {guild.id}, b))
  BY ApplyBit, OverwriteBit
<1>5. Denied(over, {id} \cup others, b) <=> Denied(over, {id}, b) \/ Denied(over, others, b)
  BY DEF Denied
<1>6. Denied(over, {id} \cup others \cup {guild.id}, b)
        <=> Denied(over, {id} \cup others, b) \/ Denied(over, {guild.id}, b)
  BY DEF Denied
<1> HIDE DEF base, others, everyone, roles
<1>7. GrantedByOverwrites(guild, id, entry, over, b)
        <=> \/ Allowed(over, {id}, b)
            \/ ~Denied(over, {id}, b) /\ Allowed(over, others, b)
            \/ ~Denied(over, {id} \cup others, b) /\ Allowed(over, {guild.id}, b)
  BY DEF GrantedByOverwrites, others
<1>8. NobodyDenies(guild, id, entry, over, b)
        <=> ~Denied(over, {id} \cup others \cup {guild.id}, b)
  BY DEF NobodyDenies, others
<1> QED BY <1>1, <1>2, <1>3, <1>4, <1>5, <1>6, <1>7, <1>8 DEF base

(* For a member whose entry and roles the cache knows and who is neither owner nor
   administrator, guild::get_permissions grants a bit exactly when the rule does:
   overwrites of the member, then of its roles, then of everyone, an allow before a deny
   (guild.cpp:228-321). *)
THEOREM PermissionRule ==
    ASSUME NEW guild, NEW id, NEW entry, NEW over, NEW b,
           guild.owner # id, entry # {}, RolesKnown(guild, entry),
           Admin \notin BasePermissions(guild, id, entry)
    PROVE  b \in GetPermissions(guild, id, entry, over) <=> Granted(guild, id, entry, over, b)
<1>1. Granted(guild, id, entry, over, b)
        <=> \/ GrantedByOverwrites(guild, id, entry, over, b)
            \/ NobodyDenies(guild, id, entry, over, b) /\ HasBase(guild, entry, b)
  BY DEF Granted, GrantedByOverwrites, NobodyDenies
<1>2. b \in BasePermissions(guild, id, entry) <=> HasBase(guild, entry, b)
  BY BaseBit
<1> QED BY <1>1, <1>2, FollowBit

(* A member whose entry names a role the guild no longer has - what a deleted role leaves
   behind, guild.cpp:344 - and who is not the owner loses all that its roles and everyone's
   give it, even as an administrator: get_permissions grants it a bit exactly when the
   overwrites of the channel do. *)
THEOREM UnknownRoleLosesBase ==
    ASSUME NEW guild, NEW id, NEW entry, NEW over, NEW b,
           guild.owner # id, ~RolesKnown(guild, entry)
    PROVE  b \in GetPermissions(guild, id, entry, over)
              <=> GrantedByOverwrites(guild, id, entry, over, b)
<1>1. BasePermissions(guild, id, entry) = {} /\ entry # {}
  BY DEF BasePermissions, RolesKnown
<1> QED BY <1>1, FollowBit

(* permission::set_... never grants: the mask it leaves holds no bit it did not hold, and
   no other bit than the one named (permission.hpp:102-131). *)
THEOREM SetNeverGrants ==
    ASSUME NEW p, NEW b, NEW c
    PROVE  c \in SetOf(p, b) <=> c = b /\ b \in p
BY DEF SetOf

-----------------------------------------------------------------------------
(* The ways of calling. *)

Reply == {"rest_reply", "guild", "channel", "member", "role", "bans", "ban", "invite", "invites",
          "message", "messages"}

Failure == {"not_implemented", "throws", "bad_request", "bulk_delete_out_of_range",
            "member_error"}

(* What every way of calling has in common. *)
RowOK(row) ==
    /\ row \in [of : {"nobody", "guild", "channel"}, needs : SUBSET Bit, owner : BOOLEAN,
                alone : {"send", "guild_error", "terminate"},
                unknown : {"-", "throws", "channel_not_found"},
                fails : {"no", "no_permission"} \cup Failure,
                reply : Reply, adopts : BOOLEAN, opens : BOOLEAN]
    /\ row.owner => row.of = "guild"
    /\ row.adopts => row.reply # "message" /\ ~row.opens
    /\ row.opens => row.of = "nobody"

RowsOK(table) == \A op \in DOMAIN table : \A row \in table[op] : RowOK(row)

(* The bits that calls ask for are bits of a mask. *)
LEMMA CanBits ==
    /\ {Can.invite} \in SUBSET Bit /\ {Can.kick} \in SUBSET Bit
    /\ {Can.ban} \in SUBSET Bit /\ {Can.manage_channels} \in SUBSET Bit
    /\ {Can.manage_guild} \in SUBSET Bit /\ {Can.add_reactions} \in SUBSET Bit
    /\ {Can.send_messages} \in SUBSET Bit /\ {Can.manage_messages} \in SUBSET Bit
    /\ {Can.attach_files} \in SUBSET Bit /\ {Can.read_history} \in SUBSET Bit
    /\ {Can.voice_mute} \in SUBSET Bit /\ {Can.voice_deafen} \in SUBSET Bit
    /\ {Can.voice_move} \in SUBSET Bit /\ {Can.change_name} \in SUBSET Bit
    /\ {Can.manage_names} \in SUBSET Bit /\ {Can.manage_roles} \in SUBSET Bit
    /\ {Can.send_messages, Can.attach_files} \in SUBSET Bit /\ {} \in SUBSET Bit
BY DEF Can, Bit

LEMMA OpenRow == RowOK(Open)
BY DEF RowOK, Reply, Open

LEMMA GuildRow ==
    ASSUME NEW bits \in SUBSET Bit, NEW reply \in Reply
    PROVE  /\ RowOK(InGuild(bits, reply))
           /\ RowOK([InGuild(bits, reply) EXCEPT !.owner = TRUE])
           /\ reply # "message" => RowOK([InGuild(bits, reply) EXCEPT !.adopts = TRUE])
BY DEF RowOK, InGuild, Open

LEMMA ChannelRow ==
    ASSUME NEW bits \in SUBSET Bit, NEW reply \in Reply
    PROVE  /\ RowOK(InChannel(bits, reply)) /\ RowOK(OfGuildChannel(bits, reply))
           /\ RowOK([InChannel(bits, reply) EXCEPT !.alone = "terminate",
                                                  !.unknown = "channel_not_found"])
BY DEF RowOK, InChannel, OfGuildChannel, Open

LEMMA FailingRow ==
    ASSUME NEW row, RowOK(row),
           NEW how \in {"no_permission"} \cup Failure
    PROVE  RowOK(Failing(row, how))
BY DEF RowOK, Failing, Failure

LEMMA ReturningRow ==
    ASSUME NEW reply \in Reply
    PROVE  /\ RowOK(Returning(Open, reply))
           /\ RowOK([Returning(Open, reply) EXCEPT !.opens = TRUE])
BY DEF RowOK, Returning, Open

LEMMA OfMessageRow ==
    ASSUME NEW rows, \A row \in rows : RowOK(row)
    PROVE  \A row \in OfMessage(rows) : RowOK(row)
BY DEF RowOK, OfMessage

LEMMA UnimplementedRow ==
    ASSUME NEW bits \in SUBSET Bit
    PROVE  \A row \in Unimplemented(bits) : RowOK(row)
<1>1. RowOK(InGuild(bits, "rest_reply"))
  BY GuildRow DEF Reply
<1>2. RowOK(Failing(InGuild(bits, "rest_reply"), "not_implemented"))
  BY <1>1, FailingRow DEF Failure
<1> QED BY <1>2 DEF Unimplemented

LEMMA GuildEditingRows == RowsOK(GuildEditing)
<1> DEFINE odd == [InGuild({}, "rest_reply") EXCEPT !.owner = TRUE]
<1>1. /\ RowOK(Returning(Open, "guild"))
      /\ RowOK(InGuild({Can.manage_guild}, "guild"))
      /\ RowOK(Failing(InGuild({Can.manage_guild}, "guild"), "no_permission"))
      /\ RowOK(odd)
  BY CanBits, OpenRow, GuildRow, ChannelRow, ReturningRow, FailingRow, UnimplementedRow
     DEF Reply, Failure
<1>2. GuildEditing =
        [get_guild    |-> {Returning(Open, "guild")},
         modify_guild |-> {InGuild({Can.manage_guild}, "guild"),
                           Failing(InGuild({Can.manage_guild}, "guild"), "no_permission")},
         delete_guild |-> {odd}]
  BY DEF GuildEditing
<1> HIDE DEF odd
<1> QED BY <1>1, <1>2 DEF RowsOK

LEMMA GuildChannelsRows == RowsOK(GuildChannels)
<1> DEFINE odd == [InGuild({Can.manage_channels}, "channel") EXCEPT !.adopts = TRUE]
<1>1. /\ RowOK(odd)
      /\ \A row \in Unimplemented({Can.manage_channels}) : RowOK(row)
  BY CanBits, OpenRow, GuildRow, ChannelRow, ReturningRow, FailingRow, UnimplementedRow
     DEF Reply, Failure
<1>2. GuildChannels =
        [create_text_channel |-> {odd}, create_voice_channel |-> {odd},
         create_category_channel |-> {odd},
         modify_channel_positions |-> Unimplemented({Can.manage_channels})]
  BY DEF GuildChannels
<1> HIDE DEF odd
<1> QED BY <1>1, <1>2 DEF RowsOK

LEMMA GuildBansRows == RowsOK(GuildBans)
<1>1. /\ RowOK(InGuild({Can.ban}, "rest_reply"))
      /\ RowOK(InGuild({Can.ban}, "bans"))
      /\ RowOK(InGuild({Can.ban}, "ban"))
  BY CanBits, OpenRow, GuildRow, ChannelRow, ReturningRow, FailingRow, UnimplementedRow
     DEF Reply, Failure
<1> QED BY <1>1 DEF GuildBans, RowsOK

LEMMA GuildRolesRows == RowsOK(GuildRoles)
<1>1. /\ RowOK(InGuild({Can.manage_roles}, "role"))
      /\ RowOK(InGuild({Can.manage_roles}, "rest_reply"))
      /\ \A row \in Unimplemented({Can.kick}) : RowOK(row)
  BY CanBits, OpenRow, GuildRow, ChannelRow, ReturningRow, FailingRow, UnimplementedRow
     DEF Reply, Failure
<1> QED BY <1>1 DEF GuildRoles, RowsOK

LEMMA GuildInvitesRows == RowsOK(GuildInvites)
<1>1. /\ RowOK(InGuild({Can.manage_guild}, "invite"))
      /\ RowOK(InGuild({Can.manage_guild}, "invites"))
      /\ RowOK(InGuild({Can.manage_guild}, "rest_reply"))
  BY CanBits, OpenRow, GuildRow, ChannelRow, ReturningRow, FailingRow, UnimplementedRow
     DEF Reply, Failure
<1> QED BY <1>1 DEF GuildInvites, RowsOK

LEMMA GuildIntegrationsRows == RowsOK(GuildIntegrations)
<1>1. /\ RowOK(Open)
      /\ \A row \in Unimplemented({Can.manage_guild}) : RowOK(row)
  BY CanBits, OpenRow, GuildRow, ChannelRow, ReturningRow, FailingRow, UnimplementedRow
     DEF Reply, Failure
<1> QED BY <1>1 DEF GuildIntegrations, RowsOK

LEMMA ChannelMessagesRows == RowsOK(ChannelMessages)
<1>1. /\ RowOK(InChannel({Can.send_messages}, "message"))
      /\ RowOK(InChannel({Can.send_messages, Can.attach_files}, "message"))
      /\ RowOK(InChannel({Can.read_history}, "message"))
      /\ RowOK(InChannel({Can.read_history}, "messages"))
      /\ RowOK(Failing(InChannel({Can.read_history}, "messages"), "throws"))
  BY CanBits, OpenRow, GuildRow, ChannelRow, ReturningRow, FailingRow, UnimplementedRow
     DEF Reply, Failure
<1> QED BY <1>1 DEF ChannelMessages, RowsOK

LEMMA ChannelEditingRows == RowsOK(ChannelEditing)
<1>1. /\ RowOK(Returning(Open, "message"))
      /\ RowOK(Failing(Returning(Open, "message"), "bad_request"))
      /\ RowOK(InChannel({Can.manage_messages}, "rest_reply"))
      /\ RowOK(Failing(InChannel({Can.manage_messages}, "rest_reply"), "bulk_delete_out_of_range"))
  BY CanBits, OpenRow, GuildRow, ChannelRow, ReturningRow, FailingRow, UnimplementedRow
     DEF Reply, Failure
<1> QED BY <1>1 DEF ChannelEditing, RowsOK

LEMMA ChannelSettingsRows == RowsOK(ChannelSettings)
<1>1. /\ RowOK(OfGuildChannel({Can.manage_channels}, "channel"))
      /\ RowOK(InChannel({Can.manage_channels}, "rest_reply"))
  BY CanBits, OpenRow, GuildRow, ChannelRow, ReturningRow, FailingRow, UnimplementedRow
     DEF Reply, Failure
<1> QED BY <1>1 DEF ChannelSettings, RowsOK

LEMMA ChannelReactionsRows == RowsOK(ChannelReactions)
<1>1. /\ RowOK(Open)
      /\ RowOK(InChannel({Can.add_reactions}, "rest_reply"))
      /\ RowOK(OfGuildChannel({Can.manage_messages}, "rest_reply"))
  BY CanBits, OpenRow, GuildRow, ChannelRow, ReturningRow, FailingRow, UnimplementedRow
     DEF Reply, Failure
<1> QED BY <1>1 DEF ChannelReactions, RowsOK

LEMMA ChannelPermissionsRows == RowsOK(ChannelPermissions)
<1>1. /\ RowOK(OfGuildChannel({Can.manage_roles}, "rest_reply"))
      /\ RowOK(OfGuildChannel({Can.manage_channels}, "rest_reply"))
      /\ RowOK(OfGuildChannel({Can.invite}, "rest_reply"))
  BY CanBits, OpenRow, GuildRow, ChannelRow, ReturningRow, FailingRow, UnimplementedRow
     DEF Reply, Failure
<1> QED BY <1>1 DEF ChannelPermissions, RowsOK

LEMMA ChannelPinsRows == RowsOK(ChannelPins)
<1>1. /\ RowOK(Open)
      /\ RowOK(InChannel({Can.manage_messages}, "rest_reply"))
  BY CanBits, OpenRow, GuildRow, ChannelRow, ReturningRow, FailingRow, UnimplementedRow
     DEF Reply, Failure
<1> QED BY <1>1 DEF ChannelPins, RowsOK

LEMMA CoreMessagesRows == RowsOK(CoreMessages)
<1>1. /\ RowOK(Returning(Open, "message"))
      /\ RowOK([InChannel({Can.send_messages}, "message") EXCEPT
                !.alone = "terminate", !.unknown = "channel_not_found"])
  BY CanBits, OpenRow, GuildRow, ChannelRow, ReturningRow, FailingRow, UnimplementedRow
     DEF Reply, Failure
<1> QED BY <1>1 DEF CoreMessages, RowsOK

LEMMA PrivateMessagesRows == RowsOK(PrivateMessages)
<1> DEFINE odd == [Returning(Open, "message") EXCEPT !.opens = TRUE]
<1>1. /\ RowOK(odd)
      /\ RowOK(Failing(Returning(Open, "message"), "member_error"))
  BY CanBits, OpenRow, GuildRow, ChannelRow, ReturningRow, FailingRow, UnimplementedRow
     DEF Reply, Failure
<1>2. PrivateMessages =
        [create_dm_message |-> {odd, Failing(Returning(Open, "message"), "member_error")}]
  BY DEF PrivateMessages
<1> HIDE DEF odd
<1> QED BY <1>1, <1>2 DEF RowsOK

LEMMA CoreGuildsRows == RowsOK(CoreGuilds)
<1>1. RowOK(Returning(Open, "guild"))
  BY CanBits, OpenRow, GuildRow, ChannelRow, ReturningRow, FailingRow, UnimplementedRow
     DEF Reply, Failure
<1> QED BY <1>1 DEF CoreGuilds, RowsOK

LEMMA GuildMembersRows == RowsOK(GuildMembers)
<1>1. \A F \in SUBSET DOMAIN MemberField : {MemberField[f] : f \in F} \in SUBSET Bit
  BY CanBits DEF MemberField
<1>2. \A F \in SUBSET DOMAIN MemberField : RowOK(InGuild({MemberField[f] : f \in F}, "member"))
  BY <1>1, GuildRow DEF Reply
<1>3. /\ RowOK(InGuild({Can.change_name}, "rest_reply"))
      /\ RowOK(InGuild({Can.manage_roles}, "role"))
      /\ RowOK(InGuild({Can.manage_roles}, "rest_reply"))
      /\ RowOK(InGuild({Can.kick}, "rest_reply"))
  BY CanBits, GuildRow DEF Reply
<1> DEFINE some == {InGuild({MemberField[f] : f \in F}, "member") : F \in SUBSET DOMAIN MemberField}
<1>4. \A row \in some : RowOK(row)
  BY <1>2
<1>5. GuildMembers =
        [modify_guild_member |-> some,
         modify_my_nick |-> {InGuild({Can.change_name}, "rest_reply")},
         add_guild_member_role |-> {InGuild({Can.manage_roles}, "role")},
         remove_guild_member_role |-> {InGuild({Can.manage_roles}, "rest_reply")},
         remove_guild_member |-> {InGuild({Can.kick}, "rest_reply")}]
  BY DEF GuildMembers
<1> HIDE DEF some
<1> QED BY <1>3, <1>4, <1>5 DEF RowsOK

LEMMA MessageCallsRows == RowsOK(MessageCalls)
<1>1. /\ \A row \in ChannelEditing.delete_message : RowOK(row)
      /\ \A row \in ChannelEditing.edit_message : RowOK(row)
      /\ \A row \in ChannelEditing.edit_message_embed : RowOK(row)
  BY ChannelEditingRows DEF ChannelEditing, RowsOK, Reply
<1>2. /\ \A row \in ChannelReactions.create_reaction : RowOK(row)
      /\ \A row \in ChannelReactions.delete_own_reaction : RowOK(row)
      /\ \A row \in ChannelReactions.delete_user_reaction : RowOK(row)
      /\ \A row \in ChannelReactions.delete_all_reactions : RowOK(row)
  BY ChannelReactionsRows DEF ChannelReactions, RowsOK, Reply
<1> QED BY <1>1, <1>2, OfMessageRow DEF MessageCalls, RowsOK

LEMMA AllRows == \A row \in Rows : RowOK(row)
<1>1. \A g \in Groups : RowsOK(g)
  BY GuildEditingRows, GuildChannelsRows, GuildBansRows, GuildRolesRows,
     GuildInvitesRows, GuildIntegrationsRows, ChannelMessagesRows, ChannelEditingRows,
     ChannelSettingsRows, ChannelReactionsRows, ChannelPermissionsRows, ChannelPinsRows,
     CoreMessagesRows, PrivateMessagesRows, CoreGuildsRows, GuildMembersRows,
     MessageCallsRows DEF Groups
<1>2. ASSUME NEW row \in Rows PROVE \E g \in Groups : \E op \in DOMAIN g : row \in g[op]
  <2>1. PICK op \in DOMAIN Table : row \in Table[op]
    BY DEF Rows
  <2>2. op \in UNION {DOMAIN g : g \in Groups}
    BY DEF Table
  <2>3. row \in UNION {g[op] : g \in {h \in Groups : op \in DOMAIN h}}
    BY <2>1, <2>2 DEF Table
  <2> QED BY <2>3
<1> QED BY <1>1, <1>2 DEF RowsOK

-----------------------------------------------------------------------------
(* Functions from some of the ids to values. *)
Tables(ids, vals) == UNION {[D -> vals] : D \in SUBSET ids}

Named == RoleIds \cup {Self}

ServerGuild ==
    [id : {Guild}, owner : {Self, Other}, roles : Tables(RoleIds, Masks), held : SUBSET RoleIds,
     over : Tables(Named, Overwrites), channels : SUBSET Channels]

CacheGuild ==
    [id : {Guild}, owner : {Self, Other}, roles : Tables(RoleIds, Masks), held : SUBSET RoleIds,
     over : Tables(Named, Overwrites), known : SUBSET Channels, listed : SUBSET Channels,
     linked : SUBSET Channels]

Event ==
    [kind : {"role"}, id : RoleIds, mask : Masks]
    \cup [kind : {"drop"}, id : Roles]
    \cup [kind : {"member"}, held : SUBSET RoleIds]
    \cup [kind : {"over"}, over : Tables(Named, Overwrites)]
    \cup [kind : {"create"}, id : Callers]
    \cup [kind : {"delete"}, id : Channels]

Checking == {"base", "entry", "role", "over"}
Stage == Checking \cup {"idle", "decide", "posted", "served", "done"}

Result == {"none", "value", "error", "terminate", "no_permission", "guild_error",
           "channel_not_found"} \cup Failure

Call ==
    [row : Asked \cup {Open, Query}, target : {"guild", "channel", "private", "unknown"},
     stage : Stage, mask : SUBSET Bit, todo : SUBSET RoleIds, ever : SUBSET Bit,
     always : SUBSET Bit, met : Nat, torn : BOOLEAN, quiet : BOOLEAN, opening : BOOLEAN,
     code : {"none", "content", "empty", "failed", "denied"}, result : Result]

TypeOK ==
    /\ server \in ServerGuild /\ Guild \in DOMAIN server.roles
    /\ cache \in CacheGuild /\ Guild \in DOMAIN cache.roles
    /\ cache.owner = server.owner
    /\ events \in Seq(Event)
    /\ waiting \in BOOLEAN /\ private \in BOOLEAN
    /\ readers \in SUBSET Callers /\ late \in SUBSET Callers
    /\ changes \in 0..MaxChanges
    /\ call \in [Callers -> Call]

(* A call is where its row and its target let it be. *)
Fits(k, opened) ==
    /\ k.stage \in Checking \cup {"decide"} =>
          /\ k.target \in {"guild", "channel"}
          /\ \/ k.row = Query /\ k.target = "channel"
             \/ k.row \in Asked /\ k.row.of = k.target
    /\ k.stage = "over" => k.target = "channel"
    /\ k.stage \in {"posted", "served"} => k.row \in Asked
    /\ k.opening => k.row.opens
    /\ k.stage \in {"posted", "served"} /\ k.row.opens => k.opening \/ opened

Placed(c) == Fits(call[c], private)

TypeInv == TypeOK /\ \A c \in Callers : Placed(c)

(* The last word of a queue on a subject, and its silence.  A subject is a set of events. *)
LastWord(q, subject, good) ==
    \A i \in DOMAIN q :
        q[i] \in subject /\ (\A j \in DOMAIN q : j > i => q[j] \notin subject) => q[i] \in good

Silent(q, subject) == \A i \in DOMAIN q : q[i] \notin subject

(* The events about a channel, and the last of them where it is as the server has it. *)
OfChannel(ch) == {e \in Event : e.kind \in {"create", "delete"} /\ e.id = ch}
ChannelAsServer(ch) == {e \in Event : e.kind = "create" <=> ch \in server.channels}

(* The creation of a channel that is gone is followed by its deletion. *)
Announced(ch) ==
    \A i \in DOMAIN events : events[i].kind = "create" /\ events[i].id = ch =>
        \/ ch \in server.channels
        \/ \E j \in DOMAIN events : j > i /\ events[j].kind = "delete" /\ events[j].id = ch

(* The cache has what the last event in the queue about a channel will make of it, and where
   there is none what the server has: a reply may come before the event, and after both. *)
ChannelOK(ch) ==
    /\ LastWord(events, OfChannel(ch), ChannelAsServer(ch))
    /\ Silent(events, OfChannel(ch)) =>
         /\ ch \in cache.listed <=> ch \in server.channels
         /\ ch \in cache.known <=> ch \in server.channels \cup late
    /\ Announced(ch)
    /\ ch \in late =>
         /\ ch \notin server.channels /\ call[ch].stage = "done"
         /\ Silent(events, OfChannel(ch))

ChannelInv == cache.linked = cache.known /\ \A ch \in Channels : ChannelOK(ch)

(* The same of the roles, of the bot's entry and of the overwrites.  Deleting a role sends no
   event about the entry and the overwrites that named it: they agree up to such roles. *)
OfRole(r) == {e \in Event : e.kind \in {"role", "drop"} /\ e.id = r}
RoleAsServer(r) ==
    {e \in Event : /\ e.kind = "role" <=> r \in DOMAIN server.roles
                   /\ e.kind = "role" => server.roles[r] = e.mask}

SameRole(r) ==
    /\ r \in DOMAIN cache.roles <=> r \in DOMAIN server.roles
    /\ r \in DOMAIN server.roles => cache.roles[r] = server.roles[r]

RoleInv ==
    \A r \in RoleIds :
        /\ LastWord(events, OfRole(r), RoleAsServer(r))
        /\ Silent(events, OfRole(r)) => SameRole(r)

OfEntry == {e \in Event : e.kind = "member"}
SameHeld(held) == held \cap DOMAIN server.roles = server.held
EntryAsServer == {e \in Event : e.kind = "member" => SameHeld(e.held)}

HeldInv ==
    /\ server.held \subseteq DOMAIN server.roles
    /\ LastWord(events, OfEntry, EntryAsServer)
    /\ Silent(events, OfEntry) => SameHeld(cache.held)

OfOverwrites == {e \in Event : e.kind = "over"}
SameOver(over) ==
    \A i \in DOMAIN server.roles \cup {Self} :
        /\ i \in DOMAIN over <=> i \in DOMAIN server.over
        /\ i \in DOMAIN server.over => over[i] = server.over[i]
OverwritesAsServer == {e \in Event : e.kind = "over" => SameOver(e.over)}

OverInv ==
    /\ LastWord(events, OfOverwrites, OverwritesAsServer)
    /\ Silent(events, OfOverwrites) => SameOver(cache.over)

(* A call the server has not disturbed: nothing that concerns it is on its way, its check has
   found so far what the cache says, and it stands where the server would let it stand. *)
InStep(k) ==
    /\ \A i \in DOMAIN events : events[i].kind = "create"
    /\ cache.held \subseteq DOMAIN cache.roles
    /\ OfMain(k.row, k.target) => Main \in cache.known

HasRead(held, p) == p = UNION {cache.roles[r] : r \in {Guild} \cup held}

Found(k) ==
    /\ k.stage = "entry" => cache.owner # Self /\ HasRead({}, k.mask)
    /\ k.stage = "role" =>
         /\ cache.owner # Self /\ k.todo \subseteq cache.held
         /\ HasRead(cache.held \ k.todo, k.mask)
    /\ k.stage = "over" => k.mask = BasePermissions(cache, Self, {cache.held})
    /\ k.stage = "decide" => k.mask = Mask(cache, k.target)

QuietAt(k) ==
    k.quiet =>
        /\ k.code # "denied"
        /\ k.stage = "done" /\ k.result = "no_permission" /\ k.row.fails # "no_permission" =>
             ~Permits(k.row, k.target)
        /\ k.stage \in {"posted", "served"} => Permits(k.row, k.target)
        /\ k.stage # "idle" => InStep(k) /\ Found(k)

QuietInv == \A c \in Callers : QuietAt(call[c])

(* What a check that has read the mask p of the bot's roles would come to. *)
View(g, target, p) ==
    IF target = "guild" THEN IF Admin \in p THEN Bit ELSE p
    ELSE ComputeOverwrites(p, g, Self, {g.held}, g.over)

(* The masks of the roles of a guild that an entry names, everyone's among them. *)
MaskOf(g, held) == UNION {g.roles[r] : r \in {Guild} \cup held}

(* The roles a check has still to read, and what it will have read if nothing changes. *)
Todo(g, k) == IF k.stage = "entry" THEN g.held ELSE k.todo

Completed(g, k) ==
    IF k.stage = "over" THEN k.mask
    ELSE IF Todo(g, k) \subseteq DOMAIN g.roles
    THEN k.mask \cup UNION {g.roles[r] : r \in Todo(g, k)}
    ELSE {}

(* A check that no change of the entry or of the overwrites has met: each bit it has read was
   granted at some moment; and while it has met at most one change of a role, what it will
   have read is what the cache said before that change, or after it. *)
ViewAt(g, k) ==
    ~k.torn =>
        /\ k.stage \in Checking =>
             /\ View(g, k.target, {}) \subseteq k.ever
             /\ \A b \in k.mask : View(g, k.target, {b}) \subseteq k.ever
             /\ MaskOfRest(g, k.target) \subseteq k.ever
        /\ k.stage = "base" => k.mask = {} /\ k.always \subseteq Mask(g, k.target)
        /\ k.stage \in {"entry", "role"} =>
             /\ g.owner # Self /\ Todo(g, k) \subseteq g.held
             /\ k.met = 0 => /\ g.held \ Todo(g, k) \subseteq DOMAIN g.roles
                             /\ k.mask = MaskOf(g, g.held \ Todo(g, k))
        /\ k.stage \in {"entry", "role", "over"} /\ k.met <= 1 =>
             k.always \subseteq View(g, k.target, Completed(g, k))
        /\ k.stage = "decide" =>
             /\ k.mask \subseteq k.ever
             /\ k.met <= 1 => k.always \subseteq k.mask

ViewInv == \A c \in Callers : ViewAt(cache, call[c])

-----------------------------------------------------------------------------
(* Maps. *)

LEMMA TableIntro ==
    ASSUME NEW ids, NEW vals, NEW D \in SUBSET ids, NEW f \in [D -> vals]
    PROVE  f \in Tables(ids, vals)
BY DEF Tables

LEMMA TableElim ==
    ASSUME NEW ids, NEW vals, NEW f \in Tables(ids, vals)
    PROVE  /\ DOMAIN f \in SUBSET ids /\ f \in [DOMAIN f -> vals]
           /\ \A i \in DOMAIN f : f[i] \in vals
BY DEF Tables

LEMMA WithTable ==
    ASSUME NEW ids, NEW vals, NEW f \in Tables(ids, vals), NEW i \in ids, NEW value \in vals
    PROVE  With(f, i, value) \in Tables(ids, vals)
<1>1. PICK D, t : D = DOMAIN f \cup {i} /\ t = With(f, i, value)
  OBVIOUS
<1>2. D \in SUBSET ids /\ t \in [D -> vals]
  BY <1>1, TableElim DEF With
<1>3. t \in Tables(ids, vals)
  BY <1>2, TableIntro
<1> QED BY <1>1, <1>3

LEMMA WithoutTable ==
    ASSUME NEW ids, NEW vals, NEW f \in Tables(ids, vals), NEW i
    PROVE  [j \in DOMAIN f \ {i} |-> f[j]] \in Tables(ids, vals)
<1>1. PICK D : D = DOMAIN f \ {i}
  OBVIOUS
<1>2. PICK t : t = [j \in D |-> f[j]]
  OBVIOUS
<1>3. D \in SUBSET ids /\ \A j \in D : f[j] \in vals
  BY <1>1, TableElim
<1>4. t \in [D -> vals]
  BY <1>2, <1>3
<1>5. t \in Tables(ids, vals)
  BY <1>3, <1>4, TableIntro
<1> QED BY <1>1, <1>2, <1>5

LEMMA EmptyTable ==
    ASSUME NEW ids, NEW vals
    PROVE  <<>> \in Tables(ids, vals) /\ DOMAIN <<>> = {}
<1>1. <<>> \in [{} -> vals]
  OBVIOUS
<1> QED BY <1>1, TableIntro

LEMMA RoleTable ==
    ASSUME NEW p \in Masks
    PROVE  [r \in RoleIds |-> p] \in Tables(RoleIds, Masks)
BY TableIntro DEF Tables

-----------------------------------------------------------------------------
(* Types. *)

LEMMA Ids ==
    /\ Guild \in RoleIds /\ Guild \notin Roles /\ Roles \subseteq RoleIds
    /\ Self \notin RoleIds /\ Self \in Named /\ RoleIds \subseteq Named
    /\ Main \in Channels /\ Main \notin Callers /\ Callers \subseteq Channels
BY ApiAssumption DEF RoleIds, Named, Main, Channels

LEMMA BitAdmin == Admin \in Bit
BY DEF Admin, Can, Bit

LEMMA AskedRows ==
    /\ \A row \in Asked \cup {Open} : RowOK(row)
    /\ \A row \in Asked \cup {Open, Query} : row.needs \subseteq Bit
    /\ Query.of = "ids" /\ Query.reply = "permission" /\ ~Query.adopts /\ ~Query.opens
    /\ Query.needs = {} /\ ~Query.owner /\ Query.fails = "no"
<1>1. \A row \in Asked \cup {Open} : RowOK(row)
  BY AllRows, OpenRow, ApiAssumption
<1>2. /\ Query.of = "ids" /\ Query.reply = "permission" /\ ~Query.adopts /\ ~Query.opens
      /\ Query.needs = {} /\ ~Query.owner /\ Query.fails = "no"
  BY DEF Query, Open
<1> QED BY <1>1, <1>2 DEF RowOK

LEMMA InitTypes == Init => TypeInv
<1> SUFFICES ASSUME Init PROVE TypeInv
  OBVIOUS
<1>1. NoCall \in Call
  <2>1. {} \in SUBSET Bit /\ {} \in SUBSET RoleIds /\ 0 \in Nat
    OBVIOUS
  <2> QED BY <2>1 DEF NoCall, Call, Stage, Checking, Result
<1>2. PICK owner \in {Self, Other}, p \in Masks :
         /\ server = [id |-> Guild, owner |-> owner, roles |-> [r \in RoleIds |-> p],
                      held |-> RoleIds, over |-> <<>>, channels |-> {Main}]
         /\ cache = [id |-> Guild, owner |-> owner, roles |-> [r \in RoleIds |-> p], held |-> RoleIds,
                     over |-> <<>>, known |-> {Main}, listed |-> {Main}, linked |-> {Main}]
  BY DEF Init
<1>3. [r \in RoleIds |-> p] \in Tables(RoleIds, Masks) /\ <<>> \in Tables(Named, Overwrites)
  BY RoleTable, EmptyTable
<1>4. server \in ServerGuild /\ cache \in CacheGuild
  BY <1>2, <1>3, Ids DEF ServerGuild, CacheGuild
<1>5. /\ Guild \in DOMAIN server.roles /\ Guild \in DOMAIN cache.roles
      /\ cache.owner = server.owner
  BY <1>2, Ids
<1>6. events \in Seq(Event) /\ changes \in 0..MaxChanges
  BY ApiAssumption DEF Init
<1>7. TypeOK
  BY <1>1, <1>4, <1>5, <1>6 DEF Init, TypeOK
<1>8. ASSUME NEW c \in Callers PROVE Placed(c)
  <2>1. call[c] = NoCall
    BY DEF Init
  <2> QED BY <2>1 DEF Placed, Fits, NoCall, Checking
<1> QED BY <1>7, <1>8 DEF TypeInv

(* What is in a mask are bits. *)
LEMMA MasksAreBits ==
    ASSUME NEW g, NEW held, NEW p,
           \A r \in DOMAIN g.roles : g.roles[r] \subseteq Bit,
           \A i \in DOMAIN g.over : g.over[i].allow \subseteq Bit,
           p \subseteq Bit
    PROVE  /\ BasePermissions(g, Self, {held}) \subseteq Bit
           /\ ComputeOverwrites(p, g, Self, {g.held}, g.over) \subseteq Bit
<1>1. BasePermissions(g, Self, {held}) \subseteq Bit
  BY DEF BasePermissions
<1>2. \A i : OverwriteFor(g.over, i).allow \subseteq Bit
  BY DEF OverwriteFor, NoOverwrite
<1>3. RoleOverwrites(g, UNION {g.held}, g.over).allow \subseteq Bit
  BY DEF RoleOverwrites
<1>4. ComputeOverwrites(p, g, Self, {g.held}, g.over) \subseteq Bit
  BY <1>2, <1>3 DEF ComputeOverwrites, Apply
<1> QED BY <1>1, <1>4

LEMMA CacheMasks ==
    ASSUME cache \in CacheGuild
    PROVE  /\ \A r \in DOMAIN cache.roles : cache.roles[r] \in Masks /\ cache.roles[r] \subseteq Bit
           /\ \A i \in DOMAIN cache.over : cache.over[i].allow \subseteq Bit
<1>1. cache.roles \in Tables(RoleIds, Masks) /\ cache.over \in Tables(Named, Overwrites)
  BY DEF CacheGuild
<1> QED BY <1>1, TableElim, ApiAssumption

LEMMA CacheViews ==
    ASSUME cache \in CacheGuild, NEW target
    PROVE  Mask(cache, target) \subseteq Bit /\ MaskOfRest(cache, target) \subseteq Bit
BY CacheMasks, MasksAreBits DEF Mask, MaskOfRest, MaskBy

LEMMA CallSet ==
    ASSUME call \in [Callers -> Call], NEW c \in Callers, NEW r \in Call, Set(c, r)
    PROVE  /\ call' \in [Callers -> Call] /\ call'[c] = r
           /\ \A d \in Callers : d # c => call'[d] = call[d]
BY DEF Set

(* A step of one caller that puts a fitting call in its place keeps the types. *)
LEMMA CallerTypes ==
    ASSUME TypeInv, NEW c \in Callers, NEW r \in Call, Set(c, r), Fits(r, private'),
           private' \in BOOLEAN, private => private',
           server' \in ServerGuild, Guild \in DOMAIN server.roles', cache' \in CacheGuild,
           Guild \in DOMAIN cache.roles', cache.owner' = server.owner',
           events' \in Seq(Event), waiting' = waiting, readers' \in SUBSET Callers,
           late' \in SUBSET Callers, changes' = changes
    PROVE  TypeInv'
<1>1. /\ call' \in [Callers -> Call] /\ call'[c] = r
      /\ \A d \in Callers : d # c => call'[d] = call[d]
  BY CallSet DEF TypeInv, TypeOK
<1>2. \A d \in Callers : Placed(d)'
  BY <1>1 DEF TypeInv, Placed, Fits
<1> QED BY <1>1, <1>2 DEF TypeInv, TypeOK

LEMMA CallAt ==
    ASSUME TypeInv, NEW c \in Callers
    PROVE  /\ call[c] \in Call /\ Fits(call[c], private)
           /\ call[c] = [row |-> call[c].row, target |-> call[c].target, stage |-> call[c].stage,
                         mask |-> call[c].mask, todo |-> call[c].todo, ever |-> call[c].ever,
                         always |-> call[c].always, met |-> call[c].met, torn |-> call[c].torn,
                         quiet |-> call[c].quiet, opening |-> call[c].opening,
                         code |-> call[c].code, result |-> call[c].result]
<1>1. call[c] \in Call /\ Fits(call[c], private)
  BY DEF TypeInv, TypeOK, Placed
<1> QED BY <1>1 DEF Call

(* What the cache tells a call that begins: nothing is on its way, and the bot's entry and
   the channel are in order. *)
Fresh(row, target) ==
    /\ events = <<>> /\ cache.held \subseteq DOMAIN cache.roles
    /\ OfMain(row, target) => Main \in cache.known

(* How a call begins. *)
Begun(row, target, stage, result, opening) ==
    [row |-> row, target |-> target, stage |-> stage, mask |-> {}, todo |-> {},
     ever |-> MaskOfRest(cache, target), always |-> Mask(cache, target), met |-> 0,
     torn |-> FALSE, quiet |-> Fresh(row, target), opening |-> opening, code |-> "none",
     result |-> result]

LEMMA BegunIs ==
    ASSUME TypeInv, NEW row \in Asked \cup {Open, Query},
           NEW target \in {"guild", "channel", "private", "unknown"},
           NEW stage \in Stage, NEW result \in Result, NEW opening \in BOOLEAN
    PROVE  Begun(row, target, stage, result, opening) \in Call
<1>1. Fresh(row, target) \in BOOLEAN
  BY DEF Fresh
<1>2. MaskOfRest(cache, target) \in SUBSET Bit /\ Mask(cache, target) \in SUBSET Bit
  BY CacheViews DEF TypeInv, TypeOK
<1>4. {} \in SUBSET Bit /\ {} \in SUBSET RoleIds /\ 0 \in Nat
  OBVIOUS
<1> QED BY <1>1, <1>2, <1>4 DEF Call, Stage, Checking, Result, Begun

LEMMA AskedAsIs ==
    ASSUME NEW c, NEW row, NEW target
    PROVE  AskedAs(c, row, target) = Begun(row, target, "idle", "none", FALSE)
<1>1. AskedAs(c, row, target) =
    [NoCall EXCEPT !.row = row, !.target = target,
        !.ever = MaskOfRest(cache, target), !.always = Mask(cache, target),
        !.quiet = Fresh(row, target)]
  BY DEF AskedAs, Fresh
<1> HIDE DEF Fresh
<1> QED BY <1>1 DEF NoCall, Begun

(* A call fails at once, or it is posted - unchecked, or to open the private channel first -,
   or its check begins. *)
Failed(row, target, result) ==
    \/ row = Query /\ result = "value"
    \/ /\ row \in Asked /\ result \in {row.fails, row.alone, row.unknown}
       /\ result = "terminate" => row.alone = "terminate" /\ target = "private"
PostedAs(row, target, opening) ==
    /\ row \in Asked /\ row.fails = "no" /\ opening = (row.opens /\ ~private)
    /\ \/ row.of = "nobody" /\ target = "guild"
       \/ row.of = "channel" /\ target = "private"
CheckedAs(row, target) ==
    \/ row = Query /\ target = "channel"
    \/ row \in Asked /\ row.of = target /\ target \in {"guild", "channel"}

Target == {"guild", "channel", "private", "unknown"}

LEMMA BegunAt ==
    ASSUME NEW row, NEW target, NEW stage
    PROVE  [Begun(row, target, "idle", "none", FALSE) EXCEPT !.stage = stage]
             = Begun(row, target, stage, "none", FALSE)
<1>1. PICK no, q, m, n : /\ no = FALSE /\ q = Fresh(row, target)
                         /\ m = MaskOfRest(cache, target) /\ n = Mask(cache, target)
  OBVIOUS
<1> DEFINE R(s, o, r) ==
      [row |-> row, target |-> target, stage |-> s, mask |-> {}, todo |-> {}, ever |-> m,
       always |-> n, met |-> 0, torn |-> no, quiet |-> q, opening |-> o, code |-> "none",
       result |-> r]
<1>2. Begun(row, target, "idle", "none", FALSE) = R("idle", no, "none")
  BY <1>1 DEF Begun
<1>3. Begun(row, target, stage, "none", FALSE) = R(stage, no, "none")
  BY <1>1 DEF Begun
<1>4. [R("idle", no, "none") EXCEPT !.stage = stage] = R(stage, no, "none")
  OBVIOUS
<1> HIDE DEF R
<1> QED BY <1>2, <1>3, <1>4

LEMMA BegunWith ==
    ASSUME NEW row, NEW target, NEW stage, NEW result
    PROVE  [Begun(row, target, "idle", "none", FALSE) EXCEPT !.stage = stage, !.result = result]
             = Begun(row, target, stage, result, FALSE)
<1>1. PICK no, q, m, n : /\ no = FALSE /\ q = Fresh(row, target)
                         /\ m = MaskOfRest(cache, target) /\ n = Mask(cache, target)
  OBVIOUS
<1> DEFINE R(s, o, r) ==
      [row |-> row, target |-> target, stage |-> s, mask |-> {}, todo |-> {}, ever |-> m,
       always |-> n, met |-> 0, torn |-> no, quiet |-> q, opening |-> o, code |-> "none",
       result |-> r]
<1>2. Begun(row, target, "idle", "none", FALSE) = R("idle", no, "none")
  BY <1>1 DEF Begun
<1>3. Begun(row, target, stage, result, FALSE) = R(stage, no, result)
  BY <1>1 DEF Begun
<1>4. [R("idle", no, "none") EXCEPT !.stage = stage] = R(stage, no, "none")
  OBVIOUS
<1>5. [R(stage, no, "none") EXCEPT !.result = result] = R(stage, no, result)
  OBVIOUS
<1> HIDE DEF R
<1> QED BY <1>2, <1>3, <1>4, <1>5

LEMMA BeginForms ==
    ASSUME TypeInv, NEW c \in Callers, Begin(c)
    PROVE  /\ At(c, "idle")
           /\ UNCHANGED <<server, cache, events, waiting, private, late, changes>>
           /\ \/ \E row \in Asked \cup {Query}, target \in Target, result \in Result :
                   /\ Set(c, Begun(row, target, "done", result, FALSE))
                   /\ readers' = readers /\ Failed(row, target, result)
              \/ \E row \in Asked \cup {Query}, target \in Target, opening \in BOOLEAN :
                   /\ Set(c, Begun(row, target, "posted", "none", opening))
                   /\ readers' = readers /\ PostedAs(row, target, opening)
              \/ \E row \in Asked \cup {Query}, target \in Target :
                   /\ Set(c, Begun(row, target, "base", "none", FALSE))
                   /\ readers' = IF row = Query THEN readers \cup {c} ELSE readers
                   /\ CheckedAs(row, target)
<1> DEFINE Fail == \E row \in Asked \cup {Query}, target \in Target, result \in Result :
                     /\ Set(c, Begun(row, target, "done", result, FALSE))
                     /\ readers' = readers /\ Failed(row, target, result)
           Post == \E row \in Asked \cup {Query}, target \in Target, opening \in BOOLEAN :
                     /\ Set(c, Begun(row, target, "posted", "none", opening))
                     /\ readers' = readers /\ PostedAs(row, target, opening)
           Check == \E row \in Asked \cup {Query}, target \in Target :
                     /\ Set(c, Begun(row, target, "base", "none", FALSE))
                     /\ readers' = IF row = Query THEN readers \cup {c} ELSE readers
                     /\ CheckedAs(row, target)
<1>1. ASSUME NEW row \in Asked, NEW target \in {"guild", "private"}, Unchecked(c, row, target)
      PROVE  Fail \/ Post
  <2>1. (row.of = "nobody" /\ target = "guild") \/ (row.of = "channel" /\ target = "private")
    BY <1>1 DEF Unchecked
  <2>2. RowOK(row)
    BY AskedRows
  <2>3. CASE row.fails # "no"
    <3>1. Set(c, [AskedAs(c, row, target) EXCEPT !.stage = "done", !.result = row.fails])
      BY <1>1, <2>3 DEF Unchecked
    <3>4. [AskedAs(c, row, target) EXCEPT !.stage = "done", !.result = row.fails]
            = Begun(row, target, "done", row.fails, FALSE)
      BY BegunWith, AskedAsIs
    <3>2. Set(c, Begun(row, target, "done", row.fails, FALSE)) /\ readers' = readers
      BY <1>1, <3>1, <3>4 DEF Unchecked, Set
    <3>3. row.fails \in Result /\ Failed(row, target, row.fails) /\ target \in Target
      BY <2>1, <2>2, <2>3 DEF RowOK, Result, Failed, Failure, Target
    <3> QED BY <3>2, <3>3
  <2>4. CASE row.fails = "no"
    <3>0. PICK o : o = (row.opens /\ ~private)
      OBVIOUS
    <3>4. o \in BOOLEAN
      BY <3>0
    <3>1. Set(c, [AskedAs(c, row, target) EXCEPT !.stage = "posted", !.opening = o])
      BY <1>1, <2>4, <3>0 DEF Unchecked
    <3>3. target \in Target /\ PostedAs(row, target, o)
      BY <2>1, <2>4, <3>0 DEF Target, PostedAs
    <3>5. [AskedAs(c, row, target) EXCEPT !.stage = "posted", !.opening = o]
            = Begun(row, target, "posted", "none", o)
      <4>1. PICK k : k = AskedAs(c, row, target)
        OBVIOUS
      <4>2. k = Begun(row, target, "idle", "none", FALSE)
        BY <4>1, AskedAsIs
      <4>3. PICK s : s = "posted"
        OBVIOUS
      <4>4. PICK no, q, m, n : /\ no = FALSE /\ q = Fresh(row, target)
                               /\ m = MaskOfRest(cache, target) /\ n = Mask(cache, target)
        OBVIOUS
      <4> DEFINE R(st, op) ==
            [row |-> row, target |-> target, stage |-> st, mask |-> {}, todo |-> {}, ever |-> m,
             always |-> n, met |-> 0, torn |-> no, quiet |-> q, opening |-> op, code |-> "none",
             result |-> "none"]
      <4>5. k = R("idle", no)
        BY <4>2, <4>4 DEF Begun
      <4>6. Begun(row, target, s, "none", o) = R(s, o)
        BY <4>4 DEF Begun
      <4>7. [R("idle", no) EXCEPT !.stage = s] = R(s, no)
        OBVIOUS
      <4>8. [R(s, no) EXCEPT !.opening = o] = R(s, o)
        OBVIOUS
      <4> HIDE DEF R
      <4>9. [k EXCEPT !.stage = s, !.opening = o] = Begun(row, target, s, "none", o)
        BY <4>5, <4>6, <4>7, <4>8
      <4> QED BY <4>1, <4>3, <4>9
    <3>2. Set(c, Begun(row, target, "posted", "none", o)) /\ readers' = readers
      BY <1>1, <3>1, <3>5 DEF Unchecked, Set
    <3> QED BY <3>2, <3>3, <3>4
  <2> QED BY <2>3, <2>4
<1>2. ASSUME NEW row \in Asked, NEW target \in {"private", "unknown"}, Stranded(c, row, target),
             target = "unknown" => row.unknown # "-"
      PROVE  Fail
  <2> DEFINE result == IF target = "unknown" THEN row.unknown ELSE row.alone
  <2>1. Set(c, [AskedAs(c, row, target) EXCEPT !.stage = "done", !.result = result]) /\ readers' = readers
    BY <1>2 DEF Stranded
  <2>2. RowOK(row)
    BY AskedRows
  <2>3. result \in Result
    BY <1>2, <2>2 DEF RowOK, Result, Stranded, Failure
  <2>4. Failed(row, target, result) /\ target \in Target
    BY <1>2, <2>2 DEF RowOK, Failed, Target, Stranded, Failure
  <2> HIDE DEF result
  <2>6. [AskedAs(c, row, target) EXCEPT !.stage = "done", !.result = result]
          = Begun(row, target, "done", result, FALSE)
    BY BegunWith, AskedAsIs
  <2>5. Set(c, Begun(row, target, "done", result, FALSE))
    BY <2>1, <2>6 DEF Set
  <2> QED BY <2>1, <2>3, <2>4, <2>5
<1>3. ASSUME NEW row \in Asked, NEW target \in {"guild", "channel"}, Checked(c, row, target)
      PROVE  Check
  <2>1. Set(c, [AskedAs(c, row, target) EXCEPT !.stage = "base"]) /\ readers' = readers /\ row.of = target
    BY <1>3 DEF Checked
  <2>4. [AskedAs(c, row, target) EXCEPT !.stage = "base"] = Begun(row, target, "base", "none", FALSE)
    BY BegunAt, AskedAsIs
  <2>2. Set(c, Begun(row, target, "base", "none", FALSE))
    BY <2>1, <2>4 DEF Set
  <2>3. row # Query
    BY <2>1, AskedRows
  <2> QED BY <2>1, <2>2, <2>3 DEF Target, CheckedAs
<1>4. ASSUME Queried(c) PROVE Fail \/ Check
  <2>1. CASE Main \in cache.listed
    <3>1. Set(c, [AskedAs(c, Query, "channel") EXCEPT !.stage = "base"]) /\ readers' = readers \cup {c}
      BY <1>4, <2>1 DEF Queried
    <3>3. [AskedAs(c, Query, "channel") EXCEPT !.stage = "base"]
            = Begun(Query, "channel", "base", "none", FALSE)
      BY BegunAt, AskedAsIs
    <3>2. Set(c, Begun(Query, "channel", "base", "none", FALSE))
      BY <3>1, <3>3 DEF Set
    <3> QED BY <3>1, <3>2 DEF Target, CheckedAs
  <2>2. CASE Main \notin cache.listed
    <3>1. Set(c, [AskedAs(c, Query, "channel") EXCEPT !.stage = "done", !.result = "value"])
          /\ readers' = readers
      BY <1>4, <2>2 DEF Queried
    <3>3. [AskedAs(c, Query, "channel") EXCEPT !.stage = "done", !.result = "value"]
            = Begun(Query, "channel", "done", "value", FALSE)
      BY BegunWith, AskedAsIs
    <3>2. Set(c, Begun(Query, "channel", "done", "value", FALSE))
      BY <3>1, <3>3 DEF Set
    <3> QED BY <3>1, <3>2 DEF Target, Failed, Result
  <2> QED BY <2>1, <2>2
<1>5. /\ At(c, "idle")
      /\ UNCHANGED <<server, cache, events, waiting, private, late, changes>>
      /\ \/ \E row \in Asked :
              \/ \E target \in {"guild", "private"} : Unchecked(c, row, target)
              \/ \E target \in {"private", "unknown"} :
                   (target = "unknown" => row.unknown # "-") /\ Stranded(c, row, target)
              \/ \E target \in {"guild", "channel"} : Checked(c, row, target)
         \/ Queried(c)
  BY DEF Begin
<1> HIDE DEF Fail, Post, Check
<1>6. Fail \/ Post \/ Check
  BY <1>1, <1>2, <1>3, <1>4, <1>5
<1> QED BY <1>5, <1>6 DEF Fail, Post, Check

-----------------------------------------------------------------------------
(* How a call goes on: the fields a step of its own keeps and those it writes. *)
Kept(k, r) ==
    /\ r.row = k.row /\ r.target = k.target /\ r.ever = k.ever /\ r.always = k.always
    /\ r.met = k.met /\ r.torn = k.torn /\ r.quiet = k.quiet /\ r.opening = k.opening
    /\ r.code = k.code /\ r.result = k.result

Reads(k, r, stage, mask, todo) ==
    r \in Call /\ Kept(k, r) /\ r.stage = stage /\ r.mask = mask /\ r.todo = todo

Leaves(k, r, stage, result) ==
    /\ r \in Call /\ r.stage = stage /\ r.result = result
    /\ r.row = k.row /\ r.target = k.target /\ r.quiet = k.quiet /\ r.opening = k.opening
    /\ r.code = k.code

Answers(k, r, stage, code, opening) ==
    /\ r \in Call /\ r.stage = stage /\ r.code = code /\ r.opening = opening
    /\ r.row = k.row /\ r.target = k.target /\ r.quiet = k.quiet /\ r.result = k.result

(* What the next stage of a check is once the base is read. *)
Onward(k) == IF k.target = "guild" THEN "decide" ELSE "over"

Put(k, s, m, t) == [[k EXCEPT !.stage = s] EXCEPT !.mask = m, !.todo = t]
PutMask(k, s, m) == [[k EXCEPT !.stage = s] EXCEPT !.mask = m]
PutTodo(k, s, t) == [[k EXCEPT !.stage = s] EXCEPT !.todo = t]
PutBoth(k, m, t) == [k EXCEPT !.mask = m, !.todo = t]
PutCode(k, s, code) == [[k EXCEPT !.stage = s] EXCEPT !.code = code]

LEMMA PutReads ==
    ASSUME NEW k \in Call, NEW s \in Stage, NEW m \in SUBSET Bit, NEW t \in SUBSET RoleIds
    PROVE  /\ Reads(k, Put(k, s, m, t), s, m, t)
           /\ Reads(k, PutMask(k, s, m), s, m, k.todo)
           /\ Reads(k, PutTodo(k, s, t), s, k.mask, t)
           /\ Reads(k, PutBoth(k, m, t), k.stage, m, t)
<1>1. Reads(k, Put(k, s, m, t), s, m, t)
  BY DEF Put, Reads, Call, Kept
<1>2. Reads(k, PutMask(k, s, m), s, m, k.todo)
  BY DEF PutMask, Reads, Call, Kept
<1>3. Reads(k, PutTodo(k, s, t), s, k.mask, t)
  BY DEF PutTodo, Reads, Call, Kept
<1>4. Reads(k, PutBoth(k, m, t), k.stage, m, t)
  BY DEF PutBoth, Reads, Call, Kept
<1> QED BY <1>1, <1>2, <1>3, <1>4

LEMMA ServedAnswers ==
    ASSUME TypeInv, NEW c \in Callers, NEW code \in {"none", "content", "empty", "failed", "denied"}
    PROVE  Answers(call[c], [Step(c, "served") EXCEPT !.code = code], "served", code, call[c].opening)
<1>1. PICK k \in Call : k = call[c]
  BY CallAt
<1>2. PICK s \in Stage : s = "served"
  BY DEF Stage
<1>3. Answers(k, PutCode(k, s, code), s, code, k.opening)
  BY DEF Answers, PutCode, Call
<1>4. [Step(c, "served") EXCEPT !.code = code] = PutCode(k, s, code)
  BY <1>1, <1>2 DEF Step, PutCode
<1> QED BY <1>1, <1>2, <1>3, <1>4

LEMMA ReopenedAnswers ==
    ASSUME TypeInv, NEW c \in Callers
    PROVE  Answers(call[c], [Step(c, "posted") EXCEPT !.opening = FALSE, !.code = "none"],
                   "posted", "none", FALSE)
<1>1. PICK k \in Call : k = call[c]
  BY CallAt
<1>2. PICK s \in Stage : s = "posted"
  BY DEF Stage
<1>3. PICK no : no = FALSE
  OBVIOUS
<1> DEFINE R == [[k EXCEPT !.stage = s] EXCEPT !.opening = no, !.code = "none"]
<1>4. R \in Call
  BY <1>3 DEF Call
<1>5. /\ R.stage = s /\ R.code = "none" /\ R.opening = no
      /\ R.row = k.row /\ R.target = k.target /\ R.quiet = k.quiet /\ R.result = k.result
  BY DEF Call
<1>6. [Step(c, "posted") EXCEPT !.opening = FALSE, !.code = "none"] = R
  BY <1>1, <1>2, <1>3 DEF Step
<1> HIDE DEF R
<1> QED BY <1>1, <1>2, <1>3, <1>4, <1>5, <1>6 DEF Answers

LEMMA LeavingLeaves ==
    ASSUME TypeInv, NEW c \in Callers, NEW stage \in Stage
    PROVE  Leaves(call[c], Leaving(c, stage), stage, call[c].result)
<1>1. PICK k \in Call : k = call[c]
  BY CallAt
<1>2. PICK no : no = FALSE
  OBVIOUS
<1> DEFINE R == [[k EXCEPT !.stage = stage]
                    EXCEPT !.mask = {}, !.todo = {}, !.ever = {}, !.always = {}, !.met = 0, !.torn = no]
<1>3. R \in Call
  BY <1>2 DEF Call
<1>4. /\ R.stage = stage /\ R.result = k.result /\ R.row = k.row /\ R.target = k.target
      /\ R.quiet = k.quiet /\ R.opening = k.opening /\ R.code = k.code
  BY DEF Call
<1>5. Leaving(c, stage) = R
  BY <1>1, <1>2 DEF Leaving, Step
<1> HIDE DEF R
<1> QED BY <1>1, <1>3, <1>4, <1>5 DEF Leaves

LEMMA EndedLeaves ==
    ASSUME TypeInv, NEW c \in Callers, NEW result \in Result
    PROVE  Leaves(call[c], Ended(c, result), "done", result)
<1>1. PICK r : r = Leaving(c, "done")
  OBVIOUS
<1>2. r \in Call /\ Leaves(call[c], r, "done", call[c].result)
  BY <1>1, LeavingLeaves DEF Stage, Leaves
<1>3. PICK r2 : r2 = [r EXCEPT !.result = result]
  OBVIOUS
<1>4. /\ r2 \in Call /\ r2.stage = r.stage /\ r2.result = result /\ r2.row = r.row /\ r2.target = r.target
      /\ r2.quiet = r.quiet /\ r2.opening = r.opening /\ r2.code = r.code
  BY <1>2, <1>3 DEF Call
<1>5. Ended(c, result) = r2
  BY <1>1, <1>3 DEF Ended
<1> QED BY <1>2, <1>4, <1>5 DEF Leaves

LEMMA OnwardStage ==
    ASSUME NEW k
    PROVE  Onward(k) \in Stage
BY DEF Onward, Stage, Checking

LEMMA BasedReads ==
    ASSUME TypeInv, NEW c \in Callers, NEW mask \in SUBSET Bit
    PROVE  Reads(call[c], Based(c, mask), Onward(call[c]), mask, {})
<1>1. PICK k \in Call : k = call[c]
  BY CallAt
<1>2. PICK s \in Stage : s = Onward(k)
  BY OnwardStage
<1>3. PICK none \in SUBSET RoleIds : none = {}
  OBVIOUS
<1>4. Reads(k, Put(k, s, mask, none), s, mask, none)
  BY PutReads
<1>5. Based(c, mask) = Put(k, s, mask, none)
  BY <1>1, <1>2, <1>3 DEF Based, Step, Put, Onward
<1> QED BY <1>1, <1>2, <1>3, <1>4, <1>5

LEMMA ReadBaseForms ==
    ASSUME TypeInv, NEW c \in Callers, ReadBase(c)
    PROVE  /\ At(c, "base")
           /\ UNCHANGED <<server, cache, events, waiting, readers, private, late, changes>>
           /\ \/ /\ cache.owner = Self
                 /\ \E r : Set(c, r) /\ Reads(call[c], r, Onward(call[c]), Bit, {})
              \/ /\ cache.owner # Self
                 /\ \E r : Set(c, r) /\ Reads(call[c], r, "entry", cache.roles[Guild], call[c].todo)
<1>1. CASE cache.owner = Self
  BY <1>1, BasedReads DEF ReadBase, Reading, Set
<1>2. CASE cache.owner # Self
  <2>1. PICK k \in Call : k = call[c]
    BY CallAt
  <2>2. PICK s \in Stage : s = "entry"
    BY DEF Stage, Checking
  <2>3. PICK m \in SUBSET Bit : m = cache.roles[Guild]
    BY CacheMasks DEF TypeInv, TypeOK
  <2>4. Reads(k, PutMask(k, s, m), s, m, k.todo)
    BY PutReads
  <2>5. [Step(c, "entry") EXCEPT !.mask = cache.roles[Guild]] = PutMask(k, s, m)
    BY <2>1, <2>2, <2>3 DEF Step, PutMask
  <2>6. Set(c, PutMask(k, s, m))
    BY <1>2, <2>5 DEF ReadBase, Reading, Set
  <2> QED BY <1>2, <2>1, <2>2, <2>3, <2>4, <2>6 DEF ReadBase, Reading
<1> QED BY <1>1, <1>2 DEF ReadBase, Reading

LEMMA ReadEntryForms ==
    ASSUME TypeInv, NEW c \in Callers, ReadEntry(c)
    PROVE  /\ At(c, "entry")
           /\ UNCHANGED <<server, cache, events, waiting, readers, private, late, changes>>
           /\ \E r : Set(c, r) /\ Reads(call[c], r, "role", call[c].mask, cache.held)
<1>1. PICK k \in Call : k = call[c]
  BY CallAt
<1>2. PICK s \in Stage : s = "role"
  BY DEF Stage, Checking
<1>3. PICK t \in SUBSET RoleIds : t = cache.held
  BY DEF TypeInv, TypeOK, CacheGuild
<1>4. Reads(k, PutTodo(k, s, t), s, k.mask, t)
  BY PutReads
<1>5. [Step(c, "role") EXCEPT !.todo = cache.held] = PutTodo(k, s, t)
  BY <1>1, <1>2, <1>3 DEF Step, PutTodo
<1>6. Set(c, PutTodo(k, s, t))
  BY <1>5 DEF ReadEntry, Reading, Set
<1> QED BY <1>1, <1>2, <1>3, <1>4, <1>6 DEF ReadEntry, Reading

LEMMA ReadRoleForms ==
    ASSUME TypeInv, NEW c \in Callers, ReadRole(c)
    PROVE  /\ At(c, "role")
           /\ UNCHANGED <<server, cache, events, waiting, readers, private, late, changes>>
           /\ \/ \E x \in call[c].todo :
                   /\ x \notin DOMAIN cache.roles
                   /\ \E r : Set(c, r) /\ Reads(call[c], r, Onward(call[c]), {}, {})
              \/ \E x \in call[c].todo :
                   /\ x \in DOMAIN cache.roles
                   /\ \E r : /\ Set(c, r)
                             /\ Reads(call[c], r, "role", call[c].mask \cup cache.roles[x],
                                      call[c].todo \ {x})
              \/ /\ call[c].todo = {}
                 /\ \E r : /\ Set(c, r)
                           /\ Reads(call[c], r, Onward(call[c]),
                                    IF Admin \in call[c].mask THEN Bit ELSE call[c].mask, {})
<1>0. /\ At(c, "role")
      /\ UNCHANGED <<server, cache, events, waiting, readers, private, late, changes>>
  BY DEF ReadRole, Reading
<1>1. ASSUME NEW x \in call[c].todo, x \notin DOMAIN cache.roles, Reading(c, Based(c, {}))
      PROVE  \E r : Set(c, r) /\ Reads(call[c], r, Onward(call[c]), {}, {})
  <2>1. PICK none \in SUBSET Bit : none = {}
    OBVIOUS
  <2>2. Reads(call[c], Based(c, none), Onward(call[c]), none, {})
    BY BasedReads
  <2> QED BY <1>1, <2>1, <2>2 DEF Reading
<1>2. ASSUME NEW x \in call[c].todo, x \in DOMAIN cache.roles,
             Reading(c, [call[c] EXCEPT !.mask = @ \cup cache.roles[x], !.todo = @ \ {x}])
      PROVE  \E r : /\ Set(c, r)
                    /\ Reads(call[c], r, "role", call[c].mask \cup cache.roles[x], call[c].todo \ {x})
  <2>1. PICK k \in Call : k = call[c]
    BY CallAt
  <2>3. PICK m \in SUBSET Bit : m = k.mask \cup cache.roles[x]
    <3>1. k.mask \in SUBSET Bit
      BY <2>1 DEF Call
    <3> QED BY <1>2, <3>1, CacheMasks DEF TypeInv, TypeOK
  <2>4. PICK t \in SUBSET RoleIds : t = k.todo \ {x}
    BY <2>1 DEF Call
  <2>2. PICK s \in Stage : s = "role"
    BY DEF Stage, Checking
  <2>5. Reads(k, PutBoth(k, m, t), k.stage, m, t)
    BY PutReads
  <2>6. [call[c] EXCEPT !.mask = @ \cup cache.roles[x], !.todo = @ \ {x}] = PutBoth(k, m, t)
    BY <2>1, <2>3, <2>4 DEF PutBoth, Call
  <2>7. Set(c, PutBoth(k, m, t))
    BY <1>2, <2>6 DEF Reading, Set
  <2> QED BY <1>0, <2>1, <2>3, <2>4, <2>5, <2>7 DEF At
<1>3. ASSUME call[c].todo = {},
             Reading(c, Based(c, IF Admin \in call[c].mask THEN Bit ELSE call[c].mask))
      PROVE  \E r : /\ Set(c, r)
                    /\ Reads(call[c], r, Onward(call[c]),
                             IF Admin \in call[c].mask THEN Bit ELSE call[c].mask, {})
  <2>1. PICK m \in SUBSET Bit : m = IF Admin \in call[c].mask THEN Bit ELSE call[c].mask
    BY CallAt DEF Call
  <2>2. Reads(call[c], Based(c, m), Onward(call[c]), m, {})
    BY BasedReads
  <2> QED BY <1>3, <2>1, <2>2 DEF Reading
<1>4. \/ \E x \in call[c].todo :
           /\ x \notin DOMAIN cache.roles
           /\ Reading(c, Based(c, {}))
      \/ \E x \in call[c].todo :
           /\ x \in DOMAIN cache.roles
           /\ Reading(c, [call[c] EXCEPT !.mask = @ \cup cache.roles[x], !.todo = @ \ {x}])
      \/ /\ call[c].todo = {}
         /\ Reading(c, Based(c, IF Admin \in call[c].mask THEN Bit ELSE call[c].mask))
  <2>1. CASE \E x \in call[c].todo :
            CanRead /\ Reading(c,
                IF x \notin DOMAIN cache.roles THEN Based(c, {})
                ELSE [call[c] EXCEPT !.mask = @ \cup cache.roles[x], !.todo = @ \ {x}])
    <3>1. PICK x \in call[c].todo :
            Reading(c, IF x \notin DOMAIN cache.roles THEN Based(c, {})
                       ELSE [call[c] EXCEPT !.mask = @ \cup cache.roles[x], !.todo = @ \ {x}])
      BY <2>1
    <3>2. CASE x \in DOMAIN cache.roles
      BY <3>1, <3>2 DEF Reading, Set
    <3>3. CASE x \notin DOMAIN cache.roles
      BY <3>1, <3>3 DEF Reading, Set
    <3> QED BY <3>2, <3>3
  <2> QED BY <2>1 DEF ReadRole
<1> QED BY <1>0, <1>1, <1>2, <1>3, <1>4

LEMMA ReadOverwritesForms ==
    ASSUME TypeInv, NEW c \in Callers, ReadOverwrites(c)
    PROVE  /\ At(c, "over")
           /\ UNCHANGED <<server, cache, events, waiting, readers, private, late, changes>>
           /\ \E r : /\ Set(c, r)
                     /\ Reads(call[c], r, "decide",
                              ComputeOverwrites(call[c].mask, cache, Self, {cache.held}, cache.over),
                              call[c].todo)
<1>1. PICK k \in Call : k = call[c]
  BY CallAt
<1>2. PICK s \in Stage : s = "decide"
  BY DEF Stage
<1>3. PICK m \in SUBSET Bit :
        m = ComputeOverwrites(call[c].mask, cache, Self, {cache.held}, cache.over)
  <2>1. call[c].mask \subseteq Bit
    BY <1>1 DEF Call
  <2> QED BY <2>1, CacheMasks, MasksAreBits DEF TypeInv, TypeOK
<1>7. PICK t \in SUBSET RoleIds : t = {}
  OBVIOUS
<1>4. Reads(k, PutMask(k, s, m), s, m, k.todo)
  BY PutReads
<1>5. [Step(c, "decide") EXCEPT !.mask = m] = PutMask(k, s, m)
  BY <1>1, <1>2 DEF Step, PutMask
<1>6. Set(c, PutMask(k, s, m))
  BY <1>3, <1>5 DEF ReadOverwrites, Set
<1> QED BY <1>1, <1>2, <1>3, <1>4, <1>6 DEF ReadOverwrites

LEMMA DecideForms ==
    ASSUME TypeInv, NEW c \in Callers, Decide(c)
    PROVE  /\ At(c, "decide")
           /\ UNCHANGED <<server, cache, events, waiting, private, late, changes>>
           /\ readers' = readers \ {c}
           /\ \/ /\ call[c].row.of = "ids"
                 /\ \E r : Set(c, r) /\ Leaves(call[c], r, "done", "value")
              \/ /\ call[c].row.of # "ids" /\ ~Sufficient(c)
                 /\ \E r : Set(c, r) /\ Leaves(call[c], r, "done", "no_permission")
              \/ /\ call[c].row.of # "ids" /\ Sufficient(c) /\ call[c].row.fails # "no"
                 /\ \E r : Set(c, r) /\ Leaves(call[c], r, "done", call[c].row.fails)
              \/ /\ call[c].row.of # "ids" /\ Sufficient(c) /\ call[c].row.fails = "no"
                 /\ \E r : Set(c, r) /\ Leaves(call[c], r, "posted", call[c].result)
<1>0. /\ At(c, "decide") /\ readers' = readers \ {c}
      /\ UNCHANGED <<server, cache, events, waiting, private, late, changes>>
  BY DEF Decide
<1>1. CASE call[c].row.of = "ids"
  <2>1. Set(c, Ended(c, "value"))
    BY <1>1 DEF Decide, Set
  <2> QED BY <1>0, <1>1, <2>1, EndedLeaves DEF Result
<1>2. CASE call[c].row.of # "ids" /\ ~Sufficient(c)
  <2>1. Set(c, Ended(c, "no_permission"))
    BY <1>2 DEF Decide, Set
  <2> QED BY <1>0, <1>2, <2>1, EndedLeaves DEF Result
<1>3. CASE call[c].row.of # "ids" /\ Sufficient(c) /\ call[c].row.fails # "no"
  <2>1. Set(c, Ended(c, call[c].row.fails))
    BY <1>3 DEF Decide, Set
  <2>2. call[c].row \in Asked \cup {Open, Query}
    BY CallAt DEF Call
  <2>3. PICK how \in Result : how = call[c].row.fails
    BY <1>3, <2>2, AskedRows DEF RowOK, Result, Failure
  <2>4. Leaves(call[c], Ended(c, how), "done", how)
    BY EndedLeaves
  <2> QED BY <1>0, <1>3, <2>1, <2>3, <2>4
<1>4. CASE call[c].row.of # "ids" /\ Sufficient(c) /\ call[c].row.fails = "no"
  <2>1. Set(c, Leaving(c, "posted"))
    BY <1>4 DEF Decide, Set
  <2>2. "posted" \in Stage
    BY DEF Stage
  <2> QED BY <1>0, <1>4, <2>1, <2>2, LeavingLeaves
<1> QED BY <1>1, <1>2, <1>3, <1>4

LEMMA PerformForms ==
    ASSUME TypeInv, NEW c \in Callers, Perform(c)
    PROVE  /\ At(c, "posted")
           /\ UNCHANGED <<cache, waiting, readers, private, late, changes>>
           /\ \E r, code :
                /\ Set(c, r) /\ Answers(call[c], r, "served", code, call[c].opening)
                /\ \/ /\ Permits(call[c].row, call[c].target)
                      /\ code \in {"content", "empty", "failed"}
                      /\ \/ /\ call[c].row.adopts /\ code # "empty"
                            /\ server' = [server EXCEPT !.channels = @ \cup {c}]
                            /\ events' = Append(events, [kind |-> "create", id |-> c])
                         \/ ~call[c].row.adopts /\ UNCHANGED <<server, events>>
                   \/ /\ ~Permits(call[c].row, call[c].target)
                      /\ code = "denied" /\ UNCHANGED <<server, events>>
<1>0. /\ At(c, "posted")
      /\ UNCHANGED <<cache, waiting, readers, private, late, changes>>
  BY DEF Perform
<1>1. PICK code \in {"none", "content", "empty", "failed", "denied"} :
        /\ Served(c, code)
        /\ \/ /\ Permits(call[c].row, call[c].target)
              /\ code \in {"content", "empty", "failed"}
              /\ \/ /\ call[c].row.adopts /\ code # "empty"
                    /\ server' = [server EXCEPT !.channels = @ \cup {c}]
                    /\ events' = Append(events, [kind |-> "create", id |-> c])
                 \/ ~call[c].row.adopts /\ UNCHANGED <<server, events>>
           \/ /\ ~Permits(call[c].row, call[c].target)
              /\ code = "denied" /\ UNCHANGED <<server, events>>
  BY DEF Perform, Send
<1>2. Answers(call[c], [Step(c, "served") EXCEPT !.code = code], "served", code, call[c].opening)
  BY ServedAnswers
<1>3. Set(c, [Step(c, "served") EXCEPT !.code = code])
  BY <1>1 DEF Served
<1> QED BY <1>0, <1>1, <1>2, <1>3

LEMMA FinishForms ==
    ASSUME TypeInv, NEW c \in Callers, Finish(c)
    PROVE  /\ At(c, "served")
           /\ UNCHANGED <<server, events, waiting, readers, changes>>
           /\ \/ /\ call[c].row.adopts /\ call[c].code = "content"
                 /\ cache' = [cache EXCEPT !.known = @ \cup {c}, !.linked = @ \cup {c}]
                 /\ late' = IF c \in server.channels
                               \/ \E i \in DOMAIN events : events[i].kind = "delete" /\ events[i].id = c
                            THEN late ELSE late \cup {c}
              \/ /\ ~(call[c].row.adopts /\ call[c].code = "content")
                 /\ UNCHANGED <<cache, late>>
           /\ \E r : Set(c, r) /\
                \/ /\ call[c].opening /\ Outcome(c) = "value" /\ private' = TRUE
                   /\ Answers(call[c], r, "posted", "none", FALSE)
                \/ /\ ~(call[c].opening /\ Outcome(c) = "value") /\ private' = private
                   /\ Leaves(call[c], r, "done", Outcome(c))
<1>0. /\ At(c, "served")
      /\ UNCHANGED <<server, events, waiting, readers, changes>>
      /\ \/ /\ call[c].row.adopts /\ call[c].code = "content"
            /\ cache' = [cache EXCEPT !.known = @ \cup {c}, !.linked = @ \cup {c}]
            /\ late' = IF c \in server.channels
                          \/ \E i \in DOMAIN events : events[i].kind = "delete" /\ events[i].id = c
                       THEN late ELSE late \cup {c}
         \/ /\ ~(call[c].row.adopts /\ call[c].code = "content")
            /\ UNCHANGED <<cache, late>>
  BY DEF Finish, Adopt
<1>1. CASE call[c].opening /\ Outcome(c) = "value"
  <2>1. private' = TRUE /\ Set(c, [Step(c, "posted") EXCEPT !.opening = FALSE, !.code = "none"])
    BY <1>1 DEF Finish
  <2> QED BY <1>0, <1>1, <2>1, ReopenedAnswers
<1>2. CASE ~(call[c].opening /\ Outcome(c) = "value")
  <2>1. private' = private /\ Set(c, Ended(c, Outcome(c)))
    BY <1>2 DEF Finish
  <2>2. PICK how \in Result : how = Outcome(c)
    BY DEF Outcome, Result
  <2>3. Leaves(call[c], Ended(c, how), "done", how)
    BY EndedLeaves
  <2> QED BY <1>0, <1>2, <2>1, <2>2, <2>3
<1> QED BY <1>1, <1>2

-----------------------------------------------------------------------------
(* The types are kept. *)

LEMMA ReadsFits ==
    ASSUME TypeInv, NEW c \in Callers, NEW r, NEW stage, NEW mask, NEW todo,
           Reads(call[c], r, stage, mask, todo), call[c].stage \in Checking,
           \/ stage \in {"entry", "role", "decide"} \/ stage = Onward(call[c])
    PROVE  Fits(r, private)
<1>1. Fits(call[c], private)
  BY CallAt
<1>2. stage = "over" => call[c].target # "guild"
  BY DEF Onward
<1>3. stage \in {"entry", "role", "decide", "over"}
  BY DEF Onward
<1> QED BY <1>1, <1>2, <1>3 DEF Fits, Reads, Kept, Checking

LEMMA BeginTypes ==
    ASSUME TypeInv, NEW c \in Callers, Begin(c)
    PROVE  TypeInv'
<1>1. UNCHANGED <<server, cache, events, waiting, private, late, changes>>
  BY BeginForms
<1>2. ASSUME NEW r \in Call, Set(c, r), Fits(r, private), readers' \subseteq readers \cup {c}
      PROVE  TypeInv'
  BY <1>1, <1>2, CallerTypes DEF TypeInv, TypeOK
<1>3. ASSUME NEW row \in Asked \cup {Query}, NEW target \in Target, NEW result \in Result,
             Set(c, Begun(row, target, "done", result, FALSE)), readers' = readers
      PROVE  TypeInv'
  <2>1. Begun(row, target, "done", result, FALSE) \in Call
    BY BegunIs DEF Target, Stage
  <2>2. Fits(Begun(row, target, "done", result, FALSE), private)
    BY DEF Fits, Begun, Checking
  <2> QED BY <1>2, <1>3, <2>1, <2>2
<1>4. ASSUME NEW row \in Asked \cup {Query}, NEW target \in Target, NEW opening \in BOOLEAN,
             Set(c, Begun(row, target, "posted", "none", opening)), readers' = readers,
             PostedAs(row, target, opening)
      PROVE  TypeInv'
  <2>1. Begun(row, target, "posted", "none", opening) \in Call
    BY BegunIs DEF Target, Stage, Result
  <2>3. PICK b : b = Begun(row, target, "posted", "none", opening)
    OBVIOUS
  <2>4. b.row = row /\ b.target = target /\ b.stage = "posted" /\ b.opening = opening
    BY <2>3 DEF Begun
  <2>2. Fits(b, private)
    BY <1>4, <2>4 DEF Fits, PostedAs, Checking
  <2> QED BY <1>2, <1>4, <2>1, <2>2, <2>3
<1>5. ASSUME NEW row \in Asked \cup {Query}, NEW target \in Target,
             Set(c, Begun(row, target, "base", "none", FALSE)),
             readers' = IF row = Query THEN readers \cup {c} ELSE readers, CheckedAs(row, target)
      PROVE  TypeInv'
  <2>1. Begun(row, target, "base", "none", FALSE) \in Call
    BY BegunIs DEF Target, Stage, Checking, Result
  <2>3. PICK b : b = Begun(row, target, "base", "none", FALSE)
    OBVIOUS
  <2>4. b.row = row /\ b.target = target /\ b.stage = "base" /\ b.opening = FALSE
    BY <2>3 DEF Begun
  <2>2. Fits(b, private)
    BY <1>5, <2>4 DEF Fits, CheckedAs, Checking
  <2> QED BY <1>2, <1>5, <2>1, <2>2, <2>3
<1>6. \/ \E row \in Asked \cup {Query}, target \in Target, result \in Result :
           Set(c, Begun(row, target, "done", result, FALSE)) /\ readers' = readers
      \/ \E row \in Asked \cup {Query}, target \in Target, opening \in BOOLEAN :
           /\ Set(c, Begun(row, target, "posted", "none", opening))
           /\ readers' = readers /\ PostedAs(row, target, opening)
      \/ \E row \in Asked \cup {Query}, target \in Target :
           /\ Set(c, Begun(row, target, "base", "none", FALSE))
           /\ readers' = IF row = Query THEN readers \cup {c} ELSE readers
           /\ CheckedAs(row, target)
  BY BeginForms
<1>7. CASE \E row \in Asked \cup {Query}, target \in Target, result \in Result :
             Set(c, Begun(row, target, "done", result, FALSE)) /\ readers' = readers
  BY <1>3, <1>7, Zenon
<1>8. CASE \E row \in Asked \cup {Query}, target \in Target, opening \in BOOLEAN :
             /\ Set(c, Begun(row, target, "posted", "none", opening))
             /\ readers' = readers /\ PostedAs(row, target, opening)
  BY <1>4, <1>8, Zenon
<1>9. CASE \E row \in Asked \cup {Query}, target \in Target :
             /\ Set(c, Begun(row, target, "base", "none", FALSE))
             /\ readers' = IF row = Query THEN readers \cup {c} ELSE readers
             /\ CheckedAs(row, target)
  BY <1>5, <1>9, Zenon
<1> QED BY <1>6, <1>7, <1>8, <1>9

LEMMA ReadingTypes ==
    ASSUME TypeInv, NEW c \in Callers,
           ReadBase(c) \/ ReadEntry(c) \/ ReadRole(c) \/ ReadOverwrites(c)
    PROVE  TypeInv'
<1>1. ASSUME NEW r, NEW stage, NEW mask, NEW todo, Set(c, r), Reads(call[c], r, stage, mask, todo),
             call[c].stage \in Checking,
             \/ stage \in {"entry", "role", "decide"} \/ stage = Onward(call[c]),
             UNCHANGED <<server, cache, events, waiting, readers, private, late, changes>>
      PROVE  TypeInv'
  <2>1. r \in Call /\ Fits(r, private)
    BY <1>1, ReadsFits DEF Reads
  <2> QED BY <1>1, <2>1, CallerTypes DEF TypeInv, TypeOK
<1>2. CASE ReadBase(c)
  BY <1>1, <1>2, ReadBaseForms DEF At, Checking
<1>3. CASE ReadEntry(c)
  BY <1>1, <1>3, ReadEntryForms DEF At, Checking
<1>4. CASE ReadRole(c)
  BY <1>1, <1>4, ReadRoleForms DEF At, Checking
<1>5. CASE ReadOverwrites(c)
  BY <1>1, <1>5, ReadOverwritesForms DEF At, Checking
<1> QED BY <1>2, <1>3, <1>4, <1>5

LEMMA DecideTypes ==
    ASSUME TypeInv, NEW c \in Callers, Decide(c)
    PROVE  TypeInv'
<1>1. Fits(call[c], private) /\ call[c].stage = "decide"
  BY CallAt, DecideForms DEF At
<1>2. ASSUME NEW r, NEW stage, NEW result, Set(c, r), Leaves(call[c], r, stage, result),
             stage = "done" \/ (stage = "posted" /\ call[c].row.of # "ids")
      PROVE  TypeInv'
  <2>1. call[c].row # Query => call[c].row.of = call[c].target /\ call[c].row \in Asked
    BY <1>1 DEF Fits
  <2>2. call[c].target \in {"guild", "channel"}
    BY <1>1 DEF Fits
  <2>3. stage = "posted" => call[c].row \in Asked
    BY <1>2, <2>1, AskedRows
  <2>4. call[c].row.opens => call[c].row \in Asked /\ call[c].row.of \in {"guild", "channel"}
    BY <2>1, <2>2, AskedRows
  <2>5. ~call[c].row.opens
    BY <2>4, AskedRows DEF RowOK
  <2>6. Fits(r, private)
    BY <1>1, <1>2, <2>3, <2>5 DEF Fits, Leaves, Checking
  <2> QED BY <1>2, <2>6, CallerTypes, DecideForms DEF TypeInv, TypeOK, Leaves
<1> QED BY <1>2, DecideForms

LEMMA PerformTypes ==
    ASSUME TypeInv, NEW c \in Callers, Perform(c)
    PROVE  TypeInv'
<1>1. PICK r, code : Set(c, r) /\ Answers(call[c], r, "served", code, call[c].opening)
  BY PerformForms
<1>2. Fits(r, private)
  BY <1>1, CallAt, PerformForms DEF Fits, Answers, Checking, At
<1>3. /\ server' \in ServerGuild /\ events' \in Seq(Event)
      /\ server'.owner = server.owner /\ server'.roles = server.roles
  <2>1. CASE UNCHANGED <<server, events>>
    BY <2>1 DEF TypeInv, TypeOK
  <2>2. CASE /\ server' = [server EXCEPT !.channels = @ \cup {c}]
             /\ events' = Append(events, [kind |-> "create", id |-> c])
    <3>1. [kind |-> "create", id |-> c] \in Event
      BY DEF Event
    <3>2. events' \in Seq(Event)
      BY <2>2, <3>1 DEF TypeInv, TypeOK
    <3>3. server' \in ServerGuild /\ server'.owner = server.owner /\ server'.roles = server.roles
      BY <2>2, Ids DEF TypeInv, TypeOK, ServerGuild
    <3> QED BY <3>2, <3>3
  <2> QED BY <2>1, <2>2, PerformForms
<1>4. r \in Call
  BY <1>1 DEF Answers
<1>5. UNCHANGED <<cache, waiting, readers, private, late, changes>>
  BY PerformForms
<1>6. cache' \in CacheGuild /\ Guild \in DOMAIN cache.roles' /\ cache.owner' = server.owner'
      /\ Guild \in DOMAIN server.roles'
  BY <1>3, <1>5 DEF TypeInv, TypeOK
<1> QED BY <1>1, <1>2, <1>3, <1>4, <1>5, <1>6, CallerTypes DEF TypeInv, TypeOK

LEMMA FinishTypes ==
    ASSUME TypeInv, NEW c \in Callers, Finish(c)
    PROVE  TypeInv'
<1>0. Fits(call[c], private) /\ call[c].stage = "served"
  BY CallAt, FinishForms DEF At
<1>1. PICK r \in Call : Set(c, r) /\
        \/ private' = TRUE /\ Answers(call[c], r, "posted", "none", FALSE)
        \/ private' = private /\ Leaves(call[c], r, "done", Outcome(c))
  BY FinishForms DEF Answers, Leaves
<1>2. Fits(r, private') /\ private' \in BOOLEAN /\ (private => private')
  <2>1. CASE private' = TRUE /\ Answers(call[c], r, "posted", "none", FALSE)
    BY <1>0, <2>1 DEF Fits, Answers, Checking
  <2>2. CASE private' = private /\ Leaves(call[c], r, "done", Outcome(c))
    BY <1>0, <2>2 DEF Fits, Leaves, Checking, TypeInv, TypeOK
  <2> QED BY <1>1, <2>1, <2>2
<1>3. /\ cache' \in CacheGuild /\ late' \in SUBSET Callers
      /\ cache'.owner = cache.owner /\ cache'.roles = cache.roles
  <2>1. CASE UNCHANGED <<cache, late>>
    BY <2>1 DEF TypeInv, TypeOK
  <2>2. CASE /\ cache' = [cache EXCEPT !.known = @ \cup {c}, !.linked = @ \cup {c}]
             /\ late' \subseteq late \cup {c}
    BY <2>2, Ids DEF TypeInv, TypeOK, CacheGuild
  <2> QED BY <2>1, <2>2, FinishForms
<1> QED BY <1>1, <1>2, <1>3, CallerTypes, FinishForms DEF TypeInv, TypeOK

LEMMA DisturbedCalls ==
    ASSUME call \in [Callers -> Call], call' = Disturbed
    PROVE  /\ call' \in [Callers -> Call]
           /\ \A c \in Callers :
                /\ ~call'[c].quiet
                /\ call'[c].row = call[c].row /\ call'[c].target = call[c].target
                /\ call'[c].stage = call[c].stage /\ call'[c].mask = call[c].mask
                /\ call'[c].todo = call[c].todo /\ call'[c].ever = call[c].ever
                /\ call'[c].always = call[c].always /\ call'[c].met = call[c].met
                /\ call'[c].torn = call[c].torn /\ call'[c].opening = call[c].opening
                /\ call'[c].code = call[c].code /\ call'[c].result = call[c].result
<1>1. ASSUME NEW c \in Callers
      PROVE  /\ call'[c] \in Call /\ ~call'[c].quiet
             /\ call'[c].row = call[c].row /\ call'[c].target = call[c].target
             /\ call'[c].stage = call[c].stage /\ call'[c].mask = call[c].mask
             /\ call'[c].todo = call[c].todo /\ call'[c].ever = call[c].ever
             /\ call'[c].always = call[c].always /\ call'[c].met = call[c].met
             /\ call'[c].torn = call[c].torn /\ call'[c].opening = call[c].opening
             /\ call'[c].code = call[c].code /\ call'[c].result = call[c].result
  <2>1. PICK k \in Call : k = call[c]
    OBVIOUS
  <2>2. PICK no : no = FALSE
    OBVIOUS
  <2>3. call'[c] = [k EXCEPT !.quiet = no]
    BY <2>1, <2>2 DEF Disturbed
  <2>4. [k EXCEPT !.quiet = no] \in Call
    BY <2>2 DEF Call
  <2>5. PICK r \in Call : r = [k EXCEPT !.quiet = no]
    BY <2>4
  <2>6. /\ r.quiet = no /\ r.row = k.row /\ r.target = k.target
        /\ r.stage = k.stage /\ r.mask = k.mask
        /\ r.todo = k.todo /\ r.ever = k.ever
        /\ r.always = k.always /\ r.met = k.met
        /\ r.torn = k.torn /\ r.opening = k.opening
        /\ r.code = k.code /\ r.result = k.result
    BY <2>5 DEF Call
  <2> QED BY <2>1, <2>2, <2>3, <2>5, <2>6
<1>2. call' \in [Callers -> Call]
  BY <1>1 DEF Disturbed
<1> QED BY <1>1, <1>2

(* What each change of the server sends and leaves. *)
LEMMA ChangeRoleForms ==
    ASSUME TypeInv, NEW r \in RoleIds, NEW p \in Masks, ChangeRole(r, p)
    PROVE  \E new \in ServerGuild :
             /\ ServerChange([kind |-> "role", id |-> r, mask |-> p], new)
             /\ r \in DOMAIN server.roles /\ DOMAIN new.roles = DOMAIN server.roles
             /\ new.roles[r] = p /\ \A i \in DOMAIN server.roles : i # r => new.roles[i] = server.roles[i]
             /\ new.owner = server.owner /\ new.held = server.held /\ new.over = server.over
             /\ new.channels = server.channels
<1>1. server \in ServerGuild /\ server.roles \in Tables(RoleIds, Masks)
  BY DEF TypeInv, TypeOK, ServerGuild
<1>2. PICK t : t = [server.roles EXCEPT ![r] = p]
  OBVIOUS
<1>3. /\ DOMAIN t = DOMAIN server.roles /\ (r \in DOMAIN server.roles => t[r] = p)
      /\ \A i \in DOMAIN server.roles : i # r => t[i] = server.roles[i]
      /\ t \in [DOMAIN server.roles -> Masks]
  BY <1>1, <1>2, TableElim
<1>4. t \in Tables(RoleIds, Masks)
  <2>1. DOMAIN server.roles \in SUBSET RoleIds
    BY <1>1, TableElim
  <2> QED BY <1>3, <2>1, TableIntro
<1>5. PICK new : new = [server EXCEPT !.roles = t]
  OBVIOUS
<1>6. /\ new \in ServerGuild /\ new.roles = t /\ new.owner = server.owner /\ new.held = server.held
      /\ new.over = server.over /\ new.channels = server.channels
  BY <1>1, <1>4, <1>5 DEF ServerGuild
<1>7. new = [server EXCEPT !.roles[r] = p]
  BY <1>1, <1>2, <1>5 DEF ServerGuild
<1>8. r \in DOMAIN server.roles /\ ServerChange([kind |-> "role", id |-> r, mask |-> p], new)
  BY <1>7 DEF ChangeRole
<1> QED BY <1>3, <1>6, <1>8

LEMMA DeleteRoleForms ==
    ASSUME TypeInv, NEW r \in Roles, DeleteRole(r)
    PROVE  \E new \in ServerGuild :
             /\ ServerChange([kind |-> "drop", id |-> r], new)
             /\ r \in DOMAIN server.roles
             /\ DOMAIN new.roles = DOMAIN server.roles \ {r}
             /\ \A i \in DOMAIN server.roles : i # r => new.roles[i] = server.roles[i]
             /\ DOMAIN new.over = DOMAIN server.over \ {r}
             /\ \A i \in DOMAIN server.over : i # r => new.over[i] = server.over[i]
             /\ new.owner = server.owner /\ new.held = server.held \ {r}
             /\ new.channels = server.channels
<1>1. /\ server \in ServerGuild /\ server.roles \in Tables(RoleIds, Masks)
      /\ server.over \in Tables(Named, Overwrites)
  BY DEF TypeInv, TypeOK, ServerGuild
<1>2. PICK t, o : /\ t = [i \in DOMAIN server.roles \ {r} |-> server.roles[i]]
                  /\ o = [i \in DOMAIN server.over \ {r} |-> server.over[i]]
  OBVIOUS
<1>3. /\ DOMAIN t = DOMAIN server.roles \ {r} /\ DOMAIN o = DOMAIN server.over \ {r}
      /\ \A i \in DOMAIN server.roles : i # r => t[i] = server.roles[i]
      /\ \A i \in DOMAIN server.over : i # r => o[i] = server.over[i]
  BY <1>2
<1>4. t \in Tables(RoleIds, Masks) /\ o \in Tables(Named, Overwrites)
  BY <1>1, <1>2, WithoutTable
<1>5. PICK h, new : /\ h = server.held \ {r}
                    /\ new = [server EXCEPT !.roles = t, !.held = h, !.over = o]
  OBVIOUS
<1>6. /\ new \in ServerGuild /\ new.roles = t /\ new.owner = server.owner /\ new.held = h
      /\ new.over = o /\ new.channels = server.channels
  BY <1>1, <1>4, <1>5 DEF ServerGuild
<1>7. new = [server EXCEPT !.roles = [i \in DOMAIN @ \ {r} |-> @[i]],
                           !.held = @ \ {r},
                           !.over = [i \in DOMAIN @ \ {r} |-> @[i]]]
  BY <1>1, <1>2, <1>5 DEF ServerGuild
<1>8. r \in DOMAIN server.roles /\ ServerChange([kind |-> "drop", id |-> r], new)
  BY <1>7 DEF DeleteRole
<1> QED BY <1>3, <1>5, <1>6, <1>8

LEMMA ChangeMemberForms ==
    ASSUME TypeInv, NEW H, ChangeMember(H)
    PROVE  \E new \in ServerGuild, h \in SUBSET RoleIds :
             /\ ServerChange([kind |-> "member", held |-> h], new)
             /\ h \subseteq DOMAIN server.roles /\ new.held = h
             /\ new.owner = server.owner /\ new.roles = server.roles
             /\ new.over = server.over /\ new.channels = server.channels
<1>1. server \in ServerGuild /\ DOMAIN server.roles \in SUBSET RoleIds /\ Guild \in DOMAIN server.roles
  BY TableElim DEF TypeInv, TypeOK, ServerGuild
<1>2. PICK h \in SUBSET RoleIds : h = H \cup {Guild}
  BY <1>1 DEF ChangeMember
<1>3. PICK new : new = [server EXCEPT !.held = h]
  OBVIOUS
<1>4. /\ new \in ServerGuild /\ new.held = h /\ new.owner = server.owner
      /\ new.roles = server.roles /\ new.over = server.over /\ new.channels = server.channels
  BY <1>1, <1>3 DEF ServerGuild
<1>5. ServerChange([kind |-> "member", held |-> h], new)
  BY <1>2, <1>3 DEF ChangeMember
<1>6. h \subseteq DOMAIN server.roles
  BY <1>1, <1>2 DEF ChangeMember
<1> QED BY <1>4, <1>5, <1>6

LEMMA ChangeOverwriteForms ==
    ASSUME TypeInv, NEW i \in Named, NEW o \in Overwrites, ChangeOverwrite(i, o)
    PROVE  \E new \in ServerGuild :
             /\ new.over \in Tables(Named, Overwrites)
             /\ ServerChange([kind |-> "over", over |-> new.over], new)
             /\ new.owner = server.owner /\ new.roles = server.roles
             /\ new.held = server.held /\ new.channels = server.channels
<1>1. server \in ServerGuild /\ server.over \in Tables(Named, Overwrites)
  BY DEF TypeInv, TypeOK, ServerGuild
<1>2. PICK t : t = With(server.over, i, o)
  OBVIOUS
<1>3. t \in Tables(Named, Overwrites)
  BY <1>1, <1>2, WithTable
<1>4. PICK new : new = [server EXCEPT !.over = t]
  OBVIOUS
<1>5. /\ new \in ServerGuild /\ new.held = server.held /\ new.owner = server.owner
      /\ new.roles = server.roles /\ new.over = t /\ new.channels = server.channels
  BY <1>1, <1>3, <1>4 DEF ServerGuild
<1>6. new = [server EXCEPT !.over = With(@, i, o)]
  BY <1>1, <1>2, <1>4 DEF ServerGuild
<1>7. ServerChange([kind |-> "over", over |-> t], new)
  BY <1>2, <1>6 DEF ChangeOverwrite
<1> QED BY <1>3, <1>5, <1>7

LEMMA DeleteChannelForms ==
    ASSUME TypeInv, NEW ch \in Channels, DeleteChannel(ch)
    PROVE  \E new \in ServerGuild :
             /\ ServerChange([kind |-> "delete", id |-> ch], new)
             /\ ch \in server.channels /\ new.channels = server.channels \ {ch}
             /\ new.owner = server.owner /\ new.roles = server.roles
             /\ new.held = server.held /\ new.over = server.over
<1>1. server \in ServerGuild
  BY DEF TypeInv, TypeOK
<1>2. PICK n : n = server.channels \ {ch}
  OBVIOUS
<1>4. PICK new : new = [server EXCEPT !.channels = n]
  OBVIOUS
<1>5. /\ new \in ServerGuild /\ new.held = server.held /\ new.owner = server.owner
      /\ new.roles = server.roles /\ new.over = server.over /\ new.channels = n
  BY <1>1, <1>2, <1>4 DEF ServerGuild
<1>6. new = [server EXCEPT !.channels = @ \ {ch}]
  BY <1>1, <1>2, <1>4 DEF ServerGuild
<1>7. ch \in server.channels /\ ServerChange([kind |-> "delete", id |-> ch], new)
  BY <1>6 DEF DeleteChannel
<1> QED BY <1>2, <1>5, <1>7

LEMMA ServerChangeTypes ==
    ASSUME TypeInv, NEW e \in Event, NEW new \in ServerGuild, ServerChange(e, new),
           Guild \in DOMAIN new.roles, new.owner = server.owner
    PROVE  TypeInv'
<1>1. /\ server' = new /\ events' = Append(events, e) /\ call' = Disturbed
      /\ changes' = changes + 1 /\ changes < MaxChanges
      /\ UNCHANGED <<cache, waiting, readers, private, late>>
  BY DEF ServerChange, Send
<1>2. call' \in [Callers -> Call]
  BY <1>1, DisturbedCalls DEF TypeInv, TypeOK
<1>3. \A c \in Callers : Placed(c)'
  BY <1>1, DisturbedCalls DEF TypeInv, TypeOK, Placed, Fits
<1>4. changes' \in 0..MaxChanges
  BY <1>1, ApiAssumption DEF TypeInv, TypeOK
<1>5. events' \in Seq(Event)
  BY <1>1 DEF TypeInv, TypeOK
<1> QED BY <1>1, <1>2, <1>3, <1>4, <1>5 DEF TypeInv, TypeOK

LEMMA EventSorts ==
    /\ \A r \in RoleIds, p \in Masks : [kind |-> "role", id |-> r, mask |-> p] \in Event
    /\ \A r \in Roles : [kind |-> "drop", id |-> r] \in Event
    /\ \A h \in SUBSET RoleIds : [kind |-> "member", held |-> h] \in Event
    /\ \A o \in Tables(Named, Overwrites) : [kind |-> "over", over |-> o] \in Event
    /\ \A c \in Callers : [kind |-> "create", id |-> c] \in Event
    /\ \A ch \in Channels : [kind |-> "delete", id |-> ch] \in Event
BY DEF Event

LEMMA ServerChangesTypes ==
    ASSUME TypeInv, ServerChanges
    PROVE  TypeInv'
<1>0. Guild \in DOMAIN server.roles /\ Guild \notin Roles
  BY Ids DEF TypeInv, TypeOK
<1>1. ASSUME NEW r \in RoleIds, NEW p \in Masks, ChangeRole(r, p) PROVE TypeInv'
  <2>1. PICK e \in Event : e = [kind |-> "role", id |-> r, mask |-> p]
    BY EventSorts
  <2>2. PICK new \in ServerGuild : /\ ServerChange(e, new) /\ DOMAIN new.roles = DOMAIN server.roles
                                   /\ new.owner = server.owner
    BY <1>1, <2>1, ChangeRoleForms
  <2> QED BY <1>0, <2>2, ServerChangeTypes
<1>2. ASSUME NEW r \in Roles, DeleteRole(r) PROVE TypeInv'
  <2>1. PICK e \in Event : e = [kind |-> "drop", id |-> r]
    BY EventSorts
  <2>2. PICK new \in ServerGuild : /\ ServerChange(e, new)
                                   /\ DOMAIN new.roles = DOMAIN server.roles \ {r}
                                   /\ new.owner = server.owner
    BY <1>2, <2>1, DeleteRoleForms
  <2> QED BY <1>0, <2>2, ServerChangeTypes
<1>3. ASSUME NEW H, ChangeMember(H) PROVE TypeInv'
  BY <1>0, <1>3, ChangeMemberForms, ServerChangeTypes, EventSorts
<1>4. ASSUME NEW i \in Named, NEW o \in Overwrites, ChangeOverwrite(i, o) PROVE TypeInv'
  BY <1>0, <1>4, ChangeOverwriteForms, ServerChangeTypes, EventSorts
<1>5. ASSUME NEW ch \in Channels, DeleteChannel(ch) PROVE TypeInv'
  <2>1. PICK e \in Event : e = [kind |-> "delete", id |-> ch]
    BY EventSorts
  <2>2. PICK new \in ServerGuild : /\ ServerChange(e, new) /\ new.roles = server.roles
                                   /\ new.owner = server.owner
    BY <1>5, <2>1, DeleteChannelForms
  <2> QED BY <1>0, <2>2, ServerChangeTypes
<1> QED BY <1>1, <1>2, <1>3, <1>4, <1>5 DEF ServerChanges, Named

LEMMA EventParts ==
    ASSUME NEW e \in Event
    PROVE  /\ e.kind \in {"role", "drop", "member", "over", "create", "delete"}
           /\ e.kind = "role" => e.id \in RoleIds /\ e.mask \in Masks
           /\ e.kind = "drop" => e.id \in Roles
           /\ e.kind = "member" => e.held \in SUBSET RoleIds
           /\ e.kind = "over" => e.over \in Tables(Named, Overwrites)
           /\ e.kind = "create" => e.id \in Callers
           /\ e.kind = "delete" => e.id \in Channels
BY DEF Event

(* What an event does to the cache. *)
LEMMA AfterParts ==
    ASSUME TypeInv, NEW e \in Event
    PROVE  /\ After(e) \in CacheGuild /\ After(e).owner = cache.owner
           /\ e.kind = "role" =>
                /\ DOMAIN After(e).roles = DOMAIN cache.roles \cup {e.id}
                /\ After(e).roles[e.id] = e.mask
                /\ \A i \in DOMAIN cache.roles : i # e.id => After(e).roles[i] = cache.roles[i]
           /\ e.kind = "drop" =>
                /\ DOMAIN After(e).roles = DOMAIN cache.roles \ {e.id}
                /\ \A i \in DOMAIN cache.roles : i # e.id => After(e).roles[i] = cache.roles[i]
           /\ e.kind \notin {"role", "drop"} => After(e).roles = cache.roles
           /\ After(e).held = IF e.kind = "member" THEN e.held ELSE cache.held
           /\ After(e).over = IF e.kind = "over" THEN e.over ELSE cache.over
           /\ e.kind = "create" =>
                /\ After(e).known = cache.known \cup {e.id}
                /\ After(e).listed = cache.listed \cup {e.id}
                /\ After(e).linked = cache.linked \cup {e.id}
           /\ e.kind = "delete" =>
                /\ After(e).known = cache.known \ {e.id}
                /\ After(e).listed = cache.listed \ {e.id}
                /\ After(e).linked = cache.linked \ {e.id}
           /\ e.kind \notin {"create", "delete"} =>
                /\ After(e).known = cache.known /\ After(e).listed = cache.listed
                /\ After(e).linked = cache.linked
<1>1. /\ cache \in CacheGuild /\ cache.roles \in Tables(RoleIds, Masks)
      /\ cache.over \in Tables(Named, Overwrites)
  BY DEF TypeInv, TypeOK, CacheGuild
<1>2. CASE e.kind = "role"
  <2>1. PICK t : t = With(cache.roles, e.id, e.mask)
    OBVIOUS
  <2>2. /\ t \in Tables(RoleIds, Masks) /\ DOMAIN t = DOMAIN cache.roles \cup {e.id} /\ t[e.id] = e.mask
        /\ \A i \in DOMAIN cache.roles : i # e.id => t[i] = cache.roles[i]
    <3>1. e.id \in RoleIds /\ e.mask \in Masks
      BY <1>2, EventParts
    <3>2. t \in Tables(RoleIds, Masks)
      BY <1>1, <2>1, <3>1, WithTable
    <3>3. PICK f, x, v : f = cache.roles /\ x = e.id /\ v = e.mask
      OBVIOUS
    <3>4. /\ DOMAIN With(f, x, v) = DOMAIN f \cup {x} /\ With(f, x, v)[x] = v
          /\ \A i \in DOMAIN f : i # x => With(f, x, v)[i] = f[i]
      BY DEF With
    <3> QED BY <2>1, <3>2, <3>3, <3>4
  <2>3. PICK new : new = [cache EXCEPT !.roles = t]
    OBVIOUS
  <2>4. /\ new \in CacheGuild /\ new.owner = cache.owner /\ new.roles = t /\ new.held = cache.held
        /\ new.over = cache.over /\ new.known = cache.known /\ new.listed = cache.listed
        /\ new.linked = cache.linked
    BY <1>1, <2>2, <2>3 DEF CacheGuild
  <2>5. After(e) = new
    BY <1>1, <1>2, <2>1, <2>3 DEF After, CacheGuild
  <2> QED BY <1>2, <2>2, <2>4, <2>5
<1>3. CASE e.kind = "drop"
  <2>1. PICK t : t = [i \in DOMAIN cache.roles \ {e.id} |-> cache.roles[i]]
    OBVIOUS
  <2>2. /\ t \in Tables(RoleIds, Masks) /\ DOMAIN t = DOMAIN cache.roles \ {e.id}
        /\ \A i \in DOMAIN cache.roles : i # e.id => t[i] = cache.roles[i]
    BY <1>1, <2>1, WithoutTable
  <2>3. PICK new : new = [cache EXCEPT !.roles = t]
    OBVIOUS
  <2>4. /\ new \in CacheGuild /\ new.owner = cache.owner /\ new.roles = t /\ new.held = cache.held
        /\ new.over = cache.over /\ new.known = cache.known /\ new.listed = cache.listed
        /\ new.linked = cache.linked
    BY <1>1, <2>2, <2>3 DEF CacheGuild
  <2>5. After(e) = new
    BY <1>1, <1>3, <2>1, <2>3 DEF After, RemoveRole, CacheGuild
  <2> QED BY <1>3, <2>2, <2>4, <2>5
<1>4. CASE e.kind = "member"
  <2>1. PICK new : new = [cache EXCEPT !.held = e.held]
    OBVIOUS
  <2>2. /\ new \in CacheGuild /\ new.owner = cache.owner /\ new.roles = cache.roles /\ new.held = e.held
        /\ new.over = cache.over /\ new.known = cache.known /\ new.listed = cache.listed
        /\ new.linked = cache.linked
    BY <1>1, <1>4, <2>1, EventParts DEF CacheGuild
  <2>3. After(e) = new
    BY <1>4, <2>1 DEF After
  <2> QED BY <1>4, <2>2, <2>3
<1>5. CASE e.kind = "over"
  <2>1. PICK new : new = [cache EXCEPT !.over = e.over]
    OBVIOUS
  <2>2. /\ new \in CacheGuild /\ new.owner = cache.owner /\ new.roles = cache.roles
        /\ new.held = cache.held /\ new.over = e.over /\ new.known = cache.known
        /\ new.listed = cache.listed /\ new.linked = cache.linked
    BY <1>1, <1>5, <2>1, EventParts DEF CacheGuild
  <2>3. After(e) = new
    BY <1>5, <2>1 DEF After
  <2> QED BY <1>5, <2>2, <2>3
<1>6. CASE e.kind = "create"
  <2>1. PICK new : new = [cache EXCEPT !.known = @ \cup {e.id}, !.listed = @ \cup {e.id},
                                       !.linked = @ \cup {e.id}]
    OBVIOUS
  <2>4. e.id \in Channels
    BY <1>6, EventParts, Ids
  <2>2. /\ new \in CacheGuild /\ new.owner = cache.owner /\ new.roles = cache.roles
        /\ new.held = cache.held /\ new.over = cache.over /\ new.known = cache.known \cup {e.id}
        /\ new.listed = cache.listed \cup {e.id} /\ new.linked = cache.linked \cup {e.id}
    BY <1>1, <2>1, <2>4 DEF CacheGuild
  <2>3. After(e) = new
    BY <1>6, <2>1 DEF After, CreateChannel
  <2> QED BY <1>6, <2>2, <2>3
<1>7. CASE e.kind = "delete"
  <2>1. PICK new : new = [cache EXCEPT !.known = @ \ {e.id}, !.listed = @ \ {e.id},
                                       !.linked = @ \ {e.id}]
    OBVIOUS
  <2>2. /\ new \in CacheGuild /\ new.owner = cache.owner /\ new.roles = cache.roles
        /\ new.held = cache.held /\ new.over = cache.over /\ new.known = cache.known \ {e.id}
        /\ new.listed = cache.listed \ {e.id} /\ new.linked = cache.linked \ {e.id}
    BY <1>1, <2>1 DEF CacheGuild
  <2>3. After(e) = new
    BY <1>7, <2>1 DEF After, RemoveChannel
  <2> QED BY <1>7, <2>2, <2>3
<1> QED BY <1>2, <1>3, <1>4, <1>5, <1>6, <1>7, EventParts

(* What a call becomes when an event is handled. *)
Meets(k, r, e) ==
    /\ r.row = k.row /\ r.target = k.target /\ r.stage = k.stage /\ r.mask = k.mask
    /\ r.todo = k.todo /\ r.quiet = k.quiet /\ r.opening = k.opening /\ r.code = k.code
    /\ r.result = k.result
    /\ k.stage \in Checking =>
         /\ r.met = (IF e.kind \in {"role", "drop"} THEN k.met + 1 ELSE k.met)
         /\ r.torn <=> (k.torn \/ e.kind \in {"member", "over"})
         /\ r.ever = k.ever \cup MaskOfRest(After(e), k.target)
         /\ r.always = k.always \cap Mask(After(e), k.target)
    /\ k.stage \notin Checking => r = k

LEMMA AfterMasks ==
    ASSUME TypeInv, NEW e \in Event, NEW target
    PROVE  MaskOfRest(After(e), target) \subseteq Bit
<1>1. PICK g : g = After(e)
  OBVIOUS
<1>2. g \in CacheGuild
  BY <1>1, AfterParts
<1>3. g.roles \in Tables(RoleIds, Masks) /\ g.over \in Tables(Named, Overwrites)
  BY <1>2 DEF CacheGuild
<1>4. /\ \A r \in DOMAIN g.roles : g.roles[r] \subseteq Bit
      /\ \A i \in DOMAIN g.over : g.over[i].allow \subseteq Bit
  BY <1>3, TableElim, ApiAssumption
<1> QED BY <1>1, <1>4, MasksAreBits DEF MaskOfRest, MaskBy

LEMMA HandleForms ==
    ASSUME TypeInv, HandleEvent
    PROVE  /\ events # <<>> /\ events' = Tail(events) /\ waiting' = FALSE
           /\ UNCHANGED <<server, readers, private, late, changes>>
           /\ Head(events) \in Event
           /\ Locks(Head(events)) => readers = {}
           /\ cache' = After(Head(events))
           /\ call' \in [Callers -> Call]
           /\ \A c \in Callers : Meets(call[c], call'[c], Head(events))
<1>1. /\ events # <<>> /\ events' = Tail(events) /\ waiting' = FALSE
      /\ UNCHANGED <<server, readers, private, late, changes>>
      /\ Locks(Head(events)) => readers = {}
      /\ cache' = After(Head(events))
      /\ call' = [c \in Callers |-> Met(c, Head(events))]
  BY DEF HandleEvent
<1>2. PICK e \in Event : e = Head(events)
  BY <1>1 DEF TypeInv, TypeOK
<1>3. ASSUME NEW c \in Callers
      PROVE  Met(c, e) \in Call /\ Meets(call[c], Met(c, e), e)
  <2>1. PICK k \in Call : k = call[c]
    BY CallAt
  <2>2. CASE k.stage \notin Checking
    BY <2>1, <2>2 DEF Met, Meets, Checking
  <2>3. CASE k.stage \in Checking
    <3>1. PICK met, torn, ever, always :
            /\ met = (IF e.kind \in {"role", "drop"} THEN k.met + 1 ELSE k.met)
            /\ torn = (k.torn \/ e.kind \in {"member", "over"})
            /\ ever = k.ever \cup MaskOfRest(After(e), k.target)
            /\ always = k.always \cap Mask(After(e), k.target)
      OBVIOUS
    <3>2. met \in Nat /\ torn \in BOOLEAN /\ ever \in SUBSET Bit /\ always \in SUBSET Bit
      <4>1. k.met \in Nat /\ k.ever \in SUBSET Bit /\ k.always \in SUBSET Bit
        BY DEF Call
      <4> QED BY <3>1, <4>1, AfterMasks
    <3>3. PICK r : r = [k EXCEPT !.met = met, !.torn = torn, !.ever = ever, !.always = always]
      OBVIOUS
    <3>4. /\ r.row = k.row /\ r.target = k.target /\ r.stage = k.stage /\ r.mask = k.mask
          /\ r.todo = k.todo /\ r.quiet = k.quiet /\ r.opening = k.opening /\ r.code = k.code
          /\ r.result = k.result /\ r.met = met /\ r.torn = torn /\ r.ever = ever /\ r.always = always
          /\ r \in Call
      BY <3>2, <3>3 DEF Call
    <3>5. Met(c, e) = r
      BY <2>1, <2>3, <3>1, <3>3 DEF Met, Checking
    <3>6. Meets(k, r, e)
      BY <2>3, <3>1, <3>4 DEF Meets
    <3> QED BY <2>1, <3>4, <3>5, <3>6
  <2> QED BY <2>2, <2>3
<1> QED BY <1>1, <1>2, <1>3

LEMMA HandleTypes ==
    ASSUME TypeInv, HandleEvent
    PROVE  TypeInv'
<1>1. PICK e \in Event : e = Head(events)
  BY HandleForms
<1>2. cache' = After(e) /\ events' = Tail(events)
  BY <1>1, HandleForms
<1>3. cache' \in CacheGuild /\ cache'.owner = cache.owner
  BY <1>2, AfterParts
<1>4. Guild \in DOMAIN cache'.roles
  <2>1. Guild \in DOMAIN cache.roles /\ Guild \notin Roles
    BY Ids DEF TypeInv, TypeOK
  <2>2. CASE e.kind = "role"
    BY <1>2, <2>1, <2>2, AfterParts
  <2>3. CASE e.kind = "drop"
    BY <1>2, <2>1, <2>3, AfterParts, EventParts
  <2>4. CASE e.kind \notin {"role", "drop"}
    BY <1>2, <2>1, <2>4, AfterParts
  <2> QED BY <2>2, <2>3, <2>4
<1>5. events' \in Seq(Event)
  <2>1. events \in Seq(Event) /\ events # <<>>
    BY HandleForms DEF TypeInv, TypeOK
  <2> QED BY <1>2, <2>1, HeadTailProperties
<1>6. ASSUME NEW c \in Callers PROVE Placed(c)'
  <2>1. Meets(call[c], call'[c], e) /\ private' = private
    BY <1>1, HandleForms
  <2>2. Fits(call[c], private)
    BY CallAt
  <2>3. Fits(call'[c], private)
    BY <2>1, <2>2 DEF Fits, Meets
  <2> QED BY <2>1, <2>3 DEF Placed
<1> QED BY <1>3, <1>4, <1>5, <1>6, HandleForms DEF TypeInv, TypeOK

LEMMA WaitTypes ==
    ASSUME TypeInv, WaitForGuild
    PROVE  TypeInv'
BY DEF WaitForGuild, TypeInv, TypeOK, Placed

LEMMA NextTypes ==
    ASSUME TypeInv, [Next]_vars
    PROVE  TypeInv'
<1>1. CASE ServerChanges
  BY <1>1, ServerChangesTypes
<1>2. CASE WaitForGuild
  BY <1>2, WaitTypes
<1>3. CASE HandleEvent
  BY <1>3, HandleTypes
<1>4. ASSUME NEW c \in Callers, Caller(c) PROVE TypeInv'
  BY <1>4, BeginTypes, ReadingTypes, DecideTypes, PerformTypes, FinishTypes DEF Caller
<1>5. CASE UNCHANGED vars
  BY <1>5 DEF vars, TypeInv, TypeOK, Placed
<1> QED BY <1>1, <1>2, <1>3, <1>4, <1>5 DEF Next, Gateway

(* The states have their types, and no call is where its row and its target do not let it
   be: a call is checked only against what its operation names, a request is posted by an
   operation that has one, and one that opens a private channel is posted for its message
   only once that channel is known. *)
THEOREM ApiTypes == Spec => []TypeInv
<1>1. Init => TypeInv
  BY InitTypes
<1>2. TypeInv /\ [Next]_vars => TypeInv'
  BY NextTypes
<1> QED BY <1>1, <1>2, PTL DEF Spec

-----------------------------------------------------------------------------
(* No call ends the program. *)

EndInv ==
    /\ NoTerminate
    /\ \A c \in Callers : call[c].stage # "done" => call[c].result = "none"

(* Main does not come back into the cache: the only channels that are created are those
   of the callers. *)
LEMMA MainStaysGone ==
    ASSUME TypeInv, [Next]_vars, Main \notin cache.known
    PROVE  Main \notin cache.known'
<1>1. CASE ServerChanges
  BY <1>1 DEF ServerChanges, ChangeRole, DeleteRole, ChangeMember, ChangeOverwrite, DeleteChannel,
              ServerChange
<1>2. CASE WaitForGuild
  BY <1>2 DEF WaitForGuild
<1>3. CASE HandleEvent
  <2>1. PICK e \in Event : e = Head(events) /\ cache' = After(e)
    BY <1>3, HandleForms
  <2>2. CASE e.kind = "create"
    BY <2>1, <2>2, EventParts, AfterParts, Ids
  <2>3. CASE e.kind # "create"
    BY <2>1, <2>3, AfterParts
  <2> QED BY <2>2, <2>3
<1>4. ASSUME NEW c \in Callers, Caller(c) PROVE Main \notin cache.known'
  <2>1. CASE Finish(c)
    <3>1. CASE UNCHANGED cache
      BY <3>1
    <3>2. CASE cache' = [cache EXCEPT !.known = @ \cup {c}, !.linked = @ \cup {c}]
      BY <3>2, Ids DEF TypeInv, TypeOK, CacheGuild
    <3> QED BY <2>1, <3>1, <3>2, FinishForms
  <2>2. CASE ~Finish(c)
    BY <1>4, <2>2 DEF Caller, Begin, ReadBase, ReadEntry, ReadRole, ReadOverwrites, Reading, Decide,
                      Perform
  <2> QED BY <2>1, <2>2
<1>5. CASE UNCHANGED vars
  BY <1>5 DEF vars
<1> QED BY <1>1, <1>2, <1>3, <1>4, <1>5 DEF Next, Gateway

(* What NoTerminate says of one call. *)
EndsWell(k, known) ==
    /\ k.result = "terminate" =>
         \/ k.row.alone = "terminate" /\ k.target = "private"
         \/ k.row.reply = "message" /\ (k.code = "empty" \/ Main \notin known)
    /\ k.stage # "done" => k.result = "none"

LEMMA EndCaller ==
    ASSUME TypeInv, EndInv, NEW c \in Callers, Caller(c)
    PROVE  EndsWell(call'[c], cache'.known) /\ (\A d \in Callers : d # c => call'[d] = call[d])
<1>0. EndsWell(call[c], cache.known) /\ Fits(call[c], private)
  BY CallAt DEF EndInv, NoTerminate, EndsWell
<1>1. ASSUME NEW r, Set(c, r)
      PROVE  call'[c] = r /\ (\A d \in Callers : d # c => call'[d] = call[d])
  BY <1>1 DEF Set, TypeInv, TypeOK
<1>2. CASE Begin(c)
  <2>1. ASSUME NEW row, NEW target, NEW stage, NEW result, NEW opening,
               Set(c, Begun(row, target, stage, result, opening)),
               result = "terminate" => row.alone = "terminate" /\ target = "private",
               stage # "done" => result = "none"
        PROVE  EndsWell(call'[c], cache'.known) /\ (\A d \in Callers : d # c => call'[d] = call[d])
    <3>1. PICK b : b = Begun(row, target, stage, result, opening)
      OBVIOUS
    <3>2. b.row = row /\ b.target = target /\ b.stage = stage /\ b.result = result
      BY <3>1 DEF Begun
    <3> QED BY <1>1, <2>1, <3>1, <3>2 DEF EndsWell
  <2>2. PICK row, target, stage, result, opening :
          /\ Set(c, Begun(row, target, stage, result, opening))
          /\ result = "terminate" => row.alone = "terminate" /\ target = "private"
          /\ stage # "done" => result = "none"
    <3>1. CASE \E row \in Asked \cup {Query}, target \in Target, result \in Result :
                 /\ Set(c, Begun(row, target, "done", result, FALSE)) /\ Failed(row, target, result)
      <4>1. PICK row \in Asked \cup {Query}, target \in Target, result \in Result :
                 /\ Set(c, Begun(row, target, "done", result, FALSE)) /\ Failed(row, target, result)
        BY <3>1
      <4>2. result = "terminate" => row.alone = "terminate" /\ target = "private"
        BY <4>1 DEF Failed
      <4> QED BY <4>1, <4>2
    <3>2. CASE \E row \in Asked \cup {Query}, target \in Target, opening \in BOOLEAN :
                 Set(c, Begun(row, target, "posted", "none", opening))
      <4>1. PICK row \in Asked \cup {Query}, target \in Target, opening \in BOOLEAN :
                 Set(c, Begun(row, target, "posted", "none", opening))
        BY <3>2
      <4> QED BY <4>1, Zenon
    <3>3. CASE \E row \in Asked \cup {Query}, target \in Target :
                 Set(c, Begun(row, target, "base", "none", FALSE))
      BY <3>3
    <3> QED BY <1>2, <3>1, <3>2, <3>3, BeginForms
  <2> QED BY <2>1, <2>2
<1>3. ASSUME NEW r, NEW stage, NEW mask, NEW todo, Set(c, r), Reads(call[c], r, stage, mask, todo),
             call[c].stage # "done", UNCHANGED cache
      PROVE  EndsWell(call'[c], cache'.known) /\ (\A d \in Callers : d # c => call'[d] = call[d])
  BY <1>0, <1>1, <1>3 DEF EndsWell, Reads, Kept
<1>4. CASE ReadBase(c)
  BY <1>3, <1>4, ReadBaseForms DEF At
<1>5. CASE ReadEntry(c)
  BY <1>3, <1>5, ReadEntryForms DEF At
<1>6. CASE ReadRole(c)
  BY <1>3, <1>6, ReadRoleForms DEF At
<1>7. CASE ReadOverwrites(c)
  BY <1>3, <1>7, ReadOverwritesForms DEF At
<1>8. ASSUME NEW r, NEW stage, NEW result, Set(c, r), Leaves(call[c], r, stage, result),
             call[c].stage # "done",
             result = "terminate" => call[c].row.reply = "message"
                                     /\ (call[c].code = "empty" \/ Main \notin cache'.known),
             stage # "done" => result = "none"
      PROVE  EndsWell(call'[c], cache'.known) /\ (\A d \in Callers : d # c => call'[d] = call[d])
  BY <1>1, <1>8 DEF EndsWell, Leaves
<1>9. CASE Decide(c)
  <2>1. call[c].stage = "decide" /\ call[c].result = "none"
    BY <1>0, <1>9, DecideForms DEF At, EndsWell
  <2>2. call[c].row.fails # "terminate"
    <3>1. call[c].row \in Asked \cup {Open, Query}
      BY CallAt DEF Call
    <3> QED BY <3>1, AskedRows DEF RowOK, Failure
  <2> QED BY <1>8, <1>9, <2>1, <2>2, DecideForms
<1>10. CASE Perform(c)
  <2>1. PICK r, code : Set(c, r) /\ Answers(call[c], r, "served", code, call[c].opening)
    BY <1>10, PerformForms
  <2>2. call[c].result = "none"
    BY <1>0, <1>10, PerformForms DEF At, EndsWell
  <2> QED BY <1>1, <2>1, <2>2 DEF EndsWell, Answers
<1>11. CASE Finish(c)
  <2>1. call[c].stage = "served" /\ call[c].result = "none"
    BY <1>0, <1>11, FinishForms DEF At, EndsWell
  <2>2. PICK r : Set(c, r) /\
          \/ Answers(call[c], r, "posted", "none", FALSE)
          \/ Leaves(call[c], r, "done", Outcome(c))
    BY <1>11, FinishForms
  <2>3. Outcome(c) = "terminate" =>
          call[c].row.reply = "message" /\ (call[c].code = "empty" \/ Main \notin cache.known)
    BY <1>0, <2>1 DEF Outcome, NoChannel, Fits
  <2>4. Main \notin cache.known => Main \notin cache'.known
    BY <1>11, MainStaysGone DEF Next, Caller
  <2>5. CASE Answers(call[c], r, "posted", "none", FALSE)
    BY <1>1, <2>1, <2>2, <2>5 DEF EndsWell, Answers
  <2>6. CASE Leaves(call[c], r, "done", Outcome(c))
    BY <1>8, <2>1, <2>2, <2>3, <2>4, <2>6
  <2> QED BY <2>2, <2>5, <2>6
<1> QED BY <1>2, <1>4, <1>5, <1>6, <1>7, <1>9, <1>10, <1>11 DEF Caller

LEMMA EndNext ==
    ASSUME TypeInv, EndInv, [Next]_vars
    PROVE  EndInv'
<1>0. \A c \in Callers : EndsWell(call[c], cache.known)
  BY DEF EndInv, NoTerminate, EndsWell
<1>1. SUFFICES \A c \in Callers : EndsWell(call'[c], cache'.known)
  BY DEF EndInv, NoTerminate, EndsWell
<1>2. Main \notin cache.known => Main \notin cache'.known
  BY MainStaysGone
<1>3. \A c \in Callers : EndsWell(call[c], cache'.known)
  BY <1>0, <1>2 DEF EndsWell
<1>4. CASE ServerChanges
  <2>1. call' = Disturbed
    BY <1>4 DEF ServerChanges, ChangeRole, DeleteRole, ChangeMember, ChangeOverwrite, DeleteChannel,
                ServerChange
  <2> QED BY <1>3, <2>1, DisturbedCalls DEF EndsWell, TypeInv, TypeOK
<1>5. CASE WaitForGuild \/ UNCHANGED vars
  BY <1>3, <1>5 DEF WaitForGuild, vars
<1>6. CASE HandleEvent
  BY <1>3, <1>6, HandleForms DEF EndsWell, Meets
<1>7. ASSUME NEW c \in Callers, Caller(c) PROVE \A d \in Callers : EndsWell(call'[d], cache'.known)
  BY <1>3, <1>7, EndCaller
<1> QED BY <1>4, <1>5, <1>6, <1>7 DEF Next, Gateway

(* No call ends the program, but a message whose channel was deleted before its reply came or
   whose reply was empty, and core::create_message for a private channel: the private
   channel create_dm_message opens on the way is known in time, and no check, no failure of
   an operation by itself and no answer without a message ends it (message.hpp:76 and 102,
   core.cpp:2231). *)
THEOREM NothingElseTerminates == Spec => []NoTerminate
<1>1. Init => EndInv
  BY DEF Init, EndInv, NoTerminate, NoCall
<1>2. TypeInv /\ EndInv /\ [Next]_vars => EndInv'
  BY EndNext
<1>3. EndInv => NoTerminate
  BY DEF EndInv
<1> QED BY <1>1, <1>2, <1>3, ApiTypes, PTL DEF Spec

-----------------------------------------------------------------------------
(* The queue of events: what the last event about something says. *)

(* Appending an event and handling one, as the invariants see the queue. *)
LEMMA Appended ==
    ASSUME events \in Seq(Event), NEW e \in Event, events' = Append(events, e)
    PROVE  /\ DOMAIN events' = DOMAIN events \cup {Len(events) + 1}
           /\ events'[Len(events) + 1] = e
           /\ \A i \in DOMAIN events : events'[i] = events[i] /\ i < Len(events) + 1
           /\ DOMAIN events \subseteq Nat /\ Len(events) + 1 \in Nat /\ events' \in Seq(Event)
<1>1. /\ Len(events') = Len(events) + 1
      /\ \A i \in 1 .. Len(events) : events'[i] = events[i]
      /\ events'[Len(events) + 1] = e
  BY AppendProperties
<1>2. DOMAIN events = 1 .. Len(events) /\ DOMAIN events' = 1 .. Len(events) + 1 /\ Len(events) \in Nat
  BY <1>1
<1> QED BY <1>1, <1>2

LEMMA Handled ==
    ASSUME events \in Seq(Event), events # <<>>, events' = Tail(events)
    PROVE  /\ 1 \in DOMAIN events /\ Head(events) = events[1]
           /\ \A i : i \in DOMAIN events' <=> i + 1 \in DOMAIN events /\ i \in Nat /\ i >= 1
           /\ \A i \in DOMAIN events' : events'[i] = events[i + 1]
           /\ \A i \in DOMAIN events : i \in Nat /\ (i = 1 \/ i - 1 \in DOMAIN events')
           /\ events' \in Seq(Event)
<1>1. /\ Len(events') = Len(events) - 1 /\ events' \in Seq(Event)
      /\ \A i \in 1 .. Len(events') : events'[i] = events[i + 1]
  BY HeadTailProperties
<1>2. DOMAIN events = 1 .. Len(events) /\ DOMAIN events' = 1 .. Len(events) - 1
      /\ Len(events) \in Nat /\ Len(events) >= 1
  BY <1>1, EmptySeq
<1>3. \A i : i \in 1 .. Len(events) - 1 <=> i + 1 \in 1 .. Len(events) /\ i \in Nat /\ i >= 1
  BY <1>2
<1> QED BY <1>1, <1>2, <1>3

LEMMA AppendWord ==
    ASSUME events \in Seq(Event), NEW e \in Event, events' = Append(events, e),
           NEW A, NEW good, NEW better
    PROVE  /\ e \in A /\ e \in better => LastWord(events', A, better)
           /\ e \in A => ~Silent(events', A)
           /\ e \notin A /\ LastWord(events, A, good) /\ good \subseteq better =>
                LastWord(events', A, better)
           /\ Silent(events', A) => Silent(events, A)
           /\ Silent(events, A) /\ e \notin A => Silent(events', A)
BY Appended DEF LastWord, Silent

LEMMA TailWord ==
    ASSUME events \in Seq(Event), events # <<>>, events' = Tail(events), NEW A, NEW good
    PROVE  /\ LastWord(events, A, good) => LastWord(events', A, good)
           /\ Silent(events', A) /\ Head(events) \in A /\ LastWord(events, A, good) =>
                Head(events) \in good
           /\ Silent(events', A) /\ Head(events) \notin A => Silent(events, A)
           /\ Silent(events, A) => Silent(events', A)
<1>1. ASSUME LastWord(events, A, good) PROVE LastWord(events', A, good)
  <2> SUFFICES ASSUME NEW i \in DOMAIN events', events'[i] \in A,
                      \A j \in DOMAIN events' : j > i => events'[j] \notin A
               PROVE  events'[i] \in good
    BY DEF LastWord
  <2>1. i \in Nat /\ i + 1 \in DOMAIN events /\ events'[i] = events[i + 1]
    BY Handled
  <2>2. ASSUME NEW j \in DOMAIN events, j > i + 1 PROVE events[j] \notin A
    <3>1. j \in Nat /\ j - 1 \in DOMAIN events'
      BY <2>1, <2>2, Handled
    <3>2. (j - 1) + 1 = j /\ j - 1 > i
      BY <2>1, <2>2, <3>1
    <3>3. events'[j - 1] = events[j]
      BY <3>1, <3>2, Handled
    <3> QED BY <2>2, <3>1, <3>2, <3>3
  <2> QED BY <1>1, <2>1, <2>2 DEF LastWord
<1>2. ASSUME Silent(events', A)
      PROVE  \A i \in DOMAIN events : i # 1 => events[i] \notin A
  <2>1. SUFFICES ASSUME NEW i \in DOMAIN events, i # 1 PROVE events[i] \notin A
    OBVIOUS
  <2>2. i \in Nat /\ i - 1 \in DOMAIN events'
    BY <2>1, Handled
  <2>3. events'[i - 1] = events[i]
    BY <2>2, Handled
  <2> QED BY <1>2, <2>2, <2>3 DEF Silent
<1>3. 1 \in DOMAIN events /\ Head(events) = events[1] /\ \A i \in DOMAIN events : i \in Nat
  BY Handled
<1>4. ASSUME Silent(events', A), Head(events) \in A, LastWord(events, A, good)
      PROVE  Head(events) \in good
  BY <1>2, <1>3, <1>4 DEF LastWord
<1>5. ASSUME Silent(events', A), Head(events) \notin A PROVE Silent(events, A)
  BY <1>2, <1>3, <1>5 DEF Silent
<1>6. ASSUME Silent(events, A) PROVE Silent(events', A)
  BY <1>6, Handled DEF Silent
<1> QED BY <1>1, <1>4, <1>5, <1>6

-----------------------------------------------------------------------------
(* The channels. *)

LEMMA AppendAnnounced ==
    ASSUME events \in Seq(Event), NEW e \in Event, events' = Append(events, e), NEW ch,
           Announced(ch),
           \/ e.kind \in {"create", "delete"} /\ e.id = ch /\ (e.kind = "create" => ch \in server.channels')
           \/ ~(e.kind \in {"create", "delete"} /\ e.id = ch)
              /\ (ch \in server.channels => ch \in server.channels')
    PROVE  Announced(ch)'
<1> SUFFICES ASSUME NEW i \in DOMAIN events', events'[i].kind = "create", events'[i].id = ch,
                    ch \notin server.channels'
             PROVE  \E j \in DOMAIN events' : j > i /\ events'[j].kind = "delete" /\ events'[j].id = ch
  BY DEF Announced
<1>1. PICK n \in Nat : n = Len(events) + 1
  BY Appended
<1>2. /\ DOMAIN events' = DOMAIN events \cup {n} /\ events'[n] = e
      /\ \A k \in DOMAIN events : events'[k] = events[k] /\ k < n
      /\ DOMAIN events \subseteq Nat
  BY <1>1, Appended
<1>3. i # n
  BY <1>2
<1>4. i \in DOMAIN events /\ events[i].kind = "create" /\ events[i].id = ch
  BY <1>2, <1>3
<1>5. CASE e.kind \in {"create", "delete"} /\ e.id = ch
  BY <1>1, <1>2, <1>4, <1>5
<1>6. CASE ~(e.kind \in {"create", "delete"} /\ e.id = ch) /\ ch \notin server.channels
  BY <1>1, <1>2, <1>4, <1>6 DEF Announced
<1> QED BY <1>5, <1>6

LEMMA TailAnnounced ==
    ASSUME events \in Seq(Event), events # <<>>, events' = Tail(events), NEW ch, Announced(ch),
           server' = server
    PROVE  Announced(ch)'
<1> SUFFICES ASSUME NEW i \in DOMAIN events', events'[i].kind = "create", events'[i].id = ch,
                    ch \notin server.channels
             PROVE  \E j \in DOMAIN events' : j > i /\ events'[j].kind = "delete" /\ events'[j].id = ch
  BY DEF Announced
<1>1. i \in Nat /\ i + 1 \in DOMAIN events /\ events'[i] = events[i + 1]
  BY Handled
<1>2. PICK j \in DOMAIN events : j > i + 1 /\ events[j].kind = "delete" /\ events[j].id = ch
  BY <1>1 DEF Announced
<1>3. j \in Nat /\ j # 1 /\ j - 1 \in DOMAIN events'
  BY <1>1, <1>2, Handled
<1>4. (j - 1) + 1 = j /\ j - 1 > i
  BY <1>1, <1>2, <1>3
<1>5. events'[j - 1] = events[j]
  BY <1>3, <1>4, Handled
<1> QED BY <1>2, <1>3, <1>4, <1>5

LEMMA ChannelsAppend ==
    ASSUME TypeInv, ChannelInv, NEW e \in Event, events' = Append(events, e), UNCHANGED <<cache, late>>,
           \A c \in Callers : call[c].stage = "done" => call'[c].stage = "done",
           \/ e.kind = "create" /\ e.id \notin late /\ server'.channels = server.channels \cup {e.id}
           \/ e.kind = "delete" /\ e.id \in server.channels /\ server'.channels = server.channels \ {e.id}
           \/ e.kind \notin {"create", "delete"} /\ server'.channels = server.channels
    PROVE  ChannelInv'
<1>0. events \in Seq(Event) /\ late \subseteq Callers
  BY DEF TypeInv, TypeOK
<1>1. SUFFICES ASSUME NEW ch \in Channels PROVE ChannelOK(ch)'
  BY DEF ChannelInv
<1>2. ChannelOK(ch)
  BY DEF ChannelInv
<1>3. Announced(ch)'
  BY <1>0, <1>2, AppendAnnounced DEF ChannelOK
<1>4. CASE e \in OfChannel(ch)
  <2>1. e \in ChannelAsServer(ch)'
    BY <1>4 DEF ChannelAsServer, OfChannel
  <2>2. LastWord(events', OfChannel(ch), ChannelAsServer(ch)') /\ ~Silent(events', OfChannel(ch))
    BY <1>0, <1>4, <2>1, AppendWord
  <2>3. ch \notin late
    BY <1>2, <1>4 DEF OfChannel, ChannelOK
  <2> QED BY <1>3, <2>2, <2>3 DEF ChannelOK
<1>5. CASE e \notin OfChannel(ch)
  <2>1. ch \in server.channels' <=> ch \in server.channels
    BY <1>5 DEF OfChannel
  <2>2. ChannelAsServer(ch)' = ChannelAsServer(ch)
    BY <2>1 DEF ChannelAsServer
  <2>3. /\ LastWord(events', OfChannel(ch), ChannelAsServer(ch)')
        /\ Silent(events', OfChannel(ch)) <=> Silent(events, OfChannel(ch))
    BY <1>0, <1>2, <1>5, <2>2, AppendWord DEF ChannelOK
  <2>4. ch \in late => call'[ch].stage = "done"
    BY <1>0, <1>2 DEF ChannelOK
  <2> QED BY <1>2, <1>3, <2>1, <2>3, <2>4 DEF ChannelOK
<1> QED BY <1>4, <1>5

LEMMA ChannelsHandle ==
    ASSUME TypeInv, ChannelInv, HandleEvent
    PROVE  ChannelInv'
<1>0. /\ events \in Seq(Event) /\ late \subseteq Callers /\ events # <<>> /\ events' = Tail(events)
      /\ late' = late /\ server' = server
  BY HandleForms DEF TypeInv, TypeOK
<1>1. PICK e \in Event : e = Head(events) /\ cache' = After(e)
  BY HandleForms
<1>2. ASSUME NEW ch \in Channels
      PROVE  ChannelOK(ch)'
  <2>1. ChannelOK(ch)
    BY DEF ChannelInv
  <2>2. Announced(ch)'
    BY <1>0, <2>1, TailAnnounced DEF ChannelOK
  <2>3. ChannelAsServer(ch)' = ChannelAsServer(ch)
    BY <1>0 DEF ChannelAsServer
  <2>4. LastWord(events', OfChannel(ch), ChannelAsServer(ch)')
    BY <1>0, <2>1, <2>3, TailWord DEF ChannelOK
  <2>5. ch \in late => call'[ch].stage = "done"
    <3>1. ch \in late => ch \in Callers /\ call[ch].stage = "done"
      BY <1>0, <2>1 DEF ChannelOK
    <3> QED BY <3>1, HandleForms DEF Meets
  <2>6. ch \in late => ch \notin server.channels /\ Silent(events', OfChannel(ch))
    BY <1>0, <2>1, TailWord DEF ChannelOK
  <2>7. ASSUME Silent(events', OfChannel(ch))
        PROVE  /\ ch \in cache'.listed <=> ch \in server.channels
               /\ ch \in cache'.known <=> ch \in server.channels \cup late
    <3>1. CASE e \in OfChannel(ch)
      <4>1. e \in ChannelAsServer(ch)
        BY <1>0, <1>1, <2>1, <2>7, <3>1, TailWord DEF ChannelOK
      <4>2. ch \notin late
        <5>1. 1 \in DOMAIN events /\ events[1] = e
          BY <1>0, <1>1, Handled
        <5> QED BY <2>1, <3>1, <5>1 DEF ChannelOK, Silent
      <4>3. e.kind = "create" <=> ch \in server.channels
        BY <4>1 DEF ChannelAsServer
      <4>4. e.kind \in {"create", "delete"} /\ e.id = ch
        BY <3>1 DEF OfChannel
      <4>5. CASE e.kind = "create"
        BY <1>1, <4>2, <4>3, <4>4, <4>5, AfterParts
      <4>6. CASE e.kind = "delete"
        BY <1>1, <4>2, <4>3, <4>4, <4>6, AfterParts
      <4> QED BY <4>4, <4>5, <4>6
    <3>2. CASE e \notin OfChannel(ch)
      <4>1. Silent(events, OfChannel(ch))
        BY <1>0, <1>1, <2>7, <3>2, TailWord
      <4>2. /\ ch \in cache.listed <=> ch \in server.channels
            /\ ch \in cache.known <=> ch \in server.channels \cup late
        BY <2>1, <4>1 DEF ChannelOK
      <4>3. e.kind \in {"create", "delete"} => e.id # ch
        BY <3>2 DEF OfChannel
      <4>4. (ch \in cache'.listed <=> ch \in cache.listed) /\ (ch \in cache'.known <=> ch \in cache.known)
        <5>1. CASE e.kind = "create"
          BY <1>1, <4>3, <5>1, AfterParts
        <5>2. CASE e.kind = "delete"
          BY <1>1, <4>3, <5>2, AfterParts
        <5>3. CASE e.kind \notin {"create", "delete"}
          BY <1>1, <5>3, AfterParts
        <5> QED BY <5>1, <5>2, <5>3
      <4> QED BY <4>2, <4>4
    <3> QED BY <3>1, <3>2
  <2> QED BY <1>0, <2>2, <2>4, <2>5, <2>6, <2>7 DEF ChannelOK
<1>3. cache'.linked = cache'.known
  <2>1. cache.linked = cache.known
    BY DEF ChannelInv
  <2>2. CASE e.kind = "create"
    BY <1>1, <2>1, <2>2, AfterParts
  <2>3. CASE e.kind = "delete"
    BY <1>1, <2>1, <2>3, AfterParts
  <2>4. CASE e.kind \notin {"create", "delete"}
    BY <1>1, <2>1, <2>4, AfterParts
  <2> QED BY <2>2, <2>3, <2>4
<1> QED BY <1>2, <1>3 DEF ChannelInv

LEMMA ChannelsFinish ==
    ASSUME TypeInv, ChannelInv, NEW c \in Callers, Finish(c)
    PROVE  ChannelInv'
<1>0. /\ UNCHANGED <<server, events>> /\ call[c].stage = "served"
      /\ c \in Channels /\ late \subseteq Callers
      /\ \A d \in Callers : call[d].stage = "done" => call'[d] = call[d]
  <2>1. PICK r : Set(c, r)
    BY FinishForms
  <2> QED BY <2>1, FinishForms, Ids DEF Set, TypeInv, TypeOK, At
<1>1. ASSUME NEW ch \in Channels, ch \in late \/ ch \notin late',
             ch \in cache'.listed <=> ch \in cache.listed,
             ch \in cache'.known <=> ch \in cache.known, late \subseteq late'
      PROVE  ChannelOK(ch)'
  <2>1. ChannelOK(ch)
    BY DEF ChannelInv
  <2>2. Announced(ch)' /\ ChannelAsServer(ch)' = ChannelAsServer(ch)
    BY <1>0, <2>1 DEF ChannelOK, Announced, ChannelAsServer
  <2>3. ch \in late => call'[ch].stage = "done"
    BY <1>0, <2>1 DEF ChannelOK
  <2> QED BY <1>0, <1>1, <2>1, <2>2, <2>3 DEF ChannelOK
<1>2. CASE UNCHANGED <<cache, late>>
  BY <1>1, <1>2 DEF ChannelInv
<1> DEFINE Deleted == \E i \in DOMAIN events : events[i].kind = "delete" /\ events[i].id = c
<1>3. CASE /\ call[c].row.adopts /\ cache' = [cache EXCEPT !.known = @ \cup {c}, !.linked = @ \cup {c}]
           /\ late' = IF c \in server.channels \/ Deleted THEN late ELSE late \cup {c}
  <2>1. /\ cache'.known = cache.known \cup {c} /\ cache'.linked = cache.linked \cup {c}
        /\ cache'.listed = cache.listed
    BY <1>3 DEF TypeInv, TypeOK, CacheGuild
  <2>2. ASSUME NEW ch \in Channels, ch # c PROVE ChannelOK(ch)'
    BY <1>1, <1>3, <2>1, <2>2
  <2>3. ChannelOK(c) /\ c \notin late
    BY <1>0 DEF ChannelInv, ChannelOK
  <2>4. Announced(c)' /\ ChannelAsServer(c)' = ChannelAsServer(c)
    BY <1>0, <2>3 DEF ChannelOK, Announced, ChannelAsServer
  <2>9. LastWord(events, OfChannel(c), ChannelAsServer(c))
    BY <2>3 DEF ChannelOK
  <2>5. ASSUME c \in server.channels PROVE ChannelOK(c)'
    <3>1. late' = late
      BY <1>3, <2>5
    <3>2. Silent(events, OfChannel(c)) => c \in cache.listed
      BY <2>3, <2>5 DEF ChannelOK
    <3> QED BY <1>0, <2>1, <2>3, <2>4, <2>5, <2>9, <3>1, <3>2 DEF ChannelOK
  <2>6. ASSUME c \notin server.channels, Deleted PROVE ChannelOK(c)'
    <3>1. PICK i \in DOMAIN events : events[i].kind = "delete" /\ events[i].id = c
      BY <2>6
    <3>2. events[i] \in Event
      BY DEF TypeInv, TypeOK
    <3>3. ~Silent(events, OfChannel(c))
      BY <3>1, <3>2 DEF Silent, OfChannel
    <3>4. late' = late
      BY <1>3, <2>6
    <3> QED BY <1>0, <2>3, <2>4, <2>9, <3>3, <3>4 DEF ChannelOK
  <2>7. ASSUME c \notin server.channels, ~Deleted PROVE ChannelOK(c)'
    <3>1. \A i \in DOMAIN events : ~(events[i].kind = "create" /\ events[i].id = c)
      BY <2>3, <2>7 DEF ChannelOK, Announced
    <3>2. Silent(events, OfChannel(c))
      BY <2>7, <3>1 DEF Silent, OfChannel
    <3>3. late' = late \cup {c}
      BY <1>3, <2>7
    <3>4. call'[c].stage = "done"
      <4>1. call[c].row \in Asked
        BY <1>0, CallAt DEF Fits
      <4>2. ~call[c].row.opens
        BY <1>3, <4>1, AskedRows DEF RowOK
      <4>3. ~call[c].opening
        BY <4>2, CallAt DEF Fits
      <4>4. PICK r : Set(c, r) /\ Leaves(call[c], r, "done", Outcome(c))
        BY <4>3, FinishForms
      <4> QED BY <4>4 DEF Set, Leaves, TypeInv, TypeOK
    <3>5. c \notin cache.listed
      BY <2>3, <2>7, <3>2 DEF ChannelOK
    <3> QED BY <1>0, <2>1, <2>4, <2>7, <2>9, <3>2, <3>3, <3>4, <3>5 DEF ChannelOK
  <2> HIDE DEF Deleted
  <2>8. ChannelOK(c)'
    BY <2>5, <2>6, <2>7
  <2>10. cache'.linked = cache'.known
    BY <2>1 DEF ChannelInv
  <2> QED BY <2>2, <2>8, <2>10 DEF ChannelInv
<1> QED BY <1>2, <1>3, FinishForms

LEMMA ChannelsServer ==
    ASSUME TypeInv, ChannelInv, ServerChanges
    PROVE  ChannelInv'
<1>0. ASSUME NEW e \in Event, NEW new, ServerChange(e, new),
             \/ e.kind = "delete" /\ e.id \in server.channels /\ new.channels = server.channels \ {e.id}
             \/ e.kind \notin {"create", "delete"} /\ new.channels = server.channels
      PROVE  ChannelInv'
  <2>1. /\ events' = Append(events, e) /\ UNCHANGED <<cache, late>> /\ server' = new /\ call' = Disturbed
    BY <1>0 DEF ServerChange, Send
  <2>2. \A c \in Callers : call[c].stage = "done" => call'[c].stage = "done"
    BY <2>1, DisturbedCalls DEF TypeInv, TypeOK
  <2> QED BY <1>0, <2>1, <2>2, ChannelsAppend
<1>1. ASSUME NEW r \in RoleIds, NEW p \in Masks, ChangeRole(r, p) PROVE ChannelInv'
  <2>1. PICK e \in Event : e = [kind |-> "role", id |-> r, mask |-> p]
    BY EventSorts
  <2>2. PICK new : ServerChange(e, new) /\ new.channels = server.channels
    BY <1>1, <2>1, ChangeRoleForms
  <2> QED BY <1>0, <2>1, <2>2
<1>2. ASSUME NEW r \in Roles, DeleteRole(r) PROVE ChannelInv'
  <2>1. PICK e \in Event : e = [kind |-> "drop", id |-> r]
    BY EventSorts
  <2>2. PICK new : ServerChange(e, new) /\ new.channels = server.channels
    BY <1>2, <2>1, DeleteRoleForms
  <2> QED BY <1>0, <2>1, <2>2
<1>3. ASSUME NEW H, ChangeMember(H) PROVE ChannelInv'
  <2>1. PICK new \in ServerGuild, h \in SUBSET RoleIds : /\ ServerChange([kind |-> "member", held |-> h], new)
                                         /\ new.channels = server.channels
    BY <1>3, ChangeMemberForms
  <2>2. PICK e \in Event : e = [kind |-> "member", held |-> h]
    BY EventSorts
  <2> QED BY <1>0, <2>1, <2>2
<1>4. ASSUME NEW i \in Named, NEW o \in Overwrites, ChangeOverwrite(i, o) PROVE ChannelInv'
  <2>1. PICK new : /\ ServerChange([kind |-> "over", over |-> new.over], new)
                   /\ new.over \in Tables(Named, Overwrites) /\ new.channels = server.channels
    BY <1>4, ChangeOverwriteForms
  <2>2. PICK e \in Event : e = [kind |-> "over", over |-> new.over]
    BY <2>1, EventSorts
  <2> QED BY <1>0, <2>1, <2>2
<1>5. ASSUME NEW ch \in Channels, DeleteChannel(ch) PROVE ChannelInv'
  <2>1. PICK e \in Event : e = [kind |-> "delete", id |-> ch]
    BY EventSorts
  <2>2. PICK new : /\ ServerChange(e, new) /\ ch \in server.channels
                   /\ new.channels = server.channels \ {ch}
    BY <1>5, <2>1, DeleteChannelForms
  <2> QED BY <1>0, <2>1, <2>2
<1> QED BY <1>1, <1>2, <1>3, <1>4, <1>5 DEF ServerChanges, Named

(* A step of a caller on its own leaves what is known of the guild alone. *)
LEMMA ChannelsAlone ==
    ASSUME TypeInv, ChannelInv, UNCHANGED <<server, cache, events, late>>,
           \A c \in Callers : call[c].stage = "done" => call'[c].stage = "done"
    PROVE  ChannelInv'
<1>1. ASSUME NEW ch \in Channels PROVE ChannelOK(ch)'
  <2>1. ChannelOK(ch)
    BY DEF ChannelInv
  <2>2. Announced(ch)' /\ ChannelAsServer(ch)' = ChannelAsServer(ch)
    BY <2>1 DEF ChannelOK, Announced, ChannelAsServer
  <2>3. ch \in late => call'[ch].stage = "done"
    BY <2>1 DEF ChannelOK, TypeInv, TypeOK
  <2> QED BY <2>1, <2>2, <2>3 DEF ChannelOK
<1> QED BY <1>1 DEF ChannelInv

LEMMA ChannelsNext ==
    ASSUME TypeInv, ChannelInv, [Next]_vars
    PROVE  ChannelInv'
<1>1. CASE ServerChanges
  BY <1>1, ChannelsServer
<1>2. CASE WaitForGuild \/ UNCHANGED vars
  BY <1>2, ChannelsAlone DEF WaitForGuild, vars
<1>3. CASE HandleEvent
  BY <1>3, ChannelsHandle
<1>4. ASSUME NEW c \in Callers, NEW r, Set(c, r), call[c].stage # "done"
      PROVE  \A d \in Callers : call[d].stage = "done" => call'[d].stage = "done"
  BY <1>4 DEF Set, TypeInv, TypeOK
<1>5. ASSUME NEW c \in Callers, Caller(c) PROVE ChannelInv'
  <2>1. CASE Begin(c)
    <3>1. \E r : Set(c, r)
      BY <2>1 DEF Begin, Unchecked, Stranded, Checked, Queried
    <3> QED BY <1>4, <2>1, <3>1, BeginForms, ChannelsAlone DEF At
  <2>2. CASE ReadBase(c)
    BY <1>4, <2>2, ReadBaseForms, ChannelsAlone DEF At
  <2>3. CASE ReadEntry(c)
    BY <1>4, <2>3, ReadEntryForms, ChannelsAlone DEF At
  <2>4. CASE ReadRole(c)
    BY <1>4, <2>4, ReadRoleForms, ChannelsAlone DEF At
  <2>5. CASE ReadOverwrites(c)
    BY <1>4, <2>5, ReadOverwritesForms, ChannelsAlone DEF At
  <2>6. CASE Decide(c)
    BY <1>4, <2>6, DecideForms, ChannelsAlone DEF At
  <2>7. CASE Perform(c)
    <3>1. /\ \A d \in Callers : call[d].stage = "done" => call'[d].stage = "done"
          /\ UNCHANGED <<cache, late>> /\ call[c].stage = "posted"
      BY <1>4, <2>7, PerformForms DEF At
    <3>2. CASE UNCHANGED <<server, events>>
      BY <3>1, <3>2, ChannelsAlone
    <3>3. CASE /\ server' = [server EXCEPT !.channels = @ \cup {c}]
               /\ events' = Append(events, [kind |-> "create", id |-> c])
      <4>1. PICK e \in Event : e = [kind |-> "create", id |-> c]
        BY EventSorts
      <4>2. server'.channels = server.channels \cup {c}
        BY <3>3 DEF TypeInv, TypeOK, ServerGuild
      <4>3. c \notin late
        BY <3>1, Ids DEF ChannelInv, ChannelOK
      <4> QED BY <3>1, <3>3, <4>1, <4>2, <4>3, ChannelsAppend
    <3> QED BY <2>7, <3>2, <3>3, PerformForms
  <2>8. CASE Finish(c)
    BY <2>8, ChannelsFinish
  <2> QED BY <1>5, <2>1, <2>2, <2>3, <2>4, <2>5, <2>6, <2>7, <2>8 DEF Caller
<1> QED BY <1>1, <1>2, <1>3, <1>5 DEF Next, Gateway

LEMMA ChannelsInit == Init => ChannelInv
<1> SUFFICES ASSUME Init PROVE ChannelInv
  OBVIOUS
<1>1. /\ events = <<>> /\ late = {} /\ server.channels = {Main} /\ cache.known = {Main}
      /\ cache.listed = {Main} /\ cache.linked = {Main}
  BY DEF Init
<1>2. DOMAIN events = {}
  BY <1>1
<1> QED BY <1>1, <1>2 DEF ChannelInv, ChannelOK, Announced, LastWord, Silent

(* Once the events are handled, the cache has the channels the server has, each linked to the
   guild and in its table, whichever of the reply of a create_..._channel and its
   CHANNEL_CREATE came first - and besides them only channels whose reply came after
   their CHANNEL_DELETE (guild.cpp:662). *)
THEOREM ChannelsCatchUp == Spec => []ChannelsSettle
<1>1. TypeInv /\ ChannelInv => ChannelsSettle
  <2> SUFFICES ASSUME TypeInv, ChannelInv, events = <<>>
               PROVE  /\ cache.known \ late = server.channels
                      /\ cache.listed = cache.known \ late
                      /\ cache.linked = cache.known
    BY DEF ChannelsSettle
  <2>1. /\ cache.known \subseteq Channels /\ cache.listed \subseteq Channels
        /\ server.channels \subseteq Channels
    BY DEF TypeInv, TypeOK, CacheGuild, ServerGuild
  <2>2. \A ch \in Channels : Silent(events, OfChannel(ch))
    BY DEF Silent
  <2>3. ASSUME NEW ch \in Channels
        PROVE  /\ ch \in cache.listed <=> ch \in server.channels
               /\ ch \in cache.known <=> ch \in server.channels \cup late
               /\ ch \in late => ch \notin server.channels
    BY <2>2 DEF ChannelInv, ChannelOK
  <2> QED BY <2>1, <2>3 DEF ChannelInv
<1>2. TypeInv /\ ChannelInv /\ [Next]_vars => ChannelInv'
  BY ChannelsNext
<1> QED BY <1>1, <1>2, ChannelsInit, ApiTypes, PTL DEF Spec

-----------------------------------------------------------------------------
(* The roles, the bot's entry and the overwrites. *)

GuildInv == RoleInv /\ HeldInv /\ OverInv

LEMMA RolesAppend ==
    ASSUME TypeInv, RoleInv, NEW e \in Event, events' = Append(events, e), cache' = cache,
           \/ /\ e.kind = "role" /\ e.id \in DOMAIN server.roles
              /\ DOMAIN server'.roles = DOMAIN server.roles /\ server'.roles[e.id] = e.mask
              /\ \A i \in DOMAIN server.roles : i # e.id => server'.roles[i] = server.roles[i]
           \/ /\ e.kind = "drop" /\ DOMAIN server'.roles = DOMAIN server.roles \ {e.id}
              /\ \A i \in DOMAIN server.roles : i # e.id => server'.roles[i] = server.roles[i]
           \/ e.kind \notin {"role", "drop"} /\ server'.roles = server.roles
    PROVE  RoleInv'
<1>0. events \in Seq(Event)
  BY DEF TypeInv, TypeOK
<1>1. SUFFICES ASSUME NEW r \in RoleIds
               PROVE  /\ LastWord(events', OfRole(r), RoleAsServer(r)')
                      /\ Silent(events', OfRole(r)) => SameRole(r)'
  BY DEF RoleInv
<1>2. LastWord(events, OfRole(r), RoleAsServer(r)) /\ (Silent(events, OfRole(r)) => SameRole(r))
  BY DEF RoleInv
<1>3. CASE e \in OfRole(r)
  <2>1. e \in RoleAsServer(r)'
    BY <1>3 DEF OfRole, RoleAsServer
  <2> QED BY <1>0, <1>3, <2>1, AppendWord
<1>4. CASE e \notin OfRole(r)
  <2>1. /\ r \in DOMAIN server'.roles <=> r \in DOMAIN server.roles
        /\ r \in DOMAIN server.roles => server'.roles[r] = server.roles[r]
    BY <1>4 DEF OfRole
  <2>2. RoleAsServer(r)' = RoleAsServer(r)
    BY <2>1 DEF RoleAsServer
  <2>3. SameRole(r) => SameRole(r)'
    BY <2>1 DEF SameRole
  <2> QED BY <1>0, <1>2, <1>4, <2>2, <2>3, AppendWord
<1> QED BY <1>3, <1>4

LEMMA HeldAppend ==
    ASSUME TypeInv, HeldInv, NEW e \in Event, events' = Append(events, e), cache' = cache,
           \/ /\ e.kind = "member" /\ e.held = server'.held /\ e.held \subseteq DOMAIN server.roles
              /\ server'.roles = server.roles
           \/ /\ e.kind = "drop" /\ DOMAIN server'.roles = DOMAIN server.roles \ {e.id}
              /\ server'.held = server.held \ {e.id}
           \/ /\ e.kind \notin {"member", "drop"} /\ DOMAIN server'.roles = DOMAIN server.roles
              /\ server'.held = server.held
    PROVE  HeldInv'
<1>0. events \in Seq(Event)
  BY DEF TypeInv, TypeOK
<1>1. /\ server.held \subseteq DOMAIN server.roles /\ LastWord(events, OfEntry, EntryAsServer)
      /\ Silent(events, OfEntry) => SameHeld(cache.held)
  BY DEF HeldInv
<1>2. server'.held \subseteq DOMAIN server'.roles
  BY <1>1
<1>3. CASE e \in OfEntry
  <2>1. e \in EntryAsServer'
    BY <1>3 DEF OfEntry, EntryAsServer, SameHeld
  <2>2. LastWord(events', OfEntry, EntryAsServer') /\ ~Silent(events', OfEntry)
    BY <1>0, <1>3, <2>1, AppendWord
  <2> QED BY <1>2, <2>2 DEF HeldInv, OfEntry
<1>4. CASE e \notin OfEntry
  <2>1. ASSUME NEW held, SameHeld(held) PROVE SameHeld(held)'
    BY <1>4, <2>1 DEF SameHeld, OfEntry
  <2>2. EntryAsServer \subseteq EntryAsServer'
    BY <2>1 DEF EntryAsServer
  <2>3. /\ LastWord(events', OfEntry, EntryAsServer')
        /\ Silent(events', OfEntry) => Silent(events, OfEntry)
    BY <1>0, <1>1, <1>4, <2>2, AppendWord
  <2>4. SameHeld(cache.held) => SameHeld(cache.held)'
    <3>1. PICK h : h = cache.held
      OBVIOUS
    <3>2. SameHeld(h) => SameHeld(h)'
      BY <2>1
    <3> QED BY <3>1, <3>2 DEF SameHeld
  <2> QED BY <1>1, <1>2, <2>3, <2>4 DEF HeldInv, OfEntry
<1> QED BY <1>3, <1>4

LEMMA OverAppend ==
    ASSUME TypeInv, OverInv, NEW e \in Event, events' = Append(events, e), cache' = cache,
           \/ /\ e.kind = "over" /\ e.over = server'.over
           \/ /\ e.kind = "drop" /\ DOMAIN server'.roles = DOMAIN server.roles \ {e.id}
              /\ DOMAIN server'.over = DOMAIN server.over \ {e.id}
              /\ \A i \in DOMAIN server.over : i # e.id => server'.over[i] = server.over[i]
           \/ /\ e.kind \notin {"over", "drop"} /\ DOMAIN server'.roles = DOMAIN server.roles
              /\ server'.over = server.over
    PROVE  OverInv'
<1>0. events \in Seq(Event)
  BY DEF TypeInv, TypeOK
<1>1. /\ LastWord(events, OfOverwrites, OverwritesAsServer)
      /\ Silent(events, OfOverwrites) => SameOver(cache.over)
  BY DEF OverInv
<1>3. CASE e \in OfOverwrites
  <2>1. e \in OverwritesAsServer'
    BY <1>3 DEF OfOverwrites, OverwritesAsServer, SameOver
  <2>2. LastWord(events', OfOverwrites, OverwritesAsServer') /\ ~Silent(events', OfOverwrites)
    BY <1>0, <1>3, <2>1, AppendWord
  <2> QED BY <2>2 DEF OverInv, OfOverwrites
<1>4. CASE e \notin OfOverwrites
  <2>1. ASSUME NEW over, SameOver(over) PROVE SameOver(over)'
    <3>1. e.kind = "drop" => e.id # Self
      BY EventParts, Ids
    <3> QED BY <1>4, <2>1, <3>1 DEF SameOver, OfOverwrites
  <2>2. OverwritesAsServer \subseteq OverwritesAsServer'
    BY <2>1 DEF OverwritesAsServer
  <2>3. /\ LastWord(events', OfOverwrites, OverwritesAsServer')
        /\ Silent(events', OfOverwrites) => Silent(events, OfOverwrites)
    BY <1>0, <1>1, <1>4, <2>2, AppendWord
  <2>4. SameOver(cache.over) => SameOver(cache.over)'
    <3>1. PICK o : o = cache.over
      OBVIOUS
    <3>2. SameOver(o) => SameOver(o)'
      BY <2>1
    <3> QED BY <3>1, <3>2 DEF SameOver
  <2> QED BY <1>1, <2>3, <2>4 DEF OverInv, OfOverwrites
<1> QED BY <1>3, <1>4

LEMMA GuildHandle ==
    ASSUME TypeInv, GuildInv, HandleEvent
    PROVE  GuildInv'
<1>0. /\ events \in Seq(Event) /\ events # <<>> /\ events' = Tail(events) /\ server' = server
  BY HandleForms DEF TypeInv, TypeOK
<1>1. PICK e \in Event : e = Head(events) /\ cache' = After(e)
  BY HandleForms
<1>2. RoleInv'
  <2>1. SUFFICES ASSUME NEW r \in RoleIds
                 PROVE  /\ LastWord(events', OfRole(r), RoleAsServer(r)')
                        /\ Silent(events', OfRole(r)) => SameRole(r)'
    BY DEF RoleInv
  <2>2. LastWord(events, OfRole(r), RoleAsServer(r)) /\ (Silent(events, OfRole(r)) => SameRole(r))
    BY DEF GuildInv, RoleInv
  <2>3. LastWord(events', OfRole(r), RoleAsServer(r)')
    BY <1>0, <2>2, TailWord DEF RoleAsServer
  <2>4. CASE e \in OfRole(r)
    <3>1. ASSUME Silent(events', OfRole(r)) PROVE SameRole(r)'
      <4>1. e \in RoleAsServer(r)
        BY <1>0, <1>1, <2>2, <2>4, <3>1, TailWord
      <4>2. e.id = r /\ e.kind \in {"role", "drop"}
        BY <2>4 DEF OfRole
      <4>3. CASE e.kind = "role"
        BY <1>0, <1>1, <4>1, <4>2, <4>3, AfterParts DEF RoleAsServer, SameRole
      <4>4. CASE e.kind = "drop"
        BY <1>0, <1>1, <4>1, <4>2, <4>4, AfterParts DEF RoleAsServer, SameRole
      <4> QED BY <4>2, <4>3, <4>4
    <3> QED BY <2>3, <3>1
  <2>5. CASE e \notin OfRole(r)
    <3>1. Silent(events', OfRole(r)) => SameRole(r)
      BY <1>0, <1>1, <2>2, <2>5, TailWord
    <3>2. e.kind \in {"role", "drop"} => e.id # r
      BY <2>5 DEF OfRole
    <3>3. /\ r \in DOMAIN cache'.roles <=> r \in DOMAIN cache.roles
          /\ r \in DOMAIN cache.roles => cache'.roles[r] = cache.roles[r]
      <4>1. CASE e.kind = "role"
        BY <1>1, <3>2, <4>1, AfterParts
      <4>2. CASE e.kind = "drop"
        BY <1>1, <3>2, <4>2, AfterParts
      <4>3. CASE e.kind \notin {"role", "drop"}
        BY <1>1, <4>3, AfterParts
      <4> QED BY <4>1, <4>2, <4>3
    <3> QED BY <1>0, <2>3, <3>1, <3>3 DEF SameRole
  <2> QED BY <2>4, <2>5
<1>3. HeldInv'
  <2>1. /\ server.held \subseteq DOMAIN server.roles /\ LastWord(events, OfEntry, EntryAsServer)
        /\ Silent(events, OfEntry) => SameHeld(cache.held)
    BY DEF GuildInv, HeldInv
  <2>2. LastWord(events', OfEntry, EntryAsServer') /\ EntryAsServer' = EntryAsServer
    BY <1>0, <2>1, TailWord DEF EntryAsServer, SameHeld
  <2>3. cache'.held = IF e.kind = "member" THEN e.held ELSE cache.held
    BY <1>1, AfterParts
  <2>4. ASSUME Silent(events', OfEntry) PROVE server.held = cache'.held \cap DOMAIN server.roles
    <3>1. CASE e.kind = "member"
      <4>1. e \in EntryAsServer
        BY <1>0, <1>1, <2>1, <2>4, <3>1, TailWord DEF OfEntry
      <4> QED BY <2>3, <3>1, <4>1 DEF EntryAsServer, SameHeld
    <3>2. CASE e.kind # "member"
      <4>1. Silent(events, OfEntry)
        BY <1>0, <1>1, <2>4, <3>2, TailWord DEF OfEntry
      <4> QED BY <2>1, <2>3, <3>2, <4>1 DEF SameHeld
    <3> QED BY <3>1, <3>2
  <2> QED BY <1>0, <2>1, <2>2, <2>4 DEF HeldInv, SameHeld, OfEntry
<1>4. OverInv'
  <2>1. /\ LastWord(events, OfOverwrites, OverwritesAsServer)
        /\ Silent(events, OfOverwrites) => SameOver(cache.over)
    BY DEF GuildInv, OverInv
  <2>2. LastWord(events', OfOverwrites, OverwritesAsServer') /\ OverwritesAsServer' = OverwritesAsServer
    BY <1>0, <2>1, TailWord DEF OverwritesAsServer, SameOver
  <2>3. cache'.over = IF e.kind = "over" THEN e.over ELSE cache.over
    BY <1>1, AfterParts
  <2>4. PICK o : o = cache'.over
    OBVIOUS
  <2>5. ASSUME Silent(events', OfOverwrites) PROVE SameOver(o)
    <3>1. CASE e.kind = "over"
      <4>1. e \in OverwritesAsServer
        BY <1>0, <1>1, <2>1, <2>5, <3>1, TailWord DEF OfOverwrites
      <4> QED BY <2>3, <2>4, <3>1, <4>1 DEF OverwritesAsServer
    <3>2. CASE e.kind # "over"
      <4>1. Silent(events, OfOverwrites)
        BY <1>0, <1>1, <2>5, <3>2, TailWord DEF OfOverwrites
      <4> QED BY <2>1, <2>3, <2>4, <3>2, <4>1
    <3> QED BY <3>1, <3>2
  <2>6. SameOver(o) => SameOver(cache.over)'
    BY <1>0, <2>4 DEF SameOver
  <2> QED BY <2>2, <2>5, <2>6 DEF OverInv, OfOverwrites
<1> QED BY <1>2, <1>3, <1>4 DEF GuildInv

LEMMA GuildServer ==
    ASSUME TypeInv, GuildInv, ServerChanges
    PROVE  GuildInv'
<1>0. RoleInv /\ HeldInv /\ OverInv
  BY DEF GuildInv
<1>1. ASSUME NEW e, NEW new, ServerChange(e, new)
      PROVE  events' = Append(events, e) /\ cache' = cache /\ server' = new
  BY <1>1 DEF ServerChange, Send
<1>2. ASSUME NEW r \in RoleIds, NEW p \in Masks, ChangeRole(r, p) PROVE GuildInv'
  <2>1. PICK e \in Event : e = [kind |-> "role", id |-> r, mask |-> p]
    BY EventSorts
  <2>2. PICK new : /\ ServerChange(e, new)
                   /\ r \in DOMAIN server.roles /\ DOMAIN new.roles = DOMAIN server.roles
                   /\ new.roles[r] = p
                   /\ \A i \in DOMAIN server.roles : i # r => new.roles[i] = server.roles[i]
                   /\ new.held = server.held /\ new.over = server.over
    BY <1>2, <2>1, ChangeRoleForms
  <2>3. events' = Append(events, e) /\ cache' = cache /\ server' = new
    BY <1>1, <2>2
  <2>4. e.kind = "role" /\ e.id = r /\ e.mask = p
    BY <2>1
  <2>5. RoleInv'
    BY <1>0, <2>2, <2>3, <2>4, RolesAppend
  <2>6. HeldInv'
    BY <1>0, <2>2, <2>3, <2>4, HeldAppend
  <2>7. OverInv'
    BY <1>0, <2>2, <2>3, <2>4, OverAppend
  <2> QED BY <2>5, <2>6, <2>7 DEF GuildInv
<1>3. ASSUME NEW r \in Roles, DeleteRole(r) PROVE GuildInv'
  <2>1. PICK e \in Event : e = [kind |-> "drop", id |-> r]
    BY EventSorts
  <2>2. PICK new : /\ ServerChange(e, new)
                   /\ DOMAIN new.roles = DOMAIN server.roles \ {r}
                   /\ \A i \in DOMAIN server.roles : i # r => new.roles[i] = server.roles[i]
                   /\ DOMAIN new.over = DOMAIN server.over \ {r}
                   /\ \A i \in DOMAIN server.over : i # r => new.over[i] = server.over[i]
                   /\ new.held = server.held \ {r}
    BY <1>3, <2>1, DeleteRoleForms
  <2>3. events' = Append(events, e) /\ cache' = cache /\ server' = new
    BY <1>1, <2>2
  <2>4. e.kind = "drop" /\ e.id = r
    BY <2>1
  <2>5. RoleInv'
    BY <1>0, <2>2, <2>3, <2>4, RolesAppend
  <2>6. HeldInv'
    BY <1>0, <2>2, <2>3, <2>4, HeldAppend
  <2>7. OverInv'
    BY <1>0, <2>2, <2>3, <2>4, OverAppend
  <2> QED BY <2>5, <2>6, <2>7 DEF GuildInv
<1>4. ASSUME NEW H, ChangeMember(H) PROVE GuildInv'
  <2>1. PICK new \in ServerGuild, h \in SUBSET RoleIds :
                /\ ServerChange([kind |-> "member", held |-> h], new)
                /\ h \subseteq DOMAIN server.roles /\ new.held = h
                /\ new.roles = server.roles /\ new.over = server.over
    BY <1>4, ChangeMemberForms
  <2>2. PICK e \in Event : e = [kind |-> "member", held |-> h]
    BY EventSorts
  <2>3. events' = Append(events, e) /\ cache' = cache /\ server' = new
    BY <1>1, <2>1, <2>2
  <2>4. e.kind = "member" /\ e.held = h
    BY <2>2
  <2>5. RoleInv'
    BY <1>0, <2>1, <2>3, <2>4, RolesAppend
  <2>6. HeldInv'
    BY <1>0, <2>1, <2>3, <2>4, HeldAppend
  <2>7. OverInv'
    BY <1>0, <2>1, <2>3, <2>4, OverAppend
  <2> QED BY <2>5, <2>6, <2>7 DEF GuildInv
<1>5. ASSUME NEW i \in Named, NEW o \in Overwrites, ChangeOverwrite(i, o) PROVE GuildInv'
  <2>1. PICK new \in ServerGuild :
                /\ ServerChange([kind |-> "over", over |-> new.over], new)
                /\ new.over \in Tables(Named, Overwrites)
                /\ new.roles = server.roles /\ new.held = server.held
    BY <1>5, ChangeOverwriteForms
  <2>2. PICK e \in Event : e = [kind |-> "over", over |-> new.over]
    BY <2>1, EventSorts
  <2>3. events' = Append(events, e) /\ cache' = cache /\ server' = new
    BY <1>1, <2>1, <2>2
  <2>4. e.kind = "over" /\ e.over = new.over
    BY <2>2
  <2>5. RoleInv'
    BY <1>0, <2>1, <2>3, <2>4, RolesAppend
  <2>6. HeldInv'
    BY <1>0, <2>1, <2>3, <2>4, HeldAppend
  <2>7. OverInv'
    BY <1>0, <2>1, <2>3, <2>4, OverAppend
  <2> QED BY <2>5, <2>6, <2>7 DEF GuildInv
<1>6. ASSUME NEW ch \in Channels, DeleteChannel(ch) PROVE GuildInv'
  <2>1. PICK e \in Event : e = [kind |-> "delete", id |-> ch]
    BY EventSorts
  <2>2. PICK new : /\ ServerChange(e, new) /\ new.roles = server.roles
                   /\ new.held = server.held /\ new.over = server.over
    BY <1>6, <2>1, DeleteChannelForms
  <2>3. events' = Append(events, e) /\ cache' = cache /\ server' = new
    BY <1>1, <2>2
  <2>4. e.kind = "delete"
    BY <2>1
  <2>5. RoleInv'
    BY <1>0, <2>2, <2>3, <2>4, RolesAppend
  <2>6. HeldInv'
    BY <1>0, <2>2, <2>3, <2>4, HeldAppend
  <2>7. OverInv'
    BY <1>0, <2>2, <2>3, <2>4, OverAppend
  <2> QED BY <2>5, <2>6, <2>7 DEF GuildInv
<1> QED BY <1>2, <1>3, <1>4, <1>5, <1>6 DEF ServerChanges, Named

LEMMA GuildAlone ==
    ASSUME GuildInv, events' = events, server' = server,
           cache'.roles = cache.roles, cache'.held = cache.held, cache'.over = cache.over
    PROVE  GuildInv'
<1>1. RoleInv'
  BY DEF GuildInv, RoleInv, SameRole, RoleAsServer
<1>2. HeldInv'
  BY DEF GuildInv, HeldInv, SameHeld, EntryAsServer, OfEntry
<1>3. OverInv'
  BY DEF GuildInv, OverInv, SameOver, OverwritesAsServer, OfOverwrites
<1> QED BY <1>1, <1>2, <1>3 DEF GuildInv

LEMMA GuildNext ==
    ASSUME TypeInv, GuildInv, [Next]_vars
    PROVE  GuildInv'
<1>1. CASE ServerChanges
  BY <1>1, GuildServer
<1>2. CASE WaitForGuild \/ UNCHANGED vars
  BY <1>2, GuildAlone DEF WaitForGuild, vars
<1>3. CASE HandleEvent
  BY <1>3, GuildHandle
<1>4. ASSUME NEW c \in Callers, Caller(c) PROVE GuildInv'
  <2>1. CASE UNCHANGED <<server, cache, events>>
    BY <2>1, GuildAlone
  <2>2. CASE Perform(c)
    <3>1. PICK e \in Event : e = [kind |-> "create", id |-> c]
      BY EventSorts
    <3>2. CASE /\ server' = [server EXCEPT !.channels = @ \cup {c}]
               /\ events' = Append(events, e) /\ cache' = cache
      <4>1. server'.roles = server.roles /\ server'.held = server.held /\ server'.over = server.over
        BY <3>2 DEF TypeInv, TypeOK, ServerGuild
      <4>2. e.kind = "create"
        BY <3>1
      <4>3. RoleInv'
        BY <3>2, <4>1, <4>2, RolesAppend DEF GuildInv
      <4>4. HeldInv'
        BY <3>2, <4>1, <4>2, HeldAppend DEF GuildInv
      <4>5. OverInv'
        BY <3>2, <4>1, <4>2, OverAppend DEF GuildInv
      <4> QED BY <4>3, <4>4, <4>5 DEF GuildInv
    <3> QED BY <2>1, <2>2, <3>1, <3>2, PerformForms
  <2>3. CASE Finish(c)
    <3>1. CASE cache' = [cache EXCEPT !.known = @ \cup {c}, !.linked = @ \cup {c}]
      BY <2>3, <3>1, FinishForms, GuildAlone DEF TypeInv, TypeOK, CacheGuild
    <3> QED BY <2>1, <2>3, <3>1, FinishForms
  <2> QED BY <1>4, <2>1, <2>2, <2>3
        DEF Caller, Begin, ReadBase, ReadEntry, ReadRole, ReadOverwrites, Reading, Decide
<1> QED BY <1>1, <1>2, <1>3, <1>4 DEF Next, Gateway

LEMMA GuildInit == Init => GuildInv
<1> SUFFICES ASSUME Init PROVE GuildInv
  OBVIOUS
<1>1. PICK owner, p : 
         /\ server = [id |-> Guild, owner |-> owner, roles |-> [r \in RoleIds |-> p],
                      held |-> RoleIds, over |-> <<>>, channels |-> {Main}]
         /\ cache = [id |-> Guild, owner |-> owner, roles |-> [r \in RoleIds |-> p], held |-> RoleIds,
                     over |-> <<>>, known |-> {Main}, listed |-> {Main}, linked |-> {Main}]
  BY DEF Init
<1>2. /\ cache.roles = server.roles /\ cache.held = server.held /\ cache.over = server.over
      /\ server.held = DOMAIN server.roles
  BY <1>1
<1>3. DOMAIN events = {}
  BY DEF Init
<1>4. RoleInv
  BY <1>2, <1>3 DEF RoleInv, LastWord, SameRole
<1>5. HeldInv
  BY <1>2, <1>3 DEF HeldInv, LastWord, SameHeld
<1>6. OverInv
  BY <1>2, <1>3 DEF OverInv, LastWord, SameOver
<1> QED BY <1>4, <1>5, <1>6 DEF GuildInv

-----------------------------------------------------------------------------
(* A call that is not disturbed is decided as the server would decide it. *)

(* Where only channels that were created are still to be heard of, the cache has the guild
   the server has. *)
LEMMA InStepSame ==
    ASSUME TypeInv, GuildInv, ChannelInv, NEW k, InStep(k)
    PROVE  /\ cache.roles = server.roles /\ cache.held = server.held /\ SameOver(cache.over)
           /\ cache.id = server.id /\ cache.owner = server.owner /\ cache.id = Guild
           /\ OfMain(k.row, k.target) => Main \in server.channels
<1>1. \A i \in DOMAIN events : events[i].kind = "create" /\ events[i].id \in Callers
  <2>1. \A i \in DOMAIN events : events[i].kind = "create" /\ events[i] \in Event
    BY DEF InStep, TypeInv, TypeOK
  <2> QED BY <2>1, EventParts
<1>2. /\ \A r \in RoleIds : Silent(events, OfRole(r))
      /\ Silent(events, OfEntry) /\ Silent(events, OfOverwrites)
      /\ Silent(events, OfChannel(Main))
  BY <1>1, Ids DEF Silent, OfRole, OfEntry, OfOverwrites, OfChannel
<1>3. /\ cache.roles \in Tables(RoleIds, Masks) /\ server.roles \in Tables(RoleIds, Masks)
      /\ cache.id = server.id /\ cache.owner = server.owner /\ cache.id = Guild
  BY DEF TypeInv, TypeOK, CacheGuild, ServerGuild
<1>4. cache.roles = server.roles
  <2>1. \A r \in RoleIds : SameRole(r)
    BY <1>2 DEF GuildInv, RoleInv
  <2>2. /\ DOMAIN cache.roles \subseteq RoleIds /\ DOMAIN server.roles \subseteq RoleIds
        /\ cache.roles \in [DOMAIN cache.roles -> Masks]
        /\ server.roles \in [DOMAIN server.roles -> Masks]
    BY <1>3, TableElim
  <2>3. DOMAIN cache.roles = DOMAIN server.roles
    BY <2>1, <2>2 DEF SameRole
  <2>4. \A r \in DOMAIN server.roles : cache.roles[r] = server.roles[r]
    BY <2>1, <2>2 DEF SameRole
  <2> QED BY <2>2, <2>3, <2>4
<1>5. cache.held = server.held
  BY <1>2, <1>4 DEF InStep, GuildInv, HeldInv, SameHeld
<1>6. SameOver(cache.over)
  BY <1>2 DEF GuildInv, OverInv
<1>7. Main \in cache.known => Main \in server.channels
  <2>1. ChannelOK(Main) /\ late \subseteq Callers
    BY Ids DEF ChannelInv, TypeInv, TypeOK
  <2> QED BY <1>2, <2>1, Ids DEF ChannelOK
<1> QED BY <1>3, <1>4, <1>5, <1>6, <1>7 DEF InStep

(* And then it grants a bit where the server grants it. *)
LEMMA InStepGrants ==
    ASSUME TypeInv, GuildInv, ChannelInv, NEW k, InStep(k), NEW b \in Bit,
           NEW target \in {"guild", "channel"}
    PROVE  b \in Mask(cache, target) <=> ServerGrants(target, b)
<1>1. /\ cache.roles = server.roles /\ cache.held = server.held /\ SameOver(cache.over)
      /\ cache.id = server.id /\ cache.owner = server.owner /\ cache.id = Guild
  BY InStepSame
<1>2. RolesKnown(cache, {cache.held})
  BY <1>1 DEF RolesKnown, InStep, TypeInv, TypeOK
<1> DEFINE base == BasePermissions(cache, Self, {cache.held})
<1>3. Mask(cache, target) = IF target = "guild" THEN base ELSE GetPermissions(cache, Self, {cache.held}, cache.over)
  BY DEF Mask, MaskBy, GetPermissions
<1>4. CASE cache.owner = Self
  <2>1. base = Bit
    BY <1>4 DEF BasePermissions
  <2>2. Mask(cache, target) = Bit
    BY <1>3, <2>1, BitAdmin DEF GetPermissions, ComputeOverwrites
  <2> QED BY <1>1, <1>4, <2>2 DEF ServerGrants
<1>5. CASE cache.owner # Self
  <2>1. \A d : HasBase(cache, {cache.held}, d) <=> HasBase(server, {server.held}, d)
    BY <1>1 DEF HasBase
  <2>2. Admin \in base <=> HasBase(cache, {cache.held}, Admin)
    <3>1. Admin \in base <=> \E r \in {cache.id} \cup UNION {cache.held} : Admin \in cache.roles[r]
      BY <1>2, <1>5, BitAdmin DEF BasePermissions, RolesKnown
    <3> QED BY <3>1 DEF HasBase
  <2>3. CASE Admin \in base
    <3>1. base = Bit
      <4>1. base = IF Admin \in UNION {cache.roles[r] : r \in {cache.id} \cup UNION {cache.held}}
                   THEN Bit ELSE UNION {cache.roles[r] : r \in {cache.id} \cup UNION {cache.held}}
        BY <1>2, <1>5 DEF BasePermissions, RolesKnown
      <4> QED BY <2>3, <4>1
    <3>2. Mask(cache, target) = Bit
      BY <1>3, <2>3, <3>1 DEF GetPermissions, ComputeOverwrites
    <3> QED BY <2>1, <2>2, <2>3, <3>2 DEF ServerGrants
  <2>4. CASE Admin \notin base
    <3>1. ServerGrants(target, b) <=> IF target = "guild" THEN HasBase(server, {server.held}, b)
                                      ELSE Granted(server, Self, {server.held}, server.over, b)
      BY <1>1, <1>5, <2>1, <2>2, <2>4 DEF ServerGrants
    <3>2. b \in base <=> HasBase(cache, {cache.held}, b)
      BY <1>2, <1>5, <2>4, BaseBit
    <3>3. b \in GetPermissions(cache, Self, {cache.held}, cache.over)
            <=> Granted(cache, Self, {cache.held}, cache.over, b)
      BY <1>2, <1>5, <2>4, PermissionRule
    <3>4. Granted(cache, Self, {cache.held}, cache.over, b)
            <=> Granted(server, Self, {server.held}, server.over, b)
      <4>1. ASSUME NEW ids, ids \subseteq DOMAIN server.roles \cup {Self}
            PROVE  /\ Allowed(cache.over, ids, b) <=> Allowed(server.over, ids, b)
                   /\ Denied(cache.over, ids, b) <=> Denied(server.over, ids, b)
        BY <1>1, <4>1 DEF SameOver, Allowed, Denied
      <4>2. PICK mine, others, everyone :
              /\ mine = {Self} /\ others = (UNION {server.held}) \ {Guild} /\ everyone = {Guild}
        OBVIOUS
      <4>3. /\ mine \subseteq DOMAIN server.roles \cup {Self}
            /\ others \subseteq DOMAIN server.roles \cup {Self}
            /\ everyone \subseteq DOMAIN server.roles \cup {Self}
            /\ mine \cup others \subseteq DOMAIN server.roles \cup {Self}
            /\ mine \cup others \cup everyone \subseteq DOMAIN server.roles \cup {Self}
        BY <1>1, <4>2 DEF InStep, TypeInv, TypeOK
      <4>4. ASSUME NEW guild, NEW over, NEW held, guild.id = Guild, UNION {held} = UNION {server.held}
            PROVE  Granted(guild, Self, {held}, over, b)
              <=> \/ Allowed(over, mine, b)
                  \/ ~Denied(over, mine, b) /\ Allowed(over, others, b)
                  \/ ~Denied(over, mine \cup others, b) /\ Allowed(over, everyone, b)
                  \/ ~Denied(over, mine \cup others \cup everyone, b) /\ HasBase(guild, {held}, b)
        BY <4>2, <4>4 DEF Granted
      <4>5. Granted(cache, Self, {cache.held}, cache.over, b)
              <=> \/ Allowed(cache.over, mine, b)
                  \/ ~Denied(cache.over, mine, b) /\ Allowed(cache.over, others, b)
                  \/ ~Denied(cache.over, mine \cup others, b) /\ Allowed(cache.over, everyone, b)
                  \/ ~Denied(cache.over, mine \cup others \cup everyone, b) /\ HasBase(cache, {cache.held}, b)
        BY <1>1, <4>4
      <4>6. Granted(server, Self, {server.held}, server.over, b)
              <=> \/ Allowed(server.over, mine, b)
                  \/ ~Denied(server.over, mine, b) /\ Allowed(server.over, others, b)
                  \/ ~Denied(server.over, mine \cup others, b) /\ Allowed(server.over, everyone, b)
                  \/ ~Denied(server.over, mine \cup others \cup everyone, b) /\ HasBase(server, {server.held}, b)
        BY <1>1, <4>4
      <4> QED BY <2>1, <4>1, <4>3, <4>5, <4>6
    <3> QED BY <1>3, <2>1, <3>1, <3>2, <3>3, <3>4
  <2> QED BY <2>3, <2>4
<1> QED BY <1>4, <1>5

LEMMA InStepDecides ==
    ASSUME TypeInv, GuildInv, ChannelInv, NEW k, InStep(k), k.row \in Asked, k.row.of = k.target,
           k.target \in {"guild", "channel"}, k.mask = Mask(cache, k.target)
    PROVE  /\ k.row.needs \subseteq k.mask /\ (k.row.owner => cache.owner = Self) =>
                Permits(k.row, k.target)
           /\ Permits(k.row, k.target) =>
                k.row.needs \subseteq k.mask /\ (k.row.owner => cache.owner = Self)
<1>1. cache.owner = server.owner /\ (OfMain(k.row, k.target) => Main \in server.channels)
  BY InStepSame
<1>2. k.row.needs \subseteq Bit /\ k.row.of # "nobody"
  BY AskedRows
<1>3. \A b \in k.row.needs : b \in k.mask <=> ServerGrants(k.target, b)
  BY <1>2, InStepGrants
<1> QED BY <1>1, <1>2, <1>3 DEF Permits

(* Changes that do not concern an undisturbed call. *)
Unconcerned ==
    /\ server'.id = server.id /\ server'.owner = server.owner /\ server'.roles = server.roles
    /\ server'.held = server.held /\ server'.over = server.over
    /\ Main \in server'.channels <=> Main \in server.channels
    /\ cache'.id = cache.id /\ cache'.owner = cache.owner /\ cache'.roles = cache.roles
    /\ cache'.held = cache.held /\ cache'.over = cache.over
    /\ Main \in cache.known => Main \in cache'.known
    /\ (\A i \in DOMAIN events : events[i].kind = "create") =>
         \A i \in DOMAIN events' : events'[i].kind = "create"

LEMMA MaskDepends ==
    ASSUME NEW g, NEW h, NEW target, h.id = g.id, h.owner = g.owner, h.roles = g.roles,
           h.held = g.held, h.over = g.over
    PROVE  /\ Mask(h, target) = Mask(g, target)
           /\ BasePermissions(h, Self, {h.held}) = BasePermissions(g, Self, {g.held})
<1>1. PICK held : held = g.held
  OBVIOUS
<1>2. BasePermissions(h, Self, {held}) = BasePermissions(g, Self, {held})
  BY DEF BasePermissions
<1>3. ASSUME NEW base
      PROVE  ComputeOverwrites(base, h, Self, {held}, h.over) = ComputeOverwrites(base, g, Self, {held}, g.over)
  BY DEF ComputeOverwrites, RoleOverwrites
<1> QED BY <1>1, <1>2, <1>3 DEF Mask, MaskBy

LEMMA QuietUnconcerned ==
    ASSUME NEW k, QuietAt(k), Unconcerned
    PROVE  QuietAt(k)'
<1>1. Permits(k.row, k.target)' <=> Permits(k.row, k.target)
  BY DEF Permits, ServerGrants, HasBase, Granted, Unconcerned
<1>2. InStep(k) => InStep(k)'
  BY DEF InStep, Unconcerned
<1>3. Found(k) => Found(k)'
  <2>1. PICK g, h : g = cache /\ h = cache'
    OBVIOUS
  <2>2. /\ Mask(h, k.target) = Mask(g, k.target)
        /\ BasePermissions(h, Self, {h.held}) = BasePermissions(g, Self, {g.held})
    BY <2>1, MaskDepends DEF Unconcerned
  <2> QED BY <2>1, <2>2 DEF Found, HasRead, Unconcerned
<1> QED BY <1>1, <1>2, <1>3 DEF QuietAt

(* How a step of a call's own leaves it, as the cache and the server are. *)
LEMMA QuietReads ==
    ASSUME TypeInv, NEW c \in Callers, QuietAt(call[c]), NEW r, NEW stage, NEW mask, NEW todo,
           Reads(call[c], r, stage, mask, todo), call[c].stage \in Checking,
           stage \in Checking \cup {"decide"}, call[c].quiet => Found(r)
    PROVE  QuietAt(r)
BY DEF QuietAt, Reads, Kept, Checking, InStep

LEMMA QuietBase ==
    ASSUME TypeInv, NEW c \in Callers, QuietAt(call[c]), ReadBase(c)
    PROVE  \E r : Set(c, r) /\ QuietAt(r)
<1>1. PICK r : Set(c, r) /\
        \/ /\ cache.owner = Self /\ Reads(call[c], r, Onward(call[c]), Bit, {})
        \/ /\ cache.owner # Self /\ Reads(call[c], r, "entry", cache.roles[Guild], call[c].todo)
  BY ReadBaseForms
<1>2. call[c].stage = "base"
  BY ReadBaseForms DEF At
<1>3. CASE cache.owner = Self /\ Reads(call[c], r, Onward(call[c]), Bit, {})
  <2>1. BasePermissions(cache, Self, {cache.held}) = Bit
    BY <1>3 DEF BasePermissions
  <2>2. Found(r)
    BY <1>3, <2>1 DEF Found, Reads, Kept, Onward, Mask, MaskBy
  <2> QED BY <1>1, <1>2, <1>3, <2>2, QuietReads DEF Onward, Checking
<1>4. CASE cache.owner # Self /\ Reads(call[c], r, "entry", cache.roles[Guild], call[c].todo)
  <2>1. Found(r)
    BY <1>4 DEF Found, HasRead, Reads
  <2> QED BY <1>1, <1>2, <1>4, <2>1, QuietReads DEF Checking
<1> QED BY <1>1, <1>3, <1>4

LEMMA QuietEntry ==
    ASSUME TypeInv, NEW c \in Callers, QuietAt(call[c]), ReadEntry(c)
    PROVE  \E r : Set(c, r) /\ QuietAt(r)
<1>1. PICK r : Set(c, r) /\ Reads(call[c], r, "role", call[c].mask, cache.held)
  BY ReadEntryForms
<1>2. call[c].stage = "entry"
  BY ReadEntryForms DEF At
<1>3. call[c].quiet => Found(r)
  <2>1. call[c].quiet => cache.owner # Self /\ HasRead({}, call[c].mask)
    BY <1>2 DEF QuietAt, Found
  <2>2. cache.held \ cache.held = {}
    OBVIOUS
  <2> QED BY <1>1, <2>1, <2>2 DEF Found, Reads
<1> QED BY <1>1, <1>2, <1>3, QuietReads DEF Checking

LEMMA QuietRole ==
    ASSUME TypeInv, NEW c \in Callers, QuietAt(call[c]), ReadRole(c)
    PROVE  \E r : Set(c, r) /\ QuietAt(r)
<1>1. call[c].stage = "role"
  BY ReadRoleForms DEF At
<1>2. call[c].quiet =>
        /\ cache.owner # Self /\ call[c].todo \subseteq cache.held /\ cache.held \subseteq DOMAIN cache.roles
        /\ HasRead(cache.held \ call[c].todo, call[c].mask)
  BY <1>1 DEF QuietAt, Found, InStep
<1>3. ASSUME NEW x \in call[c].todo, x \notin DOMAIN cache.roles, NEW r, Set(c, r),
             Reads(call[c], r, Onward(call[c]), {}, {})
      PROVE  \E q : Set(c, q) /\ QuietAt(q)
  <2>1. ~call[c].quiet
    BY <1>2, <1>3
  <2> QED BY <1>1, <1>3, <2>1, QuietReads DEF Onward, Checking
<1>4. ASSUME NEW x \in call[c].todo, x \in DOMAIN cache.roles, NEW r, Set(c, r),
             Reads(call[c], r, "role", call[c].mask \cup cache.roles[x], call[c].todo \ {x})
      PROVE  \E q : Set(c, q) /\ QuietAt(q)
  <2>1. ASSUME call[c].quiet PROVE Found(r)
    <3>1. cache.held \ (call[c].todo \ {x}) = (cache.held \ call[c].todo) \cup {x}
      BY <1>2, <1>4, <2>1
    <3>2. HasRead((cache.held \ call[c].todo) \cup {x}, call[c].mask \cup cache.roles[x])
      BY <1>2, <2>1 DEF HasRead
    <3> QED BY <1>2, <1>4, <2>1, <3>1, <3>2 DEF Found, Reads
  <2> QED BY <1>1, <1>4, <2>1, QuietReads DEF Checking
<1>5. ASSUME call[c].todo = {}, NEW r, Set(c, r),
             Reads(call[c], r, Onward(call[c]), IF Admin \in call[c].mask THEN Bit ELSE call[c].mask, {})
      PROVE  \E q : Set(c, q) /\ QuietAt(q)
  <2>1. ASSUME call[c].quiet PROVE Found(r)
    <3>1. HasRead(cache.held, call[c].mask)
      <4>1. cache.held \ call[c].todo = cache.held
        BY <1>5
      <4> QED BY <1>2, <2>1, <4>1
    <3>2. cache.id = Guild /\ Guild \in DOMAIN cache.roles
      BY DEF TypeInv, TypeOK, CacheGuild
    <3>3. BasePermissions(cache, Self, {cache.held})
            = IF Admin \in call[c].mask THEN Bit ELSE call[c].mask
      <4>1. UNION {cache.held} = cache.held
        OBVIOUS
      <4>2. ~(\E held \in {cache.held} : ~(held \cup {cache.id} \subseteq DOMAIN cache.roles))
        BY <1>2, <2>1, <3>2
      <4> QED BY <1>2, <2>1, <3>1, <3>2, <4>1, <4>2 DEF BasePermissions, HasRead
    <3> QED BY <1>5, <3>3 DEF Found, Reads, Kept, Onward, Mask, MaskBy
  <2> QED BY <1>1, <1>5, <2>1, QuietReads DEF Onward, Checking
<1> QED BY <1>3, <1>4, <1>5, ReadRoleForms

LEMMA QuietOverwrites ==
    ASSUME TypeInv, NEW c \in Callers, QuietAt(call[c]), ReadOverwrites(c)
    PROVE  \E r : Set(c, r) /\ QuietAt(r)
<1>1. PICK r : Set(c, r) /\
        Reads(call[c], r, "decide",
              ComputeOverwrites(call[c].mask, cache, Self, {cache.held}, cache.over), call[c].todo)
  BY ReadOverwritesForms
<1>2. call[c].stage = "over" /\ call[c].target = "channel"
  BY ReadOverwritesForms, CallAt DEF At, Fits
<1>3. call[c].quiet => Found(r)
  <2>1. call[c].quiet => call[c].mask = BasePermissions(cache, Self, {cache.held})
    BY <1>2 DEF QuietAt, Found
  <2> QED BY <1>1, <1>2, <2>1 DEF Found, Reads, Kept, Mask, MaskBy
<1> QED BY <1>1, <1>2, <1>3, QuietReads DEF Checking

LEMMA QuietDecide ==
    ASSUME TypeInv, GuildInv, ChannelInv, NEW c \in Callers, QuietAt(call[c]), Decide(c)
    PROVE  \E r : Set(c, r) /\ QuietAt(r)
<1>1. call[c].stage = "decide" /\ Fits(call[c], private)
  BY DecideForms, CallAt DEF At
<1>2. call[c].row = Query \/ (call[c].row \in Asked /\ call[c].row.of = call[c].target)
  BY <1>1 DEF Fits
<1>3. call[c].quiet => InStep(call[c]) /\ call[c].mask = Mask(cache, call[c].target)
  BY <1>1 DEF QuietAt, Found
<1>4. ASSUME call[c].quiet, call[c].row.of # "ids" PROVE Permits(call[c].row, call[c].target) <=> Sufficient(c)
  <2>1. PICK k : k = call[c]
    OBVIOUS
  <2>2. /\ k.row \in Asked /\ k.row.of = k.target /\ k.target \in {"guild", "channel"}
        /\ InStep(k) /\ k.mask = Mask(cache, k.target)
    BY <1>1, <1>2, <1>3, <1>4, <2>1, AskedRows DEF Fits
  <2>3. (k.row.needs \subseteq k.mask /\ (k.row.owner => cache.owner = Self))
          <=> Permits(k.row, k.target)
    BY <2>2, InStepDecides
  <2> QED BY <2>1, <2>3 DEF Sufficient
<1>5. ASSUME NEW r, NEW stage, NEW result, Set(c, r), Leaves(call[c], r, stage, result),
             stage \in {"done", "posted"},
             call[c].quiet /\ stage = "posted" => Permits(call[c].row, call[c].target),
             call[c].quiet /\ stage = "done" /\ result = "no_permission"
               /\ call[c].row.fails # "no_permission" => ~Permits(call[c].row, call[c].target)
      PROVE  \E q : Set(c, q) /\ QuietAt(q)
  <2>1. /\ r.row = call[c].row /\ r.target = call[c].target /\ r.quiet = call[c].quiet
        /\ r.code = call[c].code /\ r.stage = stage /\ r.result = result
    BY <1>5 DEF Leaves
  <2>2. call[c].quiet => InStep(r) /\ Found(r)
    BY <1>3, <1>5, <2>1 DEF InStep, Found
  <2>3. call[c].quiet => call[c].code # "denied"
    BY DEF QuietAt
  <2>4. QuietAt(r)
    BY <1>5, <2>1, <2>2, <2>3 DEF QuietAt
  <2> QED BY <1>5, <2>4
<1>6. CASE call[c].row.of = "ids" /\ \E r : Set(c, r) /\ Leaves(call[c], r, "done", "value")
  BY <1>5, <1>6
<1>7. CASE /\ call[c].row.of # "ids" /\ ~Sufficient(c)
           /\ \E r : Set(c, r) /\ Leaves(call[c], r, "done", "no_permission")
  BY <1>4, <1>5, <1>7
<1>8. CASE /\ call[c].row.of # "ids" /\ Sufficient(c) /\ call[c].row.fails # "no"
           /\ \E r : Set(c, r) /\ Leaves(call[c], r, "done", call[c].row.fails)
  BY <1>5, <1>8
<1>9. CASE /\ call[c].row.of # "ids" /\ Sufficient(c) /\ call[c].row.fails = "no"
           /\ \E r : Set(c, r) /\ Leaves(call[c], r, "posted", call[c].result)
  BY <1>4, <1>5, <1>9
<1> QED BY <1>6, <1>7, <1>8, <1>9, DecideForms

LEMMA QuietBegin ==
    ASSUME TypeInv, GuildInv, ChannelInv, NEW c \in Callers, Begin(c)
    PROVE  \E r : Set(c, r) /\ QuietAt(r)
<1>1. ASSUME NEW row, NEW target, NEW stage, NEW result, NEW opening,
             Set(c, Begun(row, target, stage, result, opening)), stage \in {"done", "posted", "base"},
             result = "no_permission" => row.fails = "no_permission",
             stage = "posted" /\ Fresh(row, target) => Permits(row, target)
      PROVE  \E r : Set(c, r) /\ QuietAt(r)
  <2>1. PICK b : b = Begun(row, target, stage, result, opening)
    OBVIOUS
  <2>2. /\ b.row = row /\ b.target = target /\ b.stage = stage /\ b.result = result
        /\ b.code = "none" /\ (b.quiet <=> Fresh(row, target))
    BY <2>1 DEF Begun
  <2>3. Fresh(row, target) => InStep(b) /\ Found(b)
    BY <1>1, <2>2 DEF Fresh, InStep, Found
  <2>4. QuietAt(b)
    BY <1>1, <2>2, <2>3 DEF QuietAt
  <2> QED BY <1>1, <2>1, <2>4
<1>2. CASE \E row \in Asked \cup {Query}, target \in Target, result \in Result :
             Set(c, Begun(row, target, "done", result, FALSE)) /\ Failed(row, target, result)
  <2>1. PICK row \in Asked \cup {Query}, target \in Target, result \in Result :
             Set(c, Begun(row, target, "done", result, FALSE)) /\ Failed(row, target, result)
    BY <1>2
  <2>2. result = "no_permission" => row.fails = "no_permission"
    BY <2>1, AskedRows DEF Failed, RowOK
  <2>3. PICK no, done : no = FALSE /\ done = "done"
    OBVIOUS
  <2>4. Set(c, Begun(row, target, done, result, no)) /\ done \in {"done", "posted", "base"} /\ done # "posted"
    BY <2>1, <2>3
  <2> QED BY <1>1, <2>2, <2>4
<1>3. CASE \E row \in Asked \cup {Query}, target \in Target, opening \in BOOLEAN :
             Set(c, Begun(row, target, "posted", "none", opening)) /\ PostedAs(row, target, opening)
  <2>1. PICK row \in Asked \cup {Query}, target \in Target, opening \in BOOLEAN :
             Set(c, Begun(row, target, "posted", "none", opening)) /\ PostedAs(row, target, opening)
    BY <1>3
  <2>2. ASSUME Fresh(row, target) PROVE Permits(row, target)
    <3>1. PICK k : k = [row |-> row, target |-> target]
      OBVIOUS
    <3>2. InStep(k)
      BY <2>2, <3>1 DEF Fresh, InStep
    <3>3. OfMain(row, target) => Main \in server.channels
      BY <3>1, <3>2, InStepSame
    <3>4. row \in Asked /\ (row.of = "nobody" \/ (row.of = "channel" /\ target = "private"))
      BY <2>1 DEF PostedAs
    <3>5. ~row.owner
      BY <3>4, AskedRows DEF RowOK
    <3> QED BY <3>3, <3>4, <3>5 DEF Permits, ServerGrants
  <2>3. PICK op, posted, none : op = opening /\ posted = "posted" /\ none = "none"
    OBVIOUS
  <2>4. Set(c, Begun(row, target, posted, none, op)) /\ posted \in {"done", "posted", "base"}
    BY <2>1, <2>3
  <2> QED BY <1>1, <2>2, <2>3, <2>4
<1>4. CASE \E row \in Asked \cup {Query}, target \in Target :
             Set(c, Begun(row, target, "base", "none", FALSE))
  <2>1. PICK row \in Asked \cup {Query}, target \in Target :
             Set(c, Begun(row, target, "base", "none", FALSE))
    BY <1>4
  <2>2. PICK no, base, none : no = FALSE /\ base = "base" /\ none = "none"
    OBVIOUS
  <2>3. Set(c, Begun(row, target, base, none, no)) /\ base \in {"done", "posted", "base"}
    BY <2>1, <2>2
  <2> QED BY <1>1, <2>2, <2>3
<1>5. \/ \E row \in Asked \cup {Query}, target \in Target, result \in Result :
             /\ Set(c, Begun(row, target, "done", result, FALSE))
             /\ readers' = readers /\ Failed(row, target, result)
      \/ \E row \in Asked \cup {Query}, target \in Target, opening \in BOOLEAN :
             /\ Set(c, Begun(row, target, "posted", "none", opening))
             /\ readers' = readers /\ PostedAs(row, target, opening)
      \/ \E row \in Asked \cup {Query}, target \in Target :
             /\ Set(c, Begun(row, target, "base", "none", FALSE))
             /\ readers' = IF row = Query THEN readers \cup {c} ELSE readers
             /\ CheckedAs(row, target)
  BY BeginForms, Zenon
<1>6. \/ \E row \in Asked \cup {Query}, target \in Target, result \in Result :
             Set(c, Begun(row, target, "done", result, FALSE)) /\ Failed(row, target, result)
      \/ \E row \in Asked \cup {Query}, target \in Target, opening \in BOOLEAN :
             Set(c, Begun(row, target, "posted", "none", opening)) /\ PostedAs(row, target, opening)
      \/ \E row \in Asked \cup {Query}, target \in Target :
             Set(c, Begun(row, target, "base", "none", FALSE))
  BY <1>5, Zenon
<1> QED BY <1>2, <1>3, <1>4, <1>6, Zenon

LEMMA QuietPerform ==
    ASSUME TypeInv, NEW c \in Callers, QuietAt(call[c]), Perform(c)
    PROVE  \E r : Set(c, r) /\ QuietAt(r)
<1>1. PICK r, code : /\ Set(c, r) /\ Answers(call[c], r, "served", code, call[c].opening)
                     /\ code = "denied" => ~Permits(call[c].row, call[c].target)
  BY PerformForms
<1>2. call[c].stage = "posted"
  BY PerformForms DEF At
<1>3. /\ r.row = call[c].row /\ r.target = call[c].target /\ r.quiet = call[c].quiet
      /\ r.code = code /\ r.stage = "served"
  BY <1>1 DEF Answers
<1>4. call[c].quiet => Permits(call[c].row, call[c].target) /\ InStep(call[c])
  BY <1>2 DEF QuietAt
<1>5. call[c].quiet => InStep(r) /\ Found(r)
  BY <1>3, <1>4 DEF InStep, Found
<1>6. QuietAt(r)
  BY <1>1, <1>3, <1>4, <1>5 DEF QuietAt
<1> QED BY <1>1, <1>6

LEMMA QuietFinish ==
    ASSUME TypeInv, NEW c \in Callers, QuietAt(call[c]), Finish(c)
    PROVE  \E r : Set(c, r) /\ QuietAt(r)
<1>1. PICK r : Set(c, r) /\
        \/ Answers(call[c], r, "posted", "none", FALSE)
        \/ Leaves(call[c], r, "done", Outcome(c))
  BY FinishForms
<1>2. call[c].stage = "served" /\ Outcome(c) # "no_permission"
  BY FinishForms DEF At, Outcome
<1>3. /\ r.row = call[c].row /\ r.target = call[c].target /\ r.quiet = call[c].quiet
      /\ r.code = "none" \/ r.code = call[c].code
      /\ r.stage = "posted" \/ (r.stage = "done" /\ r.result = Outcome(c))
  BY <1>1 DEF Answers, Leaves
<1>4. call[c].quiet => /\ Permits(call[c].row, call[c].target) /\ InStep(call[c])
                       /\ call[c].code # "denied"
  BY <1>2 DEF QuietAt
<1>5. call[c].quiet => InStep(r) /\ Found(r)
  BY <1>3, <1>4 DEF InStep, Found
<1>6. QuietAt(r)
  BY <1>2, <1>3, <1>4, <1>5 DEF QuietAt
<1> QED BY <1>1, <1>6

LEMMA CallerUnconcerned ==
    ASSUME TypeInv, NEW c \in Callers, Caller(c)
    PROVE  Unconcerned
<1>1. CASE UNCHANGED <<server, cache, events>>
  BY <1>1 DEF Unconcerned
<1>2. CASE Perform(c)
  <2>1. CASE /\ server' = [server EXCEPT !.channels = @ \cup {c}]
             /\ events' = Append(events, [kind |-> "create", id |-> c])
    <3>1. /\ server'.id = server.id /\ server'.owner = server.owner /\ server'.roles = server.roles
          /\ server'.held = server.held /\ server'.over = server.over
          /\ server'.channels = server.channels \cup {c}
      BY <2>1 DEF TypeInv, TypeOK, ServerGuild
    <3>2. PICK e \in Event : e = [kind |-> "create", id |-> c]
      BY EventSorts
    <3>3. (\A i \in DOMAIN events : events[i].kind = "create") =>
             \A i \in DOMAIN events' : events'[i].kind = "create"
      BY <2>1, <3>2, Appended DEF TypeInv, TypeOK
    <3> QED BY <1>2, <3>1, <3>3, Ids, PerformForms DEF Unconcerned
  <2> QED BY <1>1, <1>2, <2>1, PerformForms
<1>3. CASE Finish(c)
  <2>1. CASE cache' = [cache EXCEPT !.known = @ \cup {c}, !.linked = @ \cup {c}]
    BY <1>3, <2>1, FinishForms DEF Unconcerned, TypeInv, TypeOK, CacheGuild
  <2> QED BY <1>1, <1>3, <2>1, FinishForms
<1> QED BY <1>1, <1>2, <1>3
        DEF Caller, Begin, ReadBase, ReadEntry, ReadRole, ReadOverwrites, Reading, Decide

LEMMA QuietCaller ==
    ASSUME TypeInv, GuildInv, ChannelInv, QuietInv, NEW c \in Callers, Caller(c)
    PROVE  QuietInv'
<1>1. QuietAt(call[c])
  BY DEF QuietInv
<1>2. PICK r : Set(c, r) /\ QuietAt(r)
  BY <1>1, QuietBegin, QuietBase, QuietEntry, QuietRole, QuietOverwrites, QuietDecide, QuietPerform,
     QuietFinish DEF Caller
<1>3. ASSUME NEW d \in Callers PROVE QuietAt(call[d])'
  <2>1. PICK k : k = call'[d]
    OBVIOUS
  <2>2. QuietAt(k)
    BY <1>2, <2>1 DEF Set, QuietInv, TypeInv, TypeOK
  <2>3. QuietAt(k)'
    BY <2>2, QuietUnconcerned, CallerUnconcerned
  <2> QED BY <2>1, <2>3 DEF QuietAt, InStep, Found
<1> QED BY <1>3 DEF QuietInv

LEMMA QuietHandle ==
    ASSUME TypeInv, QuietInv, HandleEvent
    PROVE  QuietInv'
<1>1. PICK e \in Event : e = Head(events) /\ cache' = After(e) /\ events' = Tail(events)
  BY HandleForms
<1>2. ASSUME NEW c \in Callers PROVE QuietAt(call[c])'
  <2>1. PICK k : k = call'[c]
    OBVIOUS
  <2>2. /\ k.row = call[c].row /\ k.target = call[c].target /\ k.stage = call[c].stage
        /\ k.mask = call[c].mask /\ k.todo = call[c].todo /\ k.quiet = call[c].quiet
        /\ k.code = call[c].code /\ k.result = call[c].result
    BY <1>1, <2>1, HandleForms DEF Meets
  <2>3. QuietAt(k)
    BY <2>2 DEF QuietInv, QuietAt, InStep, Found
  <2>4. ASSUME ~k.quiet \/ k.stage = "idle" PROVE QuietAt(k)'
    BY <2>3, <2>4 DEF QuietAt
  <2>5. ASSUME k.quiet, k.stage # "idle" PROVE QuietAt(k)'
    <3>1. \A i \in DOMAIN events : events[i].kind = "create"
      BY <2>3, <2>5 DEF QuietAt, InStep
    <3>2. events \in Seq(Event) /\ events # <<>>
      BY HandleForms DEF TypeInv, TypeOK
    <3>3. e.kind = "create"
      BY <1>1, <3>1, <3>2, Handled
    <3>4. \A i \in DOMAIN events' : events'[i].kind = "create"
      BY <1>1, <3>1, <3>2, Handled
    <3>5. /\ cache'.id = cache.id /\ cache'.owner = cache.owner /\ cache'.roles = cache.roles
          /\ cache'.held = cache.held /\ cache'.over = cache.over
          /\ Main \in cache.known => Main \in cache'.known
      <4>1. After(e) \in CacheGuild /\ cache \in CacheGuild
        BY AfterParts DEF TypeInv, TypeOK
      <4> QED BY <1>1, <3>3, <4>1, AfterParts DEF CacheGuild
    <3>6. Unconcerned
      BY <3>4, <3>5, HandleForms DEF Unconcerned
    <3> QED BY <2>3, <3>6, QuietUnconcerned
  <2>6. QuietAt(k)'
    BY <2>4, <2>5
  <2> QED BY <2>1, <2>6 DEF QuietAt, InStep, Found
<1> QED BY <1>2 DEF QuietInv

LEMMA QuietNext ==
    ASSUME TypeInv, GuildInv, ChannelInv, QuietInv, [Next]_vars
    PROVE  QuietInv'
<1>1. CASE ServerChanges
  <2>1. call' = Disturbed
    BY <1>1 DEF ServerChanges, ChangeRole, DeleteRole, ChangeMember, ChangeOverwrite, DeleteChannel,
                ServerChange
  <2>2. \A c \in Callers : ~call'[c].quiet
    BY <2>1, DisturbedCalls DEF TypeInv, TypeOK
  <2> QED BY <2>2 DEF QuietInv, QuietAt
<1>2. CASE WaitForGuild \/ UNCHANGED vars
  <2>1. UNCHANGED <<server, cache, events, call>>
    BY <1>2 DEF WaitForGuild, vars
  <2>2. Unconcerned
    BY <2>1 DEF Unconcerned
  <2>3. ASSUME NEW c \in Callers PROVE QuietAt(call[c])'
    <3>1. PICK k : k = call[c] /\ k = call'[c]
      BY <2>1
    <3>2. QuietAt(k)'
      BY <2>2, <3>1, QuietUnconcerned DEF QuietInv
    <3> QED BY <3>1, <3>2 DEF QuietAt, InStep, Found
  <2> QED BY <2>3 DEF QuietInv
<1>3. CASE HandleEvent
  BY <1>3, QuietHandle
<1>4. ASSUME NEW c \in Callers, Caller(c) PROVE QuietInv'
  BY <1>4, QuietCaller
<1> QED BY <1>1, <1>2, <1>3, <1>4 DEF Next, Gateway

(* Where the cache was up to date when a call began, no deleted role was left in the bot's
   entry and the server did not change before it served the call, the check and the server
   agree: a call refused locally would have been refused, and a call let through is not -
   whatever else is called, answered and handled meanwhile (guild.cpp:228-335 against the
   rule of the server). *)
THEOREM ChecksLikeServer == Spec => []DecidesLikeServer
<1>1. Init => QuietInv
  BY DEF Init, QuietInv, QuietAt, NoCall
<1>2. TypeInv /\ GuildInv /\ ChannelInv /\ QuietInv /\ [Next]_vars => QuietInv'
  BY QuietNext
<1>3. QuietInv /\ EndInv => DecidesLikeServer
  BY DEF QuietInv, QuietAt, EndInv, DecidesLikeServer
<1>4. Init => EndInv
  BY DEF Init, EndInv, NoTerminate, NoCall
<1>5. TypeInv /\ EndInv /\ [Next]_vars => EndInv'
  BY EndNext
<1>6. TypeInv /\ ChannelInv /\ [Next]_vars => ChannelInv'
  BY ChannelsNext
<1>7. TypeInv /\ GuildInv /\ [Next]_vars => GuildInv'
  BY GuildNext
<1> QED BY <1>1, <1>2, <1>3, <1>4, <1>5, <1>6, <1>7, ChannelsInit, GuildInit, ApiTypes, PTL DEF Spec

(* Once the events are handled, the cache has the roles and the overwrites the server has
   and the bot's entry names the roles it holds - and besides them only roles that are gone
   (guild::_remove_role edits copies, guild.cpp:344). *)
GuildSettles ==
    events = <<>> =>
        /\ cache.roles = server.roles
        /\ cache.held \cap DOMAIN server.roles = server.held
        /\ \A i \in DOMAIN server.roles \cup {Self} :
             /\ i \in DOMAIN cache.over <=> i \in DOMAIN server.over
             /\ i \in DOMAIN server.over => cache.over[i] = server.over[i]

(* The roles, the bot's entry and the overwrites of the cache catch up with the server's in
   the same way, whatever was deleted in between. *)
THEOREM GuildCatchesUp == Spec => []GuildSettles
<1>1. TypeInv /\ GuildInv => GuildSettles
  <2> SUFFICES ASSUME TypeInv, GuildInv, events = <<>>
               PROVE  /\ cache.roles = server.roles /\ SameHeld(cache.held) /\ SameOver(cache.over)
    BY DEF GuildSettles, SameHeld, SameOver
  <2>1. /\ \A r \in RoleIds : Silent(events, OfRole(r))
        /\ Silent(events, OfEntry) /\ Silent(events, OfOverwrites)
    BY DEF Silent
  <2>2. cache.roles \in Tables(RoleIds, Masks) /\ server.roles \in Tables(RoleIds, Masks)
    BY DEF TypeInv, TypeOK, CacheGuild, ServerGuild
  <2>3. \A r \in RoleIds : SameRole(r)
    BY <2>1 DEF GuildInv, RoleInv
  <2>4. /\ DOMAIN cache.roles \subseteq RoleIds /\ DOMAIN server.roles \subseteq RoleIds
        /\ cache.roles \in [DOMAIN cache.roles -> Masks]
        /\ server.roles \in [DOMAIN server.roles -> Masks]
    BY <2>2, TableElim
  <2>5. DOMAIN cache.roles = DOMAIN server.roles
    BY <2>3, <2>4 DEF SameRole
  <2>6. \A r \in DOMAIN server.roles : cache.roles[r] = server.roles[r]
    BY <2>3, <2>4 DEF SameRole
  <2>7. cache.roles = server.roles
    BY <2>4, <2>5, <2>6
  <2>8. SameHeld(cache.held) /\ SameOver(cache.over)
    BY <2>1 DEF GuildInv, HeldInv, OverInv
  <2> QED BY <2>7, <2>8
<1>2. TypeInv /\ GuildInv /\ [Next]_vars => GuildInv'
  BY GuildNext
<1> QED BY <1>1, <1>2, GuildInit, ApiTypes, PTL DEF Spec

-----------------------------------------------------------------------------
(* What a check computes lies between views the cache has had. *)

Adds(g, target, A, D) ==
    \A p : View(g, target, p) = IF Admin \in p THEN Bit ELSE A \cup (p \ D)

(* The overwrites add some bits and take others away, whatever the base. *)
LEMMA ViewForm ==
    ASSUME NEW g, NEW target
    PROVE  \E A, D : Adds(g, target, A, D)
<1>1. CASE target = "guild"
  <2>1. \A p : View(g, target, p) = IF Admin \in p THEN Bit ELSE {} \cup (p \ {})
    BY <1>1 DEF View
  <2> QED BY <2>1 DEF Adds
<1>2. CASE target # "guild"
  <2>1. PICK ea, ed, ra, rd, oa, od :
          /\ ea = OverwriteFor(g.over, g.id).allow /\ ed = OverwriteFor(g.over, g.id).deny
          /\ ra = RoleOverwrites(g, UNION {g.held}, g.over).allow
          /\ rd = RoleOverwrites(g, UNION {g.held}, g.over).deny
          /\ oa = OverwriteFor(g.over, Self).allow /\ od = OverwriteFor(g.over, Self).deny
    OBVIOUS
  <2>2. ASSUME NEW p
        PROVE  View(g, target, p) =
                 IF Admin \in p THEN Bit
                 ELSE (((((p \ ed) \cup ea) \ rd) \cup ra) \ od) \cup oa
    <3>1. {g.held} # {}
      OBVIOUS
    <3> QED BY <1>2, <2>1, <3>1 DEF View, ComputeOverwrites, Apply
  <2>3. ASSUME NEW p
        PROVE  (((((p \ ed) \cup ea) \ rd) \cup ra) \ od) \cup oa
                 = ((((ea \ rd) \cup ra) \ od) \cup oa) \cup (p \ (ed \cup rd \cup od))
    OBVIOUS
  <2>4. \A p : View(g, target, p) =
                 IF Admin \in p THEN Bit
                 ELSE ((((ea \ rd) \cup ra) \ od) \cup oa) \cup (p \ (ed \cup rd \cup od))
    BY <2>2, <2>3
  <2> QED BY <2>4 DEF Adds
<1> QED BY <1>1, <1>2

LEMMA ViewSingles ==
    ASSUME NEW g, NEW target, NEW p, NEW X, View(g, target, {}) \subseteq X,
           \A b \in p : View(g, target, {b}) \subseteq X
    PROVE  View(g, target, p) \subseteq X
<1>1. PICK A, D : Adds(g, target, A, D)
  BY ViewForm
<1>2. CASE Admin \in p
  <2>1. View(g, target, {Admin}) \subseteq X
    BY <1>2
  <2> QED BY <1>1, <1>2, <2>1 DEF Adds
<1>3. CASE Admin \notin p
  <2>1. A \subseteq X
    <3>1. View(g, target, {}) = A \cup ({} \ D)
      BY <1>1 DEF Adds
    <3> QED BY <3>1
  <2>2. ASSUME NEW b \in p, b \notin D PROVE b \in X
    <3>1. View(g, target, {b}) = A \cup ({b} \ D)
      BY <1>1, <1>3 DEF Adds
    <3> QED BY <2>2, <3>1
  <2>3. View(g, target, p) = A \cup (p \ D)
    BY <1>1, <1>3 DEF Adds
  <2> QED BY <2>1, <2>2, <2>3
<1> QED BY <1>2, <1>3

LEMMA ViewGrows ==
    ASSUME NEW g, NEW target, NEW p, NEW q, p \subseteq q, q \subseteq Bit,
           View(g, target, {}) \subseteq Bit
    PROVE  View(g, target, p) \subseteq View(g, target, q)
<1>1. PICK A, D : Adds(g, target, A, D)
  BY ViewForm
<1>2. A \subseteq Bit
  <2>1. View(g, target, {}) = A \cup ({} \ D)
    BY <1>1 DEF Adds
  <2> QED BY <2>1
<1>3. /\ View(g, target, p) = IF Admin \in p THEN Bit ELSE A \cup (p \ D)
      /\ View(g, target, q) = IF Admin \in q THEN Bit ELSE A \cup (q \ D)
  BY <1>1 DEF Adds
<1> QED BY <1>2, <1>3

(* An administrator's bits say no more than that he is one. *)
LEMMA ViewFull ==
    ASSUME NEW g, NEW target, NEW p
    PROVE  /\ View(g, target, IF Admin \in p THEN Bit ELSE p) = View(g, target, p)
           /\ View(g, target, Bit) = Bit
<1>1. PICK A, D : Adds(g, target, A, D)
  BY ViewForm
<1>2. View(g, target, Bit) = Bit
  BY <1>1, BitAdmin DEF Adds
<1>3. Admin \in p => View(g, target, p) = Bit
  BY <1>1 DEF Adds
<1> QED BY <1>2, <1>3

LEMMA ViewDepends ==
    ASSUME NEW g, NEW h, NEW target, NEW p, h.id = g.id, h.held = g.held, h.over = g.over
    PROVE  View(h, target, p) = View(g, target, p)
<1>1. PICK held : held = g.held
  OBVIOUS
<1>2. ComputeOverwrites(p, h, Self, {held}, h.over) = ComputeOverwrites(p, g, Self, {held}, g.over)
  BY DEF ComputeOverwrites, RoleOverwrites
<1> QED BY <1>1, <1>2 DEF View

(* What the cache answers, as views. *)
LEMMA MaskView ==
    ASSUME NEW g, NEW target, NEW held, g.id = Guild
    PROVE  /\ g.owner = Self => MaskBy(g, held, target) = Bit
           /\ g.owner # Self /\ {Guild} \cup held \subseteq DOMAIN g.roles =>
                MaskBy(g, held, target) = View(g, target, MaskOf(g, held))
           /\ g.owner # Self /\ ~({Guild} \cup held \subseteq DOMAIN g.roles) =>
                MaskBy(g, held, target) = View(g, target, {})
<1> DEFINE base == BasePermissions(g, Self, {held})
<1>1. MaskBy(g, held, target) = IF target = "guild" THEN base
                                ELSE ComputeOverwrites(base, g, Self, {g.held}, g.over)
  BY DEF MaskBy
<1>2. View(g, target, base) = IF target = "guild" THEN IF Admin \in base THEN Bit ELSE base
                              ELSE ComputeOverwrites(base, g, Self, {g.held}, g.over)
  BY DEF View
<1>3. CASE g.owner = Self
  <2>1. base = Bit
    BY <1>3 DEF BasePermissions
  <2>2. View(g, target, base) = Bit
    BY <2>1, ViewFull
  <2> QED BY <1>1, <1>2, <1>3, <2>1, <2>2
<1>4. CASE g.owner # Self /\ {Guild} \cup held \subseteq DOMAIN g.roles
  <2>1. base = IF Admin \in MaskOf(g, held) THEN Bit ELSE MaskOf(g, held)
    <3>1. UNION {held} = held
      OBVIOUS
    <3>2. ~(\E h \in {held} : ~(h \cup {g.id} \subseteq DOMAIN g.roles))
      BY <1>4
    <3> QED BY <1>4, <3>1, <3>2 DEF BasePermissions, MaskOf
  <2>2. PICK p : p = MaskOf(g, held)
    OBVIOUS
  <2>3. View(g, target, base) = View(g, target, p)
    BY <2>1, <2>2, ViewFull
  <2>4. MaskBy(g, held, target) = View(g, target, base)
    <3>1. Admin \in base => base = Bit
      BY <2>1
    <3> QED BY <1>1, <1>2, <3>1
  <2> QED BY <1>4, <2>2, <2>3, <2>4
<1>5. CASE g.owner # Self /\ ~({Guild} \cup held \subseteq DOMAIN g.roles)
  <2>1. base = {}
    BY <1>5 DEF BasePermissions
  <2>2. Admin \notin base
    BY <2>1
  <2> QED BY <1>1, <1>2, <1>5, <2>1, <2>2
<1> QED BY <1>3, <1>4, <1>5

LEMMA GuildMasks ==
    ASSUME NEW g \in CacheGuild, Guild \in DOMAIN g.roles, NEW target
    PROVE  /\ \A r \in DOMAIN g.roles : g.roles[r] \subseteq Bit
           /\ \A held : held \subseteq DOMAIN g.roles => MaskOf(g, held) \subseteq Bit
           /\ g.id = Guild
           /\ View(g, target, {}) \subseteq Bit
<1>1. /\ \A r \in DOMAIN g.roles : g.roles[r] \subseteq Bit
      /\ \A i \in DOMAIN g.over : g.over[i].allow \subseteq Bit
  <2>1. g.roles \in Tables(RoleIds, Masks) /\ g.over \in Tables(Named, Overwrites)
    BY DEF CacheGuild
  <2> QED BY <2>1, TableElim, ApiAssumption
<1>2. ComputeOverwrites({}, g, Self, {g.held}, g.over) \subseteq Bit
  <2>1. PICK p : p = {}
    OBVIOUS
  <2>2. ComputeOverwrites(p, g, Self, {g.held}, g.over) \subseteq Bit
    BY <1>1, <2>1, MasksAreBits
  <2> QED BY <2>1, <2>2
<1>3. View(g, target, {}) \subseteq Bit
  BY <1>2 DEF View
<1> QED BY <1>1, <1>3 DEF MaskOf, CacheGuild

LEMMA RestGrants ==
    ASSUME NEW g \in CacheGuild, Guild \in DOMAIN g.roles, NEW target
    PROVE  /\ View(g, target, {}) \subseteq MaskOfRest(g, target)
           /\ \A r \in ({Guild} \cup g.held) \cap DOMAIN g.roles : \A b \in g.roles[r] :
                View(g, target, {b}) \subseteq MaskOfRest(g, target)
           /\ g.owner = Self => MaskOfRest(g, target) = Bit /\ Mask(g, target) = Bit
<1>0. /\ g.id = Guild /\ View(g, target, {}) \subseteq Bit
      /\ \A r \in DOMAIN g.roles : g.roles[r] \subseteq Bit
  BY GuildMasks
<1>1. PICK rest : rest = g.held \cap DOMAIN g.roles
  OBVIOUS
<1>2. MaskOfRest(g, target) = MaskBy(g, rest, target) /\ Mask(g, target) = MaskBy(g, g.held, target)
  BY <1>1 DEF MaskOfRest, Mask
<1>3. CASE g.owner = Self
  <2>1. MaskBy(g, rest, target) = Bit /\ MaskBy(g, g.held, target) = Bit
    BY <1>0, <1>3, MaskView
  <2>2. ASSUME NEW p, p \subseteq Bit PROVE View(g, target, p) \subseteq Bit
    <3>1. PICK all : all = Bit
      OBVIOUS
    <3>2. View(g, target, p) \subseteq View(g, target, all)
      BY <1>0, <2>2, <3>1, ViewGrows
    <3>3. View(g, target, Bit) = Bit
      BY ViewFull
    <3> QED BY <3>1, <3>2, <3>3
  <2>3. \A r \in DOMAIN g.roles : \A b \in g.roles[r] : View(g, target, {b}) \subseteq Bit
    <3>1. ASSUME NEW r \in DOMAIN g.roles, NEW b \in g.roles[r] PROVE View(g, target, {b}) \subseteq Bit
      <4>1. {b} \subseteq Bit
        BY <1>0
      <4> QED BY <2>2, <4>1
    <3> QED BY <3>1
  <2> QED BY <1>0, <1>2, <2>1, <2>3
<1>4. CASE g.owner # Self
  <2>1. PICK p : p = MaskOf(g, rest)
    OBVIOUS
  <2>2. p \subseteq Bit
    BY <1>1, <2>1, GuildMasks
  <2>3. MaskOfRest(g, target) = View(g, target, p)
    <3>1. {Guild} \cup rest \subseteq DOMAIN g.roles
      BY <1>1
    <3> QED BY <1>0, <1>2, <1>4, <2>1, <3>1, MaskView
  <2>4. ASSUME NEW q, q \subseteq p PROVE View(g, target, q) \subseteq MaskOfRest(g, target)
    BY <1>0, <2>2, <2>3, <2>4, ViewGrows
  <2>5. ASSUME NEW r \in ({Guild} \cup g.held) \cap DOMAIN g.roles, NEW b \in g.roles[r]
        PROVE  View(g, target, {b}) \subseteq MaskOfRest(g, target)
    <3>1. {b} \subseteq p
      BY <1>1, <2>1 DEF MaskOf
    <3> QED BY <2>4, <3>1
  <2>6. View(g, target, {}) \subseteq MaskOfRest(g, target)
    BY <2>4
  <2> QED BY <1>4, <2>5, <2>6
<1> QED BY <1>3, <1>4

LEMMA ViewAlone ==
    ASSUME NEW g, NEW h, NEW k, ViewAt(g, k), h.id = g.id, h.owner = g.owner, h.roles = g.roles,
           h.held = g.held, h.over = g.over
    PROVE  ViewAt(h, k)
<1>1. \A p : View(h, k.target, p) = View(g, k.target, p)
  BY ViewDepends
<1>2. Mask(h, k.target) = Mask(g, k.target)
  BY MaskDepends
<1>3. MaskOfRest(h, k.target) = MaskOfRest(g, k.target)
  <2>1. PICK held, rest : held = g.held /\ rest = g.held \cap DOMAIN g.roles
    OBVIOUS
  <2>2. BasePermissions(h, Self, {rest}) = BasePermissions(g, Self, {rest})
    BY DEF BasePermissions
  <2>3. ASSUME NEW p
        PROVE  ComputeOverwrites(p, h, Self, {held}, h.over) = ComputeOverwrites(p, g, Self, {held}, g.over)
    BY DEF ComputeOverwrites, RoleOverwrites
  <2> QED BY <2>1, <2>2, <2>3 DEF MaskOfRest, MaskBy
<1>4. Todo(h, k) = Todo(g, k) /\ Completed(h, k) = Completed(g, k)
  BY DEF Todo, Completed
<1>5. \A held : MaskOf(h, held) = MaskOf(g, held)
  BY DEF MaskOf
<1> QED BY <1>1, <1>2, <1>3, <1>4, <1>5 DEF ViewAt

LEMMA ViewBegin ==
    ASSUME TypeInv, NEW row, NEW target, NEW stage, NEW result, NEW opening,
           stage \in {"done", "posted", "base"}
    PROVE  ViewAt(cache, Begun(row, target, stage, result, opening))
<1>1. PICK k : k = Begun(row, target, stage, result, opening)
  OBVIOUS
<1>2. /\ k.target = target /\ k.stage = stage /\ k.mask = {} /\ k.ever = MaskOfRest(cache, target)
      /\ k.always = Mask(cache, target)
  BY <1>1 DEF Begun
<1>3. PICK g \in CacheGuild : g = cache /\ Guild \in DOMAIN g.roles
  BY DEF TypeInv, TypeOK
<1>4. View(g, target, {}) \subseteq MaskOfRest(g, target)
  BY <1>3, RestGrants
<1> QED BY <1>1, <1>2, <1>3, <1>4 DEF ViewAt

LEMMA ViewBits ==
    ASSUME NEW g \in CacheGuild, Guild \in DOMAIN g.roles, NEW target, NEW p, p \subseteq Bit
    PROVE  View(g, target, p) \subseteq Bit
<1>1. View(g, target, {}) \subseteq Bit
  BY GuildMasks
<1>2. PICK all : all = Bit
  OBVIOUS
<1>3. View(g, target, p) \subseteq View(g, target, all)
  BY <1>1, <1>2, ViewGrows
<1> QED BY <1>2, <1>3, ViewFull

LEMMA ViewReadBase ==
    ASSUME TypeInv, NEW c \in Callers, ViewAt(cache, call[c]), ReadBase(c)
    PROVE  \E r : Set(c, r) /\ ViewAt(cache, r)
<1>1. PICK r : Set(c, r) /\
        \/ /\ cache.owner = Self /\ Reads(call[c], r, Onward(call[c]), Bit, {})
        \/ /\ cache.owner # Self /\ Reads(call[c], r, "entry", cache.roles[Guild], call[c].todo)
  BY ReadBaseForms
<1>2. PICK g \in CacheGuild : g = cache /\ Guild \in DOMAIN g.roles
  BY DEF TypeInv, TypeOK
<1>3. PICK k \in Call : k = call[c] /\ k.stage = "base"
  BY ReadBaseForms, CallAt DEF At
<1>4. ViewAt(g, k)
  BY <1>2, <1>3
<1>5. /\ View(g, k.target, {}) \subseteq MaskOfRest(g, k.target)
      /\ \A x \in ({Guild} \cup g.held) \cap DOMAIN g.roles : \A b \in g.roles[x] :
           View(g, k.target, {b}) \subseteq MaskOfRest(g, k.target)
      /\ g.owner = Self => MaskOfRest(g, k.target) = Bit /\ Mask(g, k.target) = Bit
  BY <1>2, RestGrants
<1>6. k.always \subseteq Bit
  BY DEF Call
<1>7. CASE cache.owner = Self /\ Reads(call[c], r, Onward(call[c]), Bit, {})
  <2>1. /\ r.target = k.target /\ r.ever = k.ever /\ r.always = k.always /\ r.met = k.met
        /\ r.torn = k.torn /\ r.mask = Bit /\ r.stage = Onward(k)
    BY <1>3, <1>7 DEF Reads, Kept
  <2>2. ~k.torn => Bit \subseteq k.ever
    BY <1>2, <1>3, <1>4, <1>5, <1>7 DEF ViewAt, Checking
  <2>3. ASSUME NEW b \in Bit PROVE View(g, k.target, {b}) \subseteq Bit
    <3>1. PICK p : p = {b}
      OBVIOUS
    <3> QED BY <1>2, <3>1, ViewBits
  <2>4. /\ View(g, k.target, {}) \subseteq Bit /\ MaskOfRest(g, k.target) \subseteq Bit
        /\ View(g, k.target, Bit) = Bit
    BY <1>2, <1>5, <1>7, GuildMasks, ViewFull
  <2>5. r.stage = "over" => Completed(g, r) = Bit
    BY <2>1 DEF Completed
  <2>6. r.stage \in {"decide", "over"}
    BY <2>1 DEF Onward
  <2>7. ViewAt(g, r)
    BY <1>6, <2>1, <2>2, <2>3, <2>4, <2>5, <2>6 DEF ViewAt, Checking
  <2> QED BY <1>1, <1>2, <2>7
<1>8. CASE cache.owner # Self /\ Reads(call[c], r, "entry", cache.roles[Guild], call[c].todo)
  <2>1. /\ r.target = k.target /\ r.ever = k.ever /\ r.always = k.always /\ r.met = k.met
        /\ r.torn = k.torn /\ r.mask = g.roles[Guild] /\ r.stage = "entry"
    BY <1>2, <1>3, <1>8 DEF Reads, Kept
  <2>2. ~k.torn => /\ MaskOfRest(g, k.target) \subseteq k.ever /\ k.always \subseteq Mask(g, k.target)
    BY <1>3, <1>4 DEF ViewAt, Checking
  <2>3. Todo(g, r) = g.held
    BY <2>1 DEF Todo
  <2>4. /\ g.held \ Todo(g, r) = {} /\ MaskOf(g, {}) = r.mask
    BY <2>1, <2>3 DEF MaskOf
  <2>5. Mask(g, k.target) = View(g, k.target, Completed(g, r))
    <3>1. g.id = Guild
      BY GuildMasks, <1>2
    <3>2. CASE g.held \subseteq DOMAIN g.roles
      <4>1. Completed(g, r) = MaskOf(g, g.held)
        BY <2>1, <2>3, <3>2 DEF Completed, MaskOf
      <4>2. {Guild} \cup g.held \subseteq DOMAIN g.roles
        BY <1>2, <3>2
      <4> QED BY <1>2, <1>8, <3>1, <4>1, <4>2, MaskView DEF Mask
    <3>3. CASE ~(g.held \subseteq DOMAIN g.roles)
      <4>1. Completed(g, r) = {}
        BY <2>1, <2>3, <3>3 DEF Completed
      <4>2. ~({Guild} \cup g.held \subseteq DOMAIN g.roles)
        BY <1>2, <3>3
      <4> QED BY <1>2, <1>8, <3>1, <4>1, <4>2, MaskView DEF Mask
    <3> QED BY <3>2, <3>3
  <2>6. \A b \in r.mask : View(g, k.target, {b}) \subseteq MaskOfRest(g, k.target)
    BY <1>2, <1>5, <2>1
  <2>7. ViewAt(g, r)
    BY <1>2, <1>5, <1>8, <2>1, <2>2, <2>3, <2>4, <2>5, <2>6 DEF ViewAt
  <2> QED BY <1>1, <1>2, <2>7
<1> QED BY <1>1, <1>7, <1>8

LEMMA ViewReadEntry ==
    ASSUME TypeInv, NEW c \in Callers, ViewAt(cache, call[c]), ReadEntry(c)
    PROVE  \E r : Set(c, r) /\ ViewAt(cache, r)
<1>1. PICK r : Set(c, r) /\ Reads(call[c], r, "role", call[c].mask, cache.held)
  BY ReadEntryForms
<1>2. PICK k, g : k = call[c] /\ g = cache /\ k.stage = "entry"
  BY ReadEntryForms DEF At
<1>3. /\ r.target = k.target /\ r.ever = k.ever /\ r.always = k.always /\ r.met = k.met
      /\ r.torn = k.torn /\ r.mask = k.mask /\ r.stage = "role" /\ r.todo = g.held
  BY <1>1, <1>2 DEF Reads, Kept
<1>4. Todo(g, r) = Todo(g, k)
  BY <1>2, <1>3 DEF Todo
<1>5. Completed(g, r) = Completed(g, k)
  BY <1>2, <1>3, <1>4 DEF Completed
<1>6. ViewAt(g, r)
  BY <1>2, <1>3, <1>4, <1>5 DEF ViewAt, Checking
<1> QED BY <1>1, <1>2, <1>6

LEMMA ViewReadOverwrites ==
    ASSUME TypeInv, NEW c \in Callers, ViewAt(cache, call[c]), ReadOverwrites(c)
    PROVE  \E r : Set(c, r) /\ ViewAt(cache, r)
<1>1. PICK r : Set(c, r) /\
        Reads(call[c], r, "decide",
              ComputeOverwrites(call[c].mask, cache, Self, {cache.held}, cache.over), call[c].todo)
  BY ReadOverwritesForms
<1>2. call[c].stage = "over" /\ call[c].target = "channel"
  BY ReadOverwritesForms, CallAt DEF At, Fits
<1>3. PICK k, g : k = call[c] /\ g = cache
  OBVIOUS
<1>4. /\ r.target = k.target /\ r.ever = k.ever /\ r.always = k.always /\ r.met = k.met
      /\ r.torn = k.torn /\ r.stage = "decide" /\ r.mask = View(g, k.target, k.mask)
  BY <1>1, <1>2, <1>3 DEF Reads, Kept, View
<1>5. Completed(g, k) = k.mask
  BY <1>2, <1>3 DEF Completed
<1>6. ~k.torn => r.mask \subseteq k.ever
  <2>1. ~k.torn => /\ View(g, k.target, {}) \subseteq k.ever
                   /\ \A b \in k.mask : View(g, k.target, {b}) \subseteq k.ever
    BY <1>2, <1>3 DEF ViewAt, Checking
  <2>2. PICK t, p, X : t = k.target /\ p = k.mask /\ X = k.ever
    OBVIOUS
  <2>3. View(g, t, {}) \subseteq X /\ (\A b \in p : View(g, t, {b}) \subseteq X)
          => View(g, t, p) \subseteq X
    BY ViewSingles
  <2> QED BY <1>4, <2>1, <2>2, <2>3
<1>7. ViewAt(g, r)
  BY <1>2, <1>3, <1>4, <1>5, <1>6 DEF ViewAt, Checking
<1> QED BY <1>1, <1>3, <1>7

LEMMA ViewReadRole ==
    ASSUME TypeInv, NEW c \in Callers, ViewAt(cache, call[c]), ReadRole(c)
    PROVE  \E r : Set(c, r) /\ ViewAt(cache, r)
<1>1. PICK g \in CacheGuild : g = cache /\ Guild \in DOMAIN g.roles
  BY DEF TypeInv, TypeOK
<1>2. PICK k \in Call : k = call[c] /\ k.stage = "role"
  BY ReadRoleForms, CallAt DEF At
<1>3. ViewAt(g, k) /\ Todo(g, k) = k.todo /\ k.mask \subseteq Bit
  BY <1>1, <1>2 DEF Todo, Call
<1>4. PICK t : t = k.target
  OBVIOUS
<1>5. k.target # "guild" => Onward(k) = "over"
  BY DEF Onward
<1>6. ASSUME NEW x \in call[c].todo, x \notin DOMAIN cache.roles, NEW r, Set(c, r),
             Reads(call[c], r, Onward(call[c]), {}, {})
      PROVE  \E q : Set(c, q) /\ ViewAt(cache, q)
  <2>1. /\ r.target = k.target /\ r.ever = k.ever /\ r.always = k.always /\ r.met = k.met
        /\ r.torn = k.torn /\ r.mask = {} /\ r.stage = Onward(k)
    BY <1>2, <1>6 DEF Reads, Kept
  <2>2. Completed(g, k) = {}
    BY <1>1, <1>2, <1>3, <1>6 DEF Completed
  <2>3. r.stage = "over" => Completed(g, r) = {}
    BY <2>1 DEF Completed
  <2>4. k.target = "guild" => View(g, k.target, {}) = {}
    BY DEF View
  <2>5. ViewAt(g, r)
    BY <1>2, <1>3, <1>5, <2>1, <2>2, <2>3, <2>4 DEF ViewAt, Checking, Onward
  <2> QED BY <1>1, <1>6, <2>5
<1>7. ASSUME NEW x \in call[c].todo, x \in DOMAIN cache.roles, NEW r, Set(c, r),
             Reads(call[c], r, "role", call[c].mask \cup cache.roles[x], call[c].todo \ {x})
      PROVE  \E q : Set(c, q) /\ ViewAt(cache, q)
  <2>1. /\ r.target = k.target /\ r.ever = k.ever /\ r.always = k.always /\ r.met = k.met
        /\ r.torn = k.torn /\ r.mask = k.mask \cup g.roles[x] /\ r.stage = "role"
        /\ r.todo = k.todo \ {x} /\ Todo(g, r) = k.todo \ {x}
    BY <1>1, <1>2, <1>7 DEF Reads, Kept, Todo
  <2>2. Completed(g, r) = Completed(g, k)
    <3>1. k.todo \subseteq DOMAIN g.roles <=> k.todo \ {x} \subseteq DOMAIN g.roles
      BY <1>1, <1>7
    <3>2. (k.mask \cup g.roles[x]) \cup UNION {g.roles[i] : i \in k.todo \ {x}}
            = k.mask \cup UNION {g.roles[i] : i \in k.todo}
      BY <1>2, <1>7
    <3> QED BY <1>2, <1>3, <2>1, <3>1, <3>2 DEF Completed
  <2>3. ~k.torn => k.todo \subseteq g.held
    BY <1>2, <1>3 DEF ViewAt
  <2>4. ~k.torn /\ k.met = 0 => /\ g.held \ Todo(g, r) \subseteq DOMAIN g.roles
                               /\ r.mask = MaskOf(g, g.held \ Todo(g, r))
    <3> SUFFICES ASSUME ~k.torn, k.met = 0
                 PROVE  /\ g.held \ Todo(g, r) \subseteq DOMAIN g.roles
                        /\ r.mask = MaskOf(g, g.held \ Todo(g, r))
      OBVIOUS
    <3>1. g.held \ k.todo \subseteq DOMAIN g.roles /\ k.mask = MaskOf(g, g.held \ k.todo)
      BY <1>2, <1>3 DEF ViewAt
    <3>2. g.held \ (k.todo \ {x}) = (g.held \ k.todo) \cup {x}
      BY <1>2, <1>7, <2>3
    <3>3. MaskOf(g, (g.held \ k.todo) \cup {x}) = MaskOf(g, g.held \ k.todo) \cup g.roles[x]
      BY DEF MaskOf
    <3> QED BY <1>1, <1>7, <2>1, <3>1, <3>2, <3>3
  <2>5. ~k.torn => \A b \in r.mask : View(g, k.target, {b}) \subseteq k.ever
    <3> SUFFICES ASSUME ~k.torn, NEW b \in r.mask PROVE View(g, k.target, {b}) \subseteq k.ever
      OBVIOUS
    <3>1. CASE b \in k.mask
      BY <1>2, <1>3, <3>1 DEF ViewAt, Checking
    <3>2. CASE b \in g.roles[x]
      <4>1. \A y \in ({Guild} \cup g.held) \cap DOMAIN g.roles : \A d \in g.roles[y] :
               View(g, t, {d}) \subseteq MaskOfRest(g, t)
        BY <1>1, RestGrants
      <4>2. x \in ({Guild} \cup g.held) \cap DOMAIN g.roles
        BY <1>1, <1>2, <1>7, <2>3
      <4>3. MaskOfRest(g, k.target) \subseteq k.ever
        BY <1>2, <1>3 DEF ViewAt, Checking
      <4> QED BY <1>4, <3>2, <4>1, <4>2, <4>3
    <3> QED BY <2>1, <3>1, <3>2
  <2>6. ViewAt(g, r)
    BY <1>2, <1>3, <2>1, <2>2, <2>3, <2>4, <2>5 DEF ViewAt, Checking
  <2> QED BY <1>1, <1>7, <2>6
<1>8. ASSUME call[c].todo = {}, NEW r, Set(c, r),
             Reads(call[c], r, Onward(call[c]), IF Admin \in call[c].mask THEN Bit ELSE call[c].mask, {})
      PROVE  \E q : Set(c, q) /\ ViewAt(cache, q)
  <2>1. /\ r.target = k.target /\ r.ever = k.ever /\ r.always = k.always /\ r.met = k.met
        /\ r.torn = k.torn /\ r.mask = (IF Admin \in k.mask THEN Bit ELSE k.mask)
        /\ r.stage = Onward(k)
    BY <1>2, <1>8 DEF Reads, Kept
  <2>2. Completed(g, k) = k.mask
    BY <1>2, <1>3, <1>8 DEF Completed
  <2>3. r.stage = "over" => Completed(g, r) = r.mask
    BY DEF Completed
  <2>4. PICK p, m, X : p = k.mask /\ m = r.mask /\ X = k.ever
    OBVIOUS
  <2>5. View(g, t, m) = View(g, t, p)
    BY <2>1, <2>4, ViewFull
  <2>6. t = "guild" => View(g, t, p) = m
    BY <2>1, <2>4 DEF View
  <2>7. ~k.torn => /\ View(g, t, {}) \subseteq X
                   /\ \A b \in p : View(g, t, {b}) \subseteq X
                   /\ MaskOfRest(g, t) \subseteq X
                   /\ k.met <= 1 => k.always \subseteq View(g, t, p)
    BY <1>2, <1>3, <1>4, <2>2, <2>4 DEF ViewAt, Checking
  <2>8. ~k.torn => View(g, t, p) \subseteq X
    BY <2>7, ViewSingles
  <2>9. ~k.torn => \A b \in m : View(g, t, {b}) \subseteq X
    <3>1. CASE Admin \in p
      <4>1. View(g, t, p) = Bit
        <5>1. PICK A, D : Adds(g, t, A, D)
          BY ViewForm
        <5> QED BY <3>1, <5>1 DEF Adds
      <4>2. ASSUME NEW b \in m PROVE View(g, t, {b}) \subseteq Bit
        <5>1. PICK one : one = {b}
          OBVIOUS
        <5>2. one \subseteq Bit
          BY <1>3, <2>1, <2>4, <5>1
        <5> QED BY <1>1, <5>1, <5>2, ViewBits
      <4> QED BY <2>8, <4>1, <4>2
    <3>2. CASE Admin \notin p
      BY <2>1, <2>4, <2>7, <3>2
    <3> QED BY <3>1, <3>2
  <2>10. ViewAt(g, r)
    <3>1. CASE r.stage = "decide"
      <4>1. t = "guild"
        BY <1>4, <1>5, <2>1, <3>1
      <4> QED BY <2>1, <2>4, <2>6, <2>7, <2>8, <3>1, <4>1 DEF ViewAt, Checking
    <3>2. CASE r.stage = "over"
      BY <1>4, <2>1, <2>3, <2>4, <2>5, <2>7, <2>9, <3>2 DEF ViewAt, Checking
    <3> QED BY <2>1, <3>1, <3>2 DEF Onward
  <2> QED BY <1>1, <1>8, <2>10
<1> QED BY <1>6, <1>7, <1>8, ReadRoleForms

LEMMA ViewHandle ==
    ASSUME TypeInv, ViewInv, HandleEvent
    PROVE  ViewInv'
<1>1. PICK e \in Event : e = Head(events) /\ cache' = After(e)
  BY HandleForms
<1>2. PICK g \in CacheGuild : g = cache /\ Guild \in DOMAIN g.roles
  BY DEF TypeInv, TypeOK
<1>3. PICK h \in CacheGuild : h = cache' /\ Guild \in DOMAIN h.roles
  BY HandleTypes DEF TypeInv, TypeOK
<1>4. /\ h.id = g.id /\ h.id = Guild /\ h.owner = g.owner
      /\ e.kind # "member" => h.held = g.held
      /\ e.kind # "over" => h.over = g.over
      /\ e.kind \notin {"role", "drop"} => h.roles = g.roles
      /\ e.kind \in {"role", "drop"} =>
           \A i : i # e.id => /\ i \in DOMAIN h.roles <=> i \in DOMAIN g.roles
                              /\ i \in DOMAIN g.roles => h.roles[i] = g.roles[i]
  <2>1. h.id = g.id /\ h.id = Guild
    BY DEF CacheGuild
  <2>2. h = After(e)
    BY <1>1, <1>3
  <2>3. /\ h.owner = g.owner
        /\ e.kind # "member" => h.held = g.held
        /\ e.kind # "over" => h.over = g.over
        /\ e.kind \notin {"role", "drop"} => h.roles = g.roles
    BY <1>2, <2>2, AfterParts
  <2>4. CASE e.kind = "role"
    <3>1. /\ DOMAIN h.roles = DOMAIN g.roles \cup {e.id}
          /\ \A i \in DOMAIN g.roles : i # e.id => h.roles[i] = g.roles[i]
      BY <1>2, <2>2, <2>4, AfterParts
    <3> QED BY <2>1, <2>3, <3>1
  <2>5. CASE e.kind = "drop"
    <3>1. /\ DOMAIN h.roles = DOMAIN g.roles \ {e.id}
          /\ \A i \in DOMAIN g.roles : i # e.id => h.roles[i] = g.roles[i]
      BY <1>2, <2>2, <2>5, AfterParts
    <3> QED BY <2>1, <2>3, <3>1
  <2> QED BY <2>1, <2>3, <2>4, <2>5
<1>5. ASSUME NEW c \in Callers PROVE ViewAt(h, call'[c])
  <2>1. PICK k \in Call : k = call[c]
    BY CallAt
  <2>2. PICK r \in Call : r = call'[c]
    BY HandleForms
  <2>3. ViewAt(g, k) /\ Meets(k, r, e)
    BY <1>1, <1>2, <2>1, <2>2, HandleForms DEF ViewInv
  <2> SUFFICES ViewAt(h, r)
    BY <2>2
  <2>4. CASE r.torn \/ k.stage \notin Checking
    <3>1. CASE k.stage \notin Checking
      BY <2>3, <3>1 DEF Meets, ViewAt, Checking
    <3>2. CASE r.torn
      BY <3>2 DEF ViewAt
    <3> QED BY <2>4, <3>1, <3>2
  <2>5. CASE ~r.torn /\ k.stage \in Checking
    <3>1. PICK t : t = k.target
      OBVIOUS
    <3>2. /\ r.target = t /\ r.stage = k.stage /\ r.mask = k.mask /\ r.todo = k.todo
          /\ r.ever = k.ever \cup MaskOfRest(h, t) /\ r.always = k.always \cap Mask(h, t)
          /\ r.met = (IF e.kind \in {"role", "drop"} THEN k.met + 1 ELSE k.met)
          /\ ~k.torn /\ e.kind \notin {"member", "over"}
      BY <1>1, <1>3, <2>3, <2>5, <3>1 DEF Meets
    <3>3. h.id = g.id /\ h.held = g.held /\ h.over = g.over /\ h.owner = g.owner
      BY <1>4, <3>2
    <3>4. \A p : View(h, t, p) = View(g, t, p)
      BY <3>3, ViewDepends
    <3>5. /\ View(h, t, {}) \subseteq r.ever
          /\ \A b \in r.mask : View(h, t, {b}) \subseteq r.ever
          /\ MaskOfRest(h, t) \subseteq r.ever
      BY <2>3, <2>5, <3>1, <3>2, <3>4 DEF ViewAt
    <3>6. Todo(h, r) = Todo(g, k)
      BY <3>2, <3>3 DEF Todo
    <3>7. k.stage \in {"entry", "role"} => g.owner # Self /\ Todo(g, k) \subseteq g.held
      BY <2>3, <3>2 DEF ViewAt
    <3>8. CASE e.kind \notin {"role", "drop"}
      <4>1. h.roles = g.roles /\ r.met = k.met
        BY <1>4, <3>2, <3>8
      <4>2. Completed(h, r) = Completed(g, k)
        BY <3>2, <3>6, <4>1 DEF Completed
      <4>3. \A held : MaskOf(h, held) = MaskOf(g, held)
        BY <4>1 DEF MaskOf
      <4> QED BY <2>3, <2>5, <3>1, <3>2, <3>3, <3>4, <3>5, <3>6, <3>7, <4>1, <4>2, <4>3
              DEF ViewAt, Checking
    <3>9. CASE e.kind \in {"role", "drop"}
      <4>1. r.met # 0 /\ (r.met <= 1 => k.met = 0)
        BY <3>2, <3>9 DEF Call
      <4>2. ASSUME r.met <= 1, k.stage = "over" PROVE r.always \subseteq View(h, t, Completed(h, r))
        <5>1. Completed(h, r) = Completed(g, k)
          BY <3>2, <4>2 DEF Completed
        <5>2. k.always \subseteq View(g, t, Completed(g, k))
          BY <2>3, <3>1, <3>2, <4>1, <4>2 DEF ViewAt
        <5> QED BY <3>2, <3>4, <5>1, <5>2
      <4>3. ASSUME r.met <= 1, k.stage \in {"entry", "role"}
            PROVE  r.always \subseteq View(h, t, Completed(h, r))
        <5>1. /\ g.held \ Todo(g, k) \subseteq DOMAIN g.roles
              /\ k.mask = MaskOf(g, g.held \ Todo(g, k))
              /\ k.always \subseteq View(g, t, Completed(g, k))
          BY <2>3, <3>1, <3>2, <4>1, <4>3 DEF ViewAt
        <5>2. CASE e.id \notin Todo(g, k)
          <6>1. \A i \in Todo(g, k) : /\ i \in DOMAIN h.roles <=> i \in DOMAIN g.roles
                                      /\ i \in DOMAIN g.roles => h.roles[i] = g.roles[i]
            BY <1>4, <3>9, <5>2
          <6>2. Completed(h, r) = Completed(g, k)
            BY <3>2, <3>6, <6>1 DEF Completed
          <6> QED BY <3>2, <3>4, <5>1, <6>2
        <5>3. CASE e.id \in Todo(g, k)
          <6>1. PICK p, m : p = Completed(h, r) /\ m = MaskOf(h, h.held)
            OBVIOUS
          <6>2. p \subseteq Bit
            <7>1. r.mask \subseteq Bit /\ \A i \in DOMAIN h.roles : h.roles[i] \subseteq Bit
              BY <1>3, GuildMasks DEF Call
            <7> QED BY <6>1, <7>1 DEF Completed
          <6>3. View(h, t, {}) \subseteq Bit
            BY <1>3, GuildMasks
          <6>4. CASE ~({Guild} \cup h.held \subseteq DOMAIN h.roles)
            <7>1. Mask(h, t) = View(h, t, {})
              BY <1>4, <3>3, <3>7, <4>3, <6>4, MaskView DEF Mask
            <7>2. View(h, t, {}) \subseteq View(h, t, p)
              <8>1. PICK none : none = {}
                OBVIOUS
              <8>2. View(h, t, none) \subseteq View(h, t, p)
                BY <6>2, <6>3, <8>1, ViewGrows
              <8> QED BY <8>1, <8>2
            <7> QED BY <3>2, <6>1, <7>1, <7>2
          <6>5. CASE {Guild} \cup h.held \subseteq DOMAIN h.roles
            <7>1. Mask(h, t) = View(h, t, m)
              BY <1>4, <3>3, <3>7, <4>3, <6>1, <6>5, MaskView DEF Mask
            <7>2. p = k.mask \cup UNION {h.roles[i] : i \in Todo(g, k)}
              <8>1. Todo(h, r) \subseteq DOMAIN h.roles
                BY <3>3, <3>6, <3>7, <4>3, <6>5
              <8>2. r.stage # "over"
                BY <3>2, <4>3
              <8> QED BY <3>2, <3>6, <6>1, <8>1, <8>2 DEF Completed
            <7>3. ASSUME NEW i \in {Guild} \cup h.held PROVE h.roles[i] \subseteq p
              <8>1. CASE i \in Todo(g, k)
                BY <7>2, <8>1
              <8>2. CASE i \notin Todo(g, k)
                <9>1. i \in {Guild} \cup (g.held \ Todo(g, k)) /\ i \in DOMAIN g.roles
                  BY <1>2, <3>3, <5>1, <7>3, <8>2
                <9>2. g.roles[i] \subseteq k.mask
                  BY <5>1, <9>1 DEF MaskOf
                <9>3. h.roles[i] = g.roles[i]
                  BY <1>4, <3>9, <5>3, <8>2, <9>1
                <9> QED BY <7>2, <9>2, <9>3
              <8> QED BY <8>1, <8>2
            <7>4. m \subseteq p
              BY <6>1, <7>3 DEF MaskOf
            <7>5. View(h, t, m) \subseteq View(h, t, p)
              BY <6>2, <6>3, <7>4, ViewGrows
            <7> QED BY <3>2, <6>1, <7>1, <7>5
          <6> QED BY <6>4, <6>5
        <5> QED BY <5>2, <5>3
      <4>4. k.stage = "base" => r.mask = {} /\ r.always \subseteq Mask(h, t)
        BY <2>3, <3>2 DEF ViewAt
      <4> QED BY <2>5, <3>2, <3>3, <3>5, <3>6, <3>7, <4>1, <4>2, <4>3, <4>4 DEF ViewAt, Checking
    <3> QED BY <3>8, <3>9
  <2> QED BY <2>4, <2>5
<1> QED BY <1>3, <1>5 DEF ViewInv

LEMMA ViewOwn ==
    ASSUME TypeInv, NEW c \in Callers, ViewAt(cache, call[c]), Caller(c)
    PROVE  \E r : Set(c, r) /\ ViewAt(cache, r)
<1>1. CASE Begin(c)
  <2>1. ASSUME NEW row, NEW target, NEW stage, NEW result, NEW opening,
               Set(c, Begun(row, target, stage, result, opening)),
               stage \in {"done", "posted", "base"}
        PROVE  \E r : Set(c, r) /\ ViewAt(cache, r)
    BY <2>1, ViewBegin
  <2>2. PICK row, target, stage, result, opening :
          /\ Set(c, Begun(row, target, stage, result, opening))
          /\ stage \in {"done", "posted", "base"}
    <3>1. CASE \E row \in Asked \cup {Query}, target \in Target, result \in Result :
                 Set(c, Begun(row, target, "done", result, FALSE))
      BY <3>1
    <3>2. CASE \E row \in Asked \cup {Query}, target \in Target, opening \in BOOLEAN :
                 Set(c, Begun(row, target, "posted", "none", opening))
      <4>1. PICK row \in Asked \cup {Query}, target \in Target, opening \in BOOLEAN :
                 Set(c, Begun(row, target, "posted", "none", opening))
        BY <3>2
      <4>2. "posted" \in {"done", "posted", "base"}
        OBVIOUS
      <4> QED BY <4>1, <4>2, Zenon
    <3>3. CASE \E row \in Asked \cup {Query}, target \in Target :
                 Set(c, Begun(row, target, "base", "none", FALSE))
      BY <3>3
    <3> QED BY <1>1, <3>1, <3>2, <3>3, BeginForms
  <2> QED BY <2>1, <2>2
<1>2. ASSUME NEW r, Set(c, r), r.stage \in {"done", "posted", "served"}
      PROVE  \E q : Set(c, q) /\ ViewAt(cache, q)
  <2>1. ViewAt(cache, r)
    BY <1>2 DEF ViewAt, Checking
  <2> QED BY <1>2, <2>1
<1>3. CASE Decide(c)
  <2>1. PICK r : Set(c, r) /\ r.stage \in {"done", "posted"}
    BY <1>3, DecideForms DEF Leaves
  <2> QED BY <1>2, <2>1
<1>4. CASE Perform(c)
  <2>1. PICK r : Set(c, r) /\ r.stage = "served"
    BY <1>4, PerformForms DEF Answers
  <2> QED BY <1>2, <2>1
<1>5. CASE Finish(c)
  <2>1. PICK r : Set(c, r) /\ r.stage \in {"done", "posted"}
    BY <1>5, FinishForms DEF Leaves, Answers
  <2> QED BY <1>2, <2>1
<1> QED BY <1>1, <1>3, <1>4, <1>5, ViewReadBase, ViewReadEntry, ViewReadRole, ViewReadOverwrites
        DEF Caller

LEMMA ViewCaller ==
    ASSUME TypeInv, ViewInv, NEW c \in Callers, Caller(c)
    PROVE  ViewInv'
<1>1. PICK r : Set(c, r) /\ ViewAt(cache, r)
  BY ViewOwn DEF ViewInv
<1>2. PICK g, h : g = cache /\ h = cache'
  OBVIOUS
<1>3. h.id = g.id /\ h.owner = g.owner /\ h.roles = g.roles /\ h.held = g.held /\ h.over = g.over
  <2>1. CASE UNCHANGED cache
    BY <1>2, <2>1
  <2>2. CASE Finish(c)
    <3>1. CASE cache' = [cache EXCEPT !.known = @ \cup {c}, !.linked = @ \cup {c}]
      BY <1>2, <3>1 DEF TypeInv, TypeOK, CacheGuild
    <3> QED BY <2>1, <2>2, <3>1, FinishForms
  <2> QED BY <2>1, <2>2
          DEF Caller, Begin, ReadBase, ReadEntry, ReadRole, ReadOverwrites, Reading, Decide, Perform
<1>4. ASSUME NEW d \in Callers PROVE ViewAt(h, call'[d])
  <2>1. PICK k : k = call'[d]
    OBVIOUS
  <2>2. ViewAt(g, k)
    BY <1>1, <1>2, <2>1 DEF Set, ViewInv, TypeInv, TypeOK
  <2>3. ViewAt(h, k)
    BY <1>3, <2>2, ViewAlone
  <2> QED BY <2>1, <2>3
<1> QED BY <1>2, <1>4 DEF ViewInv

LEMMA ViewNext ==
    ASSUME TypeInv, ViewInv, [Next]_vars
    PROVE  ViewInv'
<1>1. CASE ServerChanges
  <2>1. call' = Disturbed /\ cache' = cache
    BY <1>1 DEF ServerChanges, ChangeRole, DeleteRole, ChangeMember, ChangeOverwrite, DeleteChannel,
                ServerChange
  <2>2. ASSUME NEW c \in Callers PROVE ViewAt(cache, call'[c])
    <3>1. PICK k, r, g : k = call[c] /\ r = call'[c] /\ g = cache
      OBVIOUS
    <3>2. /\ r.target = k.target /\ r.stage = k.stage /\ r.mask = k.mask /\ r.todo = k.todo
          /\ r.ever = k.ever /\ r.always = k.always /\ r.met = k.met /\ r.torn = k.torn
      BY <2>1, <3>1, DisturbedCalls DEF TypeInv, TypeOK
    <3>3. Todo(g, r) = Todo(g, k) /\ Completed(g, r) = Completed(g, k)
      BY <3>2 DEF Todo, Completed
    <3>4. ViewAt(g, k)
      BY <3>1 DEF ViewInv
    <3>5. ViewAt(g, r)
      BY <3>2, <3>3, <3>4 DEF ViewAt
    <3> QED BY <3>1, <3>5
  <2> QED BY <2>1, <2>2 DEF ViewInv
<1>2. CASE WaitForGuild \/ UNCHANGED vars
  BY <1>2 DEF WaitForGuild, vars, ViewInv
<1>3. CASE HandleEvent
  BY <1>3, ViewHandle
<1>4. ASSUME NEW c \in Callers, Caller(c) PROVE ViewInv'
  BY <1>4, ViewCaller
<1> QED BY <1>1, <1>2, <1>3, <1>4 DEF Next, Gateway

(* What a check computes while roles change under it, one lock at a time, is nothing the bot
   never had: it grants no bit that the roles the bot still had granted at no moment of the
   check; and with a single change of a role it withholds none that was granted
   throughout.  However many roles there are and in whatever order they are read and
   changed (guild.cpp:228-321). *)
THEOREM ChecksBetweenViews == Spec => []BetweenViews
<1>1. Init => ViewInv
  BY DEF Init, ViewInv, ViewAt, NoCall, Checking
<1>2. TypeInv /\ ViewInv /\ [Next]_vars => ViewInv'
  BY ViewNext
<1>3. ViewInv => BetweenViews
  BY DEF ViewInv, ViewAt, BetweenViews, At
<1> QED BY <1>1, <1>2, <1>3, ApiTypes, PTL DEF Spec

=============================================================================
