------------------------------ MODULE Requests ------------------------------
(***************************************************************************)
(* The operations of guild, channel, message and core that ask the server  *)
(* for something: what each looks at before it posts its request           *)
(* (guild.cpp:575-1123, channel.cpp:153-643, message.cpp:62-135,           *)
(* core.cpp:275-330 and 2192-2274), what it can fail with by itself, and   *)
(* the type of the future it returns.  Paths, bodies and buckets are left  *)
(* out.                                                                    *)
(*                                                                         *)
(* An operation is a set of rows, one for each way its arguments make it   *)
(* behave:                                                                 *)
(*   of      whose permissions are looked at: the guild's, those of a      *)
(*           channel, or nobody's                                          *)
(*   needs   the bits that must all be there                               *)
(*   owner   the bot must be the owner                                     *)
(*   alone   what is done for a channel that has no guild                  *)
(*   unknown what is done for a channel the cache does not have: "-" where *)
(*           the operation is one of a channel object                      *)
(*   fails   what an operation fails with after the permissions are        *)
(*           found sufficient, "no" when it posts its request              *)
(*   reply   the type of the result                                        *)
(*   adopts  the reply makes a channel of the cache (create_..._channel)   *)
(*   opens   a private channel is opened first when none is known          *)
(***************************************************************************)
EXTENDS Permissions

Open == [of |-> "nobody", needs |-> {}, owner |-> FALSE, alone |-> "send",
         unknown |-> "-", fails |-> "no", reply |-> "rest_reply", adopts |-> FALSE,
         opens |-> FALSE]

InGuild(bits, reply) == [Open EXCEPT !.of = "guild", !.needs = bits, !.reply = reply]

(* if (_guild && !perms()...): a private channel is not checked. *)
InChannel(bits, reply) == [Open EXCEPT !.of = "channel", !.needs = bits, !.reply = reply]

(* if (!_guild) ... error::guild_error. *)
OfGuildChannel(bits, reply) == [InChannel(bits, reply) EXCEPT !.alone = "guild_error"]

Failing(row, how) == [row EXCEPT !.fails = how]
Returning(row, reply) == [row EXCEPT !.reply = reply]
Unimplemented(bits) == {Failing(InGuild(bits, "rest_reply"), "not_implemented")}

-----------------------------------------------------------------------------
(* guild.cpp *)

(* modify_guild refuses every owner_id but the bot's own. *)
GuildEditing ==
    [get_guild    |-> {Returning(Open, "guild")},
     modify_guild |-> {InGuild({Can.manage_guild}, "guild"),
                       Failing(InGuild({Can.manage_guild}, "guild"), "no_permission")},
     delete_guild |-> {[InGuild({}, "rest_reply") EXCEPT !.owner = TRUE]}]

GuildChannels ==
    [create_text_channel |-> {[InGuild({Can.manage_channels}, "channel") EXCEPT !.adopts = TRUE]},
     create_voice_channel |-> {[InGuild({Can.manage_channels}, "channel") EXCEPT !.adopts = TRUE]},
     create_category_channel |-> {[InGuild({Can.manage_channels}, "channel") EXCEPT !.adopts = TRUE]},
     modify_channel_positions |-> Unimplemented({Can.manage_channels})]

(* What each argument of modify_guild_member asks for. *)
MemberField == [nick |-> Can.manage_names, mute |-> Can.voice_mute, deaf |-> Can.voice_deafen,
                roles |-> Can.manage_roles, channel_id |-> Can.voice_move]

GuildMembers ==
    [modify_guild_member |-> {InGuild({MemberField[f] : f \in F}, "member") :
                                  F \in SUBSET DOMAIN MemberField},
     modify_my_nick |-> {InGuild({Can.change_name}, "rest_reply")},
     add_guild_member_role |-> {InGuild({Can.manage_roles}, "role")},
     remove_guild_member_role |-> {InGuild({Can.manage_roles}, "rest_reply")},
     remove_guild_member |-> {InGuild({Can.kick}, "rest_reply")}]

GuildBans ==
    [create_guild_ban |-> {InGuild({Can.ban}, "rest_reply")},
     remove_guild_ban |-> {InGuild({Can.ban}, "rest_reply")},
     get_guild_bans |-> {InGuild({Can.ban}, "bans")},
     get_guild_ban |-> {InGuild({Can.ban}, "ban")}]

GuildRoles ==
    [create_guild_role |-> {InGuild({Can.manage_roles}, "role")},
     modify_guild_role_positions |-> {InGuild({Can.manage_roles}, "rest_reply")},
     modify_guild_role |-> {InGuild({Can.manage_roles}, "role")},
     delete_guild_role |-> {InGuild({Can.manage_roles}, "rest_reply")},
     get_guild_prune_count |-> Unimplemented({Can.kick}),
     begin_guild_prune |-> Unimplemented({Can.kick})]

GuildInvites ==
    [get_guild_invite |-> {InGuild({Can.manage_guild}, "invite")},
     get_guild_invites |-> {InGuild({Can.manage_guild}, "invites")},
     delete_guild_invite |-> {InGuild({Can.manage_guild}, "rest_reply")}]

GuildIntegrations ==
    [get_guild_integrations |-> Unimplemented({Can.manage_guild}),
     create_guild_integration |-> Unimplemented({Can.manage_guild}),
     modify_guild_integration |-> Unimplemented({Can.manage_guild}),
     delete_guild_integration |-> Unimplemented({Can.manage_guild}),
     sync_guild_integration |-> Unimplemented({Can.manage_guild}),
     get_guild_embed |-> Unimplemented({Can.manage_guild}),
     modify_guild_embed |-> Unimplemented({Can.manage_guild}),
     leave |-> {Open}]

-----------------------------------------------------------------------------
(* channel.cpp *)

(* get_messages of the LAST messages takes substr(1) of an empty string, which throws on
   the caller, unless a limit between 1 and 100 is set; get_messages_t leaves _limit
   uninitialised, so a caller who sets none may meet either. *)
ChannelMessages ==
    [create_message |-> {InChannel({Can.send_messages}, "message"),
                         InChannel({Can.send_messages, Can.attach_files}, "message")},
     get_message |-> {InChannel({Can.read_history}, "message")},
     get_messages |-> {InChannel({Can.read_history}, "messages"),
                       Failing(InChannel({Can.read_history}, "messages"), "throws")},
     create_message_embed |-> {InChannel({Can.send_messages}, "message")}]

(* An edit of nothing is a bad_request; bulk_delete_message takes 2 to 100 messages. *)
ChannelEditing ==
    [edit_message |-> {Returning(Open, "message")},
     edit_message_embed |-> {Returning(Open, "message"),
                             Failing(Returning(Open, "message"), "bad_request")},
     delete_message |-> {InChannel({Can.manage_messages}, "rest_reply")},
     bulk_delete_message |-> {InChannel({Can.manage_messages}, "rest_reply"),
                              Failing(InChannel({Can.manage_messages}, "rest_reply"),
                                      "bulk_delete_out_of_range")}]

ChannelSettings ==
    [modify_channel |-> {OfGuildChannel({Can.manage_channels}, "channel")},
     delete_channel |-> {InChannel({Can.manage_channels}, "rest_reply")}]

ChannelReactions ==
    [create_reaction |-> {InChannel({Can.add_reactions}, "rest_reply")},
     delete_own_reaction |-> {InChannel({Can.add_reactions}, "rest_reply")},
     delete_user_reaction |-> {OfGuildChannel({Can.manage_messages}, "rest_reply")},
     get_reactions |-> {Open},
     delete_all_reactions |-> {OfGuildChannel({Can.manage_messages}, "rest_reply")}]

ChannelPermissions ==
    [edit_channel_permissions |-> {OfGuildChannel({Can.manage_roles}, "rest_reply")},
     get_channel_invites |-> {OfGuildChannel({Can.manage_channels}, "rest_reply")},
     create_channel_invite |-> {OfGuildChannel({Can.invite}, "rest_reply")},
     delete_channel_permission |-> {OfGuildChannel({Can.manage_roles}, "rest_reply")}]

ChannelPins ==
    [trigger_typing_indicator |-> {Open},
     get_pinned_messages |-> {Open},
     add_pinned_channel_message |-> {InChannel({Can.manage_messages}, "rest_reply")},
     delete_pinned_channel_message |-> {InChannel({Can.manage_messages}, "rest_reply")},
     group_dm_add_recipient |-> {Open},
     group_dm_remove_recipient |-> {Open}]

-----------------------------------------------------------------------------
(* message.cpp and core.cpp *)

(* message.cpp: the channel is looked up by its id, and populate_self throws on the caller
   when the cache does not have it. *)
OfMessage(rows) == {[row EXCEPT !.unknown = "throws"] : row \in rows}

MessageCalls ==
    [message_delete |-> OfMessage(ChannelEditing.delete_message),
     message_edit |-> OfMessage(ChannelEditing.edit_message),
     message_edit_embed |-> OfMessage(ChannelEditing.edit_message_embed),
     message_create_reaction |-> OfMessage(ChannelReactions.create_reaction),
     message_delete_own_reaction |-> OfMessage(ChannelReactions.delete_own_reaction),
     message_delete_user_reaction |-> OfMessage(ChannelReactions.delete_user_reaction),
     message_delete_all_reactions |-> OfMessage(ChannelReactions.delete_all_reactions)]

(* core::create_message and core::create_message_embed look the channel's guild up with
   the get_guild() that throws for a private channel, in functions that are noexcept;
   without perform_lookup they look at nothing. *)
CoreMessages ==
    [core_create_message |-> {Returning(Open, "message"),
                              [InChannel({Can.send_messages}, "message") EXCEPT
                                  !.alone = "terminate", !.unknown = "channel_not_found"]}]

(* core::create_dm_message, for a user the cache knows and for one it does not. *)
PrivateMessages ==
    [create_dm_message |-> {[Returning(Open, "message") EXCEPT !.opens = TRUE],
                            Failing(Returning(Open, "message"), "member_error")}]

(* core::create_guild waits for the reply on the thread of the caller. *)
CoreGuilds == [create_guild |-> {Returning(Open, "guild")}]

Groups == {GuildEditing, GuildChannels, GuildMembers, GuildBans, GuildRoles, GuildInvites,
           GuildIntegrations, ChannelMessages, ChannelEditing, ChannelSettings, ChannelReactions,
           ChannelPermissions, ChannelPins, MessageCalls, CoreMessages, PrivateMessages, CoreGuilds}

(* Every operation is in one group. *)
Table == [op \in UNION {DOMAIN g : g \in Groups} |->
             UNION {g[op] : g \in {h \in Groups : op \in DOMAIN h}}]

(* The ways a call can behave. *)
Rows == UNION {Table[op] : op \in DOMAIN Table}

=============================================================================
