------------------------------- MODULE MCApi -------------------------------
(* An instance of the API for TLC. *)
EXTENDS Api

CONSTANTS c1, r1, guild, self, other

Speak == {Can.send_messages}
Attach == {Can.send_messages, Can.attach_files}

\* One operation of each kind: of a channel, of the guild, of the owner, of a channel
\* object, of a message, of core.
MCAsked == UNION {Table[op] : op \in {"create_message", "create_text_channel", "delete_guild",
                                      "modify_channel", "message_delete",
                                      "core_create_message", "create_dm_message"}}

MCMasks == {Speak \cup {Can.manage_channels}, {Admin}}
MCOverwrites == {[allow |-> {}, deny |-> Speak], [allow |-> Attach, deny |-> {}]}
=============================================================================
