------------------------------ MODULE MCCache ------------------------------
(* Instances of the cache for TLC.                                         *)
EXTENDS Cache

CONSTANTS g1, g2, ch1, ch2, u1, u2, r1, r2, t1, t2

MCOneGuild == [c \in {ch1, ch2} |-> g1]

MCOneChannel == [c \in {ch1} |-> g1]

\* Events whose handlers two threads can run at once without a fault.
MCCalm == AllKinds \ {"CHANNEL_DELETE", "GUILD_MEMBER_ADD", "GUILD_ROLE_CREATE",
                       "TYPING_START", "MESSAGE_UPDATE"}
=============================================================================
