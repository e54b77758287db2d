---------------------------- MODULE MCRatelimit ----------------------------
(* An instance of the rate limiter for TLC.                                *)
EXTENDS Ratelimit

CONSTANTS c1, c2, c3, p1, p2

\* Two calls of one channel and one reaction.
MCPathOf == [c \in {c1, c2, c3} |-> IF c = c3 THEN p2 ELSE p1]

\* The clock of the bot is two ticks ahead of the server's.
MCAhead == 2

\* With everything that may go wrong, and with what a retry must survive.
MCHazards == {{"lostReply"}, AllHazards}
=============================================================================
