--------------------------- MODULE ShardLifecycle ---------------------------
(***************************************************************************)
(* What the shard manager promises of its shards, with no lists, timers or *)
(* connection objects: one attempt at a time reaches the gateway, a shard  *)
(* comes up only through its own attempt, and nothing begins once the bot  *)
(* shuts down.                                                             *)
(***************************************************************************)
CONSTANT Shards

VARIABLES
    phase,   \* "down", "attempt" (dialling or identifying) or "up"
    closed   \* the bot is shutting down

vars == <<phase, closed>>

TypeOK == phase \in [Shards -> {"down", "attempt", "up"}] /\ closed \in BOOLEAN

Init == phase = [s \in Shards |-> "down"] /\ closed = FALSE

Begin(s) ==
    /\ ~closed
    /\ phase[s] = "down"
    /\ \A t \in Shards : phase[t] # "attempt"
    /\ phase' = [phase EXCEPT ![s] = "attempt"]
    /\ UNCHANGED closed

Succeed(s) ==
    /\ phase[s] = "attempt"
    /\ phase' = [phase EXCEPT ![s] = "up"]
    /\ UNCHANGED closed

End(s) ==
    /\ phase[s] # "down"
    /\ phase' = [phase EXCEPT ![s] = "down"]
    /\ UNCHANGED closed

Close == ~closed /\ closed' = TRUE /\ UNCHANGED phase

Next == Close \/ \E s \in Shards : Begin(s) \/ Succeed(s) \/ End(s)

Spec == Init /\ [][Next]_vars
=============================================================================
