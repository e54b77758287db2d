------------------------- MODULE ShardMgrRefinement -------------------------
(* The shard manager, given punctual handlers, implements ShardLifecycle.  *)
EXTENDS ShardMgr

\* A connection counts for the shard that dialled it or whose callbacks it has.
Of(s, c) == shard[s].connection = c \/ con[c].owner = s

\* The phase of a shard is read off the connections alone: the state of the
\* socket and what the gateway knows, never the bookkeeping of the manager.
\* A socket being closed keeps its phase until its close handler has run.
Phase(s) ==
    IF \E c \in Conns : Of(s, c) /\
          \/ con[c].ws \in {"init", "connecting"}
          \/ /\ con[c].ws \in {"open", "closing"}
             /\ con[c].link \in {"none", "identify", "resume"}
    THEN "attempt"
    ELSE IF \E c \in Conns : Of(s, c) /\ con[c].ws \in {"open", "closing"}
         THEN "up" ELSE "down"

Abstract == INSTANCE ShardLifecycle WITH
                phase <- [s \in Shards |-> Phase(s)],
                closed <- status = "shutdown"

\* One attempt at a time, each shard up only through its own attempt, none
\* after the shutdown: what _connecting_shard, _connect_time and
\* _shards_to_connect are for (ws_status, _on_connect, _on_close, ws_ready).
ImplementsLifecycle == Abstract!Spec
=============================================================================
