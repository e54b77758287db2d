---------------------------------- MODULE Bot ----------------------------------
(***************************************************************************)
(* The life of a bot object: the constructor, run(), yield() and the       *)
(* destructor on the thread of main, the threads of the pool that run the  *)
(* io_context and the user's code in their handlers, and one thread of the *)
(* user's that calls shutdown() (core.hpp:297-320, core.cpp:86-216,        *)
(* 478-491, 599-604, 1134-1195).  Which shards a process of a clustered    *)
(* bot runs and how it looks them up is here too (shard_mgr.cpp:53-103,    *)
(* 479-485).                                                               *)
(***************************************************************************)
EXTENDS Naturals, Sequences, FiniteSets, Functions

CONSTANTS
    Started,        \* the threads a pool is started with
    MaxThreads,     \* bound: threads with the ones that are added
    MaxPosts,       \* bound: tasks that are posted
    Setups,         \* the processes considered: [shards, clusters, cluster]
    None

ASSUME BotAssumption ==
    /\ Started \in Nat /\ MaxThreads \in Nat /\ Started <= MaxThreads
    /\ MaxPosts \in Nat
    /\ Setups \subseteq [shards : Nat, clusters : Nat, cluster : Nat]
    /\ \A s \in Setups : IF s.clusters = 0 THEN s.cluster = 0
                        ELSE s.cluster < s.clusters

VARIABLES
    main,       \* where the thread of main is
    joined,     \* the threads the destructor has joined
    status,     \* core::_status
    valid,      \* core::state_valid
    external,   \* the io_context is the user's and so are the threads that run it
    stopped,    \* the io_context has been stopped
    work,       \* core::wrk keeps it running when it is empty
    queue,      \* the tasks posted to it
    pool,       \* the threads that run it
    outsider,   \* where the user's own thread is
    lookup,     \* a lookup of a shard and what it returned
    posts,      \* the tasks posted so far
    missed,     \* main has gone, or goes, to sleep with the shutdown behind it
    grown       \* the list of threads grew while the destructor went over it
vars == <<main, joined, status, valid, external, stopped, work, queue, pool,
          outsider, lookup, posts, missed, grown>>

\* A thread is idle inside io_context::run, in a handler, in a callback of a
\* timer, in the steps of shutdown(), waiting in future::get(), or has left.
Thread(own) == [at |-> "idle", own |-> own, answered |-> FALSE]
Pool == DOMAIN pool
Move(t, where) == pool' = [pool EXCEPT ![t].at = where]
Over(t) == pool[t].at = "over"

Init ==
    /\ main = "constructor" /\ joined = 0
    /\ status = "uninitialized"
    /\ valid = TRUE
    /\ external \in BOOLEAN
    /\ stopped = FALSE
    /\ work = ~external
    /\ queue = <<>>
    /\ pool = [t \in 1 .. Started |-> Thread(~external)]
    /\ outsider = "away"
    /\ lookup = None
    /\ posts = 0
    /\ missed = FALSE /\ grown = FALSE

-----------------------------------------------------------------------------
(* The shards of a process.                                                *)

\* shard_mgr::start keeps the ids of its own cluster, in order.
Owns(setup, k) ==
    setup.clusters = 0 \/ k % setup.clusters = setup.cluster
Shards(setup) ==
    LET Loop[k \in 0 .. setup.shards] ==
            IF k = 0 THEN <<>>
            ELSE IF Owns(setup, k - 1) THEN Append(Loop[k - 1], k - 1) ELSE Loop[k - 1]
    IN  Loop[setup.shards]

\* get_shard takes the id for a position and throws behind the last (481-484).
GetShard(setup, id) ==
    IF id >= Len(Shards(setup)) THEN {} ELSE {Shards(setup)[id + 1]}

-----------------------------------------------------------------------------
(* Main: bot(...); bot.run(); bot.yield(); and the end of its scope.       *)

MainAt(here, there) == main = here /\ main' = there

\* A configuration that cannot be read, for whatever key, only clears state_valid.
LoadConfig == valid' \in BOOLEAN
\* Without an answer, or with one that refuses the token, the program terminates.
SetupGateway == main' \in {"built", "terminated"}
Construct ==
    /\ main = "constructor"
    /\ LoadConfig
    /\ SetupGateway
    /\ UNCHANGED <<joined, status, external, stopped, work, queue, pool, outsider,
                   lookup, posts, missed, grown>>

\* run() does not ask whether the bot has been shut down already.
Run ==
    /\ MainAt("built", "ran")
    /\ status' = IF valid THEN "running" ELSE status
    /\ missed' = (missed \/ (valid /\ status = "shutdown"))
    /\ UNCHANGED <<joined, valid, external, stopped, work, queue, pool, outsider,
                   lookup, posts, grown>>

\* yield() looks at the status and then waits, with no mutex the notifier takes.
Look ==
    /\ main = "ran"
    /\ main' = IF status = "shutdown" THEN "leaving" ELSE "looked"
    /\ UNCHANGED <<joined, status, valid, external, stopped, work, queue, pool,
                   outsider, lookup, posts, missed, grown>>
Sleep ==
    /\ MainAt("looked", "asleep")
    /\ UNCHANGED <<joined, status, valid, external, stopped, work, queue, pool,
                   outsider, lookup, posts, missed, grown>>
\* The wait has no predicate: it may end on its own.
WakeUp ==
    /\ MainAt("asleep", "leaving")
    /\ UNCHANGED <<joined, status, valid, external, stopped, work, queue, pool,
                   outsider, lookup, posts, missed, grown>>

\* shard_mgr::shutdown stops the io_context, whoever's it is.
Destroy ==
    /\ MainAt("leaving", "joining")
    /\ stopped' = TRUE
    /\ work' = FALSE
    /\ UNCHANGED <<joined, status, valid, external, queue, pool, outsider, lookup,
                   posts, missed, grown>>

\* mutant: threads that were told to end are not waited for.
Joinable_Active(t) == pool[t].own /\ ~stopped
\* The destructor waits for every thread of the list (213-214), in order.
Joinable(t) == pool[t].own
Join ==
    /\ main = "joining" /\ joined < Len(pool)
    /\ Joinable(joined + 1) => Over(joined + 1)
    /\ joined' = joined + 1
    /\ UNCHANGED <<main, status, valid, external, stopped, work, queue, pool,
                   outsider, lookup, posts, missed, grown>>
\* A loop over a list that grew meanwhile may end anywhere.
Free ==
    /\ MainAt("joining", "gone") /\ (joined = Len(pool) \/ grown)
    /\ UNCHANGED <<joined, status, valid, external, stopped, work, queue, pool,
                   outsider, lookup, posts, missed, grown>>

-----------------------------------------------------------------------------
(* shutdown(), in three steps of whoever calls it.                         *)

SetStatus == status' = "shutdown" /\ UNCHANGED <<main, stopped, missed>>
StopManager == stopped' = TRUE /\ UNCHANGED <<main, status, missed>>
\* mutant: the sleepers are woken when the bot is destroyed.
NotifyAll_Not == UNCHANGED <<main, status, stopped, missed>>
NotifyAll ==
    /\ main' = IF main = "asleep" THEN "leaving" ELSE main
    /\ missed' = (missed \/ main = "looked")
    /\ UNCHANGED <<status, stopped>>

Step(at) ==
    CASE at = "set" -> SetStatus
      [] at = "stop" -> StopManager
      [] at = "notify" -> NotifyAll
After(at) == CASE at = "set" -> "stop" [] at = "stop" -> "notify" [] at = "notify" -> "done"
Shutdown == {"set", "stop", "notify"}

\* The user's thread calls it while the bot is there, and once.
Interrupt ==
    /\ outsider = "away"
    /\ main \in {"built", "ran", "looked", "asleep"}
    /\ outsider' = "set"
    /\ UNCHANGED <<main, joined, status, valid, external, stopped, work, queue, pool,
                   lookup, posts, missed, grown>>
Outside ==
    /\ outsider \in Shutdown
    /\ Step(outsider)
    /\ outsider' = After(outsider)
    /\ UNCHANGED <<joined, valid, external, work, queue, pool, lookup, posts, grown>>

-----------------------------------------------------------------------------
(* The pool.                                                               *)

Handles == UNCHANGED <<main, joined, status, valid, external, stopped, work, outsider,
                       missed>>
Posted(task, t) == queue' = Append(queue, [task |-> task, by |-> t]) /\ posts' = posts + 1

\* The shards of a running bot receive events.
Receive ==
    /\ main \notin {"constructor", "built", "terminated", "joining", "gone"}
    /\ valid /\ ~stopped /\ posts < MaxPosts
    /\ Posted("event", None)
    /\ Handles /\ UNCHANGED <<pool, lookup, grown>>

\* io_context::run leaves when it is stopped or has nothing to wait for.
Leave(t) ==
    /\ pool[t].at = "idle"
    /\ stopped \/ (~work /\ ~external /\ queue = <<>>)
    /\ Move(t, "over")
    /\ Handles /\ UNCHANGED <<queue, lookup, posts, grown>>

\* An event of a bot that is shut down is dropped (core.cpp:844-845); a task of
\* reduce_threads throws and its thread ends (1158-1173, 1188-1195).
Began(posted, t) ==
    CASE posted.task = "event" ->
            Move(t, IF status = "shutdown" THEN "idle" ELSE "handler")
      [] posted.task = "timer" -> Move(t, "timer")
      [] posted.task = "throw" -> Move(t, "over")
      [] posted.task = "answer" -> pool' = [pool EXCEPT ![posted.by].answered = TRUE]
Take(t) ==
    /\ pool[t].at = "idle" /\ ~stopped /\ queue # <<>>
    /\ Began(Head(queue), t)
    /\ queue' = Tail(queue)
    /\ Handles /\ UNCHANGED <<lookup, posts, grown>>

Return(t) ==
    /\ pool[t].at \in {"handler", "timer", "found"}
    /\ Move(t, "idle")
    /\ lookup' = IF pool[t].at = "found" THEN None ELSE lookup
    /\ Handles /\ UNCHANGED <<queue, posts, grown>>

\* Nothing catches what the callback of set_timer throws but the thread's own
\* function, which then ends (core.hpp:542-545, core.cpp:1158-1173).
Throw(t) ==
    /\ pool[t].at = "timer"
    /\ Move(t, "over")
    /\ Handles /\ UNCHANGED <<queue, lookup, posts, grown>>
SetTimer(t) ==
    /\ pool[t].at = "handler" /\ posts < MaxPosts
    /\ Posted("timer", t)
    /\ Move(t, "idle")
    /\ Handles /\ UNCHANGED <<lookup, grown>>

ReduceThreads(t) ==
    /\ pool[t].at = "handler" /\ posts < MaxPosts
    /\ Posted("throw", t)
    /\ Move(t, "idle")
    /\ Handles /\ UNCHANGED <<lookup, grown>>

\* A thread that is added to a stopped io_context leaves it at once.
AddRunThread(t) ==
    /\ pool[t].at = "handler" /\ Len(pool) < MaxThreads
    /\ pool' = Append([pool EXCEPT ![t].at = "idle"], Thread(TRUE))
    /\ grown' = (grown \/ main = "joining")
    /\ Handles /\ UNCHANGED <<queue, lookup, posts>>

\* async(...).get(): the task is posted and its thread sleeps until another has
\* run it (core.hpp:857-876, futures.hpp:944-955).
Ask(t) ==
    /\ pool[t].at = "handler" /\ posts < MaxPosts
    /\ Posted("answer", t)
    /\ pool' = [pool EXCEPT ![t].at = "waits", ![t].answered = FALSE]
    /\ Handles /\ UNCHANGED <<lookup, grown>>
Answered(t) ==
    /\ pool[t].at = "waits" /\ pool[t].answered
    /\ Move(t, "idle")
    /\ Handles /\ UNCHANGED <<queue, lookup, posts, grown>>

\* get_shard_by_guild: the guild has the id of the shard it came on (1134-1140).
Find(t) ==
    /\ pool[t].at = "handler" /\ lookup = None
    /\ \E s \in Setups : \E id \in Range(Shards(s)) :
          lookup' = [setup |-> s, id |-> id, found |-> GetShard(s, id)]
    /\ Move(t, "found")
    /\ Handles /\ UNCHANGED <<queue, posts, grown>>

CallShutdown(t) ==
    /\ pool[t].at = "handler"
    /\ Move(t, "set")
    /\ Handles /\ UNCHANGED <<queue, lookup, posts, grown>>
Inside(t) ==
    /\ pool[t].at \in Shutdown
    /\ Step(pool[t].at)
    /\ Move(t, IF After(pool[t].at) = "done" THEN "idle" ELSE After(pool[t].at))
    /\ UNCHANGED <<joined, valid, external, work, queue, outsider, lookup, posts, grown>>

Main == Construct \/ Run \/ Look \/ Sleep \/ Destroy \/ Join \/ Free
Worker(t) == Leave(t) \/ Take(t) \/ Return(t) \/ Answered(t) \/ Inside(t)
\* What a handler does with a bot that is gone is undefined and not followed.
User(t) ==
    /\ main # "gone"
    /\ \/ Throw(t) \/ SetTimer(t) \/ ReduceThreads(t) \/ AddRunThread(t) \/ Ask(t)
       \/ Find(t) \/ CallShutdown(t)

Next == \/ Main \/ WakeUp \/ Interrupt \/ Outside \/ Receive
        \/ \E t \in Pool : Worker(t) \/ User(t)
Spec == Init /\ [][Next]_vars
\* Threads run, handlers return; nobody has to call anything.
FairSpec == Spec /\ WF_vars(Main) /\ WF_vars(Outside)
            /\ \A t \in 1 .. MaxThreads : WF_vars(t \in Pool /\ Worker(t))

-----------------------------------------------------------------------------
(* Properties.                                                             *)

\* A handler sleeps in get() and no thread will run what it waits for.
Stranded == \E t \in Pool : pool[t].at = "waits" /\ ~pool[t].answered /\ pool[t].own

\* A bot that has been shut down ends: yield() returns and the destructor joins
\* every thread, unless the call fell between yield's look and its wait or before
\* run() (core.hpp:311-320, core.cpp:487), or a handler waits in get() for a task of
\* the io_context that shutdown has stopped (core.cpp:599-604).
Finishes ==
    stopped ~> main = "gone" \/ Stranded \/ (main = "asleep" /\ missed)

\* When the bot is destroyed no thread of its own is left to use it; what may be are
\* the user's threads, of an io_context of his own or inside shutdown(), and one
\* that was added while the destructor joined the others (core.cpp:205-216).
OutlivedByNone ==
    main = "gone" =>
        \A t \in Pool : Over(t) \/ ~pool[t].own \/ grown

\* By the id of a shard this process runs, or by a guild on it, the lookup returns
\* that shard (core.hpp:785-797).
FindsShard == lookup # None => lookup.found = {lookup.id}
=============================================================================
