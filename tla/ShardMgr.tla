------------------------------ MODULE ShardMgr ------------------------------
(***************************************************************************)
(* The shard manager and the life of its shards' gateway connections       *)
(* (shards/impl/shard_mgr.cpp, shards/impl/shard.cpp and the op codes and  *)
(* READY/RESUMED handlers of impl/core.cpp).                               *)
(*                                                                         *)
(* A handler of the program is one action.  What may run between two       *)
(* handlers is explicit: tasks posted to the strand of a connection wait   *)
(* in strand[c], gateway events posted to the io_context wait in pool.     *)
(*                                                                         *)
(* Time is abstracted to its outcomes: whether the 6s identify gap, the    *)
(* 20s connect timeout, the 20s heartbeat timeout or a timer has expired   *)
(* is a nondeterministic choice.  The code compares clocks but enforces no *)
(* order between those clocks and the network or the thread pool, so each  *)
(* order it silently relies on is a name in Hazards: with the name absent  *)
(* the environment is punctual in that respect.                            *)
(***************************************************************************)
EXTENDS Naturals, Sequences, Functions

CONSTANTS
    Shards,      \* the shards of this process
    StartOrder,  \* _shards, the order in which start() queues them
    Conns,       \* identities of websocketpp connection objects
    NoShard,     \* nullptr as a shard
    NoConn,      \* nullptr as a connection
    Hazards,     \* which unenforced timing assumptions may fail
    MaxFaults    \* bound on faults of the network and the gateway

\* slowStrand: a task posted to a strand may outlast the next ws_status tick.
\* slowPool:   a posted READY/RESUMED may outlast a tick or a disconnect.
\* slowReady:  20s may pass between the open of a socket and its READY.
\* lateOpen:   a socket may still be opening 20s after the dial.
\* liveInvalidSession: op 9 may hit a shard that is already online.
\* tornReady:  another thread may run between the unsynchronised assignments
\*             of READY and RESUMED to the manager.
AllHazards == {"slowStrand", "slowPool", "slowReady", "lateOpen",
               "liveInvalidSession", "tornReady"}

ASSUME ShardMgrAssumption ==
    /\ StartOrder \in Seq(Shards)
    /\ IsInjective(StartOrder)
    /\ Range(StartOrder) = Shards
    /\ NoShard \notin Shards
    /\ NoConn \notin Conns
    /\ Hazards \subseteq AllHazards
    /\ MaxFaults \in Nat

VARIABLES
    status,           \* _status of the bot: "running" or "shutdown"
    io,               \* the io_context: "running", "stopped" or "crashed"
    shardsToConnect,  \* _shards_to_connect
    connectingShard,  \* _connecting_shard
    connectTime,      \* _connect_time is set
    shard,            \* the fields of each shard that control it
    con,              \* the connection objects, with the far end of each
    strand,           \* tasks posted to the strand of each connection
    pool,             \* READY and RESUMED handlers posted to the io_context
    faults,           \* faults so far
    errors            \* runtime failures met so far

vars == <<status, io, shardsToConnect, connectingShard, connectTime, shard,
          con, strand, pool, faults, errors>>

ShardStatus == {"uninitialized", "connecting", "preready", "online",
                "queued", "reconnecting", "closing", "closed", "shutdown"}

\* keepalive and delayedAuth: the timer is armed; session: session_id is set.
ShardState == [state : ShardStatus, connection : Conns \cup {NoConn},
               zlib : BOOLEAN, session : BOOLEAN,
               heartbeat : {"normal", "waiting"},
               keepalive : BOOLEAN, delayedAuth : BOOLEAN]

\* none -> init -> connecting -> open -> closing -> lingering.  A stalled
\* connection is open but its open handler threw, so no read was started.  A
\* lingering one is terminated while its raw socket still counts as open; a
\* closed one failed before it had a socket.
WsState == {"none", "init", "connecting", "open", "stalled", "closing",
            "lingering", "closed"}

\* What the gateway last learnt on a connection; "dead" is a silent peer.
LinkState == {"none", "identify", "resume", "ready", "dead"}

ConnState == [ws : WsState, owner : Shards \cup {NoShard},
              link : LinkState, greeted : BOOLEAN]

\* What a reset leaves behind: a loss, a disconnect or the end of the bot.
ResetStatus == {"closing", "queued", "shutdown"}

Task == [task : {"connect", "dial"}, shard : Shards]
            \cup [task : {"reset"}, shard : Shards, to : ResetStatus]

\* A posted handler; it is torn when its first assignment has been made.
Event == [name : {"READY", "RESUMED"}, shard : Shards, torn : BOOLEAN]

RuntimeError == {"nullConnection", "nullConnectingShard", "contextExists",
                 "secondDial"}

TypeOK ==
    /\ status \in {"running", "shutdown"}
    /\ io \in {"running", "stopped", "crashed"}
    /\ shardsToConnect \in Seq(Shards)
    /\ connectingShard \in Shards \cup {NoShard}
    /\ connectTime \in BOOLEAN
    /\ shard \in [Shards -> ShardState]
    /\ con \in [Conns -> ConnState]
    /\ strand \in [Conns -> Seq(Task)]
    /\ pool \subseteq Event
    /\ faults \in 0..MaxFaults
    /\ errors \subseteq RuntimeError

-----------------------------------------------------------------------------
(* Operations the handlers share.                                          *)

Queued == Range(shardsToConnect)

RawOpen(ws) == ws \in {"connecting", "open", "stalled", "closing", "lingering"}

IsConnected_AnyState(s) ==  \* mutant: connection_state is not looked at
    shard[s].connection # NoConn /\ RawOpen(con[shard[s].connection].ws)

IsConnected(s) ==
    /\ shard[s].connection # NoConn
    /\ RawOpen(con[shard[s].connection].ws)
    /\ shard[s].state \in {"preready", "online"}

QueueReconnect_NoFind(list, s) ==  \* mutant: no search before push_back
    Append(list, s)

\* queue_reconnect: a shard is never on the list twice.
QueueReconnect(list, s) ==
    IF s \in Range(list) THEN list ELSE Append(list, s)

\* connection->close(): ignored by websocketpp unless the state is open.
CloseConn(cs, c) ==
    IF c # NoConn /\ cs[c].ws \in {"open", "stalled"}
    THEN [cs EXCEPT ![c].ws = "closing"] ELSE cs

\* shard_mgr::close(), its effect on the shard: a connection that has no raw
\* socket is dropped, and the timers are left as they are.
CloseShard(r, to) ==
    [r EXCEPT !.state = to,
              !.connection = IF @ # NoConn /\ ~RawOpen(con[@].ws)
                             THEN NoConn ELSE @]

\* shard_mgr::close() on shard s when the connections are cs.
Close(s, to, cs) ==
    /\ shard' = [shard EXCEPT ![s] = CloseShard(@, to)]
    /\ con' = CloseConn(cs, shard[s].connection)

Reset_KeepsZlib(r, to) ==  \* mutant: zlib_ctx.reset() is forgotten
    [r EXCEPT !.state = to, !.connection = NoConn,
              !.keepalive = FALSE, !.delayedAuth = FALSE]

\* shard::_reset(), after the assignment of connection_state.
Reset(r, to) ==
    [r EXCEPT !.state = to, !.connection = NoConn, !.zlib = FALSE,
              !.keepalive = FALSE, !.delayedAuth = FALSE]

\* shard::do_reset(): at once without a connection, else on its strand.
DoReset(s, to) ==
    LET c == shard[s].connection IN
    IF c = NoConn
    THEN /\ shard' = [shard EXCEPT ![s] = Reset(@, to)]
         /\ UNCHANGED strand
    ELSE /\ strand' = [strand EXCEPT
                ![c] = Append(@, [task |-> "reset", shard |-> s, to |-> to])]
         /\ UNCHANGED shard

Crash(e) ==
    /\ io' = "crashed"
    /\ errors' = errors \cup {e}

\* A fault of the network or the gateway, while the budget lasts.
Fault == faults < MaxFaults /\ faults' = faults + 1

PromptStrands == "slowStrand" \in Hazards \/ \A c \in Conns : strand[c] = <<>>
PromptPool ==
    \/ "slowPool" \in Hazards
    \/ \A e \in pool : e.torn  \* a torn handler is running, on a thread of its own

-----------------------------------------------------------------------------
Init ==  \* the state start() leaves: every shard on the list, the timer set
    /\ status = "running"
    /\ io = "running"
    /\ shardsToConnect = StartOrder
    /\ connectingShard = NoShard
    /\ connectTime = FALSE
    /\ shard = [s \in Shards |->
                  [state |-> "uninitialized", connection |-> NoConn,
                   zlib |-> FALSE, session |-> FALSE, heartbeat |-> "normal",
                   keepalive |-> FALSE, delayedAuth |-> FALSE]]
    /\ con = [c \in Conns |-> [ws |-> "none", owner |-> NoShard,
                               link |-> "none", greeted |-> FALSE]]
    /\ strand = [c \in Conns |-> <<>>]
    /\ pool = {}
    /\ faults = 0
    /\ errors = {}

-----------------------------------------------------------------------------
(* ws_status(), the 100ms timer of the manager.                            *)

\* A connection object nothing refers to any more: its identity may be reused
\* for the next get_connection().
Free(c) ==
    /\ con[c].ws \in {"none", "lingering", "closed"}
    /\ strand[c] = <<>>
    /\ \A s \in Shards : shard[s].connection # c

\* Shards whose heartbeat may have been unanswered for 20s: a living gateway
\* answers sooner, a dead link never does.
Ghosts == { s \in Shards : /\ IsConnected(s)
                           /\ shard[s].heartbeat = "waiting"
                           /\ con[shard[s].connection].link = "dead" }

\* The loop of ws_status() over the shards closes the ghosts gs and posts a
\* reset for each; the list of shards to connect is handled after it.
ShardAfterLoop(gs) ==
    [s \in Shards |-> IF s \in gs THEN CloseShard(shard[s], "closing")
                                  ELSE shard[s]]

ConAfterLoop(gs) ==
    [c \in Conns |->
        IF (\E s \in gs : shard[s].connection = c) /\ con[c].ws \in {"open", "stalled"}
        THEN [con[c] EXCEPT !.ws = "closing"] ELSE con[c]]

StrandAfterLoop(gs) ==
    [c \in Conns |->
        IF \E s \in gs : shard[s].connection = c
        THEN Append(strand[c], [task |-> "reset", to |-> "closing",
                     shard |-> CHOOSE s \in gs : shard[s].connection = c])
        ELSE strand[c]]

\* Whether 20s may have passed since _connect_time, given how far the attempt
\* has got.
MayTimeOut ==
    IF connectingShard = NoShard THEN "slowReady" \in Hazards
    ELSE LET c == shard[connectingShard].connection
             ws == IF c = NoConn THEN "none" ELSE con[c].ws
         IN  CASE ws \in {"lingering", "closed"} -> TRUE
               [] ws \in {"init", "connecting"} -> "lateOpen" \in Hazards
               [] OTHER -> "slowReady" \in Hazards

Requeue_Dropped ==  \* mutant: the shard that timed out is not queued again
    Tail(shardsToConnect)

Requeue_AfterClear ==  \* mutant: _connecting_shard is cleared, then queued
    QueueReconnect(Tail(shardsToConnect), NoShard)

\* The timeout takes the head off the list and queues the connecting shard.
Requeue == QueueReconnect(Tail(shardsToConnect), connectingShard)

\* A dial in progress has not opened for 20s: forget it, go to the next shard.
ConnectTimeout(gs) ==
    /\ connectTime
    /\ MayTimeOut
    /\ IF connectingShard = NoShard
       THEN /\ Crash("nullConnectingShard")
            /\ UNCHANGED <<shardsToConnect, connectingShard, connectTime,
                           shard, con>>
       ELSE /\ shard' = [ShardAfterLoop(gs) EXCEPT
                            ![connectingShard] = CloseShard(@, "closing")]
            /\ con' = CloseConn(ConAfterLoop(gs),
                                shard[connectingShard].connection)
            /\ shardsToConnect' = Requeue
            /\ connectingShard' = NoShard
            /\ connectTime' = FALSE
            /\ UNCHANGED <<io, errors>>
    /\ strand' = StrandAfterLoop(gs)

\* No dial in progress: dial for the head of the list.  connect() posts the
\* rest of the dial to the strand of the new connection.
DialNext(gs) ==
    LET s == Head(shardsToConnect) IN
    /\ ~connectTime
    /\ ~(IsConnected(s) /\ s \notin gs)
    /\ \E c \in Conns :
         /\ Free(c)
         /\ connectingShard' = s
         /\ connectTime' = TRUE
         /\ shard' = [ShardAfterLoop(gs) EXCEPT ![s].connection = c,
                                                ![s].state = "reconnecting"]
         /\ con' = [ConAfterLoop(gs) EXCEPT
                      ![c] = [ws |-> "init", owner |-> NoShard,
                              link |-> "none", greeted |-> FALSE]]
         /\ strand' = [StrandAfterLoop(gs) EXCEPT
                         ![c] = <<[task |-> "connect", shard |-> s]>>]
    /\ UNCHANGED <<io, shardsToConnect, errors>>

\* The head of the list reports it is connected: it is taken off the list.
PopConnected(gs) ==
    LET s == Head(shardsToConnect) IN
    /\ ~connectTime
    /\ IsConnected(s) /\ s \notin gs
    /\ shardsToConnect' = Tail(shardsToConnect)
    /\ shard' = ShardAfterLoop(gs)
    /\ con' = ConAfterLoop(gs)
    /\ strand' = StrandAfterLoop(gs)
    /\ UNCHANGED <<io, connectingShard, connectTime, errors>>

\* Nothing to connect, or the last IDENTIFY is less than 6s old.
LoopOnly(gs) ==
    /\ gs # {}
    /\ shard' = ShardAfterLoop(gs)
    /\ con' = ConAfterLoop(gs)
    /\ strand' = StrandAfterLoop(gs)
    /\ UNCHANGED <<io, shardsToConnect, connectingShard, connectTime, errors>>

WsStatus_InShutdown ==  \* mutant: the shutdown status is not looked at
    /\ PromptStrands
    /\ PromptPool
    /\ shardsToConnect # <<>>
    /\ DialNext({})
    /\ UNCHANGED <<status, pool, faults>>

WsStatus ==
    /\ status = "running"
    /\ PromptStrands
    /\ PromptPool
    /\ \E gs \in SUBSET Ghosts :
          \/ LoopOnly(gs)
          \/ /\ shardsToConnect # <<>>
             /\ ConnectTimeout(gs) \/ DialNext(gs) \/ PopConnected(gs)
    /\ UNCHANGED <<status, pool, faults>>

-----------------------------------------------------------------------------
(* Tasks on the strand of a connection.                                    *)

\* connect()'s task: callbacks are bound to whatever connection the shard has
\* by now, and shard::connect() posts the dial.
ConnectTask(s, rest) ==
    LET c == shard[s].connection IN
    IF c = NoConn
    THEN Crash("nullConnection") /\ strand' = rest /\ UNCHANGED <<shard, con>>
    ELSE /\ shard' = [shard EXCEPT ![s].state = "connecting"]
         /\ con' = [con EXCEPT ![c].owner = s]
         /\ strand' = [rest EXCEPT
                         ![c] = Append(@, [task |-> "dial", shard |-> s])]
         /\ UNCHANGED <<io, errors>>

DialTask(s, rest) ==
    LET c == shard[s].connection IN
    /\ strand' = rest
    /\ IF c = NoConn
       THEN Crash("nullConnection") /\ UNCHANGED <<shard, con>>
       ELSE /\ shard' = [shard EXCEPT ![s].state = "connecting"]
            /\ con' = IF con[c].ws = "init"
                      THEN [con EXCEPT ![c].ws = "connecting"] ELSE con
            /\ errors' = IF con[c].ws = "init" THEN errors
                         ELSE errors \cup {"secondDial"}
            /\ UNCHANGED io

\* do_reset()'s task closes the connection if it is open, then resets.
ResetTask(s, to, rest) ==
    /\ con' = CloseConn(con, shard[s].connection)
    /\ shard' = [shard EXCEPT ![s] = Reset(@, to)]
    /\ strand' = rest
    /\ UNCHANGED <<io, errors>>

RunStrand(c) ==
    /\ strand[c] # <<>>
    /\ LET t == Head(strand[c])
           rest == [strand EXCEPT ![c] = Tail(@)]
       IN  \/ t.task = "connect" /\ ConnectTask(t.shard, rest)
           \/ t.task = "dial" /\ DialTask(t.shard, rest)
           \/ t.task = "reset" /\ ResetTask(t.shard, t.to, rest)
    /\ UNCHANGED <<status, shardsToConnect, connectingShard, connectTime,
                   pool, faults>>

-----------------------------------------------------------------------------
(* Connection handlers.                                                    *)

\* core::on_connect(): IDENTIFY, or RESUME when a session is known, is written
\* to the connection the shard has; an unconnected shard drops it.
Greet(r, cs) ==
    LET t == r.connection IN
    IF t # NoConn /\ cs[t].ws = "open"
    THEN [cs EXCEPT ![t].link = IF r.session THEN "resume" ELSE "identify"]
    ELSE cs

\* _on_connect(): set_connected(), then the shard comes off the list.
OnConnect(c) ==
    LET s == con[c].owner
        opened == [con EXCEPT ![c].ws = "open"]
        r == IF shard[s].connection = NoConn THEN shard[s]
             ELSE [shard[s] EXCEPT !.zlib = TRUE, !.state = "preready"]
    IN
    /\ con[c].ws = "connecting"
    /\ s # NoShard
    /\ IF shard[s].connection # NoConn /\ shard[s].zlib
       THEN /\ errors' = errors \cup {"contextExists"}
            /\ con' = [con EXCEPT ![c].ws = "stalled"]
            /\ UNCHANGED <<shardsToConnect, shard>>
       ELSE /\ shard' = [shard EXCEPT ![s] = r]
            /\ IF shardsToConnect # <<>> /\ connectingShard = NoShard
               THEN con' = opened /\ UNCHANGED shardsToConnect
               ELSE /\ con' = Greet(r, opened)
                    /\ shardsToConnect' = IF shardsToConnect = <<>> THEN <<>>
                                          ELSE Tail(shardsToConnect)
            /\ UNCHANGED errors
    /\ UNCHANGED <<status, io, connectingShard, connectTime, strand, pool,
                   faults>>

\* A connection dialled by a late task of an earlier one has no callbacks yet:
\* it opens or ends without the program noticing.
Unbound(c) ==
    /\ con[c].owner = NoShard
    /\ \/ /\ con[c].ws = "connecting"
          /\ con' = [con EXCEPT ![c].ws = "open"]
       \/ /\ con[c].ws \in {"open", "closing"}
          /\ con' = [con EXCEPT ![c].ws = "lingering"]
    /\ UNCHANGED <<status, io, shardsToConnect, connectingShard, connectTime,
                   shard, strand, pool, faults, errors>>

\* The dial fails.  No fail handler is set, so nothing in the program runs.
DialFails(c) ==
    /\ con[c].ws = "connecting"
    /\ Fault
    /\ \E ws \in {"closed", "lingering"} : con' = [con EXCEPT ![c].ws = ws]
    /\ UNCHANGED <<status, io, shardsToConnect, connectingShard, connectTime,
                   shard, strand, pool, errors>>

ClockAfterClose_Any(s) == FALSE  \* mutant: any close stops the clock

\* The close of the connecting shard stops its clock, no other does.
ClockAfterClose(s) == connectTime /\ connectingShard # s

ListAfterClose_InShutdown(s, down) ==  \* mutant: queued in shutdown too
    QueueReconnect(shardsToConnect, s)

\* A shard whose connection has closed goes back on the list at once.
ListAfterClose(s, down) ==
    IF down THEN shardsToConnect ELSE QueueReconnect(shardsToConnect, s)

\* _on_close(): when the closing handshake ends, or the peer or the network
\* ends the connection.
OnClose(c) ==
    LET s == con[c].owner
        down == status = "shutdown" \/ shard[s].state = "shutdown"
    IN
    /\ \/ con[c].ws = "closing" /\ UNCHANGED faults
       \/ con[c].ws = "open" /\ Fault
    /\ s # NoShard
    /\ PromptPool
    /\ con' = [con EXCEPT ![c].ws = "lingering"]
    /\ connectTime' = ClockAfterClose(s)
    /\ DoReset(s, IF down THEN "closing" ELSE "queued")
    /\ shardsToConnect' = ListAfterClose(s, down)
    /\ UNCHANGED <<status, io, connectingShard, pool, errors>>

-----------------------------------------------------------------------------
(* _on_message() and core::on_message().  sent is the connection as the     *)
(* gateway leaves it when it sends message m on c.                          *)

OnMessage(c, m, sent) ==
    LET s == con[c].owner
        cs == [con EXCEPT ![c] = sent]
        inflated == shard[s].zlib /\ m # "corrupt"
    IN
    /\ con[c].ws = "open" /\ s # NoShard
    /\ \/ /\ ~inflated
          /\ Close(s, "reconnecting", cs)
          /\ UNCHANGED <<io, pool, errors>>
       \/ /\ inflated /\ m = "op7"
          /\ Close(s, "closing", cs)
          /\ UNCHANGED <<io, pool, errors>>
       \/ /\ inflated /\ m = "op9"
          /\ con' = cs
          /\ shard' = [shard EXCEPT
                ![s].session = FALSE,
                ![s].delayedAuth = @ \/ shard[s].connection # NoConn]
          /\ IF shard[s].connection = NoConn THEN Crash("nullConnection")
                                             ELSE UNCHANGED <<io, errors>>
          /\ UNCHANGED pool
       \/ /\ inflated /\ m \in {"op10", "op11"}
          /\ con' = cs
          /\ shard' = [shard EXCEPT
                ![s].heartbeat = "normal",
                ![s].keepalive = @ \/ (m = "op10" /\ shard[s].connection # NoConn)]
          /\ UNCHANGED <<io, pool, errors>>
       \/ /\ inflated /\ m \in {"READY", "RESUMED"}
          /\ con' = cs
          /\ pool' = pool \cup {[name |-> m, shard |-> s, torn |-> FALSE]}
          /\ UNCHANGED <<io, shard, errors>>
    /\ UNCHANGED <<status, shardsToConnect, connectingShard, connectTime,
                   strand>>

\* op 10 is the first message of every connection.
Hello(c) ==
    /\ con[c].link # "dead" /\ ~con[c].greeted
    /\ OnMessage(c, "op10", [con[c] EXCEPT !.greeted = TRUE])
    /\ UNCHANGED faults

\* READY answers an IDENTIFY, RESUMED a RESUME.
Answer(c) ==
    /\ con[c].greeted
    /\ \/ con[c].link = "identify"
          /\ OnMessage(c, "READY", [con[c] EXCEPT !.link = "ready"])
       \/ con[c].link = "resume"
          /\ OnMessage(c, "RESUMED", [con[c] EXCEPT !.link = "ready"])
    /\ UNCHANGED faults

\* op 11 answers a heartbeat.
Ack(c) ==
    /\ con[c].greeted /\ con[c].link # "dead"
    /\ con[c].owner # NoShard
    /\ shard[con[c].owner].heartbeat = "waiting"
    /\ OnMessage(c, "op11", con[c])
    /\ UNCHANGED faults

\* op 9 with d = false: the session cannot be resumed, or is no longer valid.
InvalidSession(c) ==
    /\ con[c].greeted
    /\ \/ con[c].link \in {"identify", "resume"}
       \/ con[c].link = "ready" /\ "liveInvalidSession" \in Hazards
    /\ OnMessage(c, "op9", [con[c] EXCEPT !.link = "none"])
    /\ Fault

\* op 7: the gateway asks for a reconnect.
ReconnectRequest(c) ==
    /\ con[c].greeted /\ con[c].link # "dead"
    /\ OnMessage(c, "op7", con[c])
    /\ Fault

\* A payload the zlib stream cannot inflate.
CorruptPayload(c) ==
    /\ con[c].link # "dead"
    /\ OnMessage(c, "corrupt", con[c])
    /\ Fault

\* The peer falls silent, with no close.  A link that dies before READY keeps
\* the attempt waiting past its 20s, which is the hazard slowReady.
LinkDies(c) ==
    /\ con[c].ws = "open"
    /\ \/ con[c].link = "ready"
       \/ con[c].link \in {"identify", "resume"} /\ "slowReady" \in Hazards
    /\ Fault
    /\ con' = [con EXCEPT ![c].link = "dead"]
    /\ UNCHANGED <<status, io, shardsToConnect, connectingShard, connectTime,
                   shard, strand, pool, errors>>

-----------------------------------------------------------------------------
(* Events posted to the io_context.  Any thread takes any of them.         *)

\* ws_ready() stores the session through process_ready(); ws_resumed() starts
\* the heartbeat again.
Established(r, m) ==
    [r EXCEPT !.state = "online",
              !.session = @ \/ m = "READY",
              !.keepalive = IF m = "RESUMED" THEN r.connection # NoConn ELSE @]

HandleEvent_KeepsClock(e) ==  \* mutant: _connect_time is not cleared
    /\ pool' = pool \ {e}
    /\ connectingShard' = NoShard
    /\ shard' = [shard EXCEPT ![e.shard] = Established(@, e.name)]
    /\ UNCHANGED connectTime

HandleEvent_InShutdown(e) ==  \* mutant: get_state() is not looked at
    /\ pool' = pool \ {e}
    /\ connectingShard' = NoShard
    /\ connectTime' = FALSE
    /\ shard' = [shard EXCEPT ![e.shard] = Established(@, e.name)]

HandleEvent(e) ==
    /\ pool' = pool \ {e}
    /\ IF status = "shutdown" /\ ~e.torn
       THEN UNCHANGED <<connectingShard, connectTime, shard>>
       ELSE /\ connectingShard' = IF e.torn THEN connectingShard ELSE NoShard
            /\ connectTime' = FALSE
            /\ shard' = [shard EXCEPT ![e.shard] = Established(@, e.name)]

\* The handler is preempted after its assignment to _connecting_shard.
TearEvent(e) ==
    /\ "tornReady" \in Hazards /\ status = "running" /\ ~e.torn
    /\ pool' = (pool \ {e}) \cup {[e EXCEPT !.torn = TRUE]}
    /\ connectingShard' = NoShard
    /\ UNCHANGED <<connectTime, shard>>

RunPool ==
    /\ \E e \in pool : HandleEvent(e) \/ TearEvent(e)
    /\ UNCHANGED <<status, io, shardsToConnect, con, strand, faults, errors>>

-----------------------------------------------------------------------------
(* Timers of a shard.                                                      *)

\* keepalivetimer: keep_alive() sends a heartbeat on a connected shard, then
\* start_heartbeat() arms the timer again unless the connection is gone.
KeepAlive(s) ==
    /\ shard[s].keepalive
    /\ shard' = [shard EXCEPT
          ![s].heartbeat = IF IsConnected(s) THEN "waiting" ELSE @,
          ![s].keepalive = shard[s].connection # NoConn]
    /\ UNCHANGED <<status, io, shardsToConnect, connectingShard, connectTime,
                   con, strand, pool, faults, errors>>

\* delayedauth: a fresh IDENTIFY 5 to 7 seconds after op 9.
DelayedAuth(s) ==
    LET c == shard[s].connection IN
    /\ shard[s].delayedAuth
    /\ shard' = [shard EXCEPT ![s] =
          IF c = NoConn THEN [Reset(@, "closing") EXCEPT !.session = FALSE]
                        ELSE [@ EXCEPT !.delayedAuth = FALSE]]
    /\ con' = IF IsConnected(s) /\ con[c].ws = "open" /\ con[c].link # "dead"
              THEN [con EXCEPT ![c].link = "identify"] ELSE con
    /\ UNCHANGED <<status, io, shardsToConnect, connectingShard, connectTime,
                   strand, pool, faults, errors>>

-----------------------------------------------------------------------------
(* shutdown(): the status is set first, then websocket_o.stop() stops the   *)
(* io_context, then every shard is told to reset.                           *)

ShutdownBegin ==
    /\ status = "running"
    /\ status' = "shutdown"
    /\ UNCHANGED <<io, shardsToConnect, connectingShard, connectTime, shard,
                   con, strand, pool, faults, errors>>

ShutdownStop ==
    /\ status = "shutdown"
    /\ io' = "stopped"
    /\ shard' = [s \in Shards |-> IF shard[s].connection = NoConn
                                  THEN Reset(shard[s], "shutdown")
                                  ELSE shard[s]]
    /\ strand' = [c \in Conns |->
          IF \E s \in Shards : shard[s].connection = c
          THEN Append(strand[c], [task |-> "reset", to |-> "shutdown",
                      shard |-> CHOOSE s \in Shards : shard[s].connection = c])
          ELSE strand[c]]
    /\ UNCHANGED <<status, shardsToConnect, connectingShard, connectTime, con,
                   pool, faults, errors>>

\* The io_context runs no more handlers, or the process is gone.
Terminated == io # "running" /\ UNCHANGED vars

-----------------------------------------------------------------------------
Connection(c) ==
    \/ RunStrand(c) \/ OnConnect(c) \/ Unbound(c) \/ DialFails(c)
    \/ OnClose(c)
    \/ Hello(c) \/ Answer(c) \/ Ack(c) \/ InvalidSession(c)
    \/ ReconnectRequest(c) \/ CorruptPayload(c) \/ LinkDies(c)

Next ==
    \/ /\ io = "running"
       /\ \/ WsStatus
          \/ \E c \in Conns : Connection(c)
          \/ RunPool
          \/ \E s \in Shards : KeepAlive(s) \/ DelayedAuth(s)
          \/ ShutdownBegin
          \/ ShutdownStop
    \/ Terminated

Spec == Init /\ [][Next]_vars

\* The event loop runs what is ready, armed timers expire, and what the
\* network and the gateway have begun, they end (websocketpp bounds the dial
\* and the closing handshake, a living gateway answers).
Fairness ==
    /\ WF_vars(io = "running" /\ WsStatus)
    /\ WF_vars(io = "running" /\ RunPool)
    /\ \A c \in Conns :
          /\ WF_vars(io = "running" /\ RunStrand(c))
          /\ WF_vars(io = "running" /\ OnConnect(c))
          /\ WF_vars(io = "running" /\ con[c].ws = "closing" /\ OnClose(c))
          /\ WF_vars(io = "running" /\ Hello(c))
          /\ WF_vars(io = "running" /\ Answer(c))
          /\ WF_vars(io = "running" /\ Ack(c))
    /\ \A s \in Shards :
          /\ WF_vars(io = "running" /\ KeepAlive(s))
          /\ WF_vars(io = "running" /\ DelayedAuth(s))

FairSpec == Spec /\ Fairness

-----------------------------------------------------------------------------
(* Properties that hold whatever the Hazards.                              *)

\* No shard is on the connect list twice: queue_reconnect (430-441) is the
\* only way back on, and the timeout of ws_status pops before it queues.
QueueNoDup == IsInjective(shardsToConnect)

\* While the connect clock runs there is a shard it runs for, so that
\* ws_status may dereference _connecting_shard when the clock expires (361).
\* It takes READY and RESUMED not to be torn: they clear the shard first.
ConnectingHasShard ==
    "tornReady" \notin Hazards => (connectTime => connectingShard # NoShard)

FinalStep ==
    "tornReady" \notin Hazards =>
        /\ Range(shardsToConnect') \subseteq Queued
        /\ \A s \in Shards : shard'[s].state = "online"
                              => shard[s].state = "online"
        /\ connectTime' => connectTime

\* Once the bot is shutting down no shard enters the connect list, none comes
\* online and no dial starts, though the loop still runs handlers until
\* websocket_o.stop() (core.cpp:849, shard_mgr.cpp:239 and 283).  A torn READY
\* tested the status before it was set.
ShutdownIsFinal == [][status = "shutdown" => FinalStep]_vars

(* Properties of the running bot that rely on the timing in Hazards.       *)

Running == io = "running" /\ status = "running"

\* Every shard of a running bot is on the connect list or has a connection
\* whose end will put it there: nothing else ever looks for a lost shard.
NeverLost ==
    Running => \A s \in Shards :
        \/ s \in Queued
        \/ \E c \in Conns : con[c].owner = s /\ con[c].ws \in {"open", "closing"}

\* A socket that is being dialled belongs to _connecting_shard, which is the
\* head of the list: what _on_connect (215-226) pops is what it opened.
DialIsHead ==
    \A c \in Conns : con[c].ws \in {"init", "connecting"} =>
        /\ connectingShard # NoShard
        /\ shard[connectingShard].connection = c
        /\ shardsToConnect # <<>> /\ Head(shardsToConnect) = connectingShard

\* No null pointer is dereferenced, and set_connected never meets the zlib
\* context of an earlier connection (shard.cpp:131-135).
NoRuntimeError == errors = {}

\* An open socket is the connection of the shard its callbacks are bound to,
\* with an inflate context of its own: no shard reads two streams.
OpenIsOwned ==
    Running => \A c \in Conns : con[c].ws = "open" =>
        /\ shard[con[c].owner].connection = c
        /\ shard[con[c].owner].zlib

\* A shard leaves the connect list only because its own socket has opened.
LeavesListOnOpen ==
    [][\A s \in Queued \ Range(shardsToConnect') :
          \E c \in Conns : con'[c].owner = s /\ con'[c].ws = "open"]_vars

\* Once faults are over, every shard comes online and stays there.
EventuallyOnline ==
    <>[](status = "running" => \A s \in Shards : shard[s].state = "online")
======================================================================================================================================================
