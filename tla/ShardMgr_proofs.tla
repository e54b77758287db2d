--------------------------- MODULE ShardMgr_proofs ---------------------------
(* Theorems about the shard manager for every set of shards, every number  *)
(* of connections and faults, and every choice of Hazards; and about a     *)
(* manager whose handlers are punctual: a posted task runs before the next *)
(* tick of ws_status, a READY before the next tick or disconnect, and a    *)
(* socket opens, and is answered, within 20s.  READY and RESUMED may still *)
(* be torn.  Such a manager implements ShardLifecycle.                     *)
EXTENDS ShardMgrRefinement, TLAPS

-----------------------------------------------------------------------------
(* The connect list.                                                       *)

\* queue_reconnect keeps the list a list of shards without duplicates.
LEMMA QueueReconnectLemma ==
    ASSUME NEW list \in Seq(Shards), NEW s \in Shards
    PROVE  /\ QueueReconnect(list, s) \in Seq(Shards)
           /\ IsInjective(list) => IsInjective(QueueReconnect(list, s))
  BY DEF QueueReconnect, IsInjective, Range

\* Popping the front of a list keeps it without duplicates.
LEMMA TailLemma ==
    ASSUME NEW list \in Seq(Shards), list # <<>>
    PROVE  /\ Tail(list) \in Seq(Shards)
           /\ Head(list) \in Shards
           /\ Range(Tail(list)) \subseteq Range(list)
           /\ IsInjective(list) => IsInjective(Tail(list))
  <1>1. ASSUME NEW i \in 1..Len(Tail(list))
        PROVE  i + 1 \in 1..Len(list) /\ Tail(list)[i] = list[i + 1]
    OBVIOUS
  <1> QED BY <1>1 DEF IsInjective, Range

-----------------------------------------------------------------------------
(* Types of the operations.                                                *)

LEMMA ResetType ==
    ASSUME NEW r \in ShardState, NEW to \in ShardStatus
    PROVE  Reset(r, to) \in ShardState
  BY DEF Reset, ShardState

LEMMA CloseShardType ==
    ASSUME NEW r \in ShardState, NEW to \in ShardStatus
    PROVE  CloseShard(r, to) \in ShardState
  BY DEF CloseShard, ShardState

LEMMA CloseConnType ==
    ASSUME NEW cs \in [Conns -> ConnState], NEW c \in Conns \cup {NoConn}
    PROVE  CloseConn(cs, c) \in [Conns -> ConnState]
  BY ShardMgrAssumption DEF CloseConn, ConnState, WsState

LEMMA EstablishedType ==
    ASSUME NEW r \in ShardState, NEW m \in {"READY", "RESUMED"}
    PROVE  Established(r, m) \in ShardState
  BY DEF Established, ShardState, ShardStatus

\* Assigning connection_state, or the state of a socket, keeps the types.
LEMMA SetStateType ==
    ASSUME NEW f \in [Shards -> ShardState], NEW s \in Shards,
           NEW to \in ShardStatus
    PROVE  [f EXCEPT ![s].state = to] \in [Shards -> ShardState]
  <1>1. [f[s] EXCEPT !.state = to] \in ShardState
    BY DEF ShardState
  <1> QED BY <1>1

LEMMA SetWsType ==
    ASSUME NEW cs \in [Conns -> ConnState], NEW c \in Conns, NEW to \in WsState
    PROVE  [cs EXCEPT ![c].ws = to] \in [Conns -> ConnState]
  <1>1. [cs[c] EXCEPT !.ws = to] \in ConnState
    BY DEF ConnState
  <1> QED BY <1>1

-----------------------------------------------------------------------------
(* Type correctness.                                                       *)

LEMMA DoResetType ==
    ASSUME TypeOK, NEW s \in Shards, NEW to \in ResetStatus, DoReset(s, to)
    PROVE  /\ shard' \in [Shards -> ShardState]
           /\ strand' \in [Conns -> Seq(Task)]
  <1>1. CASE shard[s].connection = NoConn
    <2>1. /\ shard' = [shard EXCEPT ![s] = Reset(shard[s], to)]
          /\ strand' = strand
      BY <1>1 DEF DoReset
    <2>2. to \in ShardStatus
      BY DEF ResetStatus, ShardStatus
    <2>3. Reset(shard[s], to) \in ShardState
      BY <2>2, ResetType DEF TypeOK
    <2> QED BY <2>1, <2>3 DEF TypeOK
  <1>2. CASE shard[s].connection # NoConn
    <2> DEFINE t == [task |-> "reset", shard |-> s, to |-> to]
    <2>1. t \in Task
      BY DEF Task
    <2>2. shard[s].connection \in Conns
      BY <1>2 DEF TypeOK, ShardState
    <2>3. /\ strand' = [strand EXCEPT ![shard[s].connection] = Append(@, t)]
          /\ shard' = shard
      BY <1>2 DEF DoReset
    <2>4. Append(strand[shard[s].connection], t) \in Seq(Task)
      BY <2>1, <2>2 DEF TypeOK
    <2> HIDE DEF t
    <2> QED BY <2>2, <2>3, <2>4 DEF TypeOK
  <1> QED BY <1>1, <1>2

LEMMA LoopType ==
    ASSUME TypeOK, NEW gs \in SUBSET Ghosts
    PROVE  /\ ShardAfterLoop(gs) \in [Shards -> ShardState]
           /\ ConAfterLoop(gs) \in [Conns -> ConnState]
           /\ StrandAfterLoop(gs) \in [Conns -> Seq(Task)]
  <1>1. gs \subseteq Shards
    BY DEF Ghosts
  <1>2. ShardAfterLoop(gs) \in [Shards -> ShardState]
    BY CloseShardType DEF ShardAfterLoop, TypeOK, ShardStatus
  <1>3. ConAfterLoop(gs) \in [Conns -> ConnState]
    BY ZenonT(40) DEF ConAfterLoop, TypeOK, ConnState, WsState
  <1>4. ASSUME NEW c \in Conns, \E s \in gs : shard[s].connection = c
        PROVE  [task |-> "reset", to |-> "closing",
                shard |-> CHOOSE s \in gs : shard[s].connection = c] \in Task
    BY <1>1, <1>4 DEF Task, ResetStatus
  <1>5. StrandAfterLoop(gs) \in [Conns -> Seq(Task)]
    BY <1>4 DEF StrandAfterLoop, TypeOK
  <1> QED BY <1>2, <1>3, <1>5

LEMMA WsStatusType == TypeOK /\ WsStatus => TypeOK'
  <1> SUFFICES ASSUME TypeOK, WsStatus PROVE TypeOK'
    OBVIOUS
  <1> PICK gs \in SUBSET Ghosts :
          \/ LoopOnly(gs)
          \/ /\ shardsToConnect # <<>>
             /\ ConnectTimeout(gs) \/ DialNext(gs) \/ PopConnected(gs)
    BY DEF WsStatus
  <1>1. UNCHANGED <<status, pool, faults>>
    BY DEF WsStatus
  <1>2. /\ ShardAfterLoop(gs) \in [Shards -> ShardState]
        /\ ConAfterLoop(gs) \in [Conns -> ConnState]
        /\ StrandAfterLoop(gs) \in [Conns -> Seq(Task)]
    BY LoopType
  <1>3. CASE LoopOnly(gs)
    BY <1>1, <1>2, <1>3 DEF LoopOnly, TypeOK
  <1>4. CASE shardsToConnect # <<>> /\ ConnectTimeout(gs)
    <2>1. CASE connectingShard = NoShard
      BY <1>1, <1>2, <1>4, <2>1 DEF ConnectTimeout, Crash, TypeOK, RuntimeError
    <2>2. CASE connectingShard # NoShard
      <3>1. connectingShard \in Shards
        BY <2>2 DEF TypeOK
      <3>2. shardsToConnect' \in Seq(Shards)
        <4>1. Tail(shardsToConnect) \in Seq(Shards)
          BY <1>4, TailLemma DEF TypeOK
        <4> QED BY <1>4, <2>2, <3>1, <4>1, QueueReconnectLemma
                DEF ConnectTimeout, Requeue
      <3>3. shard' \in [Shards -> ShardState]
        BY <1>2, <1>4, <2>2, <3>1, CloseShardType
        DEF ConnectTimeout, ShardStatus
      <3>4. con' \in [Conns -> ConnState]
        <4>1. shard[connectingShard].connection \in Conns \cup {NoConn}
          BY <3>1 DEF TypeOK, ShardState
        <4> QED BY <1>2, <1>4, <2>2, <4>1, CloseConnType DEF ConnectTimeout
      <3> QED BY <1>1, <1>2, <1>4, <2>2, <3>2, <3>3, <3>4
              DEF ConnectTimeout, TypeOK
    <2> QED BY <2>1, <2>2
  <1>5. CASE shardsToConnect # <<>> /\ DialNext(gs)
    <2> DEFINE s == Head(shardsToConnect)
    <2>1. s \in Shards
      BY <1>5, TailLemma DEF TypeOK
    <2> PICK c \in Conns :
          /\ connectingShard' = s
          /\ connectTime' = TRUE
          /\ shard' = [ShardAfterLoop(gs) EXCEPT ![s].connection = c,
                                                 ![s].state = "reconnecting"]
          /\ con' = [ConAfterLoop(gs) EXCEPT
                       ![c] = [ws |-> "init", owner |-> NoShard,
                               link |-> "none", greeted |-> FALSE]]
          /\ strand' = [StrandAfterLoop(gs) EXCEPT
                          ![c] = <<[task |-> "connect", shard |-> s]>>]
      BY <1>5 DEF DialNext
    <2>2. shard' \in [Shards -> ShardState]
      <3>1. [ShardAfterLoop(gs)[s] EXCEPT !.connection = c,
                                          !.state = "reconnecting"] \in ShardState
        BY <1>2, <2>1 DEF ShardState, ShardStatus
      <3>2. shard' = [ShardAfterLoop(gs) EXCEPT ![s] =
                        [ShardAfterLoop(gs)[s] EXCEPT !.connection = c,
                                                !.state = "reconnecting"]]
        BY <1>2, <2>1
      <3> QED BY <1>2, <2>1, <3>1, <3>2
    <2>3. con' \in [Conns -> ConnState]
      BY <1>2 DEF ConnState, WsState, LinkState
    <2>4. <<[task |-> "connect", shard |-> s]>> \in Seq(Task)
      BY <2>1 DEF Task
    <2>5. strand' \in [Conns -> Seq(Task)]
      BY <1>2, <2>4
    <2>6. UNCHANGED <<io, shardsToConnect, errors>>
      BY <1>5 DEF DialNext
    <2>7. connectingShard' \in Shards /\ connectTime' \in BOOLEAN
      BY <2>1
    <2> QED BY <1>1, <2>2, <2>3, <2>5, <2>6, <2>7 DEF TypeOK
  <1>6. CASE shardsToConnect # <<>> /\ PopConnected(gs)
    BY <1>1, <1>2, <1>6, TailLemma DEF PopConnected, TypeOK
  <1> QED BY <1>3, <1>4, <1>5, <1>6

\* The parts of the state a handler leaves alone keep their types.
LEMMA RunStrandType ==
    ASSUME TypeOK, NEW c \in Conns, RunStrand(c) PROVE TypeOK'
  <1> DEFINE t == Head(strand[c])
             rest == [strand EXCEPT ![c] = Tail(@)]
  <1>1. t \in Task /\ rest \in [Conns -> Seq(Task)]
    BY DEF RunStrand, TypeOK
  <1>2. t.shard \in Shards
    BY <1>1 DEF Task
  <1>3. shard[t.shard] \in ShardState
    BY <1>2 DEF TypeOK
  <1>4. UNCHANGED <<status, shardsToConnect, connectingShard, connectTime,
                    pool, faults>>
    BY DEF RunStrand
  <1>5. \/ t.task = "connect" /\ ConnectTask(t.shard, rest)
        \/ t.task = "dial" /\ DialTask(t.shard, rest)
        \/ t.task = "reset" /\ ResetTask(t.shard, t.to, rest)
    BY DEF RunStrand
  <1>6. ASSUME NEW s \in Shards, NEW q \in [Conns -> Seq(Task)],
               ConnectTask(s, q)
        PROVE  /\ shard' \in [Shards -> ShardState]
               /\ con' \in [Conns -> ConnState]
               /\ strand' \in [Conns -> Seq(Task)]
               /\ io' \in {"running", "stopped", "crashed"}
               /\ errors' \subseteq RuntimeError
    <2>1. CASE shard[s].connection = NoConn
      BY <1>6, <2>1 DEF ConnectTask, Crash, TypeOK, RuntimeError
    <2>2. CASE shard[s].connection # NoConn
      <3> DEFINE d == shard[s].connection
                 e == [task |-> "dial", shard |-> s]
      <3>1. d \in Conns
        BY <2>2 DEF TypeOK, ShardState
      <3>2. e \in Task
        BY DEF Task
      <3>3. /\ shard' = [shard EXCEPT ![s].state = "connecting"]
            /\ con' = [con EXCEPT ![d].owner = s]
            /\ strand' = [q EXCEPT ![d] = Append(@, e)]
            /\ UNCHANGED <<io, errors>>
        BY <1>6, <2>2 DEF ConnectTask
      <3>4. Append(q[d], e) \in Seq(Task)
        BY <3>1, <3>2
      <3>5. shard' \in [Shards -> ShardState]
        BY <3>3, SetStateType DEF TypeOK, ShardStatus
      <3>6. con' \in [Conns -> ConnState]
        BY <3>1, <3>3 DEF TypeOK, ConnState
      <3> HIDE DEF d, e
      <3>7. strand' \in [Conns -> Seq(Task)]
        BY <3>1, <3>3, <3>4
      <3> QED BY <3>3, <3>5, <3>6, <3>7 DEF TypeOK
    <2> QED BY <2>1, <2>2
  <1>7. ASSUME NEW s \in Shards, NEW q \in [Conns -> Seq(Task)],
               DialTask(s, q)
        PROVE  /\ shard' \in [Shards -> ShardState]
               /\ con' \in [Conns -> ConnState]
               /\ strand' \in [Conns -> Seq(Task)]
               /\ io' \in {"running", "stopped", "crashed"}
               /\ errors' \subseteq RuntimeError
    <2>1. CASE shard[s].connection = NoConn
      BY <1>7, <2>1 DEF DialTask, Crash, TypeOK, RuntimeError
    <2>2. CASE shard[s].connection # NoConn
      <3>1. shard[s].connection \in Conns
        BY <2>2 DEF TypeOK, ShardState
      <3>2. /\ shard' = [shard EXCEPT ![s].state = "connecting"]
            /\ \/ con' = con
               \/ con' = [con EXCEPT ![shard[s].connection].ws = "connecting"]
            /\ errors' \subseteq errors \cup {"secondDial"}
            /\ strand' = q /\ io' = io
        BY <1>7, <2>2 DEF DialTask
      <3>3. shard' \in [Shards -> ShardState]
        BY <3>2, SetStateType DEF TypeOK, ShardStatus
      <3>4. con' \in [Conns -> ConnState]
        <4>1. con \in [Conns -> ConnState] /\ "connecting" \in WsState
          BY DEF TypeOK, WsState
        <4>2. [con EXCEPT ![shard[s].connection].ws = "connecting"]
                 \in [Conns -> ConnState]
          BY <3>1, <4>1, SetWsType
        <4> QED BY <3>2, <4>1, <4>2
      <3> QED BY <3>2, <3>3, <3>4 DEF TypeOK, RuntimeError
    <2> QED BY <2>1, <2>2
  <1>8. ASSUME NEW s \in Shards, NEW to \in ShardStatus,
               NEW q \in [Conns -> Seq(Task)], ResetTask(s, to, q)
        PROVE  /\ shard' \in [Shards -> ShardState]
               /\ con' \in [Conns -> ConnState]
               /\ strand' \in [Conns -> Seq(Task)]
               /\ io' \in {"running", "stopped", "crashed"}
               /\ errors' \subseteq RuntimeError
    <2>1. shard[s] \in ShardState /\ shard[s].connection \in Conns \cup {NoConn}
      BY DEF TypeOK, ShardState
    <2> QED BY <1>8, <2>1, ResetType, CloseConnType DEF ResetTask, TypeOK
  <1>9. t.task = "reset" => t.to \in ShardStatus
    BY <1>1 DEF Task, ResetStatus, ShardStatus
  <1>10. /\ shard' \in [Shards -> ShardState]
         /\ con' \in [Conns -> ConnState]
         /\ strand' \in [Conns -> Seq(Task)]
         /\ io' \in {"running", "stopped", "crashed"}
         /\ errors' \subseteq RuntimeError
    <2> HIDE DEF t, rest
    <2> QED BY <1>1, <1>2, <1>5, <1>6, <1>7, <1>8, <1>9
  <1> QED BY <1>4, <1>10 DEF TypeOK

LEMMA GreetType ==
    ASSUME NEW r \in ShardState, NEW cs \in [Conns -> ConnState]
    PROVE  Greet(r, cs) \in [Conns -> ConnState]
  <1>1. CASE r.connection # NoConn /\ cs[r.connection].ws = "open"
    <2> DEFINE l == IF r.session THEN "resume" ELSE "identify"
    <2>1. r.connection \in Conns
      BY <1>1 DEF ShardState
    <2>2. [cs[r.connection] EXCEPT !.link = l] \in ConnState
      BY <2>1 DEF ConnState, LinkState
    <2> QED BY <1>1, <2>1, <2>2 DEF Greet
  <1>2. CASE ~(r.connection # NoConn /\ cs[r.connection].ws = "open")
    BY <1>2 DEF Greet
  <1> QED BY <1>1, <1>2

LEMMA OnConnectType ==
    ASSUME TypeOK, NEW c \in Conns, OnConnect(c) PROVE TypeOK'
  <1> DEFINE s == con[c].owner
             opened == [con EXCEPT ![c].ws = "open"]
             r == IF shard[s].connection = NoConn THEN shard[s]
                  ELSE [shard[s] EXCEPT !.zlib = TRUE, !.state = "preready"]
  <1>1. s \in Shards
    BY DEF OnConnect, TypeOK, ConnState
  <1>2. opened \in [Conns -> ConnState]
    BY SetWsType DEF TypeOK, WsState
  <1>3. r \in ShardState
    <2>1. shard[s] \in ShardState
      BY <1>1 DEF TypeOK
    <2>2. ASSUME NEW q \in ShardState
          PROVE  [q EXCEPT !.zlib = TRUE, !.state = "preready"] \in ShardState
      BY DEF ShardState, ShardStatus
    <2> QED BY <2>1, <2>2
  <1>4. Greet(r, opened) \in [Conns -> ConnState]
    BY <1>2, <1>3, GreetType
  <1>5. UNCHANGED <<status, io, connectingShard, connectTime, strand, pool,
                    faults>>
    BY DEF OnConnect
  <1>6. CASE shard[s].connection # NoConn /\ shard[s].zlib
    <2>1. /\ errors' = errors \cup {"contextExists"}
          /\ con' = [con EXCEPT ![c].ws = "stalled"]
          /\ UNCHANGED <<shardsToConnect, shard>>
      BY <1>6 DEF OnConnect
    <2>2. con' \in [Conns -> ConnState]
      BY <2>1, SetWsType DEF TypeOK, WsState
    <2> QED BY <1>5, <2>1, <2>2 DEF TypeOK, RuntimeError
  <1>7. CASE ~(shard[s].connection # NoConn /\ shard[s].zlib)
    <2>1. /\ shard' = [shard EXCEPT ![s] = r]
          /\ con' = opened \/ con' = Greet(r, opened)
          /\ \/ shardsToConnect' = shardsToConnect
             \/ shardsToConnect' = <<>>
             \/ shardsToConnect # <<>> /\ shardsToConnect' = Tail(shardsToConnect)
          /\ errors' = errors
      BY <1>7 DEF OnConnect
    <2> HIDE DEF s, opened, r
    <2>2. shard' \in [Shards -> ShardState]
      BY <1>1, <1>3, <2>1 DEF TypeOK
    <2>3. con' \in [Conns -> ConnState]
      BY <1>2, <1>4, <2>1
    <2>4. shardsToConnect' \in Seq(Shards)
      <3>1. shardsToConnect \in Seq(Shards) /\ <<>> \in Seq(Shards)
        BY DEF TypeOK
      <3> QED BY <2>1, <3>1, TailLemma
    <2> QED BY <1>5, <2>1, <2>2, <2>3, <2>4 DEF TypeOK
  <1> QED BY <1>6, <1>7

LEMMA SocketType ==
    ASSUME TypeOK, NEW c \in Conns, Unbound(c) \/ DialFails(c) \/ LinkDies(c)
    PROVE  TypeOK'
  <1>1. CASE Unbound(c)
    <2>1. PICK to \in WsState : con' = [con EXCEPT ![c].ws = to]
      BY <1>1 DEF Unbound, WsState
    <2>2. con' \in [Conns -> ConnState]
      BY <2>1, SetWsType DEF TypeOK
    <2> QED BY <1>1, <2>2 DEF Unbound, TypeOK
  <1>2. CASE DialFails(c)
    <2>1. PICK to \in WsState : con' = [con EXCEPT ![c].ws = to]
      BY <1>2 DEF DialFails, WsState
    <2>2. con' \in [Conns -> ConnState]
      BY <2>1, SetWsType DEF TypeOK
    <2> QED BY <1>2, <2>2, ShardMgrAssumption DEF DialFails, Fault, TypeOK
  <1>3. CASE LinkDies(c)
    <2>1. [con[c] EXCEPT !.link = "dead"] \in ConnState
      BY DEF TypeOK, ConnState, LinkState
    <2>2. con' \in [Conns -> ConnState]
      BY <1>3, <2>1 DEF LinkDies, TypeOK
    <2> QED BY <1>3, <2>2, ShardMgrAssumption DEF LinkDies, Fault, TypeOK
  <1> QED BY <1>1, <1>2, <1>3

LEMMA OnCloseType ==
    ASSUME TypeOK, NEW c \in Conns, OnClose(c) PROVE TypeOK'
  <1> DEFINE s == con[c].owner
             down == status = "shutdown" \/ shard[s].state = "shutdown"
  <1>1. s \in Shards
    BY DEF OnClose, TypeOK, ConnState
  <1>2. con' \in [Conns -> ConnState]
    BY SetWsType DEF OnClose, TypeOK, WsState
  <1>3. DoReset(s, "closing") \/ DoReset(s, "queued")
    BY DEF OnClose
  <1>4. /\ shard' \in [Shards -> ShardState]
        /\ strand' \in [Conns -> Seq(Task)]
    BY <1>1, <1>3, DoResetType DEF ResetStatus
  <1>5. shardsToConnect' \in Seq(Shards)
    BY <1>1, QueueReconnectLemma DEF OnClose, ListAfterClose, TypeOK
  <1>6. connectTime' \in BOOLEAN
    BY DEF OnClose, ClockAfterClose
  <1>7. faults' \in 0..MaxFaults
    BY ShardMgrAssumption DEF OnClose, Fault, TypeOK
  <1>8. UNCHANGED <<status, io, connectingShard, pool, errors>>
    BY DEF OnClose
  <1> QED BY <1>2, <1>4, <1>5, <1>6, <1>7, <1>8 DEF TypeOK

LEMMA OnMessageType ==
    ASSUME TypeOK, NEW c \in Conns, NEW m, NEW sent \in ConnState,
           OnMessage(c, m, sent), faults' \in 0..MaxFaults
    PROVE  TypeOK'
  <1> DEFINE s == con[c].owner
             cs == [con EXCEPT ![c] = sent]
  <1>1. s \in Shards
    BY DEF OnMessage, TypeOK, ConnState
  <1>2. cs \in [Conns -> ConnState]
    BY DEF TypeOK
  <1>3. shard[s] \in ShardState /\ shard[s].connection \in Conns \cup {NoConn}
    BY <1>1 DEF TypeOK, ShardState
  <1>4. UNCHANGED <<status, shardsToConnect, connectingShard, connectTime,
                    strand>>
    BY DEF OnMessage
  <1>5. \/ \E to \in {"reconnecting", "closing"} :
              Close(s, to, cs) /\ UNCHANGED <<io, pool, errors>>
        \/ /\ con' = cs
           /\ shard' = [shard EXCEPT
                 ![s].session = FALSE,
                 ![s].delayedAuth = @ \/ shard[s].connection # NoConn]
           /\ \/ Crash("nullConnection")
              \/ UNCHANGED <<io, errors>>
           /\ UNCHANGED pool
        \/ /\ con' = cs
           /\ shard' = [shard EXCEPT
                 ![s].heartbeat = "normal",
                 ![s].keepalive = @ \/ (m = "op10" /\ shard[s].connection # NoConn)]
           /\ UNCHANGED <<io, pool, errors>>
        \/ /\ m \in {"READY", "RESUMED"}
           /\ con' = cs
           /\ pool' = pool \cup {[name |-> m, shard |-> s, torn |-> FALSE]}
           /\ UNCHANGED <<io, shard, errors>>
    BY DEF OnMessage
  <1> HIDE DEF s, cs
  <1>6. CASE \E to \in {"reconnecting", "closing"} :
                Close(s, to, cs) /\ UNCHANGED <<io, pool, errors>>
    <2>1. PICK to \in ShardStatus :
             Close(s, to, cs) /\ UNCHANGED <<io, pool, errors>>
      BY <1>6 DEF ShardStatus
    <2>2. shard' \in [Shards -> ShardState]
      BY <1>1, <1>3, <2>1, CloseShardType DEF Close, TypeOK
    <2>3. con' \in [Conns -> ConnState]
      BY <1>2, <1>3, <2>1, CloseConnType DEF Close
    <2> QED BY <1>4, <2>1, <2>2, <2>3 DEF TypeOK
  <1>7. CASE /\ con' = cs
             /\ shard' = [shard EXCEPT
                   ![s].session = FALSE,
                   ![s].delayedAuth = @ \/ shard[s].connection # NoConn]
             /\ \/ Crash("nullConnection")
                \/ UNCHANGED <<io, errors>>
             /\ UNCHANGED pool
    <2>1. ASSUME NEW r \in ShardState, NEW b \in BOOLEAN
          PROVE  [r EXCEPT !.session = FALSE, !.delayedAuth = b] \in ShardState
      BY DEF ShardState
    <2>2. shard' = [shard EXCEPT ![s] =
                [shard[s] EXCEPT !.session = FALSE,
                   !.delayedAuth = shard[s].delayedAuth
                                     \/ shard[s].connection # NoConn]]
      BY <1>1, <1>7 DEF TypeOK
    <2>3. (shard[s].delayedAuth \/ shard[s].connection # NoConn) \in BOOLEAN
      OBVIOUS
    <2>4. shard' \in [Shards -> ShardState]
      BY <1>1, <1>3, <2>1, <2>2, <2>3 DEF TypeOK
    <2>5. io' \in {"running", "stopped", "crashed"} /\ errors' \subseteq RuntimeError
      BY <1>7 DEF Crash, RuntimeError, TypeOK
    <2> QED BY <1>2, <1>4, <1>7, <2>4, <2>5 DEF TypeOK
  <1>8. CASE /\ con' = cs
             /\ shard' = [shard EXCEPT
                   ![s].heartbeat = "normal",
                   ![s].keepalive = @ \/ (m = "op10" /\ shard[s].connection # NoConn)]
             /\ UNCHANGED <<io, pool, errors>>
    <2>1. ASSUME NEW r \in ShardState, NEW b \in BOOLEAN
          PROVE  [r EXCEPT !.heartbeat = "normal", !.keepalive = b] \in ShardState
      BY DEF ShardState
    <2>2. shard' = [shard EXCEPT ![s] =
                [shard[s] EXCEPT !.heartbeat = "normal",
                   !.keepalive = shard[s].keepalive
                       \/ (m = "op10" /\ shard[s].connection # NoConn)]]
      BY <1>1, <1>8 DEF TypeOK
    <2>3. (shard[s].keepalive \/ (m = "op10" /\ shard[s].connection # NoConn))
             \in BOOLEAN
      OBVIOUS
    <2>4. shard' \in [Shards -> ShardState]
      BY <1>1, <1>3, <2>1, <2>2, <2>3 DEF TypeOK
    <2> QED BY <1>2, <1>4, <1>8, <2>4 DEF TypeOK
  <1>9. CASE /\ m \in {"READY", "RESUMED"}
             /\ con' = cs
             /\ pool' = pool \cup {[name |-> m, shard |-> s, torn |-> FALSE]}
             /\ UNCHANGED <<io, shard, errors>>
    <2>1. [name |-> m, shard |-> s, torn |-> FALSE] \in Event
      BY <1>1, <1>9 DEF Event
    <2>2. pool' \subseteq Event
      BY <1>9, <2>1 DEF TypeOK
    <2> QED BY <1>2, <1>4, <1>9, <2>2 DEF TypeOK
  <1> QED BY <1>5, <1>6, <1>7, <1>8, <1>9

LEMMA GatewayType ==
    ASSUME TypeOK, NEW c \in Conns,
           \/ Hello(c) \/ Answer(c) \/ Ack(c) \/ InvalidSession(c)
           \/ ReconnectRequest(c) \/ CorruptPayload(c)
    PROVE  TypeOK'
  <1>1. con[c] \in ConnState
    BY DEF TypeOK
  <1>2. /\ [con[c] EXCEPT !.greeted = TRUE] \in ConnState
        /\ [con[c] EXCEPT !.link = "ready"] \in ConnState
        /\ [con[c] EXCEPT !.link = "none"] \in ConnState
    BY <1>1 DEF ConnState, LinkState
  <1>3. PICK m \in {"op7", "op9", "op10", "op11", "READY", "RESUMED", "corrupt"},
             sent \in ConnState : OnMessage(c, m, sent)
    BY <1>1, <1>2 DEF Hello, Answer, Ack, InvalidSession, ReconnectRequest,
                      CorruptPayload
  <1>4. faults' \in 0..MaxFaults
    BY ShardMgrAssumption DEF Hello, Answer, Ack, InvalidSession,
       ReconnectRequest, CorruptPayload, Fault, TypeOK
  <1> QED BY <1>3, <1>4, OnMessageType

LEMMA RunPoolType == ASSUME TypeOK, RunPool PROVE TypeOK'
  <1> PICK e \in pool : HandleEvent(e) \/ TearEvent(e)
    BY DEF RunPool
  <1>1. e \in Event /\ e.shard \in Shards /\ e.name \in {"READY", "RESUMED"}
    BY DEF TypeOK, Event
  <1>2. [e EXCEPT !.torn = TRUE] \in Event
    BY <1>1 DEF Event
  <1>3. pool' \subseteq Event
    BY <1>1, <1>2 DEF HandleEvent, TearEvent, TypeOK
  <1>4. shard' \in [Shards -> ShardState]
    BY <1>1, EstablishedType DEF HandleEvent, TearEvent, TypeOK
  <1>5. connectingShard' \in Shards \cup {NoShard} /\ connectTime' \in BOOLEAN
    BY DEF HandleEvent, TearEvent, TypeOK
  <1> QED BY <1>3, <1>4, <1>5 DEF RunPool, TypeOK

LEMMA TimerType ==
    ASSUME TypeOK, NEW s \in Shards, KeepAlive(s) \/ DelayedAuth(s)
    PROVE  TypeOK'
  <1>1. shard[s] \in ShardState /\ shard[s].connection \in Conns \cup {NoConn}
    BY DEF TypeOK, ShardState
  <1>2. CASE KeepAlive(s)
    <2>1. ASSUME NEW r \in ShardState, NEW h \in {"normal", "waiting"},
                 NEW b \in BOOLEAN
          PROVE  [r EXCEPT !.heartbeat = h, !.keepalive = b] \in ShardState
      BY DEF ShardState
    <2> DEFINE h == IF IsConnected(s) THEN "waiting" ELSE shard[s].heartbeat
               b == shard[s].connection # NoConn
    <2>2. h \in {"normal", "waiting"} /\ b \in BOOLEAN
      BY <1>1 DEF ShardState
    <2>3. shard' = [shard EXCEPT ![s] =
                      [shard[s] EXCEPT !.heartbeat = h, !.keepalive = b]]
      BY <1>2 DEF KeepAlive, TypeOK
    <2> HIDE DEF h, b
    <2>4. shard' \in [Shards -> ShardState]
      BY <1>1, <2>1, <2>2, <2>3 DEF TypeOK
    <2> QED BY <1>2, <2>4 DEF KeepAlive, TypeOK
  <1>3. CASE DelayedAuth(s)
    <2>1. [Reset(shard[s], "closing") EXCEPT !.session = FALSE] \in ShardState
      <3>1. Reset(shard[s], "closing") \in ShardState
        BY <1>1, ResetType DEF ShardStatus
      <3> QED BY <3>1 DEF ShardState
    <2>2. [shard[s] EXCEPT !.delayedAuth = FALSE] \in ShardState
      BY <1>1 DEF ShardState
    <2>3. shard' \in [Shards -> ShardState]
      BY <1>3, <2>1, <2>2 DEF DelayedAuth, TypeOK
    <2>4. \/ con' = con
          \/ /\ shard[s].connection \in Conns
             /\ con' = [con EXCEPT ![shard[s].connection].link = "identify"]
      BY <1>1, <1>3 DEF DelayedAuth, IsConnected
    <2>5. ASSUME NEW c \in Conns
          PROVE  [con[c] EXCEPT !.link = "identify"] \in ConnState
      BY DEF TypeOK, ConnState, LinkState
    <2>6. con' \in [Conns -> ConnState]
      BY <2>4, <2>5 DEF TypeOK
    <2> QED BY <1>3, <2>3, <2>6 DEF DelayedAuth, TypeOK
  <1> QED BY <1>2, <1>3

LEMMA ShutdownType ==
    ASSUME TypeOK, ShutdownBegin \/ ShutdownStop PROVE TypeOK'
  <1>1. CASE ShutdownBegin
    BY <1>1 DEF ShutdownBegin, TypeOK
  <1>2. CASE ShutdownStop
    <2>1. shard' \in [Shards -> ShardState]
      BY <1>2, ResetType DEF ShutdownStop, TypeOK, ShardStatus
    <2>2. ASSUME NEW c \in Conns, \E s \in Shards : shard[s].connection = c
          PROVE  [task |-> "reset", to |-> "shutdown",
                  shard |-> CHOOSE s \in Shards : shard[s].connection = c]
                    \in Task
      BY <2>2 DEF Task, ResetStatus
    <2>3. strand' \in [Conns -> Seq(Task)]
      BY <1>2, <2>2 DEF ShutdownStop, TypeOK
    <2> QED BY <1>2, <2>1, <2>3 DEF ShutdownStop, TypeOK
  <1> QED BY <1>1, <1>2

LEMMA InitType == Init => TypeOK
  <1> SUFFICES ASSUME Init PROVE TypeOK
    OBVIOUS
  <1>1. shard \in [Shards -> ShardState]
    BY DEF Init, ShardState, ShardStatus
  <1>2. con \in [Conns -> ConnState]
    BY DEF Init, ConnState, WsState, LinkState
  <1>3. strand \in [Conns -> Seq(Task)]
    BY DEF Init
  <1>4. shardsToConnect \in Seq(Shards) /\ faults \in 0..MaxFaults
    BY ShardMgrAssumption DEF Init
  <1> QED BY <1>1, <1>2, <1>3, <1>4 DEF Init, TypeOK

LEMMA NextType == TypeOK /\ [Next]_vars => TypeOK'
  <1> SUFFICES ASSUME TypeOK, [Next]_vars PROVE TypeOK'
    OBVIOUS
  <1>1. CASE WsStatus
    BY <1>1, WsStatusType
  <1>2. ASSUME NEW c \in Conns, Connection(c) PROVE TypeOK'
    BY <1>2, RunStrandType, OnConnectType, SocketType, OnCloseType, GatewayType
    DEF Connection
  <1>3. CASE RunPool
    BY <1>3, RunPoolType
  <1>4. ASSUME NEW s \in Shards, KeepAlive(s) \/ DelayedAuth(s) PROVE TypeOK'
    BY <1>4, TimerType
  <1>5. CASE ShutdownBegin \/ ShutdownStop
    BY <1>5, ShutdownType
  <1>6. CASE UNCHANGED vars
    BY <1>6 DEF vars, TypeOK
  <1> QED BY <1>1, <1>2, <1>3, <1>4, <1>5, <1>6 DEF Next, Terminated

\* Every field of the manager, its shards and its connections keeps its type,
\* however many shards and faults there are and whatever timing fails.
THEOREM TypeCorrect == Spec => []TypeOK
  <1>1. Init => TypeOK
    BY InitType
  <1>2. TypeOK /\ [Next]_vars => TypeOK'
    BY NextType
  <1> QED BY <1>1, <1>2, PTL DEF Spec

-----------------------------------------------------------------------------
(* The connect list and the connect clock.                                 *)

\* The handlers of a connection that leave the list and the clock alone.
LEMMA QuietStep ==
    ASSUME NEW c \in Conns,
           \/ RunStrand(c) \/ Unbound(c) \/ DialFails(c) \/ Hello(c)
           \/ Answer(c) \/ Ack(c) \/ InvalidSession(c)
           \/ ReconnectRequest(c) \/ CorruptPayload(c) \/ LinkDies(c)
    PROVE  UNCHANGED <<shardsToConnect, connectingShard, connectTime>>
  BY DEF RunStrand, Unbound, DialFails, Hello, Answer, Ack, InvalidSession,
         ReconnectRequest, CorruptPayload, LinkDies, OnMessage

\* What a handler may do to the list: leave it, pop it, empty it, queue a
\* shard, or pop it and queue a shard.
LEMMA ListStep ==
    ASSUME TypeOK, Next
    PROVE  \/ shardsToConnect' = shardsToConnect
           \/ shardsToConnect # <<>> /\ shardsToConnect' = Tail(shardsToConnect)
           \/ \E s \in Shards :
                 \/ shardsToConnect' = QueueReconnect(shardsToConnect, s)
                 \/ /\ shardsToConnect # <<>>
                    /\ shardsToConnect' =
                          QueueReconnect(Tail(shardsToConnect), s)
  <1>1. CASE WsStatus
    <2> PICK gs \in SUBSET Ghosts :
            \/ LoopOnly(gs)
            \/ /\ shardsToConnect # <<>>
               /\ ConnectTimeout(gs) \/ DialNext(gs) \/ PopConnected(gs)
      BY <1>1 DEF WsStatus
    <2>1. CASE ConnectTimeout(gs) /\ shardsToConnect # <<>>
      BY <2>1 DEF ConnectTimeout, Requeue, TypeOK
    <2>2. CASE LoopOnly(gs) \/ DialNext(gs)
                 \/ (PopConnected(gs) /\ shardsToConnect # <<>>)
      BY <2>2 DEF LoopOnly, DialNext, PopConnected
    <2> QED BY <2>1, <2>2
  <1>2. ASSUME NEW c \in Conns, OnConnect(c)
        PROVE  \/ shardsToConnect' = shardsToConnect
               \/ /\ shardsToConnect # <<>>
                  /\ shardsToConnect' = Tail(shardsToConnect)
    BY <1>2 DEF OnConnect
  <1>3. ASSUME NEW c \in Conns, OnClose(c)
        PROVE  \E s \in Shards :
                  \/ shardsToConnect' = shardsToConnect
                  \/ shardsToConnect' = QueueReconnect(shardsToConnect, s)
    <2>1. con[c].owner \in Shards
      BY <1>3 DEF OnClose, TypeOK, ConnState
    <2> QED BY <1>3, <2>1 DEF OnClose, ListAfterClose
  <1>5. CASE \/ RunPool \/ ShutdownBegin \/ ShutdownStop \/ Terminated
             \/ \E s \in Shards : KeepAlive(s) \/ DelayedAuth(s)
    BY <1>5 DEF RunPool, ShutdownBegin, ShutdownStop, Terminated, vars,
                KeepAlive, DelayedAuth
  <1> QED BY <1>1, <1>2, <1>3, <1>5, QuietStep DEF Next, Connection

LEMMA QueueNoDupStep ==
    TypeOK /\ QueueNoDup /\ [Next]_vars => QueueNoDup'
  <1> SUFFICES ASSUME TypeOK, QueueNoDup, [Next]_vars PROVE QueueNoDup'
    OBVIOUS
  <1>1. shardsToConnect \in Seq(Shards) /\ IsInjective(shardsToConnect)
    BY DEF TypeOK, QueueNoDup
  <1>2. CASE Next
    BY <1>1, <1>2, ListStep, TailLemma, QueueReconnectLemma DEF QueueNoDup
  <1>3. CASE UNCHANGED vars
    BY <1>3 DEF vars, QueueNoDup
  <1> QED BY <1>2, <1>3

\* No shard is ever on the connect list twice: no interleaving of disconnects,
\* timeouts and dials makes ws_status dial a shard for two list entries.
THEOREM ListHasNoDuplicates == Spec => []QueueNoDup
  <1>1. Init => QueueNoDup
    BY ShardMgrAssumption DEF Init, QueueNoDup
  <1>2. TypeOK /\ TypeOK' /\ QueueNoDup /\ [Next]_vars => QueueNoDup'
    BY QueueNoDupStep
  <1> QED BY <1>1, <1>2, TypeCorrect, PTL DEF Spec

-----------------------------------------------------------------------------
(* The connect clock has a shard.                                          *)

\* ConnectingHasShard is not inductive: a torn READY in the pool would clear
\* the shard and leave the clock for later, so there must be none.
WholeEvents == "tornReady" \notin Hazards => \A e \in pool : ~e.torn

LEMMA WholeEventsStep == WholeEvents /\ [Next]_vars => WholeEvents'
  <1> SUFFICES ASSUME WholeEvents, [Next]_vars, "tornReady" \notin Hazards,
                      NEW e \in pool'
               PROVE  ~e.torn
    BY DEF WholeEvents
  <1> USE DEF WholeEvents
  <1>1. CASE WsStatus
    BY <1>1 DEF WsStatus
  <1>2. ASSUME NEW c \in Conns, NEW m, NEW sent, OnMessage(c, m, sent)
        PROVE  ~e.torn
    BY <1>2 DEF OnMessage
  <1>3. ASSUME NEW c \in Conns, Connection(c) PROVE ~e.torn
    <2>1. CASE RunStrand(c) \/ OnConnect(c) \/ Unbound(c) \/ DialFails(c)
                 \/ OnClose(c) \/ LinkDies(c)
      BY <2>1 DEF RunStrand, OnConnect, Unbound, DialFails, OnClose, LinkDies
    <2>2. CASE Hello(c) \/ Answer(c) \/ Ack(c) \/ InvalidSession(c)
                 \/ ReconnectRequest(c) \/ CorruptPayload(c)
      BY <2>2, <1>2 DEF Hello, Answer, Ack, InvalidSession, ReconnectRequest,
                        CorruptPayload
    <2> QED BY <1>3, <2>1, <2>2 DEF Connection
  <1>4. CASE RunPool
    BY <1>4 DEF RunPool, HandleEvent, TearEvent
  <1>5. CASE \/ ShutdownBegin \/ ShutdownStop \/ UNCHANGED vars
             \/ \E s \in Shards : KeepAlive(s) \/ DelayedAuth(s)
    BY <1>5 DEF ShutdownBegin, ShutdownStop, vars, KeepAlive, DelayedAuth
  <1> QED BY <1>1, <1>3, <1>4, <1>5 DEF Next, Terminated

LEMMA ConnectingHasShardStep ==
    TypeOK /\ WholeEvents /\ ConnectingHasShard /\ [Next]_vars
        => ConnectingHasShard'
  <1> SUFFICES ASSUME TypeOK, WholeEvents, ConnectingHasShard, [Next]_vars,
                      "tornReady" \notin Hazards, connectTime'
               PROVE  connectingShard' # NoShard
    BY DEF ConnectingHasShard
  <1>0. connectTime => connectingShard # NoShard
    BY DEF ConnectingHasShard
  <1>1. CASE WsStatus
    <2> PICK gs \in SUBSET Ghosts :
            \/ LoopOnly(gs)
            \/ /\ shardsToConnect # <<>>
               /\ ConnectTimeout(gs) \/ DialNext(gs) \/ PopConnected(gs)
      BY <1>1 DEF WsStatus
    <2>1. CASE DialNext(gs) /\ shardsToConnect # <<>>
      <3>1. Head(shardsToConnect) \in Shards
        BY <2>1 DEF TypeOK
      <3> QED BY <2>1, <3>1, ShardMgrAssumption DEF DialNext
    <2>2. CASE ConnectTimeout(gs)
      BY <2>2, <1>0 DEF ConnectTimeout
    <2>3. CASE LoopOnly(gs) \/ PopConnected(gs)
      BY <2>3, <1>0 DEF LoopOnly, PopConnected
    <2> QED BY <2>1, <2>2, <2>3
  <1>2. ASSUME NEW c \in Conns, OnClose(c) PROVE connectingShard' # NoShard
    BY <1>2, <1>0 DEF OnClose, ClockAfterClose
  <1>3. ASSUME NEW c \in Conns, OnConnect(c) PROVE connectingShard' # NoShard
    BY <1>3, <1>0 DEF OnConnect
  <1>4. CASE RunPool
    <2>1. PICK e \in pool : HandleEvent(e)
      BY <1>4 DEF RunPool, TearEvent
    <2> QED BY <2>1, <1>0 DEF HandleEvent
  <1>5. CASE \/ ShutdownBegin \/ ShutdownStop \/ UNCHANGED vars
             \/ \E s \in Shards : KeepAlive(s) \/ DelayedAuth(s)
    BY <1>5, <1>0 DEF ShutdownBegin, ShutdownStop, vars, KeepAlive, DelayedAuth
  <1> QED BY <1>0, <1>1, <1>2, <1>3, <1>4, <1>5, QuietStep
          DEF Next, Connection, Terminated

\* As long as READY and RESUMED run whole, the clock of a dial never outlives
\* its shard: ws_status may dereference _connecting_shard when it expires.
THEOREM ClockHasShard == Spec => []ConnectingHasShard
  <1>1. Init => WholeEvents /\ ConnectingHasShard
    BY DEF Init, WholeEvents, ConnectingHasShard
  <1>2. WholeEvents /\ [Next]_vars => WholeEvents'
    BY WholeEventsStep
  <1>3. TypeOK /\ WholeEvents /\ ConnectingHasShard /\ [Next]_vars
           => ConnectingHasShard'
    BY ConnectingHasShardStep
  <1> QED BY <1>1, <1>2, <1>3, TypeCorrect, PTL DEF Spec

-----------------------------------------------------------------------------
(* Shutdown is final.                                                      *)

\* Only a READY or RESUMED that runs makes a shard online; every other handler
\* leaves connection_state alone or gives it another value.
LEMMA OnlineStep ==
    ASSUME TypeOK, WholeEvents, "tornReady" \notin Hazards,
           status = "shutdown", Next, NEW x \in Shards,
           shard'[x].state = "online"
    PROVE  shard[x].state = "online"
  <1>0. /\ shard \in [Shards -> ShardState]
        /\ shard[x] \in ShardState
    BY DEF TypeOK
  <1>1. ASSUME NEW r \in ShardState, NEW to \in ShardStatus \ {"online"}
        PROVE  Reset(r, to).state # "online" /\ CloseShard(r, to).state # "online"
    BY <1>1 DEF Reset, CloseShard, ShardState
  <1>2. ASSUME NEW s \in Shards, NEW to \in ResetStatus, DoReset(s, to)
        PROVE  shard[x].state = "online"
    <2>1. to \in ShardStatus \ {"online"}
      BY DEF ResetStatus, ShardStatus
    <2> QED BY <1>0, <1>1, <1>2, <2>1 DEF DoReset
  <1>3. ASSUME NEW c \in Conns, RunStrand(c) PROVE shard[x].state = "online"
    <2> DEFINE t == Head(strand[c])
               rest == [strand EXCEPT ![c] = Tail(@)]
    <2>1. t \in Task
      BY <1>3 DEF RunStrand, TypeOK
    <2>2. \/ ConnectTask(t.shard, rest) \/ DialTask(t.shard, rest)
          \/ t.task = "reset" /\ ResetTask(t.shard, t.to, rest)
      BY <1>3 DEF RunStrand
    <2>3. t.shard \in Shards
          /\ (t.task = "reset" => t.to \in ShardStatus \ {"online"})
      BY <2>1 DEF Task, ResetStatus, ShardStatus
    <2> HIDE DEF t, rest
    <2>4. CASE ConnectTask(t.shard, rest) \/ DialTask(t.shard, rest)
      <3>1. shard' = shard \/ shard' = [shard EXCEPT ![t.shard].state = "connecting"]
        BY <2>4 DEF ConnectTask, DialTask
      <3> QED BY SMTT(30), <1>0, <2>3, <3>1 DEF ShardState
    <2>5. CASE t.task = "reset" /\ ResetTask(t.shard, t.to, rest)
      BY <1>0, <1>1, <2>3, <2>5 DEF ResetTask
    <2> QED BY <2>2, <2>4, <2>5
  <1>4. ASSUME NEW c \in Conns, OnConnect(c) PROVE shard[x].state = "online"
    <2> DEFINE s == con[c].owner
               r == IF shard[s].connection = NoConn THEN shard[s]
                    ELSE [shard[s] EXCEPT !.zlib = TRUE, !.state = "preready"]
    <2>1. shard' = shard \/ shard' = [shard EXCEPT ![s] = r]
      BY <1>4 DEF OnConnect
    <2>2. s \in Shards
      BY <1>4 DEF OnConnect, TypeOK, ConnState
    <2>3. r = shard[s] \/ r.state = "preready"
      BY <1>0, <2>2 DEF ShardState
    <2> HIDE DEF r, s
    <2> QED BY <1>0, <2>1, <2>2, <2>3
  <1>5. ASSUME NEW c \in Conns, OnClose(c) PROVE shard[x].state = "online"
    <2>1. con[c].owner \in Shards
      BY <1>5 DEF OnClose, TypeOK, ConnState
    <2>2. \/ DoReset(con[c].owner, "closing")
          \/ DoReset(con[c].owner, "queued")
      BY <1>5 DEF OnClose
    <2> QED BY <1>2, <2>1, <2>2 DEF ResetStatus
  <1>6. ASSUME NEW c \in Conns, NEW m, NEW sent, OnMessage(c, m, sent)
        PROVE  shard[x].state = "online"
    <2> DEFINE s == con[c].owner
    <2>1. s \in Shards
      BY <1>6 DEF OnMessage, TypeOK, ConnState
    <2>2. \/ \E to \in {"reconnecting", "closing"} :
                shard' = [shard EXCEPT ![s] = CloseShard(@, to)]
          \/ shard' = shard
          \/ \E b \in {TRUE, FALSE}, k \in {TRUE, FALSE} :
                shard' = [shard EXCEPT ![s].session = b, ![s].delayedAuth = k]
          \/ \E k \in {TRUE, FALSE} :
                shard' = [shard EXCEPT ![s].heartbeat = "normal",
                                       ![s].keepalive = k]
      <3> USE DEF OnMessage, Close
      <3>1. CASE ~(shard[s].zlib /\ m # "corrupt") \/ m = "op7"
        BY ZenonT(60), <1>6, <3>1
      <3>2. CASE m = "op9" /\ shard[s].zlib
        BY ZenonT(60), <1>0, <1>6, <2>1, <3>2 DEF ShardState
      <3>3. CASE m \in {"op10", "op11"} /\ shard[s].zlib
        BY ZenonT(60), <1>0, <1>6, <2>1, <3>3 DEF ShardState
      <3>4. CASE m \in {"READY", "RESUMED"} /\ shard[s].zlib
        BY ZenonT(60), <1>6, <3>4
      <3> QED BY ZenonT(60), <1>6, <3>1, <3>2, <3>3, <3>4
    <2>3. "reconnecting" \in ShardStatus \ {"online"}
          /\ "closing" \in ShardStatus \ {"online"}
      BY DEF ShardStatus
    <2> HIDE DEF s
    <2>4. CASE \E to \in {"reconnecting", "closing"} :
                  shard' = [shard EXCEPT ![s] = CloseShard(@, to)]
      BY <1>0, <1>1, <2>1, <2>3, <2>4
    <2>5. CASE \E b \in {TRUE, FALSE}, k \in {TRUE, FALSE} :
                  shard' = [shard EXCEPT ![s].session = b, ![s].delayedAuth = k]
      BY <1>0, <2>1, <2>5 DEF ShardState
    <2>6. CASE \E k \in {TRUE, FALSE} :
                  shard' = [shard EXCEPT ![s].heartbeat = "normal",
                                         ![s].keepalive = k]
      BY <1>0, <2>1, <2>6 DEF ShardState
    <2> QED BY <2>2, <2>4, <2>5, <2>6
  <1>7. ASSUME NEW c \in Conns, Connection(c) PROVE shard[x].state = "online"
    <2>1. CASE Unbound(c) \/ DialFails(c) \/ LinkDies(c)
      BY <2>1 DEF Unbound, DialFails, LinkDies
    <2>2. CASE Hello(c) \/ Answer(c) \/ Ack(c) \/ InvalidSession(c)
                 \/ ReconnectRequest(c) \/ CorruptPayload(c)
      BY <2>2, <1>6 DEF Hello, Answer, Ack, InvalidSession, ReconnectRequest,
                        CorruptPayload
    <2> QED BY <1>3, <1>4, <1>5, <1>7, <2>1, <2>2 DEF Connection
  <1>8. CASE RunPool
    BY <1>8 DEF RunPool, HandleEvent, TearEvent, WholeEvents
  <1>9. ASSUME NEW s \in Shards, KeepAlive(s) PROVE shard[x].state = "online"
    <2>1. PICK h, k : shard' = [shard EXCEPT ![s].heartbeat = h,
                                             ![s].keepalive = k]
      BY <1>9 DEF KeepAlive
    <2> QED BY <1>0, <2>1 DEF ShardState
  <1>10. ASSUME NEW s \in Shards, DelayedAuth(s)
         PROVE  shard[x].state = "online"
    <2>1. CASE shard[s].connection = NoConn
      <3>1. shard' = [shard EXCEPT ![s] = [Reset(shard[s], "closing")
                                              EXCEPT !.session = FALSE]]
        BY <1>10, <2>1 DEF DelayedAuth
      <3>2. [Reset(shard[s], "closing") EXCEPT !.session = FALSE].state = "closing"
        BY <1>0 DEF Reset, ShardState
      <3> QED BY <1>0, <3>1, <3>2
    <2>2. CASE shard[s].connection # NoConn
      <3>1. shard' = [shard EXCEPT ![s].delayedAuth = FALSE]
        BY <1>10, <2>2 DEF DelayedAuth
      <3> QED BY <1>0, <3>1 DEF ShardState
    <2> QED BY <2>1, <2>2
  <1>11. CASE ShutdownStop
    <2>1. "shutdown" \in ShardStatus \ {"online"}
      BY DEF ShardStatus
    <2> QED BY <1>0, <1>1, <1>11, <2>1 DEF ShutdownStop
  <1>12. CASE Terminated
    BY <1>12 DEF Terminated, vars
  <1> QED BY <1>7, <1>8, <1>9, <1>10, <1>11, <1>12
          DEF Next, WsStatus, ShutdownBegin

LEMMA FinalStepLemma ==
    ASSUME TypeOK, WholeEvents, status = "shutdown", Next PROVE FinalStep
  <1> SUFFICES ASSUME "tornReady" \notin Hazards
               PROVE  /\ Range(shardsToConnect') \subseteq Queued
                      /\ connectTime' => connectTime
    BY OnlineStep DEF FinalStep
  <1>1. ASSUME NEW c \in Conns, OnConnect(c)
        PROVE  /\ \/ shardsToConnect' = shardsToConnect
                  \/ /\ shardsToConnect # <<>>
                     /\ shardsToConnect' = Tail(shardsToConnect)
               /\ connectTime' = connectTime
    BY <1>1 DEF OnConnect
  <1>2. ASSUME NEW c \in Conns, OnClose(c)
        PROVE  /\ shardsToConnect' = shardsToConnect
               /\ connectTime' => connectTime
    BY <1>2 DEF OnClose, ListAfterClose, ClockAfterClose
  <1>3. CASE \/ ShutdownBegin \/ ShutdownStop \/ Terminated
             \/ \E s \in Shards : KeepAlive(s) \/ DelayedAuth(s)
    <2>1. UNCHANGED <<shardsToConnect, connectTime>>
      BY <1>3 DEF ShutdownBegin, ShutdownStop, Terminated, vars, KeepAlive,
                  DelayedAuth
    <2> QED BY <2>1 DEF Queued
  <1>4. CASE RunPool
    BY <1>4 DEF RunPool, HandleEvent, TearEvent, Queued
  <1>5. ASSUME NEW c \in Conns, Connection(c)
        PROVE  /\ Range(shardsToConnect') \subseteq Queued
               /\ connectTime' => connectTime
    <2>1. CASE OnConnect(c) \/ OnClose(c)
      BY <1>1, <1>2, <2>1, TailLemma DEF Queued, TypeOK
    <2>2. CASE ~(OnConnect(c) \/ OnClose(c))
      BY <1>5, <2>2, QuietStep DEF Connection, Queued
    <2> QED BY <2>1, <2>2
  <1> QED BY <1>3, <1>4, <1>5 DEF Next, WsStatus

\* After shutdown() has begun nothing is queued, dialled or brought online,
\* whatever handlers the loop still runs.
THEOREM ShutdownFinality == Spec => ShutdownIsFinal
  <1>1. Init => WholeEvents
    BY DEF Init, WholeEvents
  <1>2. WholeEvents /\ [Next]_vars => WholeEvents'
    BY WholeEventsStep
  <1>3. TypeOK /\ WholeEvents /\ [Next]_vars
           => [status = "shutdown" => FinalStep]_vars
    BY FinalStepLemma
  <1> QED BY <1>1, <1>2, <1>3, TypeCorrect, PTL DEF Spec, ShutdownIsFinal

-----------------------------------------------------------------------------
(* Punctual handlers.                                                      *)

Punctual == Hazards \subseteq {"tornReady"}

-----------------------------------------------------------------------------
(* The inductive invariant: what holds between two handlers while the      *)
(* io_context runs.  None of its parts is inductive without the others.    *)

Dialling(c) == con[c].ws \in {"init", "connecting"}

Live(c) == con[c].ws \in {"open", "closing"}

\* The gateway has not answered yet.
Unanswered(c) == con[c].link \in {"none", "identify", "resume"}

Attempt(c) == Dialling(c) \/ (Live(c) /\ Unanswered(c))

Ended(c) == con[c].ws \in {"closing", "lingering"}

\* A reset of s waits on the strand of its connection.
ResetPending(s) ==
    LET c == shard[s].connection IN c # NoConn /\ Ended(c) /\ strand[c] # <<>>

DialTasks == { <<[task |-> "connect", shard |-> connectingShard]>>,
               <<[task |-> "dial", shard |-> connectingShard]>> }

ResetsOnly(c) == \A i \in 1..Len(strand[c]) :
    /\ strand[c][i].task = "reset"
    /\ strand[c][i].shard = con[c].owner
    /\ strand[c][i].to # "shutdown"

\* The tasks of a strand belong to the dial in progress, or are resets of the
\* shard whose connection has ended.
StrandInv == \A c \in Conns :
    /\ con[c].ws # "stalled"
    /\ con[c].ws = "init" => strand[c] \in DialTasks
    /\ con[c].ws \notin {"init", "closing", "lingering"} => strand[c] = <<>>
    /\ Ended(c) =>
         /\ con[c].owner # NoShard
         /\ ResetsOnly(c)
         /\ strand[c] # <<>> => shard[con[c].owner].connection \in {c, NoConn}

\* The connection of a shard is its own, and a shard without one is reset.
ConnectionInv == \A s \in Shards :
    /\ shard[s].state # "shutdown"
    /\ shard[s].connection = NoConn => ~shard[s].zlib /\ ~shard[s].delayedAuth
    /\ \A c \in Conns : shard[s].connection = c =>
          con[c].owner = s \/ (con[c].ws = "init" /\ connectingShard = s)

\* An attempt is that of the connecting shard, its clock runs, no READY waits.
AttemptInv == \A c \in Conns : Attempt(c) =>
    /\ connectTime
    /\ pool = {}
    /\ connectingShard # NoShard
    /\ Dialling(c) => /\ shard[connectingShard].connection = c
                      /\ shardsToConnect # <<>>
                      /\ Head(shardsToConnect) = connectingShard
    /\ con[c].owner \in {NoShard, connectingShard}
    /\ con[c].ws # "init" \/ Head(strand[c]).task = "dial"
          => con[c].owner = connectingShard

\* A live socket is the only one of its shard, which is off the list.
LiveInv == \A c \in Conns : Live(c) =>
    LET s == con[c].owner IN
    /\ s # NoShard /\ s \notin Queued
    /\ shard[s].connection \in {c, NoConn}
    /\ con[c].ws = "open" => /\ shard[s].connection = c /\ shard[s].zlib
                             /\ shard[s].delayedAuth => con[c].link = "none"
    /\ \A d \in Conns : Live(d) /\ con[d].owner = s => d = c

\* A shard on the list has nothing left of its last connection, or will have
\* before the list is looked at.
QueueInv == \A s \in Queued :
    \/ shard[s].connection = NoConn
    \/ ResetPending(s)
    \/ /\ ~shard[s].zlib /\ ~shard[s].delayedAuth
       /\ shard[s].state \notin {"preready", "online"}

\* One READY or RESUMED at a time, whose clock still runs.
EventInv ==
    /\ \A e, f \in pool : e = f
    /\ \A e \in pool :
         /\ connectTime
         /\ connectingShard = IF e.torn THEN NoShard ELSE e.shard
         /\ \/ shard[e.shard].connection = NoConn
            \/ ResetPending(e.shard)
            \/ Live(shard[e.shard].connection)

\* A dial that has failed is still that of the head of the list.
ClockInv ==
    connectTime /\ connectingShard # NoShard =>
       LET c == shard[connectingShard].connection IN
       c # NoConn /\ con[c].ws \in {"lingering", "closed"} =>
         shardsToConnect # <<>> /\ Head(shardsToConnect) = connectingShard

\* A handler leaves the socket c as much of an attempt, as live, and as much
\* its shard's, as it was.
Kept(c) ==
    /\ Attempt(c)' <=> Attempt(c)
    /\ Live(c)' <=> Live(c)
    /\ Live(c) => con'[c].owner = con[c].owner

Steady ==
    /\ StrandInv /\ ConnectionInv /\ AttemptInv /\ LiveInv
    /\ QueueInv /\ EventInv /\ ClockInv /\ NeverLost

SteadyInv ==
    /\ DialIsHead
    /\ errors = {}
    /\ io = "running" => Steady

-----------------------------------------------------------------------------
(* The fields the invariant speaks of.                                     *)

LEMMA Fields ==
    ASSUME TypeOK
    PROVE  /\ \A s \in Shards : /\ shard[s] \in ShardState
                                /\ shard[s].connection \in Conns \cup {NoConn}
                                /\ shard[s].zlib \in BOOLEAN
                                /\ shard[s].delayedAuth \in BOOLEAN
                                /\ shard[s].state \in ShardStatus
           /\ \A c \in Conns : /\ con[c] \in ConnState
                               /\ con[c].ws \in WsState
                               /\ con[c].owner \in Shards \cup {NoShard}
                               /\ con[c].link \in LinkState
           /\ \A e \in pool : e.shard \in Shards /\ e.torn \in BOOLEAN
           /\ connectingShard \in Shards \cup {NoShard}
           /\ Queued \subseteq Shards
           /\ shardsToConnect # <<>> => Head(shardsToConnect) \in Shards
           /\ NoConn \notin Conns /\ NoShard \notin Shards
  BY ShardMgrAssumption DEF TypeOK, ShardState, ConnState, Event, Queued, Range

\* What the list looks like when a shard is queued, and when its head is taken.
LEMMA Listed ==
    ASSUME NEW list \in Seq(Shards), NEW s \in Shards
    PROVE  /\ Range(QueueReconnect(list, s)) = Range(list) \cup {s}
           /\ QueueReconnect(list, s) # <<>>
           /\ list # <<>> => Head(QueueReconnect(list, s)) = Head(list)
           /\ list = <<>> => Head(QueueReconnect(list, s)) = s
  <1>1. CASE s \in Range(list)
    BY <1>1 DEF QueueReconnect, Range
  <1>2. CASE s \notin Range(list)
    <2>1. QueueReconnect(list, s) = Append(list, s)
      BY <1>2 DEF QueueReconnect
    <2>2. ASSUME NEW i \in 1..Len(Append(list, s))
          PROVE  Append(list, s)[i] = IF i = Len(list) + 1 THEN s ELSE list[i]
      OBVIOUS
    <2>3. Range(Append(list, s)) = Range(list) \cup {s}
      BY <2>2 DEF Range
    <2> QED BY <2>1, <2>3
  <1> QED BY <1>1, <1>2

LEMMA Popped ==
    ASSUME NEW list \in Seq(Shards), list # <<>>, IsInjective(list)
    PROVE  /\ Range(Tail(list)) = Range(list) \ {Head(list)}
           /\ Head(list) \in Range(list)
           /\ Tail(list) \in Seq(Shards)
  <1>1. ASSUME NEW i \in 1..Len(Tail(list))
        PROVE  i + 1 \in 1..Len(list) /\ Tail(list)[i] = list[i + 1]
    OBVIOUS
  <1>2. ASSUME NEW i \in 1..Len(list), i # 1
        PROVE  i - 1 \in 1..Len(Tail(list)) /\ Tail(list)[i - 1] = list[i]
    BY <1>2
  <1>3. /\ 1 \in DOMAIN list /\ Head(list) = list[1]
        /\ DOMAIN list = 1..Len(list) /\ DOMAIN Tail(list) = 1..Len(Tail(list))
    OBVIOUS
  <1>4. ASSUME NEW i \in 1..Len(list), i # 1 PROVE list[i] # list[1]
    BY <1>3, <1>4 DEF IsInjective
  <1>5. ASSUME NEW x \in Range(Tail(list)) PROVE x \in Range(list) \ {Head(list)}
    <2>1. PICK i \in 1..Len(Tail(list)) : x = Tail(list)[i]
      BY <1>3 DEF Range
    <2>2. i + 1 \in 1..Len(list) /\ x = list[i + 1] /\ i + 1 # 1
      BY <1>1, <2>1
    <2> QED BY <1>3, <1>4, <2>2 DEF Range
  <1>6. ASSUME NEW x \in Range(list) \ {Head(list)} PROVE x \in Range(Tail(list))
    <2>1. PICK i \in 1..Len(list) : x = list[i]
      BY <1>3 DEF Range
    <2>2. i # 1
      BY <1>3, <2>1
    <2> QED BY <1>2, <1>3, <2>1, <2>2 DEF Range
  <1>7. Head(list) \in Range(list)
    BY <1>3 DEF Range
  <1> QED BY <1>5, <1>6, <1>7

-----------------------------------------------------------------------------
(* The handlers, one by one.                                               *)

LEMMA SameResets ==
    ASSUME NEW c \in Conns, strand'[c] = strand[c], con'[c].owner = con[c].owner
    PROVE  ResetsOnly(c)' <=> ResetsOnly(c)
  BY DEF ResetsOnly

\* Handlers that move no socket, shard or list entry: what they change of the
\* fields above they do not change at all.
LEMMA StillStep ==
    ASSUME TypeOK, Steady,
           UNCHANGED <<shardsToConnect, connectingShard, connectTime, strand, pool>>,
           io = "running", status' = "running" => status = "running",
           \A s \in Shards : /\ shard'[s].connection = shard[s].connection
                             /\ shard'[s].zlib = shard[s].zlib
                             /\ shard'[s].delayedAuth = shard[s].delayedAuth
                             /\ shard'[s].state = shard[s].state,
           \A c \in Conns : /\ con'[c].ws = con[c].ws
                            /\ con'[c].owner = con[c].owner
                            /\ con'[c].link = con[c].link
    PROVE  Steady'
  <1> USE Fields DEF Steady, Dialling, Live, Unanswered, Attempt, Ended, Queued
  <1>1. StrandInv'
    BY SameResets DEF StrandInv, DialTasks
  <1>2. ConnectionInv'
    BY DEF ConnectionInv
  <1>3. AttemptInv'
    BY DEF AttemptInv
  <1>4. LiveInv'
    BY DEF LiveInv
  <1>5. QueueInv'
    BY DEF QueueInv, ResetPending
  <1>6. EventInv'
    BY DEF EventInv, ResetPending
  <1>7. ClockInv'
    BY DEF ClockInv
  <1>8. NeverLost'
    BY DEF NeverLost, Running
  <1> QED BY <1>1, <1>2, <1>3, <1>4, <1>5, <1>6, <1>7, <1>8

LEMMA KeepAliveStep ==
    ASSUME TypeOK, Steady, io = "running", NEW s \in Shards, KeepAlive(s)
    PROVE  Steady'
  <1>1. PICK h, k : shard' = [shard EXCEPT ![s].heartbeat = h, ![s].keepalive = k]
    BY DEF KeepAlive
  <1>2. \A x \in Shards : /\ shard'[x].connection = shard[x].connection
                          /\ shard'[x].zlib = shard[x].zlib
                          /\ shard'[x].delayedAuth = shard[x].delayedAuth
                          /\ shard'[x].state = shard[x].state
    BY <1>1 DEF TypeOK, ShardState
  <1> QED BY <1>2, StillStep DEF KeepAlive

LEMMA ShutdownBeginStep ==
    ASSUME TypeOK, Steady, io = "running", ShutdownBegin
    PROVE  Steady'
  BY StillStep DEF ShutdownBegin

LEMMA LinkDiesStep ==
    ASSUME TypeOK, Steady, io = "running", Punctual, NEW x \in Conns, LinkDies(x)
    PROVE  Steady'
  <1>1. con[x].link = "ready"
    BY DEF LinkDies, Punctual
  <1>2. /\ \A c \in Conns : /\ con'[c].ws = con[c].ws
                            /\ con'[c].owner = con[c].owner
                            /\ c # x => con'[c].link = con[c].link
        /\ con'[x].link = "dead"
    BY DEF LinkDies, TypeOK, ConnState
  <1>3. UNCHANGED <<status, io, shardsToConnect, connectingShard, connectTime,
                   shard, strand, pool>>
    BY DEF LinkDies
  <1> USE <1>1, <1>2, <1>3, Fields
      DEF Steady, Dialling, Live, Unanswered, Attempt, Ended, Queued
  <1>4. StrandInv'
    BY SameResets DEF StrandInv, DialTasks
  <1>5. ConnectionInv'
    BY DEF ConnectionInv
  <1>6. AttemptInv'
    BY DEF AttemptInv
  <1>7. LiveInv'
    BY DEF LiveInv, ConnectionInv
  <1>8. QueueInv'
    BY DEF QueueInv, ResetPending
  <1>9. EventInv'
    BY DEF EventInv, ResetPending
  <1>10. ClockInv'
    BY DEF ClockInv
  <1>11. NeverLost'
    BY DEF NeverLost, Running
  <1> QED BY <1>4, <1>5, <1>6, <1>7, <1>8, <1>9, <1>10, <1>11

LEMMA DialFailsStep ==
    ASSUME TypeOK, Steady, io = "running", NEW x \in Conns, DialFails(x)
    PROVE  Steady'
  <1>1. con[x].ws = "connecting"
    BY DEF DialFails
  <1>2. /\ \A c \in Conns : /\ con'[c].owner = con[c].owner
                            /\ con'[c].link = con[c].link
                            /\ c # x => con'[c].ws = con[c].ws
        /\ con'[x].ws \in {"closed", "lingering"}
    BY DEF DialFails, TypeOK, ConnState
  <1>3. UNCHANGED <<status, io, shardsToConnect, connectingShard, connectTime,
                   shard, strand, pool>>
    BY DEF DialFails
  <1> USE <1>1, <1>2, <1>3, Fields
      DEF Steady, Dialling, Live, Unanswered, Attempt, Ended, Queued
  <1>0. /\ connectTime /\ connectingShard # NoShard
        /\ con[x].owner = connectingShard
        /\ shard[connectingShard].connection = x
        /\ shardsToConnect # <<>> /\ Head(shardsToConnect) = connectingShard
        /\ strand[x] = <<>>
    BY DEF AttemptInv, StrandInv
  <1>4. StrandInv'
    <2>1. ResetsOnly(x)'
      BY <1>0 DEF ResetsOnly
    <2> QED BY <1>0, <2>1, SameResets DEF StrandInv, DialTasks
  <1>5. ConnectionInv'
    BY DEF ConnectionInv
  <1>6. AttemptInv'
    BY DEF AttemptInv
  <1>7. LiveInv'
    BY DEF LiveInv, ConnectionInv
  <1>8. QueueInv'
    BY DEF QueueInv, ResetPending
  <1>9. EventInv'
    BY DEF EventInv, ResetPending, AttemptInv
  <1>10. ClockInv'
    BY <1>0 DEF ClockInv
  <1>11. NeverLost'
    BY DEF NeverLost, Running
  <1> QED BY <1>4, <1>5, <1>6, <1>7, <1>8, <1>9, <1>10, <1>11

LEMMA TearStep ==
    ASSUME TypeOK, Steady, io = "running", status = "running",
           NEW e \in pool, TearEvent(e), io' = io, status' = status,
           UNCHANGED <<shardsToConnect, con, strand>>
    PROVE  Steady'
  <1>1. /\ \A f \in pool : f = e
        /\ ~e.torn /\ connectTime /\ connectingShard = e.shard
    BY Fields DEF TearEvent, Steady, EventInv
  <1>2. pool' = {[e EXCEPT !.torn = TRUE]}
    BY <1>1 DEF TearEvent
  <1>3. /\ [e EXCEPT !.torn = TRUE].torn
        /\ [e EXCEPT !.torn = TRUE].shard = e.shard
    BY DEF TypeOK, Event
  <1>4. \A c \in Conns : ~Attempt(c)
    BY DEF Steady, AttemptInv
  <1>5. /\ connectingShard' = NoShard
        /\ UNCHANGED <<connectTime, shard>>
    BY DEF TearEvent
  <1> DEFINE f == [e EXCEPT !.torn = TRUE]
  <1> HIDE DEF f
  <1> USE <1>4, <1>5, Fields
      DEF Steady, Dialling, Live, Unanswered, Attempt, Ended, Queued
  <1>6. StrandInv'
    BY SameResets DEF StrandInv, DialTasks
  <1>7. ConnectionInv'
    BY DEF ConnectionInv
  <1>8. AttemptInv'
    BY DEF AttemptInv
  <1>9. LiveInv'
    BY DEF LiveInv, ConnectionInv
  <1>10. QueueInv'
    BY DEF QueueInv, ResetPending
  <1>11. EventInv'
    BY <1>1, <1>2, <1>3 DEF EventInv, ResetPending, f
  <1>12. ClockInv'
    BY DEF ClockInv
  <1>13. NeverLost'
    BY DEF NeverLost, Running
  <1> QED BY <1>6, <1>7, <1>8, <1>9, <1>10, <1>11, <1>12, <1>13

LEMMA HandleStep ==
    ASSUME TypeOK, Steady, io = "running",
           NEW e \in pool, HandleEvent(e), io' = io, status' = status,
           UNCHANGED <<shardsToConnect, con, strand>>
    PROVE  Steady'
  <1>1. /\ \A f \in pool : f = e
        /\ connectTime
        /\ connectingShard = IF e.torn THEN NoShard ELSE e.shard
    BY Fields DEF Steady, EventInv
  <1>2. pool' = {}
    BY <1>1 DEF HandleEvent
  <1>3. \A c \in Conns : ~Attempt(c)
    BY DEF Steady, AttemptInv
  <1> USE <1>2, <1>3, Fields
      DEF Steady, Dialling, Live, Unanswered, Attempt, Ended, Queued
  <1>4. CASE UNCHANGED <<connectingShard, connectTime, shard>>
    <2>1. StrandInv' /\ ConnectionInv' /\ AttemptInv' /\ LiveInv'
      BY <1>4, SameResets DEF StrandInv, DialTasks, ConnectionInv, AttemptInv, LiveInv
    <2>2. QueueInv' /\ ClockInv' /\ NeverLost'
      BY <1>4 DEF QueueInv, ResetPending, ClockInv, NeverLost, Running
    <2>3. EventInv'
      BY DEF EventInv
    <2> QED BY <2>1, <2>2, <2>3
  <1>5. CASE /\ connectingShard' = NoShard /\ connectTime' = FALSE
             /\ shard' = [shard EXCEPT ![e.shard] = Established(@, e.name)]
    <2>1. \A s \in Shards :
             /\ shard'[s].connection = shard[s].connection
             /\ shard'[s].zlib = shard[s].zlib
             /\ shard'[s].delayedAuth = shard[s].delayedAuth
             /\ shard'[s].state = IF s = e.shard THEN "online" ELSE shard[s].state
      BY <1>5 DEF Established, ShardState, TypeOK
    <2>2. StrandInv' /\ ConnectionInv' /\ AttemptInv'
      BY <1>5, <2>1, SameResets DEF StrandInv, DialTasks, ConnectionInv, AttemptInv
    <2>3. LiveInv'
      BY <1>5, <2>1 DEF LiveInv
    <2>4. e.shard \in Queued => \/ shard[e.shard].connection = NoConn
                                \/ ResetPending(e.shard)
      BY DEF EventInv, LiveInv, ConnectionInv
    <2>5. QueueInv'
      BY <1>5, <2>1, <2>4 DEF QueueInv, ResetPending
    <2>6. ClockInv' /\ EventInv'
      BY <1>5 DEF ClockInv, EventInv
    <2>7. NeverLost'
      BY DEF NeverLost, Running
    <2> QED BY <2>2, <2>3, <2>5, <2>6, <2>7
  <1>6. CASE ~(status = "shutdown" /\ ~e.torn)
    BY <1>1, <1>5, <1>6 DEF HandleEvent
  <1>7. CASE status = "shutdown" /\ ~e.torn
    BY <1>4, <1>7 DEF HandleEvent
  <1> QED BY <1>6, <1>7

-----------------------------------------------------------------------------
(* The tasks of a strand.                                                  *)

\* A task that is not a reset dials for the connecting shard.
LEMMA TaskFacts ==
    ASSUME TypeOK, Steady, NEW x \in Conns, strand[x] # <<>>
    PROVE  LET t == Head(strand[x]) IN
           /\ t \in Task /\ Tail(strand[x]) \in Seq(Task)
           /\ t.task # "reset" =>
                /\ con[x].ws = "init" /\ t.shard = connectingShard
                /\ connectingShard # NoShard
                /\ shard[connectingShard].connection = x
                /\ Tail(strand[x]) = <<>>
                /\ t.task = "dial" => con[x].owner = connectingShard
           /\ t.task = "reset" =>
                /\ Ended(x) /\ t.shard = con[x].owner /\ con[x].owner # NoShard
                /\ t.to # "shutdown"
                /\ shard[con[x].owner].connection \in {x, NoConn}
                /\ \A i \in 1..Len(Tail(strand[x])) :
                     /\ Tail(strand[x])[i].task = "reset"
                     /\ Tail(strand[x])[i].shard = con[x].owner
                     /\ Tail(strand[x])[i].to # "shutdown"
  <1> DEFINE t == Head(strand[x])
  <1> USE Fields DEF Steady, TypeOK
  <1>0. ASSUME NEW a PROVE Head(<<a>>) = a /\ Tail(<<a>>) = <<>>
    OBVIOUS
  <1>1. /\ t \in Task /\ Tail(strand[x]) \in Seq(Task)
        /\ 1 \in 1..Len(strand[x]) /\ t = strand[x][1]
        /\ \A i \in 1..Len(Tail(strand[x])) :
              i + 1 \in 1..Len(strand[x]) /\ Tail(strand[x])[i] = strand[x][i + 1]
    OBVIOUS
  <1>2. CASE con[x].ws = "init"
    <2>1. /\ t \in {[task |-> "connect", shard |-> connectingShard],
                    [task |-> "dial", shard |-> connectingShard]}
          /\ Tail(strand[x]) = <<>>
      <3>1. strand[x] \in DialTasks
        BY <1>2 DEF StrandInv
      <3> QED BY <1>0, <3>1 DEF DialTasks
    <2>2. /\ shard[connectingShard].connection = x
          /\ connectingShard # NoShard
          /\ t.task = "dial" => con[x].owner = connectingShard
      BY <1>2 DEF AttemptInv, Attempt, Dialling
    <2>3. t.task # "reset" /\ t.shard = connectingShard
      BY <2>1
    <2> QED BY <1>1, <1>2, <2>1, <2>2, <2>3
  <1>3. CASE con[x].ws # "init"
    <2>1. Ended(x)
      BY <1>3 DEF StrandInv, Ended
    <2>2. ResetsOnly(x) /\ con[x].owner # NoShard
          /\ shard[con[x].owner].connection \in {x, NoConn}
      BY <2>1 DEF StrandInv
    <2> QED BY <1>1, <2>1, <2>2 DEF ResetsOnly
  <1> QED BY <1>2, <1>3

\* The binding of the callbacks, and then the dial, of the connecting shard.
LEMMA DialKeeps ==
    ASSUME TypeOK, Steady, io = "running", NEW x \in Conns, NEW ws,
           con[x].ws = "init", ws \in {"init", "connecting"},
           UNCHANGED <<status, io, shardsToConnect, connectingShard,
                       connectTime, pool>>,
           \A y \in Shards :
              /\ shard'[y].connection = shard[y].connection
              /\ shard'[y].zlib = shard[y].zlib
              /\ shard'[y].delayedAuth = shard[y].delayedAuth
              /\ shard'[y].state = IF y = connectingShard THEN "connecting"
                                   ELSE shard[y].state,
           \A c \in Conns \ {x} :
              /\ con'[c].ws = con[c].ws
              /\ con'[c].link = con[c].link
              /\ con'[c].owner = con[c].owner
              /\ strand'[c] = strand[c],
           con'[x].ws = ws,
           con'[x].link = con[x].link,
           con'[x].owner = connectingShard,
           IF ws = "init" THEN strand'[x] \in DialTasks ELSE strand'[x] = <<>>
    PROVE  Steady'
  <1> USE Fields DEF Steady, Dialling, Live, Unanswered, Attempt, Ended
  <1>1. /\ connectingShard \in Shards /\ connectTime /\ pool = {}
        /\ shard[connectingShard].connection = x
        /\ shardsToConnect # <<>> /\ Head(shardsToConnect) = connectingShard
    BY DEF AttemptInv
  <1>2. Queued' = Queued /\ DialTasks' = DialTasks
    BY DEF Queued, DialTasks
  <1> USE <1>1, <1>2
  <1>3. StrandInv'
    BY SameResets DEF StrandInv
  <1>4. ConnectionInv'
    BY DEF ConnectionInv, AttemptInv
  <1>5. AttemptInv'
    BY DEF AttemptInv
  <1>6. LiveInv'
    BY DEF LiveInv
  <1>7. QueueInv'
    BY DEF QueueInv, ResetPending
  <1>8. EventInv' /\ ClockInv'
    BY DEF EventInv, ClockInv
  <1>9. NeverLost'
    BY DEF NeverLost, Running
  <1> QED BY <1>3, <1>4, <1>5, <1>6, <1>7, <1>8, <1>9

\* A reset on the strand of x resets the owner of x.
LEMMA ResetKeeps ==
    ASSUME TypeOK, Steady, io = "running", NEW x \in Conns, NEW s \in Shards,
           NEW to, Ended(x), s = con[x].owner, to # "shutdown",
           shard[s].connection \in {x, NoConn},
           UNCHANGED <<status, io, shardsToConnect, connectingShard,
                       connectTime, con, pool>>,
           \A y \in Shards \ {s} :
              /\ shard'[y].connection = shard[y].connection
              /\ shard'[y].zlib = shard[y].zlib
              /\ shard'[y].delayedAuth = shard[y].delayedAuth
              /\ shard'[y].state = shard[y].state,
           shard'[s].connection = NoConn,
           ~shard'[s].zlib, ~shard'[s].delayedAuth, shard'[s].state = to,
           \A c \in Conns \ {x} : strand'[c] = strand[c],
           ResetsOnly(x)'
    PROVE  Steady'
  <1> USE Fields DEF Steady, Dialling, Live, Unanswered, Attempt, Ended
  <1>1. Queued' = Queued /\ DialTasks' = DialTasks
    BY DEF Queued, DialTasks
  <1> USE <1>1
  <1>2. StrandInv'
    BY SameResets DEF StrandInv
  <1>3. ConnectionInv'
    BY DEF ConnectionInv
  <1>4. AttemptInv'
    BY DEF AttemptInv, ConnectionInv
  <1>5. LiveInv'
    BY DEF LiveInv, ConnectionInv
  <1>6. QueueInv'
    BY DEF QueueInv, ResetPending, ConnectionInv
  <1>7. EventInv'
    BY DEF EventInv, ResetPending, ConnectionInv
  <1>8. ClockInv'
    BY DEF ClockInv
  <1>9. NeverLost'
    BY DEF NeverLost, Running
  <1> QED BY <1>2, <1>3, <1>4, <1>5, <1>6, <1>7, <1>8, <1>9

LEMMA RunStrandStep ==
    ASSUME TypeOK, Steady, io = "running", NEW x \in Conns, RunStrand(x)
    PROVE  /\ Steady' /\ UNCHANGED <<io, errors, status, connectingShard>>
           /\ \A c \in Conns : Kept(c)
  <1> DEFINE t == Head(strand[x])
             s == connectingShard
             rest == [strand EXCEPT ![x] = Tail(@)]
  <1>1. /\ strand[x] # <<>>
        /\ UNCHANGED <<status, shardsToConnect, connectingShard, connectTime, pool>>
        /\ \/ t.task = "connect" /\ ConnectTask(t.shard, rest)
           \/ t.task = "dial" /\ DialTask(t.shard, rest)
           \/ t.task = "reset" /\ ResetTask(t.shard, t.to, rest)
    BY DEF RunStrand
  <1>2. /\ rest[x] = Tail(strand[x])
        /\ \A c \in Conns \ {x} : rest[c] = strand[c]
        /\ rest \in [Conns -> Seq(Task)]
    BY <1>1, TaskFacts DEF TypeOK
  <1> HIDE DEF rest
  <1>3. CASE t.task \in {"connect", "dial"}
    <2>1. /\ con[x].ws = "init" /\ t.shard = s /\ s \in Shards
          /\ shard[s].connection = x /\ x # NoConn
          /\ Tail(strand[x]) = <<>>
          /\ t.task = "dial" => con[x].owner = s
      BY <1>1, <1>3, TaskFacts, Fields
    <2>2. ASSUME shard' = [shard EXCEPT ![s].state = "connecting"]
          PROVE  \A y \in Shards :
                   /\ shard'[y].connection = shard[y].connection
                   /\ shard'[y].zlib = shard[y].zlib
                   /\ shard'[y].delayedAuth = shard[y].delayedAuth
                   /\ shard'[y].state = IF y = s THEN "connecting"
                                        ELSE shard[y].state
      BY <2>1, <2>2 DEF TypeOK, ShardState
    <2>3. CASE t.task = "connect"
      <3> DEFINE d == [task |-> "dial", shard |-> s]
      <3>1. ConnectTask(s, rest)
        BY <1>1, <2>1, <2>3
      <3>2. /\ shard' = [shard EXCEPT ![s].state = "connecting"]
            /\ con' = [con EXCEPT ![x].owner = s]
            /\ strand' = [rest EXCEPT ![x] = Append(@, d)]
            /\ UNCHANGED <<io, errors>>
        BY <2>1, <3>1 DEF ConnectTask
      <3>3. /\ \A c \in Conns \ {x} : con'[c] = con[c]
            /\ con'[x].ws = "init" /\ con'[x].link = con[x].link
            /\ con'[x].owner = s
        BY <2>1, <3>2 DEF TypeOK, ConnState
      <3>4. strand'[x] = <<d>> /\ \A c \in Conns \ {x} : strand'[c] = strand[c]
        <4> HIDE DEF d
        <4>1. Append(<<>>, d) = <<d>>
          OBVIOUS
        <4>2. rest[x] = <<>>
          BY <1>2, <2>1
        <4> QED BY <1>2, <3>2, <4>1, <4>2
      <3>6. \A c \in Conns : Kept(c)
        BY <2>1, <3>3 DEF Kept, Attempt, Dialling, Live, Unanswered
      <3>5. strand'[x] \in DialTasks
        BY <3>4 DEF DialTasks
      <3> HIDE DEF d
      <3>7. Steady'
        BY <1>1, <2>1, <2>2, <3>2, <3>3, <3>4, <3>5, DialKeeps
      <3> QED BY <1>1, <3>2, <3>6, <3>7
    <2>4. CASE t.task = "dial"
      <3>1. DialTask(s, rest)
        BY <1>1, <2>1, <2>4
      <3>2. /\ shard' = [shard EXCEPT ![s].state = "connecting"]
            /\ con' = [con EXCEPT ![x].ws = "connecting"]
            /\ strand' = rest
            /\ UNCHANGED <<io, errors>>
        BY <2>1, <3>1 DEF DialTask
      <3>3. /\ \A c \in Conns \ {x} : con'[c] = con[c]
            /\ con'[x].ws = "connecting" /\ con'[x].link = con[x].link
            /\ con'[x].owner = s
        BY <2>1, <2>4, <3>2 DEF TypeOK, ConnState
      <3>4. \A c \in Conns : Kept(c)
        BY <2>1, <3>3 DEF Kept, Attempt, Dialling, Live, Unanswered
      <3>5. Steady'
        BY ZenonT(40), <1>1, <1>2, <2>1, <2>2, <3>2, <3>3, DialKeeps
      <3> QED BY <1>1, <3>2, <3>4, <3>5
    <2> QED BY <1>3, <2>3, <2>4
  <1>4. CASE t.task = "reset"
    <2> DEFINE o == con[x].owner
               to == t.to
    <2>1. /\ Ended(x) /\ t.shard = o /\ o \in Shards /\ to # "shutdown"
          /\ shard[o].connection \in {x, NoConn}
      BY <1>1, <1>4, TaskFacts, Fields
    <2>2. ResetTask(o, to, rest)
      BY <1>1, <1>4, <2>1
    <2>3. /\ shard' = [shard EXCEPT ![o] = Reset(@, to)]
          /\ con' = con
          /\ strand' = rest
          /\ UNCHANGED <<io, errors>>
      BY <2>1, <2>2 DEF ResetTask, CloseConn, Ended
    <2>4. ResetsOnly(x)'
      <3>1. \A i \in 1..Len(Tail(strand[x])) :
               /\ Tail(strand[x])[i].task = "reset"
               /\ Tail(strand[x])[i].shard = o
               /\ Tail(strand[x])[i].to # "shutdown"
        BY <1>1, <1>4, TaskFacts
      <3> QED BY <1>2, <2>3, <3>1 DEF ResetsOnly
    <2> HIDE DEF to, t
    <2>5. /\ \A y \in Shards \ {o} : shard'[y] = shard[y]
          /\ shard'[o].connection = NoConn
          /\ shard'[o].zlib = FALSE /\ shard'[o].delayedAuth = FALSE
          /\ shard'[o].state = to
      BY <2>1, <2>3 DEF TypeOK, ShardState, Reset
    <2> HIDE DEF o
    <2>6. o = con[x].owner
      BY DEF o
    <2>7. /\ UNCHANGED <<status, io, shardsToConnect, connectingShard, connectTime,
                         con, pool, errors>>
          /\ \A c \in Conns \ {x} : strand'[c] = strand[c]
      BY <1>1, <1>2, <2>3
    <2>8. Steady'
      BY <2>1, <2>4, <2>5, <2>6, <2>7, ResetKeeps
    <2>9. \A c \in Conns : Kept(c)
      BY <2>7 DEF Kept, Attempt, Dialling, Live, Unanswered
    <2> QED BY <2>7, <2>8, <2>9
  <1> QED BY <1>1, <1>3, <1>4

-----------------------------------------------------------------------------
(* The handlers of a connection.                                           *)

\* A socket opens: its shard, the head of the list, comes off it.
LEMMA OpenKeeps ==
    ASSUME TypeOK, Steady, QueueNoDup, io = "running", NEW x \in Conns,
           con[x].ws = "connecting",
           UNCHANGED <<status, io, connectingShard, connectTime, strand, pool>>,
           shardsToConnect' = Tail(shardsToConnect),
           \A y \in Shards \ {connectingShard} : shard'[y] = shard[y],
           shard'[connectingShard].connection = x,
           shard'[connectingShard].zlib,
           ~shard'[connectingShard].delayedAuth,
           shard'[connectingShard].state = "preready",
           \A c \in Conns \ {x} : con'[c] = con[c],
           con'[x].ws = "open", con'[x].owner = connectingShard,
           con'[x].link \in {"identify", "resume"}
    PROVE  Steady'
  <1> USE Fields DEF Steady, Dialling, Live, Unanswered, Attempt, Ended
  <1>1. /\ connectingShard \in Shards /\ connectTime /\ pool = {}
        /\ con[x].owner = connectingShard
        /\ shard[connectingShard].connection = x
        /\ shardsToConnect # <<>> /\ Head(shardsToConnect) = connectingShard
        /\ strand[x] = <<>>
    BY DEF AttemptInv, StrandInv
  <1>2. DialTasks' = DialTasks
    BY DEF DialTasks
  <1>3. Queued' = Queued \ {connectingShard} /\ connectingShard \in Queued
    BY <1>1, Popped DEF Queued, TypeOK, QueueNoDup
  <1>4. \A c \in Conns \ {x} : ~Dialling(c)
    BY <1>1 DEF AttemptInv
  <1> USE <1>1, <1>2, <1>3, <1>4
  <1>5. StrandInv'
    BY SameResets DEF StrandInv
  <1>6. ConnectionInv'
    BY DEF ConnectionInv
  <1>7. AttemptInv'
    BY DEF AttemptInv
  <1>8. LiveInv'
    BY DEF LiveInv
  <1>9. QueueInv'
    BY DEF QueueInv, ResetPending
  <1>10. EventInv' /\ ClockInv'
    BY DEF EventInv, ClockInv
  <1>11. NeverLost'
    BY DEF NeverLost, Running
  <1> QED BY <1>5, <1>6, <1>7, <1>8, <1>9, <1>10, <1>11

LEMMA OnConnectStep ==
    ASSUME TypeOK, Steady, QueueNoDup, io = "running",
           NEW x \in Conns, OnConnect(x)
    PROVE  /\ Steady' /\ UNCHANGED <<io, errors>>
           /\ con[x].owner = Head(shardsToConnect)
           /\ shardsToConnect # <<>> /\ shardsToConnect' = Tail(shardsToConnect)
           /\ con'[x].owner = con[x].owner /\ con'[x].ws = "open"
           /\ con[x].ws = "connecting" /\ con'[x].link \in {"identify", "resume"}
           /\ \A c \in Conns \ {x} : con'[c] = con[c]
           /\ UNCHANGED <<status, connectingShard>>
  <1> DEFINE s == con[x].owner
             opened == [con EXCEPT ![x].ws = "open"]
             r == [shard[s] EXCEPT !.zlib = TRUE, !.state = "preready"]
  <1>1. /\ con[x].ws = "connecting" /\ s = connectingShard /\ s \in Shards
        /\ shard[s].connection = x /\ x # NoConn /\ connectingShard # NoShard
        /\ shardsToConnect # <<>> /\ Head(shardsToConnect) = s
        /\ UNCHANGED <<status, io, connectingShard, connectTime, strand, pool>>
    BY Fields DEF OnConnect, Steady, AttemptInv, Attempt, Dialling
  <1>2. s \in Queued
    BY <1>1, Popped DEF Queued, TypeOK, QueueNoDup
  <1>3. ~shard[s].zlib /\ ~shard[s].delayedAuth
    BY <1>1, <1>2 DEF Steady, QueueInv, ResetPending, Ended
  <1>4. /\ shard' = [shard EXCEPT ![s] = r]
        /\ con' = Greet(r, opened)
        /\ shardsToConnect' = Tail(shardsToConnect)
        /\ errors' = errors
    BY <1>1, <1>3 DEF OnConnect
  <1>5. /\ r.connection = x /\ r.zlib = TRUE /\ r.delayedAuth = FALSE
        /\ r.state = "preready"
    BY <1>1, <1>3 DEF TypeOK, ShardState
  <1> HIDE DEF r
  <1>6. /\ \A y \in Shards \ {s} : shard'[y] = shard[y]
        /\ shard'[s] = r
    BY <1>1, <1>4 DEF TypeOK
  <1>7. /\ opened[x].ws = "open" /\ opened[x].owner = s
        /\ opened \in [Conns -> ConnState]
        /\ \A c \in Conns \ {x} : opened[c] = con[c]
    <2>1. opened \in [Conns -> ConnState]
      BY SetWsType DEF TypeOK, WsState
    <2> QED BY <2>1 DEF TypeOK, ConnState
  <1> HIDE DEF opened
  <1>8. PICK to \in {"identify", "resume"} : con' = [opened EXCEPT ![x].link = to]
    BY <1>1, <1>4, <1>5, <1>7 DEF Greet
  <1>9. /\ con'[x].ws = "open" /\ con'[x].owner = s /\ con'[x].link = to
        /\ \A c \in Conns \ {x} : con'[c] = con[c]
    BY <1>7, <1>8 DEF ConnState
  <1> HIDE DEF s
  <1>10. Steady'
    BY <1>1, <1>4, <1>5, <1>6, <1>9, OpenKeeps
  <1> QED BY <1>1, <1>4, <1>9, <1>10 DEF s

\* A connection ends: its shard goes back on the list, and either has let go
\* of the connection already or has a reset waiting for it.
LEMMA CloseKeeps ==
    ASSUME TypeOK, Steady, io = "running", NEW x \in Conns, NEW s \in Shards,
           Live(x), s = con[x].owner,
           \A e \in pool : e.torn,
           UNCHANGED <<status, io, connectingShard, pool>>,
           connectTime' <=> (connectTime /\ connectingShard # s),
           s \in Queued' \/ status # "running",
           Queued \subseteq Queued', Queued' \subseteq Queued \cup {s},
           shardsToConnect # <<>> =>
               shardsToConnect' # <<>> /\ Head(shardsToConnect') = Head(shardsToConnect),
           \A c \in Conns \ {x} : con'[c] = con[c] /\ strand'[c] = strand[c],
           con'[x].ws = "lingering", con'[x].owner = s,
           \A y \in Shards \ {s} : shard'[y] = shard[y],
           ResetsOnly(x)',
           \/ /\ shard[s].connection = NoConn /\ shard'[s].connection = NoConn
              /\ ~shard'[s].zlib /\ ~shard'[s].delayedAuth
              /\ shard'[s].state # "shutdown"
              /\ strand'[x] = strand[x]
           \/ shard[s].connection = x /\ shard'[s] = shard[s] /\ strand'[x] # <<>>
    PROVE  Steady'
  <1> USE Fields DEF Steady, Dialling, Live, Unanswered, Attempt, Ended
  <1>1. /\ s \notin Queued /\ shard[s].connection \in {x, NoConn}
        /\ \A d \in Conns : Live(d) /\ con[d].owner = s => d = x
    BY DEF LiveInv
  <1>2. DialTasks' = DialTasks
    BY DEF DialTasks
  <1>3. shardsToConnect # <<>> => Head(shardsToConnect) \in Queued
    BY DEF Queued, Range, TypeOK
  <1>4. \A c \in Conns : Attempt(c) /\ c # x => connectingShard # s
    BY <1>1, <1>3 DEF AttemptInv
  <1> USE <1>1, <1>2
  <1>5. StrandInv'
    BY SameResets DEF StrandInv
  <1>6. ConnectionInv'
    BY DEF ConnectionInv
  <1>7. AttemptInv'
    BY <1>4 DEF AttemptInv
  <1>8. LiveInv'
    BY DEF LiveInv
  <1>9. QueueInv'
    BY DEF QueueInv, ResetPending, ConnectionInv
  <1>10. EventInv'
    BY DEF EventInv, ResetPending, ConnectionInv
  <1>11. ClockInv'
    BY DEF ClockInv, ConnectionInv
  <1>12. NeverLost'
    BY DEF NeverLost, Running
  <1> QED BY <1>5, <1>6, <1>7, <1>8, <1>9, <1>10, <1>11, <1>12

LEMMA OnCloseStep ==
    ASSUME TypeOK, Steady, io = "running", Punctual, NEW x \in Conns, OnClose(x)
    PROVE  /\ Steady' /\ UNCHANGED <<io, errors, status, connectingShard>>
           /\ Queued \subseteq Queued'
           /\ Live(x) /\ con'[x].ws = "lingering"
           /\ \A c \in Conns \ {x} : con'[c] = con[c]
  <1> DEFINE s == con[x].owner
             down == status = "shutdown" \/ shard[s].state = "shutdown"
  <1>1. /\ Live(x) /\ s \in Shards
        /\ \A e \in pool : e.torn
        /\ con' = [con EXCEPT ![x].ws = "lingering"]
        /\ connectTime' = (connectTime /\ connectingShard # s)
        /\ shardsToConnect' = ListAfterClose(s, down)
        /\ UNCHANGED <<status, io, connectingShard, pool, errors>>
    BY Fields DEF OnClose, Live, PromptPool, Punctual, ClockAfterClose
  <1>2. /\ shard[s].state # "shutdown" /\ shard[s].connection \in {x, NoConn}
        /\ ResetsOnly(x) \/ strand[x] = <<>>
    BY <1>1 DEF Steady, ConnectionInv, LiveInv, StrandInv, Live, Ended
  <1>3. /\ s \in Queued' \/ status # "running"
        /\ Queued \subseteq Queued' /\ Queued' \subseteq Queued \cup {s}
        /\ shardsToConnect # <<>> =>
             shardsToConnect' # <<>> /\ Head(shardsToConnect') = Head(shardsToConnect)
    <2>1. CASE down
      BY <1>1, <1>2, <2>1 DEF ListAfterClose, Queued
    <2>2. CASE ~down
      BY <1>1, <2>2, Listed DEF ListAfterClose, Queued, TypeOK
    <2> QED BY <2>1, <2>2
  <1>4. /\ con'[x].ws = "lingering" /\ con'[x].owner = s
        /\ \A c \in Conns \ {x} : con'[c] = con[c]
    BY <1>1 DEF TypeOK, ConnState
  <1>5. PICK to \in {"closing", "queued"} : DoReset(s, to)
    BY DEF OnClose
  <1> DEFINE c0 == shard[s].connection
  <1>6. CASE c0 = NoConn
    <2>1. shard' = [shard EXCEPT ![s] = Reset(@, to)] /\ strand' = strand
      BY <1>5, <1>6 DEF DoReset
    <2>2. /\ shard'[s].connection = NoConn
          /\ shard'[s].zlib = FALSE /\ shard'[s].delayedAuth = FALSE
          /\ shard'[s].state # "shutdown"
          /\ \A y \in Shards \ {s} : shard'[y] = shard[y]
      BY <1>1, <2>1 DEF TypeOK, ShardState, Reset
    <2>3. ResetsOnly(x)'
      BY <1>2, <1>4, <2>1 DEF ResetsOnly
    <2> HIDE DEF s, down
    <2>4. s = con[x].owner
      BY DEF s
    <2>5. Steady'
      BY <1>1, <1>3, <1>4, <1>6, <2>1, <2>2, <2>3, <2>4, CloseKeeps
    <2> QED BY <1>1, <1>3, <1>4, <2>5
  <1>7. CASE c0 = x
    <2> DEFINE t == [task |-> "reset", shard |-> s, to |-> to]
    <2>1. /\ shard' = shard
          /\ strand' = [strand EXCEPT ![x] = Append(@, t)]
      BY <1>1, <1>5, <1>7, Fields DEF DoReset
    <2>2. t.task = "reset" /\ t.shard = s /\ t.to # "shutdown" /\ t \in Task
      BY <1>1 DEF Task, ResetStatus
    <2> HIDE DEF t
    <2>3. /\ strand'[x] = Append(strand[x], t)
          /\ \A c \in Conns \ {x} : strand'[c] = strand[c]
          /\ strand[x] \in Seq(Task)
      BY <2>1 DEF TypeOK
    <2>4. ResetsOnly(x)' /\ strand'[x] # <<>>
      <3>1. ASSUME NEW i \in 1..Len(Append(strand[x], t))
            PROVE  \/ Append(strand[x], t)[i] = t
                   \/ /\ i \in 1..Len(strand[x])
                      /\ Append(strand[x], t)[i] = strand[x][i]
        BY <2>2, <2>3
      <3>2. Append(strand[x], t) # <<>>
        BY <2>2, <2>3
      <3> QED BY <1>2, <1>4, <2>2, <2>3, <3>1, <3>2 DEF ResetsOnly
    <2> HIDE DEF s, down
    <2>5. s = con[x].owner
      BY DEF s
    <2>6. Steady'
      BY <1>1, <1>3, <1>4, <1>7, <2>1, <2>3, <2>4, <2>5, CloseKeeps
    <2> QED BY <1>1, <1>3, <1>4, <2>6
  <1> QED BY <1>2, <1>6, <1>7

-----------------------------------------------------------------------------
(* Messages and timers.                                                    *)

\* connection->close() on an open socket.
LEMMA CutKeeps ==
    ASSUME TypeOK, Steady, io = "running", NEW x \in Conns,
           NEW s \in Shards, s = con[x].owner,
           UNCHANGED <<status, io, shardsToConnect, connectingShard, connectTime,
                       strand, pool>>,
           con[x].ws = "open", con'[x].owner = s,
           \A c \in Conns \ {x} : con'[c] = con[c],
           con'[x].ws = "closing", con'[x].link = con[x].link,
           \A y \in Shards \ {s} : shard'[y] = shard[y],
           shard'[s].connection = x, shard'[s].zlib,
           shard'[s].delayedAuth = shard[s].delayedAuth,
           shard'[s].state # "shutdown"
    PROVE  Steady'
  <1> USE Fields DEF Steady, Dialling, Live, Unanswered, Attempt, Ended
  <1>1. Queued' = Queued /\ DialTasks' = DialTasks
    BY DEF Queued, DialTasks
  <1>2. /\ shard[s].connection = x
        /\ shard[s].zlib /\ s \notin Queued
    BY DEF LiveInv
  <1> USE <1>1, <1>2
  <1>3. StrandInv'
    <2>1. strand[x] = <<>> /\ ResetsOnly(x)'
      BY DEF StrandInv, ResetsOnly
    <2> QED BY <2>1, SameResets DEF StrandInv
  <1>4. ConnectionInv'
    BY DEF ConnectionInv
  <1>5. AttemptInv'
    BY DEF AttemptInv
  <1>6. LiveInv'
    BY DEF LiveInv
  <1>7. QueueInv'
    BY DEF QueueInv, ResetPending
  <1>8. EventInv'
    BY DEF EventInv, ResetPending
  <1>9. ClockInv'
    BY DEF ClockInv
  <1>10. NeverLost'
    BY DEF NeverLost, Running
  <1> QED BY <1>3, <1>4, <1>5, <1>6, <1>7, <1>8, <1>9, <1>10

\* READY or RESUMED is posted.
LEMMA AnswerKeeps ==
    ASSUME TypeOK, Steady, io = "running", NEW x \in Conns, NEW e,
           UNCHANGED <<status, io, shardsToConnect, connectingShard, connectTime,
                       strand, shard>>,
           con[x].ws = "open", con'[x].owner = con[x].owner,
           \A c \in Conns \ {x} : con'[c] = con[c],
           con'[x].ws = "open", con'[x].link = "ready", Unanswered(x),
           ~shard[con[x].owner].delayedAuth,
           e.shard = con[x].owner, ~e.torn, pool' = pool \cup {e}
    PROVE  Steady'
  <1> USE Fields DEF Steady, Dialling, Live, Unanswered, Attempt, Ended
  <1>1. Queued' = Queued /\ DialTasks' = DialTasks
    BY DEF Queued, DialTasks
  <1>2. LET s == con[x].owner IN
        /\ s \in Shards /\ shard[s].connection = x
        /\ shard[s].zlib /\ s \notin Queued
    BY DEF LiveInv
  <1> USE <1>1, <1>2
  <1>3. StrandInv'
    BY SameResets DEF StrandInv
  <1>4. ConnectionInv'
    BY DEF ConnectionInv
  <1>5. AttemptInv'
    <2>1. shardsToConnect # <<>> => Head(shardsToConnect) \in Queued
      BY DEF Queued, Range, TypeOK
    <2>2. con[x].owner = connectingShard
      BY DEF AttemptInv
    <2>3. ASSUME NEW c \in Conns, c # x PROVE ~Attempt(c)
      BY <2>1, <2>2, <2>3 DEF AttemptInv, LiveInv
    <2> QED BY <2>3 DEF AttemptInv
  <1>6. LiveInv'
    BY DEF LiveInv
  <1>7. QueueInv'
    BY DEF QueueInv, ResetPending, LiveInv
  <1>8. EventInv'
    BY DEF EventInv, ResetPending, AttemptInv
  <1>9. ClockInv'
    BY DEF ClockInv
  <1>10. NeverLost'
    BY DEF NeverLost, Running
  <1> QED BY <1>3, <1>4, <1>5, <1>6, <1>7, <1>8, <1>9, <1>10

\* The session is refused: another IDENTIFY will follow.
LEMMA InvalidKeeps ==
    ASSUME TypeOK, Steady, io = "running", NEW x \in Conns,
           UNCHANGED <<status, io, shardsToConnect, connectingShard, connectTime,
                       strand, pool>>,
           con[x].ws = "open", con'[x].owner = con[x].owner,
           \A c \in Conns \ {x} : con'[c] = con[c],
           con'[x].ws = "open", con'[x].link = "none", Unanswered(x),
           \A y \in Shards : /\ shard'[y].connection = shard[y].connection
                             /\ shard'[y].zlib = shard[y].zlib
                             /\ y # con[x].owner =>
                                  shard'[y].delayedAuth = shard[y].delayedAuth
                             /\ shard'[y].state = shard[y].state
    PROVE  Steady'
  <1> USE Fields DEF Steady, Dialling, Live, Unanswered, Attempt, Ended
  <1>1. Queued' = Queued /\ DialTasks' = DialTasks
    BY DEF Queued, DialTasks
  <1>2. LET s == con[x].owner IN
        /\ s \in Shards /\ shard[s].connection = x
        /\ shard[s].zlib /\ s \notin Queued
    BY DEF LiveInv
  <1> USE <1>1, <1>2
  <1>3. StrandInv'
    BY SameResets DEF StrandInv
  <1>4. ConnectionInv'
    BY DEF ConnectionInv
  <1>5. AttemptInv'
    BY DEF AttemptInv
  <1>6. LiveInv'
    BY DEF LiveInv
  <1>7. QueueInv'
    BY DEF QueueInv, ResetPending
  <1>8. EventInv'
    BY DEF EventInv, ResetPending
  <1>9. ClockInv'
    BY DEF ClockInv
  <1>10. NeverLost'
    BY DEF NeverLost, Running
  <1> QED BY <1>3, <1>4, <1>5, <1>6, <1>7, <1>8, <1>9, <1>10

LEMMA MessageFacts ==
    ASSUME TypeOK, Steady, NEW x \in Conns, NEW m, NEW sent, OnMessage(x, m, sent)
    PROVE  /\ con[x].ws = "open" /\ con[x].owner \in Shards
           /\ shard[con[x].owner].connection = x /\ x # NoConn
           /\ shard[con[x].owner].zlib
           /\ shard[con[x].owner].delayedAuth => con[x].link = "none"
           /\ UNCHANGED <<status, shardsToConnect, connectingShard, connectTime,
                          strand>>
  <1>1. /\ con[x].ws = "open" /\ con[x].owner \in Shards
        /\ UNCHANGED <<status, shardsToConnect, connectingShard, connectTime,
                       strand>>
    BY Fields DEF OnMessage
  <1> QED BY <1>1, Fields DEF Steady, LiveInv, Live

LEMMA MessageCuts ==
    ASSUME TypeOK, Steady, NEW x \in Conns, NEW m \in {"corrupt", "op7"},
           OnMessage(x, m, con[x])
    PROVE  /\ UNCHANGED <<io, pool, errors>>
           /\ \E to \in {"reconnecting", "closing"} :
                 Close(con[x].owner, to, [con EXCEPT ![x] = con[x]])
  BY DEF OnMessage

LEMMA MessageInvalidates ==
    ASSUME TypeOK, Steady, NEW x \in Conns, NEW sent, OnMessage(x, "op9", sent)
    PROVE  /\ UNCHANGED <<io, pool, errors>> /\ con' = [con EXCEPT ![x] = sent]
           /\ shard' = [shard EXCEPT ![con[x].owner].session = FALSE,
                                     ![con[x].owner].delayedAuth = TRUE]
  <1> DEFINE s == con[x].owner
  <1>1. shard[s].connection = x /\ x # NoConn /\ shard[s].zlib
    BY MessageFacts
  <1>2. (shard[s].delayedAuth \/ shard[s].connection # NoConn) = TRUE
    BY <1>1
  <1> QED BY ZenonT(30), <1>1, <1>2 DEF OnMessage

LEMMA MessageBeats ==
    ASSUME TypeOK, Steady, NEW x \in Conns, NEW m \in {"op10", "op11"}, NEW sent,
           OnMessage(x, m, sent)
    PROVE  /\ UNCHANGED <<io, pool, errors>> /\ con' = [con EXCEPT ![x] = sent]
           /\ \A y \in Shards : /\ shard'[y].connection = shard[y].connection
                                /\ shard'[y].zlib = shard[y].zlib
                                /\ shard'[y].delayedAuth = shard[y].delayedAuth
                                /\ shard'[y].state = shard[y].state
  <1>1. PICK s \in Shards : s = con[x].owner
    BY MessageFacts
  <1>2. shard[s].zlib
    BY <1>1, MessageFacts
  <1>3. /\ UNCHANGED <<io, pool, errors>> /\ con' = [con EXCEPT ![x] = sent]
        /\ \E k : shard' = [shard EXCEPT ![s].heartbeat = "normal",
                                         ![s].keepalive = k]
    BY ZenonT(30), <1>1, <1>2 DEF OnMessage
  <1>4. PICK k : shard' = [shard EXCEPT ![s].heartbeat = "normal",
                                        ![s].keepalive = k]
    BY <1>3
  <1> QED BY <1>3, <1>4 DEF TypeOK, ShardState

LEMMA MessageAnswers ==
    ASSUME TypeOK, Steady, NEW x \in Conns, NEW m \in {"READY", "RESUMED"},
           NEW sent, OnMessage(x, m, sent)
    PROVE  /\ UNCHANGED <<io, shard, errors>> /\ con' = [con EXCEPT ![x] = sent]
           /\ pool' = pool \cup {[name |-> m, shard |-> con[x].owner,
                                   torn |-> FALSE]}
  <1>1. shard[con[x].owner].zlib
    BY MessageFacts
  <1> QED BY ZenonT(30), <1>1 DEF OnMessage

LEMMA CutStep ==
    ASSUME TypeOK, Steady, io = "running", NEW x \in Conns,
           NEW m \in {"corrupt", "op7"}, OnMessage(x, m, con[x])
    PROVE  /\ Steady'
           /\ UNCHANGED <<io, errors, status, shardsToConnect, connectingShard>>
           /\ \A c \in Conns : Kept(c)
  <1>1. PICK s \in Shards : s = con[x].owner
    BY MessageFacts
  <1>2. /\ con[x].ws = "open" /\ shard[s].connection = x /\ x # NoConn
        /\ UNCHANGED <<status, shardsToConnect, connectingShard, connectTime,
                       strand>>
    BY <1>1, MessageFacts
  <1>3. PICK to \in {"reconnecting", "closing"} :
           Close(con[x].owner, to, [con EXCEPT ![x] = con[x]])
    BY MessageCuts
  <1>4. UNCHANGED <<io, pool, errors>>
    BY MessageCuts
  <1>5. Close(s, to, con)
    <2>1. [con EXCEPT ![x] = con[x]] = con
      BY DEF TypeOK
    <2> QED BY <1>1, <1>3, <2>1
  <1>6. /\ con' = [con EXCEPT ![x].ws = "closing"]
        /\ shard' = [shard EXCEPT ![s] = CloseShard(@, to)]
    BY <1>2, <1>5 DEF Close, CloseConn
  <1>7. /\ con'[x].ws = "closing" /\ con'[x].link = con[x].link
        /\ con'[x].owner = con[x].owner
        /\ \A c \in Conns \ {x} : con'[c] = con[c]
    BY <1>6 DEF TypeOK, ConnState
  <1>8. CloseShard(shard[s], to) = [shard[s] EXCEPT !.state = to]
    BY <1>2 DEF CloseShard, RawOpen, TypeOK, ShardState
  <1>9. /\ \A y \in Shards \ {s} : shard'[y] = shard[y]
        /\ shard'[s].connection = x /\ shard'[s].zlib
        /\ shard'[s].delayedAuth = shard[s].delayedAuth
        /\ shard'[s].state # "shutdown"
    BY <1>1, <1>2, <1>6, <1>8, MessageFacts DEF TypeOK, ShardState
  <1>10. Steady'
    BY <1>1, <1>2, <1>4, <1>7, <1>9, CutKeeps
  <1>11. \A c \in Conns : Kept(c)
    BY <1>2, <1>7 DEF Kept, Attempt, Dialling, Live, Unanswered
  <1> QED BY <1>2, <1>4, <1>10, <1>11

\* A hello or an acknowledgement changes nothing the invariant speaks of.
LEMMA BeatStep ==
    ASSUME TypeOK, Steady, io = "running", NEW x \in Conns,
           NEW m \in {"op10", "op11"}, NEW sent, OnMessage(x, m, sent),
           sent.ws = con[x].ws, sent.owner = con[x].owner, sent.link = con[x].link
    PROVE  /\ Steady'
           /\ UNCHANGED <<io, errors, status, shardsToConnect, connectingShard>>
           /\ \A c \in Conns : Kept(c)
  <1>1. UNCHANGED <<status, shardsToConnect, connectingShard, connectTime, strand>>
    BY MessageFacts
  <1>2. /\ UNCHANGED <<io, pool, errors>> /\ con' = [con EXCEPT ![x] = sent]
        /\ \A y \in Shards : /\ shard'[y].connection = shard[y].connection
                             /\ shard'[y].zlib = shard[y].zlib
                             /\ shard'[y].delayedAuth = shard[y].delayedAuth
                             /\ shard'[y].state = shard[y].state
    BY MessageBeats
  <1>3. \A c \in Conns : /\ con'[c].ws = con[c].ws
                         /\ con'[c].owner = con[c].owner
                         /\ con'[c].link = con[c].link
    BY <1>2 DEF TypeOK, ConnState
  <1>4. \A c \in Conns : Kept(c)
    BY <1>3 DEF Kept, Attempt, Dialling, Live, Unanswered
  <1> QED BY <1>1, <1>2, <1>3, <1>4, StillStep

LEMMA MessageStep ==
    ASSUME TypeOK, Steady, io = "running", Punctual, NEW x \in Conns,
           \/ Hello(x) \/ Answer(x) \/ Ack(x) \/ InvalidSession(x)
           \/ ReconnectRequest(x) \/ CorruptPayload(x)
    PROVE  /\ Steady'
           /\ UNCHANGED <<io, errors, status, shardsToConnect, connectingShard>>
           /\ \/ \A c \in Conns : Kept(c)
              \/ /\ con[x].ws = "open" /\ Unanswered(x)
                 /\ con'[x].ws = "open" /\ con'[x].link = "ready"
                 /\ con'[x].owner = con[x].owner
                 /\ \A c \in Conns \ {x} : con'[c] = con[c]
  <1> DEFINE s == con[x].owner
  <1>1. CASE ReconnectRequest(x) \/ CorruptPayload(x)
    BY <1>1, CutStep DEF ReconnectRequest, CorruptPayload
  <1>2. CASE Answer(x)
    <2>1. PICK m \in {"READY", "RESUMED"} :
             OnMessage(x, m, [con[x] EXCEPT !.link = "ready"])
      BY <1>2 DEF Answer
    <2> DEFINE e == [name |-> m, shard |-> s, torn |-> FALSE]
    <2>2. /\ con[x].ws = "open" /\ s \in Shards
          /\ shard[s].delayedAuth => con[x].link = "none"
          /\ UNCHANGED <<status, io, shardsToConnect, connectingShard, connectTime,
                         strand, shard, errors>>
          /\ con' = [con EXCEPT ![x] = [con[x] EXCEPT !.link = "ready"]]
          /\ pool' = pool \cup {e}
      BY <2>1, MessageFacts, MessageAnswers
    <2>3. /\ con'[x].ws = "open" /\ con'[x].link = "ready"
          /\ con'[x].owner = s /\ \A c \in Conns \ {x} : con'[c] = con[c]
      BY <2>2 DEF TypeOK, ConnState
    <2>4. Unanswered(x) /\ ~shard[s].delayedAuth
      BY <1>2, <2>2 DEF Answer, Unanswered
    <2>5. e.shard = s /\ ~e.torn
      OBVIOUS
    <2> HIDE DEF e
    <2>6. Steady'
      BY <2>2, <2>3, <2>4, <2>5, AnswerKeeps
    <2> QED BY <2>2, <2>3, <2>4, <2>6
  <1>3. CASE InvalidSession(x)
    <2>1. OnMessage(x, "op9", [con[x] EXCEPT !.link = "none"]) /\ Unanswered(x)
      BY <1>3 DEF InvalidSession, Punctual, Unanswered
    <2>2. /\ con[x].ws = "open" /\ s \in Shards
          /\ UNCHANGED <<status, io, shardsToConnect, connectingShard, connectTime,
                         strand, pool, errors>>
          /\ con' = [con EXCEPT ![x] = [con[x] EXCEPT !.link = "none"]]
          /\ shard' = [shard EXCEPT ![s].session = FALSE,
                                    ![s].delayedAuth = TRUE]
      BY <2>1, MessageFacts, MessageInvalidates
    <2>3. /\ con'[x].ws = "open" /\ con'[x].link = "none"
          /\ con'[x].owner = s /\ \A c \in Conns \ {x} : con'[c] = con[c]
      BY <2>2 DEF TypeOK, ConnState
    <2>4. \A y \in Shards : /\ shard'[y].connection = shard[y].connection
                            /\ shard'[y].zlib = shard[y].zlib
                            /\ y # s => shard'[y].delayedAuth = shard[y].delayedAuth
                            /\ shard'[y].state = shard[y].state
      BY ZenonT(40), <2>2 DEF TypeOK, ShardState
    <2>5. Steady'
      BY <2>1, <2>2, <2>3, <2>4, InvalidKeeps
    <2>6. \A c \in Conns : Kept(c)
      BY <2>1, <2>2, <2>3 DEF Kept, Attempt, Dialling, Live, Unanswered
    <2> QED BY <2>2, <2>5, <2>6
  <1>4. CASE Hello(x)
    <2> DEFINE sent == [con[x] EXCEPT !.greeted = TRUE]
    <2>1. /\ sent.ws = con[x].ws /\ sent.owner = con[x].owner
          /\ sent.link = con[x].link
      BY DEF TypeOK, ConnState
    <2>2. OnMessage(x, "op10", sent)
      BY <1>4 DEF Hello
    <2> HIDE DEF sent
    <2> QED BY <2>1, <2>2, BeatStep
  <1>5. CASE Ack(x)
    BY <1>5, BeatStep DEF Ack
  <1> QED BY <1>1, <1>2, <1>3, <1>4, <1>5

\* Another IDENTIFY leaves on a socket that knows of none.
LEMMA IdentifyKeeps ==
    ASSUME TypeOK, Steady, io = "running", NEW x \in Conns, NEW s \in Shards,
           UNCHANGED <<status, io, shardsToConnect, connectingShard, connectTime,
                       strand, pool>>,
           shard[s].connection = x, shard[s].delayedAuth,
           \A c \in Conns \ {x} : con'[c] = con[c],
           con'[x].ws = con[x].ws, con'[x].owner = con[x].owner,
           \/ con'[x].link = con[x].link
           \/ con[x].ws = "open" /\ con'[x].link = "identify",
           \A y \in Shards \ {s} : shard'[y] = shard[y],
           shard'[s].connection = x, shard'[s].zlib = shard[s].zlib,
           ~shard'[s].delayedAuth, shard'[s].state = shard[s].state
    PROVE  Steady'
  <1> USE Fields DEF Steady, Dialling, Live, Unanswered, Attempt, Ended
  <1>1. Queued' = Queued /\ DialTasks' = DialTasks
    BY DEF Queued, DialTasks
  <1>2. con[x].ws = "open" => con[x].link = "none"
    BY DEF ConnectionInv, LiveInv
  <1> USE <1>1, <1>2
  <1>3. StrandInv'
    BY SameResets DEF StrandInv
  <1>4. ConnectionInv'
    BY DEF ConnectionInv
  <1>5. AttemptInv'
    BY DEF AttemptInv
  <1>6. LiveInv'
    BY DEF LiveInv, ConnectionInv
  <1>7. QueueInv'
    BY DEF QueueInv, ResetPending
  <1>8. EventInv'
    BY DEF EventInv, ResetPending
  <1>9. ClockInv'
    BY DEF ClockInv
  <1>10. NeverLost'
    BY DEF NeverLost, Running
  <1> QED BY <1>3, <1>4, <1>5, <1>6, <1>7, <1>8, <1>9, <1>10

LEMMA DelayedAuthStep ==
    ASSUME TypeOK, Steady, io = "running", NEW s \in Shards, DelayedAuth(s)
    PROVE  /\ Steady' /\ UNCHANGED <<io, errors, status, connectingShard>>
           /\ \A c \in Conns : Kept(c)
  <1>1. shard[s].delayedAuth /\ shard[s].connection # NoConn
    BY DEF DelayedAuth, Steady, ConnectionInv
  <1>2. PICK x \in Conns : x = shard[s].connection
    BY <1>1, Fields
  <1>3. /\ UNCHANGED <<status, io, shardsToConnect, connectingShard, connectTime,
                      strand, pool, errors>>
        /\ shard' = [shard EXCEPT ![s] = [@ EXCEPT !.delayedAuth = FALSE]]
        /\ \/ con' = con
           \/ con[x].ws = "open" /\ con' = [con EXCEPT ![x].link = "identify"]
    BY <1>1, <1>2 DEF DelayedAuth
  <1>4. /\ \A c \in Conns \ {x} : con'[c] = con[c]
        /\ con'[x].ws = con[x].ws /\ con'[x].owner = con[x].owner
        /\ \/ con'[x].link = con[x].link
           \/ con[x].ws = "open" /\ con'[x].link = "identify"
    BY <1>3 DEF TypeOK, ConnState
  <1>5. /\ \A y \in Shards \ {s} : shard'[y] = shard[y]
        /\ shard'[s].connection = x /\ shard'[s].zlib = shard[s].zlib
        /\ ~shard'[s].delayedAuth /\ shard'[s].state = shard[s].state
    BY <1>2, <1>3 DEF TypeOK, ShardState
  <1>6. Steady'
    BY <1>1, <1>2, <1>3, <1>4, <1>5, IdentifyKeeps
  <1>7. con[x].ws = "open" => Unanswered(x)
    BY <1>1, <1>2 DEF Steady, LiveInv, ConnectionInv, Live, Unanswered
  <1>8. \A c \in Conns : Kept(c)
    BY <1>4, <1>7 DEF Kept, Attempt, Dialling, Live, Unanswered
  <1> QED BY <1>3, <1>6, <1>8

\* Every connection that is dialled has its callbacks.
LEMMA UnboundStep ==
    ASSUME TypeOK, Steady, NEW x \in Conns
    PROVE  ~Unbound(x)
  BY Fields DEF Unbound, Steady, AttemptInv, LiveInv, Attempt, Dialling, Live

-----------------------------------------------------------------------------
(* ws_status().                                                            *)

\* The loop over the shards, between punctual handlers: each ghost is left
\* with a connection that has ended and a reset on its strand.
LEMMA LoopEffect ==
    ASSUME TypeOK, Steady, \A c \in Conns : strand[c] = <<>>,
           NEW gs \in SUBSET Ghosts
    PROVE  /\ \A s \in Shards \ gs : ShardAfterLoop(gs)[s] = shard[s]
           /\ \A s \in gs :
                LET c == shard[s].connection
                    r == ShardAfterLoop(gs)[s]
                IN  /\ r.connection = c /\ r.zlib = shard[s].zlib
                    /\ r.delayedAuth = shard[s].delayedAuth /\ r.state = "closing"
                    /\ c \in Conns /\ con[c].owner = s
                    /\ con[c].ws \in {"open", "closing", "lingering"}
                    /\ s \in Shards /\ s \notin Queued
           /\ \A c \in Conns :
                \/ /\ \A s \in gs : shard[s].connection # c
                   /\ ConAfterLoop(gs)[c] = con[c]
                   /\ StrandAfterLoop(gs)[c] = <<>>
                \/ /\ con[c].owner \in gs /\ shard[con[c].owner].connection = c
                   /\ ConAfterLoop(gs)[c].ws =
                        IF con[c].ws = "open" THEN "closing" ELSE con[c].ws
                   /\ ConAfterLoop(gs)[c].owner = con[c].owner
                   /\ ConAfterLoop(gs)[c].link = con[c].link
                   /\ StrandAfterLoop(gs)[c] =
                        <<[task |-> "reset", to |-> "closing",
                           shard |-> con[c].owner]>>
  <1> USE Fields
  <1>1. ASSUME NEW s \in gs
        PROVE  LET c == shard[s].connection IN
               /\ c \in Conns /\ con[c].owner = s
               /\ con[c].ws \in {"open", "closing", "lingering"}
               /\ s \in Shards /\ s \notin Queued
    <2>1. /\ s \in Shards /\ IsConnected(s)
          /\ con[shard[s].connection].link = "dead"
      BY DEF Ghosts
    <2>2. /\ shard[s].connection # NoConn
          /\ shard[s].state \in {"preready", "online"}
          /\ RawOpen(con[shard[s].connection].ws)
      BY <2>1 DEF IsConnected
    <2>3. PICK c \in Conns : c = shard[s].connection
      BY <2>1, <2>2
    <2>4. s \notin Queued
      BY <2>1, <2>2, <2>3 DEF Steady, QueueInv, ResetPending
    <2>5. con[c].ws \notin {"init", "connecting", "stalled"}
      <3>1. con[c].ws # "stalled" /\ con[c].ws # "init"
        BY <2>2, <2>3 DEF Steady, StrandInv, RawOpen
      <3>2. con[c].ws # "connecting"
        <4>1. SUFFICES ASSUME con[c].ws = "connecting" PROVE FALSE
          OBVIOUS
        <4>2. /\ connectingShard \in Shards /\ Attempt(c)
              /\ shardsToConnect # <<>> /\ Head(shardsToConnect) = connectingShard
              /\ con[c].owner = connectingShard
          BY <4>1 DEF Steady, AttemptInv, Attempt, Dialling
        <4>3. con[c].owner = s
          BY <2>1, <2>3, <4>1 DEF Steady, ConnectionInv
        <4>4. Head(shardsToConnect) \in Queued
          BY <4>2 DEF Queued, Range, TypeOK
        <4> QED BY <2>4, <4>2, <4>3, <4>4
      <3> QED BY <3>1, <3>2
    <2>6. con[c].owner = s /\ con[c].ws \in {"open", "closing", "lingering"}
      BY <2>1, <2>2, <2>3, <2>5 DEF Steady, ConnectionInv, RawOpen
    <2> QED BY <2>1, <2>3, <2>4, <2>6
  <1>2. \A s \in Shards \ gs : ShardAfterLoop(gs)[s] = shard[s]
    BY DEF ShardAfterLoop
  <1>3. ASSUME NEW s \in gs
        PROVE  LET r == ShardAfterLoop(gs)[s]
               IN  /\ r.connection = shard[s].connection /\ r.zlib = shard[s].zlib
                   /\ r.delayedAuth = shard[s].delayedAuth /\ r.state = "closing"
    <2>1. ShardAfterLoop(gs)[s] = CloseShard(shard[s], "closing")
      BY <1>1 DEF ShardAfterLoop
    <2>2. RawOpen(con[shard[s].connection].ws)
      BY <1>1 DEF RawOpen
    <2> QED BY <1>1, <2>1, <2>2 DEF CloseShard, ShardState
  <1>4. ASSUME NEW c \in Conns, \A s \in gs : shard[s].connection # c
        PROVE  /\ ConAfterLoop(gs)[c] = con[c]
               /\ StrandAfterLoop(gs)[c] = <<>>
    BY <1>4 DEF ConAfterLoop, StrandAfterLoop
  <1>5. ASSUME NEW c \in Conns, NEW s \in gs, shard[s].connection = c
        PROVE  /\ con[c].owner \in gs /\ shard[con[c].owner].connection = c
               /\ ConAfterLoop(gs)[c].ws =
                    IF con[c].ws = "open" THEN "closing" ELSE con[c].ws
               /\ ConAfterLoop(gs)[c].owner = con[c].owner
               /\ ConAfterLoop(gs)[c].link = con[c].link
               /\ StrandAfterLoop(gs)[c] =
                    <<[task |-> "reset", to |-> "closing",
                       shard |-> con[c].owner]>>
    <2>1. /\ con[c].owner = s /\ con[c].ws \in {"open", "closing", "lingering"}
          /\ \A y \in gs : shard[y].connection = c => y = s
      BY <1>1, <1>5
    <2>2. /\ ConAfterLoop(gs)[c].ws =
               IF con[c].ws = "open" THEN "closing" ELSE con[c].ws
          /\ ConAfterLoop(gs)[c].owner = con[c].owner
          /\ ConAfterLoop(gs)[c].link = con[c].link
      BY <1>5, <2>1 DEF ConAfterLoop, ConnState
    <2>3. (CHOOSE y \in gs : shard[y].connection = c) = s
      BY <1>5, <2>1
    <2> DEFINE t == [task |-> "reset", to |-> "closing", shard |-> s]
    <2>4. StrandAfterLoop(gs)[c] = Append(strand[c], t)
      BY <1>5, <2>3 DEF StrandAfterLoop
    <2>5. Append(strand[c], t) = <<t>>
      <3> HIDE DEF t
      <3>1. strand[c] = <<>>
        OBVIOUS
      <3>2. Append(<<>>, t) = <<t>>
        OBVIOUS
      <3> QED BY <3>1, <3>2
    <2> QED BY <1>5, <2>1, <2>2, <2>4, <2>5
  <1> QED BY <1>1, <1>2, <1>3, <1>4, <1>5

\* The loop alone, or the loop and the timeout of a dial that has failed.
LEMMA LoopKeeps ==
    ASSUME TypeOK, Steady, io = "running", \A c \in Conns : strand[c] = <<>>,
           UNCHANGED <<status, io, pool>>, NEW gs,
           Queued' = Queued,
           \/ UNCHANGED <<connectingShard, connectTime, shardsToConnect>>
           \/ /\ connectingShard' = NoShard /\ ~connectTime' /\ pool = {}
              /\ \A c \in Conns : ~Attempt(c),
           \A s \in Shards :
              /\ shard'[s].zlib = shard[s].zlib
              /\ shard'[s].delayedAuth = shard[s].delayedAuth
              /\ shard'[s].state \in {shard[s].state, "closing"}
              /\ \/ shard'[s].connection = shard[s].connection
                 \/ /\ shard'[s].connection = NoConn /\ ~shard[s].zlib
                    /\ ~shard[s].delayedAuth /\ shard[s].connection \in Conns
                    /\ con[shard[s].connection].ws = "closed",
           \A c \in Conns :
              /\ con'[c].owner = con[c].owner /\ con'[c].link = con[c].link
              /\ \/ con'[c].ws = con[c].ws /\ strand'[c] = <<>>
                 \/ /\ con[c].ws \in {"open", "closing", "lingering"}
                    /\ con'[c].ws = IF con[c].ws = "open" THEN "closing"
                                                          ELSE con[c].ws
                    /\ con[c].owner \in Shards
                    /\ strand'[c] # <<>> /\ ResetsOnly(c)'
                    /\ shard[con[c].owner].connection = c
    PROVE  Steady'
  <1> USE Fields DEF Steady, Dialling, Live, Unanswered, Attempt, Ended
  <1>0. ASSUME NEW c \in Conns, strand'[c] = <<>> PROVE ResetsOnly(c)'
    BY <1>0 DEF ResetsOnly
  <1>1. DialTasks' = DialTasks \/ connectingShard' = NoShard
    BY DEF DialTasks
  <1>2. \A c \in Conns : con[c].ws # "init" /\ con'[c].ws # "init"
    BY SMTT(20) DEF StrandInv, DialTasks
  <1> USE <1>2
  <1>3. StrandInv'
    BY <1>0 DEF StrandInv
  <1>4. ConnectionInv'
    BY DEF ConnectionInv
  <1>5. AttemptInv'
    BY DEF AttemptInv
  <1>6. LiveInv'
    BY DEF LiveInv
  <1>7. QueueInv'
    BY DEF QueueInv, ResetPending
  <1>8. EventInv'
    BY DEF EventInv, ResetPending
  <1>9. ClockInv'
    <2>1. SUFFICES ASSUME connectTime', connectingShard' # NoShard,
                          NEW c \in Conns, c = shard'[connectingShard'].connection,
                          con'[c].ws \in {"lingering", "closed"}
                   PROVE  /\ shardsToConnect' # <<>>
                          /\ Head(shardsToConnect') = connectingShard'
      BY DEF ClockInv
    <2>2. /\ UNCHANGED <<connectingShard, connectTime, shardsToConnect>>
          /\ connectingShard \in Shards
      BY <2>1
    <2>3. shard[connectingShard].connection = c
      BY <2>1, <2>2
    <2>4. con[c].ws \in {"lingering", "closed"}
      BY <2>1
    <2> QED BY <2>1, <2>2, <2>3, <2>4 DEF ClockInv
  <1>10. NeverLost'
    BY DEF NeverLost, Running
  <1> QED BY <1>3, <1>4, <1>5, <1>6, <1>7, <1>8, <1>9, <1>10

\* The resets the loop posts are resets of the connection's own shard.
LEMMA LoopResets ==
    ASSUME TypeOK, NEW c \in Conns, con'[c].owner = con[c].owner,
           strand'[c] = <<[task |-> "reset", to |-> "closing",
                           shard |-> con[c].owner]>>
    PROVE  strand'[c] # <<>> /\ ResetsOnly(c)'
  <1> DEFINE t == [task |-> "reset", to |-> "closing", shard |-> con[c].owner]
  <1>1. t.task = "reset" /\ t.shard = con[c].owner /\ t.to # "shutdown"
    OBVIOUS
  <1> HIDE DEF t
  <1>2. <<t>> # <<>> /\ \A i \in 1..Len(<<t>>) : <<t>>[i] = t
    OBVIOUS
  <1>3. strand'[c] = <<t>>
    BY DEF t
  <1> QED BY <1>1, <1>2, <1>3 DEF ResetsOnly

LEMMA LoopConnection ==
    ASSUME TypeOK, Steady, \A c \in Conns : strand[c] = <<>>,
           NEW gs \in SUBSET Ghosts, NEW x \in Conns,
           con'[x] = ConAfterLoop(gs)[x], strand'[x] = StrandAfterLoop(gs)[x]
    PROVE  /\ con'[x].owner = con[x].owner /\ con'[x].link = con[x].link
           /\ \/ con'[x].ws = con[x].ws /\ strand'[x] = <<>>
              \/ /\ con[x].ws \in {"open", "closing", "lingering"}
                 /\ con'[x].ws = IF con[x].ws = "open" THEN "closing"
                                                       ELSE con[x].ws
                 /\ con[x].owner \in gs /\ con[x].owner \in Shards
                 /\ strand'[x] # <<>> /\ ResetsOnly(x)'
                 /\ shard[con[x].owner].connection = x
  <1>1. \/ con'[x] = con[x] /\ strand'[x] = <<>>
        \/ /\ con[x].owner \in gs /\ shard[con[x].owner].connection = x
           /\ con'[x].ws = IF con[x].ws = "open" THEN "closing" ELSE con[x].ws
           /\ con'[x].owner = con[x].owner /\ con'[x].link = con[x].link
           /\ strand'[x] = <<[task |-> "reset", to |-> "closing",
                              shard |-> con[x].owner]>>
    BY LoopEffect
  <1>2. CASE con'[x] = con[x] /\ strand'[x] = <<>>
    BY <1>2
  <1>3. CASE con[x].owner \in gs /\ ~(con'[x] = con[x] /\ strand'[x] = <<>>)
    <2>1. PICK s \in gs : s = con[x].owner
      BY <1>3
    <2>2. shard[s].connection = x /\ s \in Shards
      BY <1>1, <1>3, <2>1, Fields DEF Ghosts
    <2>3. con[x].ws \in {"open", "closing", "lingering"}
      BY <2>1, <2>2, LoopEffect
    <2>4. strand'[x] # <<>> /\ ResetsOnly(x)'
      BY <1>1, <1>3, LoopResets
    <2> QED BY <1>1, <1>3, <2>1, <2>2, <2>3, <2>4
  <1> QED BY <1>1, <1>2, <1>3

LEMMA LoopOnlyStep ==
    ASSUME TypeOK, Steady, io = "running", \A c \in Conns : strand[c] = <<>>,
           NEW gs \in SUBSET Ghosts, LoopOnly(gs), UNCHANGED <<status, pool>>
    PROVE  /\ Steady' /\ UNCHANGED <<io, errors, shardsToConnect, connectingShard>>
           /\ \A c \in Conns : Kept(c)
  <1> USE Fields
  <1>1. /\ UNCHANGED <<io, shardsToConnect, connectingShard, connectTime, errors>>
        /\ shard' = ShardAfterLoop(gs) /\ con' = ConAfterLoop(gs)
        /\ strand' = StrandAfterLoop(gs)
    BY DEF LoopOnly
  <1>2. Queued' = Queued
    BY <1>1 DEF Queued
  <1>3. ASSUME NEW s \in Shards
        PROVE  /\ shard'[s].zlib = shard[s].zlib
               /\ shard'[s].delayedAuth = shard[s].delayedAuth
               /\ shard'[s].state \in {shard[s].state, "closing"}
               /\ shard'[s].connection = shard[s].connection
    BY <1>1, LoopEffect
  <1>4. ASSUME NEW c \in Conns
        PROVE  /\ con'[c].owner = con[c].owner /\ con'[c].link = con[c].link
               /\ \/ con'[c].ws = con[c].ws /\ strand'[c] = <<>>
                  \/ /\ con[c].ws \in {"open", "closing", "lingering"}
                     /\ con'[c].ws = IF con[c].ws = "open" THEN "closing"
                                                           ELSE con[c].ws
                     /\ con[c].owner \in Shards
                     /\ strand'[c] # <<>> /\ ResetsOnly(c)'
                     /\ shard[con[c].owner].connection = c
    BY <1>1, LoopConnection
  <1>5. Steady'
    BY <1>1, <1>2, <1>3, <1>4, LoopKeeps
  <1>6. \A c \in Conns : Kept(c)
    BY <1>4 DEF Kept, Attempt, Dialling, Live, Unanswered
  <1> QED BY <1>1, <1>5, <1>6

\* Nothing on the list is connected when the strands are empty.
LEMMA HeadNotConnected ==
    ASSUME TypeOK, Steady, \A c \in Conns : strand[c] = <<>>, NEW s \in Queued
    PROVE  ~IsConnected(s) /\ s \in Shards /\ ~shard[s].zlib
           /\ ~shard[s].delayedAuth
  BY Fields DEF Steady, QueueInv, ResetPending, IsConnected, ConnectionInv

LEMMA TimeoutStep ==
    ASSUME TypeOK, Steady, io = "running", \A c \in Conns : strand[c] = <<>>,
           Punctual, PromptPool, DialIsHead, QueueNoDup, shardsToConnect # <<>>,
           NEW gs \in SUBSET Ghosts, ConnectTimeout(gs), UNCHANGED <<status, pool>>
    PROVE  Steady' /\ UNCHANGED <<io, errors>> /\ Queued' = Queued
           /\ \A c \in Conns : Kept(c) /\ ~Attempt(c)
  <1> USE Fields
  <1>1. connectTime /\ MayTimeOut
    BY DEF ConnectTimeout
  <1>2. PICK k \in Shards : k = connectingShard
    <2>1. "slowReady" \notin Hazards
      BY DEF Punctual
    <2>2. connectingShard # NoShard
      BY <1>1, <2>1 DEF MayTimeOut
    <2> QED BY <2>2
  <1>3. shard[k].connection \in Conns
        /\ con[shard[k].connection].ws \in {"lingering", "closed"}
    BY <1>1, <1>2 DEF MayTimeOut, Punctual
  <1>4. PICK x \in Conns : x = shard[k].connection
    BY <1>3
  <1>5. /\ shard' = [ShardAfterLoop(gs) EXCEPT ![k] = CloseShard(@, "closing")]
        /\ con' = CloseConn(ConAfterLoop(gs), x)
        /\ shardsToConnect' = QueueReconnect(Tail(shardsToConnect), k)
        /\ connectingShard' = NoShard /\ connectTime' = FALSE
        /\ UNCHANGED <<io, errors>> /\ strand' = StrandAfterLoop(gs)
    BY <1>2, <1>4 DEF ConnectTimeout, Requeue
  <1>6. Head(shardsToConnect) = k /\ k \in Queued
    <2>1. Head(shardsToConnect) = k
      BY <1>1, <1>2, <1>3 DEF Steady, ClockInv
    <2> QED BY <2>1 DEF Queued, Range, TypeOK
  <1>7. Queued' = Queued
    <2> DEFINE rest == Tail(shardsToConnect)
    <2>1. rest \in Seq(Shards) /\ Range(rest) = Queued \ {k}
      BY <1>6, Popped DEF Queued, QueueNoDup, TypeOK
    <2>2. Range(QueueReconnect(rest, k)) = Range(rest) \cup {k}
      BY <2>1, Listed
    <2> QED BY ZenonT(40), <1>5, <1>6, <2>1, <2>2 DEF Queued
  <1>8. pool = {}
    BY <1>2 DEF Steady, EventInv, PromptPool, Punctual
  <1>9. ASSUME NEW c \in Conns PROVE ~Attempt(c)
    BY <1>2, <1>3, <1>4, <1>6 DEF Steady, AttemptInv, LiveInv, Attempt, Dialling
  <1>10. con' = ConAfterLoop(gs)
    <2>1. ConAfterLoop(gs)[x].ws \in {"lingering", "closed"}
      BY <1>3, <1>4 DEF ConAfterLoop
    <2> QED BY <1>5, <2>1 DEF CloseConn
  <1>11. k \notin gs
    BY <1>6, LoopEffect
  <1>12. \A s \in Shards \ {k} : shard'[s] = ShardAfterLoop(gs)[s]
    BY <1>5 DEF ShardAfterLoop
  <1>13. shard'[k] = CloseShard(shard[k], "closing")
    BY <1>5, <1>11 DEF ShardAfterLoop
  <1>14. /\ shard'[k].zlib = shard[k].zlib
         /\ shard'[k].delayedAuth = shard[k].delayedAuth
         /\ shard'[k].state = "closing"
         /\ shard'[k].connection = IF con[x].ws = "closed" THEN NoConn ELSE x
    BY <1>3, <1>4, <1>13 DEF CloseShard, RawOpen, ShardState
  <1>15. ~shard[k].zlib /\ ~shard[k].delayedAuth
    BY <1>6, HeadNotConnected
  <1>16. ASSUME NEW s \in Shards
         PROVE  /\ shard'[s].zlib = shard[s].zlib
                /\ shard'[s].delayedAuth = shard[s].delayedAuth
                /\ shard'[s].state \in {shard[s].state, "closing"}
                /\ \/ shard'[s].connection = shard[s].connection
                   \/ /\ shard'[s].connection = NoConn /\ ~shard[s].zlib
                      /\ ~shard[s].delayedAuth /\ shard[s].connection \in Conns
                      /\ con[shard[s].connection].ws = "closed"
    <2>1. CASE s = k
      BY <1>4, <1>14, <1>15, <2>1
    <2>2. CASE s # k
      BY <1>12, <2>2, LoopEffect
    <2> QED BY <2>1, <2>2
  <1>17. ASSUME NEW c \in Conns
         PROVE  /\ con'[c].owner = con[c].owner /\ con'[c].link = con[c].link
                /\ \/ con'[c].ws = con[c].ws /\ strand'[c] = <<>>
                   \/ /\ con[c].ws \in {"open", "closing", "lingering"}
                      /\ con'[c].ws = IF con[c].ws = "open" THEN "closing"
                                                            ELSE con[c].ws
                      /\ con[c].owner \in Shards
                      /\ strand'[c] # <<>> /\ ResetsOnly(c)'
                      /\ shard[con[c].owner].connection = c
    BY <1>5, <1>10, LoopConnection
  <1>18. Steady'
    BY <1>5, <1>7, <1>8, <1>9, <1>16, <1>17, LoopKeeps
  <1>19. \A c \in Conns : Kept(c)
    BY <1>17 DEF Kept, Attempt, Dialling, Live, Unanswered
  <1> QED BY <1>5, <1>7, <1>9, <1>18, <1>19


\* A dial begins for k, the head of the list, on x, which nothing refers to.
DialBegins(k, x) ==
    /\ UNCHANGED <<status, io, pool, shardsToConnect>>
    /\ shardsToConnect # <<>> /\ k = Head(shardsToConnect)
    /\ ~connectTime /\ connectTime' /\ connectingShard' = k
    /\ con[x].ws \in {"none", "lingering", "closed"}
    /\ \A s \in Shards : shard[s].connection # x
    /\ shard'[k].connection = x /\ shard'[k].zlib = shard[k].zlib
    /\ shard'[k].delayedAuth = shard[k].delayedAuth
    /\ shard'[k].state = "reconnecting"
    /\ con'[x].ws = "init" /\ con'[x].owner = NoShard /\ con'[x].link = "none"
    /\ strand'[x] \in DialTasks' /\ Head(strand'[x]).task = "connect"
    /\ \A s \in Shards \ {k} :
          /\ shard'[s].zlib = shard[s].zlib
          /\ shard'[s].delayedAuth = shard[s].delayedAuth
          /\ shard'[s].state \in {shard[s].state, "closing"}
          /\ shard'[s].connection = shard[s].connection
    /\ \A c \in Conns \ {x} :
          /\ con'[c].owner = con[c].owner /\ con'[c].link = con[c].link
          /\ \/ con'[c].ws = con[c].ws /\ strand'[c] = <<>>
             \/ /\ con[c].ws \in {"open", "closing", "lingering"}
                /\ con'[c].ws = IF con[c].ws = "open" THEN "closing"
                                                      ELSE con[c].ws
                /\ con[c].owner \in Shards \ {k}
                /\ strand'[c] # <<>> /\ ResetsOnly(c)'
                /\ shard[con[c].owner].connection = c

LEMMA DialNextKeeps ==
    ASSUME TypeOK, Steady, io = "running", \A c \in Conns : strand[c] = <<>>,
           NEW k \in Queued, NEW x \in Conns, DialBegins(k, x)
    PROVE  Steady'
  <1> USE Fields DEF DialBegins, Steady, Dialling, Live, Unanswered, Attempt, Ended
  <1>0. ASSUME NEW c \in Conns, strand'[c] = <<>> PROVE ResetsOnly(c)'
    BY <1>0 DEF ResetsOnly
  <1>1. Queued' = Queued
    BY DEF Queued
  <1>2. /\ \A c \in Conns : con[c].ws # "init"
        /\ pool = {} /\ \A c \in Conns : ~Attempt(c)
    BY DEF StrandInv, DialTasks, AttemptInv, EventInv
  <1>3. ~shard[k].zlib /\ ~shard[k].delayedAuth
    BY HeadNotConnected
  <1> USE <1>1, <1>2, <1>3
  <1>4. StrandInv'
    <2>1. ASSUME NEW c \in Conns \ {x}, Ended(c)', strand'[c] # <<>>
          PROVE  shard'[con'[c].owner].connection \in {c, NoConn}
      BY <2>1
    <2>2. ASSUME NEW c \in Conns, c # x, Ended(c)'
          PROVE  con'[c].owner # NoShard /\ ResetsOnly(c)'
      BY <1>0, <2>2 DEF StrandInv
    <2>3. ASSUME NEW c \in Conns, c # x
          PROVE  /\ con'[c].ws \notin {"init", "stalled"}
                 /\ con'[c].ws \notin {"closing", "lingering"} => strand'[c] = <<>>
      BY <2>3 DEF StrandInv
    <2>4. con'[x].ws = "init" /\ strand'[x] \in DialTasks'
      OBVIOUS
    <2> QED BY <2>1, <2>2, <2>3, <2>4 DEF StrandInv
  <1>5. ConnectionInv'
    BY DEF ConnectionInv
  <1>6. AttemptInv'
    BY DEF AttemptInv
  <1>7. LiveInv'
    BY DEF LiveInv
  <1>8. QueueInv'
    BY DEF QueueInv, ResetPending
  <1>9. EventInv'
    BY DEF EventInv
  <1>10. ClockInv'
    BY DEF ClockInv
  <1>11. NeverLost'
    BY DEF NeverLost, Running
  <1> QED BY <1>4, <1>5, <1>6, <1>7, <1>8, <1>9, <1>10, <1>11

LEMMA DialNextStep ==
    ASSUME TypeOK, Steady, io = "running", \A c \in Conns : strand[c] = <<>>,
           shardsToConnect # <<>>,
           NEW gs \in SUBSET Ghosts, DialNext(gs), UNCHANGED <<status, pool>>
    PROVE  /\ Steady' /\ UNCHANGED <<io, errors, shardsToConnect>>
           /\ \E k \in Queued, x \in Conns : DialBegins(k, x)
  <1> USE Fields
  <1>1. PICK k \in Queued : k = Head(shardsToConnect)
    BY DEF Queued, Range, TypeOK
  <1>2. k \notin gs /\ k \in Shards
    BY <1>1, LoopEffect
  <1>3. /\ ~connectTime
        /\ UNCHANGED <<io, shardsToConnect, errors>>
        /\ \E c \in Conns :
             /\ Free(c)
             /\ connectingShard' = k
             /\ connectTime' = TRUE
             /\ shard' = [ShardAfterLoop(gs) EXCEPT ![k].connection = c,
                                                    ![k].state = "reconnecting"]
             /\ con' = [ConAfterLoop(gs) EXCEPT
                          ![c] = [ws |-> "init", owner |-> NoShard,
                                  link |-> "none", greeted |-> FALSE]]
             /\ strand' = [StrandAfterLoop(gs) EXCEPT
                             ![c] = <<[task |-> "connect", shard |-> k]>>]
    BY <1>1 DEF DialNext
  <1>4. PICK x \in Conns :
             /\ Free(x)
             /\ connectingShard' = k
             /\ connectTime' = TRUE
             /\ shard' = [ShardAfterLoop(gs) EXCEPT ![k].connection = x,
                                                    ![k].state = "reconnecting"]
             /\ con' = [ConAfterLoop(gs) EXCEPT
                          ![x] = [ws |-> "init", owner |-> NoShard,
                                  link |-> "none", greeted |-> FALSE]]
             /\ strand' = [StrandAfterLoop(gs) EXCEPT
                             ![x] = <<[task |-> "connect", shard |-> k]>>]
    BY <1>3
  <1>5. /\ con[x].ws \in {"none", "lingering", "closed"}
        /\ \A s \in Shards : shard[s].connection # x
    BY <1>4 DEF Free
  <1>6. /\ shard'[k].connection = x /\ shard'[k].zlib = shard[k].zlib
        /\ shard'[k].delayedAuth = shard[k].delayedAuth
        /\ shard'[k].state = "reconnecting"
        /\ \A s \in Shards \ {k} : shard'[s] = ShardAfterLoop(gs)[s]
    BY ZenonT(40), <1>2, <1>4 DEF ShardAfterLoop, ShardState
  <1>7. /\ con'[x].ws = "init" /\ con'[x].owner = NoShard
        /\ con'[x].link = "none"
        /\ \A c \in Conns \ {x} : con'[c] = ConAfterLoop(gs)[c]
    BY <1>4 DEF ConAfterLoop
  <1>8. /\ strand'[x] = <<[task |-> "connect", shard |-> k]>>
        /\ \A c \in Conns \ {x} : strand'[c] = StrandAfterLoop(gs)[c]
    BY <1>4 DEF StrandAfterLoop
  <1>9. Head(strand'[x]).task = "connect"
    <2> DEFINE t == [task |-> "connect", shard |-> k]
    <2>1. t.task = "connect"
      OBVIOUS
    <2> HIDE DEF t
    <2>2. Head(<<t>>) = t
      OBVIOUS
    <2>3. strand'[x] = <<t>>
      BY <1>8 DEF t
    <2> QED BY <2>1, <2>2, <2>3
  <1>10. ASSUME NEW s \in Shards \ {k}
         PROVE  /\ shard'[s].zlib = shard[s].zlib
                /\ shard'[s].delayedAuth = shard[s].delayedAuth
                /\ shard'[s].state \in {shard[s].state, "closing"}
                /\ shard'[s].connection = shard[s].connection
    BY <1>6, LoopEffect
  <1>11. ASSUME NEW c \in Conns \ {x}
         PROVE  /\ con'[c].owner = con[c].owner /\ con'[c].link = con[c].link
                /\ \/ con'[c].ws = con[c].ws /\ strand'[c] = <<>>
                   \/ /\ con[c].ws \in {"open", "closing", "lingering"}
                      /\ con'[c].ws = IF con[c].ws = "open" THEN "closing"
                                                            ELSE con[c].ws
                      /\ con[c].owner \in Shards \ {k}
                      /\ strand'[c] # <<>> /\ ResetsOnly(c)'
                      /\ shard[con[c].owner].connection = c
    BY <1>2, <1>7, <1>8, LoopConnection
  <1>12. Steady' /\ DialBegins(k, x)
    <2>1. strand'[x] \in DialTasks'
      BY <1>4, <1>8 DEF DialTasks
    <2>2. /\ UNCHANGED <<status, io, pool, shardsToConnect>>
          /\ connectingShard' = k /\ connectTime'
      BY <1>3, <1>4
    <2>3. DialBegins(k, x)
      BY <1>1, <1>3, <1>5, <1>6, <1>7, <1>9, <1>10, <1>11, <2>1, <2>2 DEF DialBegins
    <2> QED BY <2>3, DialNextKeeps
  <1> QED BY <1>3, <1>12

LEMMA WsStatusStep ==
    ASSUME TypeOK, Steady, io = "running", Punctual, DialIsHead, QueueNoDup,
           WsStatus
    PROVE  /\ Steady' /\ UNCHANGED <<io, errors, status>> /\ Queued' = Queued
           /\ \/ /\ \A c \in Conns : Kept(c)
                 /\ \/ connectingShard' = connectingShard
                    \/ \A c \in Conns : ~Attempt(c)
              \/ \E k \in Queued, x \in Conns : DialBegins(k, x)
  <1>1. /\ \A c \in Conns : strand[c] = <<>>
        /\ PromptPool /\ UNCHANGED <<status, pool>>
    BY DEF WsStatus, PromptStrands, Punctual
  <1>2. PICK gs \in SUBSET Ghosts :
           \/ LoopOnly(gs)
           \/ /\ shardsToConnect # <<>>
              /\ ConnectTimeout(gs) \/ DialNext(gs) \/ PopConnected(gs)
    BY DEF WsStatus
  <1>3. CASE LoopOnly(gs)
    BY <1>1, <1>3, LoopOnlyStep DEF Queued
  <1>4. CASE shardsToConnect # <<>> /\ ConnectTimeout(gs)
    BY <1>1, <1>4, TimeoutStep
  <1>5. CASE shardsToConnect # <<>> /\ DialNext(gs)
    BY <1>1, <1>5, DialNextStep DEF Queued
  <1>6. CASE shardsToConnect # <<>> /\ PopConnected(gs)
    <2>1. Head(shardsToConnect) \in Queued
      BY <1>6 DEF Queued, Range, TypeOK
    <2> QED BY <1>1, <1>6, <2>1, HeadNotConnected DEF PopConnected
  <1> QED BY <1>2, <1>3, <1>4, <1>5, <1>6

-----------------------------------------------------------------------------
(* The invariant.                                                          *)

LEMMA ConnectionStep ==
    ASSUME TypeOK, Steady, QueueNoDup, io = "running", Punctual,
           NEW x \in Conns, Connection(x)
    PROVE  Steady' /\ UNCHANGED <<io, errors>>
  <1>1. CASE RunStrand(x)
    BY <1>1, RunStrandStep
  <1>2. CASE OnConnect(x)
    BY <1>2, OnConnectStep
  <1>3. CASE Unbound(x)
    BY <1>3, UnboundStep
  <1>4. CASE DialFails(x)
    BY <1>4, DialFailsStep DEF DialFails
  <1>5. CASE OnClose(x)
    BY <1>5, OnCloseStep
  <1>6. CASE \/ Hello(x) \/ Answer(x) \/ Ack(x) \/ InvalidSession(x)
             \/ ReconnectRequest(x) \/ CorruptPayload(x)
    BY <1>6, MessageStep
  <1>7. CASE LinkDies(x)
    BY <1>7, LinkDiesStep DEF LinkDies
  <1> QED BY <1>1, <1>2, <1>3, <1>4, <1>5, <1>6, <1>7 DEF Connection

LEMMA PoolStep ==
    ASSUME TypeOK, Steady, io = "running", RunPool
    PROVE  Steady' /\ UNCHANGED <<io, errors>>
  <1>1. UNCHANGED <<status, io, shardsToConnect, con, strand, faults, errors>>
    BY DEF RunPool
  <1>2. PICK e \in pool : HandleEvent(e) \/ TearEvent(e)
    BY DEF RunPool
  <1>3. CASE HandleEvent(e)
    BY <1>1, <1>3, HandleStep
  <1>4. CASE TearEvent(e)
    <2>1. status = "running"
      BY <1>4 DEF TearEvent
    <2> QED BY <1>1, <1>4, <2>1, TearStep
  <1> QED BY <1>2, <1>3, <1>4

LEMMA InitSteady == Init => SteadyInv
  <1> SUFFICES ASSUME Init PROVE SteadyInv
    OBVIOUS
  <1> USE DEF Init, Dialling, Live, Unanswered, Attempt, Ended
  <1>1. Queued = Shards
    BY ShardMgrAssumption DEF Queued
  <1>2. StrandInv
    BY DEF StrandInv
  <1>3. ConnectionInv
    BY ShardMgrAssumption DEF ConnectionInv
  <1>4. AttemptInv /\ LiveInv
    BY DEF AttemptInv, LiveInv
  <1>5. QueueInv
    BY <1>1 DEF QueueInv
  <1>6. EventInv /\ ClockInv
    BY DEF EventInv, ClockInv
  <1>7. NeverLost
    BY <1>1 DEF NeverLost
  <1>8. DialIsHead
    BY DEF DialIsHead
  <1> QED BY <1>2, <1>3, <1>4, <1>5, <1>6, <1>7, <1>8 DEF SteadyInv, Steady

LEMMA SteadyStep ==
    ASSUME Punctual, TypeOK, TypeOK', QueueNoDup, SteadyInv, [Next]_vars
    PROVE  SteadyInv'
  <1>1. CASE UNCHANGED vars
    BY <1>1 DEF vars, SteadyInv, DialIsHead, Steady, StrandInv, ConnectionInv,
                AttemptInv, LiveInv, QueueInv, EventInv, ClockInv, NeverLost,
                Dialling, Live, Unanswered, Attempt, Ended, ResetPending,
                ResetsOnly, DialTasks, Queued, Running
  <1>2. CASE io = "running" /\ ShutdownStop
    <2>1. /\ io' = "stopped"
          /\ UNCHANGED <<shardsToConnect, connectingShard, con, errors>>
          /\ \A s \in Shards : \/ shard[s].connection = NoConn
                               \/ shard'[s] = shard[s]
      BY <1>2 DEF ShutdownStop
    <2>2. DialIsHead'
      BY <2>1, Fields DEF SteadyInv, DialIsHead
    <2> QED BY <2>1, <2>2 DEF SteadyInv
  <1>3. CASE io = "running" /\ ~ShutdownStop /\ Next /\ ~Terminated
    <2>1. Steady /\ DialIsHead /\ errors = {}
      BY <1>3 DEF SteadyInv
    <2>2. ASSUME NEW s \in Shards, KeepAlive(s) \/ DelayedAuth(s)
          PROVE  Steady' /\ UNCHANGED <<io, errors>>
      BY <1>3, <2>1, <2>2, KeepAliveStep, DelayedAuthStep DEF KeepAlive
    <2>3. ASSUME ShutdownBegin PROVE Steady' /\ UNCHANGED <<io, errors>>
      BY <1>3, <2>1, <2>3, ShutdownBeginStep DEF ShutdownBegin
    <2>4. Steady' /\ UNCHANGED <<io, errors>>
      BY <1>3, <2>1, <2>2, <2>3, WsStatusStep, ConnectionStep, PoolStep DEF Next
    <2>5. DialIsHead'
      BY <2>4 DEF Steady, AttemptInv, Attempt, Dialling, DialIsHead
    <2> QED BY <2>1, <2>4, <2>5 DEF SteadyInv
  <1> QED BY <1>1, <1>2, <1>3 DEF Next, Terminated

\* The invariant holds throughout, for any number of shards, connections and
\* faults, if the handlers are punctual: it is inductive together with the
\* types and the absence of duplicates on the list.
THEOREM SteadyThroughout == ASSUME Punctual PROVE Spec => []SteadyInv
  <1>1. Init => SteadyInv
    BY InitSteady
  <1>2. TypeOK /\ TypeOK' /\ QueueNoDup /\ SteadyInv /\ [Next]_vars => SteadyInv'
    BY SteadyStep
  <1> QED BY <1>1, <1>2, TypeCorrect, ListHasNoDuplicates, PTL DEF Spec

\* No shard of a running bot is forgotten: each is on the connect list or has a
\* socket whose close handler queues it (_on_close, queue_reconnect).
THEOREM NoShardLost == ASSUME Punctual PROVE Spec => []NeverLost
  <1>1. SteadyInv => NeverLost
    BY DEF SteadyInv, Steady, NeverLost, Running
  <1> QED BY <1>1, SteadyThroughout, PTL

\* The socket being dialled is that of the head of the list, so that what
\* _on_connect pops is the shard that opened.
THEOREM DialsTheHead == ASSUME Punctual PROVE Spec => []DialIsHead
  <1>1. SteadyInv => DialIsHead
    BY DEF SteadyInv
  <1> QED BY <1>1, SteadyThroughout, PTL

\* No handler dereferences a null connection or shard, dials a connection
\* twice, or finds the zlib context of an earlier connection.
THEOREM NoNullPointer == ASSUME Punctual PROVE Spec => []NoRuntimeError
  <1>1. SteadyInv => NoRuntimeError
    BY DEF SteadyInv, NoRuntimeError
  <1> QED BY <1>1, SteadyThroughout, PTL

\* An open socket is the connection of the shard it reports to, which has an
\* inflate context for it.
THEOREM OpenSocketOwned == ASSUME Punctual PROVE Spec => []OpenIsOwned
  <1>1. SteadyInv => OpenIsOwned
    BY DEF SteadyInv, Steady, LiveInv, Live, OpenIsOwned, Running
  <1> QED BY <1>1, SteadyThroughout, PTL

Left ==
    \A s \in Queued \ Range(shardsToConnect') :
        \E c \in Conns : con'[c].owner = s /\ con'[c].ws = "open"

LEMMA LeftStep ==
    ASSUME Punctual, TypeOK, QueueNoDup, SteadyInv, [Next]_vars
    PROVE  Left
  <1>1. CASE Queued' = Queued \/ Queued \subseteq Queued'
    BY <1>1 DEF Queued, Left
  <1>2. CASE io = "running" /\ \E c \in Conns : OnConnect(c)
    <2>1. PICK x \in Conns : OnConnect(x)
      BY <1>2
    <2>2. Steady
      BY <1>2 DEF SteadyInv
    <2>3. /\ con[x].owner = Head(shardsToConnect) /\ shardsToConnect # <<>>
          /\ shardsToConnect' = Tail(shardsToConnect)
          /\ con'[x].owner = con[x].owner /\ con'[x].ws = "open"
      BY <1>2, <2>1, <2>2, OnConnectStep
    <2>4. Range(Tail(shardsToConnect)) = Queued \ {Head(shardsToConnect)}
      BY <2>3, Popped DEF TypeOK, QueueNoDup, Queued
    <2>5. \A s \in Queued \ Range(shardsToConnect') : s = con'[x].owner
      BY <2>3, <2>4
    <2> QED BY <2>3, <2>5 DEF Left
  <1>3. CASE io = "running" /\ Next /\ ~(\E c \in Conns : OnConnect(c))
    <2>1. Steady /\ DialIsHead
      BY <1>3 DEF SteadyInv
    <2>2. CASE WsStatus
      BY <1>1, <1>3, <2>1, <2>2, WsStatusStep
    <2>3. ASSUME NEW c \in Conns, OnClose(c) PROVE Queued \subseteq Queued'
      BY <1>3, <2>1, <2>3, OnCloseStep
    <2>4. CASE shardsToConnect' = shardsToConnect
      BY <1>1, <2>4 DEF Queued
    <2>5. CASE \/ RunPool \/ ShutdownBegin \/ ShutdownStop
               \/ \E s \in Shards : KeepAlive(s) \/ DelayedAuth(s)
      BY <2>4, <2>5 DEF RunPool, ShutdownBegin, ShutdownStop, KeepAlive, DelayedAuth
    <2> QED BY <1>1, <1>3, <2>2, <2>3, <2>4, <2>5, QuietStep
            DEF Next, Connection, Terminated
  <1>4. CASE UNCHANGED vars
    BY <1>1, <1>4 DEF vars, Queued
  <1> QED BY <1>2, <1>3, <1>4 DEF Next, Terminated

\* A shard comes off the connect list only as its own socket opens: neither a
\* timeout nor the open of another shard drops it.
THEOREM LeavesOnOpen == ASSUME Punctual PROVE Spec => LeavesListOnOpen
  <1>1. TypeOK /\ QueueNoDup /\ SteadyInv /\ [Next]_vars => [Left]_vars
    BY LeftStep
  <1> QED BY <1>1, SteadyThroughout, TypeCorrect, ListHasNoDuplicates, PTL
          DEF Spec, LeavesListOnOpen, Left

-----------------------------------------------------------------------------
(* The phase of a shard, as the invariant lets it be read: only the        *)
(* connecting shard attempts, and a live socket is its owner's.            *)

Attempting == \E c \in Conns : Attempt(c)

HasLive(s) == \E c \in Conns : Live(c) /\ con[c].owner = s

PhaseOf(s) ==
    IF Attempting /\ s = connectingShard THEN "attempt"
    ELSE IF HasLive(s) THEN "up" ELSE "down"

PhaseInv == io = "running" => \A s \in Shards : Phase(s) = PhaseOf(s)

LEMMA PhaseRead == TypeOK /\ SteadyInv => PhaseInv
  <1> SUFFICES ASSUME TypeOK, SteadyInv, io = "running", NEW s \in Shards
               PROVE  Phase(s) = PhaseOf(s)
    BY DEF PhaseInv
  <1> USE Fields
  <1>1. Steady
    BY DEF SteadyInv
  <1>2. ASSUME NEW c \in Conns, Live(c)
        PROVE  Of(s, c) <=> con[c].owner = s
    BY <1>1, <1>2 DEF Steady, ConnectionInv, Live, Of
  <1>3. ASSUME NEW c \in Conns, Attempt(c)
        PROVE  Of(s, c) <=> s = connectingShard
    <2>1. CASE Live(c)
      <3>1. con[c].owner = connectingShard
        BY <1>1, <1>3, <2>1 DEF Steady, AttemptInv, LiveInv
      <3> QED BY <1>2, <2>1, <3>1
    <2>2. CASE Dialling(c)
      BY <1>1, <1>3, <2>2 DEF Steady, AttemptInv, ConnectionInv, Of
    <2> QED BY <1>3, <2>1, <2>2 DEF Attempt
  <1>4. Phase(s) = IF \E c \in Conns : Of(s, c) /\ Attempt(c) THEN "attempt"
                   ELSE IF \E c \in Conns : Of(s, c) /\ Live(c) THEN "up"
                   ELSE "down"
    BY DEF Phase, Attempt, Dialling, Live, Unanswered
  <1>5. (\E c \in Conns : Of(s, c) /\ Attempt(c))
           <=> Attempting /\ s = connectingShard
    BY <1>3 DEF Attempting
  <1>6. (\E c \in Conns : Of(s, c) /\ Live(c)) <=> HasLive(s)
    BY <1>2 DEF HasLive
  <1> QED BY <1>4, <1>5, <1>6 DEF PhaseOf

-----------------------------------------------------------------------------
(* What a step does to the phases.                                         *)

SamePhases == \A s \in Shards : PhaseOf(s)' = PhaseOf(s)

\* The other shards keep their phase.
OnlyPhase(k) ==
    /\ status' = status
    /\ \A s \in Shards \ {k} : PhaseOf(s)' = PhaseOf(s)

PhaseBegins(k) ==
    /\ OnlyPhase(k)
    /\ status = "running"
    /\ PhaseOf(k) = "down"
    /\ \A s \in Shards : PhaseOf(s) # "attempt"
    /\ PhaseOf(k)' = "attempt"

PhaseSucceeds(k) ==
    OnlyPhase(k) /\ PhaseOf(k) = "attempt" /\ PhaseOf(k)' = "up"

PhaseEnds(k) == OnlyPhase(k) /\ PhaseOf(k) # "down" /\ PhaseOf(k)' = "down"

PhaseChange ==
    \/ SamePhases
    \/ \E k \in Shards : PhaseBegins(k) \/ PhaseSucceeds(k) \/ PhaseEnds(k)

LEMMA KeptPhases ==
    ASSUME \A c \in Conns : Kept(c),
           connectingShard' = connectingShard \/ \A c \in Conns : ~Attempt(c)
    PROVE  SamePhases
  <1>1. Attempting' <=> Attempting
    BY DEF Attempting, Kept
  <1>2. ASSUME NEW s \in Shards PROVE HasLive(s)' <=> HasLive(s)
    BY DEF HasLive, Kept
  <1>3. connectingShard' = connectingShard \/ ~Attempting
    BY DEF Attempting
  <1> QED BY <1>1, <1>2, <1>3 DEF SamePhases, PhaseOf

LEMMA SameSockets ==
    ASSUME con' = con
    PROVE  \A c \in Conns : Kept(c)
  BY DEF Kept, Attempt, Dialling, Live, Unanswered

\* The attempt in progress is the only one.
LEMMA OneAttempt ==
    ASSUME TypeOK, Steady, NEW c \in Conns, NEW d \in Conns, Attempt(c), Attempt(d)
    PROVE  c = d
  <1> USE Fields
  <1>1. /\ connectingShard \in Shards
        /\ Live(c) => con[c].owner = connectingShard
        /\ Live(d) => con[d].owner = connectingShard
        /\ \/ ~Dialling(c) /\ ~Dialling(d)
           \/ connectingShard \in Queued
    <2>1. shardsToConnect # <<>> => Head(shardsToConnect) \in Queued
      BY DEF Queued, Range, TypeOK
    <2> QED BY <2>1 DEF Steady, AttemptInv, LiveInv
  <1>2. CASE Dialling(c) /\ Dialling(d)
    BY <1>2 DEF Steady, AttemptInv
  <1>3. CASE Live(c) /\ Live(d)
    BY <1>1, <1>3 DEF Steady, LiveInv
  <1> QED BY <1>1, <1>2, <1>3 DEF Attempt, Steady, LiveInv

\* A live socket is the only one of its shard, and another attempt would be
\* that of another shard.
LEMMA LiveFacts ==
    ASSUME TypeOK, Steady, NEW x \in Conns, Live(x)
    PROVE  /\ con[x].owner \in Shards
           /\ Attempt(x) => connectingShard = con[x].owner
           /\ \A c \in Conns : Attempt(c) /\ c # x => connectingShard # con[x].owner
           /\ \A c \in Conns : Live(c) /\ con[c].owner = con[x].owner => c = x
  <1> USE Fields
  <1>1. /\ con[x].owner \in Shards /\ con[x].owner \notin Queued
        /\ Attempt(x) => connectingShard = con[x].owner
        /\ \A c \in Conns : Live(c) /\ con[c].owner = con[x].owner => c = x
    BY DEF Steady, LiveInv, AttemptInv
  <1>2. shardsToConnect # <<>> => Head(shardsToConnect) \in Queued
    BY DEF Queued, Range, TypeOK
  <1>3. ASSUME NEW c \in Conns, Attempt(c), c # x
        PROVE  connectingShard # con[x].owner
    BY <1>1, <1>2, <1>3 DEF Steady, AttemptInv, LiveInv, Attempt
  <1> QED BY <1>1, <1>3

LEMMA DialPhases ==
    ASSUME TypeOK, Steady, io = "running", status = "running",
           \A c \in Conns : strand[c] = <<>>,
           NEW k \in Queued, NEW x \in Conns, DialBegins(k, x)
    PROVE  PhaseBegins(k)
  <1> USE Fields DEF DialBegins
  <1>1. /\ k \in Shards /\ connectingShard' = k /\ status' = status
        /\ con[x].ws \in {"none", "lingering", "closed"}
        /\ con'[x].ws = "init"
    OBVIOUS
  <1>2. \A c \in Conns : ~Attempt(c)
    BY DEF Steady, AttemptInv
  <1>3. ASSUME NEW c \in Conns, c # x PROVE Kept(c)
    BY <1>3 DEF Kept, Attempt, Dialling, Live, Unanswered
  <1>4. ~Live(x) /\ ~Live(x)' /\ Attempt(x)'
    BY <1>1 DEF Attempt, Dialling, Live
  <1>5. ~Attempting /\ Attempting'
    BY <1>2, <1>4 DEF Attempting
  <1>6. ASSUME NEW s \in Shards PROVE HasLive(s)' <=> HasLive(s)
    BY <1>3, <1>4 DEF HasLive, Kept
  <1>7. ~HasLive(k)
    BY DEF HasLive, Steady, LiveInv
  <1> HIDE DEF DialBegins
  <1> QED BY <1>1, <1>5, <1>6, <1>7 DEF PhaseBegins, OnlyPhase, PhaseOf

LEMMA WsStatusPhases ==
    ASSUME TypeOK, Steady, io = "running", Punctual, DialIsHead, QueueNoDup,
           WsStatus
    PROVE  PhaseChange
  <1>1. status = "running" /\ \A c \in Conns : strand[c] = <<>>
    BY DEF WsStatus, PromptStrands, Punctual
  <1>2. CASE /\ \A c \in Conns : Kept(c)
             /\ \/ connectingShard' = connectingShard
                \/ \A c \in Conns : ~Attempt(c)
    BY <1>2, KeptPhases DEF PhaseChange
  <1>3. CASE \E k \in Queued, x \in Conns : DialBegins(k, x)
    <2>1. PICK k \in Queued, x \in Conns : DialBegins(k, x)
      BY <1>3
    <2>2. PhaseBegins(k) /\ k \in Shards
      BY <1>1, <2>1, DialPhases, Fields
    <2> QED BY <2>2 DEF PhaseChange
  <1> QED BY <1>2, <1>3, WsStatusStep

\* A socket opens: the attempt goes on.
LEMMA OpenPhases ==
    ASSUME TypeOK, Steady, QueueNoDup, io = "running",
           NEW x \in Conns, OnConnect(x)
    PROVE  SamePhases
  <1> USE Fields
  <1>1. /\ con[x].ws = "connecting" /\ con'[x].ws = "open"
        /\ con'[x].link \in {"identify", "resume"}
        /\ con'[x].owner = con[x].owner
        /\ \A c \in Conns \ {x} : con'[c] = con[c]
        /\ connectingShard' = connectingShard
    BY OnConnectStep
  <1>2. Attempt(x) /\ Attempt(x)' /\ ~Live(x) /\ Live(x)'
    BY <1>1 DEF Attempt, Dialling, Live, Unanswered
  <1>3. con[x].owner = connectingShard
    BY <1>1, <1>2 DEF Steady, AttemptInv
  <1>4. ASSUME NEW c \in Conns, c # x PROVE Kept(c)
    BY <1>1, <1>4 DEF Kept, Attempt, Dialling, Live, Unanswered
  <1>5. Attempting /\ Attempting'
    BY <1>2 DEF Attempting
  <1>6. ASSUME NEW s \in Shards, s # connectingShard
        PROVE  HasLive(s)' <=> HasLive(s)
    BY <1>1, <1>2, <1>3, <1>4, <1>6 DEF HasLive, Kept
  <1> QED BY <1>1, <1>5, <1>6 DEF SamePhases, PhaseOf

LEMMA DialFailsPhases ==
    ASSUME TypeOK, Steady, NEW x \in Conns, DialFails(x)
    PROVE  \E k \in Shards : PhaseEnds(k)
  <1> USE Fields
  <1>1. /\ con[x].ws = "connecting" /\ con'[x].ws \in {"closed", "lingering"}
        /\ \A c \in Conns \ {x} : con'[c] = con[c]
        /\ UNCHANGED <<status, connectingShard>>
    BY DEF DialFails, TypeOK, ConnState
  <1>2. Attempt(x) /\ ~Attempt(x)' /\ ~Live(x) /\ ~Live(x)'
    BY <1>1 DEF Attempt, Dialling, Live
  <1>3. /\ connectingShard \in Shards /\ shardsToConnect # <<>>
        /\ Head(shardsToConnect) = connectingShard
    BY <1>1, <1>2 DEF Steady, AttemptInv, Dialling
  <1>4. connectingShard \in Queued
    BY <1>3 DEF Queued, Range, TypeOK
  <1>5. ASSUME NEW c \in Conns, c # x PROVE Kept(c) /\ ~Attempt(c)
    BY <1>1, <1>2, <1>5, OneAttempt DEF Kept, Attempt, Dialling, Live, Unanswered
  <1>6. Attempting /\ ~Attempting'
    BY <1>2, <1>5 DEF Attempting, Kept
  <1>7. ASSUME NEW s \in Shards PROVE HasLive(s)' <=> HasLive(s)
    BY <1>2, <1>5 DEF HasLive, Kept
  <1>8. PICK k \in Shards : k = connectingShard
    BY <1>3
  <1>9. ~HasLive(k)
    BY <1>4, <1>8 DEF HasLive, Steady, LiveInv
  <1>10. PhaseEnds(k)
    BY <1>1, <1>6, <1>7, <1>8, <1>9 DEF PhaseEnds, OnlyPhase, PhaseOf
  <1> QED BY <1>10

LEMMA OnClosePhases ==
    ASSUME TypeOK, Steady, io = "running", Punctual, NEW x \in Conns, OnClose(x)
    PROVE  \E k \in Shards : PhaseEnds(k)
  <1>1. /\ Live(x) /\ con'[x].ws = "lingering"
        /\ \A c \in Conns \ {x} : con'[c] = con[c]
        /\ UNCHANGED <<status, connectingShard>>
    BY OnCloseStep
  <1>2. PICK s \in Shards : s = con[x].owner
    BY <1>1, LiveFacts
  <1>3. /\ Attempt(x) => connectingShard = s
        /\ \A c \in Conns : Attempt(c) /\ c # x => connectingShard # s
        /\ \A c \in Conns : Live(c) /\ con[c].owner = s => c = x
    BY <1>1, <1>2, LiveFacts
  <1>4. ~Attempt(x)' /\ ~Live(x)'
    BY <1>1 DEF Attempt, Dialling, Live
  <1>5. ASSUME NEW c \in Conns, c # x PROVE Kept(c)
    BY <1>1, <1>5 DEF Kept, Attempt, Dialling, Live, Unanswered
  <1>6. HasLive(s) /\ ~HasLive(s)'
    BY <1>1, <1>2, <1>3, <1>4, <1>5 DEF HasLive, Kept
  <1>7. ASSUME NEW y \in Shards, y # s PROVE HasLive(y)' <=> HasLive(y)
    BY <1>1, <1>2, <1>4, <1>5, <1>7 DEF HasLive, Kept
  <1>8. ~(Attempting' /\ connectingShard = s)
    BY <1>3, <1>4, <1>5 DEF Attempting, Kept
  <1>9. connectingShard # s => (Attempting' <=> Attempting)
    BY <1>3, <1>4, <1>5 DEF Attempting, Kept
  <1>10. PhaseEnds(s)
    BY <1>1, <1>6, <1>7, <1>8, <1>9 DEF PhaseEnds, OnlyPhase, PhaseOf
  <1> QED BY <1>10

\* READY or RESUMED is sent.
LEMMA AnswerPhases ==
    ASSUME TypeOK, Steady, NEW x \in Conns,
           con[x].ws = "open", Unanswered(x),
           con'[x].ws = "open", con'[x].link = "ready",
           con'[x].owner = con[x].owner,
           \A c \in Conns \ {x} : con'[c] = con[c],
           UNCHANGED <<status, connectingShard>>
    PROVE  \E k \in Shards : PhaseSucceeds(k)
  <1>1. Attempt(x) /\ ~Attempt(x)' /\ Live(x) /\ Live(x)'
    BY DEF Attempt, Dialling, Live, Unanswered
  <1>2. connectingShard = con[x].owner /\ connectingShard \in Shards
    BY <1>1, LiveFacts
  <1>3. ASSUME NEW c \in Conns, c # x PROVE Kept(c) /\ ~Attempt(c)
    BY <1>1, <1>3, OneAttempt DEF Kept, Attempt, Dialling, Live, Unanswered
  <1>4. Attempting /\ ~Attempting'
    BY <1>1, <1>3 DEF Attempting, Kept
  <1>5. ASSUME NEW s \in Shards PROVE HasLive(s)' <=> HasLive(s)
    BY <1>1, <1>3 DEF HasLive, Kept
  <1>6. PICK k \in Shards : k = connectingShard
    BY <1>2
  <1>7. HasLive(k)
    BY <1>1, <1>2, <1>6 DEF HasLive
  <1>8. PhaseSucceeds(k)
    BY <1>4, <1>5, <1>6, <1>7 DEF PhaseSucceeds, OnlyPhase, PhaseOf
  <1> QED BY <1>8

LEMMA ConnectionPhases ==
    ASSUME TypeOK, Steady, QueueNoDup, io = "running", Punctual,
           NEW x \in Conns, Connection(x)
    PROVE  PhaseChange /\ status' = status
  <1>1. CASE RunStrand(x)
    BY <1>1, RunStrandStep, KeptPhases DEF PhaseChange
  <1>2. CASE OnConnect(x)
    BY <1>2, OnConnectStep, OpenPhases DEF PhaseChange
  <1>3. CASE Unbound(x)
    BY <1>3, UnboundStep
  <1>4. CASE DialFails(x)
    BY <1>4, DialFailsPhases DEF PhaseChange, DialFails
  <1>5. CASE OnClose(x)
    BY <1>5, OnCloseStep, OnClosePhases DEF PhaseChange
  <1>6. CASE \/ Hello(x) \/ Answer(x) \/ Ack(x) \/ InvalidSession(x)
             \/ ReconnectRequest(x) \/ CorruptPayload(x)
    <2>1. /\ UNCHANGED <<status, connectingShard>>
          /\ \/ \A c \in Conns : Kept(c)
             \/ /\ con[x].ws = "open" /\ Unanswered(x)
                /\ con'[x].ws = "open" /\ con'[x].link = "ready"
                /\ con'[x].owner = con[x].owner
                /\ \A c \in Conns \ {x} : con'[c] = con[c]
      BY <1>6, MessageStep
    <2>2. CASE \A c \in Conns : Kept(c)
      BY <2>1, <2>2, KeptPhases DEF PhaseChange
    <2>3. CASE ~(\A c \in Conns : Kept(c))
      BY <2>1, <2>3, AnswerPhases DEF PhaseChange
    <2> QED BY <2>1, <2>2, <2>3
  <1>7. CASE LinkDies(x)
    <2>1. /\ con[x].link = "ready" /\ con[x].ws = "open"
          /\ con' = [con EXCEPT ![x].link = "dead"]
          /\ UNCHANGED <<status, connectingShard>>
      BY <1>7 DEF LinkDies, Punctual
    <2>2. \A c \in Conns : Kept(c)
      BY <2>1 DEF TypeOK, ConnState, Kept, Attempt, Dialling, Live, Unanswered
    <2> QED BY <2>1, <2>2, KeptPhases DEF PhaseChange
  <1> QED BY <1>1, <1>2, <1>3, <1>4, <1>5, <1>6, <1>7 DEF Connection

LEMMA RestPhases ==
    ASSUME TypeOK, Steady, io = "running",
           \/ RunPool \/ ShutdownBegin
           \/ \E s \in Shards : KeepAlive(s) \/ DelayedAuth(s)
    PROVE  SamePhases
  <1>1. CASE RunPool
    <2>1. con' = con /\ pool # {}
      BY <1>1 DEF RunPool
    <2>2. \A c \in Conns : ~Attempt(c)
      BY <2>1 DEF Steady, AttemptInv
    <2> QED BY <2>1, <2>2, SameSockets, KeptPhases
  <1>2. CASE ShutdownBegin
    BY <1>2, SameSockets, KeptPhases DEF ShutdownBegin
  <1>3. ASSUME NEW s \in Shards, KeepAlive(s) PROVE SamePhases
    BY <1>3, SameSockets, KeptPhases DEF KeepAlive
  <1>4. ASSUME NEW s \in Shards, DelayedAuth(s) PROVE SamePhases
    BY <1>4, DelayedAuthStep, KeptPhases
  <1> QED BY <1>1, <1>2, <1>3, <1>4

-----------------------------------------------------------------------------
(* The refinement.                                                         *)

Phases == [s \in Shards |-> Phase(s)]

LEMMA RunningRefines ==
    ASSUME Punctual, TypeOK, QueueNoDup, SteadyInv, PhaseInv, PhaseInv',
           io = "running", io' = "running", Next
    PROVE  [Abstract!Next]_(Abstract!vars)
  <1> USE DEF Abstract!Next, Abstract!vars, Abstract!Begin, Abstract!Succeed,
              Abstract!End, Abstract!Close
  <1>1. Steady /\ DialIsHead
    BY DEF SteadyInv
  <1>2. \A s \in Shards : Phase(s) = PhaseOf(s) /\ Phase(s)' = PhaseOf(s)'
    BY DEF PhaseInv
  <1>3. ASSUME SamePhases PROVE Phases' = Phases
    BY <1>2, <1>3 DEF SamePhases, Phases
  <1>4. CASE ShutdownBegin
    BY <1>1, <1>3, <1>4, RestPhases DEF ShutdownBegin, Phases
  <1>5. CASE PhaseChange /\ status' = status
    <2>1. CASE SamePhases
      BY <1>3, <1>5, <2>1 DEF Phases
    <2>2. ASSUME NEW k \in Shards, OnlyPhase(k)
          PROVE  Phases' = [Phases EXCEPT ![k] = PhaseOf(k)']
      BY <1>2, <2>2 DEF OnlyPhase, Phases
    <2>3. ASSUME NEW k \in Shards, PhaseBegins(k) PROVE Abstract!Begin(k)
      BY <1>2, <1>5, <2>2, <2>3 DEF PhaseBegins, Phases
    <2>4. ASSUME NEW k \in Shards, PhaseSucceeds(k) PROVE Abstract!Succeed(k)
      BY <1>2, <1>5, <2>2, <2>4 DEF PhaseSucceeds, Phases
    <2>5. ASSUME NEW k \in Shards, PhaseEnds(k) PROVE Abstract!End(k)
      BY <1>2, <1>5, <2>2, <2>5 DEF PhaseEnds, Phases
    <2> QED BY <1>5, <2>1, <2>3, <2>4, <2>5 DEF PhaseChange
  <1>6. CASE WsStatus
    BY <1>1, <1>5, <1>6, WsStatusPhases DEF WsStatus
  <1>7. ASSUME NEW c \in Conns, Connection(c) PROVE PhaseChange /\ status' = status
    BY <1>1, <1>7, ConnectionPhases
  <1>8. CASE RunPool \/ \E s \in Shards : KeepAlive(s) \/ DelayedAuth(s)
    <2>1. SamePhases
      BY <1>1, <1>8, RestPhases
    <2>2. status' = status
      BY <1>8 DEF RunPool, KeepAlive, DelayedAuth
    <2> QED BY <1>5, <2>1, <2>2 DEF PhaseChange
  <1>9. ~ShutdownStop /\ ~Terminated
    BY DEF ShutdownStop, Terminated
  <1> QED BY <1>4, <1>5, <1>6, <1>7, <1>8, <1>9 DEF Next

LEMMA RefinesStep ==
    ASSUME Punctual, TypeOK, QueueNoDup, SteadyInv, PhaseInv, PhaseInv',
           [Next]_vars
    PROVE  [Abstract!Next]_(Abstract!vars)
  <1>1. CASE \/ UNCHANGED vars \/ Terminated
    BY <1>1 DEF Terminated, vars, Abstract!vars, Phase, Of
  <1>2. CASE io = "running" /\ ShutdownStop
    <2>1. con' = con /\ status' = status
      BY <1>2 DEF ShutdownStop
    <2>2. \A s \in Shards : shard'[s].connection = shard[s].connection
      BY ZenonT(40), <1>2 DEF ShutdownStop, Reset, TypeOK, ShardState
    <2> QED BY <2>1, <2>2 DEF Abstract!vars, Phase, Of
  <1>3. CASE io = "running" /\ Next /\ ~ShutdownStop /\ ~Terminated
    <2>1. Steady /\ DialIsHead
      BY <1>3 DEF SteadyInv
    <2>2. UNCHANGED io
      <3>1. ASSUME NEW c \in Conns, Connection(c) PROVE UNCHANGED io
        BY <1>3, <2>1, <3>1, ConnectionStep
      <3>2. CASE WsStatus
        BY <1>3, <2>1, <3>2, WsStatusStep
      <3>3. CASE \/ RunPool \/ ShutdownBegin
                 \/ \E s \in Shards : KeepAlive(s) \/ DelayedAuth(s)
        BY <3>3 DEF RunPool, ShutdownBegin, KeepAlive, DelayedAuth
      <3> QED BY <1>3, <3>1, <3>2, <3>3 DEF Next
    <2> QED BY <1>3, <2>2, RunningRefines
  <1> QED BY <1>1, <1>2, <1>3 DEF Next, Terminated

LEMMA InitRefines == Init => Abstract!Init
  BY ShardMgrAssumption DEF Init, Abstract!Init, Phase, Of

\* Given punctual handlers the shard manager implements ShardLifecycle: one
\* attempt at a time reaches the gateway, a shard comes up only through its own
\* attempt, and none begins once the bot shuts down (ws_status, _on_connect,
\* _on_close, ws_ready, ws_resumed).
THEOREM Refinement == ASSUME Punctual PROVE Spec => ImplementsLifecycle
  <1>1. Init => Abstract!Init
    BY InitRefines
  <1>2. TypeOK /\ SteadyInv => PhaseInv
    BY PhaseRead
  <1>3. /\ TypeOK /\ QueueNoDup /\ SteadyInv /\ PhaseInv /\ PhaseInv'
        /\ [Next]_vars
        => [Abstract!Next]_(Abstract!vars)
    BY RefinesStep
  <1> QED BY <1>1, <1>2, <1>3, TypeCorrect, ListHasNoDuplicates, SteadyThroughout,
             PTL DEF Spec, ImplementsLifecycle, Abstract!Spec
=============================================================================
