-------------------------- MODULE Ratelimit_proofs --------------------------
(* Theorems about the rate limiter for every set of calls and names, every *)
(* limit, window and number of threads.                                    *)
EXTENDS Ratelimit, TLAPS

-----------------------------------------------------------------------------
(* Arithmetic.                                                             *)

\* Rounding up to a multiple of d never goes below.
LEMMA RoundUp ==
    ASSUME NEW d \in Nat \ {0}, NEW n \in Nat
    PROVE  /\ ((n + d - 1) \div d) * d \in Nat
           /\ ((n + d - 1) \div d) * d >= n
  <1> DEFINE m == n + d - 1
  <1>1. m \in Nat
    OBVIOUS
  <1> HIDE DEF m
  <1>2. /\ m \div d \in Nat /\ m % d \in 0..(d - 1)
    BY <1>1
  <1>3. m = d * (m \div d) + (m % d)
    BY <1>1
  <1>9. m - (m % d) >= n
    BY <1>2 DEF m
  <1> QED BY <1>1, <1>2, <1>3, <1>9 DEF m

-----------------------------------------------------------------------------
(* Type correctness.                                                       *)

LEMMA ConstantTypes ==
    /\ Limit \in Nat \ {0} /\ Window \in Nat \ {0} /\ BypassWindow \in Nat \ {0}
    /\ Second \in Nat \ {0} /\ GlobalLimit \in Nat \ {0}
    /\ Skew \in Int
    /\ \A c \in Calls : PathOf[c] \in Paths
    /\ \A p \in Paths : WindowOf(p) \in Nat \ {0}
  BY RatelimitAssumption DEF RatelimitAssumption, WindowOf

\* A clock that is not ahead of the server's sees a reset no sooner.
LEMMA ResetHeaderLemma ==
    ASSUME clock \in 0..(Second - 1), NEW left \in Nat
    PROVE  /\ ResetHeader(left) \in Nat
           /\ Skew <= 0 => ResetHeader(left) >= left
  <1> DEFINE n == clock + left
             r == ((n + Second - 1) \div Second) * Second
  <1>1. n \in Nat /\ clock \in Nat /\ Second \in Nat \ {0} /\ Skew \in Int
    BY ConstantTypes
  <1>2. r \in Nat /\ r >= n
    <2> HIDE DEF n
    <2> QED BY <1>1, RoundUp
  <1>3. ResetHeader(left) = Positive(r - clock - Skew)
    BY DEF ResetHeader
  <1> HIDE DEF r
  <1> QED BY <1>1, <1>2, <1>3 DEF Positive

LEMMA CurrentType ==
    ASSUME NEW w \in WindowState, NEW size \in Nat, NEW length \in Nat
    PROVE  Current(w, size, length) \in WindowState
  BY DEF Current, WindowState

LEMMA TakeType ==
    ASSUME NEW w \in WindowState, w.remaining # 0
    PROVE  Take(w) \in WindowState
  BY DEF Take, WindowState

LEMMA VerdictType ==
    ASSUME TypeOK, NEW c \in Calls
    PROVE  /\ Verdict(c) \in Reply
           /\ Own(c) \in WindowState /\ Whole \in WindowState
           /\ Verdict(c).code = "ok" =>
                 /\ Own(c).remaining # 0
                 /\ "global" \in hazards => Whole.remaining # 0
  <1>1. Own(c) \in WindowState /\ Whole \in WindowState
    BY ConstantTypes, CurrentType DEF Own, Whole, TypeOK
  <1>2. ASSUME NEW w \in WindowState
        PROVE  /\ RefusedGlobally(w) \in Reply /\ RefusedGlobally(w).code = "429"
               /\ Refused(w) \in Reply /\ Refused(w).code = "429"
               /\ Accepted(w) \in Reply
    <2>1. ResetHeader(w.left) \in Nat /\ w.left \in Nat /\ w.remaining \in Nat
      BY <1>2, ResetHeaderLemma DEF TypeOK, WindowState
    <2> QED BY <2>1, ConstantTypes
            DEF RefusedGlobally, Refused, Accepted, Reply, NoReply
  <1>3. CASE "global" \in hazards /\ Whole.remaining = 0
    BY <1>1, <1>2, <1>3 DEF Verdict
  <1>4. CASE ~("global" \in hazards /\ Whole.remaining = 0) /\ Own(c).remaining = 0
    BY <1>1, <1>2, <1>4 DEF Verdict
  <1>5. CASE ~("global" \in hazards /\ Whole.remaining = 0) /\ Own(c).remaining # 0
    BY <1>1, <1>2, <1>5, TakeType DEF Verdict
  <1> QED BY <1>3, <1>4, <1>5

LEMMA ExchangeType ==
    ASSUME TypeOK, NEW c \in Calls, NEW n \in Nat, Exchange(c, n)
    PROVE  /\ reply' \in [Calls -> Reply]
           /\ server' \in [Paths -> WindowState]
           /\ global' \in WindowState
           /\ effects' \in [Calls -> Nat]
  <1>1. NoReply \in Reply
    BY DEF NoReply, Reply
  <1>2. \A r \in Reply : Received(c, r, n) \in Reply
    BY DEF Received, Reply
  <1>3. reply' \in [Calls -> Reply]
    <2>1. reply' = [reply EXCEPT ![c] = Received(c, Verdict(c), n)]
          \/ reply' = [reply EXCEPT ![c] = Received(c, NoReply, n)]
      BY DEF Exchange
    <2>2. Verdict(c) \in Reply
      BY VerdictType
    <2> QED BY <1>1, <1>2, <2>1, <2>2 DEF TypeOK
  <1>4. Serve(c) \/ UNCHANGED <<server, global, effects>>
    BY DEF Exchange
  <1>5. ASSUME Serve(c), Verdict(c).code = "ok"
        PROVE  /\ server' \in [Paths -> WindowState]
               /\ global' \in WindowState
               /\ effects' \in [Calls -> Nat]
    <2>1. Take(Own(c)) \in WindowState
          /\ ("global" \in hazards => Take(Whole) \in WindowState)
      BY <1>5, VerdictType, TakeType
    <2>2. server' \in [Paths -> WindowState]
      BY <1>5, <2>1, ConstantTypes DEF Serve, TypeOK
    <2>3. global' \in WindowState
      <3>1. global' = Take(Whole) \/ global' = global
        BY <1>5 DEF Serve
      <3>2. "global" \notin hazards => global' = global
        BY <1>5 DEF Serve
      <3> QED BY <2>1, <3>1, <3>2 DEF TypeOK
    <2>4. effects' \in [Calls -> Nat]
      <3>1. effects' = [effects EXCEPT ![c] = effects[c] + 1]
        BY <1>5 DEF Serve
      <3> QED BY <3>1 DEF TypeOK
    <2> QED BY <2>2, <2>3, <2>4
  <1>6. ASSUME Serve(c), Verdict(c).code # "ok"
        PROVE  UNCHANGED <<server, global, effects>>
    BY <1>6 DEF Serve
  <1> QED BY <1>3, <1>4, <1>5, <1>6 DEF TypeOK

LEMMA StoredType ==
    ASSUME NEW b \in BucketState, NEW r \in Reply
    PROVE  Stored(b, r) \in BucketState
  BY DEF Stored, BucketState, Reply

LEMMA InitType == Init => TypeOK
  <1> SUFFICES ASSUME Init PROVE TypeOK
    OBVIOUS
  <1>1. bucket \in [Calls -> BucketState]
    BY DEF Init, BucketState
  <1>2. reply \in [Calls -> Reply]
    BY DEF Init, Reply, NoReply
  <1>3. server \in [Paths -> WindowState] /\ global \in WindowState
    BY DEF Init, WindowState
  <1>4. clock \in 0..(Second - 1)
    BY ConstantTypes DEF Init
  <1> QED BY <1>1, <1>2, <1>3, <1>4 DEF Init, TypeOK, Phase

LEMMA StepType ==
    ASSUME TypeOK, NEW c \in Calls, Step(c),
           bucketOf[c] # NoCall \/ phase[c] \notin {"lock", "check", "sleep",
               "send", "sent", "backoff", "resent"}
    PROVE  TypeOK'
  <1>0. bucketOf[c] \in Calls \cup {NoCall} /\ PathOf[c] \in Paths
    BY ConstantTypes DEF TypeOK
  <1>1. CASE Emplace(c)
    BY ZenonT(60), <1>0, <1>1 DEF Emplace, TypeOK, Phase
  <1>2. CASE Lock(c)
    <2>1. bucketOf[c] \in Calls
      BY <1>0, <1>2 DEF Lock, Acquire
    <2>2. [bucket[bucketOf[c]] EXCEPT !.holder = c] \in BucketState
      BY ZenonT(60), <2>1 DEF TypeOK, BucketState
    <2>3. bucket' \in [Calls -> BucketState]
      BY <1>2, <2>1, <2>2 DEF Lock, Acquire, TypeOK
    <2> QED BY <1>2, <2>3 DEF Lock, TypeOK, Phase
  <1>3. CASE Check(c)
    <2>1. bucketOf[c] \in Calls
      BY <1>0, <1>3 DEF Check
    <2>2. bucket[bucketOf[c]].reset \in Nat
      BY <2>1 DEF TypeOK, BucketState
    <2> QED BY <1>3, <2>2 DEF Check, TypeOK, Phase
  <1>4. CASE Wake(c)
    BY <1>4 DEF Wake, TypeOK, Phase
  <1>5. CASE Call(c)
    BY <1>5, ConstantTypes, ExchangeType DEF Call, TypeOK, Phase
  <1>6. CASE BackOff(c)
    <2>1. reply[c].retry \in Nat /\ BypassWindow \in Nat
      BY ConstantTypes DEF TypeOK, Reply
    <2> QED BY <1>6, <2>1 DEF BackOff, TypeOK, Phase
  <1>7. CASE Retry(c)
    <2>1. reply[c].reset \in Nat
      BY DEF TypeOK, Reply
    <2> QED BY <1>7, <2>1, ExchangeType DEF Retry, TypeOK, Phase
  <1>8. CASE Finish(c)
    <2>1. bucketOf[c] \in Calls
      BY <1>0, <1>8 DEF Finish
    <2>2. Stored(bucket[bucketOf[c]], reply[c]) \in BucketState
      BY <2>1, StoredType DEF TypeOK
    <2>3. bucket' \in [Calls -> BucketState]
      BY <1>8, <2>1, <2>2 DEF Finish, TypeOK
    <2> QED BY <1>8, <2>3 DEF Finish, TypeOK, Phase
  <1> QED BY <1>1, <1>2, <1>3, <1>4, <1>5, <1>6, <1>7, <1>8 DEF Step

LEMMA TickType == TypeOK /\ Tick => TypeOK'
  <1> SUFFICES ASSUME TypeOK, Tick PROVE TypeOK'
    OBVIOUS
  <1>1. \A n \in Nat : Later(n) \in Nat
    BY DEF Later
  <1>2. clock' \in 0..(Second - 1)
    BY ConstantTypes DEF Tick, TypeOK
  <1>3. timer' \in [Calls -> Nat]
    BY <1>1 DEF Tick, TypeOK
  <1>4. bucket' \in [Calls -> BucketState]
    <2>1. ASSUME NEW b \in BucketState
          PROVE  [b EXCEPT !.reset = Later(@)] \in BucketState
      BY <1>1 DEF BucketState
    <2> QED BY <2>1 DEF Tick, TypeOK
  <1>5. reply' \in [Calls -> Reply]
    <2>1. ASSUME NEW r \in Reply
          PROVE  [r EXCEPT !.reset = Later(@)] \in Reply
      BY <1>1 DEF Reply
    <2> QED BY <2>1 DEF Tick, TypeOK
  <1>6. server' \in [Paths -> WindowState] /\ global' \in WindowState
    <2>1. ASSUME NEW w \in WindowState
          PROVE  [w EXCEPT !.left = Later(@)] \in WindowState
      BY <1>1 DEF WindowState
    <2> QED BY <2>1 DEF Tick, TypeOK
  <1> QED BY <1>2, <1>3, <1>4, <1>5, <1>6 DEF Tick, TypeOK

\* A call that is at or past the mutex has a bucket.
HasBucket ==
    \A c \in Calls :
        phase[c] \notin {"new", "posted", "emplace", "done"} => bucketOf[c] # NoCall

LEMMA TypeStep == TypeOK /\ HasBucket /\ [Next]_vars => TypeOK' /\ HasBucket'
  <1> SUFFICES ASSUME TypeOK, HasBucket, [Next]_vars PROVE TypeOK' /\ HasBucket'
    OBVIOUS
  <1>1. CASE Start
    <2>1. Head(queue) \in Calls /\ Tail(queue) \in Seq(Calls)
      BY <1>1 DEF Start, TypeOK
    <2>2. buckets[PathOf[Head(queue)]] \in Calls \cup {NoCall}
      BY <2>1, ConstantTypes DEF TypeOK
    <2> QED BY <1>1, <2>1, <2>2 DEF Start, TypeOK, Phase, HasBucket
  <1>2. CASE Tick
    BY <1>2, TickType DEF Tick, HasBucket
  <1>3. ASSUME NEW c \in Calls, Post(c) PROVE TypeOK' /\ HasBucket'
    BY <1>3 DEF Post, TypeOK, Phase, HasBucket
  <1>4. ASSUME NEW c \in Calls, Step(c) PROVE TypeOK' /\ HasBucket'
    <2>1. TypeOK'
      BY <1>4, StepType DEF HasBucket
    <2>2. HasBucket'
      <3>1. CASE Emplace(c)
        BY <3>1, RatelimitAssumption DEF Emplace, HasBucket, TypeOK
      <3>2. CASE Lock(c) \/ Check(c) \/ Wake(c) \/ Call(c) \/ BackOff(c)
                   \/ Retry(c) \/ Finish(c)
        BY <3>2 DEF Lock, Acquire, Check, Wake, Call, BackOff, Retry, Slept,
                    Finish, HasBucket, TypeOK
      <3> QED BY <1>4, <3>1, <3>2 DEF Step
    <2> QED BY <2>1, <2>2
  <1>5. CASE UNCHANGED vars
    BY <1>5 DEF vars, TypeOK, HasBucket
  <1> QED BY <1>1, <1>2, <1>3, <1>4, <1>5 DEF Next

\* Every field keeps its type, and no call reaches a mutex without a bucket,
\* whatever limits, clocks and hazards.
THEOREM TypeCorrect == Spec => [](TypeOK /\ HasBucket)
  <1>1. Init => TypeOK /\ HasBucket
    BY InitType DEF Init, HasBucket
  <1>2. TypeOK /\ HasBucket /\ [Next]_vars => TypeOK' /\ HasBucket'
    BY TypeStep
  <1> QED BY <1>1, <1>2, PTL DEF Spec

-----------------------------------------------------------------------------
(* Mutual exclusion.  That two calls of one name are kept apart needs that *)
(* they have one bucket, which a race of emplaces into _buckets breaks;    *)
(* that two calls of one bucket are needs only its mutex.                  *)

\* What may go wrong does not change.
LEMMA HazardsStay == [Next]_vars => hazards' = hazards
  BY DEF Next, Step, vars, Start, Tick, Post, Emplace, Lock, Check, Wake, Call,
         BackOff, Retry, Finish

\* The bucket of a name was created by a call of that name.
Buckets == \A p \in Paths : buckets[p] # NoCall => PathOf[buckets[p]] = p

\* A call that has a bucket has that of its name.
Found == \A c \in Calls : bucketOf[c] # NoCall => bucketOf[c] = buckets[PathOf[c]]

\* A call that exchanges holds the mutex of its bucket.
Held == \A c \in Calls : Exchanging(c) => bucket[bucketOf[c]].holder = c

\* The task queue holds the calls that are posted, each once.
Queued ==
    /\ \A i \in 1..Len(queue) : phase[queue[i]] = "posted"
    /\ \A i, j \in 1..Len(queue) : queue[i] = queue[j] => i = j

Excl == TypeOK /\ HasBucket /\ Queued /\ Buckets /\ Found /\ Held

LEMMA QueuedStep ==
    ASSUME TypeOK, Queued, [Next]_vars
    PROVE  Queued'
  <1>1. CASE Start
    <2>1. queue # <<>> /\ queue \in Seq(Calls) /\ queue' = Tail(queue)
          /\ phase \in [Calls -> Phase]
      BY <1>1 DEF Start, TypeOK
    <2>2. /\ Head(queue) = queue[1]
          /\ Len(queue') = Len(queue) - 1 /\ Len(queue) \in Nat \ {0}
          /\ \A i \in 1..Len(queue') : queue'[i] = queue[i + 1]
          /\ \A i \in 1..Len(queue) : queue[i] \in Calls
      BY <2>1
    <2>3. \A c \in Calls : c # queue[1] => phase'[c] = phase[c]
      BY <1>1, <2>1, <2>2 DEF Start
    <2>4. ASSUME NEW i \in 1..Len(queue') PROVE phase'[queue'[i]] = "posted"
      <3>1. i + 1 \in 1..Len(queue) /\ 1 \in 1..Len(queue) /\ i + 1 # 1
        BY <2>2
      <3>2. queue[i + 1] # queue[1]
        BY <3>1 DEF Queued
      <3> QED BY <2>2, <2>3, <3>1, <3>2 DEF Queued
    <2>5. ASSUME NEW i \in 1..Len(queue'), NEW j \in 1..Len(queue'),
                 queue'[i] = queue'[j]
          PROVE  i = j
      <3>1. i + 1 \in 1..Len(queue) /\ j + 1 \in 1..Len(queue)
        BY <2>2
      <3> QED BY <2>2, <2>5, <3>1 DEF Queued
    <2> QED BY <2>4, <2>5 DEF Queued
  <1>2. ASSUME NEW c \in Calls, Post(c) PROVE Queued'
    <2>1. queue \in Seq(Calls) /\ queue' = Append(queue, c) /\ phase[c] = "new"
          /\ phase' = [phase EXCEPT ![c] = "posted"] /\ phase \in [Calls -> Phase]
      BY <1>2 DEF Post, TypeOK
    <2>2. /\ Len(queue') = Len(queue) + 1 /\ Len(queue) \in Nat
          /\ queue'[Len(queue')] = c
          /\ \A i \in 1..Len(queue) : queue'[i] = queue[i] /\ queue[i] \in Calls
      BY <2>1
    <2>3. \A i \in 1..Len(queue) : queue[i] # c
      BY <2>1 DEF Queued
    <2>4. \A i \in 1..Len(queue') : i = Len(queue') \/ i \in 1..Len(queue)
      BY <2>2
    <2>5. ASSUME NEW i \in 1..Len(queue') PROVE phase'[queue'[i]] = "posted"
      BY <2>1, <2>2, <2>4 DEF Queued
    <2>6. ASSUME NEW i \in 1..Len(queue'), NEW j \in 1..Len(queue'),
                 queue'[i] = queue'[j]
          PROVE  i = j
      BY <2>2, <2>3, <2>4, <2>6 DEF Queued
    <2> QED BY <2>5, <2>6 DEF Queued
  <1>3. ASSUME NEW c \in Calls, Step(c) PROVE Queued'
    <2>1. /\ phase[c] # "posted" /\ UNCHANGED queue
          /\ \E f \in Phase : phase' = [phase EXCEPT ![c] = f]
      BY <1>3 DEF Step, Emplace, Lock, Acquire, Check, Wake, Call, BackOff, Retry,
                  Slept, Finish, Phase
    <2>2. \A d \in Calls : d # c => phase'[d] = phase[d]
      BY <2>1 DEF TypeOK
    <2>3. \A i \in 1..Len(queue) : queue[i] \in Calls
      BY DEF TypeOK
    <2> QED BY <2>1, <2>2, <2>3 DEF Queued
  <1>4. CASE Tick \/ UNCHANGED vars
    BY <1>4 DEF Tick, vars, Queued
  <1> QED BY <1>1, <1>2, <1>3, <1>4 DEF Next

LEMMA ExclAlone ==
    ASSUME Excl, NEW c \in Calls, NEW d \in Calls,
           Exchanging(c), Exchanging(d), PathOf[c] = PathOf[d]
    PROVE  c = d
  <1>1. bucketOf[c] # NoCall /\ bucketOf[d] # NoCall
    BY DEF Excl, HasBucket, Exchanging
  <1>2. bucketOf[c] = bucketOf[d]
    BY <1>1 DEF Excl, Found
  <1> QED BY <1>2 DEF Excl, Held

\* The bucket of a call that exchanges is that of its name and no other's.
LEMMA ExclBucket ==
    ASSUME Excl, NEW c \in Calls, bucketOf[c] # NoCall
    PROVE  /\ bucketOf[c] \in Calls
           /\ buckets[PathOf[c]] = bucketOf[c]
           /\ \A p \in Paths : buckets[p] = bucketOf[c] => p = PathOf[c]
  <1>1. buckets[PathOf[c]] = bucketOf[c] /\ bucketOf[c] \in Calls
    BY DEF Excl, Found, TypeOK
  <1>2. PathOf[c] \in Paths
    BY ConstantTypes
  <1> QED BY <1>1, <1>2 DEF Excl, Buckets

\* The mutex of a bucket, whoever created it, is held by one call at a time.
LEMMA HeldStep ==
    ASSUME TypeOK, HasBucket, Held, [Next]_vars
    PROVE  Held'
  <1>1. ASSUME NEW c \in Calls, bucketOf[c] # NoCall PROVE bucketOf[c] \in Calls
    BY <1>1 DEF TypeOK
  <1>2. CASE Start
    <2>1. Head(queue) \in Calls
      BY <1>2 DEF Start, TypeOK
    <2> QED BY <1>2, <2>1 DEF Start, Held, Exchanging, TypeOK
  <1>3. CASE Tick
    <2> SUFFICES ASSUME NEW c \in Calls, Exchanging(c)'
                 PROVE  bucket'[bucketOf'[c]].holder = c
      BY DEF Held
    <2>1. Exchanging(c) /\ bucketOf'[c] = bucketOf[c] /\ bucketOf[c] # NoCall
      BY <1>3 DEF Tick, Exchanging, HasBucket
    <2>2. bucketOf[c] \in Calls /\ bucket[bucketOf[c]] \in BucketState
      BY <1>1, <2>1 DEF TypeOK
    <2>3. bucket'[bucketOf[c]].holder = bucket[bucketOf[c]].holder
      BY <1>3, <2>2 DEF Tick, BucketState
    <2> QED BY <2>1, <2>3 DEF Held
  <1>4. ASSUME NEW c \in Calls, Post(c) \/ Emplace(c) PROVE Held'
    BY <1>4 DEF Post, Emplace, Held, Exchanging, TypeOK
  <1>5. ASSUME NEW c \in Calls, Lock(c) PROVE Held'
    <2>1. bucketOf[c] \in Calls
      BY <1>1, <1>5 DEF Lock, Acquire, HasBucket
    <2> SUFFICES ASSUME NEW d \in Calls, Exchanging(d)'
                 PROVE  bucket'[bucketOf'[d]].holder = d
      BY DEF Held
    <2>2. bucketOf' = bucketOf
          /\ bucket' = [bucket EXCEPT ![bucketOf[c]].holder = c]
          /\ bucket[bucketOf[c]].holder = NoCall
      BY <1>5 DEF Lock, Acquire
    <2>3. CASE d = c
      BY <2>1, <2>2, <2>3 DEF TypeOK, BucketState
    <2>4. CASE d # c
      <3>1. Exchanging(d)
        BY <1>5, <2>4 DEF Lock, Exchanging, TypeOK
      <3>2. bucket[bucketOf[d]].holder = d /\ d # NoCall
        BY <3>1, RatelimitAssumption DEF Held, RatelimitAssumption
      <3>3. bucketOf[d] # bucketOf[c]
        BY <2>2, <3>2
      <3> QED BY <2>2, <3>2, <3>3 DEF TypeOK
    <2> QED BY <2>3, <2>4
  <1>6. ASSUME NEW c \in Calls,
               Check(c) \/ Wake(c) \/ Call(c) \/ BackOff(c) \/ Retry(c)
        PROVE  Held'
    <2>1. Exchanging(c) /\ UNCHANGED <<bucket, bucketOf>>
      BY <1>6 DEF Check, Wake, Call, BackOff, Retry, Slept, Exchanging
    <2>2. \E f \in Phase : phase' = [phase EXCEPT ![c] = f]
      BY <1>6 DEF Check, Wake, Call, BackOff, Retry, Phase
    <2>3. \A d \in Calls : d # c => phase'[d] = phase[d]
      BY <2>2 DEF TypeOK
    <2> QED BY <2>1, <2>3 DEF Held, Exchanging
  <1>7. ASSUME NEW c \in Calls, Finish(c) PROVE Held'
    <2>1. /\ Exchanging(c) /\ UNCHANGED bucketOf
          /\ bucket' = [bucket EXCEPT ![bucketOf[c]] = Stored(@, reply[c])]
          /\ phase' = [phase EXCEPT ![c] = "done"]
      BY <1>7 DEF Finish, Exchanging
    <2> SUFFICES ASSUME NEW d \in Calls, Exchanging(d)'
                 PROVE  bucket'[bucketOf[d]].holder = d
      BY <2>1 DEF Held
    <2>2. d # c /\ Exchanging(d)
      BY <2>1 DEF Exchanging, TypeOK
    <2>3. bucketOf[d] # bucketOf[c]
      BY <2>1, <2>2 DEF Held
    <2> QED BY <2>1, <2>2, <2>3 DEF Held, TypeOK
  <1>8. CASE UNCHANGED vars
    BY <1>8 DEF vars, Held, Exchanging
  <1> QED BY <1>2, <1>3, <1>4, <1>5, <1>6, <1>7, <1>8 DEF Next, Step

LEMMA ExclStep ==
    ASSUME "mapRace" \notin hazards, Excl, [Next]_vars
    PROVE  Excl'
  <1>1. TypeOK' /\ HasBucket' /\ Queued' /\ Held'
    BY TypeStep, QueuedStep, HeldStep DEF Excl
  <1>2. CASE Start
    <2>1. Head(queue) \in Calls
      BY <1>2 DEF Start, Excl, TypeOK
    <2>2. Buckets'
      BY <1>2 DEF Start, Excl, Buckets
    <2>3. Found'
      BY <1>2, <2>1 DEF Start, Excl, Found, TypeOK
    <2> QED BY <1>1, <2>2, <2>3 DEF Excl
  <1>3. ASSUME NEW c \in Calls, Emplace(c) PROVE Excl'
    <2> DEFINE p == PathOf[c]
    <2>1. p \in Paths
      BY ConstantTypes
    <2>2. \/ buckets[p] # NoCall /\ UNCHANGED buckets
             /\ bucketOf' = [bucketOf EXCEPT ![c] = buckets[p]]
          \/ buckets[p] = NoCall /\ buckets' = [buckets EXCEPT ![p] = c]
             /\ bucketOf' = [bucketOf EXCEPT ![c] = c]
      BY <1>3 DEF Emplace
    <2>3. Buckets'
      BY <2>1, <2>2 DEF Excl, Buckets, TypeOK
    <2>4. Found'
      <3> SUFFICES ASSUME NEW d \in Calls, bucketOf'[d] # NoCall
                   PROVE  bucketOf'[d] = buckets'[PathOf[d]]
        BY DEF Found
      <3>1. /\ PathOf[d] \in Paths
            /\ bucketOf[d] # NoCall => bucketOf[d] = buckets[PathOf[d]]
            /\ bucketOf \in [Calls -> Calls \cup {NoCall}]
            /\ buckets \in [Paths -> Calls \cup {NoCall}]
        BY ConstantTypes DEF Excl, Found, TypeOK
      <3>2. CASE d = c
        BY <2>1, <2>2, <3>1, <3>2
      <3>3. CASE d # c
        BY <2>1, <2>2, <3>1, <3>3
      <3> QED BY <3>2, <3>3
    <2> QED BY <1>1, <2>3, <2>4 DEF Excl
  <1>4. CASE UNCHANGED <<buckets, bucketOf>>
    BY <1>1, <1>4 DEF Excl, Buckets, Found
  <1>5. ASSUME NEW c \in Calls,
               Post(c) \/ Lock(c) \/ Check(c) \/ Wake(c) \/ Call(c) \/ BackOff(c)
                  \/ Retry(c) \/ Finish(c)
        PROVE  UNCHANGED <<buckets, bucketOf>>
    BY <1>5 DEF Post, Lock, Check, Wake, Call, BackOff, Retry, Finish
  <1>6. Tick \/ UNCHANGED vars => UNCHANGED <<buckets, bucketOf>>
    BY DEF Tick, vars
  <1> QED BY <1>2, <1>3, <1>4, <1>5, <1>6 DEF Next, Step

LEMMA ExclInit == Init => Excl
  BY InitType DEF Init, HasBucket, Queued, Excl, Buckets, Found, Held, Exchanging

\* One exchange per bucket at a time, and one per name unless emplaces into
\* _buckets race (bucket.hpp:100, ratelimit.hpp:84): for any number of calls,
\* names and threads, whatever limits and clocks and whatever goes wrong.
THEOREM Exclusion == Spec => []OneAtATime
  <1> DEFINE Safe == TypeOK /\ HasBucket /\ Held
             Named == "mapRace" \notin hazards => Excl
  <1>1. Init => Safe /\ Named
    BY ExclInit DEF Excl
  <1>2. Safe /\ Named /\ [Next]_vars => Safe' /\ Named'
    BY TypeStep, HeldStep, ExclStep, HazardsStay
  <1>3. Safe /\ Named => OneAtATime
    <2> SUFFICES ASSUME Safe, Named, NEW c \in Calls, NEW d \in Calls, c # d,
                        Exchanging(c), Exchanging(d)
                 PROVE  /\ bucketOf[c] # bucketOf[d]
                        /\ PathOf[c] = PathOf[d] => "mapRace" \in hazards
      BY DEF OneAtATime
    <2>1. bucketOf[c] # bucketOf[d]
      BY DEF Held
    <2>2. PathOf[c] = PathOf[d] => "mapRace" \in hazards
      BY ExclAlone
    <2> QED BY <2>1, <2>2
  <1> QED BY <1>1, <1>2, <1>3, PTL DEF Spec

-----------------------------------------------------------------------------
(* No call is refused while the clocks agree and no reply is lost.  Every  *)
(* bucket then mirrors the server's window (Mirrored), which is not        *)
(* inductive: it needs that a name has one bucket, that the holder of its  *)
(* mutex is the only call that exchanges, and what an answer carries until *)
(* it is stored.                                                           *)

InSync == Skew <= 0 /\ hazards = {}

NoRetry == \A c \in Calls : phase[c] \notin {"backoff", "resent"}

Fits == \A p \in Paths : server[p].left <= WindowOf(p)

\* The answer that is not stored yet knows the server's window.
Answered ==
    \A c \in Calls :
        phase[c] = "sent" => Knows(reply[c], server[PathOf[c]])

\* A call on its way to the wire was admitted, and still would be.
Admitted == \A c \in Calls : phase[c] = "send" => CanPerform(bucket[bucketOf[c]])

IInv == /\ Excl /\ NoRetry /\ Fits /\ Answered /\ Admitted
        /\ Mirrored /\ NeverRefused

\* What an answer or a bucket knows of a window, it still knows a tick later.
LEMMA KnowsLater ==
    ASSUME NEW r, NEW w, NEW r2, NEW w2,
           r.reset \in Nat, w.left \in Nat, Knows(r, w),
           r2.limit = r.limit, r2.remaining = r.remaining,
           r2.reset = Later(r.reset), w2.left = Later(w.left),
           w2.remaining = w.remaining
    PROVE  Knows(r2, w2)
  BY DEF Knows, Later

\* A bucket that mirrors the server's window admits no call it would refuse.
LEMMA Accepts ==
    ASSUME InSync, IInv, NEW c \in Calls, phase[c] = "send"
    PROVE  /\ Own(c) \in WindowState /\ Own(c).remaining # 0
           /\ Own(c).left <= WindowOf(PathOf[c])
           /\ Verdict(c) = Accepted(Take(Own(c)))
  <1> DEFINE p == PathOf[c]
             b == bucket[buckets[p]]
             w == server[p]
  <1>1. /\ p \in Paths /\ WindowOf(p) \in Nat \ {0} /\ Limit \in Nat \ {0}
        /\ Excl /\ bucketOf[c] # NoCall
    BY ConstantTypes DEF IInv, Excl, HasBucket
  <1>2. buckets[p] = bucketOf[c] /\ bucketOf[c] \in Calls
    BY <1>1, ExclBucket
  <1>3. b \in BucketState /\ w \in WindowState
    BY <1>1, <1>2 DEF Excl, TypeOK
  <1>4. CanPerform(b)
    BY <1>2 DEF IInv, Admitted
  <1>5. ~ \E d \in Calls : PathOf[d] = p /\ phase[d] \in {"sent", "resent"}
    <2> SUFFICES ASSUME NEW d \in Calls, PathOf[d] = p,
                        phase[d] \in {"sent", "resent"}
                 PROVE  FALSE
      OBVIOUS
    <2>1. c = d
      BY <1>1, ExclAlone DEF Exchanging
    <2> QED BY <2>1
  <1>6. Knows(b, w)
    BY <1>1, <1>2, <1>5 DEF IInv, Mirrored
  <1>7. w.left <= WindowOf(p) /\ w.left \in Nat
    BY <1>1, <1>3 DEF IInv, Fits, WindowState
  <1>8. w.left # 0 => w.remaining # 0
    BY <1>3, <1>4, <1>6, <1>7 DEF Knows, CanPerform, BucketState, WindowState
  <1>9. Own(c) \in WindowState /\ Own(c).remaining # 0 /\ Own(c).left <= WindowOf(p)
    BY <1>1, <1>3, <1>7, <1>8 DEF Own, Current, WindowState
  <1>10. "global" \notin hazards
    BY DEF InSync
  <1> QED BY <1>9, <1>10 DEF Verdict

\* The answer to a call knows the window the call has left at the server.
LEMMA CallInv ==
    ASSUME InSync, IInv, Excl', NEW c \in Calls, Call(c)
    PROVE  IInv'
  <1> DEFINE p == PathOf[c]
             w == Take(Own(c))
             r == Received(c, Accepted(w), BypassWindow)
  <1>1. /\ Own(c) \in WindowState /\ Own(c).remaining # 0
        /\ Own(c).left <= WindowOf(p)
        /\ Verdict(c) = Accepted(w)
    BY Accepts DEF Call
  <1>2. /\ p \in Paths /\ WindowOf(p) \in Nat /\ Limit \in Nat \ {0}
        /\ BypassWindow \in Nat /\ TypeOK
    BY ConstantTypes DEF IInv, Excl
  <1>3. w \in WindowState /\ w.left = Own(c).left
    BY <1>1, TakeType DEF Take, WindowState
  <1>4. reply' = [reply EXCEPT ![c] = r] /\ Serve(c)
    BY <1>1 DEF Call, Exchange, InSync
  <1>5. server' = [server EXCEPT ![p] = w]
    BY <1>1, <1>4 DEF Serve, Accepted
  <1>6. Knows(r, w) /\ r.code = "ok"
    <2>1. ResetHeader(w.left) \in Nat /\ ResetHeader(w.left) >= w.left
      BY <1>2, <1>3, ResetHeaderLemma DEF TypeOK, WindowState, InSync
    <2>2. CASE p \in Bypass
      BY <1>1, <1>2, <1>3, <2>2 DEF Received, Accepted, Knows, WindowOf, WindowState
    <2>3. CASE p \notin Bypass
      BY <1>2, <1>3, <2>1, <2>3 DEF Received, Accepted, Knows, WindowState
    <2> QED BY <2>2, <2>3
  <1> HIDE DEF r, w
  <1>7. phase' = [phase EXCEPT ![c] = "sent"] /\ UNCHANGED <<bucket, bucketOf, buckets>>
    BY DEF Call
  <1>8. Exchanging(c)
    BY DEF Call, Exchanging
  <1>9. ASSUME NEW d \in Calls, Exchanging(d), d # c PROVE PathOf[d] # p
    BY <1>8, <1>9, ExclAlone DEF IInv
  <1>10. NoRetry' /\ Admitted'
    BY <1>2, <1>7 DEF IInv, NoRetry, Admitted, TypeOK
  <1>11. Fits'
    BY <1>1, <1>2, <1>3, <1>5 DEF IInv, Fits, TypeOK, WindowOf
  <1>12. NeverRefused'
    BY <1>2, <1>4, <1>6 DEF IInv, NeverRefused, TypeOK
  <1>13. Answered'
    <2> SUFFICES ASSUME NEW d \in Calls, phase'[d] = "sent"
                 PROVE  Knows(reply'[d], server'[PathOf[d]])
      BY DEF Answered
    <2>1. CASE d = c
      BY <1>2, <1>4, <1>5, <1>6, <2>1 DEF TypeOK
    <2>2. CASE d # c
      <3>1. phase[d] = "sent"
        BY <1>2, <1>7, <2>2 DEF TypeOK
      <3>2. PathOf[d] # p
        BY <1>9, <2>2, <3>1 DEF Exchanging
      <3> QED BY <1>2, <1>4, <1>5, <2>2, <3>1, <3>2 DEF IInv, Answered, TypeOK
    <2> QED BY <2>1, <2>2
  <1>14. Mirrored'
    <2> SUFFICES ASSUME NEW q \in Paths
                 PROVE  \/ \E d \in Calls : PathOf[d] = q /\ phase'[d] \in {"sent", "resent"}
                        \/ buckets[q] = NoCall /\ server'[q].left = 0
                        \/ buckets[q] # NoCall /\ Knows(bucket[buckets[q]], server'[q])
      BY <1>7 DEF Mirrored
    <2>1. CASE q = p
      BY <1>2, <1>7, <2>1 DEF TypeOK
    <2>2. CASE q # p
      <3>1. server'[q] = server[q]
        BY <1>2, <1>5, <2>2 DEF TypeOK
      <3>2. \A d \in Calls : PathOf[d] = q => phase'[d] = phase[d]
        BY <1>2, <1>7, <2>2 DEF TypeOK
      <3> QED BY <3>1, <3>2 DEF IInv, Mirrored
    <2> QED BY <2>1, <2>2
  <1> QED BY <1>10, <1>11, <1>12, <1>13, <1>14 DEF IInv

\* Storing the answer makes the bucket mirror the server's window.
LEMMA FinishInv ==
    ASSUME InSync, IInv, Excl', NEW c \in Calls, Finish(c)
    PROVE  IInv'
  <1> DEFINE p == PathOf[c]
             k == bucketOf[c]
  <1>1. /\ p \in Paths /\ TypeOK /\ Excl /\ k # NoCall
        /\ phase[c] = "sent" /\ Exchanging(c)
    BY ConstantTypes DEF IInv, NoRetry, Finish, Excl, HasBucket, Exchanging
  <1>2. k \in Calls /\ buckets[p] = k /\ \A q \in Paths : buckets[q] = k => q = p
    BY <1>1, ExclBucket
  <1>3. /\ phase' = [phase EXCEPT ![c] = "done"]
        /\ bucket' = [bucket EXCEPT ![k] = Stored(@, reply[c])]
        /\ UNCHANGED <<bucketOf, buckets, reply, server>>
    BY DEF Finish
  <1>4. Knows(bucket'[k], server[p])
    <2>1. Knows(reply[c], server[p])
      BY <1>1 DEF IInv, Answered
    <2>2. bucket'[k] = Stored(bucket[k], reply[c])
      BY <1>1, <1>2, <1>3 DEF TypeOK
    <2> QED BY <2>1, <2>2 DEF Knows, Stored
  <1>5. \A d \in Calls : d # k => bucket'[d] = bucket[d]
    BY <1>1, <1>3 DEF TypeOK
  <1>6. \A d \in Calls : d # c => phase'[d] = phase[d]
    BY <1>1, <1>3 DEF TypeOK
  <1>7. phase'[c] = "done"
    BY <1>1, <1>3 DEF TypeOK
  <1>8. NoRetry' /\ Fits' /\ NeverRefused' /\ Answered'
    BY <1>3, <1>6, <1>7 DEF IInv, NoRetry, Fits, NeverRefused, Answered
  <1>9. Admitted'
    <2> SUFFICES ASSUME NEW d \in Calls, phase'[d] = "send"
                 PROVE  CanPerform(bucket'[bucketOf[d]])
      BY <1>3 DEF Admitted
    <2>1. d # c /\ phase[d] = "send" /\ Exchanging(d)
      BY <1>6, <1>7 DEF Exchanging
    <2>2. bucketOf[d] # k /\ bucketOf[d] \in Calls
      BY <1>1, <2>1, ExclBucket DEF Excl, Held, HasBucket
    <2> QED BY <1>5, <2>1, <2>2 DEF IInv, Admitted
  <1>10. Mirrored'
    <2> SUFFICES ASSUME NEW q \in Paths
                 PROVE  \/ \E d \in Calls : PathOf[d] = q /\ phase'[d] \in {"sent", "resent"}
                        \/ buckets[q] = NoCall /\ server[q].left = 0
                        \/ buckets[q] # NoCall /\ Knows(bucket'[buckets[q]], server[q])
      BY <1>3 DEF Mirrored
    <2>1. CASE q = p
      BY <1>1, <1>2, <1>4, <2>1
    <2>2. CASE q # p
      <3>1. buckets[q] # NoCall => bucket'[buckets[q]] = bucket[buckets[q]]
        BY <1>1, <1>2, <1>5, <2>2 DEF TypeOK
      <3>2. \A d \in Calls : PathOf[d] = q => phase'[d] = phase[d]
        BY <1>6, <2>2
      <3> QED BY <3>1, <3>2 DEF IInv, Mirrored
    <2> QED BY <2>1, <2>2
  <1> QED BY <1>8, <1>9, <1>10 DEF IInv

LEMMA TickInv ==
    ASSUME InSync, IInv, Excl', Tick
    PROVE  IInv'
  <1>1. /\ TypeOK /\ Excl
        /\ \A p \in Paths : WindowOf(p) \in Nat \ {0}
        /\ \A c \in Calls : PathOf[c] \in Paths
    BY ConstantTypes DEF IInv, Excl
  <1>2. UNCHANGED <<phase, bucketOf, buckets>>
    BY DEF Tick
  <1>3. ASSUME NEW c \in Calls
        PROVE  /\ bucket'[c].limit = bucket[c].limit
               /\ bucket'[c].remaining = bucket[c].remaining
               /\ bucket'[c].reset = Later(bucket[c].reset)
               /\ bucket[c].reset \in Nat
    BY <1>1 DEF Tick, TypeOK, BucketState
  <1>4. ASSUME NEW c \in Calls
        PROVE  /\ reply'[c].limit = reply[c].limit
               /\ reply'[c].remaining = reply[c].remaining
               /\ reply'[c].code = reply[c].code
               /\ reply'[c].reset = Later(reply[c].reset)
               /\ reply[c].reset \in Nat
    BY <1>1 DEF Tick, TypeOK, Reply
  <1>5. ASSUME NEW p \in Paths
        PROVE  /\ server'[p].remaining = server[p].remaining
               /\ server'[p].left = Later(server[p].left)
               /\ server[p].left \in Nat
    BY <1>1 DEF Tick, TypeOK, WindowState
  <1>6. NoRetry' /\ NeverRefused'
    BY <1>2, <1>4 DEF IInv, NoRetry, NeverRefused
  <1>7. Fits'
    BY <1>1, <1>5 DEF IInv, Fits, Later, WindowOf
  <1>8. Answered'
    <2> SUFFICES ASSUME NEW c \in Calls, phase[c] = "sent"
                 PROVE  Knows(reply'[c], server'[PathOf[c]])
      BY <1>2 DEF Answered
    <2>1. Knows(reply[c], server[PathOf[c]]) /\ PathOf[c] \in Paths
      BY <1>1 DEF IInv, Answered
    <2> QED BY <1>4, <1>5, <2>1, KnowsLater
  <1>9. Admitted'
    <2> SUFFICES ASSUME NEW c \in Calls, phase[c] = "send"
                 PROVE  CanPerform(bucket'[bucketOf[c]])
      BY <1>2 DEF Admitted
    <2>1. CanPerform(bucket[bucketOf[c]])
      BY DEF IInv, Admitted
    <2>2. bucketOf[c] \in Calls
      BY <1>1, ExclBucket DEF Excl, HasBucket
    <2> QED BY <1>3, <2>1, <2>2 DEF CanPerform, Later
  <1>10. Mirrored'
    <2> SUFFICES ASSUME NEW p \in Paths
                 PROVE  \/ \E c \in Calls : PathOf[c] = p /\ phase[c] \in {"sent", "resent"}
                        \/ buckets[p] = NoCall /\ server'[p].left = 0
                        \/ buckets[p] # NoCall /\ Knows(bucket'[buckets[p]], server'[p])
      BY <1>2 DEF Mirrored
    <2>1. \/ \E c \in Calls : PathOf[c] = p /\ phase[c] \in {"sent", "resent"}
          \/ buckets[p] = NoCall /\ server[p].left = 0
          \/ buckets[p] # NoCall /\ Knows(bucket[buckets[p]], server[p])
      BY DEF IInv, Mirrored
    <2>2. CASE server[p].left = 0 /\ buckets[p] = NoCall
      BY <1>5, <2>2 DEF Later
    <2>3. CASE buckets[p] # NoCall /\ Knows(bucket[buckets[p]], server[p])
      <3>1. buckets[p] \in Calls
        BY <1>1, <2>3 DEF TypeOK
      <3> QED BY <1>3, <1>5, <2>3, <3>1, KnowsLater
    <2> QED BY <2>1, <2>2, <2>3
  <1> QED BY <1>6, <1>7, <1>8, <1>9, <1>10 DEF IInv

\* The steps of a call before it exchanges, and after it: none touches the
\* server, an answer, or what a bucket keeps of one.
LEMMA QuietInv ==
    ASSUME IInv, Excl', UNCHANGED <<reply, server>>,
           NEW c \in Calls, \A d \in Calls : d # c => phase'[d] = phase[d],
           phase[c] \notin {"sent", "resent"},
           phase'[c] \notin {"sent", "resent", "backoff"},
           phase'[c] = "send" => CanPerform(bucket[bucketOf[c]])
                                   /\ UNCHANGED <<bucket, bucketOf>>,
           \A d \in Calls : /\ d # c => bucketOf'[d] = bucketOf[d]
                            /\ bucket'[d].limit = bucket[d].limit
                            /\ bucket'[d].remaining = bucket[d].remaining
                            /\ bucket'[d].reset = bucket[d].reset,
           \A p \in Paths : \/ buckets'[p] = buckets[p]
                            \/ buckets[p] = NoCall /\ buckets'[p] \in Calls
    PROVE  IInv'
  <1>1. TypeOK /\ Excl /\ TypeOK' /\ HasBucket'
    BY DEF IInv, Excl
  <1>2. NoRetry' /\ Fits' /\ NeverRefused' /\ Answered'
    BY DEF IInv, NoRetry, Fits, NeverRefused, Answered, WindowOf
  <1>3. Admitted'
    <2> SUFFICES ASSUME NEW d \in Calls, phase'[d] = "send"
                 PROVE  CanPerform(bucket'[bucketOf'[d]])
      BY DEF Admitted
    <2>1. CASE d = c
      BY <2>1
    <2>2. CASE d # c
      <3>1. phase[d] = "send" /\ bucketOf'[d] = bucketOf[d]
        BY <2>2
      <3>2. bucketOf[d] \in Calls
        BY <1>1, <3>1, ExclBucket DEF Excl, HasBucket
      <3> QED BY <3>1, <3>2 DEF IInv, Admitted, CanPerform
    <2> QED BY <2>1, <2>2
  <1>4. Mirrored'
    <2> SUFFICES ASSUME NEW p \in Paths
                 PROVE  \/ \E d \in Calls : PathOf[d] = p /\ phase'[d] \in {"sent", "resent"}
                        \/ buckets'[p] = NoCall /\ server[p].left = 0
                        \/ buckets'[p] # NoCall /\ Knows(bucket'[buckets'[p]], server[p])
      BY DEF Mirrored
    <2>1. \/ \E d \in Calls : PathOf[d] = p /\ phase[d] \in {"sent", "resent"}
          \/ buckets[p] = NoCall /\ server[p].left = 0
          \/ buckets[p] # NoCall /\ Knows(bucket[buckets[p]], server[p])
      BY DEF IInv, Mirrored
    <2>2. CASE \E d \in Calls : PathOf[d] = p /\ phase[d] \in {"sent", "resent"}
      BY <2>2
    <2>3. CASE buckets[p] = NoCall /\ server[p].left = 0
      <3>1. CASE buckets'[p] = NoCall
        BY <2>3, <3>1
      <3>2. CASE buckets'[p] \in Calls
        <4>1. bucket'[buckets'[p]].reset \in Nat /\ buckets'[p] # NoCall
          BY <1>1, <3>2, RatelimitAssumption DEF TypeOK, BucketState, RatelimitAssumption
        <4> QED BY <2>3, <4>1 DEF Knows
      <3> QED BY <2>3, <3>1, <3>2
    <2>4. CASE buckets[p] # NoCall /\ Knows(bucket[buckets[p]], server[p])
      <3>1. buckets'[p] = buckets[p] /\ buckets[p] \in Calls
        BY <1>1, <2>4 DEF TypeOK
      <3> QED BY <2>4, <3>1 DEF Knows
    <2> QED BY <2>1, <2>2, <2>3, <2>4
  <1> QED BY <1>2, <1>3, <1>4 DEF IInv

LEMMA IInvStep ==
    ASSUME InSync, IInv, [Next]_vars
    PROVE  IInv'
  <1>1. TypeOK /\ HasBucket /\ Excl /\ NoRetry /\ NeverRefused
    BY DEF IInv, Excl
  <1>2. Excl'
    BY <1>1, ExclStep DEF InSync
  <1>3. CASE Start
    <2> DEFINE c == Head(queue)
    <2>1. c \in Calls /\ phase \in [Calls -> Phase]
          /\ bucketOf \in [Calls -> Calls \cup {NoCall}]
      BY <1>1, <1>3 DEF Start, TypeOK
    <2>2. /\ \A d \in Calls : d # c => phase'[d] = phase[d] /\ bucketOf'[d] = bucketOf[d]
          /\ phase'[c] \in {"emplace", "lock"}
      BY <1>3, <2>1 DEF Start
    <2>3. phase[c] = "posted"
      <3>1. queue # <<>> /\ queue \in Seq(Calls)
        BY <1>1, <1>3 DEF Start, TypeOK
      <3>2. 1 \in 1..Len(queue) /\ c = queue[1]
        BY <3>1
      <3> QED BY <1>1, <3>2 DEF Excl, Queued
    <2> QED BY <1>2, <1>3, <2>1, <2>2, <2>3, QuietInv DEF Start
  <1>4. CASE Tick
    BY <1>2, <1>4, TickInv
  <1>5. ASSUME NEW c \in Calls, Post(c) PROVE IInv'
    <2>1. phase \in [Calls -> Phase]
      BY <1>1 DEF TypeOK
    <2> QED BY <1>2, <1>5, <2>1, QuietInv DEF Post
  <1>6. ASSUME NEW c \in Calls, Emplace(c) PROVE IInv'
    <2>1. phase \in [Calls -> Phase] /\ PathOf[c] \in Paths
          /\ bucketOf \in [Calls -> Calls \cup {NoCall}]
          /\ buckets \in [Paths -> Calls \cup {NoCall}]
      BY <1>1, ConstantTypes DEF TypeOK
    <2>2. \/ UNCHANGED buckets
          \/ buckets[PathOf[c]] = NoCall /\ buckets' = [buckets EXCEPT ![PathOf[c]] = c]
      BY <1>6 DEF Emplace, InSync
    <2>3. \A p \in Paths : \/ buckets'[p] = buckets[p]
                           \/ buckets[p] = NoCall /\ buckets'[p] \in Calls
      BY <2>1, <2>2
    <2>4. \A d \in Calls : d # c => bucketOf'[d] = bucketOf[d]
      BY <1>6, <2>1 DEF Emplace
    <2> QED BY <1>2, <1>6, <2>1, <2>3, <2>4, QuietInv DEF Emplace
  <1>7. ASSUME NEW c \in Calls, Lock(c) PROVE IInv'
    <2>1. phase \in [Calls -> Phase] /\ bucket \in [Calls -> BucketState]
      BY <1>1 DEF TypeOK
    <2>2. \A d \in Calls : /\ bucket'[d].limit = bucket[d].limit
                           /\ bucket'[d].remaining = bucket[d].remaining
                           /\ bucket'[d].reset = bucket[d].reset
      BY <1>7, <2>1 DEF Lock, Acquire, BucketState
    <2> QED BY <1>2, <1>7, <2>1, <2>2, QuietInv DEF Lock, Acquire
  <1>8. ASSUME NEW c \in Calls, Check(c) \/ Wake(c) PROVE IInv'
    <2>1. phase \in [Calls -> Phase]
      BY <1>1 DEF TypeOK
    <2>2. phase'[c] = "send" => CanPerform(bucket[bucketOf[c]])
      BY <1>8, <2>1 DEF Check, Wake
    <2> QED BY <1>2, <1>8, <2>1, <2>2, QuietInv DEF Check, Wake
  <1>9. ASSUME NEW c \in Calls, Call(c) PROVE IInv'
    BY <1>2, <1>9, CallInv
  <1>10. ASSUME NEW c \in Calls, BackOff(c) \/ Retry(c) PROVE FALSE
    BY <1>1, <1>10 DEF BackOff, Retry, Slept, MustRetry, NoRetry, NeverRefused
  <1>11. ASSUME NEW c \in Calls, Finish(c) PROVE IInv'
    BY <1>2, <1>11, FinishInv
  <1>12. CASE UNCHANGED vars
    BY <1>2, <1>12 DEF vars, IInv, NoRetry, Fits, Answered, Admitted, Mirrored,
                       NeverRefused, Knows, CanPerform, WindowOf
  <1> QED BY <1>3, <1>4, <1>5, <1>6, <1>7, <1>8, <1>9, <1>10, <1>11, <1>12
          DEF Next, Step

LEMMA IInvInit == Init => IInv
  <1> SUFFICES ASSUME Init PROVE IInv
    OBVIOUS
  <1>1. Excl
    BY ExclInit
  <1>2. NoRetry /\ Answered /\ Admitted /\ NeverRefused
    BY DEF Init, NoRetry, Answered, Admitted, NeverRefused, NoReply
  <1>3. Fits
    BY ConstantTypes DEF Init, Fits
  <1>4. Mirrored
    BY DEF Init, Mirrored
  <1> QED BY <1>1, <1>2, <1>3, <1>4 DEF IInv

\* With a clock that is not ahead of the server's, no lost reply, no race and no
\* global limit, no call is ever refused (bucket.hpp:80-96): for any number of
\* calls, names and threads, any limits and any windows.
THEOREM Admission == Spec => [](InSync => NeverRefused /\ Mirrored)
  <1>1. Init => (InSync => IInv)
    BY IInvInit
  <1>2. (InSync => IInv) /\ [Next]_vars => (InSync => IInv)'
    <2>1. [Next]_vars => (InSync' <=> InSync)
      BY HazardsStay DEF InSync
    <2> QED BY <2>1, IInvStep
  <1>3. (InSync => IInv) => (InSync => NeverRefused /\ Mirrored)
    BY DEF IInv
  <1> QED BY <1>1, <1>2, <1>3, PTL DEF Spec

-----------------------------------------------------------------------------
(* Nothing is carried out twice.  That the server has carried out a call   *)
(* at most once is not inductive: it needs that a call that is still to be *)
(* sent, or sent again, has not been carried out at all.                   *)

\* The calls that have had no answer yet, and those that will be repeated.
Pending(c) == \/ phase[c] \in {"new", "posted", "emplace", "lock", "check", "sleep",
                               "send", "backoff"}
              \/ phase[c] = "sent" /\ MustRetry(reply[c])

Once ==
    \A c \in Calls :
        /\ Pending(c) => effects[c] = 0
        /\ effects[c] <= 1
        /\ phase[c] \in {"sent", "resent", "done"} /\ reply[c].code = "ok"
              => effects[c] = 1

OnceInv == TypeOK /\ HasBucket /\ Queued /\ Once

\* What one exchange of a call that has not been carried out does.
LEMMA ExchangeEffect ==
    ASSUME TypeOK, NEW c \in Calls, NEW n \in Nat, Exchange(c, n), effects[c] = 0
    PROVE  /\ \A d \in Calls : d # c => reply'[d] = reply[d] /\ effects'[d] = effects[d]
           /\ effects'[c] <= 1
           /\ MustRetry(reply'[c]) => effects'[c] = 0
           /\ reply'[c].code = "ok" => effects'[c] = 1
  <1>1. /\ reply \in [Calls -> Reply] /\ effects \in [Calls -> Nat]
        /\ Verdict(c) \in Reply /\ NoReply \in Reply
    BY VerdictType DEF TypeOK, NoReply, Reply
  <1>2. \A r \in Reply : Received(c, r, n).code = r.code
    BY DEF Received, Reply
  <1>3. ASSUME Serve(c)
        PROVE  /\ \A d \in Calls : d # c => effects'[d] = effects[d]
               /\ effects'[c] <= 1
               /\ Verdict(c).code # "ok" => effects'[c] = 0
               /\ Verdict(c).code = "ok" => effects'[c] = 1
    BY <1>1, <1>3 DEF Serve
  <1>4. CASE /\ reply' = [reply EXCEPT ![c] = Received(c, Verdict(c), n)]
             /\ Serve(c)
    <2>1. reply'[c].code = Verdict(c).code
          /\ \A d \in Calls : d # c => reply'[d] = reply[d]
      BY <1>1, <1>2, <1>4
    <2> QED BY <1>3, <1>4, <2>1 DEF MustRetry
  <1>5. CASE /\ reply' = [reply EXCEPT ![c] = Received(c, NoReply, n)]
             /\ Serve(c) \/ UNCHANGED <<server, global, effects>>
    <2>1. reply'[c].code = "failed"
          /\ \A d \in Calls : d # c => reply'[d] = reply[d]
      BY <1>1, <1>2, <1>5 DEF NoReply
    <2>2. /\ \A d \in Calls : d # c => effects'[d] = effects[d]
          /\ effects'[c] <= 1
      BY <1>1, <1>3, <1>5
    <2> QED BY <2>1, <2>2 DEF MustRetry
  <1> QED BY <1>4, <1>5 DEF Exchange

LEMMA OnceStep ==
    ASSUME OnceInv, [Next]_vars
    PROVE  OnceInv'
  <1>1. /\ TypeOK /\ HasBucket /\ Queued /\ Once
        /\ phase \in [Calls -> Phase] /\ effects \in [Calls -> Nat]
    BY DEF OnceInv, TypeOK
  <1>2. TypeOK' /\ HasBucket' /\ Queued'
    BY <1>1, TypeStep, QueuedStep
  <1>3. CASE Start
    <2>1. queue # <<>> /\ queue \in Seq(Calls) /\ Head(queue) = queue[1]
          /\ 1 \in 1..Len(queue)
      BY <1>1, <1>3 DEF Start, TypeOK
    <2>2. Head(queue) \in Calls /\ phase[Head(queue)] = "posted"
      BY <1>1, <2>1 DEF Queued
    <2> QED BY <1>1, <1>2, <1>3, <2>2 DEF Start, OnceInv, Once, Pending, Phase
  <1>4. CASE Tick
    <2>1. \A c \in Calls : reply'[c].code = reply[c].code
      BY <1>1, <1>4 DEF Tick, TypeOK, Reply
    <2> QED BY <1>1, <1>2, <1>4, <2>1 DEF Tick, OnceInv, Once, Pending, MustRetry
  <1>5. ASSUME NEW c \in Calls,
               Post(c) \/ Emplace(c) \/ Lock(c) \/ Check(c) \/ Wake(c) \/ BackOff(c)
        PROVE  OnceInv'
    <2>1. /\ UNCHANGED <<reply, effects>>
          /\ Pending(c)
          /\ \E f \in {"posted", "emplace", "lock", "check", "sleep", "send", "backoff"} :
                phase' = [phase EXCEPT ![c] = f]
      BY <1>5 DEF Post, Emplace, Lock, Acquire, Check, Wake, BackOff, Pending
    <2> QED BY <1>1, <1>2, <2>1 DEF OnceInv, Once, Pending, MustRetry
  <1>6. ASSUME NEW c \in Calls, Call(c) \/ Retry(c)
        PROVE  OnceInv'
    <2>1. /\ Pending(c)
          /\ phase' = [phase EXCEPT ![c] = "sent"]
             \/ phase' = [phase EXCEPT ![c] = "resent"]
          /\ \E n \in Nat : Exchange(c, n)
      BY <1>1, <1>6, ConstantTypes DEF Call, Retry, Slept, Pending, TypeOK, Reply
    <2>2. effects[c] = 0
      BY <1>1, <2>1 DEF Once
    <2>3. /\ \A d \in Calls : d # c => reply'[d] = reply[d] /\ effects'[d] = effects[d]
          /\ effects'[c] <= 1
          /\ MustRetry(reply'[c]) => effects'[c] = 0
          /\ reply'[c].code = "ok" => effects'[c] = 1
      BY <1>1, <2>1, <2>2, ExchangeEffect
    <2>4. Once'
      <3> SUFFICES ASSUME NEW d \in Calls
                   PROVE  /\ Pending(d)' => effects'[d] = 0
                          /\ effects'[d] <= 1
                          /\ phase'[d] \in {"sent", "resent", "done"}
                                /\ reply'[d].code = "ok" => effects'[d] = 1
        BY DEF Once
      <3>1. CASE d = c
        BY <1>1, <2>1, <2>3, <3>1 DEF Pending
      <3>2. CASE d # c
        BY <1>1, <2>1, <2>3, <3>2 DEF Pending, Once, MustRetry
      <3> QED BY <3>1, <3>2
    <2> QED BY <1>2, <2>4 DEF OnceInv
  <1>7. ASSUME NEW c \in Calls, Finish(c)
        PROVE  OnceInv'
    BY <1>1, <1>2, <1>7 DEF Finish, OnceInv, Once, Pending, MustRetry
  <1>8. CASE UNCHANGED vars
    BY <1>1, <1>2, <1>8 DEF vars, OnceInv, Once, Pending, MustRetry
  <1> QED BY <1>3, <1>4, <1>5, <1>6, <1>7, <1>8 DEF Next, Step

\* No call is carried out twice, and one that is answered with success has been
\* carried out (bucket.hpp:113-128): for any number of calls, names and threads,
\* any limits, clocks and windows, and with every hazard.
THEOREM AtMostOnceEver == Spec => []AtMostOnce
  <1>1. Init => OnceInv
    BY InitType DEF Init, OnceInv, HasBucket, Queued, Once, NoReply, MustRetry, Exchanging
  <1>2. OnceInv /\ [Next]_vars => OnceInv'
    BY OnceStep
  <1>3. OnceInv => AtMostOnce
    BY DEF OnceInv, Once, AtMostOnce
  <1> QED BY <1>1, <1>2, <1>3, PTL DEF Spec

-----------------------------------------------------------------------------
(* A call that was refused is not refused again, unless the whole bot is   *)
(* out of calls.  Nobody else may use up its new window: that is where     *)
(* mutual exclusion (Excl) is needed.                                      *)

\* How long a call sleeps after answer r.
Pause(c, r) == IF PathOf[c] \in Bypass THEN BypassWindow ELSE r.retry

\* The window that refused a call ends no later than its sleep.
Waited ==
    \A c \in Calls :
        /\ phase[c] = "sent" /\ MustRetry(reply[c])
              => server[PathOf[c]].left <= Pause(c, reply[c])
        /\ phase[c] = "backoff" => server[PathOf[c]].left <= timer[c]

\* No retry has been refused.
RetriesPass == \A c \in Calls : phase[c] = "resent" => reply[c].code # "429"

TwiceInv == Excl /\ Fits /\ Waited /\ RetriesPass

\* What one exchange does to the windows, and when it is refused.
LEMMA ExchangeWindow ==
    ASSUME TypeOK, "global" \notin hazards, Fits,
           NEW c \in Calls, NEW n \in Nat, Exchange(c, n)
    PROVE  /\ \A d \in Calls : d # c => reply'[d] = reply[d]
           /\ \A p \in Paths : p # PathOf[c] => server'[p] = server[p]
           /\ Fits'
           /\ MustRetry(reply'[c]) =>
                 /\ server' = server /\ server[PathOf[c]].left # 0
                 /\ server[PathOf[c]].left <= Pause(c, reply'[c])
  <1> DEFINE p == PathOf[c]
  <1>1. /\ reply \in [Calls -> Reply] /\ server \in [Paths -> WindowState]
        /\ Verdict(c) \in Reply /\ NoReply \in Reply /\ p \in Paths
        /\ Own(c) \in WindowState
        /\ \A q \in Paths : WindowOf(q) \in Nat \ {0}
    BY VerdictType, ConstantTypes DEF TypeOK, NoReply, Reply
  <1>2. \A r \in Reply : /\ Received(c, r, n).code = r.code
                         /\ Received(c, r, n).retry = r.retry
    BY DEF Received, Reply
  <1>3. Own(c).left <= WindowOf(p)
    BY <1>1 DEF Own, Current, Fits, WindowState
  <1>4. ASSUME Serve(c)
        PROVE  /\ \A q \in Paths : q # p => server'[q] = server[q]
               /\ Fits'
    <2>1. CASE Verdict(c).code = "ok"
      <3>1. server' = [server EXCEPT ![p] = Take(Own(c))]
        BY <1>4, <2>1 DEF Serve
      <3>2. Take(Own(c)).left = Own(c).left
        BY <1>1 DEF Take, WindowState
      <3> QED BY <1>1, <1>3, <3>1, <3>2 DEF Fits, WindowOf
    <2>2. CASE Verdict(c).code # "ok"
      BY <1>4, <2>2 DEF Serve, Fits, WindowOf
    <2> QED BY <2>1, <2>2
  <1>5. CASE /\ reply' = [reply EXCEPT ![c] = Received(c, Verdict(c), n)]
             /\ Serve(c)
    <2>1. /\ reply'[c].code = Verdict(c).code /\ reply'[c].retry = Verdict(c).retry
          /\ \A d \in Calls : d # c => reply'[d] = reply[d]
      BY <1>1, <1>2, <1>5
    <2>2. ASSUME MustRetry(reply'[c])
          PROVE  /\ server' = server /\ server[p].left # 0
                 /\ server[p].left <= Pause(c, reply'[c])
      <3>1. Verdict(c).code = "429"
        BY <2>1, <2>2 DEF MustRetry
      <3>2. Own(c).remaining = 0 /\ Verdict(c) = Refused(Own(c))
        BY <3>1 DEF Verdict, Accepted
      <3>3. server[p].left # 0 /\ Own(c) = server[p]
        BY <1>1, <3>2, ConstantTypes DEF Own, Current
      <3>4. reply'[c].retry = server[p].left
        BY <2>1, <3>2, <3>3 DEF Refused
      <3>5. server[p].left <= Pause(c, reply'[c])
        BY <1>1, <3>4 DEF Pause, Fits, WindowOf, WindowState
      <3> QED BY <1>5, <3>1, <3>3, <3>5 DEF Serve
    <2> QED BY <1>4, <1>5, <2>1, <2>2
  <1>6. CASE /\ reply' = [reply EXCEPT ![c] = Received(c, NoReply, n)]
             /\ Serve(c) \/ UNCHANGED <<server, global, effects>>
    <2>1. reply'[c].code = "failed"
          /\ \A d \in Calls : d # c => reply'[d] = reply[d]
      BY <1>1, <1>2, <1>6 DEF NoReply
    <2> QED BY <1>4, <1>6, <2>1 DEF MustRetry, Fits, WindowOf
  <1> QED BY <1>5, <1>6 DEF Exchange

LEMMA TwiceStep ==
    ASSUME hazards \cap {"mapRace", "global"} = {}, TwiceInv, [Next]_vars
    PROVE  TwiceInv'
  <1>1. /\ Excl /\ TypeOK /\ Fits /\ Waited /\ RetriesPass
        /\ phase \in [Calls -> Phase] /\ timer \in [Calls -> Nat]
        /\ reply \in [Calls -> Reply] /\ server \in [Paths -> WindowState]
        /\ \A c \in Calls : PathOf[c] \in Paths
        /\ "mapRace" \notin hazards /\ "global" \notin hazards
    BY ConstantTypes DEF TwiceInv, Excl, TypeOK
  <1>2. Excl'
    BY <1>1, ExclStep
  <1>3. CASE Start
    <2>1. queue # <<>> /\ queue \in Seq(Calls) /\ Head(queue) \in Calls
      BY <1>1, <1>3 DEF Start, TypeOK
    <2>2. phase'[Head(queue)] \in {"emplace", "lock"}
      BY <1>1, <1>3, <2>1 DEF Start
    <2> QED BY <1>1, <1>2, <1>3, <2>1, <2>2
            DEF Start, TwiceInv, Fits, WindowOf, Waited, RetriesPass, Pause
  <1>4. CASE Tick
    <2>1. ASSUME NEW c \in Calls
          PROVE  /\ phase'[c] = phase[c]
                 /\ reply'[c].code = reply[c].code /\ reply'[c].retry = reply[c].retry
                 /\ timer'[c] = Later(timer[c]) /\ timer[c] \in Nat
                 /\ reply[c].retry \in Nat
      BY <1>1, <1>4 DEF Tick, Reply
    <2>2. ASSUME NEW p \in Paths
          PROVE  server'[p].left = Later(server[p].left) /\ server[p].left \in Nat
      BY <1>1, <1>4 DEF Tick, WindowState
    <2>3. Fits'
      BY <1>1, <2>2, ConstantTypes DEF Fits, Later, WindowOf
    <2>4. Waited'
      <3> SUFFICES ASSUME NEW c \in Calls
                   PROVE  /\ phase'[c] = "sent" /\ MustRetry(reply'[c])
                                => server'[PathOf[c]].left <= Pause(c, reply'[c])
                          /\ phase'[c] = "backoff" => server'[PathOf[c]].left <= timer'[c]
        BY DEF Waited
      <3>1. Pause(c, reply'[c]) = Pause(c, reply[c]) /\ Pause(c, reply[c]) \in Nat
        BY <2>1, ConstantTypes DEF Pause
      <3> QED BY <1>1, <2>1, <2>2, <3>1 DEF Waited, MustRetry, Later
    <2> QED BY <1>1, <1>2, <2>1, <2>3, <2>4 DEF TwiceInv, RetriesPass
  <1>5. ASSUME NEW c \in Calls,
               Post(c) \/ Emplace(c) \/ Lock(c) \/ Check(c) \/ Wake(c) \/ Finish(c)
        PROVE  TwiceInv'
    <2>1. /\ UNCHANGED <<reply, server>>
          /\ phase' = [phase EXCEPT ![c] = phase'[c]]
          /\ phase'[c] \notin {"sent", "backoff", "resent"}
          /\ \A d \in Calls : d # c => timer'[d] = timer[d]
      BY <1>1, <1>5 DEF Post, Emplace, Lock, Acquire, Check, Wake, Finish
    <2> QED BY <1>1, <1>2, <2>1
            DEF TwiceInv, Fits, WindowOf, Waited, RetriesPass, Pause
  <1>6. ASSUME NEW c \in Calls, Call(c) \/ Retry(c)
        PROVE  TwiceInv'
    <2>1. /\ Exchanging(c)
          /\ phase' = [phase EXCEPT ![c] = "sent"]
             \/ /\ phase' = [phase EXCEPT ![c] = "resent"]
                /\ phase[c] = "backoff" /\ timer[c] = 0
          /\ \A d \in Calls : d # c => timer'[d] = timer[d]
          /\ \E n \in Nat : Exchange(c, n)
      BY <1>1, <1>6, ConstantTypes DEF Call, Retry, Slept, Exchanging, Reply
    <2>2. /\ \A d \in Calls : d # c => reply'[d] = reply[d]
          /\ \A p \in Paths : p # PathOf[c] => server'[p] = server[p]
          /\ Fits'
          /\ MustRetry(reply'[c]) =>
                /\ server' = server /\ server[PathOf[c]].left # 0
                /\ server[PathOf[c]].left <= Pause(c, reply'[c])
      BY <1>1, <2>1, ExchangeWindow
    <2>3. Waited'
      <3> SUFFICES ASSUME NEW d \in Calls
                   PROVE  /\ phase'[d] = "sent" /\ MustRetry(reply'[d])
                                => server'[PathOf[d]].left <= Pause(d, reply'[d])
                          /\ phase'[d] = "backoff" => server'[PathOf[d]].left <= timer'[d]
        BY DEF Waited
      <3>1. CASE d = c
        BY <1>1, <2>1, <2>2, <3>1
      <3>2. CASE d # c
        <4>1. phase'[d] = phase[d] /\ timer'[d] = timer[d] /\ reply'[d] = reply[d]
          BY <1>1, <2>1, <2>2, <3>2
        <4>2. phase[d] \in {"sent", "backoff"} => PathOf[d] # PathOf[c]
          BY <1>1, <2>1, <3>2, ExclAlone DEF Exchanging
        <4> QED BY <1>1, <2>2, <4>1, <4>2 DEF Waited
      <3> QED BY <3>1, <3>2
    <2>4. RetriesPass'
      <3> SUFFICES ASSUME NEW d \in Calls, phase'[d] = "resent"
                   PROVE  reply'[d].code # "429"
        BY DEF RetriesPass
      <3>1. CASE d = c
        <4>1. phase[c] = "backoff" /\ timer[c] = 0
          BY <1>1, <2>1, <3>1
        <4>2. server[PathOf[c]].left = 0
          BY <1>1, <4>1 DEF Waited, WindowState
        <4> QED BY <2>2, <3>1, <4>2 DEF MustRetry
      <3>2. CASE d # c
        BY <1>1, <2>1, <2>2, <3>2 DEF RetriesPass
      <3> QED BY <3>1, <3>2
    <2> QED BY <1>2, <2>2, <2>3, <2>4 DEF TwiceInv
  <1>7. ASSUME NEW c \in Calls, BackOff(c)
        PROVE  TwiceInv'
    <2>1. /\ UNCHANGED <<reply, server>>
          /\ phase[c] = "sent" /\ MustRetry(reply[c])
          /\ phase' = [phase EXCEPT ![c] = "backoff"]
          /\ timer' = [timer EXCEPT ![c] = Pause(c, reply[c])]
      BY <1>7 DEF BackOff, Pause
    <2> QED BY <1>1, <1>2, <2>1
            DEF TwiceInv, Fits, WindowOf, Waited, RetriesPass, Pause
  <1>8. CASE UNCHANGED vars
    BY <1>1, <1>2, <1>8
       DEF vars, TwiceInv, Fits, WindowOf, Waited, RetriesPass, Pause
  <1> QED BY <1>3, <1>4, <1>5, <1>6, <1>7, <1>8 DEF Next, Step

\* Waiting as long as a 429 says, or for reset_bypass, is enough: the retry is
\* not refused (bucket.hpp:113-128), for any number of calls, names and threads,
\* any skew of the clocks and with lost replies, unless emplaces into _buckets
\* race or the server limits the whole bot too.
THEOREM RefusedOnce == Spec => []NeverRefusedTwice
  <1> DEFINE Alone == hazards \cap {"mapRace", "global"} = {}
             Inv == Alone => TwiceInv
  <1>1. Init => Inv
    <2>1. Init => Fits
      BY ConstantTypes DEF Init, Fits
    <2> QED BY <2>1, ExclInit DEF Init, TwiceInv, Waited, RetriesPass, NoReply
  <1>2. Inv /\ [Next]_vars => Inv'
    BY TwiceStep, HazardsStay
  <1>3. Inv => NeverRefusedTwice
    BY DEF TwiceInv, RetriesPass, NeverRefusedTwice
  <1> QED BY <1>1, <1>2, <1>3, PTL DEF Spec

=============================================================================
