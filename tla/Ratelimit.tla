------------------------------ MODULE Ratelimit ------------------------------
(***************************************************************************)
(* REST calls under the rate limiter (ratelimit/bucket.hpp and             *)
(* ratelimit/ratelimit.hpp), run by the threads of the io_context.         *)
(*                                                                         *)
(* Time is discrete and relative: every instant is kept as the number of   *)
(* ticks until it, 0 once it has passed, so that no clock grows.           *)
(***************************************************************************)
EXTENDS Integers, SequencesExt

CONSTANTS
    Calls,        \* the REST calls of the bot
    Paths,        \* bucket names
    PathOf,       \* the bucket name of each call
    Bypass,       \* names whose bucket has reset_bypass (reactions)
    Limit,        \* calls the server takes per window and bucket
    Window,       \* ticks of a window of the server
    BypassWindow, \* reset_bypass, the window of the names in Bypass
    Second,       \* ticks of the second to which the server rounds a reset
    Skew,         \* how far the clock of the bot is ahead of the server's
    GlobalLimit,  \* calls the server takes per window from the whole bot
    Workers,      \* threads that run the io_context
    Hazards,      \* the sets of AllHazards a run may meet
    NoCall        \* nullptr as a bucket, and the holder of a free mutex

\* lostReply: the exchange may fail before or after the server has handled it.
\* mapRace:   emplaces into _buckets may run at once on two threads.
\* global:    the server enforces GlobalLimit.
AllHazards == {"lostReply", "mapRace", "global"}

ASSUME RatelimitAssumption ==
    /\ PathOf \in [Calls -> Paths]
    /\ Bypass \subseteq Paths
    /\ {Limit, Window, BypassWindow, Second, GlobalLimit, Workers} \subseteq Nat \ {0}
    /\ Skew \in Int
    /\ Hazards \subseteq SUBSET AllHazards
    /\ NoCall \notin Calls

VARIABLES
    hazards,   \* what may go wrong, chosen once and for all
    queue,     \* tasks posted to the io_context
    phase,     \* where each call is
    timer,     \* ticks its thread still sleeps
    bucketOf,  \* the bucket get_bucket() returned, named by its creator
    buckets,   \* _buckets, the bucket of each name
    bucket,    \* the fields of each bucket
    reply,     \* the last rest_reply of each call
    clock,     \* the server's clock within a second
    server,    \* the server's window of each name
    global,    \* the server's window of the whole bot
    effects    \* how often the server has carried out each call

vars == <<hazards, queue, phase, timer, bucketOf, buckets, bucket, reply, clock,
          server, global, effects>>

Phase == {"new", "posted", "emplace", "lock", "check", "sleep", "send", "sent",
          "backoff", "resent", "done"}

\* reset: ticks until the reset time of the bucket, by the clock of the bot.
BucketState == [limit : Nat, remaining : Nat, reset : Nat,
                holder : Calls \cup {NoCall}]

Reply == [code : {"ok", "429", "failed"}, global : BOOLEAN,
          limit : Nat, remaining : Nat, reset : Nat, retry : Nat]

WindowState == [remaining : Nat, left : Nat]

NoReply == [code |-> "failed", global |-> FALSE, limit |-> 0, remaining |-> 0,
            reset |-> 0, retry |-> 0]

TypeOK ==
    /\ hazards \in Hazards
    /\ queue \in Seq(Calls)
    /\ phase \in [Calls -> Phase]
    /\ timer \in [Calls -> Nat]
    /\ bucketOf \in [Calls -> Calls \cup {NoCall}]
    /\ buckets \in [Paths -> Calls \cup {NoCall}]
    /\ bucket \in [Calls -> BucketState]
    /\ reply \in [Calls -> Reply]
    /\ clock \in 0..(Second - 1)
    /\ server \in [Paths -> WindowState]
    /\ global \in WindowState
    /\ effects \in [Calls -> Nat]

Init ==
    /\ hazards \in Hazards
    /\ queue = <<>>
    /\ phase = [c \in Calls |-> "new"]
    /\ timer = [c \in Calls |-> 0]
    /\ bucketOf = [c \in Calls |-> NoCall]
    /\ buckets = [p \in Paths |-> NoCall]
    /\ bucket = [c \in Calls |-> [limit |-> 0, remaining |-> 1, reset |-> 0,
                                  holder |-> NoCall]]
    /\ reply = [c \in Calls |-> NoReply]
    /\ clock = 0
    /\ server = [p \in Paths |-> [remaining |-> 0, left |-> 0]]
    /\ global = [remaining |-> 0, left |-> 0]
    /\ effects = [c \in Calls |-> 0]

-----------------------------------------------------------------------------
(* The server.                                                             *)

WindowOf(p) == IF p \in Bypass THEN BypassWindow ELSE Window

\* A window that has run out is replaced by a fresh one at the next request.
Current(w, size, length) ==
    IF w.left = 0 THEN [remaining |-> size, left |-> length] ELSE w

Take(w) == [w EXCEPT !.remaining = @ - 1]

Positive_Signed(n) == n  \* mutant: a reset that is past is kept as negative

\* The comparisons of the bot tell no instant of the past from another, and
\* sleeping until one returns at once.
Positive(n) == IF n > 0 THEN n ELSE 0

\* X-RateLimit-Reset names the end of a window in whole seconds; the bot
\* compares it with a clock that is Skew ticks ahead.
ResetHeader(left) ==
    Positive(((clock + left + Second - 1) \div Second) * Second - clock - Skew)

Accepted(w) == [code |-> "ok", global |-> FALSE, limit |-> Limit,
                remaining |-> w.remaining, reset |-> ResetHeader(w.left),
                retry |-> 0]

Refused(w) == [code |-> "429", global |-> FALSE, limit |-> Limit,
               remaining |-> 0, reset |-> ResetHeader(w.left), retry |-> w.left]

\* A global 429 carries X-RateLimit-Global and Retry-After and no other limit.
RefusedGlobally(w) == [NoReply EXCEPT !.code = "429", !.global = TRUE,
                                      !.retry = w.left]

\* The windows the server judges call c by, and its verdict.
Own(c) == Current(server[PathOf[c]], Limit, WindowOf(PathOf[c]))
Whole == Current(global, GlobalLimit, Window)

Verdict(c) ==
    IF "global" \in hazards /\ Whole.remaining = 0 THEN RefusedGlobally(Whole)
    ELSE IF Own(c).remaining = 0 THEN Refused(Own(c))
    ELSE Accepted(Take(Own(c)))

\* The server handles call c.
Serve(c) ==
    IF Verdict(c).code = "ok"
    THEN /\ server' = [server EXCEPT ![PathOf[c]] = Take(Own(c))]
         /\ global' = IF "global" \in hazards THEN Take(Whole) ELSE global
         /\ effects' = [effects EXCEPT ![c] = @ + 1]
    ELSE UNCHANGED <<server, global, effects>>

-----------------------------------------------------------------------------
(* Posting a call and finding its bucket.                                  *)

\* post_task() posts the call to the io_context.
Post(c) ==
    /\ phase[c] = "new"
    /\ phase' = [phase EXCEPT ![c] = "posted"]
    /\ queue' = Append(queue, c)
    /\ UNCHANGED <<hazards, timer, bucketOf, buckets, bucket, reply, clock,
                   server, global, effects>>

Busy == {c \in Calls : phase[c] \notin {"new", "posted", "done"}}

\* A free thread takes the first task; get_bucket() looks for its bucket.
Start ==
    LET c == Head(queue)
        b == buckets[PathOf[c]]
    IN
    /\ queue # <<>>
    /\ Cardinality(Busy) < Workers
    /\ queue' = Tail(queue)
    /\ bucketOf' = [bucketOf EXCEPT ![c] = b]
    /\ phase' = [phase EXCEPT ![c] = IF b = NoCall THEN "emplace" ELSE "lock"]
    /\ UNCHANGED <<hazards, timer, buckets, bucket, reply, clock, server,
                   global, effects>>

\* get_bucket() has not found the bucket and emplaces one.  emplace() keeps an
\* entry that is there by now, unless another thread emplaces at the same time:
\* the map has no lock, and either entry may be lost.
Emplace(c) ==
    LET p == PathOf[c]
        racing == "mapRace" \in hazards
                     /\ \E d \in Calls \ {c} : phase[d] = "emplace"
    IN
    /\ phase[c] = "emplace"
    /\ phase' = [phase EXCEPT ![c] = "lock"]
    /\ \/ /\ buckets[p] # NoCall
          /\ bucketOf' = [bucketOf EXCEPT ![c] = buckets[p]]
          /\ UNCHANGED buckets
       \/ /\ buckets[p] = NoCall \/ racing
          /\ bucketOf' = [bucketOf EXCEPT ![c] = c]
          /\ buckets' = [buckets EXCEPT ![p] = c]
       \/ /\ racing
          /\ bucketOf' = [bucketOf EXCEPT ![c] = c]
          /\ UNCHANGED buckets
    /\ UNCHANGED <<hazards, queue, timer, bucket, reply, clock, server, global,
                   effects>>

-----------------------------------------------------------------------------
(* bucket::perform().                                                      *)

Lock_NoWait(c) ==  \* mutant: the mutex is not waited for
    /\ phase[c] = "lock"
    /\ bucket' = [bucket EXCEPT ![bucketOf[c]].holder = c]

Acquire(c) ==
    /\ phase[c] = "lock"
    /\ bucket[bucketOf[c]].holder = NoCall
    /\ bucket' = [bucket EXCEPT ![bucketOf[c]].holder = c]

\* lock_guard<mutex>: threads get the mutex in any order.
Lock(c) ==
    /\ Acquire(c)
    /\ phase' = [phase EXCEPT ![c] = "check"]
    /\ UNCHANGED <<hazards, queue, timer, bucketOf, buckets, reply, clock,
                   server, global, effects>>

CanPerform(b) == b.limit = 0 \/ b.remaining > 0 \/ b.reset = 0

\* The loop of perform(): sleep until the reset, with the mutex held.
Check(c) ==
    LET b == bucket[bucketOf[c]] IN
    /\ phase[c] = "check"
    /\ phase' = [phase EXCEPT ![c] = IF CanPerform(b) THEN "send" ELSE "sleep"]
    /\ timer' = [timer EXCEPT ![c] = IF CanPerform(b) THEN 0 ELSE b.reset]
    /\ UNCHANGED <<hazards, queue, bucketOf, buckets, bucket, reply, clock,
                   server, global, effects>>

Wake(c) ==
    /\ phase[c] = "sleep" /\ timer[c] = 0
    /\ phase' = [phase EXCEPT ![c] = "check"]
    /\ UNCHANGED <<hazards, queue, timer, bucketOf, buckets, bucket, reply,
                   clock, server, global, effects>>

\* What perform() goes by after answer r: with reset_bypass, the reset time is
\* not the header's but what remains of the window, counted from _now.
Received(c, r, bypass) ==
    IF PathOf[c] \in Bypass THEN [r EXCEPT !.reset = bypass] ELSE r

\* _call(params): one exchange with the server.  execute() catches what fails,
\* before or after the server has handled the call, and returns a reply with no
\* status and no limits.
Exchange(c, bypass) ==
    \/ /\ reply' = [reply EXCEPT ![c] = Received(c, Verdict(c), bypass)]
       /\ Serve(c)
    \/ /\ "lostReply" \in hazards
       /\ reply' = [reply EXCEPT ![c] = Received(c, NoReply, bypass)]
       /\ Serve(c) \/ UNCHANGED <<server, global, effects>>

\* _now is read when the first answer is there.
Call(c) ==
    /\ phase[c] = "send"
    /\ phase' = [phase EXCEPT ![c] = "sent"]
    /\ Exchange(c, BypassWindow)
    /\ UNCHANGED <<hazards, queue, timer, bucketOf, buckets, bucket, clock>>

MustRetry_Failed(r) ==  \* mutant: an exchange that failed is repeated too
    r.code # "ok"

MustRetry(r) == r.code = "429"

\* The answer is a 429: sleep for as long as it says, or for reset_bypass.
BackOff(c) ==
    /\ phase[c] = "sent" /\ MustRetry(reply[c])
    /\ phase' = [phase EXCEPT ![c] = "backoff"]
    /\ timer' = [timer EXCEPT ![c] = IF PathOf[c] \in Bypass THEN BypassWindow
                                     ELSE reply[c].retry]
    /\ UNCHANGED <<hazards, queue, bucketOf, buckets, bucket, reply, clock,
                   server, global, effects>>

Slept_NotAtAll(c) ==  \* mutant: the retry does not wait
    phase[c] = "backoff"

Slept(c) == phase[c] = "backoff" /\ timer[c] = 0

\* The call is repeated, once; _now is not read again.
Retry(c) ==
    /\ Slept(c)
    /\ phase' = [phase EXCEPT ![c] = "resent"]
    /\ timer' = [timer EXCEPT ![c] = 0]
    /\ Exchange(c, reply[c].reset)
    /\ UNCHANGED <<hazards, queue, bucketOf, buckets, bucket, clock>>

Stored_KeepsLock(b, r) ==  \* mutant: the mutex is not released
    [b EXCEPT !.limit = r.limit, !.remaining = r.remaining, !.reset = r.reset]

\* What a bucket keeps of reply r.
Stored(b, r) ==
    [limit |-> r.limit, remaining |-> r.remaining, holder |-> NoCall,
     reset |-> r.reset]

\* The limits of the last answer are stored, the mutex is released and the
\* promise of the call is fulfilled.
Finish(c) ==
    /\ \/ phase[c] = "sent" /\ ~MustRetry(reply[c])
       \/ phase[c] = "resent"
    /\ phase' = [phase EXCEPT ![c] = "done"]
    /\ bucket' = [bucket EXCEPT ![bucketOf[c]] = Stored(@, reply[c])]
    /\ UNCHANGED <<hazards, queue, timer, bucketOf, buckets, reply, clock,
                   server, global, effects>>

-----------------------------------------------------------------------------
Later(n) == IF n = 0 THEN 0 ELSE n - 1

Tick ==
    /\ clock' = (clock + 1) % Second
    /\ timer' = [c \in Calls |-> Later(timer[c])]
    /\ bucket' = [c \in Calls |-> [bucket[c] EXCEPT !.reset = Later(@)]]
    /\ reply' = [c \in Calls |-> [reply[c] EXCEPT !.reset = Later(@)]]
    /\ server' = [p \in Paths |-> [server[p] EXCEPT !.left = Later(@)]]
    /\ global' = [global EXCEPT !.left = Later(@)]
    /\ UNCHANGED <<hazards, queue, phase, bucketOf, buckets, effects>>

Step(c) ==
    \/ Emplace(c) \/ Lock(c) \/ Check(c) \/ Wake(c) \/ Call(c)
    \/ BackOff(c) \/ Retry(c) \/ Finish(c)

Next == Start \/ Tick \/ \E c \in Calls : Post(c) \/ Step(c)

Spec == Init /\ [][Next]_vars

\* Threads run what they can and time passes.  A mutex need not be fair: each
\* call takes it once.
FairSpec ==
    /\ Spec
    /\ WF_vars(Start) /\ WF_vars(Tick)
    /\ \A c \in Calls : WF_vars(Step(c))

-----------------------------------------------------------------------------
(* Properties.                                                             *)

\* A call is only sent when the server has room for it: what a bucket keeps of
\* the last answer is never better than the server's own window (84-96, 130-139).
NeverRefused == \A c \in Calls : reply[c].code # "429"

\* r, a bucket or an answer, promises no more than the server's window w holds:
\* it ends no sooner and has no more calls left.
Knows(r, w) ==
    /\ w.left <= r.reset
    /\ w.left > 0 => r.limit > 0 /\ r.remaining <= w.remaining

\* Between exchanges the bucket of a name mirrors the window of the server: it
\* is never more hopeful (130-139).
Mirrored ==
    \A p \in Paths :
        \/ \E c \in Calls : PathOf[c] = p /\ phase[c] \in {"sent", "resent"}
        \/ buckets[p] = NoCall /\ server[p].left = 0
        \/ buckets[p] # NoCall /\ Knows(bucket[buckets[p]], server[p])

\* One exchange per bucket at a time: its mutex (100) is held from the look at
\* its limits until they are stored.  And one per name, which has one bucket
\* unless two threads emplaced into _buckets at once.
Exchanging(c) == phase[c] \in {"check", "sleep", "send", "sent", "backoff",
                               "resent"}
OneAtATime ==
    \A c, d \in Calls :
        c # d /\ Exchanging(c) /\ Exchanging(d) =>
            /\ bucketOf[c] # bucketOf[d]
            /\ PathOf[c] = PathOf[d] => "mapRace" \in hazards

\* No call is carried out twice, and one that is answered with success has been
\* carried out: only a refused call is repeated (113-128).
AtMostOnce ==
    \A c \in Calls :
        /\ effects[c] <= 1
        /\ phase[c] = "done" /\ reply[c].code = "ok" => effects[c] = 1

\* Waiting as long as a 429 says is enough: the retry is not refused again,
\* "Ratelimit hit twice" (126-127) never happens, also with lost replies and a
\* clock that is ahead.  Only a limit on the whole bot, or a second bucket of
\* the name, lets others use up the window that was waited for.
NeverRefusedTwice ==
    hazards \cap {"mapRace", "global"} = {} =>
        \A c \in Calls : phase[c] = "resent" => reply[c].code # "429"

\* Every call that is posted is answered, however often buckets are exhausted.
EveryCallAnswered ==
    \A c \in Calls : phase[c] = "posted" ~> phase[c] = "done"
=============================================================================
