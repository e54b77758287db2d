------------------------------- MODULE Futures -------------------------------
(***************************************************************************)
(* The futures and promises of futures.hpp, as the threads of the          *)
(* io_context use them: core::async() posts a handler that owns a promise, *)
(* the application waits on its future, chains a continuation to it or     *)
(* drops it, and a continuation may start further calls.                   *)
(*                                                                         *)
(* A promise and the future made from it have the same number.  Moving an  *)
(* object keeps its number and relinks what points to it under the locks a *)
(* move takes, but not the address of its state a thread has on its stack: *)
(* that thread is stray.  The mutex of a promise is only ever taken with   *)
(* the global one and is left out; a step under the global mutex is one    *)
(* action, but for those that then wait for the mutex of a future.         *)
(***************************************************************************)
EXTENDS Integers, FiniteSets, SequencesExt

CONSTANTS
    Thread,  \* the threads that run the io_context
    Apps,    \* handlers of the application, each of which makes a call
    Ids,     \* bound on the promises and futures made
    Void,    \* whether the futures carry no value: future<void>
    None     \* nullptr, and the holder of a free mutex

ASSUME FuturesAssumption ==
    /\ IsFiniteSet(Thread)
    /\ Apps \in Nat
    /\ Ids \in Nat
    /\ Apps <= Ids
    /\ Void \in BOOLEAN
    /\ None \notin Thread
    /\ None \notin Nat

VARIABLES
    posted,   \* handlers posted to the io_context
    thr,      \* what each thread is doing
    prom,     \* the promises
    fut,      \* the futures
    global,   \* the holder of _global_m between two steps
    bare,     \* futures with no _global_m
    carried,  \* promises of continuations that were posted with their state
    stray,    \* threads that have the address of a state moved since
    next,     \* the next number
    asked,    \* futures someone waits on or has chained to
    made,     \* what each future was made to hold
    taken,    \* what the consumer of each future has been given
    crossed,  \* whether a consumer has met the producer half way
    fault     \* the undefined behaviour met

ptrs == <<bare, carried, stray>>
vars == <<posted, thr, prom, fut, global, ptrs, next, asked, made, taken, crossed, fault>>

Id == 1..Ids

\* future_state<T>::state, and the state of an object that is gone.
State == {"invalid", "future", "result", "exception"}
Available == {"result", "exception"}

\* A continuation: the future it was chained to, the promise it fulfils and
\* whether it takes failures too (then_wrapped).
Continuation == [of : Id, q : Id, op : {"then", "wrapped"}]
ASSUME NoContinuation == None \notin Continuation

Handler ==
    [k : {"app"}]
        \cup [k : {"produce"}, p : Id]
        \cup [k : {"run"}, task : Continuation, st : State]

\* ptr: what _state points at.  whose: the future this promise answers.
Promise == [alive : BOOLEAN, future : Id \cup {None}, ptr : {"promise", "task", "null"},
            local : State, task : Continuation \cup {None}, taskState : State, whose : Id]

Future == [promise : Id \cup {None}, local : State, holder : Thread \cup {None}]

\* A future_state someone has the address of.
Place == [in : {"promise", "task", "null", "future"}, id : Id \cup {None}]
Nowhere == [in |-> "null", id |-> None]

Label == {"idle", "hold", "look", "peeked", "placed", "attach", "collect", "moving",
          "moved", "relink", "pmove", "point", "store", "ready", "destroy"}

\* f, op, stage: the future used, how, and which look at its state it is.
\* p, out, forwarded: the promise in hand, what it is to be given, and whether
\* by forward_to().
ThreadState == [at : Label, f : Id \cup {None},
                op : {"none", "get", "then", "wrapped", "forward"},
                stage : {"first", "second", "take"}, p : Id \cup {None},
                out : State, forwarded : BOOLEAN, place : Place]

Idle == [at |-> "idle", f |-> None, op |-> "none", stage |-> "first", p |-> None,
         out |-> "invalid", forwarded |-> FALSE, place |-> Nowhere]

Fault == {"none", "nullPromise", "gone", "unset", "setTwice", "nullMutex", "lostThis"}

\* Those one thread meets alone: get() on a future that was made ready, and a
\* continuation of then_wrapped() when the future it was chained to is gone.
Alone == {"nullMutex", "lostThis"}

TypeOK ==
    /\ posted \in Seq(Handler)
    /\ thr \in [Thread -> ThreadState]
    /\ prom \in [Id -> Promise]
    /\ fut \in [Id -> Future]
    /\ global \in Thread \cup {None}
    /\ bare \subseteq Id
    /\ carried \subseteq Id
    /\ stray \subseteq Thread
    /\ next \in 1..(Ids + 1)
    /\ asked \subseteq Id
    /\ made \in [Id -> {"future"} \cup Available]
    /\ taken \in [Id -> Seq(Available)]
    /\ crossed \in BOOLEAN
    /\ fault \in Fault

NewPromise(i) == [alive |-> TRUE, future |-> i, ptr |-> "promise", local |-> "future",
                  task |-> None, taskState |-> "future", whose |-> i]
Dead(i) == [NewPromise(i) EXCEPT !.alive = FALSE, !.future = None, !.ptr = "null"]
Linked(i) == [promise |-> i, local |-> "future", holder |-> None]
ReadyFuture(st) == [promise |-> None, local |-> st, holder |-> None]

Init ==
    /\ posted = [i \in 1..Apps |-> [k |-> "app"]]
    /\ thr = [t \in Thread |-> Idle]
    /\ prom = [i \in Id |-> Dead(i)]
    /\ fut = [i \in Id |-> ReadyFuture("invalid")]
    /\ global = None
    /\ bare = {}
    /\ carried = {}
    /\ stray = {}
    /\ next = 1
    /\ asked = {}
    /\ made = [i \in Id |-> "future"]
    /\ taken = [i \in Id |-> <<>>]
    /\ crossed = FALSE
    /\ fault = "none"

-----------------------------------------------------------------------------
(* The places a state may be in, and the locks around them.                *)

At(t, label) == thr[t].at = label

Value(place) ==
    CASE place.in = "future"  -> fut[place.id].local
      [] place.in = "promise" -> IF prom[place.id].alive THEN prom[place.id].local
                                 ELSE "gone"
      [] place.in = "task"    -> prom[place.id].taskState
      [] OTHER                -> "gone"

\* What thread t reads at the address it was given.
Seen(t) == IF t \in stray THEN "gone" ELSE Value(thr[t].place)

\* The threads left behind with an address in promise p when p is moved.
Left(p) == {u \in Thread : At(u, "placed") /\ thr[u].place = [in |-> "promise", id |-> p]}

\* Whether the global mutex and that of future f, if any, can be taken.
GlobalFree(t) == global \in {None, t}
MutexFree(t, f) == f # None => fut[f].holder \in {None, t}

Break(kind) ==
    /\ fault' = kind
    /\ UNCHANGED <<posted, thr, prom, fut, global, ptrs, next, asked, made, taken>>

Unlinked(f) ==
    IF fut[f].promise = None THEN prom
    ELSE [prom EXCEPT ![fut[f].promise].future = None]

\* A function called for promise q has returned or thrown: what it left goes
\* through forward_to().
Returned(q, out) ==
    [Idle EXCEPT !.at = "point", !.p = q, !.out = out, !.forwarded = TRUE]

\* What forward_to() stores: for a future<void> it takes no failure for one.
Stored(r) == IF Void /\ r.forwarded THEN "result" ELSE r.out

\* A failure that is forwarded is set as urgent.
Urgent(r) == r.forwarded /\ Stored(r) = "exception"

\* Numbers kept for the handlers that have not begun and for each then() on
\* its way, so that the bound keeps calls from starting and stops none.
Reserved ==
    Cardinality({t \in Thread : thr[t].op \in {"then", "wrapped"}})
        + Cardinality({k \in DOMAIN posted : posted[k].k = "app"})
MayCall == next + Reserved <= Ids

-----------------------------------------------------------------------------
(* The application: a handler makes a call and uses its future.            *)

Begin_Invalid(t) ==  \* mutant: make_exception_future() leaves the state invalid
    /\ At(t, "idle")
    /\ posted # <<>>
    /\ Head(posted).k = "app"
    /\ thr' = [thr EXCEPT ![t] = [Idle EXCEPT !.at = "hold", !.f = next]]
    /\ next' = next + 1
    /\ posted' = Tail(posted)
    /\ fut' = [fut EXCEPT ![next] = ReadyFuture("invalid")]
    /\ made' = [made EXCEPT ![next] = "invalid"]
    /\ bare' = bare \cup {next}
    /\ UNCHANGED <<prom, global, carried, stray, asked, taken, fault>>

\* A call whose permission check fails returns a future that is ready, made by
\* make_exception_future() with neither io_context nor global mutex.
Begin(t) ==
    /\ At(t, "idle")
    /\ posted # <<>>
    /\ Head(posted).k = "app"
    /\ thr' = [thr EXCEPT ![t] = [Idle EXCEPT !.at = "hold", !.f = next]]
    /\ next' = next + 1
    /\ \/ /\ posted' = Append(Tail(posted), [k |-> "produce", p |-> next])
          /\ prom' = [prom EXCEPT ![next] = NewPromise(next)]
          /\ fut' = [fut EXCEPT ![next] = Linked(next)]
          /\ UNCHANGED <<made, bare>>
       \/ /\ posted' = Tail(posted)
          /\ fut' = [fut EXCEPT ![next] = ReadyFuture("exception")]
          /\ made' = [made EXCEPT ![next] = "exception"]
          /\ bare' = bare \cup {next}
          /\ UNCHANGED prom
    /\ UNCHANGED <<global, carried, stray, asked, taken, fault>>

\* ~future()
Drop(t) ==
    /\ At(t, "hold")
    /\ fut[thr[t].f].promise # None => GlobalFree(t)
    /\ prom' = Unlinked(thr[t].f)
    /\ fut' = [fut EXCEPT ![thr[t].f].promise = None]
    /\ thr' = [thr EXCEPT ![t] = Idle]
    /\ UNCHANGED <<posted, global, ptrs, next, asked, made, taken, fault>>

\* future::state() looks at _promise before it takes a lock.
Peek(r) ==
    IF fut[r.f].promise = None
    THEN [r EXCEPT !.at = "placed", !.place = [in |-> "future", id |-> r.f]]
    ELSE [r EXCEPT !.at = "peeked"]

Use(t, op) ==
    /\ At(t, "hold")
    /\ op # "get" => MayCall
    /\ thr' = [thr EXCEPT ![t] = Peek([@ EXCEPT !.op = op])]
    /\ asked' = asked \cup {thr[t].f}
    /\ UNCHANGED <<posted, prom, fut, global, ptrs, next, made, taken, fault>>

Look(t) ==
    /\ At(t, "look")
    /\ thr' = [thr EXCEPT ![t] = Peek(@)]
    /\ UNCHANGED <<posted, prom, fut, global, ptrs, next, asked, made, taken, fault>>

\* Under the locks it follows _promise, which may be null by now.
Follow(t) ==
    /\ At(t, "peeked")
    /\ GlobalFree(t) /\ MutexFree(t, thr[t].f)
    /\ LET p == fut[thr[t].f].promise IN
       IF p = None THEN Break("nullPromise")
       ELSE /\ thr' = [thr EXCEPT ![t].at = "placed",
                                  ![t].place = [in |-> prom[p].ptr, id |-> p]]
            /\ UNCHANGED <<posted, prom, fut, global, ptrs, next, asked, made, taken, fault>>

\* The state is ready at the first look of get(), or at one of do_wait()'s,
\* which come until it is; then() looks twice more, once to take the state or
\* to see in schedule() that it still must wait.
Judge(t) ==
    /\ At(t, "placed")
    /\ thr[t].stage # "take"
    /\ LET v == Seen(t) IN
       IF v = "gone" THEN Break("gone")
       ELSE /\ ~ (thr[t].op \in {"then", "wrapped"} /\ thr[t].stage = "second"
                    /\ v \in Available)
            /\ thr' = [thr EXCEPT ![t] =
                  IF @.op = "get"
                  THEN [@ EXCEPT !.at = IF v \in Available THEN "collect" ELSE "look"]
                  ELSE IF v \in Available THEN [@ EXCEPT !.at = "look", !.stage = "take"]
                  ELSE IF @.op = "forward" THEN [@ EXCEPT !.at = "relink"]
                  ELSE IF @.stage = "first" THEN [@ EXCEPT !.at = "look", !.stage = "second"]
                  ELSE [@ EXCEPT !.at = "attach"]]
            /\ UNCHANGED <<posted, prom, fut, global, ptrs, next, asked, made, taken, fault>>

\* The state is moved out of place and future f destroyed: what future_state's
\* move leaves behind is invalid.
PromWithout(f, place) ==
    IF place.in = "promise" THEN [Unlinked(f) EXCEPT ![place.id].local = "invalid"]
    ELSE Unlinked(f)
FutWithout(f) == [fut EXCEPT ![f] = ReadyFuture("invalid")]

\* schedule() finds the state ready after all and posts the continuation with
\* it; the future then() was called on is left to its destructor.
PostReady(t) ==
    /\ At(t, "placed")
    /\ thr[t].op \in {"then", "wrapped"}
    /\ thr[t].stage = "second"
    /\ Seen(t) \in Available
    /\ GlobalFree(t)
    /\ LET f == thr[t].f
           place == thr[t].place
       IN /\ posted' = Append(posted, [k |-> "run", st |-> Value(place),
                                       task |-> [of |-> f, q |-> next, op |-> thr[t].op]])
          /\ prom' = [PromWithout(f, place) EXCEPT ![next] = NewPromise(next)]
          /\ fut' = [FutWithout(f) EXCEPT ![next] = Linked(next)]
    /\ next' = next + 1
    /\ thr' = [thr EXCEPT ![t] = [Idle EXCEPT !.at = "hold", !.f = next]]
    /\ carried' = carried \cup {next}
    /\ UNCHANGED <<global, bare, stray, asked, made, taken, fault>>

\* promise::schedule() under the locks: the state the promise will set is now
\* that of the continuation, and the future and the promise part.
Attach(t) ==
    /\ At(t, "attach")
    /\ GlobalFree(t) /\ MutexFree(t, thr[t].f)
    /\ LET f == thr[t].f
           p == fut[f].promise
       IN IF p = None THEN Break("nullPromise")
          ELSE /\ prom' = [prom EXCEPT
                     ![p].future = None, ![p].ptr = "task", ![p].taskState = "future",
                     ![p].task = [of |-> f, q |-> next, op |-> thr[t].op],
                     ![next] = NewPromise(next)]
               /\ fut' = [fut EXCEPT ![f].promise = None, ![next] = Linked(next)]
               /\ next' = next + 1
               /\ thr' = [thr EXCEPT ![t] = [Idle EXCEPT !.at = "hold", !.f = next]]
               /\ UNCHANGED <<posted, global, ptrs, asked, made, taken, fault>>

Collect_Swallow(t) ==  \* mutant: get() does not rethrow
    /\ At(t, "collect")
    /\ thr[t].f \notin bare
    /\ GlobalFree(t) /\ MutexFree(t, thr[t].f)
    /\ LET f == thr[t].f
           p == fut[f].promise
           place == IF p = None THEN [in |-> "future", id |-> f]
                    ELSE [in |-> prom[p].ptr, id |-> p]
       IN IF Value(place) \notin Available THEN Break("unset")
          ELSE /\ taken' = [taken EXCEPT ![f] = Append(@, "result")]
               /\ prom' = PromWithout(f, place)
               /\ fut' = FutWithout(f)
               /\ thr' = [thr EXCEPT ![t] =
                     IF @.p = None THEN Idle ELSE Returned(@.p, "result")]
               /\ UNCHANGED <<posted, global, ptrs, next, asked, made, fault>>

\* What get() does once the state is ready: all under the locks, where there is
\* a global mutex to lock (see NoMutex).  Within a continuation the result goes
\* to the promise of the continuation.
Collect(t) ==
    /\ At(t, "collect")
    /\ thr[t].f \notin bare
    /\ GlobalFree(t) /\ MutexFree(t, thr[t].f)
    /\ LET f == thr[t].f
           p == fut[f].promise
           place == IF p = None THEN [in |-> "future", id |-> f]
                    ELSE [in |-> prom[p].ptr, id |-> p]
           v == Value(place)
       IN IF v \notin Available THEN Break("unset")
          ELSE /\ taken' = [taken EXCEPT ![f] = Append(@, v)]
               /\ prom' = PromWithout(f, place)
               /\ fut' = FutWithout(f)
               /\ thr' = [thr EXCEPT ![t] =
                     IF @.p = None THEN Idle ELSE Returned(@.p, v)]
               /\ UNCHANGED <<posted, global, ptrs, next, asked, made, fault>>

-----------------------------------------------------------------------------
(* The functions of the application, called by call_function(), which      *)
(* turns what they throw into a failed future.                             *)

\* It starts a call and returns its future, which to_future() moves, or waits
\* for it as create_dm_message() does.
Started(q, how) ==
    IF how = "waits"
    THEN [Idle EXCEPT !.at = "look", !.f = next, !.op = "get", !.p = q]
    ELSE [Idle EXCEPT !.at = "moving", !.f = next, !.op = "forward", !.p = q]

\* A continuation is run with the state it was posted with.
Continue(t, task, st, rest) ==
    /\ IF st \notin Available THEN Break("unset")
       ELSE /\ taken' = [taken EXCEPT ![task.of] = Append(@, st)]
            /\ UNCHANGED <<made, fault>>
            /\ \/ /\ task.op = "then" /\ st = "exception"
                  /\ thr' = [thr EXCEPT ![t] =
                        [Returned(task.q, st) EXCEPT !.forwarded = FALSE]]
                  /\ posted' = rest
                  /\ UNCHANGED <<fut, next, asked>>
               \/ /\ task.op = "then" => st = "result"
                  /\ \E out \in Available :
                        thr' = [thr EXCEPT ![t] = Returned(task.q, out)]
                  /\ posted' = rest
                  /\ UNCHANGED <<fut, next, asked>>
               \/ /\ task.op = "then" => st = "result"
                  /\ MayCall
                  /\ \E how \in {"waits", "returns"} :
                        /\ thr' = [thr EXCEPT ![t] = Started(task.q, how)]
                        /\ asked' = asked \cup (IF how = "waits" THEN {next} ELSE {})
                  /\ next' = next + 1
                  /\ posted' = Append(rest, [k |-> "produce", p |-> next])
                  /\ fut' = [fut EXCEPT ![next] = Linked(next)]

\* The handler schedule() posts holds the continuation, with its promise, and
\* is moved out of its operation; that of make_ready() only points to it.
Run(t) ==
    /\ At(t, "idle")
    /\ posted # <<>>
    /\ Head(posted).k = "run"
    /\ LET q == Head(posted).task.q IN
       /\ q \in carried => GlobalFree(t) /\ MutexFree(t, prom[q].future)
       /\ Continue(t, Head(posted).task, Head(posted).st, Tail(posted))
       /\ stray' = IF fault' = "none" /\ q \in carried THEN stray \cup Left(q) ELSE stray
    /\ prom' = IF next' > next THEN [prom EXCEPT ![next] = NewPromise(next)] ELSE prom
    /\ UNCHANGED <<global, bare, carried>>

\* Thread t is about to run a continuation of op with state st.
Resumes(t, op, st) ==
    \/ /\ At(t, "idle")
       /\ posted # <<>>
       /\ Head(posted).k = "run"
       /\ Head(posted).task.op = op /\ Head(posted).st = st
    \/ /\ At(t, "ready")
       /\ Urgent(thr[t])
       /\ LET c == prom[thr[t].p] IN c.task # None /\ c.task.op = op /\ c.taskState = st

\* The continuation of then_wrapped() reads the mutex it makes a future with
\* through the this of the future it was chained to, which may be gone by then.
LostThis(t) ==
    /\ \E st \in Available : Resumes(t, "wrapped", st)
    /\ Break("lostThis")

\* get() locks the global mutex, which is null in a future that was made ready:
\* that of a refused call, in a handler or a function of the application, or
\* the one then() made or gives the function of then_wrapped().
NoMutex(t) ==
    /\ \/ At(t, "collect") /\ thr[t].f \in bare
       \/ \E op \in {"then", "wrapped"}, st \in Available :
             /\ op = "then" => st = "result"
             /\ \/ Resumes(t, op, st)
                \/ /\ At(t, "placed") /\ thr[t].stage = "take"
                   /\ thr[t].op = op /\ Seen(t) = st
    /\ Break("nullMutex")

\* then() on a state that is ready: get_available_state(), then the function is
\* called at once.  The future it makes is held by the application.
Take(t) ==
    /\ At(t, "placed")
    /\ thr[t].stage = "take" /\ thr[t].op \in {"then", "wrapped"}
    /\ GlobalFree(t)
    /\ LET f == thr[t].f
           v == Seen(t)
       IN IF v \notin Available
          THEN Break(IF v = "gone" THEN v ELSE "unset")
          ELSE /\ taken' = [taken EXCEPT ![f] = Append(@, v)]
               /\ next' = next + 1
               /\ UNCHANGED <<global, carried, stray, fault>>
               /\ \/ /\ \E out \in IF thr[t].op = "then" /\ v = "exception" THEN {v}
                                   ELSE Available :
                           /\ fut' = [FutWithout(f) EXCEPT ![next] = ReadyFuture(out)]
                           /\ made' = [made EXCEPT ![next] = out]
                     /\ prom' = PromWithout(f, thr[t].place)
                     /\ thr' = [thr EXCEPT ![t] = [Idle EXCEPT !.at = "hold", !.f = next]]
                     /\ bare' = bare \cup {next}
                     /\ UNCHANGED <<posted, asked>>
                  \/ /\ thr[t].op = "then" => v = "result"
                     /\ fut' = [FutWithout(f) EXCEPT ![next] = Linked(next)]
                     /\ prom' = [PromWithout(f, thr[t].place) EXCEPT ![next] = NewPromise(next)]
                     /\ posted' = Append(posted, [k |-> "produce", p |-> next])
                     /\ \E how \in {"waits", "returns"} :
                           /\ thr' = [thr EXCEPT ![t] = Started(None, how)]
                           /\ asked' = asked \cup (IF how = "waits" THEN {next} ELSE {})
                     /\ UNCHANGED <<made, bare>>

\* future(future&&) locks the mutex of the future it moves from, and then the
\* global one.
Hold(t) ==
    /\ At(t, "moving")
    /\ MutexFree(t, thr[t].f)
    /\ fut' = [fut EXCEPT ![thr[t].f].holder = t]
    /\ thr' = [thr EXCEPT ![t].at = "moved"]
    /\ UNCHANGED <<posted, prom, global, ptrs, next, asked, made, taken, fault>>

Moved(t) ==
    /\ At(t, "moved")
    /\ fut[thr[t].f].promise # None => GlobalFree(t)
    /\ fut' = [fut EXCEPT ![thr[t].f].holder = None]
    /\ thr' = [thr EXCEPT ![t] =
                  IF @.p = None THEN [Idle EXCEPT !.at = "hold", !.f = thr[t].f]
                  ELSE [@ EXCEPT !.at = "look"]]
    /\ UNCHANGED <<posted, prom, global, ptrs, next, asked, made, taken, fault>>

\* future::forward_to() on a state that is ready: the promise gets it.
Forward(t) ==
    /\ At(t, "placed")
    /\ thr[t].stage = "take" /\ thr[t].op = "forward"
    /\ fut[thr[t].f].promise # None => GlobalFree(t)
    /\ LET f == thr[t].f
           v == Seen(t)
       IN IF v \notin Available
          THEN Break(IF v = "gone" THEN v ELSE "unset")
          ELSE /\ taken' = [taken EXCEPT ![f] = Append(@, v)]
               /\ prom' = PromWithout(f, thr[t].place)
               /\ fut' = FutWithout(f)
               /\ thr' = [thr EXCEPT ![t] = Returned(@.p, v)]
               /\ UNCHANGED <<posted, global, ptrs, next, asked, made, fault>>

Relink_Behind(t) ==  \* mutant: the future still points at the promise moved from
    /\ At(t, "relink")
    /\ GlobalFree(t) /\ MutexFree(t, prom[thr[t].p].future)
    /\ LET f == thr[t].f
           p == fut[f].promise
           q == thr[t].p
       IN IF p = None THEN Break("nullPromise")
          ELSE /\ global' = None
               /\ prom' = [prom EXCEPT ![p] = prom[q], ![q] = Dead(q)]
               /\ fut' = FutWithout(f)
               /\ thr' = [thr EXCEPT ![t] = Idle]
               /\ UNCHANGED <<posted, ptrs, next, asked, made, taken, fault>>

\* Otherwise the promise of the future becomes, where it is, the promise in
\* hand: whoever fulfils the one fulfils the other.
Relink(t) ==
    /\ At(t, "relink")
    /\ GlobalFree(t) /\ MutexFree(t, prom[thr[t].p].future)
    /\ LET f == thr[t].f
           p == fut[f].promise
           q == thr[t].p
       IN IF p = None THEN Break("nullPromise")
          ELSE /\ global' = None
               /\ prom' = [prom EXCEPT ![p] = prom[q], ![q] = Dead(q)]
               /\ fut' = [i \in Id |->
                     IF i = f THEN ReadyFuture("invalid")
                     ELSE IF i = prom[q].future THEN [fut[i] EXCEPT !.promise = p]
                     ELSE fut[i]]
               /\ thr' = [thr EXCEPT ![t] = Idle]
               /\ UNCHANGED <<posted, ptrs, next, asked, made, taken, fault>>

-----------------------------------------------------------------------------
(* The producer: the handler async() posted, or a continuation that ends.  *)

Produce(t) ==
    /\ At(t, "idle")
    /\ posted # <<>>
    /\ Head(posted).k = "produce"
    /\ thr' = [thr EXCEPT ![t] = [Idle EXCEPT !.at = "pmove", !.p = Head(posted).p]]
    /\ posted' = Tail(posted)
    /\ UNCHANGED <<prom, fut, global, ptrs, next, asked, made, taken, fault>>

\* promise(promise&&) and ~promise() hold the global mutex while they wait for
\* that of the future.
Block(t) ==
    /\ thr[t].at \in {"pmove", "destroy", "relink"}
    /\ global = None
    /\ ~ MutexFree(t, prom[thr[t].p].future)
    /\ global' = t
    /\ UNCHANGED <<posted, thr, prom, fut, ptrs, next, asked, made, taken, fault>>

\* The io_context moves the handler, and the promise in it, out of its
\* operation before it calls it; the function it runs returns or throws.  The
\* state in the promise is then elsewhere, and the old one destroyed.
MoveIn(t) ==
    /\ At(t, "pmove")
    /\ GlobalFree(t) /\ MutexFree(t, prom[thr[t].p].future)
    /\ global' = None
    /\ \E out \in Available :
          thr' = [thr EXCEPT ![t].at = "point", ![t].out = out]
    /\ stray' = stray \cup Left(thr[t].p)
    /\ UNCHANGED <<posted, prom, fut, bare, carried, next, asked, made, taken, fault>>

\* set_value() and set_exception(): no lock from here to the end of
\* make_ready().  The pointer to the state is read before the state is set.
Point(t) ==
    /\ At(t, "point")
    /\ LET p == thr[t].p IN
       thr' = [thr EXCEPT ![t].at = "store", ![t].place = [in |-> prom[p].ptr, id |-> p]]
    /\ UNCHANGED <<posted, prom, fut, global, ptrs, next, asked, made, taken, fault>>

Store(t) ==
    /\ At(t, "store")
    /\ LET r == thr[t]
           p == r.p
       IN IF Value(r.place) # "future"
          THEN Break(IF Value(r.place) = "gone" THEN "gone" ELSE "setTwice")
          ELSE /\ prom' = IF r.place.in = "promise" THEN [prom EXCEPT ![p].local = Stored(r)]
                          ELSE [prom EXCEPT ![p].taskState = Stored(r)]
               /\ made' = [made EXCEPT ![prom[p].whose] = r.out]
               /\ thr' = [thr EXCEPT ![t].at = "ready"]
               /\ UNCHANGED <<posted, fut, global, ptrs, next, asked, taken, fault>>

MakeReady_Twice(t) ==  \* mutant: a continuation run at once is posted too
    /\ At(t, "ready")
    /\ LET p == thr[t].p IN
       \/ /\ prom[p].task = None
          /\ thr' = [thr EXCEPT ![t].at = "destroy"]
          /\ UNCHANGED <<posted, prom, fut, next, asked, made, taken, fault>>
       \/ /\ prom[p].task # None
          /\ posted' = posted \o [i \in 1..(IF Urgent(thr[t]) THEN 2 ELSE 1) |->
                [k |-> "run", st |-> prom[p].taskState, task |-> prom[p].task]]
          /\ prom' = [prom EXCEPT ![p].ptr = "null", ![p].task = None]
          /\ thr' = [thr EXCEPT ![t].at = "destroy"]
          /\ UNCHANGED <<fut, next, asked, made, taken, fault>>
    /\ UNCHANGED <<global, ptrs>>

MakeReady_Lost(t) ==  \* mutant: a continuation to run at once is only let go
    /\ At(t, "ready")
    /\ LET p == thr[t].p IN
       \/ /\ prom[p].task = None \/ Urgent(thr[t])
          /\ thr' = [thr EXCEPT ![t].at = "destroy"]
          /\ UNCHANGED <<posted, prom, fut, next, asked, made, taken, fault>>
       \/ /\ prom[p].task # None /\ ~ Urgent(thr[t])
          /\ posted' = Append(posted, [k |-> "run", st |-> prom[p].taskState,
                                       task |-> prom[p].task])
          /\ prom' = [prom EXCEPT ![p].ptr = "null", ![p].task = None]
          /\ thr' = [thr EXCEPT ![t].at = "destroy"]
          /\ UNCHANGED <<fut, next, asked, made, taken, fault>>
    /\ UNCHANGED <<global, ptrs>>

\* make_ready() with no continuation, with one to post, or one to run at once.
MakeReady(t) ==
    /\ At(t, "ready")
    /\ LET p == thr[t].p IN
       \/ /\ prom[p].task = None
          /\ thr' = [thr EXCEPT ![t].at = "destroy"]
          /\ UNCHANGED <<posted, prom, fut, next, asked, made, taken, fault>>
       \/ /\ prom[p].task # None /\ ~ Urgent(thr[t])
          /\ posted' = Append(posted, [k |-> "run", st |-> prom[p].taskState,
                                       task |-> prom[p].task])
          /\ prom' = [prom EXCEPT ![p].ptr = "null", ![p].task = None]
          /\ thr' = [thr EXCEPT ![t].at = "destroy"]
          /\ UNCHANGED <<fut, next, asked, made, taken, fault>>
       \/ /\ prom[p].task # None /\ Urgent(thr[t])
          /\ Continue(t, prom[p].task, prom[p].taskState, posted)
          /\ prom' = IF fault' # "none" THEN prom
                     ELSE IF next' > next
                     THEN [prom EXCEPT ![p] = Dead(p), ![next] = NewPromise(next)]
                     ELSE [prom EXCEPT ![p] = Dead(p)]
    /\ UNCHANGED <<global, ptrs>>

\* ~promise() and abandoned(): a future still linked gets the state.
Destroy(t) ==
    /\ At(t, "destroy")
    /\ LET p == thr[t].p
           f == prom[p].future
       IN /\ GlobalFree(t) /\ MutexFree(t, f)
          /\ prom' = [prom EXCEPT ![p] = Dead(p)]
          /\ fut' = IF f = None THEN fut
                    ELSE [fut EXCEPT ![f].local = prom[p].local, ![f].promise = None]
    /\ global' = None
    /\ thr' = [thr EXCEPT ![t] = Idle]
    /\ UNCHANGED <<posted, ptrs, next, asked, made, taken, fault>>

-----------------------------------------------------------------------------

Step(t) ==
    \/ Begin(t) \/ Drop(t) \/ \E op \in {"get", "then", "wrapped"} : Use(t, op)
    \/ Look(t) \/ Follow(t) \/ Judge(t) \/ PostReady(t) \/ Attach(t) \/ Collect(t)
    \/ Run(t) \/ Take(t) \/ Hold(t) \/ Moved(t) \/ Forward(t) \/ Relink(t)
    \/ LostThis(t) \/ NoMutex(t) \/ Produce(t) \/ Block(t) \/ MoveIn(t) \/ Point(t)
    \/ Store(t) \/ MakeReady(t) \/ Destroy(t)

\* The four places where a consumer (t) counts on a promise to stay as it is
\* while another thread (u) has the promise in hand: t has the address of the
\* state in the promise, not yet read it, and u has moved the promise; t has
\* seen _promise, not yet used what it leads to, and u is about to destroy the
\* promise; t has seen that it must wait, not yet attached, and u knows where to
\* store; t moves the future with its mutex held and u, to move or destroy the
\* promise, takes the global mutex first.
Cross(t, u) ==
    \/ t \in stray
    \/ /\ thr[t].f # None
       /\ thr[u].p # None
       /\ fut[thr[t].f].promise = thr[u].p
       /\ \/ thr[t].at \in {"peeked", "placed"} /\ thr[u].at \in {"destroy", "relink"}
          \/ thr[t].at \in {"attach", "relink"} /\ At(u, "store")
          \/ At(t, "moved") /\ thr[u].at \in {"pmove", "destroy", "relink"}

Next ==
    /\ fault = "none"
    /\ \E t \in Thread : Step(t)
    /\ crossed' = (crossed \/ \E t, u \in Thread : Cross(t, u)')

Spec == Init /\ [][Next]_vars

\* A thread of the pool keeps running.
Fairness == \A t \in Thread : WF_vars(fault = "none" /\ Step(t)
                /\ crossed' = (crossed \/ \E a, b \in Thread : Cross(a, b)'))

FairSpec == Spec /\ Fairness

-----------------------------------------------------------------------------

\* Nothing but those four crossings, a future without a mutex and a this that is
\* gone (see Alone) dereferences a promise that is gone, sets a state twice or
\* runs a continuation on a state never set: neither a promise replaced by
\* forward_to(), nor one destroyed early, nor a dropped future.
NoFault == crossed \/ fault \in {"none"} \cup Alone

\* A result is handed over once: no order of looking, attaching, storing and
\* running, crossed or not, gives a consumer the same result a second time.
AtMostOnce == \A i \in Id : Len(taken[i]) <= 1

\* A consumer gets what its call was made to return: a failure is neither lost
\* nor made a success on its way through local states, continuations and
\* promises that took the place of others.
SameValue ==
    crossed \/ \A i \in Id : \A k \in 1..Len(taken[i]) : taken[i][k] = made[i]

\* Every thread of the pool is in get(), polling; nobody is left to run what
\* would end the wait.
Starved == \A t \in Thread : thr[t].op = "get"

\* Every get() returns and every continuation is run, and no thread waits for
\* a mutex for ever, unless one of the crossings happens, a thread meets alone
\* what ends the program or, from some time on, all threads poll in get().
Answered ==
    \/ <>[]Starved
    \/ <>(crossed \/ fault # "none")
    \/ /\ []<>(\A i \in asked : taken[i] # <<>>)
       /\ \A t \in Thread : []<>(thr[t].at \notin {"moved", "pmove", "destroy", "relink"})

=============================================================================
