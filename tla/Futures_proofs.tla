--------------------------- MODULE Futures_proofs ---------------------------
(* Theorems about the futures, for any pool of threads, any number of      *)
(* calls and either kind of future.                                        *)
EXTENDS Futures, FiniteSetTheorems, SequenceTheorems, TLAPS

-----------------------------------------------------------------------------
(* Types.                                                                  *)

Chains == {"then", "wrapped"}

\* What a thread has in hand at each place of its program.
Equipped(r) ==
    /\ r.at \in {"hold", "look", "peeked", "placed", "attach", "collect",
                 "moving", "moved", "relink"} => r.f \in Id
    /\ r.at \in {"look", "peeked", "placed"} => r.op # "none"
    /\ r.at = "attach" => r.op \in Chains
    /\ r.at \in {"moving", "moved", "relink"} => r.op = "forward"
    /\ r.at \in {"look", "peeked", "placed", "relink"} /\ r.op = "forward" => r.p \in Id
    /\ r.at \in {"pmove", "point", "store", "ready", "destroy"} => r.p \in Id
    /\ r.at \in {"point", "store"} => r.out \in Available
    /\ r.at \in {"placed", "store"} => r.place.id \in Id

\* The numbers kept for later do not run out.
Chaining == {t \in Thread : thr[t].op \in Chains}
AppsIn(q) == {k \in DOMAIN q : q[k].k = "app"}
Budget == next + Cardinality(Chaining) + Cardinality(AppsIn(posted)) <= Ids + 1

\* TypeOK, but for the variables that only say what an address is worth.
Typed ==
    /\ posted \in Seq(Handler)
    /\ thr \in [Thread -> ThreadState]
    /\ prom \in [Id -> Promise]
    /\ fut \in [Id -> Future]
    /\ global \in Thread \cup {None}
    /\ next \in 1..(Ids + 1)
    /\ asked \subseteq Id
    /\ made \in [Id -> {"future"} \cup Available]
    /\ taken \in [Id -> Seq(Available)]
    /\ crossed \in BOOLEAN
    /\ fault \in Fault

TypeInv == Typed /\ (\A t \in Thread : Equipped(thr[t])) /\ Budget

LEMMA Numbers == Ids \in Nat /\ Id \subseteq Nat /\ None \notin Id /\ IsFiniteSet(Thread)
                 /\ Apps \in Nat /\ Apps <= Ids
  BY FuturesAssumption, SMT DEF Id

LEMMA Made ==
    ASSUME NEW i \in Id
    PROVE  /\ NewPromise(i) \in Promise
           /\ Dead(i) \in Promise
           /\ Linked(i) \in Future
           /\ \A st \in State : ReadyFuture(st) \in Future
  BY DEF NewPromise, Dead, Linked, ReadyFuture, Promise, Future, State

LEMMA HandlerParts ==
    ASSUME NEW h \in Handler
    PROVE  /\ h.k \in {"app", "produce", "run"}
           /\ h.k = "produce" => h.p \in Id
           /\ h.k = "run" => h.task \in Continuation /\ h.st \in State
  BY DEF Handler

LEMMA HandlerMade ==
    /\ \A p \in Id : [k |-> "produce", p |-> p] \in Handler
    /\ \A task \in Continuation, st \in State : [k |-> "run", st |-> st, task |-> task] \in Handler
  BY DEF Handler

LEMMA PostedParts ==
    ASSUME NEW q \in Seq(Handler)
    PROVE  /\ \A h \in Handler : Append(q, h) \in Seq(Handler)
           /\ q # <<>> => Head(q) \in Handler /\ Tail(q) \in Seq(Handler)
  OBVIOUS

LEMMA AppsFinite ==
    ASSUME NEW q \in Seq(Handler)
    PROVE  IsFiniteSet(AppsIn(q)) /\ Cardinality(AppsIn(q)) \in Nat
  <1>1. IsFiniteSet(DOMAIN q)
    <2>1. DOMAIN q = 1 .. Len(q) /\ Len(q) \in Int /\ 1 \in Int
      OBVIOUS
    <2> QED BY <2>1, FS_Interval
  <1>2. AppsIn(q) \in SUBSET (DOMAIN q)
    BY DEF AppsIn
  <1> QED BY <1>1, <1>2, FS_Subset, FS_CardinalityType

LEMMA AppsAppend ==
    ASSUME NEW q \in Seq(Handler), NEW h \in Handler, h.k # "app"
    PROVE  AppsIn(Append(q, h)) = AppsIn(q)
  BY DEF AppsIn

LEMMA AppsTail ==
    ASSUME NEW q \in Seq(Handler), q # <<>>
    PROVE  Cardinality(AppsIn(Tail(q)))
             <= Cardinality(AppsIn(q)) - (IF Head(q).k = "app" THEN 1 ELSE 0)
  <1> DEFINE S == AppsIn(Tail(q))
             T == AppsIn(q) \ {1}
             f == [k \in S |-> k + 1]
  <1>1. Tail(q) \in Seq(Handler) /\ Len(q) \in Nat \ {0} /\ DOMAIN q = 1 .. Len(q)
        /\ DOMAIN Tail(q) = 1 .. Len(q) - 1
        /\ (\A k \in 1 .. Len(q) - 1 : Tail(q)[k] = q[k + 1]) /\ Head(q) = q[1]
    OBVIOUS
  <1>2. IsFiniteSet(AppsIn(q)) /\ Cardinality(AppsIn(q)) \in Nat
    BY AppsFinite
  <1>3. IsFiniteSet(T)
        /\ Cardinality(T) = Cardinality(AppsIn(q)) - (IF Head(q).k = "app" THEN 1 ELSE 0)
    <2>1. 1 \in AppsIn(q) <=> Head(q).k = "app"
      BY <1>1 DEF AppsIn
    <2> QED BY <2>1, <1>2, FS_RemoveElement
  <1>4. f \in Injection(S, T)
    <2>1. \A k \in S : k \in Nat /\ k + 1 \in T
      BY <1>1 DEF AppsIn
    <2> QED BY <2>1 DEF Injection, IsInjective
  <1>5. Cardinality(S) <= Cardinality(T)
    BY <1>3, <1>4, FS_Injection
  <1> QED BY <1>3, <1>5

LEMMA ChainingFinite == IsFiniteSet(Chaining) /\ Cardinality(Chaining) \in Nat
  BY Numbers, FS_Subset, FS_CardinalityType DEF Chaining

LEMMA ReservedIs == Reserved = Cardinality(Chaining) + Cardinality(AppsIn(posted))
  BY DEF Reserved, Chaining, Chains, AppsIn


\* A step that leaves thread t with r in hand.
Leaves(t, r) == thr' = [thr EXCEPT ![t] = r]

LEMMA ThreadSet ==
    ASSUME TypeInv, NEW t \in Thread, NEW r \in ThreadState, Equipped(r), Leaves(t, r)
    PROVE  /\ thr' \in [Thread -> ThreadState]
           /\ \A u \in Thread : Equipped(thr'[u])
           /\ Chaining' = IF r.op \in Chains THEN Chaining \cup {t} ELSE Chaining \ {t}
           /\ t \in Chaining <=> thr[t].op \in Chains
  <1>1. thr \in [Thread -> ThreadState] /\ \A u \in Thread : Equipped(thr[u])
    BY DEF TypeInv, Typed
  <1>2. \A u \in Thread : thr'[u] = IF u = t THEN r ELSE thr[u]
    BY <1>1 DEF Leaves
  <1>3. thr' \in [Thread -> ThreadState]
    BY <1>1 DEF Leaves
  <1>4. \A u \in Thread : Equipped(thr'[u])
    BY <1>1, <1>2
  <1>5. Chaining' = {u \in Thread : thr'[u].op \in Chains}
    BY DEF Chaining, Chains
  <1>6. Chaining' = IF r.op \in Chains THEN Chaining \cup {t} ELSE Chaining \ {t}
    BY <1>2, <1>5 DEF Chaining
  <1> QED BY <1>3, <1>4, <1>6 DEF Chaining

\* The ways a step uses the numbers: not at all, one that was kept for it, one
\* it found free or one it keeps for later.
Quieter == Chaining' \subseteq Chaining
FewerApps == Cardinality(AppsIn(posted')) <= Cardinality(AppsIn(posted))
Frugal(t) ==
    \/ next' = next /\ Quieter /\ FewerApps
    \/ /\ next' = next + 1 /\ FewerApps
       /\ t \in Chaining /\ Chaining' = Chaining \ {t}
    \/ /\ next' = next + 1 /\ Quieter
       /\ Cardinality(AppsIn(posted')) <= Cardinality(AppsIn(posted)) - 1
    \/ MayCall /\ next' = next + 1 /\ Quieter /\ FewerApps
    \/ MayCall /\ next' = next /\ Chaining' = Chaining \cup {t} /\ FewerApps

LEMMA BudgetKept ==
    ASSUME TypeInv, NEW t \in Thread, Frugal(t), posted' \in Seq(Handler)
    PROVE  Budget' /\ next' \in 1..(Ids + 1)
  <1> DEFINE n == Cardinality(Chaining)
             m == Cardinality(Chaining')
             a == Cardinality(AppsIn(posted))
             b == Cardinality(AppsIn(posted'))
  <1>1. n \in Nat /\ IsFiniteSet(Chaining) /\ a \in Nat /\ b \in Nat /\ Ids \in Nat
    BY ChainingFinite, AppsFinite, Numbers DEF TypeInv, Typed
  <1>2. Quieter => m \in Nat /\ m <= n
    BY <1>1, FS_Subset, FS_CardinalityType DEF Quieter
  <1>3. t \in Chaining /\ Chaining' = Chaining \ {t} => m = n - 1
    BY <1>1, FS_RemoveElement
  <1>4. Chaining' = Chaining \cup {t} => m = n \/ m = n + 1
    BY <1>1, FS_AddElement
  <1>5. next \in 1..(Ids + 1) /\ next + n + a <= Ids + 1
    BY DEF TypeInv, Typed, Budget
  <1>6. MayCall <=> next + (n + a) <= Ids
    BY ReservedIs DEF MayCall
  <1>7. Budget' <=> next' + m + b <= Ids + 1
    BY DEF Budget, AppsIn
  <1>8. t \in Chaining => n # 0
    BY <1>1, FS_EmptySet
  <1> HIDE DEF n, m, a, b
  <1>9. next' + m + b <= Ids + 1 /\ next' \in 1..(Ids + 1)
    <2>1. CASE next' = next /\ Quieter /\ b <= a
      BY <2>1, <1>1, <1>2, <1>5, SMT
    <2>2. CASE next' = next + 1 /\ b <= a /\ t \in Chaining /\ Chaining' = Chaining \ {t}
      BY <2>2, <1>1, <1>3, <1>5, <1>8, SMT
    <2>3. CASE next' = next + 1 /\ Quieter /\ b <= a - 1
      BY <2>3, <1>1, <1>2, <1>5, SMT
    <2>4. CASE MayCall /\ next' = next + 1 /\ Quieter /\ b <= a
      BY <2>4, <1>1, <1>2, <1>5, <1>6, SMT
    <2>5. CASE MayCall /\ next' = next /\ Chaining' = Chaining \cup {t} /\ b <= a
      BY <2>5, <1>1, <1>4, <1>5, <1>6, SMT
    <2> QED BY <2>1, <2>2, <2>3, <2>4, <2>5 DEF Frugal, FewerApps, a, b
  <1> QED BY <1>7, <1>9

\* A number is left whenever a step takes one.
LEMMA NextIsFree ==
    ASSUME TypeInv, NEW t \in Thread,
           \/ t \in Chaining
           \/ MayCall
           \/ posted # <<>> /\ Head(posted).k = "app"
    PROVE  next \in Id
  <1>1. Cardinality(Chaining) \in Nat /\ IsFiniteSet(Chaining) /\ IsFiniteSet(AppsIn(posted)) /\ Cardinality(AppsIn(posted)) \in Nat
    BY ChainingFinite, AppsFinite DEF TypeInv, Typed
  <1>2. next \in Nat \ {0} /\ Ids \in Nat
        /\ next + Cardinality(Chaining) + Cardinality(AppsIn(posted)) <= Ids + 1
    BY Numbers DEF TypeInv, Typed, Budget
  <1>3. t \in Chaining => Cardinality(Chaining) # 0
    BY <1>1, FS_EmptySet
  <1>4. posted # <<>> /\ Head(posted).k = "app" => Cardinality(AppsIn(posted)) # 0
    <2>1. posted \in Seq(Handler)
      BY DEF TypeInv, Typed
    <2>2. posted # <<>> => 1 \in DOMAIN posted /\ Head(posted) = posted[1]
      BY <2>1
    <2>3. posted # <<>> /\ Head(posted).k = "app" => AppsIn(posted) # {}
      BY <2>2 DEF AppsIn
    <2> QED BY <1>1, <2>3, FS_EmptySet
  <1>5. MayCall => next + (Cardinality(Chaining) + Cardinality(AppsIn(posted))) <= Ids
    BY ReservedIs DEF MayCall
  <1> QED BY <1>1, <1>2, <1>3, <1>4, <1>5, SMT DEF Id


LEMMA MakesTypeInv ==
    ASSUME TypeInv, NEW t \in Thread, NEW r \in ThreadState, Equipped(r), Leaves(t, r),
           posted' \in Seq(Handler), prom' \in [Id -> Promise], fut' \in [Id -> Future],
           global' \in Thread \cup {None}, asked' \subseteq Id,
           made' \in [Id -> {"future"} \cup Available], taken' \in [Id -> Seq(Available)],
           crossed' \in BOOLEAN, fault' \in Fault, Frugal(t)
    PROVE  TypeInv'
  <1>1. Budget' /\ next' \in 1..(Ids + 1)
    BY BudgetKept
  <1>2. thr' \in [Thread -> ThreadState] /\ \A u \in Thread : Equipped(thr'[u])
    BY ThreadSet
  <1> QED BY <1>1, <1>2 DEF TypeInv, Typed

LEMMA BreakTyped ==
    ASSUME TypeInv, NEW kind \in Fault, Break(kind), crossed' \in BOOLEAN
    PROVE  TypeInv'
  <1>1. Chaining' = Chaining /\ AppsIn(posted') = AppsIn(posted)
    BY DEF Break, Chaining
  <1>2. Budget'
    BY <1>1 DEF TypeInv, Budget, Break
  <1> QED BY <1>2 DEF TypeInv, Typed, Break

\* What a thread meets alone ends the program and changes nothing else.
LEMMA AloneBreaks ==
    ASSUME NEW t \in Thread, LostThis(t) \/ NoMutex(t)
    PROVE  \E kind \in Alone : Break(kind)
  BY DEF LostThis, NoMutex, Alone

LEMMA AloneTyped ==
    ASSUME TypeInv, NEW t \in Thread, LostThis(t) \/ NoMutex(t), crossed' \in BOOLEAN
    PROVE  TypeInv'
  <1>1. PICK kind \in Alone : Break(kind)
    BY AloneBreaks
  <1>2. kind \in Fault
    BY DEF Alone, Fault
  <1> QED BY <1>1, <1>2, BreakTyped

\* The variables as they were, and a thread that needs no number.
LEMMA Sames ==
    ASSUME TypeInv
    PROVE  /\ thr \in [Thread -> ThreadState] /\ \A u \in Thread : Equipped(thr[u])
           /\ posted \in Seq(Handler) /\ prom \in [Id -> Promise] /\ fut \in [Id -> Future]
           /\ global \in Thread \cup {None} /\ asked \subseteq Id
           /\ made \in [Id -> {"future"} \cup Available] /\ taken \in [Id -> Seq(Available)]
           /\ fault \in Fault /\ next \in 1..(Ids + 1)
  BY DEF TypeInv, Typed

LEMMA Stays ==
    ASSUME TypeInv, NEW t \in Thread, NEW r \in ThreadState, Equipped(r), Leaves(t, r),
           r.op \in Chains => thr[t].op \in Chains
    PROVE  Quieter
  BY ThreadSet DEF Quieter

LEMMA FrugalStep ==
    ASSUME TypeInv, NEW t \in Thread, NEW r \in ThreadState, Equipped(r), Leaves(t, r),
           r.op \in Chains => thr[t].op \in Chains,
           next' = next, posted' = posted
    PROVE  Frugal(t)
  <1>1. Quieter
    BY Stays
  <1>2. Cardinality(AppsIn(posted)) \in Nat
    BY AppsFinite, Sames
  <1> QED BY <1>1, <1>2 DEF Frugal, FewerApps

LEMMA IdleTyped == Idle \in ThreadState /\ Equipped(Idle) /\ Idle.op \notin Chains
  BY DEF Idle, ThreadState, Label, State, Place, Nowhere, Equipped, Chains

LEMMA HoldingTyped ==
    ASSUME NEW f \in Id, NEW r, r = [Idle EXCEPT !.at = "hold", !.f = f]
    PROVE  r \in ThreadState /\ Equipped(r) /\ r.op \notin Chains
  BY DEF Idle, ThreadState, Label, State, Place, Nowhere, Equipped, Chains

LEMMA ReturnedTyped ==
    ASSUME NEW q \in Id, NEW out \in Available, NEW r, r = Returned(q, out)
    PROVE  r \in ThreadState /\ Equipped(r) /\ r.op \notin Chains
  BY DEF Returned, Idle, ThreadState, Label, State, Place, Nowhere, Equipped, Chains, Available

LEMMA BeginTyped ==
    ASSUME TypeInv, NEW t \in Thread, Begin(t), crossed' \in BOOLEAN
    PROVE  TypeInv'
  <1> DEFINE r == [Idle EXCEPT !.at = "hold", !.f = next]
  <1>1. next \in Id
    BY NextIsFree DEF Begin
  <1>2. r \in ThreadState /\ Equipped(r) /\ r.op \notin Chains /\ Leaves(t, r)
    BY <1>1, HoldingTyped DEF Begin, Leaves
  <1>3. posted # <<>> /\ Head(posted).k = "app" /\ Tail(posted) \in Seq(Handler)
        /\ posted \in Seq(Handler)
    BY Sames DEF Begin
  <1>4. [k |-> "produce", p |-> next] \in Handler /\ [k |-> "produce", p |-> next].k # "app"
    BY <1>1, HandlerMade
  <1>5. posted' \in Seq(Handler) /\ AppsIn(posted') = AppsIn(Tail(posted))
    <2>1. Append(Tail(posted), [k |-> "produce", p |-> next]) \in Seq(Handler)
          /\ AppsIn(Append(Tail(posted), [k |-> "produce", p |-> next])) = AppsIn(Tail(posted))
      BY <1>3, <1>4, AppsAppend, PostedParts
    <2> QED BY <1>3, <2>1 DEF Begin
  <1>6. Cardinality(AppsIn(posted')) <= Cardinality(AppsIn(posted)) - 1
    BY <1>3, <1>5, AppsTail
  <1>7. Quieter
    BY <1>2, Stays
  <1>8. Frugal(t)
    BY <1>6, <1>7 DEF Frugal, Begin
  <1>9. prom' \in [Id -> Promise] /\ fut' \in [Id -> Future]
        /\ made' \in [Id -> {"future"} \cup Available]
    BY <1>1, Made, Sames DEF Begin, Available, State
  <1> HIDE DEF r
  <1> QED BY <1>2, <1>5, <1>8, <1>9, Sames, MakesTypeInv DEF Begin


LEMMA Edited ==
    /\ \A c \in Future, x \in Id \cup {None} : [c EXCEPT !.promise = x] \in Future
    /\ \A c \in Future, st \in State : [c EXCEPT !.local = st, !.promise = None] \in Future
    /\ \A c \in Promise : [c EXCEPT !.future = None] \in Promise
    /\ \A c \in Promise, st \in State : [c EXCEPT !.local = st] \in Promise
  <1>1. \A c \in Future, x \in Id \cup {None} : [c EXCEPT !.promise = x] \in Future
    BY DEF Future
  <1>2. \A c \in Future, st \in State : [c EXCEPT !.local = st, !.promise = None] \in Future
    BY DEF Future
  <1>3. \A c \in Promise : [c EXCEPT !.future = None] \in Promise
    BY DEF Promise
  <1>4. \A c \in Promise, st \in State : [c EXCEPT !.local = st] \in Promise
    BY DEF Promise
  <1> QED BY <1>1, <1>2, <1>3, <1>4

LEMMA UnlinkedTyped ==
    ASSUME TypeInv, NEW f \in Id
    PROVE  /\ Unlinked(f) \in [Id -> Promise]
           /\ FutWithout(f) \in [Id -> Future]
           /\ \A place \in Place : PromWithout(f, place) \in [Id -> Promise]
  <1>1. prom \in [Id -> Promise] /\ fut \in [Id -> Future]
    BY Sames
  <1>2. Unlinked(f) \in [Id -> Promise]
    BY <1>1, Edited DEF Unlinked
  <1>3. FutWithout(f) \in [Id -> Future]
    BY <1>1, Made DEF FutWithout, State
  <1>4. ASSUME NEW place \in Place PROVE PromWithout(f, place) \in [Id -> Promise]
    <2> DEFINE P == Unlinked(f)
    <2> HIDE DEF P
    <2>1. P \in [Id -> Promise]
      BY <1>2 DEF P
    <2>2. [P EXCEPT ![place.id].local = "invalid"] \in [Id -> Promise]
      BY <2>1, Edited DEF State
    <2> QED BY <2>1, <2>2 DEF PromWithout, P
  <1> QED BY <1>2, <1>3, <1>4

\* What a state reads as.
LEMMA ValueTyped ==
    ASSUME TypeInv, NEW place \in Place, place.id \in Id
    PROVE  Value(place) \in State \cup {"gone"}
  <1>1. prom \in [Id -> Promise] /\ fut \in [Id -> Future]
    BY Sames
  <1>2. fut[place.id].local \in State /\ prom[place.id].local \in State
        /\ prom[place.id].taskState \in State
    BY <1>1 DEF Promise, Future
  <1> QED BY <1>2 DEF Value

LEMMA DropTyped ==
    ASSUME TypeInv, NEW t \in Thread, Drop(t), crossed' \in BOOLEAN
    PROVE  TypeInv'
  <1>1. thr[t].f \in Id
    BY Sames DEF Drop, At, Equipped
  <1>2. Leaves(t, Idle) /\ Frugal(t)
    BY IdleTyped, FrugalStep DEF Drop, Leaves
  <1>3. prom' \in [Id -> Promise] /\ fut' \in [Id -> Future]
    BY <1>1, UnlinkedTyped, Edited, Sames DEF Drop
  <1> QED BY <1>2, <1>3, IdleTyped, Sames, MakesTypeInv DEF Drop

LEMMA PeekTyped ==
    ASSUME TypeInv, NEW r \in ThreadState, r.f \in Id, r.op # "none",
           r.op = "forward" => r.p \in Id
    PROVE  Peek(r) \in ThreadState /\ Equipped(Peek(r)) /\ Peek(r).op = r.op
  BY DEF Peek, ThreadState, Label, Place, Equipped

LEMMA UseTyped ==
    ASSUME TypeInv, NEW t \in Thread, NEW op \in {"get", "then", "wrapped"}, Use(t, op),
           crossed' \in BOOLEAN
    PROVE  TypeInv'
  <1> DEFINE s == [thr[t] EXCEPT !.op = op]
             r == Peek(s)
  <1>1. thr[t] \in ThreadState /\ thr[t].f \in Id
    BY Sames DEF Use, At, Equipped
  <1>2. s \in ThreadState /\ s.f \in Id /\ s.op = op
    BY <1>1 DEF ThreadState
  <1>3. r \in ThreadState /\ Equipped(r) /\ r.op = op
    BY <1>2, PeekTyped
  <1>4. Leaves(t, r)
    BY Sames DEF Use, Leaves
  <1> HIDE DEF r
  <1>5. posted' = posted /\ next' = next /\ Cardinality(AppsIn(posted)) \in Nat
    BY Sames, AppsFinite DEF Use
  <1>6. Frugal(t)
    <2>1. CASE op = "get"
      BY <2>1, <1>3, <1>4, <1>5, FrugalStep DEF Chains
    <2>2. CASE op # "get"
      <3>1. Chaining' = Chaining \cup {t}
        BY <2>2, <1>3, <1>4, ThreadSet DEF Chains
      <3> QED BY <2>2, <3>1, <1>5 DEF Use, Frugal, FewerApps
    <2> QED BY <2>1, <2>2
  <1>7. asked' \subseteq Id
    BY <1>1, Sames DEF Use
  <1> QED BY <1>3, <1>4, <1>6, <1>7, Sames, MakesTypeInv DEF Use

LEMMA LookTyped ==
    ASSUME TypeInv, NEW t \in Thread, Look(t), crossed' \in BOOLEAN
    PROVE  TypeInv'
  <1> DEFINE r == Peek(thr[t])
  <1>1. thr[t] \in ThreadState /\ thr[t].f \in Id /\ thr[t].op # "none"
        /\ (thr[t].op = "forward" => thr[t].p \in Id)
    BY Sames DEF Look, At, Equipped
  <1>2. r \in ThreadState /\ Equipped(r) /\ r.op = thr[t].op
    BY <1>1, PeekTyped
  <1>3. Leaves(t, r)
    BY Sames DEF Look, Leaves
  <1> HIDE DEF r
  <1>4. Frugal(t)
    BY <1>2, <1>3, FrugalStep DEF Look
  <1> QED BY <1>2, <1>3, <1>4, Sames, MakesTypeInv DEF Look

LEMMA FollowTyped ==
    ASSUME TypeInv, NEW t \in Thread, Follow(t), crossed' \in BOOLEAN
    PROVE  TypeInv'
  <1> DEFINE p == fut[thr[t].f].promise
             r == [thr[t] EXCEPT !.at = "placed", !.place = [in |-> prom[p].ptr, id |-> p]]
  <1>1. thr[t] \in ThreadState /\ thr[t].f \in Id /\ Equipped(thr[t])
    BY Sames DEF Follow, At, Equipped
  <1>2. CASE p = None
    BY <1>2, BreakTyped DEF Follow, Fault
  <1>3. CASE p # None
    <2>1. p \in Id /\ prom[p].ptr \in {"promise", "task", "null"}
      BY <1>1, <1>3, Sames DEF Future, Promise
    <2>2. thr[t].at = "peeked" /\ thr[t].op # "none"
          /\ (thr[t].op = "forward" => thr[t].p \in Id)
      BY <1>1 DEF Equipped, Follow, At
    <2>3. [in |-> prom[p].ptr, id |-> p] \in Place
      BY <2>1 DEF Place
    <2>4. r \in ThreadState
      BY <1>1, <2>3 DEF ThreadState, Label
    <2>5. r.at = "placed" /\ r.op = thr[t].op /\ r.f = thr[t].f /\ r.p = thr[t].p
          /\ r.place.id = p
      BY <1>1 DEF ThreadState
    <2>6. Leaves(t, r)
      BY <1>3, Sames DEF Follow, Leaves
    <2> HIDE DEF r, p
    <2>7. Equipped(r)
      BY <1>1, <2>1, <2>2, <2>5 DEF Equipped
    <2>8. Frugal(t)
      BY <1>3, <2>4, <2>5, <2>6, <2>7, FrugalStep DEF Follow, p
    <2> QED BY <1>3, <2>4, <2>6, <2>7, <2>8, Sames, MakesTypeInv DEF Follow, p
  <1> QED BY <1>2, <1>3

LEMMA JudgeTyped ==
    ASSUME TypeInv, NEW t \in Thread, Judge(t), crossed' \in BOOLEAN
    PROVE  TypeInv'
  <1> DEFINE v == Seen(t)
             r == IF thr[t].op = "get"
                  THEN [thr[t] EXCEPT !.at = IF v \in Available THEN "collect" ELSE "look"]
                  ELSE IF v \in Available THEN [thr[t] EXCEPT !.at = "look", !.stage = "take"]
                  ELSE IF thr[t].op = "forward" THEN [thr[t] EXCEPT !.at = "relink"]
                  ELSE IF thr[t].stage = "first"
                       THEN [thr[t] EXCEPT !.at = "look", !.stage = "second"]
                  ELSE [thr[t] EXCEPT !.at = "attach"]
  <1>1. thr[t] \in ThreadState /\ Equipped(thr[t]) /\ At(t, "placed")
    BY Sames DEF Judge
  <1>2. CASE v = "gone"
    BY <1>2, BreakTyped DEF Judge, Fault
  <1>3. CASE v # "gone"
    <2>1. r \in ThreadState /\ Equipped(r) /\ r.op = thr[t].op
      <3>0. r \in ThreadState
        BY <1>1 DEF ThreadState, Label
      <3>1. /\ r.op = thr[t].op /\ r.f = thr[t].f /\ r.p = thr[t].p
            /\ r.at \in {"collect", "look", "relink", "attach"}
            /\ r.at = "relink" => r.op = "forward"
            /\ r.at = "attach" => r.op \notin {"get", "forward"}
        BY <1>1 DEF ThreadState
      <3>2. thr[t].f \in Id /\ thr[t].op # "none" /\ thr[t].op \in {"none", "get", "forward"} \cup Chains
            /\ (thr[t].op = "forward" => thr[t].p \in Id)
        BY <1>1 DEF Equipped, At, ThreadState, Chains
      <3> HIDE DEF r
      <3>3. Equipped(r)
        BY <3>1, <3>2 DEF Equipped
      <3> QED BY <3>0, <3>1, <3>3
    <2>2. Leaves(t, r)
      BY <1>3, Sames DEF Judge, Leaves
    <2> HIDE DEF r
    <2>4. Frugal(t)
      BY <1>3, <2>1, <2>2, FrugalStep DEF Judge
    <2> QED BY <1>3, <2>1, <2>2, <2>4, Sames, MakesTypeInv DEF Judge
  <1> QED BY <1>2, <1>3


\* A step for which a thread's next number was kept.
LEMMA FrugalChain ==
    ASSUME TypeInv, NEW t \in Thread, NEW r \in ThreadState, Equipped(r), Leaves(t, r),
           r.op \notin Chains, thr[t].op \in Chains, next' = next + 1,
           AppsIn(posted') = AppsIn(posted)
    PROVE  Frugal(t)
  <1>1. Chaining' = Chaining \ {t} /\ t \in Chaining
    BY ThreadSet
  <1>2. Cardinality(AppsIn(posted)) \in Nat
    BY AppsFinite, Sames
  <1> QED BY <1>1, <1>2 DEF Frugal, FewerApps

LEMMA PostReadyTyped ==
    ASSUME TypeInv, NEW t \in Thread, PostReady(t), crossed' \in BOOLEAN
    PROVE  TypeInv'
  <1> DEFINE f == thr[t].f
             place == thr[t].place
             task == [of |-> f, q |-> next, op |-> thr[t].op]
             h == [k |-> "run", st |-> Value(place), task |-> task]
             r == [Idle EXCEPT !.at = "hold", !.f = next]
  <1>1. thr[t] \in ThreadState /\ f \in Id /\ place \in Place /\ thr[t].op \in Chains
        /\ Value(place) \in State
    BY Sames DEF PostReady, Seen, At, Equipped, ThreadState, Chains, Available, State
  <1>2. next \in Id
    BY <1>1, NextIsFree DEF Chaining
  <1>3. r \in ThreadState /\ Equipped(r) /\ r.op \notin Chains /\ Leaves(t, r)
    BY <1>2, HoldingTyped DEF PostReady, Leaves
  <1>4. task \in Continuation
    BY <1>1, <1>2 DEF Continuation, Chains
  <1>5. h \in Handler /\ h.k # "app"
    BY <1>1, <1>4, HandlerMade
  <1>6. posted' = Append(posted, h)
    BY DEF PostReady
  <1>7. posted' \in Seq(Handler) /\ AppsIn(posted') = AppsIn(posted)
    BY <1>5, <1>6, AppsAppend, PostedParts, Sames
  <1>8. Frugal(t)
    BY <1>1, <1>3, <1>7, FrugalChain DEF PostReady
  <1>9. prom' \in [Id -> Promise] /\ fut' \in [Id -> Future]
    <2>1. PromWithout(f, place) \in [Id -> Promise] /\ FutWithout(f) \in [Id -> Future]
      BY <1>1, UnlinkedTyped
    <2> QED BY <2>1, <1>2, Made DEF PostReady
  <1> HIDE DEF r
  <1> QED BY <1>3, <1>7, <1>8, <1>9, Sames, MakesTypeInv DEF PostReady

LEMMA Chained ==
    ASSUME NEW r \in Promise, NEW c \in Continuation
    PROVE  [r EXCEPT !.future = None, !.ptr = "task", !.taskState = "future", !.task = c]
             \in Promise
  BY DEF Promise, State

LEMMA PromiseSet ==
    ASSUME NEW r \in Promise
    PROVE  /\ \A v \in State : /\ [r EXCEPT !.local = v] \in Promise
                               /\ [r EXCEPT !.taskState = v] \in Promise
           /\ [r EXCEPT !.ptr = "null", !.task = None] \in Promise
  BY DEF Promise

LEMMA AttachTyped ==
    ASSUME TypeInv, NEW t \in Thread, Attach(t), crossed' \in BOOLEAN
    PROVE  TypeInv'
  <1> DEFINE f == thr[t].f
             p == fut[f].promise
             task == [of |-> f, q |-> next, op |-> thr[t].op]
             r == [Idle EXCEPT !.at = "hold", !.f = next]
  <1>1. f \in Id /\ thr[t].op \in Chains
    BY Sames DEF Attach, At, Equipped
  <1>2. next \in Id
    BY <1>1, NextIsFree DEF Chaining
  <1>3. CASE p = None
    BY <1>3, BreakTyped DEF Attach, Fault
  <1>4. CASE p # None
    <2>1. r \in ThreadState /\ Equipped(r) /\ r.op \notin Chains /\ Leaves(t, r)
      BY <1>2, <1>4, HoldingTyped DEF Attach, Leaves
    <2>2. task \in Continuation
      BY <1>1, <1>2 DEF Continuation, Chains
    <2>3. p \in Id
      BY <1>1, <1>4, Sames DEF Future
    <2>4. prom' \in [Id -> Promise]
      <3>1. [prom[p] EXCEPT !.future = None, !.ptr = "task", !.taskState = "future",
                            !.task = task] \in Promise
        BY <2>2, <2>3, Chained, Sames
      <3>2. NewPromise(next) \in Promise
        BY <1>2, Made
      <3>3. prom' = [[prom EXCEPT ![p] =
                  [prom[p] EXCEPT !.future = None, !.ptr = "task", !.taskState = "future",
                            !.task = task]] EXCEPT ![next] = NewPromise(next)]
        BY <1>4, <2>3, Sames DEF Attach
      <3> QED BY <3>1, <3>2, <3>3, Sames
    <2>5. fut' \in [Id -> Future]
      <3>1. [fut[f] EXCEPT !.promise = None] \in Future
        BY <1>1, Sames DEF Future
      <3>2. fut' = [[fut EXCEPT ![f] = [fut[f] EXCEPT !.promise = None]]
                        EXCEPT ![next] = Linked(next)]
        BY <1>4, <1>1, Sames DEF Attach
      <3> QED BY <3>1, <3>2, <1>2, Made, Sames
    <2>6. Frugal(t)
      BY <1>1, <1>4, <2>1, FrugalChain DEF Attach
    <2>7. UNCHANGED <<posted, global, asked, made, taken, fault>>
      BY <1>4 DEF Attach
    <2> HIDE DEF r
    <2> QED BY <2>1, <2>4, <2>5, <2>6, <2>7, Sames, MakesTypeInv
  <1> QED BY <1>3, <1>4

\* One more result in the hands of a consumer.
LEMMA TakenTyped ==
    ASSUME TypeInv, NEW f, NEW v \in Available
    PROVE  [taken EXCEPT ![f] = Append(@, v)] \in [Id -> Seq(Available)]
  <1>1. taken \in [Id -> Seq(Available)]
    BY Sames
  <1>2. f \in Id => Append(taken[f], v) \in Seq(Available)
    BY <1>1
  <1> QED BY <1>1, <1>2

\* The state a thread at a future finds.
Found(f) ==
    IF fut[f].promise = None THEN [in |-> "future", id |-> f]
    ELSE [in |-> prom[fut[f].promise].ptr, id |-> fut[f].promise]

LEMMA FoundTyped ==
    ASSUME TypeInv, NEW f \in Id
    PROVE  Found(f) \in Place /\ Found(f).id \in Id
  <1>1. fut[f].promise \in Id \cup {None}
        /\ (fut[f].promise # None => prom[fut[f].promise].ptr \in {"promise", "task", "null"})
    BY Sames DEF Future, Promise
  <1> QED BY <1>1 DEF Found, Place

LEMMA CollectTyped ==
    ASSUME TypeInv, NEW t \in Thread, Collect(t), crossed' \in BOOLEAN
    PROVE  TypeInv'
  <1> DEFINE f == thr[t].f
             v == Value(Found(f))
             r == IF thr[t].p = None THEN Idle ELSE Returned(thr[t].p, v)
  <1>1. f \in Id /\ thr[t].p \in Id \cup {None}
    BY Sames DEF Collect, At, Equipped, ThreadState
  <1>2. CASE v \notin Available
    BY <1>2, BreakTyped DEF Collect, Fault, Found
  <1>3. CASE v \in Available
    <2>1. r \in ThreadState /\ Equipped(r) /\ r.op \notin Chains
      BY <1>1, <1>3, IdleTyped, ReturnedTyped
    <2>2. Leaves(t, r) /\ next' = next /\ posted' = posted
          /\ UNCHANGED <<global, asked, made, fault>>
      BY <1>3, Sames DEF Collect, Found, Leaves
    <2>3. taken' \in [Id -> Seq(Available)]
      <3>1. taken' = [taken EXCEPT ![f] = Append(@, v)]
        BY <1>3 DEF Collect, Found
      <3> QED BY <1>3, <3>1, TakenTyped
    <2>4. prom' = PromWithout(f, Found(f)) /\ fut' = FutWithout(f)
      BY <1>3 DEF Collect, Found
    <2>5. prom' \in [Id -> Promise] /\ fut' \in [Id -> Future]
      BY <2>4, <1>1, UnlinkedTyped, FoundTyped
    <2> HIDE DEF r, v
    <2>6. Frugal(t)
      BY <2>1, <2>2, FrugalStep
    <2> QED BY <2>1, <2>2, <2>3, <2>5, <2>6, Sames, MakesTypeInv
  <1> QED BY <1>2, <1>3

\* A continuation that is run, or rest handlers left as they are.
LEMMA ContinueTyped ==
    ASSUME TypeInv, NEW t \in Thread, NEW task \in Continuation, NEW st \in State,
           NEW rest \in Seq(Handler), Cardinality(AppsIn(rest)) <= Cardinality(AppsIn(posted)),
           Continue(t, task, st, rest), st \in Available,
           prom' \in [Id -> Promise], global' = global, crossed' \in BOOLEAN
    PROVE  TypeInv'
  <1>1. task.q \in Id /\ task.of \in Id
    BY DEF Continuation
  <1>2. taken' \in [Id -> Seq(Available)] /\ made' = made /\ fault' = fault
    <2>1. taken' = [taken EXCEPT ![task.of] = Append(@, st)] /\ made' = made /\ fault' = fault
      BY DEF Continue
    <2> QED BY <2>1, TakenTyped
  <1>3. ASSUME NEW out \in Available, NEW r, r = Returned(task.q, out)
                  \/ r = [Returned(task.q, out) EXCEPT !.forwarded = FALSE],
               Leaves(t, r), posted' = rest, UNCHANGED <<fut, next, asked>>
        PROVE  TypeInv'
    <2>1. r \in ThreadState /\ Equipped(r) /\ r.op \notin Chains
      <3>1. CASE r = Returned(task.q, out)
        BY <1>1, <3>1, ReturnedTyped
      <3>2. CASE r = [Returned(task.q, out) EXCEPT !.forwarded = FALSE]
        BY <1>1, <3>2 DEF Returned, Idle, ThreadState, Label, State, Place, Nowhere,
            Equipped, Chains, Available
      <3> QED BY <1>3, <3>1, <3>2
    <2>2. Quieter
      BY <2>1, <1>3, Stays
    <2>3. Frugal(t)
      BY <2>2, <1>3 DEF Frugal, FewerApps
    <2> QED BY <1>2, <1>3, <2>1, <2>3, Sames, MakesTypeInv
  <1>4. ASSUME MayCall, NEW how \in {"waits", "returns"}, NEW r, r = Started(task.q, how),
               Leaves(t, r), asked' = asked \cup (IF how = "waits" THEN {next} ELSE {}),
               next' = next + 1, posted' = Append(rest, [k |-> "produce", p |-> next]),
               fut' = [fut EXCEPT ![next] = Linked(next)]
        PROVE  TypeInv'
    <2>1. next \in Id
      BY <1>4, NextIsFree
    <2>2. r \in ThreadState /\ Equipped(r) /\ r.op \notin Chains
      BY <1>1, <1>4, <2>1 DEF Started, Idle, ThreadState, Label, State, Place, Nowhere,
            Equipped, Chains, Available
    <2>3. Quieter
      BY <2>2, <1>4, Stays
    <2>4. posted' \in Seq(Handler) /\ AppsIn(posted') = AppsIn(rest)
      BY <1>4, <2>1, HandlerMade, AppsAppend, PostedParts
    <2>5. Frugal(t)
      BY <2>3, <2>4, <1>4 DEF Frugal, FewerApps
    <2>6. fut' \in [Id -> Future] /\ asked' \subseteq Id
      BY <1>4, <2>1, Made, Sames
    <2>7. Leaves(t, r)
      BY <1>4
    <2> QED BY <1>2, <2>2, <2>4, <2>5, <2>6, <2>7, Sames, MakesTypeInv
  <1> QED BY <1>3, <1>4 DEF Continue, Leaves


LEMMA ContinueUnset ==
    ASSUME NEW t, NEW task, NEW st, NEW rest, Continue(t, task, st, rest), st \notin Available
    PROVE  Break("unset")
  BY DEF Continue

\* A continuation that is run takes at most the next number.
LEMMA ContinueNext ==
    ASSUME TypeInv, NEW t \in Thread, NEW task, NEW st, NEW rest, Continue(t, task, st, rest),
           next' > next
    PROVE  next \in Id
  <1>1. next \in Nat
    BY Numbers, Sames
  <1>2. MayCall
    BY <1>1 DEF Continue, Break
  <1> QED BY <1>2, NextIsFree

LEMMA RunTyped ==
    ASSUME TypeInv, NEW t \in Thread, Run(t), crossed' \in BOOLEAN
    PROVE  TypeInv'
  <1> DEFINE task == Head(posted).task
             st == Head(posted).st
             rest == Tail(posted)
  <1>1. posted # <<>> /\ Head(posted) \in Handler /\ Head(posted).k = "run" /\ rest \in Seq(Handler)
    BY PostedParts, Sames DEF Run
  <1>2. task \in Continuation /\ st \in State
    BY <1>1, HandlerParts
  <1>3. Continue(t, task, st, rest) /\ global' = global
    BY DEF Run
  <1>4. CASE st \notin Available
    BY <1>3, <1>4, ContinueUnset, BreakTyped DEF Fault
  <1>5. CASE st \in Available
    <2>1. Cardinality(AppsIn(rest)) <= Cardinality(AppsIn(posted))
      <3>1. Cardinality(AppsIn(rest)) \in Nat /\ Cardinality(AppsIn(posted)) \in Nat
        BY <1>1, AppsFinite, Sames
      <3> QED BY <1>1, <3>1, AppsTail, Sames
    <2>2. prom' \in [Id -> Promise]
      <3>1. CASE next' > next
        <4>1. next \in Id
          BY <1>3, <3>1, ContinueNext
        <4> QED BY <3>1, <4>1, Made, Sames DEF Run
      <3>2. CASE ~(next' > next)
        BY <3>2, Sames DEF Run
      <3> QED BY <3>1, <3>2
    <2> HIDE DEF task, st, rest
    <2> QED BY <1>1, <1>2, <1>3, <1>5, <2>1, <2>2, ContinueTyped
  <1> QED BY <1>4, <1>5

LEMMA TakeTyped ==
    ASSUME TypeInv, NEW t \in Thread, Take(t), crossed' \in BOOLEAN
    PROVE  TypeInv'
  <1> DEFINE f == thr[t].f
             place == thr[t].place
             v == Seen(t)
             h == [k |-> "produce", p |-> next]
  <1>1. f \in Id /\ place \in Place /\ thr[t].op \in Chains
    BY Sames DEF Take, At, Equipped, ThreadState, Chains
  <1>2. CASE v \notin Available
    BY <1>2, BreakTyped DEF Take, Fault
  <1>3. CASE v \in Available
    <2>1. next \in Id
      BY <1>1, NextIsFree DEF Chaining
    <2>2. taken' \in [Id -> Seq(Available)] /\ next' = next + 1 /\ UNCHANGED <<global, fault>>
      <3>1. taken' = [taken EXCEPT ![f] = Append(@, v)] /\ next' = next + 1
            /\ UNCHANGED <<global, fault>>
        BY <1>3 DEF Take
      <3> QED BY <1>3, <3>1, TakenTyped
    <2>3. PromWithout(f, place) \in [Id -> Promise] /\ FutWithout(f) \in [Id -> Future]
      BY <1>1, UnlinkedTyped
    <2>4. CASE /\ \E out \in Available :
                     /\ fut' = [FutWithout(f) EXCEPT ![next] = ReadyFuture(out)]
                     /\ made' = [made EXCEPT ![next] = out]
               /\ prom' = PromWithout(f, place)
               /\ Leaves(t, [Idle EXCEPT !.at = "hold", !.f = next])
               /\ UNCHANGED <<posted, asked>>
      <3> DEFINE r == [Idle EXCEPT !.at = "hold", !.f = next]
      <3>1. r \in ThreadState /\ Equipped(r) /\ r.op \notin Chains /\ Leaves(t, r)
        BY <2>1, <2>4, HoldingTyped
      <3>2. Frugal(t)
        BY <1>1, <2>2, <2>4, <3>1, FrugalChain
      <3>3. fut' \in [Id -> Future] /\ made' \in [Id -> {"future"} \cup Available]
            /\ prom' \in [Id -> Promise] /\ posted' = posted /\ asked' = asked
        BY <2>1, <2>3, <2>4, Made, Sames DEF Available, State
      <3> HIDE DEF r
      <3> QED BY <2>2, <3>1, <3>2, <3>3, Sames, MakesTypeInv
    <2>5. ASSUME fut' = [FutWithout(f) EXCEPT ![next] = Linked(next)],
                 prom' = [PromWithout(f, place) EXCEPT ![next] = NewPromise(next)],
                 posted' = Append(posted, h),
                 NEW how \in {"waits", "returns"},
                 Leaves(t, Started(None, how)),
                 asked' = asked \cup (IF how = "waits" THEN {next} ELSE {}),
                 made' = made
          PROVE  TypeInv'
      <3> DEFINE r == Started(None, how)
      <3>1. r \in ThreadState /\ Equipped(r) /\ r.op \notin Chains /\ Leaves(t, r)
        BY <2>1, <2>5 DEF Started, Idle, ThreadState, Label, State, Place, Nowhere,
            Equipped, Chains, Available
      <3>2. posted' \in Seq(Handler) /\ AppsIn(posted') = AppsIn(posted)
        <4>1. h \in Handler /\ h.k # "app"
          BY <2>1, HandlerMade
        <4> QED BY <2>5, <4>1, AppsAppend, PostedParts, Sames
      <3>3. Frugal(t)
        BY <1>1, <2>2, <3>1, <3>2, FrugalChain
      <3>4. fut' \in [Id -> Future] /\ prom' \in [Id -> Promise] /\ asked' \subseteq Id
        BY <2>1, <2>3, <2>5, Made, Sames
      <3>5. made' = made
        BY <2>5
      <3> HIDE DEF r
      <3> QED BY <2>2, <3>1, <3>2, <3>3, <3>4, <3>5, Sames, MakesTypeInv
    <2>6. QED BY <1>3, <2>4, <2>5 DEF Take, Leaves
  <1> QED BY <1>2, <1>3

LEMMA HoldTyped ==
    ASSUME TypeInv, NEW t \in Thread, Hold(t), crossed' \in BOOLEAN
    PROVE  TypeInv'
  <1> DEFINE r == [thr[t] EXCEPT !.at = "moved"]
  <1>1. thr[t] \in ThreadState /\ thr[t].f \in Id /\ thr[t].op = "forward"
    BY Sames DEF Hold, At, Equipped
  <1>2. r \in ThreadState /\ Equipped(r) /\ r.op = thr[t].op /\ Leaves(t, r)
    BY <1>1, Sames DEF Hold, Leaves, ThreadState, Label, Equipped
  <1> HIDE DEF r
  <1>3. Frugal(t)
    BY <1>2, FrugalStep DEF Hold
  <1>4. fut' \in [Id -> Future]
    BY <1>1, Sames DEF Hold, Future
  <1> QED BY <1>2, <1>3, <1>4, Sames, MakesTypeInv DEF Hold


LEMMA MovedTyped ==
    ASSUME TypeInv, NEW t \in Thread, Moved(t), crossed' \in BOOLEAN
    PROVE  TypeInv'
  <1> DEFINE r == IF thr[t].p = None THEN [Idle EXCEPT !.at = "hold", !.f = thr[t].f]
                  ELSE [thr[t] EXCEPT !.at = "look"]
  <1>1. thr[t] \in ThreadState /\ thr[t].f \in Id /\ thr[t].op = "forward"
    BY Sames DEF Moved, At, Equipped
  <1>2. r \in ThreadState /\ Equipped(r) /\ r.op \notin Chains
    <2>1. CASE thr[t].p = None
      BY <1>1, <2>1, HoldingTyped
    <2>2. CASE thr[t].p # None
      BY <1>1, <2>2 DEF ThreadState, Label, Equipped, Chains
    <2> QED BY <2>1, <2>2
  <1>3. Leaves(t, r)
    BY Sames DEF Moved, Leaves
  <1> HIDE DEF r
  <1>4. Frugal(t)
    BY <1>2, <1>3, FrugalStep DEF Moved
  <1>5. fut' \in [Id -> Future]
    BY <1>1, Sames DEF Moved, Future
  <1> QED BY <1>2, <1>3, <1>4, <1>5, Sames, MakesTypeInv DEF Moved

LEMMA ForwardTyped ==
    ASSUME TypeInv, NEW t \in Thread, Forward(t), crossed' \in BOOLEAN
    PROVE  TypeInv'
  <1> DEFINE f == thr[t].f
             place == thr[t].place
             v == Seen(t)
             r == Returned(thr[t].p, v)
  <1>1. f \in Id /\ place \in Place /\ thr[t].p \in Id
    BY Sames DEF Forward, At, Equipped, ThreadState
  <1>2. CASE v \notin Available
    BY <1>2, BreakTyped DEF Forward, Fault
  <1>3. CASE v \in Available
    <2>1. r \in ThreadState /\ Equipped(r) /\ r.op \notin Chains
      BY <1>1, <1>3, ReturnedTyped
    <2>2. Leaves(t, r)
      BY <1>3, Sames DEF Forward, Leaves
    <2>3. taken' \in [Id -> Seq(Available)]
      <3>1. taken' = [taken EXCEPT ![f] = Append(@, v)]
        BY <1>3 DEF Forward
      <3> QED BY <1>3, <3>1, TakenTyped
    <2>4. prom' \in [Id -> Promise] /\ fut' \in [Id -> Future]
      BY <1>1, <1>3, UnlinkedTyped DEF Forward
    <2>5. UNCHANGED <<posted, global, next, asked, made, fault>>
      BY <1>3 DEF Forward
    <2> HIDE DEF r, v
    <2>6. Frugal(t)
      BY <2>1, <2>2, <2>5, FrugalStep
    <2> QED BY <2>1, <2>2, <2>3, <2>4, <2>5, <2>6, Sames, MakesTypeInv
  <1> QED BY <1>2, <1>3

LEMMA RelinkTyped ==
    ASSUME TypeInv, NEW t \in Thread, Relink(t), crossed' \in BOOLEAN
    PROVE  TypeInv'
  <1> DEFINE f == thr[t].f
             p == fut[f].promise
             q == thr[t].p
  <1>1. f \in Id /\ q \in Id
    BY Sames DEF Relink, At, Equipped
  <1>2. CASE p = None
    BY <1>2, BreakTyped DEF Relink, Fault
  <1>3. CASE p # None
    <2>1. p \in Id
      BY <1>1, <1>3, Sames DEF Future
    <2>2. prom' \in [Id -> Promise]
      <3>1. prom' = [prom EXCEPT ![p] = prom[q], ![q] = Dead(q)]
        BY <1>3 DEF Relink
      <3>2. prom[q] \in Promise /\ Dead(q) \in Promise
        BY <1>1, Made, Sames
      <3> HIDE DEF p, q
      <3> QED BY <3>1, <3>2, Sames
    <2>3. fut' \in [Id -> Future]
      <3>1. ASSUME NEW i \in Id PROVE [fut[i] EXCEPT !.promise = p] \in Future
        BY <2>1, Edited, Sames
      <3>2. ReadyFuture("invalid") \in Future
        BY <1>1, Made DEF State
      <3>3. fut' = [i \in Id |->
                     IF i = f THEN ReadyFuture("invalid")
                     ELSE IF i = prom[q].future THEN [fut[i] EXCEPT !.promise = p]
                     ELSE fut[i]]
        BY <1>3 DEF Relink
      <3> QED BY <3>1, <3>2, <3>3, Sames
    <2>4. Leaves(t, Idle) /\ UNCHANGED <<posted, next, asked, made, taken, fault>>
          /\ global' = None
      BY <1>3 DEF Relink, Leaves
    <2>5. Frugal(t)
      BY <2>4, IdleTyped, FrugalStep
    <2> QED BY <2>2, <2>3, <2>4, <2>5, IdleTyped, Sames, MakesTypeInv
  <1> QED BY <1>2, <1>3

LEMMA ProduceTyped ==
    ASSUME TypeInv, NEW t \in Thread, Produce(t), crossed' \in BOOLEAN
    PROVE  TypeInv'
  <1> DEFINE r == [Idle EXCEPT !.at = "pmove", !.p = Head(posted).p]
  <1>1. posted # <<>> /\ Head(posted) \in Handler /\ Head(posted).p \in Id
        /\ posted' = Tail(posted) /\ posted' \in Seq(Handler)
    BY PostedParts, HandlerParts, Sames DEF Produce
  <1>2. r \in ThreadState /\ Equipped(r) /\ r.op \notin Chains /\ Leaves(t, r)
    BY <1>1 DEF Produce, Leaves, Idle, ThreadState, Label, State, Place, Nowhere, Equipped, Chains
  <1> HIDE DEF r
  <1>3. FewerApps
    <2>1. Cardinality(AppsIn(posted')) \in Nat /\ Cardinality(AppsIn(posted)) \in Nat
      BY <1>1, AppsFinite, Sames
    <2>2. Cardinality(AppsIn(Tail(posted))) <= Cardinality(AppsIn(posted))
            - (IF Head(posted).k = "app" THEN 1 ELSE 0)
      BY <1>1, AppsTail, Sames
    <2> QED BY <1>1, <2>1, <2>2 DEF FewerApps
  <1>4. Quieter
    BY <1>2, Stays
  <1>5. Frugal(t)
    BY <1>3, <1>4 DEF Frugal, Produce
  <1> QED BY <1>1, <1>2, <1>5, Sames, MakesTypeInv DEF Produce

LEMMA BlockTyped ==
    ASSUME TypeInv, NEW t \in Thread, Block(t), crossed' \in BOOLEAN
    PROVE  TypeInv'
  <1>1. Chaining' = Chaining /\ AppsIn(posted') = AppsIn(posted)
    BY DEF Block, Chaining
  <1>2. Budget'
    BY <1>1 DEF TypeInv, Budget, Block
  <1> QED BY <1>2 DEF TypeInv, Typed, Block

LEMMA MoveInTyped ==
    ASSUME TypeInv, NEW t \in Thread, MoveIn(t), crossed' \in BOOLEAN
    PROVE  TypeInv'
  <1>1. PICK out \in Available : thr' = [thr EXCEPT ![t].at = "point", ![t].out = out]
    BY DEF MoveIn
  <1> DEFINE r == [thr[t] EXCEPT !.at = "point", !.out = out]
  <1>2. thr[t] \in ThreadState /\ Equipped(thr[t]) /\ thr[t].at = "pmove"
    BY Sames DEF MoveIn, At
  <1>3. r \in ThreadState /\ Equipped(r) /\ r.op = thr[t].op
    BY <1>2 DEF ThreadState, Label, Equipped, Available, State
  <1>4. Leaves(t, r)
    BY <1>1, Sames DEF Leaves
  <1> HIDE DEF r
  <1>5. Frugal(t)
    BY <1>3, <1>4, FrugalStep DEF MoveIn
  <1> QED BY <1>3, <1>4, <1>5, Sames, MakesTypeInv DEF MoveIn

LEMMA PointTyped ==
    ASSUME TypeInv, NEW t \in Thread, Point(t), crossed' \in BOOLEAN
    PROVE  TypeInv'
  <1> DEFINE p == thr[t].p
             r == [thr[t] EXCEPT !.at = "store", !.place = [in |-> prom[p].ptr, id |-> p]]
  <1>1. thr[t] \in ThreadState /\ Equipped(thr[t]) /\ thr[t].at = "point" /\ p \in Id
    BY Sames DEF Point, At, Equipped
  <1>2. prom[p].ptr \in {"promise", "task", "null"}
    BY <1>1, Sames DEF Promise
  <1>3. r \in ThreadState /\ Equipped(r) /\ r.op = thr[t].op
    <2>1. [in |-> prom[p].ptr, id |-> p] \in Place
      BY <1>1, <1>2 DEF Place
    <2>2. r \in ThreadState
      BY <1>1, <2>1 DEF ThreadState, Label
    <2>3. /\ r.at = "store" /\ r.op = thr[t].op /\ r.p = p /\ r.out = thr[t].out
          /\ r.place.id = p
      BY <1>1 DEF ThreadState
    <2> HIDE DEF r
    <2>4. Equipped(r)
      BY <1>1, <2>3 DEF Equipped
    <2> QED BY <2>2, <2>3, <2>4
  <1>4. Leaves(t, r)
    BY Sames DEF Point, Leaves
  <1> HIDE DEF r
  <1>5. Frugal(t)
    BY <1>3, <1>4, FrugalStep DEF Point
  <1> QED BY <1>3, <1>4, <1>5, Sames, MakesTypeInv DEF Point

LEMMA StoreTyped ==
    ASSUME TypeInv, NEW t \in Thread, Store(t), crossed' \in BOOLEAN
    PROVE  TypeInv'
  <1> DEFINE p == thr[t].p
             v == Value(thr[t].place)
             r == [thr[t] EXCEPT !.at = "ready"]
  <1>1. thr[t] \in ThreadState /\ Equipped(thr[t]) /\ thr[t].at = "store" /\ p \in Id
        /\ thr[t].out \in Available
    BY Sames DEF Store, At, Equipped
  <1>2. CASE v # "future"
    BY <1>2, BreakTyped DEF Store, Fault
  <1>3. CASE v = "future"
    <2>1. r \in ThreadState /\ Equipped(r) /\ r.op = thr[t].op
      BY <1>1 DEF ThreadState, Label, Equipped
    <2>2. Leaves(t, r) /\ UNCHANGED <<posted, fut, global, next, asked, taken, fault>>
      BY <1>3, Sames DEF Store, Leaves
    <2>3. Stored(thr[t]) \in State
      BY <1>1 DEF Stored, State, Available
    <2>4. prom' \in [Id -> Promise]
      <3>1. [prom[p] EXCEPT !.local = Stored(thr[t])] \in Promise
            /\ [prom[p] EXCEPT !.taskState = Stored(thr[t])] \in Promise
        BY <1>1, <2>3, PromiseSet, Sames
      <3>2. \/ prom' = [prom EXCEPT ![p].local = Stored(thr[t])]
            \/ prom' = [prom EXCEPT ![p].taskState = Stored(thr[t])]
        BY <1>3 DEF Store
      <3> QED BY <3>1, <3>2, Sames
    <2>5. made' \in [Id -> {"future"} \cup Available]
      <3>1. made' = [made EXCEPT ![prom[p].whose] = thr[t].out]
        BY <1>3 DEF Store
      <3> QED BY <1>1, <3>1, Sames
    <2> HIDE DEF r
    <2>6. Frugal(t)
      BY <2>1, <2>2, FrugalStep
    <2> QED BY <2>1, <2>2, <2>4, <2>5, <2>6, Sames, MakesTypeInv
  <1> QED BY <1>2, <1>3

LEMMA MakeReadyTyped ==
    ASSUME TypeInv, NEW t \in Thread, MakeReady(t), crossed' \in BOOLEAN
    PROVE  TypeInv'
  <1> DEFINE p == thr[t].p
             task == prom[p].task
             st == prom[p].taskState
             h == [k |-> "run", st |-> st, task |-> task]
             r == [thr[t] EXCEPT !.at = "destroy"]
  <1>1. thr[t] \in ThreadState /\ Equipped(thr[t]) /\ thr[t].at = "ready" /\ p \in Id
    BY Sames DEF MakeReady, At, Equipped
  <1>2. st \in State /\ task \in Continuation \cup {None}
    BY <1>1, Sames DEF Promise
  <1>3. r \in ThreadState /\ Equipped(r) /\ r.op = thr[t].op
    BY <1>1 DEF ThreadState, Label, Equipped
  <1>4. CASE Leaves(t, r) /\ UNCHANGED <<posted, prom, fut, global, next, asked, made, taken, fault>>
    <2> HIDE DEF r
    <2>1. Frugal(t)
      BY <1>3, <1>4, FrugalStep
    <2> QED BY <1>3, <1>4, <2>1, Sames, MakesTypeInv
  <1>5. CASE /\ task # None
             /\ posted' = Append(posted, h)
             /\ prom' = [prom EXCEPT ![p].ptr = "null", ![p].task = None]
             /\ Leaves(t, r)
             /\ UNCHANGED <<fut, global, next, asked, made, taken, fault>>
    <2>1. posted' \in Seq(Handler) /\ AppsIn(posted') = AppsIn(posted)
      <3>1. h \in Handler /\ h.k # "app"
        BY <1>2, <1>5, HandlerMade
      <3> QED BY <1>5, <3>1, AppsAppend, PostedParts, Sames
    <2>2. prom' \in [Id -> Promise]
      <3>1. [prom[p] EXCEPT !.ptr = "null", !.task = None] \in Promise
        BY <1>1, PromiseSet, Sames
      <3> QED BY <1>5, <3>1, Sames
    <2> HIDE DEF r
    <2>3. Quieter
      BY <1>3, <1>5, Stays
    <2>4. Cardinality(AppsIn(posted)) \in Nat
      BY AppsFinite, Sames
    <2>5. Frugal(t)
      BY <1>5, <2>1, <2>3, <2>4 DEF Frugal, FewerApps
    <2> QED BY <1>3, <1>5, <2>1, <2>2, <2>5, Sames, MakesTypeInv
  <1>6. CASE /\ task # None
             /\ Continue(t, task, st, posted)
             /\ prom' = IF fault' # "none" THEN prom
                        ELSE IF next' > next
                        THEN [prom EXCEPT ![p] = Dead(p), ![next] = NewPromise(next)]
                        ELSE [prom EXCEPT ![p] = Dead(p)]
             /\ global' = global
    <2>1. CASE st \notin Available
      BY <1>6, <2>1, ContinueUnset, BreakTyped DEF Fault
    <2>2. CASE st \in Available
      <3>1. Dead(p) \in Promise /\ (next' > next => next \in Id /\ NewPromise(next) \in Promise)
        BY <1>1, <1>6, ContinueNext, Made
      <3>2. prom' \in [Id -> Promise]
        BY <1>1, <1>6, <3>1, Sames
      <3>3. Cardinality(AppsIn(posted)) <= Cardinality(AppsIn(posted))
        BY AppsFinite, Sames
      <3>4. task \in Continuation /\ posted \in Seq(Handler)
        BY <1>2, <1>6, Sames
      <3> HIDE DEF task, st
      <3> QED BY <1>2, <1>6, <2>2, <3>2, <3>3, <3>4, ContinueTyped
    <2> QED BY <2>1, <2>2
  <1>7. Leaves(t, r) <=> thr' = [thr EXCEPT ![t].at = "destroy"]
    BY Sames DEF Leaves
  <1> QED BY <1>4, <1>5, <1>6, <1>7 DEF MakeReady

LEMMA DestroyTyped ==
    ASSUME TypeInv, NEW t \in Thread, Destroy(t), crossed' \in BOOLEAN
    PROVE  TypeInv'
  <1> DEFINE p == thr[t].p
             f == prom[p].future
  <1>1. p \in Id
    BY Sames DEF Destroy, At, Equipped
  <1>2. f \in Id \cup {None} /\ prom[p].local \in State
    BY <1>1, Sames DEF Promise
  <1>3. Leaves(t, Idle) /\ Frugal(t)
    BY IdleTyped, FrugalStep DEF Destroy, Leaves
  <1>4. prom' \in [Id -> Promise]
    BY <1>1, Made, Sames DEF Destroy
  <1>5. fut' \in [Id -> Future]
    BY <1>2, Edited, Sames DEF Destroy
  <1> QED BY <1>3, <1>4, <1>5, IdleTyped, Sames, MakesTypeInv DEF Destroy

LEMMA InitTyped ==
    ASSUME Init
    PROVE  TypeInv
  <1>1. posted \in Seq(Handler) /\ posted = [i \in 1..Apps |-> [k |-> "app"]]
    <2>1. [k |-> "app"] \in Handler
      BY DEF Handler
    <2>2. \A i \in 1..Apps : posted[i] \in Handler
      BY <2>1 DEF Init
    <2> QED BY <2>2, Numbers DEF Init
  <1>2. thr \in [Thread -> ThreadState] /\ \A t \in Thread : Equipped(thr[t])
    BY IdleTyped DEF Init
  <1>3. prom \in [Id -> Promise] /\ fut \in [Id -> Future]
    BY Made DEF Init, State
  <1>4. Budget
    <2>1. Chaining = {}
      BY IdleTyped DEF Init, Chaining
    <2>2. AppsIn(posted) = 1..Apps
      BY <1>1 DEF AppsIn
    <2>3. Cardinality(1..Apps) = Apps
      BY Numbers, FS_Interval
    <2> QED BY <2>1, <2>2, <2>3, FS_EmptySet, Numbers DEF Budget, Init
  <1>5. next \in 1..(Ids + 1) /\ taken \in [Id -> Seq(Available)]
    BY Numbers DEF Init
  <1> QED BY <1>1, <1>2, <1>3, <1>4, <1>5 DEF TypeInv, Typed, Init, Fault

LEMMA StepTyped ==
    ASSUME TypeInv, NEW t \in Thread, Step(t), crossed' \in BOOLEAN
    PROVE  TypeInv'
  BY BeginTyped, DropTyped, UseTyped, LookTyped, FollowTyped, JudgeTyped, PostReadyTyped,
     AttachTyped, CollectTyped, RunTyped, TakeTyped, HoldTyped, MovedTyped, ForwardTyped,
     RelinkTyped, AloneTyped, ProduceTyped, BlockTyped, MoveInTyped, PointTyped, StoreTyped,
     MakeReadyTyped, DestroyTyped DEF Step

LEMMA TypesThroughout == Spec => []TypeInv
  <1>1. Init => TypeInv
    BY InitTyped
  <1>2. TypeInv /\ [Next]_vars => TypeInv'
    <2> SUFFICES ASSUME TypeInv, [Next]_vars PROVE TypeInv'
      OBVIOUS
    <2>1. CASE Next
      <3>1. crossed' \in BOOLEAN
        BY <2>1 DEF Next, TypeInv, Typed
      <3> QED BY <2>1, <3>1, StepTyped DEF Next
    <2>2. CASE UNCHANGED vars
      BY <2>2 DEF vars, TypeInv, Typed, Budget, Chaining, AppsIn
    <2> QED BY <2>1, <2>2
  <1> QED BY <1>1, <1>2, PTL DEF Spec

Addressed == bare \subseteq Id /\ carried \subseteq Id /\ stray \subseteq Thread

\* A thread that reads a state at all reads it where it was given the address.
LEMMA ReadsPlace ==
    ASSUME NEW t, Seen(t) # "gone"
    PROVE  Seen(t) = Value(thr[t].place)
  BY DEF Seen

LEMMA SeesPlace ==
    ASSUME NEW t, Seen(t) \in Available
    PROVE  Seen(t) = Value(thr[t].place)
  BY ReadsPlace DEF Available

\* A future made ready, and a continuation posted with its state, has a number.
LEMMA NextNumbered ==
    ASSUME TypeInv, NEW t \in Thread, Begin(t) \/ Take(t) \/ PostReady(t)
    PROVE  next \in Id
  <1>1. Begin(t) => posted # <<>> /\ Head(posted).k = "app"
    BY DEF Begin
  <1>2. Take(t) \/ PostReady(t) => t \in Chaining
    BY DEF Take, PostReady, Chaining, Chains
  <1> QED BY <1>1, <1>2, NextIsFree

LEMMA StepAddressed ==
    ASSUME TypeInv, Addressed, NEW t \in Thread, Step(t)
    PROVE  Addressed'
  <1> DEFINE Grows == /\ bare' \in {bare, bare \cup {next}}
                      /\ carried' \in {carried, carried \cup {next}}
                      /\ stray' = stray
             Strays == /\ bare' = bare /\ carried' = carried
                       /\ \E p : stray' \in {stray, stray \cup Left(p)}
  <1>1. \A p : Left(p) \subseteq Thread
    BY DEF Left
  <1>2. CASE Strays
    BY <1>1, <1>2 DEF Addressed
  <1>3. CASE \E kind : Break(kind)
    BY <1>3 DEF Break, ptrs, Addressed
  <1>4. CASE ptrs' = ptrs
    BY <1>4 DEF ptrs, Addressed
  <1>5. ASSUME Begin(t) \/ Take(t) \/ PostReady(t) PROVE Addressed'
    <2>1. next \in Id
      BY <1>5, NextNumbered
    <2>2. Begin(t) \/ PostReady(t) => Grows
      BY DEF Begin, PostReady
    <2>3. Take(t) => Grows \/ \E kind : Break(kind)
      BY DEF Take
    <2> QED BY <1>3, <1>5, <2>1, <2>2, <2>3 DEF Addressed
  <1>6. Run(t) => Strays
    BY DEF Run
  <1>7. MoveIn(t) => Strays
    BY DEF MoveIn
  <1>8. Drop(t) \/ Look(t) \/ Hold(t) \/ Moved(t) \/ Produce(t) \/ Block(t) \/ Point(t)
          \/ MakeReady(t) \/ Destroy(t) \/ (\E op \in {"get", "then", "wrapped"} : Use(t, op))
          => ptrs' = ptrs
    BY DEF Drop, Look, Hold, Moved, Produce, Block, Point, MakeReady, Destroy, Use
  <1>9. Follow(t) \/ Judge(t) \/ Attach(t) \/ Collect(t) \/ Forward(t) \/ Relink(t) \/ Store(t)
          => ptrs' = ptrs \/ \E kind : Break(kind)
    BY DEF Follow, Judge, Attach, Collect, Forward, Relink, Store
  <1>10. LostThis(t) \/ NoMutex(t) => \E kind : Break(kind)
    BY AloneBreaks
  <1> HIDE DEF Strays, Grows
  <1> QED BY <1>2, <1>3, <1>4, <1>5, <1>6, <1>7, <1>8, <1>9, <1>10 DEF Step

\* TypeOK for any pool and any number of calls: among it, that a number is left
\* for every call and continuation that has begun.
THEOREM TypeCorrect == Spec => []TypeOK
  <1>1. Init => Addressed
    BY DEF Init, Addressed
  <1>2. TypeInv /\ Addressed /\ [Next]_vars => Addressed'
    <2> SUFFICES ASSUME TypeInv, Addressed, [Next]_vars PROVE Addressed'
      OBVIOUS
    <2>1. CASE Next
      BY <2>1, StepAddressed DEF Next
    <2>2. CASE UNCHANGED vars
      BY <2>2 DEF vars, ptrs, Addressed
    <2> QED BY <2>1, <2>2
  <1>3. TypeInv /\ Addressed => TypeOK
    BY DEF TypeInv, Typed, Addressed, TypeOK
  <1> QED BY <1>1, <1>2, <1>3, TypesThroughout, PTL DEF Spec

-----------------------------------------------------------------------------
(* A result is handed over once.                                           *)

\* The futures a thread has in hand, those a posted continuation was chained
\* to, those a promise has a continuation of, and those whose result was taken.
InHand == {i \in Id : \E t \in Thread : thr[t].f = i}
Posts(k, i) == posted[k].k = "run" /\ posted[k].task.of = i
Queued == {i \in Id : \E k \in DOMAIN posted : Posts(k, i)}
Links(p, i) == prom[p].task # None /\ prom[p].task.of = i
Awaited == {i \in Id : \E p \in Id : Links(p, i)}
Spent == {i \in Id : taken[i] # <<>>}

\* No two of a kind have the same future,
OneHand == \A t, u \in Thread : thr[t].f \in Id /\ thr[t].f = thr[u].f => t = u
OnePost == \A i \in Id : \A k, l \in DOMAIN posted : Posts(k, i) /\ Posts(l, i) => k = l
OneLink == \A i \in Id : \A p, q \in Id : Links(p, i) /\ Links(q, i) => p = q

\* no two of different kinds, and nobody has one that was taken or not yet made.
Apart ==
    \A i \in Id :
        /\ i \in InHand => i \notin Queued \cup Awaited \cup Spent
        /\ i \in Queued => i \notin Awaited \cup Spent
        /\ i \in Awaited => i \notin Spent
        /\ i >= next => i \notin InHand \cup Queued \cup Awaited \cup Spent

TokenInv == OneHand /\ OnePost /\ OneLink /\ Apart /\ AtMostOnce

\* The future i changes hands and, where a call begins, a new one is in hand.
Passes(i) ==
    /\ InHand' \subseteq InHand \cup {i, next}
    /\ Queued' \subseteq Queued \cup {i}
    /\ Awaited' \subseteq Awaited \cup {i}
    /\ Spent' \subseteq Spent \cup {i}
    /\ \/ next' = next /\ next \notin InHand'
       \/ next' = next + 1
    /\ i \in InHand' => i \notin Queued' \cup Awaited' \cup Spent'
    /\ i \in Queued' => i \notin Awaited' \cup Spent'
    /\ i \in Awaited' => i \notin Spent'

LEMMA ApartKept ==
    ASSUME TypeInv, Apart, NEW i, i \in InHand \cup Queued \cup Awaited \cup Spent \/ i = None,
           Passes(i)
    PROVE  Apart'
  <1>1. next \in Nat /\ Id \subseteq Nat /\ None \notin Id
    BY Numbers, Sames
  <1>2. InHand' \subseteq Id /\ Queued' \subseteq Id /\ Awaited' \subseteq Id /\ Spent' \subseteq Id
    BY DEF InHand, Queued, Awaited, Spent, Id
  <1>3. i \in Id => i < next
    BY <1>1 DEF Apart, InHand, Queued, Awaited, Spent
  <1>4. SUFFICES ASSUME NEW j \in Id
                 PROVE  /\ j \in InHand' => j \notin Queued' \cup Awaited' \cup Spent'
                        /\ j \in Queued' => j \notin Awaited' \cup Spent'
                        /\ j \in Awaited' => j \notin Spent'
                        /\ j >= next' => j \notin InHand' \cup Queued' \cup Awaited' \cup Spent'
    BY DEF Apart, Id
  <1>5. CASE j = i
    BY <1>1, <1>3, <1>5 DEF Passes
  <1>6. CASE j # i
    BY <1>1, <1>3, <1>6 DEF Passes, Apart
  <1> QED BY <1>5, <1>6

\* Thread t lets go of what it had in hand, unless r still has it.
LEMMA HandMoves ==
    ASSUME TypeInv, OneHand, NEW t \in Thread, NEW r, Leaves(t, r),
           r.f = None \/ r.f \notin InHand \/ r.f = thr[t].f
    PROVE  /\ OneHand'
           /\ InHand' \subseteq (InHand \ {thr[t].f}) \cup {r.f}
  <1>1. \A u \in Thread : thr'[u] = IF u = t THEN r ELSE thr[u]
    BY Sames DEF Leaves
  <1>2. None \notin Id
    BY Numbers
  <1>3. OneHand'
    <2> SUFFICES ASSUME NEW u \in Thread, NEW w \in Thread, thr'[u].f \in Id,
                        thr'[u].f = thr'[w].f
                 PROVE  u = w
      BY DEF OneHand, Id
    <2> QED BY <1>1, <1>2 DEF OneHand, InHand
  <1>4. InHand' = {i \in Id : \E u \in Thread : thr'[u].f = i}
    BY DEF InHand, Id
  <1>5. InHand' \subseteq (InHand \ {thr[t].f}) \cup {r.f}
    BY <1>1, <1>4 DEF InHand, OneHand
  <1> QED BY <1>3, <1>5

LEMMA HandStays ==
    ASSUME OneHand, \A u \in Thread : thr'[u].f = thr[u].f
    PROVE  OneHand' /\ InHand' = InHand
  <1>1. InHand' = {i \in Id : \E u \in Thread : thr'[u].f = i}
    BY DEF InHand, Id
  <1> QED BY <1>1 DEF OneHand, InHand, Id

\* What a list of handlers has continuations of, and each of them once.
Of(q) == {i \in Id : \E k \in DOMAIN q : q[k].k = "run" /\ q[k].task.of = i}
Once(q) ==
    \A k, l \in DOMAIN q :
        q[k].k = "run" /\ q[l].k = "run" /\ q[k].task.of = q[l].task.of => k = l

LEMMA OfPosted ==
    ASSUME TypeInv
    PROVE  Queued = Of(posted) /\ (OnePost <=> Once(posted))
  <1>1. \A k \in DOMAIN posted : posted[k] \in Handler
    BY Sames
  <1>2. \A k \in DOMAIN posted : posted[k].k = "run" => posted[k].task.of \in Id
    BY <1>1, HandlerParts DEF Continuation
  <1>3. Queued = Of(posted)
    BY DEF Queued, Of, Posts
  <1>4. OnePost <=> Once(posted)
    <2>1. ASSUME OnePost PROVE Once(posted)
      <3> SUFFICES ASSUME NEW k \in DOMAIN posted, NEW l \in DOMAIN posted,
                          posted[k].k = "run", posted[l].k = "run",
                          posted[k].task.of = posted[l].task.of
                   PROVE  k = l
        BY DEF Once
      <3>1. posted[k].task.of \in Id
        BY <1>2
      <3> QED BY <2>1, <3>1 DEF OnePost, Posts
    <2>2. ASSUME Once(posted) PROVE OnePost
      BY <2>2 DEF OnePost, Once, Posts
    <2> QED BY <2>1, <2>2
  <1> QED BY <1>3, <1>4

LEMMA OfAppend ==
    ASSUME NEW q \in Seq(Handler), NEW h \in Handler, Once(q),
           h.k = "run" => h.task.of \notin Of(q)
    PROVE  /\ Once(Append(q, h))
           /\ Of(Append(q, h)) \subseteq
                Of(q) \cup (IF h.k = "run" THEN {h.task.of} ELSE {})
  <1> DEFINE p == Append(q, h)
  <1>1. Len(q) \in Nat /\ DOMAIN q = 1 .. Len(q) /\ DOMAIN p = 1 .. Len(q) + 1
        /\ p[Len(q) + 1] = h /\ \A k \in 1 .. Len(q) : p[k] = q[k]
    OBVIOUS
  <1>2. h.k = "run" => h.task.of \in Id
    BY HandlerParts DEF Continuation
  <1> HIDE DEF p
  <1>3. \A k \in DOMAIN p : \/ (k \in DOMAIN q /\ p[k] = q[k])
                              \/ (k = Len(q) + 1 /\ p[k] = h)
    BY <1>1
  <1>4. Of(p) \subseteq Of(q) \cup (IF h.k = "run" THEN {h.task.of} ELSE {})
    BY <1>3 DEF Of
  <1>5. Once(p)
    BY <1>2, <1>3 DEF Of, Once
  <1> QED BY <1>4, <1>5 DEF p

LEMMA OfTail ==
    ASSUME NEW q \in Seq(Handler), q # <<>>, Once(q)
    PROVE  /\ Once(Tail(q))
           /\ Of(Tail(q)) \subseteq
                Of(q) \ (IF Head(q).k = "run" THEN {Head(q).task.of} ELSE {})
           /\ Head(q).k = "run" => Head(q).task.of \in Of(q)
  <1> DEFINE p == Tail(q)
  <1>1. Len(q) \in Nat \ {0} /\ DOMAIN q = 1 .. Len(q) /\ DOMAIN p = 1 .. Len(q) - 1
        /\ Head(q) = q[1] /\ \A k \in 1 .. Len(q) - 1 : p[k] = q[k + 1]
    OBVIOUS
  <1>2. Head(q).k = "run" => Head(q).task.of \in Id
    BY PostedParts, HandlerParts DEF Continuation
  <1> HIDE DEF p
  <1>3. \A k \in DOMAIN p : k + 1 \in DOMAIN q /\ k + 1 # 1 /\ p[k] = q[k + 1] /\ k \in Int
    BY <1>1
  <1>4. Once(p)
    BY <1>3 DEF Once
  <1>5. Of(p) \subseteq Of(q)
    BY <1>3 DEF Of
  <1>6. ASSUME Head(q).k = "run" PROVE Head(q).task.of \notin Of(p)
    BY <1>1, <1>3, <1>6 DEF Of, Once
  <1>7. Head(q).k = "run" => Head(q).task.of \in Of(q)
    BY <1>1, <1>2 DEF Of
  <1> QED BY <1>4, <1>5, <1>6, <1>7 DEF p

\* A promise has the continuation it had, or none.
LEMMA LinksStay ==
    ASSUME OneLink, \A p \in Id : prom'[p].task \in {prom[p].task, None}
    PROVE  OneLink' /\ Awaited' \subseteq Awaited
  <1>1. \A p \in Id, i \in Id : Links(p, i)' => Links(p, i)
    BY DEF Links, Id
  <1> QED BY <1>1 DEF OneLink, Awaited, Id

\* A continuation is let go.
LEMMA LinkGone ==
    ASSUME OneLink, \A p \in Id : prom'[p].task \in {prom[p].task, None},
           NEW p \in Id, prom[p].task # None, prom'[p].task = None
    PROVE  prom[p].task.of \notin Awaited'
  <1>1. \A q \in Id, i \in Id : Links(q, i)' => Links(q, i) /\ q # p
    BY DEF Links, Id
  <1> QED BY <1>1 DEF OneLink, Awaited, Id, Links

LEMMA TakenOnce ==
    ASSUME TypeInv, AtMostOnce, NEW i, NEW v, i \notin Spent,
           taken' = [taken EXCEPT ![i] = Append(@, v)]
    PROVE  AtMostOnce' /\ Spent' \subseteq Spent \cup {i}
  <1>1. taken \in [Id -> Seq(Available)]
    BY Sames
  <1>2. \A j \in Id : taken'[j] = IF j = i THEN Append(taken[j], v) ELSE taken[j]
    BY <1>1
  <1>3. i \in Id => taken[i] = <<>>
    BY DEF Spent
  <1>4. \A j \in Id : Len(taken'[j]) <= 1
    <2> TAKE j \in Id
    <2>1. CASE j = i
      <3>1. taken'[j] = Append(taken[j], v) /\ taken[j] \in Seq(Available) /\ Len(taken[j]) = 0
        BY <1>1, <1>2, <1>3, <2>1
      <3>2. Len(Append(taken[j], v)) = Len(taken[j]) + 1
        BY <3>1
      <3> QED BY <3>1, <3>2
    <2>2. CASE j # i
      BY <1>2, <2>2 DEF AtMostOnce
    <2> QED BY <2>1, <2>2
  <1>5. Spent' \subseteq Spent \cup {i}
    BY <1>2 DEF Spent, Id
  <1> QED BY <1>4, <1>5 DEF AtMostOnce, Id

LEMMA NoneTaken ==
    ASSUME AtMostOnce, taken' = taken
    PROVE  AtMostOnce' /\ Spent' = Spent
  BY DEF AtMostOnce, Spent, Id

\* Steps in which nothing changes hands.
LEMMA NothingPasses ==
    ASSUME TypeInv, TokenInv, \A u \in Thread : thr'[u].f = thr[u].f,
           posted' = posted, next' = next, taken' = taken,
           \A p \in Id : prom'[p].task \in {prom[p].task, None}
    PROVE  TokenInv'
  <1>1. OneHand' /\ InHand' = InHand
    BY HandStays DEF TokenInv
  <1>2. OnePost' /\ Queued' = Queued
    BY DEF TokenInv, OnePost, Queued, Posts, Id
  <1>3. OneLink' /\ Awaited' \subseteq Awaited
    BY LinksStay DEF TokenInv
  <1>4. AtMostOnce' /\ Spent' = Spent
    BY NoneTaken DEF TokenInv
  <1>5. Passes(None)
    <2>1. None \notin InHand' \cup Queued' \cup Awaited'
      BY <1>1, <1>2, <1>3, Numbers DEF InHand, Queued, Awaited
    <2>2. next \notin InHand
      BY Numbers, Sames DEF TokenInv, Apart, InHand
    <2> QED BY <1>1, <1>2, <1>3, <1>4, <2>1, <2>2 DEF Passes
  <1> QED BY <1>1, <1>2, <1>3, <1>4, <1>5, ApartKept DEF TokenInv

LEMMA BreakToken ==
    ASSUME TypeInv, TokenInv, NEW kind, Break(kind)
    PROVE  TokenInv'
  BY NothingPasses DEF Break

LEMMA PeekHand == \A r \in ThreadState : Peek(r).f = r.f
  BY DEF Peek, ThreadState

LEMMA UseToken ==
    ASSUME TypeInv, TokenInv, NEW t \in Thread, NEW op \in {"get", "then", "wrapped"}, Use(t, op)
    PROVE  TokenInv'
  <1> DEFINE r == [thr[t] EXCEPT !.op = op]
  <1>1. r \in ThreadState /\ r.f = thr[t].f
    BY Sames DEF ThreadState
  <1>2. \A u \in Thread : thr'[u] = IF u = t THEN Peek(r) ELSE thr[u]
    BY Sames DEF Use
  <1> HIDE DEF r
  <1>3. \A u \in Thread : thr'[u].f = thr[u].f
    BY <1>1, <1>2, PeekHand
  <1> QED BY <1>3, NothingPasses DEF Use

LEMMA LookToken ==
    ASSUME TypeInv, TokenInv, NEW t \in Thread, Look(t)
    PROVE  TokenInv'
  <1>1. \A u \in Thread : thr'[u] = IF u = t THEN Peek(thr[t]) ELSE thr[u]
    BY Sames DEF Look
  <1>2. \A u \in Thread : thr'[u].f = thr[u].f
    BY <1>1, PeekHand, Sames
  <1> QED BY <1>2, NothingPasses DEF Look

LEMMA FollowToken ==
    ASSUME TypeInv, TokenInv, NEW t \in Thread, Follow(t)
    PROVE  TokenInv'
  <1>1. CASE fut[thr[t].f].promise = None
    BY <1>1, BreakToken DEF Follow
  <1>2. CASE fut[thr[t].f].promise # None
    <2>1. thr \in [Thread -> ThreadState]
      BY Sames
    <2>2. \A u \in Thread : thr'[u].f = thr[u].f
      BY <1>2, <2>1 DEF Follow, ThreadState
    <2> QED BY <1>2, <2>2, NothingPasses DEF Follow
  <1> QED BY <1>1, <1>2

LEMMA JudgeToken ==
    ASSUME TypeInv, TokenInv, NEW t \in Thread, Judge(t)
    PROVE  TokenInv'
  <1> DEFINE v == Seen(t)
  <1>1. CASE v = "gone"
    BY <1>1, BreakToken DEF Judge
  <1>2. CASE v # "gone"
    <2>1. thr \in [Thread -> ThreadState]
      BY Sames
    <2> DEFINE r == IF thr[t].op = "get"
                    THEN [thr[t] EXCEPT !.at = IF v \in Available THEN "collect" ELSE "look"]
                    ELSE IF v \in Available
                    THEN [thr[t] EXCEPT !.at = "look", !.stage = "take"]
                    ELSE IF thr[t].op = "forward" THEN [thr[t] EXCEPT !.at = "relink"]
                    ELSE IF thr[t].stage = "first"
                    THEN [thr[t] EXCEPT !.at = "look", !.stage = "second"]
                    ELSE [thr[t] EXCEPT !.at = "attach"]
    <2>3. r.f = thr[t].f
      BY <2>1 DEF ThreadState
    <2>4. thr' = [thr EXCEPT ![t] = r]
      BY <1>2, <2>1 DEF Judge
    <2> HIDE DEF r
    <2>2. \A u \in Thread : thr'[u].f = thr[u].f
      BY <2>1, <2>3, <2>4
    <2> QED BY <1>2, <2>2, NothingPasses DEF Judge
  <1> QED BY <1>1, <1>2

LEMMA QuietToken ==
    ASSUME TypeInv, TokenInv, NEW t \in Thread,
           Hold(t) \/ Moved(t) \/ Block(t) \/ MoveIn(t) \/ Point(t)
    PROVE  TokenInv'
  <1>1. thr \in [Thread -> ThreadState]
    BY Sames
  <1>2. \A u \in Thread : thr'[u].f = thr[u].f
    <2>1. CASE Hold(t)
      BY <1>1, <2>1 DEF Hold, ThreadState
    <2>2. CASE Moved(t)
      <3> DEFINE r == IF thr[t].p = None THEN [Idle EXCEPT !.at = "hold", !.f = thr[t].f]
                      ELSE [thr[t] EXCEPT !.at = "look"]
      <3>1. r.f = thr[t].f
        BY <1>1 DEF ThreadState, Idle
      <3>2. thr' = [thr EXCEPT ![t] = r]
        BY <1>1, <2>2 DEF Moved
      <3> HIDE DEF r
      <3> QED BY <1>1, <3>1, <3>2
    <2>3. CASE Block(t)
      BY <2>3 DEF Block
    <2>4. CASE MoveIn(t)
      <3>1. PICK out \in Available : thr' = [thr EXCEPT ![t].at = "point", ![t].out = out]
        BY <2>4 DEF MoveIn
      <3> QED BY <1>1, <3>1 DEF ThreadState
    <2>5. CASE Point(t)
      BY <1>1, <2>5 DEF Point, ThreadState
    <2> QED BY <2>1, <2>2, <2>3, <2>4, <2>5
  <1> QED BY <1>2, NothingPasses DEF Hold, Moved, Block, MoveIn, Point

LEMMA StoreToken ==
    ASSUME TypeInv, TokenInv, NEW t \in Thread, Store(t)
    PROVE  TokenInv'
  <1>1. CASE Value(thr[t].place) # "future"
    BY <1>1, BreakToken DEF Store
  <1>2. CASE Value(thr[t].place) = "future"
    <2>1. thr \in [Thread -> ThreadState] /\ prom \in [Id -> Promise]
      BY Sames
    <2>2. \A u \in Thread : thr'[u].f = thr[u].f
      BY <1>2, <2>1 DEF Store, ThreadState
    <2>3. \A p \in Id : prom'[p].task = prom[p].task
      BY <1>2, <2>1 DEF Store, Promise
    <2> QED BY <1>2, <2>2, <2>3, NothingPasses DEF Store
  <1> QED BY <1>1, <1>2


\* A new future is in nobody's hands.
LEMMA NewIsFresh ==
    ASSUME TypeInv, TokenInv
    PROVE  next \notin InHand \cup Queued \cup Awaited \cup Spent /\ next # None
           /\ (\A t \in Thread : thr[t].f # next)
           /\ None \notin InHand \cup Queued \cup Awaited
           /\ \A p \in Id : prom[p].task # None => prom[p].task.of \in Awaited
  <1>1. next \in Nat /\ next \notin Id => next > Ids
    BY Numbers, Sames DEF Id
  <1>2. next \notin InHand \cup Queued \cup Awaited \cup Spent
    BY Numbers, Sames DEF TokenInv, Apart, InHand, Queued, Awaited, Spent
  <1>3. next # None
    BY FuturesAssumption, Sames, Numbers
  <1>4. \A t \in Thread : thr[t].f # next
    <2> SUFFICES ASSUME NEW t \in Thread, thr[t].f = next PROVE FALSE
      OBVIOUS
    <2>1. thr[t].f \in Id \cup {None}
      BY Sames DEF ThreadState
    <2> QED BY <1>2, <1>3, <2>1 DEF InHand
  <1>5. None \notin InHand \cup Queued \cup Awaited
    BY Numbers DEF InHand, Queued, Awaited
  <1>6. \A p \in Id : prom[p].task # None => prom[p].task.of \in Id
    BY Sames DEF Promise, Continuation
  <1>7. \A p \in Id : prom[p].task # None => prom[p].task.of \in Awaited
    BY <1>6 DEF Awaited, Links
  <1> QED BY <1>2, <1>3, <1>4, <1>5, <1>7

\* The thread has its future in hand.
LEMMA HasInHand ==
    ASSUME TypeInv, NEW t \in Thread, thr[t].f \in Id
    PROVE  thr[t].f \in InHand
  BY DEF InHand

\* The same of the list a step leaves.
LEMMA OfPostedNext ==
    ASSUME TypeInv'
    PROVE  Queued' = Of(posted') /\ (OnePost' <=> Once(posted'))
  <1>1. \A k \in DOMAIN posted' : posted'[k] \in Handler
    BY DEF TypeInv, Typed, Handler, Continuation, Id, State
  <1>2. \A k \in DOMAIN posted' : posted'[k].k = "run" => posted'[k].task.of \in Id
    BY <1>1, HandlerParts DEF Continuation
  <1>3. Queued' = Of(posted')
    BY DEF Queued, Of, Posts, Id
  <1>4. ASSUME OnePost' PROVE Once(posted')
    <2> SUFFICES ASSUME NEW k \in DOMAIN posted', NEW l \in DOMAIN posted',
                        posted'[k].k = "run", posted'[l].k = "run",
                        posted'[k].task.of = posted'[l].task.of
                 PROVE  k = l
      BY DEF Once
    <2>1. posted'[k].task.of \in Id
      BY <1>2
    <2> QED BY <1>4, <2>1 DEF OnePost, Posts, Id
  <1>5. ASSUME Once(posted') PROVE OnePost'
    BY <1>5 DEF OnePost, Once, Posts, Id
  <1> QED BY <1>3, <1>4, <1>5

\* The list of handlers gets no continuation, and may lose its head,
LEMMA QueueStays ==
    ASSUME TypeInv, TokenInv, TypeInv',
           \/ posted' = posted
           \/ posted # <<>> /\ posted' = Tail(posted)
           \/ \E h \in Handler : h.k # "run" /\ posted' = Append(posted, h)
           \/ posted # <<>> /\ \E h \in Handler : h.k # "run" /\ posted' = Append(Tail(posted), h)
    PROVE  OnePost' /\ Queued' \subseteq Queued
  <1>1. Queued = Of(posted) /\ Once(posted) /\ posted \in Seq(Handler)
    BY OfPosted, Sames DEF TokenInv
  <1>2. Queued' = Of(posted') /\ (OnePost' <=> Once(posted'))
    BY OfPostedNext
  <1> QED BY <1>1, <1>2, OfAppend, OfTail, PostedParts

\* it gets one,
LEMMA QueueGrows ==
    ASSUME TypeInv, TokenInv, TypeInv', NEW h \in Handler, h.k = "run",
           h.task.of \notin Queued, posted' = Append(posted, h)
    PROVE  OnePost' /\ Queued' \subseteq Queued \cup {h.task.of}
  <1>1. Queued = Of(posted) /\ Once(posted) /\ posted \in Seq(Handler)
    BY OfPosted, Sames DEF TokenInv
  <1>2. Queued' = Of(posted') /\ (OnePost' <=> Once(posted'))
    BY OfPostedNext
  <1> QED BY <1>1, <1>2, OfAppend

\* or the continuation at its head is taken from it.
LEMMA QueueRuns ==
    ASSUME TypeInv, TokenInv, TypeInv', posted # <<>>, Head(posted).k = "run",
           \/ posted' = Tail(posted)
           \/ \E h \in Handler : h.k # "run" /\ posted' = Append(Tail(posted), h)
    PROVE  /\ OnePost' /\ Queued' \subseteq Queued \ {Head(posted).task.of}
           /\ Head(posted).task.of \in Queued
  <1>1. Queued = Of(posted) /\ Once(posted) /\ posted \in Seq(Handler)
    BY OfPosted, Sames DEF TokenInv
  <1>2. Queued' = Of(posted') /\ (OnePost' <=> Once(posted'))
    BY OfPostedNext
  <1>3. Once(Tail(posted)) /\ Of(Tail(posted)) \subseteq Queued \ {Head(posted).task.of}
        /\ Head(posted).task.of \in Queued /\ Tail(posted) \in Seq(Handler)
    BY <1>1, OfTail, PostedParts
  <1>4. \A h \in Handler : h.k # "run" => /\ Once(Append(Tail(posted), h))
                                          /\ Of(Append(Tail(posted), h)) \subseteq Of(Tail(posted))
    BY <1>3, OfAppend
  <1> QED BY <1>2, <1>3, <1>4

LEMMA NoTasks == \A i : NewPromise(i).task = None /\ Dead(i).task = None
  BY DEF NewPromise, Dead

LEMMA BeginToken ==
    ASSUME TypeInv, TokenInv, TypeInv', NEW t \in Thread, Begin(t)
    PROVE  TokenInv'
  <1> DEFINE r == [Idle EXCEPT !.at = "hold", !.f = next]
  <1>1. next \in Id
    BY NextIsFree DEF Begin
  <1>2. r.f = next /\ Leaves(t, r)
    BY DEF Begin, Leaves, Idle
  <1> HIDE DEF r
  <1>3. OneHand' /\ InHand' \subseteq InHand \cup {next}
    BY <1>2, HandMoves, NewIsFresh DEF TokenInv
  <1>4. OnePost' /\ Queued' \subseteq Queued
    <2>1. [k |-> "produce", p |-> next] \in Handler
      BY <1>1, HandlerMade
    <2>2. \/ posted # <<>> /\ posted' = Tail(posted)
          \/ posted # <<>> /\ \E h \in Handler : h.k # "run" /\ posted' = Append(Tail(posted), h)
      BY <2>1 DEF Begin
    <2> QED BY <2>2, QueueStays
  <1>5. OneLink' /\ Awaited' \subseteq Awaited
    <2>1. prom' = prom \/ prom' = [prom EXCEPT ![next] = NewPromise(next)]
      BY DEF Begin
    <2>2. \A p \in Id : prom'[p].task \in {prom[p].task, None}
      BY <2>1, NoTasks, Sames
    <2> QED BY <2>2, LinksStay DEF TokenInv
  <1>6. AtMostOnce' /\ Spent' = Spent
    BY NoneTaken DEF TokenInv, Begin
  <1>7. Passes(None)
    <2>1. next' = next + 1 /\ None \notin InHand' \cup Queued' \cup Awaited'
      BY <1>4, <1>5, NewIsFresh, Numbers DEF Begin, InHand
    <2> QED BY <1>3, <1>4, <1>5, <1>6, <2>1 DEF Passes
  <1> QED BY <1>3, <1>4, <1>5, <1>6, <1>7, ApartKept DEF TokenInv

\* The promises a consumer leaves have the continuations they had.
LEMMA UnlinkedTasks ==
    ASSUME TypeInv, NEW f \in Id, NEW place \in Place
    PROVE  \A p \in Id : /\ Unlinked(f)[p].task = prom[p].task
                         /\ PromWithout(f, place)[p].task = prom[p].task
  <1> DEFINE U == Unlinked(f)
  <1>1. U \in [Id -> Promise] /\ \A p \in Id : U[p].task = prom[p].task
    <2>1. prom \in [Id -> Promise]
      BY Sames
    <2>2. \A p \in Id : U[p].task = prom[p].task
      BY <2>1 DEF Unlinked, Promise
    <2> QED BY <2>2, UnlinkedTyped
  <1> HIDE DEF U
  <1>2. \A p \in Id : [U EXCEPT ![place.id].local = "invalid"][p].task = U[p].task
    BY <1>1 DEF Promise
  <1> QED BY <1>1, <1>2 DEF PromWithout, U

\* A thread takes the result of the future f it has in hand.
LEMMA TakesInHand ==
    ASSUME TypeInv, TokenInv, TypeInv', NEW t \in Thread, NEW r, Leaves(t, r), thr[t].f \in Id,
           NEW v, taken' = [taken EXCEPT ![thr[t].f] = Append(@, v)],
           \/ r.f = None /\ next' = next
           \/ r.f = next /\ next' = next + 1,
           posted' = posted \/ \E h \in Handler : h.k # "run" /\ posted' = Append(posted, h),
           \A p \in Id : prom'[p].task \in {prom[p].task, None}
    PROVE  TokenInv'
  <1> DEFINE f == thr[t].f
  <1>0. f \in InHand /\ f \notin Queued \cup Awaited \cup Spent /\ f \in Id /\ None \notin Id
    BY HasInHand, Numbers DEF TokenInv, Apart
  <1>1. OneHand' /\ InHand' \subseteq (InHand \ {f}) \cup {r.f}
    BY HandMoves, NewIsFresh DEF TokenInv
  <1>2. OnePost' /\ Queued' \subseteq Queued
    BY QueueStays
  <1>3. OneLink' /\ Awaited' \subseteq Awaited
    BY LinksStay DEF TokenInv
  <1>4. AtMostOnce' /\ Spent' \subseteq Spent \cup {f}
    BY <1>0, TakenOnce DEF TokenInv
  <1>5. None \notin InHand'
    BY <1>0 DEF InHand, Id
  <1>6. f # next /\ next \notin InHand /\ next # None
    BY NewIsFresh, <1>0
  <1>7. Passes(f)
    BY <1>0, <1>1, <1>2, <1>3, <1>4, <1>5, <1>6 DEF Passes
  <1> QED BY <1>0, <1>1, <1>2, <1>3, <1>4, <1>7, ApartKept DEF TokenInv

\* A thread lets go of what it has in hand and nothing else passes.
LEMMA LetsGo ==
    ASSUME TypeInv, TokenInv, TypeInv', NEW t \in Thread, NEW r, Leaves(t, r), r.f = None,
           posted' = posted \/ (posted # <<>> /\ posted' = Tail(posted)),
           OneLink', Awaited' \subseteq Awaited, next' = next, taken' = taken
    PROVE  TokenInv'
  <1>1. OneHand' /\ InHand' \subseteq InHand
    <2>1. OneHand' /\ InHand' \subseteq InHand \cup {None}
      BY HandMoves DEF TokenInv
    <2> QED BY <2>1, Numbers DEF InHand, Id
  <1>2. OnePost' /\ Queued' \subseteq Queued
    BY QueueStays
  <1>3. AtMostOnce' /\ Spent' = Spent
    BY NoneTaken DEF TokenInv
  <1>4. Passes(None)
    BY <1>1, <1>2, <1>3, NewIsFresh DEF Passes
  <1> QED BY <1>1, <1>2, <1>3, <1>4, ApartKept DEF TokenInv

LEMMA DropToken ==
    ASSUME TypeInv, TokenInv, TypeInv', NEW t \in Thread, Drop(t)
    PROVE  TokenInv'
  <1>1. thr[t].f \in Id /\ Nowhere \in Place
    BY Sames DEF Drop, At, Equipped, Nowhere, Place
  <1>2. Leaves(t, Idle) /\ Idle.f = None
    BY DEF Drop, Leaves, Idle
  <1>3. \A p \in Id : prom'[p].task = prom[p].task
    BY <1>1, UnlinkedTasks DEF Drop
  <1>4. OneLink' /\ Awaited' \subseteq Awaited
    BY <1>3, LinksStay DEF TokenInv
  <1> QED BY <1>2, <1>4, LetsGo DEF Drop

LEMMA CollectToken ==
    ASSUME TypeInv, TokenInv, TypeInv', NEW t \in Thread, Collect(t)
    PROVE  TokenInv'
  <1> DEFINE f == thr[t].f
             v == Value(Found(f))
             r == IF thr[t].p = None THEN Idle ELSE Returned(thr[t].p, v)
  <1>1. f \in Id /\ Found(f) \in Place
    BY FoundTyped, Sames DEF Collect, At, Equipped
  <1>2. CASE v \notin Available
    BY <1>2, BreakToken DEF Collect, Found
  <1>3. CASE v \in Available
    <2>1. r.f = None
      BY DEF Idle, Returned
    <2>2. Leaves(t, r) /\ taken' = [taken EXCEPT ![f] = Append(@, v)]
          /\ posted' = posted /\ next' = next
      BY <1>3, Sames DEF Collect, Found, Leaves
    <2>3. prom' = PromWithout(f, Found(f))
      BY <1>3 DEF Collect, Found
    <2>4. \A p \in Id : prom'[p].task \in {prom[p].task, None}
      BY <1>1, <2>3, UnlinkedTasks
    <2> HIDE DEF r, v
    <2> QED BY <1>1, <2>1, <2>2, <2>4, TakesInHand
  <1> QED BY <1>2, <1>3

LEMMA ForwardToken ==
    ASSUME TypeInv, TokenInv, TypeInv', NEW t \in Thread, Forward(t)
    PROVE  TokenInv'
  <1> DEFINE f == thr[t].f
             place == thr[t].place
             v == Seen(t)
             r == Returned(thr[t].p, v)
  <1>1. f \in Id /\ place \in Place
    BY Sames DEF Forward, At, Equipped, ThreadState
  <1>2. CASE v \notin Available
    BY <1>2, BreakToken DEF Forward
  <1>3. CASE v \in Available
    <2>1. r.f = None
      BY DEF Idle, Returned
    <2>2. Leaves(t, r) /\ taken' = [taken EXCEPT ![f] = Append(@, v)]
          /\ posted' = posted /\ next' = next
      BY <1>3, Sames DEF Forward, Leaves
    <2>3. prom' = PromWithout(f, place)
      BY <1>3 DEF Forward
    <2>4. \A p \in Id : prom'[p].task \in {prom[p].task, None}
      BY <1>1, <2>3, UnlinkedTasks
    <2> HIDE DEF r, v
    <2> QED BY <1>1, <2>1, <2>2, <2>4, TakesInHand
  <1> QED BY <1>2, <1>3

LEMMA TakeToken ==
    ASSUME TypeInv, TokenInv, TypeInv', NEW t \in Thread, Take(t)
    PROVE  TokenInv'
  <1> DEFINE f == thr[t].f
             place == thr[t].place
             v == Seen(t)
             h == [k |-> "produce", p |-> next]
  <1>1. f \in Id /\ place \in Place /\ thr[t].op \in Chains
    BY Sames DEF Take, At, Equipped, ThreadState, Chains
  <1>2. CASE v \notin Available
    BY <1>2, BreakToken DEF Take
  <1>3. CASE v \in Available
    <2>1. next \in Id
      BY <1>1, NextIsFree DEF Chaining
    <2>2. taken' = [taken EXCEPT ![f] = Append(@, v)] /\ next' = next + 1
      BY <1>3 DEF Take
    <2>3. \E r : Leaves(t, r) /\ r.f = next
      <3>1. [Idle EXCEPT !.at = "hold", !.f = next].f = next
            /\ \A how : Started(None, how).f = next
        BY DEF Idle, Started
      <3> QED BY <1>3, <3>1 DEF Take, Leaves
    <2>4. posted' = posted \/ posted' = Append(posted, h)
      BY <1>3 DEF Take
    <2>5. h \in Handler /\ h.k # "run"
      BY <2>1, HandlerMade
    <2>6. \/ prom' = PromWithout(f, place)
          \/ prom' = [PromWithout(f, place) EXCEPT ![next] = NewPromise(next)]
      BY <1>3 DEF Take
    <2>7. \A p \in Id : prom'[p].task \in {prom[p].task, None}
      <3>1. PromWithout(f, place) \in [Id -> Promise]
        BY <1>1, UnlinkedTyped
      <3>2. \A p \in Id : prom'[p] \in {PromWithout(f, place)[p], NewPromise(next)}
        BY <2>6, <3>1
      <3> QED BY <1>1, <3>2, UnlinkedTasks, NoTasks
    <2> HIDE DEF h, v
    <2> QED BY <1>1, <2>2, <2>3, <2>4, <2>5, <2>7, TakesInHand
  <1> QED BY <1>2, <1>3

\* A promise gets a continuation,
LEMMA LinkGrows ==
    ASSUME OneLink, NEW p \in Id, NEW c, c.of \notin Awaited,
           prom'[p].task \in {c, None},
           \A q \in Id \ {p} : prom'[q].task \in {prom[q].task, None}
    PROVE  OneLink' /\ Awaited' \subseteq Awaited \cup {c.of}
  <1>1. \A q \in Id, i \in Id : Links(q, i)' => (Links(q, i) /\ q # p) \/ (q = p /\ i = c.of)
    BY DEF Links, Id
  <1>2. \A q \in Id, i \in Id : Links(q, i) => i \in Awaited
    BY DEF Awaited
  <1> QED BY <1>1, <1>2 DEF OneLink, Awaited, Id

\* or takes the place of another.
LEMMA LinkMoves ==
    ASSUME OneLink, NEW p \in Id, NEW q \in Id,
           prom'[q].task = None, p # q => prom'[p].task = prom[q].task,
           \A x \in Id \ {p, q} : prom'[x].task = prom[x].task
    PROVE  OneLink' /\ Awaited' \subseteq Awaited
  <1>1. \A x \in Id, i \in Id : Links(x, i)' =>
          (x # p /\ x # q /\ Links(x, i)) \/ (x = p /\ x # q /\ Links(q, i))
    BY DEF Links, Id
  <1> QED BY <1>1 DEF OneLink, Awaited, Id

LEMMA PostReadyToken ==
    ASSUME TypeInv, TokenInv, TypeInv', NEW t \in Thread, PostReady(t)
    PROVE  TokenInv'
  <1> DEFINE f == thr[t].f
             place == thr[t].place
             task == [of |-> f, q |-> next, op |-> thr[t].op]
             h == [k |-> "run", st |-> Value(place), task |-> task]
             r == [Idle EXCEPT !.at = "hold", !.f = next]
  <1>1. f \in Id /\ place \in Place /\ thr[t].op \in Chains /\ Value(place) \in State
    BY Sames, SeesPlace DEF PostReady, At, Equipped, ThreadState, Chains, Available, State
  <1>2. next \in Id
    BY <1>1, NextIsFree DEF Chaining
  <1>3. f \in InHand /\ f \notin Queued \cup Awaited \cup Spent /\ None \notin Id
    BY <1>1, HasInHand, Numbers DEF TokenInv, Apart
  <1>4. OneHand' /\ InHand' \subseteq (InHand \ {f}) \cup {next}
    <2>1. r.f = next /\ Leaves(t, r)
      BY DEF PostReady, Leaves, Idle
    <2> HIDE DEF r
    <2> QED BY <2>1, HandMoves, NewIsFresh DEF TokenInv
  <1>5. OnePost' /\ Queued' \subseteq Queued \cup {f}
    <2>1. task \in Continuation /\ task.of = f
      BY <1>1, <1>2 DEF Continuation, Chains
    <2>2. h \in Handler /\ h.k = "run" /\ h.task.of = f
      BY <1>1, <2>1, HandlerMade
    <2>3. posted' = Append(posted, h)
      BY DEF PostReady
    <2> HIDE DEF h
    <2> QED BY <1>3, <2>2, <2>3, QueueGrows
  <1>6. OneLink' /\ Awaited' \subseteq Awaited
    <2>1. PromWithout(f, place) \in [Id -> Promise]
      BY <1>1, UnlinkedTyped
    <2>2. \A p \in Id : prom'[p] \in {PromWithout(f, place)[p], NewPromise(next)}
      BY <2>1 DEF PostReady
    <2>3. \A p \in Id : prom'[p].task \in {prom[p].task, None}
      BY <1>1, <2>2, UnlinkedTasks, NoTasks
    <2> QED BY <2>3, LinksStay DEF TokenInv
  <1>7. AtMostOnce' /\ Spent' = Spent
    BY NoneTaken DEF TokenInv, PostReady
  <1>8. f # next
    BY <1>3, NewIsFresh
  <1>9. Passes(f)
    BY <1>3, <1>4, <1>5, <1>6, <1>7, <1>8 DEF Passes, PostReady
  <1> QED BY <1>3, <1>4, <1>5, <1>6, <1>7, <1>9, ApartKept DEF TokenInv

LEMMA AttachToken ==
    ASSUME TypeInv, TokenInv, TypeInv', NEW t \in Thread, Attach(t)
    PROVE  TokenInv'
  <1> DEFINE f == thr[t].f
             p == fut[f].promise
             task == [of |-> f, q |-> next, op |-> thr[t].op]
             r == [Idle EXCEPT !.at = "hold", !.f = next]
  <1>1. f \in Id
    BY Sames DEF Attach, At, Equipped
  <1>2. CASE p = None
    BY <1>2, BreakToken DEF Attach
  <1>3. CASE p # None
    <2>1. p \in Id
      BY <1>1, <1>3, Sames DEF Future
    <2>2. f \in InHand /\ f \notin Queued \cup Awaited \cup Spent /\ None \notin Id
      BY <1>1, HasInHand, Numbers DEF TokenInv, Apart
    <2>3. OneHand' /\ InHand' \subseteq (InHand \ {f}) \cup {next}
      <3>1. r.f = next /\ Leaves(t, r)
        BY <1>3 DEF Attach, Leaves, Idle
      <3> HIDE DEF r
      <3> QED BY <3>1, HandMoves, NewIsFresh DEF TokenInv
    <2>4. OnePost' /\ Queued' \subseteq Queued
      BY <1>3, QueueStays DEF Attach
    <2>5. OneLink' /\ Awaited' \subseteq Awaited \cup {f}
      <3> DEFINE R == [prom[p] EXCEPT !.future = None, !.ptr = "task",
                                      !.taskState = "future", !.task = task]
      <3>1. prom' = [[prom EXCEPT ![p] = R] EXCEPT ![next] = NewPromise(next)]
        BY <1>3, <2>1, Sames DEF Attach
      <3>2. R.task = task /\ task.of = f
        BY <2>1, Sames DEF Promise
      <3> HIDE DEF R, task
      <3>3. prom'[p].task \in {task, None}
            /\ \A x \in Id \ {p} : prom'[x].task \in {prom[x].task, None}
        BY <2>1, <3>1, <3>2, NoTasks, Sames
      <3> HIDE DEF p, f
      <3> QED BY <2>1, <2>2, <3>2, <3>3, LinkGrows DEF TokenInv
    <2>6. AtMostOnce' /\ Spent' = Spent
      BY <1>3, NoneTaken DEF TokenInv, Attach
    <2>7. f # next
      BY <2>2, NewIsFresh
    <2>8. next' = next + 1
      BY <1>3 DEF Attach
    <2>9. Passes(f)
      BY <2>2, <2>3, <2>4, <2>5, <2>6, <2>7, <2>8 DEF Passes
    <2> QED BY <2>2, <2>3, <2>4, <2>5, <2>6, <2>9, ApartKept DEF TokenInv
  <1> QED BY <1>2, <1>3

LEMMA RelinkToken ==
    ASSUME TypeInv, TokenInv, TypeInv', NEW t \in Thread, Relink(t)
    PROVE  TokenInv'
  <1> DEFINE f == thr[t].f
             p == fut[f].promise
             q == thr[t].p
  <1>1. f \in Id /\ q \in Id
    BY Sames DEF Relink, At, Equipped
  <1>2. CASE p = None
    BY <1>2, BreakToken DEF Relink
  <1>3. CASE p # None
    <2>1. p \in Id
      BY <1>1, <1>3, Sames DEF Future
    <2>2. Leaves(t, Idle) /\ Idle.f = None
      BY <1>3 DEF Relink, Leaves, Idle
    <2>3. OneLink' /\ Awaited' \subseteq Awaited
      <3>1. prom' = [prom EXCEPT ![p] = prom[q], ![q] = Dead(q)]
        BY <1>3 DEF Relink
      <3> HIDE DEF p, q
      <3>2. prom'[q].task = None /\ (p # q => prom'[p].task = prom[q].task)
            /\ \A x \in Id \ {p, q} : prom'[x].task = prom[x].task
        BY <1>1, <2>1, <3>1, NoTasks, Sames
      <3> QED BY <1>1, <2>1, <3>2, LinkMoves DEF TokenInv
    <2> QED BY <1>3, <2>2, <2>3, LetsGo DEF Relink
  <1> QED BY <1>2, <1>3

LEMMA ProduceToken ==
    ASSUME TypeInv, TokenInv, TypeInv', NEW t \in Thread, Produce(t)
    PROVE  TokenInv'
  <1> DEFINE r == [Idle EXCEPT !.at = "pmove", !.p = Head(posted).p]
  <1>1. Leaves(t, r) /\ r.f = None
    BY DEF Produce, Leaves, Idle
  <1>2. OneLink' /\ Awaited' \subseteq Awaited
    BY LinksStay DEF TokenInv, Produce
  <1> HIDE DEF r
  <1> QED BY <1>1, <1>2, LetsGo DEF Produce

LEMMA DestroyToken ==
    ASSUME TypeInv, TokenInv, TypeInv', NEW t \in Thread, Destroy(t)
    PROVE  TokenInv'
  <1>1. Leaves(t, Idle) /\ Idle.f = None
    BY DEF Destroy, Leaves, Idle
  <1>2. \A p \in Id : prom'[p].task \in {prom[p].task, None}
    BY NoTasks, Sames DEF Destroy
  <1>3. OneLink' /\ Awaited' \subseteq Awaited
    BY <1>2, LinksStay DEF TokenInv
  <1> QED BY <1>1, <1>3, LetsGo DEF Destroy

\* What running a continuation comes to: its result is taken, the thread that
\* runs it has no future in hand but that of a call it starts.
Gives(t, i, st, rest) ==
    /\ taken' = [taken EXCEPT ![i] = Append(@, st)]
    /\ \E r : /\ Leaves(t, r)
              /\ \/ r.f = None /\ next' = next
                 \/ r.f = next /\ next' = next + 1
    /\ posted' = rest \/ \E h \in Handler : h.k # "run" /\ posted' = Append(rest, h)

LEMMA ContinueGives ==
    ASSUME TypeInv, NEW t \in Thread, NEW task, NEW st \in Available,
           NEW rest, Continue(t, task, st, rest)
    PROVE  Gives(t, task.of, st, rest)
  <1>1. taken' = [taken EXCEPT ![task.of] = Append(@, st)]
    BY DEF Continue
  <1>2. /\ \A out : Returned(task.q, out).f = None
                    /\ [Returned(task.q, out) EXCEPT !.forwarded = FALSE].f = None
        /\ \A how : Started(task.q, how).f = next
    BY DEF Returned, Idle, Started
  <1>3. \E r : /\ Leaves(t, r)
               /\ \/ r.f = None /\ next' = next
                  \/ r.f = next /\ next' = next + 1
    BY <1>2 DEF Continue, Leaves
  <1>4. MayCall => [k |-> "produce", p |-> next] \in Handler
                   /\ [k |-> "produce", p |-> next].k # "run"
    BY NextIsFree, HandlerMade
  <1>5. posted' = rest \/ \E h \in Handler : h.k # "run" /\ posted' = Append(rest, h)
    BY <1>4 DEF Continue
  <1> QED BY <1>1, <1>3, <1>5 DEF Gives

\* A continuation is taken from where it was kept, and run.
LEMMA RunsOnce ==
    ASSUME TypeInv, TokenInv, TypeInv', NEW t \in Thread, NEW i \in Queued \cup Awaited,
           NEW v, NEW rest, Gives(t, i, v, rest),
           OnePost', Queued' \subseteq Queued \ {i}, OneLink', Awaited' \subseteq Awaited \ {i}
    PROVE  TokenInv'
  <1>1. i \in Id /\ None \notin Id /\ i \notin InHand /\ i \notin Spent /\ i # next
    BY Numbers, NewIsFresh DEF TokenInv, Apart, Queued, Awaited
  <1>2. OneHand' /\ InHand' \subseteq InHand \cup (IF next' = next THEN {} ELSE {next})
    <2>1. PICK r : /\ Leaves(t, r)
                   /\ \/ r.f = None /\ next' = next
                      \/ r.f = next /\ next' = next + 1
      BY DEF Gives
    <2>2. OneHand' /\ InHand' \subseteq InHand \cup {r.f}
      BY <2>1, HandMoves, NewIsFresh DEF TokenInv
    <2>3. None \notin InHand' /\ next + 1 # next
      BY <1>1, Numbers, Sames DEF InHand, Id
    <2> QED BY <2>1, <2>2, <2>3
  <1>3. AtMostOnce' /\ Spent' \subseteq Spent \cup {i}
    BY <1>1, TakenOnce DEF TokenInv, Gives
  <1>4. next' = next \/ next' = next + 1
    BY DEF Gives
  <1>5. Passes(i)
    BY <1>1, <1>2, <1>3, <1>4, NewIsFresh DEF Passes
  <1> QED BY <1>2, <1>3, <1>5, ApartKept DEF TokenInv

LEMMA RunToken ==
    ASSUME TypeInv, TokenInv, TypeInv', NEW t \in Thread, Run(t)
    PROVE  TokenInv'
  <1> DEFINE task == Head(posted).task
             st == Head(posted).st
             rest == Tail(posted)
  <1>1. posted # <<>> /\ Head(posted).k = "run" /\ Continue(t, task, st, rest)
    BY DEF Run
  <1>2. CASE st \notin Available
    BY <1>1, <1>2, ContinueUnset, BreakToken
  <1>3. CASE st \in Available
    <2>1. Gives(t, task.of, st, rest)
      BY <1>1, <1>3, ContinueGives
    <2>2. OnePost' /\ Queued' \subseteq Queued \ {task.of} /\ task.of \in Queued
      BY <1>1, <2>1, QueueRuns DEF Gives
    <2>3. OneLink' /\ Awaited' \subseteq Awaited
      <3>1. \A p \in Id : prom'[p].task \in {prom[p].task, None}
        BY NoTasks, Sames DEF Run
      <3> QED BY <3>1, LinksStay DEF TokenInv
    <2>4. task.of \notin Awaited
      BY <2>2 DEF TokenInv, Apart, Queued
    <2> HIDE DEF task, st, rest
    <2> QED BY <2>1, <2>2, <2>3, <2>4, RunsOnce
  <1> QED BY <1>2, <1>3

LEMMA MakeReadyToken ==
    ASSUME TypeInv, TokenInv, TypeInv', NEW t \in Thread, MakeReady(t), fault = "none"
    PROVE  TokenInv'
  <1> DEFINE p == thr[t].p
             task == prom[p].task
             st == prom[p].taskState
             h == [k |-> "run", st |-> st, task |-> task]
             r == [thr[t] EXCEPT !.at = "destroy"]
  <1>1. p \in Id /\ st \in State /\ task \in Continuation \cup {None}
    BY Sames DEF MakeReady, At, Equipped, Promise
  <1>2. r.f = thr[t].f
    BY Sames DEF ThreadState
  <1>3. Leaves(t, r) => \A u \in Thread : thr'[u].f = thr[u].f
    BY <1>2, Sames DEF Leaves
  <1>4. task # None => task.of \in Awaited /\ task.of \in Id
    BY <1>1, NewIsFresh DEF Awaited
  <1>5. CASE Leaves(t, r) /\ UNCHANGED <<posted, prom, next, taken>>
    BY <1>3, <1>5, NothingPasses
  <1>6. CASE /\ task # None
             /\ posted' = Append(posted, h)
             /\ prom' = [prom EXCEPT ![p].ptr = "null", ![p].task = None]
             /\ Leaves(t, r)
             /\ UNCHANGED <<next, taken>>
    <2>1. \A x \in Id : prom'[x].task = IF x = p THEN None ELSE prom[x].task
      BY <1>1, <1>6, Sames DEF Promise
    <2>2. OneLink' /\ Awaited' \subseteq Awaited \ {task.of}
      <3>1. OneLink' /\ Awaited' \subseteq Awaited
        BY <2>1, LinksStay DEF TokenInv
      <3>2. task.of \notin Awaited'
        BY <1>1, <1>6, <2>1, LinkGone DEF TokenInv
      <3> QED BY <3>1, <3>2
    <2>3. task.of \in Id /\ task.of \notin InHand \cup Queued \cup Spent
      BY <1>4, <1>6 DEF TokenInv, Apart
    <2>4. OnePost' /\ Queued' \subseteq Queued \cup {task.of}
      <3>1. h \in Handler /\ h.k = "run" /\ h.task = task
        BY <1>1, <1>6, HandlerMade
      <3> HIDE DEF h, task
      <3> QED BY <1>6, <2>3, <3>1, QueueGrows
    <2>5. OneHand' /\ InHand' = InHand
      BY <1>3, <1>6, HandStays DEF TokenInv
    <2>6. AtMostOnce' /\ Spent' = Spent
      BY <1>6, NoneTaken DEF TokenInv
    <2>7. Passes(task.of)
      <3>1. next \notin InHand
        BY NewIsFresh
      <3> HIDE DEF task
      <3> QED BY <1>6, <2>2, <2>3, <2>4, <2>5, <2>6, <3>1 DEF Passes
    <2> QED BY <1>4, <1>6, <2>2, <2>4, <2>5, <2>6, <2>7, ApartKept DEF TokenInv
  <1>7. CASE /\ task # None
             /\ Continue(t, task, st, posted)
             /\ prom' = IF fault' # "none" THEN prom
                        ELSE IF next' > next
                        THEN [prom EXCEPT ![p] = Dead(p), ![next] = NewPromise(next)]
                        ELSE [prom EXCEPT ![p] = Dead(p)]
    <2>1. CASE st \notin Available
      BY <1>7, <2>1, ContinueUnset, BreakToken
    <2>2. CASE st \in Available /\ fault' = "none"
      <3>1. Gives(t, task.of, st, posted)
        BY <1>7, <2>2, ContinueGives
      <3>2. OnePost' /\ Queued' \subseteq Queued
        BY <3>1, QueueStays DEF Gives
      <3>3. \A x \in Id : prom'[x].task \in {prom[x].task, None}
        BY <1>7, <2>2, NoTasks, Sames
      <3>4. prom'[p].task = None
        BY <1>1, <1>7, <2>2, NoTasks, Sames
      <3>5. OneLink' /\ Awaited' \subseteq Awaited \ {task.of}
        <4>1. OneLink' /\ Awaited' \subseteq Awaited
          BY <3>3, LinksStay DEF TokenInv
        <4>2. task.of \notin Awaited'
          BY <1>1, <1>7, <3>3, <3>4, LinkGone DEF TokenInv
        <4> QED BY <4>1, <4>2
      <3>6. task.of \in Awaited /\ task.of \notin Queued
        BY <1>4, <1>7 DEF TokenInv, Apart
      <3> HIDE DEF task, st
      <3> QED BY <3>1, <3>2, <3>5, <3>6, RunsOnce
    <2>3. CASE st \in Available /\ fault' # "none"
      <3>1. fault' = fault
        BY <1>7, <2>3 DEF Continue
      <3> QED BY <2>3, <3>1
    <2> QED BY <2>1, <2>2, <2>3
  <1>8. Leaves(t, r) <=> thr' = [thr EXCEPT ![t].at = "destroy"]
    BY Sames DEF Leaves
  <1> QED BY <1>5, <1>6, <1>7, <1>8 DEF MakeReady

LEMMA InitToken ==
    ASSUME Init
    PROVE  TokenInv
  <1>1. InHand = {}
    BY Numbers DEF Init, InHand, Idle
  <1>2. \A k \in DOMAIN posted : posted[k].k # "run"
    BY DEF Init
  <1>3. Queued = {} /\ OnePost
    BY <1>2 DEF Queued, OnePost, Posts
  <1>4. \A p \in Id : prom[p].task = None
    BY NoTasks DEF Init
  <1>5. Awaited = {} /\ OneLink
    BY <1>4 DEF Awaited, OneLink, Links
  <1>6. Spent = {} /\ AtMostOnce
    BY DEF Init, Spent, AtMostOnce
  <1>7. OneHand
    BY <1>1 DEF OneHand, InHand
  <1> QED BY <1>1, <1>3, <1>5, <1>6, <1>7 DEF TokenInv, Apart

LEMMA AloneToken ==
    ASSUME TypeInv, TokenInv, NEW t \in Thread, LostThis(t) \/ NoMutex(t)
    PROVE  TokenInv'
  <1>1. PICK kind \in Alone : Break(kind)
    BY AloneBreaks
  <1> QED BY <1>1, BreakToken

LEMMA StepToken ==
    ASSUME TypeInv, TokenInv, TypeInv', NEW t \in Thread, Step(t), fault = "none"
    PROVE  TokenInv'
  BY AloneToken, BeginToken, DropToken, UseToken, LookToken, FollowToken, JudgeToken, PostReadyToken,
     AttachToken, CollectToken, RunToken, TakeToken, QuietToken, ForwardToken, RelinkToken,
     ProduceToken, StoreToken, MakeReadyToken, DestroyToken DEF Step

LEMMA TokensThroughout == Spec => []TokenInv
  <1>1. Init => TokenInv
    BY InitToken
  <1>2. TypeInv /\ TypeInv' /\ TokenInv /\ [Next]_vars => TokenInv'
    <2> SUFFICES ASSUME TypeInv, TypeInv', TokenInv, [Next]_vars PROVE TokenInv'
      OBVIOUS
    <2>1. CASE Next
      BY <2>1, StepToken DEF Next
    <2>2. CASE UNCHANGED vars
      BY <2>2, NothingPasses DEF vars
    <2> QED BY <2>1, <2>2
  <1> QED BY <1>1, <1>2, TypesThroughout, PTL DEF Spec

\* AtMostOnce for any pool, any number of calls and either kind of future: a
\* result is handed over once, because at any time only one thread, posted
\* continuation or promise has the future it comes from, and none once it was
\* taken.
THEOREM HandedOverOnce == Spec => []AtMostOnce
  <1>1. TokenInv => AtMostOnce
    BY DEF TokenInv
  <1> QED BY <1>1, TokensThroughout, PTL

-----------------------------------------------------------------------------
(***************************************************************************)
(* A pool in which no consumer has met the producer half way: no promise   *)
(* that is gone is used, and every consumer gets what its call was made to *)
(* return.                                                                 *)
(***************************************************************************)

(* Each promise has one maker: the thread that is to fulfil it, a posted   *)
(* handler, or a promise whose continuation fulfils it.                    *)

DueOf(h) == IF h.k = "produce" THEN h.p ELSE IF h.k = "run" THEN h.task.q ELSE None
ThenOf(x) == IF prom[x].task = None THEN None ELSE prom[x].task.q

Working == {p \in Id : \E t \in Thread : thr[t].p = p}
DueIn(q) == {p \in Id : \E k \in DOMAIN q : DueOf(q[k]) = p}
Pending == DueIn(posted)
Promised == {p \in Id : \E x \in Id : ThenOf(x) = p}
Makers == Working \cup Pending \cup Promised

OneWorker == \A t, u \in Thread : thr[t].p \in Id /\ thr[t].p = thr[u].p => t = u
DueOnce(q) == \A k, l \in DOMAIN q : DueOf(q[k]) \in Id /\ DueOf(q[k]) = DueOf(q[l]) => k = l
OneThen == \A x, y \in Id : ThenOf(x) \in Id /\ ThenOf(x) = ThenOf(y) => x = y

Separate ==
    \A p \in Id :
        /\ p \in Working => p \notin Pending \cup Promised
        /\ p \in Pending => p \notin Promised
        /\ p >= next => p \notin Makers

MakerInv == OneWorker /\ DueOnce(posted) /\ OneThen /\ Separate

\* The promise m changes makers and, where a call begins, a new one gets one.
Turns(m) ==
    /\ Working' \subseteq Working \cup {m}
    /\ Pending' \subseteq Pending \cup {m, next}
    /\ Promised' \subseteq Promised \cup {m, next}
    /\ \/ next' = next /\ next \notin Pending' \cup Promised'
       \/ next' = next + 1
    /\ next \notin Pending' \cap Promised'
    /\ m \in Working' => m \notin Pending' \cup Promised'
    /\ m \in Pending' => m \notin Promised'

LEMMA SeparateKept ==
    ASSUME TypeInv, Separate, NEW m, m \in Makers \/ m = None, Turns(m)
    PROVE  Separate'
  <1>1. next \in Nat /\ Id \subseteq Nat /\ None \notin Id
    BY Numbers, Sames
  <1>2. Working' \subseteq Id /\ Pending' \subseteq Id /\ Promised' \subseteq Id
    BY DEF Working, Pending, DueIn, Promised, Id
  <1>3. m \in Id => m < next
    BY <1>1 DEF Separate
  <1>4. SUFFICES ASSUME NEW p \in Id
                 PROVE  /\ p \in Working' => p \notin Pending' \cup Promised'
                        /\ p \in Pending' => p \notin Promised'
                        /\ p >= next' => p \notin Working' \cup Pending' \cup Promised'
    BY DEF Separate, Id, Makers
  <1>5. CASE p = m
    BY <1>1, <1>3, <1>5 DEF Turns
  <1>6. CASE p # m
    BY <1>1, <1>3, <1>6 DEF Turns, Separate, Makers
  <1> QED BY <1>5, <1>6

\* Thread t lets go of its promise, unless r still has it.
LEMMA WorkMoves ==
    ASSUME TypeInv, OneWorker, NEW t \in Thread, NEW r, Leaves(t, r),
           r.p = None \/ r.p \notin Working \/ r.p = thr[t].p
    PROVE  /\ OneWorker'
           /\ Working' \subseteq (Working \ {thr[t].p}) \cup {r.p}
  <1>1. \A u \in Thread : thr'[u] = IF u = t THEN r ELSE thr[u]
    BY Sames DEF Leaves
  <1>2. None \notin Id
    BY Numbers
  <1>3. OneWorker'
    <2> SUFFICES ASSUME NEW u \in Thread, NEW w \in Thread, thr'[u].p \in Id,
                        thr'[u].p = thr'[w].p
                 PROVE  u = w
      BY DEF OneWorker, Id
    <2> QED BY <1>1, <1>2 DEF OneWorker, Working
  <1>4. Working' = {i \in Id : \E u \in Thread : thr'[u].p = i}
    BY DEF Working, Id
  <1>5. Working' \subseteq (Working \ {thr[t].p}) \cup {r.p}
    BY <1>1, <1>4 DEF Working, OneWorker
  <1> QED BY <1>3, <1>5

LEMMA DueType ==
    ASSUME NEW h \in Handler
    PROVE  DueOf(h) \in Id \cup {None}
  BY HandlerParts DEF DueOf, Continuation

LEMMA DueAppend ==
    ASSUME NEW q \in Seq(Handler), NEW h \in Handler, DueOnce(q), DueOf(h) \notin DueIn(q)
    PROVE  /\ DueOnce(Append(q, h))
           /\ DueIn(Append(q, h)) \subseteq DueIn(q) \cup {DueOf(h)}
           /\ DueOf(h) \in Id => DueOf(h) \in DueIn(Append(q, h))
           /\ DueIn(q) \subseteq DueIn(Append(q, h))
  <1> DEFINE p == Append(q, h)
  <1>1. Len(q) \in Nat /\ DOMAIN q = 1 .. Len(q) /\ DOMAIN p = 1 .. Len(q) + 1
        /\ p[Len(q) + 1] = h /\ \A k \in 1 .. Len(q) : p[k] = q[k]
    OBVIOUS
  <1> HIDE DEF p
  <1>3. /\ \A k \in DOMAIN p : \/ (k \in DOMAIN q /\ p[k] = q[k])
                               \/ (k = Len(q) + 1 /\ p[k] = h)
        /\ \A k \in DOMAIN q : k \in DOMAIN p /\ p[k] = q[k]
        /\ Len(q) + 1 \in DOMAIN p
    BY <1>1
  <1>4. DueIn(p) \subseteq DueIn(q) \cup {DueOf(h)}
    BY <1>3 DEF DueIn
  <1>5. DueOnce(p)
    BY <1>3 DEF DueIn, DueOnce
  <1>6. DueIn(q) \subseteq DueIn(p)
    BY <1>3 DEF DueIn
  <1>7. DueOf(h) \in Id => DueOf(h) \in DueIn(p)
    BY <1>1, <1>3 DEF DueIn
  <1> QED BY <1>4, <1>5, <1>6, <1>7 DEF p

LEMMA DueTail ==
    ASSUME NEW q \in Seq(Handler), q # <<>>, DueOnce(q)
    PROVE  /\ DueOnce(Tail(q))
           /\ DueIn(Tail(q)) \subseteq DueIn(q) \ {DueOf(Head(q))}
           /\ DueOf(Head(q)) \in Id => DueOf(Head(q)) \in DueIn(q)
           /\ DueIn(q) \subseteq DueIn(Tail(q)) \cup {DueOf(Head(q))}
  <1> DEFINE p == Tail(q)
  <1>1. Len(q) \in Nat \ {0} /\ DOMAIN q = 1 .. Len(q) /\ DOMAIN p = 1 .. Len(q) - 1
        /\ Head(q) = q[1] /\ \A k \in 1 .. Len(q) - 1 : p[k] = q[k + 1]
    OBVIOUS
  <1> HIDE DEF p
  <1>3. \A k \in DOMAIN p : k + 1 \in DOMAIN q /\ k + 1 # 1 /\ p[k] = q[k + 1] /\ k \in Int
    BY <1>1
  <1>4. DueOnce(p)
    BY <1>3 DEF DueOnce
  <1>5. DueIn(p) \subseteq DueIn(q)
    BY <1>3 DEF DueIn
  <1>6. DueOf(Head(q)) \notin DueIn(p)
    BY <1>1, <1>3 DEF DueIn, DueOnce
  <1>7. DueOf(Head(q)) \in Id => DueOf(Head(q)) \in DueIn(q)
    BY <1>1 DEF DueIn
  <1>8. ASSUME NEW k \in DOMAIN q, k # 1
        PROVE  k - 1 \in DOMAIN p /\ p[k - 1] = q[k]
    BY <1>1, <1>8
  <1>9. DueIn(q) \subseteq DueIn(p) \cup {DueOf(Head(q))}
    BY <1>1, <1>8 DEF DueIn
  <1> QED BY <1>4, <1>5, <1>6, <1>7, <1>9 DEF p

\* The continuations promises have: those they had, or none,
LEMMA ThenStays ==
    ASSUME OneThen, \A x \in Id : prom'[x].task \in {prom[x].task, None}
    PROVE  OneThen' /\ Promised' \subseteq Promised
  <1>1. \A x \in Id : ThenOf(x)' \in {ThenOf(x), None}
    BY DEF ThenOf
  <1>2. None \notin Id
    BY Numbers
  <1> QED BY <1>1, <1>2 DEF OneThen, Promised, Id

\* one is let go,
LEMMA ThenGone ==
    ASSUME OneThen, \A x \in Id : prom'[x].task \in {prom[x].task, None},
           NEW x \in Id, prom[x].task # None, prom'[x].task = None
    PROVE  prom[x].task.q \notin Promised'
  <1>1. \A y \in Id : ThenOf(y)' \in {ThenOf(y), None}
    BY DEF ThenOf
  <1>2. None \notin Id /\ ThenOf(x)' = None /\ ThenOf(x) = prom[x].task.q
    BY Numbers DEF ThenOf
  <1>3. Promised' = {p \in Id : \E y \in Id : ThenOf(y)' = p}
    BY DEF Promised, Id
  <1> QED BY <1>1, <1>2, <1>3 DEF OneThen

\* one is new,
LEMMA ThenGrows ==
    ASSUME OneThen, NEW x \in Id, NEW c, c.q \notin Promised,
           prom'[x].task \in {c, None},
           \A y \in Id \ {x} : prom'[y].task \in {prom[y].task, None}
    PROVE  OneThen' /\ Promised' \subseteq Promised \cup {c.q}
  <1>1. \A y \in Id \ {x} : ThenOf(y)' \in {ThenOf(y), None}
    BY DEF ThenOf
  <1>2. None \notin Id /\ ThenOf(x)' \in {c.q, None}
    BY Numbers DEF ThenOf
  <1>3. Promised' = {p \in Id : \E y \in Id : ThenOf(y)' = p}
    BY DEF Promised, Id
  <1>4. Promised' \subseteq Promised \cup {c.q}
    BY <1>1, <1>2, <1>3 DEF Promised
  <1>5. \A y, z \in Id : ThenOf(y)' \in Id /\ ThenOf(y)' = ThenOf(z)' => y = z
    BY <1>1, <1>2 DEF OneThen, Promised
  <1>6. OneThen'
    BY <1>5 DEF OneThen, Id
  <1> QED BY <1>4, <1>6

\* or one takes the place of another.
LEMMA ThenMoves ==
    ASSUME OneThen, NEW x \in Id, NEW y \in Id,
           prom'[y].task = None, x # y => prom'[x].task = prom[y].task,
           \A z \in Id \ {x, y} : prom'[z].task = prom[z].task
    PROVE  OneThen' /\ Promised' \subseteq Promised
  <1>1. /\ \A z \in Id \ {x, y} : ThenOf(z)' = ThenOf(z)
        /\ ThenOf(y)' = None /\ (x # y => ThenOf(x)' = ThenOf(y))
    BY DEF ThenOf
  <1>2. None \notin Id
    BY Numbers
  <1>3. Promised' = {p \in Id : \E z \in Id : ThenOf(z)' = p}
    BY DEF Promised, Id
  <1>4. Promised' \subseteq Promised
    BY <1>1, <1>2, <1>3 DEF Promised
  <1>5. \A u, z \in Id : ThenOf(u)' \in Id /\ ThenOf(u)' = ThenOf(z)' => u = z
    BY <1>1, <1>2 DEF OneThen
  <1>6. OneThen'
    BY <1>5 DEF OneThen, Id
  <1> QED BY <1>4, <1>6

\* A new promise has no maker, and those there are have numbers.
LEMMA NewIsUnmade ==
    ASSUME TypeInv, MakerInv
    PROVE  /\ next \notin Makers /\ next # None /\ None \notin Makers
           /\ Makers \subseteq Id
           /\ \A t \in Thread : thr[t].p \in Working \/ thr[t].p = None
           /\ \A t \in Thread : thr[t].p # next
           /\ \A x \in Id : prom[x].task # None => prom[x].task.q \in Promised
  <1>1. next \in Nat /\ (next \notin Id => next > Ids)
    BY Numbers, Sames DEF Id
  <1>2. Makers \subseteq Id /\ None \notin Id
    BY Numbers DEF Makers, Working, Pending, DueIn, Promised
  <1>3. next \notin Makers
    BY <1>1, <1>2 DEF MakerInv, Separate
  <1>4. next # None
    BY FuturesAssumption, Sames, Numbers
  <1>5. \A t \in Thread : thr[t].p \in Working \/ thr[t].p = None
    BY Sames DEF Working, ThreadState
  <1>6. \A x \in Id : prom[x].task # None => prom[x].task.q \in Id
    BY Sames DEF Promise, Continuation
  <1>7. \A x \in Id : prom[x].task # None => prom[x].task.q \in Promised
    BY <1>6 DEF Promised, ThenOf
  <1> QED BY <1>2, <1>3, <1>4, <1>5, <1>7 DEF Makers

\* What a step does to the list of handlers: it leaves base of it, and may post
\* the handler of a new call.
Posts1(base) ==
    \/ posted' = base /\ next' = next
    \/ posted' = base /\ next' = next + 1
    \/ /\ \E h \in Handler : DueOf(h) = next /\ posted' = Append(base, h)
       /\ next' = next + 1

LEMMA PostsOne ==
    ASSUME TypeInv, MakerInv, NEW base \in Seq(Handler), DueOnce(base),
           DueIn(base) \subseteq Pending, Posts1(base)
    PROVE  /\ DueOnce(posted')
           /\ Pending' \subseteq DueIn(base) \cup {next}
           /\ next' = next => Pending' \subseteq DueIn(base)
           /\ next' = next \/ next' = next + 1
  <1>1. Pending' = DueIn(posted')
    BY DEF Pending, DueIn, Id
  <1>2. next \notin DueIn(base)
    BY NewIsUnmade DEF Makers
  <1>3. next + 1 # next
    BY Numbers, Sames
  <1> QED BY <1>1, <1>2, <1>3, DueAppend DEF Posts1

LEMMA PostedOnce ==
    ASSUME TypeInv, MakerInv
    PROVE  /\ DueOnce(posted) /\ DueIn(posted) = Pending /\ posted \in Seq(Handler)
           /\ posted # <<>> => /\ Tail(posted) \in Seq(Handler)
                               /\ DueOnce(Tail(posted))
                               /\ DueIn(Tail(posted)) \subseteq Pending \ {DueOf(Head(posted))}
                               /\ DueOf(Head(posted)) \in Id => DueOf(Head(posted)) \in Pending
  <1>1. DueOnce(posted) /\ DueIn(posted) = Pending /\ posted \in Seq(Handler)
    BY Sames DEF MakerInv, Pending
  <1> QED BY <1>1, DueTail, PostedParts

\* A thread keeps its promise or lets it go, and no other changes makers.
LEMMA MakersStay ==
    ASSUME TypeInv, MakerInv, NEW t \in Thread, NEW r, Leaves(t, r), r.p \in {thr[t].p, None},
           NEW base, base = posted \/ (posted # <<>> /\ base = Tail(posted)), Posts1(base),
           OneThen', Promised' \subseteq Promised
    PROVE  /\ MakerInv'
           /\ Makers' \subseteq Makers \cup {next}
           /\ next' = next => Makers' \subseteq Makers
           /\ r.p # thr[t].p => thr[t].p \notin Makers'
  <1>1. DueOnce(base) /\ DueIn(base) \subseteq Pending /\ base \in Seq(Handler)
    BY PostedOnce
  <1>2. /\ DueOnce(posted')
        /\ Pending' \subseteq Pending \cup {next}
        /\ next' = next => Pending' \subseteq Pending
        /\ next' = next \/ next' = next + 1
    BY <1>1, PostsOne
  <1>3. OneWorker' /\ Working' \subseteq (Working \ {thr[t].p}) \cup {r.p}
    BY WorkMoves DEF MakerInv
  <1>4. None \notin Working' /\ None \notin Pending' /\ None \notin Promised'
    BY Numbers DEF Working, Pending, DueIn, Promised, Id
  <1>5. Working' \subseteq Working /\ (r.p # thr[t].p => thr[t].p \notin Working')
    BY <1>3, <1>4, NewIsUnmade
  <1>6. next + 1 # next /\ next \notin Makers
    BY Numbers, Sames, NewIsUnmade
  <1>7. Turns(None)
    BY <1>2, <1>4, <1>5, <1>6 DEF Turns, Makers
  <1>8. Separate'
    BY <1>7, SeparateKept DEF MakerInv
  <1>9. MakerInv'
    BY <1>2, <1>3, <1>8 DEF MakerInv, DueOnce, Id
  <1>10. Makers' = Working' \cup Pending' \cup Promised'
    BY DEF Makers, Working, Pending, DueIn, Promised, Id
  <1>11. thr[t].p \in Working \/ thr[t].p = None
    BY NewIsUnmade
  <1>12. thr[t].p \in Working => thr[t].p \notin Pending \cup Promised \cup {next}
    BY <1>6 DEF MakerInv, Separate, Working, Makers
  <1> QED BY <1>2, <1>4, <1>5, <1>9, <1>10, <1>11, <1>12 DEF Makers

\* A thread takes up the promise m, posted or of a continuation.
LEMMA MakersTurn ==
    ASSUME TypeInv, MakerInv, NEW t \in Thread, NEW r, Leaves(t, r),
           NEW m \in Pending \cup Promised, r.p = m,
           NEW base, base = posted \/ (posted # <<>> /\ base = Tail(posted)), Posts1(base),
           m \notin DueIn(base), OneThen', Promised' \subseteq Promised \ {m}
    PROVE  /\ MakerInv'
           /\ Makers' \subseteq Makers \cup {next}
           /\ next' = next => Makers' \subseteq Makers
           /\ thr[t].p \notin Makers'
  <1>1. DueOnce(base) /\ DueIn(base) \subseteq Pending /\ base \in Seq(Handler)
    BY PostedOnce
  <1>2. /\ DueOnce(posted')
        /\ Pending' \subseteq DueIn(base) \cup {next}
        /\ next' = next => Pending' \subseteq DueIn(base)
        /\ next' = next \/ next' = next + 1
    BY <1>1, PostsOne
  <1>3. m \in Id /\ m \notin Working /\ m # next
    BY NewIsUnmade DEF MakerInv, Separate, Makers, Working
  <1>4. OneWorker' /\ Working' \subseteq (Working \ {thr[t].p}) \cup {m}
    BY <1>3, WorkMoves DEF MakerInv
  <1>5. None \notin Working' /\ None \notin Pending' /\ None \notin Promised'
    BY Numbers DEF Working, Pending, DueIn, Promised, Id
  <1>6. next + 1 # next /\ next \notin Makers
    BY Numbers, Sames, NewIsUnmade
  <1>7. Turns(m)
    BY <1>1, <1>2, <1>3, <1>4, <1>6 DEF Turns, Makers
  <1>8. Separate'
    BY <1>7, SeparateKept DEF MakerInv, Makers
  <1>9. MakerInv'
    BY <1>2, <1>4, <1>8 DEF MakerInv, DueOnce, Id
  <1>10. Makers' = Working' \cup Pending' \cup Promised'
    BY DEF Makers, Working, Pending, DueIn, Promised, Id
  <1>11. thr[t].p \in Working \/ thr[t].p = None
    BY NewIsUnmade
  <1>12. thr[t].p \in Working => thr[t].p \notin Pending \cup Promised \cup {next}
    BY <1>6 DEF MakerInv, Separate, Working, Makers
  <1> QED BY <1>1, <1>2, <1>3, <1>4, <1>5, <1>9, <1>10, <1>11, <1>12 DEF Makers

-----------------------------------------------------------------------------
(* Where the state of a call is, until its consumer takes it.              *)

\* The state of future f, and the place it is in.
Now(f) == IF fut[f].promise = None THEN fut[f].local ELSE prom[fut[f].promise].local
Where(f) == IF fut[f].promise = None THEN [in |-> "future", id |-> f]
            ELSE [in |-> "promise", id |-> fut[f].promise]

\* A promise whose maker has set its state, and contents before and after.
Done(p) == \E t \in Thread : thr[t].p = p /\ thr[t].at \in {"ready", "destroy"}
Fresh(c) ==
    /\ c.local = "future" /\ c.taskState = "future"
    /\ c.ptr = IF c.task = None THEN "promise" ELSE "task"
    /\ c.future # None => c.task = None
Fulfilled(c) ==
    /\ c.future # None => c.local \in Available /\ c.ptr = "promise" /\ c.task = None
    /\ c.task # None => c.taskState \in Available

Alive ==
    \A p \in Id : /\ p \in Makers => prom[p].alive
                  /\ prom[p].future # None => prom[p].alive
                  /\ prom[p].alive => p < next

\* A future and a promise point at each other or neither does.
Linking ==
    /\ \A f \in Id : fut[f].promise # None =>
           prom[fut[f].promise].future = f /\ f \in InHand
    /\ \A p \in Id : prom[p].future # None => fut[prom[p].future].promise = p

Content ==
    \A p \in Id : prom[p].alive =>
        /\ Done(p) => Fulfilled(prom[p])
        /\ ~Done(p) => Fresh(prom[p])

\* Promises that will be fulfilled without a look at any future: those of
\* posted calls and those of threads without a future in hand.
Calls(q) == {p \in Id : \E k \in DOMAIN q : q[k].k = "produce" /\ q[k].p = p}
Spare == Calls(posted) \cup {p \in Id : \E t \in Thread : thr[t].p = p /\ thr[t].f = None}

\* What a thread with r counts on.
Sound(r) ==
    /\ r.at \in {"hold", "moving", "moved"} => r.stage # "take"
    /\ r.at \in {"idle", "pmove", "point", "store", "ready", "destroy"} => r.f = None
    /\ r.at = "idle" => r.p = None
    /\ r.f # None /\ fut[r.f].promise = None => fut[r.f].local \in Available
    /\ r.at = "peeked" => fut[r.f].promise # None
    /\ r.at = "placed" => r.place = Where(r.f)
    /\ r.at = "collect" => Now(r.f) \in Available
    /\ r.at \in {"look", "peeked", "placed"} /\ r.stage = "take" => Now(r.f) \in Available
    /\ r.at \in {"attach", "relink"} => fut[r.f].promise # None /\ Now(r.f) \notin Available
    /\ r.at = "store" => r.place = [in |-> prom[r.p].ptr, id |-> r.p]
    /\ r.at = "destroy" => prom[r.p].task = None
    /\ r.f # None /\ r.p # None /\ fut[r.f].promise # None => fut[r.f].promise \in Spare

Runs(q) == \A k \in DOMAIN q : q[k].k = "run" => q[k].st \in Available

Straight ==
    /\ Alive /\ Linking /\ Content /\ (\A t \in Thread : Sound(thr[t]))
    /\ Runs(posted) /\ fault = "none"

\* No two threads meet half way.
NoCross == \A t, u \in Thread : ~Cross(t, u)

\* A thread that has met no one reads a state where it was given the address.
LEMMA SeesThere ==
    ASSUME NoCross, NEW t \in Thread
    PROVE  Seen(t) = Value(thr[t].place)
  BY DEF NoCross, Cross, Seen

\* A future that is linked to a promise.
LEMMA LinkedView ==
    ASSUME TypeInv, MakerInv, Straight, NEW f \in Id, NEW p, p = fut[f].promise, p # None
    PROVE  /\ p \in Id /\ prom[p].alive /\ p < next /\ p # next
           /\ prom[p].future = f /\ f \in InHand
           /\ prom[p].ptr = "promise" /\ prom[p].task = None
           /\ Done(p) <=> prom[p].local \in Available
           /\ ~Done(p) => prom[p].local = "future"
           /\ Now(f) = prom[p].local
  <1>1. p \in Id
    BY Sames DEF Future
  <1>2. prom[p].future = f /\ f \in InHand /\ f # None
    BY Numbers DEF Straight, Linking
  <1>3. prom[p].alive /\ p < next
    BY <1>1, <1>2 DEF Straight, Alive
  <1>4. IF Done(p) THEN Fulfilled(prom[p]) ELSE Fresh(prom[p])
    BY <1>1, <1>3 DEF Straight, Content
  <1>5. next \in Nat /\ p \in Nat
    BY <1>1, Numbers, Sames
  <1> QED BY <1>1, <1>2, <1>3, <1>4, <1>5 DEF Fulfilled, Fresh, Now, Available

\* What is read where future f has its state.
LEMMA ReadWhere ==
    ASSUME TypeInv, MakerInv, Straight, NEW f \in Id
    PROVE  /\ Value(Where(f)) = Now(f) /\ Now(f) \in State
           /\ Where(f) = Found(f)
           /\ Where(f) \in Place
  <1>1. CASE fut[f].promise = None
    BY <1>1, Sames DEF Value, Where, Now, Found, Future, Place
  <1>2. CASE fut[f].promise # None
    <2> DEFINE p == fut[f].promise
    <2>1. p \in Id /\ prom[p].alive /\ prom[p].ptr = "promise" /\ Now(f) = prom[p].local
      BY <1>2, LinkedView
    <2>2. prom[p].local \in State
      BY <2>1, Sames DEF Promise
    <2> QED BY <1>2, <2>1, <2>2 DEF Value, Where, Now, Found, Place
  <1> QED BY <1>1, <1>2

LEMMA DoneIs ==
    ASSUME OneWorker, NEW t \in Thread, thr[t].p \in Id
    PROVE  Done(thr[t].p) <=> thr[t].at \in {"ready", "destroy"}
  BY DEF OneWorker, Done

LEMMA DoneMoves ==
    ASSUME TypeInv, OneWorker, OneWorker', NEW t \in Thread, NEW r, Leaves(t, r)
    PROVE  /\ \A p \in Id : p # thr[t].p /\ p # r.p => (Done(p)' <=> Done(p))
           /\ \A p \in Id : p = r.p => (Done(p)' <=> r.at \in {"ready", "destroy"})
           /\ \A p \in Id : p = thr[t].p /\ p # r.p => ~Done(p)'
  <1>1. \A u \in Thread : thr'[u] = IF u = t THEN r ELSE thr[u]
    BY Sames DEF Leaves
  <1>2. \A p \in Id : Done(p)' <=> \E u \in Thread : thr'[u].p = p /\ thr'[u].at \in {"ready", "destroy"}
    BY DEF Done
  <1>3. \A u, w \in Thread : thr'[u].p \in Id /\ thr'[u].p = thr'[w].p => u = w
    BY DEF OneWorker, Id
  <1> QED BY <1>1, <1>2, <1>3 DEF Done, OneWorker

LEMMA CallsAppend ==
    ASSUME NEW q \in Seq(Handler), NEW h \in Handler
    PROVE  /\ Calls(q) \subseteq Calls(Append(q, h))
           /\ h.k = "produce" => h.p \in Calls(Append(q, h))
  <1> DEFINE p == Append(q, h)
  <1>1. Len(q) \in Nat /\ DOMAIN q = 1 .. Len(q) /\ DOMAIN p = 1 .. Len(q) + 1
        /\ p[Len(q) + 1] = h /\ \A k \in 1 .. Len(q) : p[k] = q[k]
    OBVIOUS
  <1>2. h.k = "produce" => h.p \in Id
    BY HandlerParts
  <1> HIDE DEF p
  <1>3. /\ \A k \in DOMAIN q : k \in DOMAIN p /\ p[k] = q[k]
        /\ Len(q) + 1 \in DOMAIN p /\ p[Len(q) + 1] = h
    BY <1>1
  <1> QED BY <1>2, <1>3 DEF Calls, p

LEMMA CallsTail ==
    ASSUME NEW q \in Seq(Handler), q # <<>>
    PROVE  Calls(q) \subseteq
             Calls(Tail(q)) \cup (IF Head(q).k = "produce" THEN {Head(q).p} ELSE {})
  <1> DEFINE p == Tail(q)
  <1>1. Len(q) \in Nat \ {0} /\ DOMAIN q = 1 .. Len(q) /\ DOMAIN p = 1 .. Len(q) - 1
        /\ Head(q) = q[1] /\ \A k \in 1 .. Len(q) - 1 : p[k] = q[k + 1]
    OBVIOUS
  <1> HIDE DEF p
  <1>2. ASSUME NEW k \in DOMAIN q, k # 1
        PROVE  k - 1 \in DOMAIN p /\ p[k - 1] = q[k]
    BY <1>1, <1>2
  <1> QED BY <1>1, <1>2 DEF Calls, p

LEMMA RunsAppend ==
    ASSUME NEW q \in Seq(Handler), NEW h \in Handler, Runs(q), h.k = "run" => h.st \in Available
    PROVE  Runs(Append(q, h))
  BY DEF Runs

LEMMA RunsTail ==
    ASSUME NEW q \in Seq(Handler), q # <<>>, Runs(q)
    PROVE  Runs(Tail(q)) /\ (Head(q).k = "run" => Head(q).st \in Available)
  <1>1. Len(q) \in Nat \ {0} /\ DOMAIN q = 1 .. Len(q) /\ DOMAIN Tail(q) = 1 .. Len(q) - 1
        /\ Head(q) = q[1] /\ \A k \in 1 .. Len(q) - 1 : Tail(q)[k] = q[k + 1]
    OBVIOUS
  <1> QED BY <1>1 DEF Runs

LEMMA SpareKept ==
    ASSUME TypeInv, NEW t \in Thread, NEW r, Leaves(t, r),
           \A p \in Calls(posted) : p \in Calls(posted') \/ (r.p = p /\ r.f = None),
           NEW x \in Spare,
           x # thr[t].p \/ thr[t].f # None \/ (r.p = x /\ r.f = None)
    PROVE  x \in Spare'
  <1>1. \A u \in Thread : thr'[u] = IF u = t THEN r ELSE thr[u]
    BY Sames DEF Leaves
  <1>2. Spare' = Calls(posted') \cup {p \in Id : \E u \in Thread : thr'[u].p = p /\ thr'[u].f = None}
    BY DEF Spare, Calls, Id
  <1> QED BY <1>1, <1>2 DEF Spare, Calls

\* A thread that another leaves alone, with what it counts on.
Spared(u) ==
    /\ thr'[u] = thr[u]
    /\ thr[u].f # None =>
         /\ fut'[thr[u].f].promise = fut[thr[u].f].promise
         /\ fut'[thr[u].f].local = fut[thr[u].f].local
         /\ fut[thr[u].f].promise # None =>
              /\ prom'[fut[thr[u].f].promise].local = prom[fut[thr[u].f].promise].local
              /\ fut[thr[u].f].promise \in Spare => fut[thr[u].f].promise \in Spare'
    /\ thr[u].at = "store" => prom'[thr[u].p].ptr = prom[thr[u].p].ptr
    /\ thr[u].at = "destroy" => prom'[thr[u].p].task \in {prom[thr[u].p].task, None}

LEMMA SoundKept ==
    ASSUME TypeInv, NEW u \in Thread, Sound(thr[u]), Spared(u)
    PROVE  Sound(thr[u])'
  <1> DEFINE r == thr[u]
             x == fut[r.f].promise
  <1>1. Equipped(r) /\ r.f \in Id \cup {None} /\ None \notin Id
    BY Sames, Numbers DEF ThreadState
  <1>2. r.at \in {"hold", "look", "peeked", "placed", "attach", "collect",
                 "moving", "moved", "relink"} => r.f # None
    BY <1>1 DEF Equipped
  <1>3. thr'[u] = r
    BY DEF Spared
  <1>4. r.f # None => fut'[r.f].promise = x /\ fut'[r.f].local = fut[r.f].local
                      /\ Where(r.f)' = Where(r.f) /\ Now(r.f)' = Now(r.f)
    BY <1>3 DEF Spared, Where, Now
  <1> QED BY <1>2, <1>3, <1>4 DEF Sound, Spared

-----------------------------------------------------------------------------
(* Steps in which a thread minds its own business.                         *)

MovesOn(t, r) ==
    /\ Leaves(t, r)
    /\ r.f = thr[t].f /\ r.p = thr[t].p
    /\ r.at \in {"ready", "destroy"} <=> thr[t].at \in {"ready", "destroy"}
    /\ UNCHANGED <<posted, prom, next, fault>>
    /\ \A f \in Id : fut'[f].promise = fut[f].promise /\ fut'[f].local = fut[f].local

LEMMA OnlyThread ==
    ASSUME TypeInv, MakerInv, Straight, TypeInv', NEW t \in Thread, NEW r,
           MovesOn(t, r), Sound(r)
    PROVE  MakerInv' /\ Straight'
  <1> USE DEF MovesOn
  <1>1. \A u \in Thread : thr'[u] = IF u = t THEN r ELSE thr[u]
    BY Sames DEF Leaves
  <1>2. MakerInv' /\ Makers' \subseteq Makers
    <2>1. OneThen' /\ Promised' \subseteq Promised
      BY ThenStays DEF MakerInv
    <2>2. Posts1(posted)
      BY DEF Posts1
    <2> QED BY <2>1, <2>2, MakersStay
  <1>3. Alive'
    BY <1>2 DEF Straight, Alive, Id
  <1>4. \A u \in Thread : thr'[u].f = thr[u].f /\ thr'[u].p = thr[u].p
    BY <1>1
  <1>5. InHand' = InHand
    <2>1. InHand' = {i \in Id : \E u \in Thread : thr'[u].f = i}
      BY DEF InHand, Id
    <2> QED BY <1>4, <2>1 DEF InHand
  <1>6. Linking'
    BY <1>5, Sames DEF Straight, Linking, Id, Promise
  <1>7. \A p \in Id : Done(p)' <=> Done(p)
    BY <1>1 DEF Done
  <1>8. Content'
    BY <1>7 DEF Straight, Content, Id
  <1>9. Spare' = Spare
    <2>1. Spare' = Calls(posted') \cup {p \in Id : \E u \in Thread : thr'[u].p = p /\ thr'[u].f = None}
      BY DEF Spare, Calls, Id
    <2> QED BY <1>4, <2>1 DEF Spare
  <1>10. ASSUME NEW u \in Thread PROVE Sound(thr[u])'
    <2>0. thr[u].f \in Id \cup {None} /\ thr[t].f \in Id \cup {None}
      BY Sames DEF ThreadState
    <2>1. CASE u # t
      <3>1. Spared(u)
        BY <1>1, <1>9, <2>0, <2>1 DEF Spared
      <3> QED BY <3>1, SoundKept DEF Straight
    <2>2. CASE u = t
      <3>1. thr'[u] = r
        BY <1>1, <2>2
      <3>2. r.f # None => /\ fut'[r.f].promise = fut[r.f].promise
                          /\ fut'[r.f].local = fut[r.f].local
                          /\ Where(r.f)' = Where(r.f) /\ Now(r.f)' = Now(r.f)
        BY <2>0, <3>1 DEF Where, Now
      <3>3. Equipped(r) /\ None \notin Id
        BY <3>1, Numbers DEF TypeInv
      <3>4. r.at \in {"look", "peeked", "placed", "attach", "collect", "relink"} => r.f # None
        BY <3>3 DEF Equipped
      <3>5. Sound(r)
        OBVIOUS
      <3> HIDE DEF MovesOn
      <3>6. prom' = prom
        BY DEF MovesOn
      <3> QED BY <1>9, <3>1, <3>2, <3>4, <3>5, <3>6 DEF Sound
    <2> QED BY <2>1, <2>2
  <1>11. Runs(posted') /\ fault' = "none"
    BY DEF Straight
  <1> QED BY <1>2, <1>3, <1>6, <1>8, <1>10, <1>11 DEF Straight, Runs

\* Use and Look see where the state is, or that they must follow a promise.
LEMMA PeekSound ==
    ASSUME NEW r \in ThreadState, r.at \in {"hold", "look"}, r.f \in Id, Sound(r),
           NEW s, s = Peek(r)
    PROVE  Sound(s) /\ s.f = r.f /\ s.p = r.p /\ s.at \in {"placed", "peeked"}
  <1>1. None \notin Id
    BY Numbers
  <1>2. CASE fut[r.f].promise = None
    <2>1. s = [r EXCEPT !.at = "placed", !.place = [in |-> "future", id |-> r.f]]
      BY <1>2 DEF Peek
    <2>2. /\ s.at = "placed" /\ s.f = r.f /\ s.p = r.p /\ s.stage = r.stage
          /\ s.place = [in |-> "future", id |-> r.f]
      BY <2>1 DEF ThreadState
    <2> QED BY <1>1, <1>2, <2>2 DEF Sound, Where, Now
  <1>3. CASE fut[r.f].promise # None
    <2>1. s = [r EXCEPT !.at = "peeked"]
      BY <1>3 DEF Peek
    <2>2. s.at = "peeked" /\ s.f = r.f /\ s.p = r.p /\ s.stage = r.stage
      BY <2>1 DEF ThreadState
    <2> QED BY <1>3, <2>2 DEF Sound
  <1> QED BY <1>2, <1>3

LEMMA UseMoves ==
    ASSUME TypeInv, MakerInv, Straight, NEW t \in Thread,
           NEW op \in {"get", "then", "wrapped"}, Use(t, op)
    PROVE  \E r : MovesOn(t, r) /\ Sound(r)
  <1> DEFINE s == [thr[t] EXCEPT !.op = op]
             r == Peek(s)
  <1>1. thr[t] \in ThreadState /\ thr[t].f \in Id /\ thr[t].at = "hold" /\ Sound(thr[t])
    BY Sames DEF Use, At, Equipped, Straight
  <1>2. /\ s \in ThreadState /\ s.f = thr[t].f /\ s.p = thr[t].p /\ s.at = thr[t].at
        /\ s.stage = thr[t].stage
    BY <1>1 DEF ThreadState
  <1>3. Sound(s)
    BY <1>1, <1>2 DEF Sound
  <1>4. Leaves(t, r)
    BY Sames DEF Use, Leaves
  <1> HIDE DEF s
  <1>5. Sound(r) /\ r.f = thr[t].f /\ r.p = thr[t].p /\ r.at \in {"placed", "peeked"}
    BY <1>1, <1>2, <1>3, PeekSound
  <1> HIDE DEF r
  <1>6. MovesOn(t, r)
    BY <1>1, <1>4, <1>5 DEF MovesOn, Use
  <1> QED BY <1>5, <1>6

LEMMA LookMoves ==
    ASSUME TypeInv, MakerInv, Straight, NEW t \in Thread, Look(t)
    PROVE  \E r : MovesOn(t, r) /\ Sound(r)
  <1> DEFINE r == Peek(thr[t])
  <1>1. thr[t] \in ThreadState /\ thr[t].f \in Id /\ thr[t].at = "look" /\ Sound(thr[t])
    BY Sames DEF Look, At, Equipped, Straight
  <1>2. Leaves(t, r)
    BY Sames DEF Look, Leaves
  <1>3. Sound(r) /\ r.f = thr[t].f /\ r.p = thr[t].p /\ r.at \in {"placed", "peeked"}
    BY <1>1, PeekSound
  <1> HIDE DEF r
  <1>4. MovesOn(t, r)
    BY <1>1, <1>2, <1>3 DEF MovesOn, Look
  <1> QED BY <1>3, <1>4

LEMMA FollowMoves ==
    ASSUME TypeInv, MakerInv, Straight, NEW t \in Thread, Follow(t)
    PROVE  \E r : MovesOn(t, r) /\ Sound(r)
  <1> DEFINE f == thr[t].f
             p == fut[f].promise
             r == [thr[t] EXCEPT !.at = "placed", !.place = [in |-> prom[p].ptr, id |-> p]]
  <1>1. thr[t] \in ThreadState /\ f \in Id /\ thr[t].at = "peeked" /\ Sound(thr[t])
    BY Sames DEF Follow, At, Equipped, Straight
  <1>2. p # None
    BY <1>1 DEF Sound
  <1>3. prom[p].ptr = "promise"
    BY <1>1, <1>2, LinkedView
  <1>4. Leaves(t, r) /\ UNCHANGED <<posted, prom, fut, next, fault>>
    BY <1>2, Sames DEF Follow, Leaves
  <1>5. /\ r.at = "placed" /\ r.f = f /\ r.p = thr[t].p /\ r.stage = thr[t].stage
        /\ r.place = Where(f)
    BY <1>1, <1>2, <1>3 DEF ThreadState, Where
  <1> HIDE DEF r
  <1>6. Sound(r)
    BY <1>1, <1>5 DEF Sound
  <1>7. MovesOn(t, r)
    BY <1>1, <1>4, <1>5 DEF MovesOn
  <1> QED BY <1>6, <1>7

LEMMA JudgeMoves ==
    ASSUME TypeInv, MakerInv, Straight, NoCross, NEW t \in Thread, Judge(t)
    PROVE  \E r : MovesOn(t, r) /\ Sound(r)
  <1> DEFINE f == thr[t].f
             v == Seen(t)
             r == IF thr[t].op = "get"
                  THEN [thr[t] EXCEPT !.at = IF v \in Available THEN "collect" ELSE "look"]
                  ELSE IF v \in Available THEN [thr[t] EXCEPT !.at = "look", !.stage = "take"]
                  ELSE IF thr[t].op = "forward" THEN [thr[t] EXCEPT !.at = "relink"]
                  ELSE IF thr[t].stage = "first"
                       THEN [thr[t] EXCEPT !.at = "look", !.stage = "second"]
                  ELSE [thr[t] EXCEPT !.at = "attach"]
  <1>1. thr[t] \in ThreadState /\ f \in Id /\ thr[t].at = "placed" /\ Sound(thr[t])
        /\ thr[t].stage # "take"
    BY Sames DEF Judge, At, Equipped, Straight
  <1>2. v = Now(f) /\ v # "gone"
    BY <1>1, ReadWhere, SeesThere DEF Sound, State
  <1>3. Leaves(t, r) /\ UNCHANGED <<posted, prom, fut, next, fault>>
    BY <1>2, Sames DEF Judge, Leaves
  <1>4. v \notin Available => fut[f].promise # None
    BY <1>1, <1>2, Numbers DEF Sound, Now
  <1>5. r.f = f /\ r.p = thr[t].p /\ r.at \in {"collect", "look", "relink", "attach"}
    BY <1>1 DEF ThreadState
  <1>6. /\ r.at = "collect" => v \in Available
        /\ r.at = "look" /\ r.stage = "take" => v \in Available
        /\ r.at \in {"relink", "attach"} => v \notin Available
    BY <1>1 DEF ThreadState
  <1> HIDE DEF r, v
  <1>7. Sound(r)
    BY <1>1, <1>2, <1>4, <1>5, <1>6 DEF Sound
  <1>8. MovesOn(t, r)
    BY <1>1, <1>3, <1>5 DEF MovesOn
  <1> QED BY <1>7, <1>8

LEMMA HoldMoves ==
    ASSUME TypeInv, MakerInv, Straight, NEW t \in Thread, Hold(t)
    PROVE  \E r : MovesOn(t, r) /\ Sound(r)
  <1> DEFINE r == [thr[t] EXCEPT !.at = "moved"]
  <1>1. thr[t] \in ThreadState /\ thr[t].f \in Id /\ thr[t].at = "moving" /\ Sound(thr[t])
    BY Sames DEF Hold, At, Equipped, Straight
  <1>2. r.f = thr[t].f /\ r.p = thr[t].p /\ r.at = "moved" /\ r.stage = thr[t].stage
    BY <1>1 DEF ThreadState
  <1>3. Leaves(t, r)
    BY Sames DEF Hold, Leaves
  <1>4. \A f \in Id : fut'[f].promise = fut[f].promise /\ fut'[f].local = fut[f].local
    BY Sames DEF Hold, Future
  <1> HIDE DEF r
  <1>5. Sound(r)
    BY <1>1, <1>2 DEF Sound
  <1>6. MovesOn(t, r)
    BY <1>1, <1>2, <1>3, <1>4 DEF MovesOn, Hold
  <1> QED BY <1>5, <1>6

LEMMA MovedMoves ==
    ASSUME TypeInv, MakerInv, Straight, NEW t \in Thread, Moved(t)
    PROVE  \E r : MovesOn(t, r) /\ Sound(r)
  <1> DEFINE r == IF thr[t].p = None THEN [Idle EXCEPT !.at = "hold", !.f = thr[t].f]
                  ELSE [thr[t] EXCEPT !.at = "look"]
  <1>1. thr[t] \in ThreadState /\ thr[t].f \in Id /\ thr[t].at = "moved" /\ Sound(thr[t])
    BY Sames DEF Moved, At, Equipped, Straight
  <1>2. r.f = thr[t].f /\ r.p = thr[t].p /\ r.at \in {"hold", "look"} /\ r.stage # "take"
    BY <1>1 DEF ThreadState, Idle, Sound
  <1>3. Leaves(t, r)
    BY Sames DEF Moved, Leaves
  <1>4. \A f \in Id : fut'[f].promise = fut[f].promise /\ fut'[f].local = fut[f].local
    BY Sames DEF Moved, Future
  <1> HIDE DEF r
  <1>5. Sound(r)
    BY <1>1, <1>2 DEF Sound
  <1>6. MovesOn(t, r)
    BY <1>1, <1>2, <1>3, <1>4 DEF MovesOn, Moved
  <1> QED BY <1>5, <1>6

LEMMA BlockMoves ==
    ASSUME TypeInv, MakerInv, Straight, NEW t \in Thread, Block(t)
    PROVE  \E r : MovesOn(t, r) /\ Sound(r)
  <1> DEFINE r == thr[t]
  <1>1. Leaves(t, r)
    BY Sames DEF Block, Leaves
  <1>2. MovesOn(t, r) /\ Sound(r)
    BY <1>1 DEF MovesOn, Block, Straight
  <1> QED BY <1>2

LEMMA MoveInMoves ==
    ASSUME TypeInv, MakerInv, Straight, NEW t \in Thread, MoveIn(t)
    PROVE  \E r : MovesOn(t, r) /\ Sound(r)
  <1>1. PICK out \in Available : thr' = [thr EXCEPT ![t].at = "point", ![t].out = out]
    BY DEF MoveIn
  <1> DEFINE r == [thr[t] EXCEPT !.at = "point", !.out = out]
  <1>2. thr[t] \in ThreadState /\ thr[t].at = "pmove" /\ Sound(thr[t])
    BY Sames DEF MoveIn, At, Straight
  <1>3. r.f = thr[t].f /\ r.p = thr[t].p /\ r.at = "point"
    BY <1>2 DEF ThreadState
  <1>4. Leaves(t, r)
    BY <1>1, Sames DEF Leaves
  <1> HIDE DEF r
  <1>5. Sound(r)
    BY <1>2, <1>3 DEF Sound
  <1>6. MovesOn(t, r)
    BY <1>2, <1>3, <1>4 DEF MovesOn, MoveIn
  <1> QED BY <1>5, <1>6

LEMMA PointMoves ==
    ASSUME TypeInv, MakerInv, Straight, NEW t \in Thread, Point(t)
    PROVE  \E r : MovesOn(t, r) /\ Sound(r)
  <1> DEFINE p == thr[t].p
             r == [thr[t] EXCEPT !.at = "store", !.place = [in |-> prom[p].ptr, id |-> p]]
  <1>1. thr[t] \in ThreadState /\ thr[t].at = "point" /\ Sound(thr[t])
    BY Sames DEF Point, At, Straight
  <1>2. r.f = thr[t].f /\ r.p = thr[t].p /\ r.at = "store"
        /\ r.place = [in |-> prom[p].ptr, id |-> p]
    BY <1>1 DEF ThreadState
  <1>3. Leaves(t, r)
    BY Sames DEF Point, Leaves
  <1> HIDE DEF r
  <1>4. Sound(r)
    BY <1>1, <1>2 DEF Sound
  <1>5. MovesOn(t, r)
    BY <1>1, <1>2, <1>3 DEF MovesOn, Point
  <1> QED BY <1>4, <1>5

LEMMA QuietMoves ==
    ASSUME TypeInv, MakerInv, Straight, NoCross, NEW t \in Thread,
           \/ \E op \in {"get", "then", "wrapped"} : Use(t, op)
           \/ Look(t) \/ Follow(t) \/ Judge(t) \/ Hold(t) \/ Moved(t)
           \/ Block(t) \/ MoveIn(t) \/ Point(t)
    PROVE  \E r : MovesOn(t, r) /\ Sound(r)
  BY UseMoves, LookMoves, FollowMoves, JudgeMoves, HoldMoves, MovedMoves, BlockMoves,
     MoveInMoves, PointMoves

-----------------------------------------------------------------------------
(* Steps in which a thread parts with its future, or with none, and other  *)
(* futures and the promises they are linked to stay as they are.           *)

\* Promise y is that of the future thread t has in hand.
Own(t, y) == thr[t].f \in Id /\ fut[thr[t].f].promise = y

PartsFuture(t, r) ==
    /\ Leaves(t, r)
    /\ thr[t].f \in Id => fut'[thr[t].f].promise = None
    /\ r.f \in {None, next}
    /\ \A g \in Id : g # thr[t].f /\ g # next => fut'[g] = fut[g]

PartsPromise(t, y) ==
    /\ y \in Makers' => prom'[y].alive
    /\ prom'[y].alive => prom[y].alive
    /\ prom'[y].future = IF Own(t, y) THEN None ELSE prom[y].future
    /\ ~Own(t, y) /\ prom[y].future # None =>
         prom'[y].local = prom[y].local /\ prom'[y].alive
    /\ prom'[y].alive => /\ Done(y)' => Fulfilled(prom'[y])
                         /\ ~Done(y)' => Fresh(prom'[y])

\* The other threads that have promise y.
PartsOthers(t, y) ==
    \A u \in Thread : u # t /\ thr[u].p = y =>
       /\ thr[u].at = "store" => prom'[y].ptr = prom[y].ptr
       /\ thr[u].at = "destroy" => prom'[y].task \in {prom[y].task, None}

\* The next future is not made, is made ready, or is linked to a new promise.
NextUnmade == next' = next /\ (next \in Id => prom'[next] = prom[next] /\ fut'[next] = fut[next])
NextReady ==
    /\ next' = next + 1 /\ next \in Id
    /\ prom'[next] = prom[next]
    /\ fut'[next].promise = None /\ fut'[next].local \in Available
NextLinked ==
    /\ next' = next + 1 /\ next \in Id
    /\ prom'[next] = NewPromise(next) /\ fut'[next] = Linked(next)

PartsPosted(t, r) ==
    /\ \A p \in Calls(posted) : p \in Calls(posted') \/ (r.p = p /\ r.f = None)
    /\ thr[t].p \in Id /\ thr[t].f = None /\ (r.p # thr[t].p \/ r.f # None)
          => prom[thr[t].p].future = None
    /\ Runs(posted')

Parts(t, r) ==
    /\ PartsFuture(t, r)
    /\ \A y \in Id \ {next} : PartsPromise(t, y) /\ PartsOthers(t, y)
    /\ \/ NextUnmade /\ r.f = None /\ next \notin Makers'
       \/ NextReady /\ r.f = next /\ next \notin Makers'
       \/ NextLinked /\ r.f = next
    /\ PartsPosted(t, r)

LEMMA PartsStraight ==
    ASSUME TypeInv, TokenInv, MakerInv, Straight, TypeInv', MakerInv', NEW t \in Thread, NEW r,
           Parts(t, r), Sound(thr[t])', fault' = "none", r.at \notin {"ready", "destroy"} \/ r.f = None
    PROVE  Straight'
  <1> DEFINE f == thr[t].f
  <1>1. /\ \A u \in Thread : thr'[u] = IF u = t THEN r ELSE thr[u]
        /\ thr[t].f \in Id \cup {None} /\ None \notin Id
        /\ next \in Nat /\ Id \subseteq Nat /\ next # None
    BY Sames, Numbers, NewIsFresh DEF Parts, PartsFuture, Leaves, ThreadState
  <1>0. r.f = None \/ r.at \notin {"ready", "destroy"}
    OBVIOUS
  <1>2. /\ next \in Id => /\ ~prom[next].alive /\ prom[next].future = None
                          /\ fut[next].promise = None
        /\ \A g \in Id : fut[g].promise # next
    <2>1. \A p \in Id : prom[p].alive => p # next
      BY <1>1 DEF Straight, Alive
    <2>2. next \in Id => fut[next].promise = None
      BY NewIsFresh DEF Straight, Linking
    <2>3. \A g \in Id : fut[g].promise # next
      BY <1>1, LinkedView
    <2> QED BY <2>1, <2>2, <2>3 DEF Straight, Alive
  <1>3. /\ ~Done(next)
        /\ \A p \in Id : p = next => ~Done(p)'
    <2>1. \A u \in Thread : thr[u].p # next
      BY NewIsUnmade
    <2>2. ~Done(next)
      BY <2>1 DEF Done
    <2>3. ASSUME next \in Id, NEW u \in Thread, thr'[u].p = next, thr'[u].at \in {"ready", "destroy"}
          PROVE  FALSE
      <3>1. u = t /\ r.p = next /\ r.at \in {"ready", "destroy"}
        BY <1>1, <2>1, <2>3
      <3>2. next \in Working'
        BY <2>3 DEF Working, Id
      <3>3. next \in Makers'
        BY <3>2 DEF Makers, Working, Id
      <3>4. r.f = None
        BY <1>0, <3>1
      <3>5. next \notin Makers'
        BY <1>1, <3>4 DEF Parts
      <3> QED BY <3>3, <3>5
    <2>4. \A p \in Id : Done(p)' <=> \E u \in Thread : thr'[u].p = p /\ thr'[u].at \in {"ready", "destroy"}
      BY DEF Done
    <2> QED BY <2>2, <2>3, <2>4
  <1>4. next' \in {next, next + 1} /\ (next \in Id /\ next' = next => next \notin Makers')
    <2>1. next + 1 # next
      BY <1>1
    <2> QED BY <2>1 DEF Parts, NextUnmade, NextReady, NextLinked
  <1>5. next \in Id => \/ prom'[next] = prom[next] /\ next \notin Makers'
                       \/ prom'[next] = NewPromise(next) /\ next' = next + 1
    BY DEF Parts, NextUnmade, NextReady, NextLinked
  <1>6. /\ NewPromise(next).alive /\ NewPromise(next).future = next /\ Fresh(NewPromise(next))
        /\ Linked(next).promise = next
    BY DEF NewPromise, Fresh, Linked
  <1>7. Alive'
    <2> SUFFICES ASSUME NEW p \in Id
                 PROVE  /\ p \in Makers' => prom'[p].alive
                        /\ prom'[p].future # None => prom'[p].alive
                        /\ prom'[p].alive => p < next'
      BY DEF Alive, Id
    <2>1. CASE p = next
      BY <1>1, <1>2, <1>5, <1>6, <2>1
    <2>2. CASE p # next
      <3>1. PartsPromise(t, p)
        BY <2>2 DEF Parts
      <3>2. /\ prom[p].future # None => prom[p].alive
            /\ prom[p].alive => p < next
        BY DEF Straight, Alive
      <3> QED BY <1>1, <1>4, <3>1, <3>2 DEF PartsPromise
    <2> QED BY <2>1, <2>2
  <1>8. Content'
    <2> SUFFICES ASSUME NEW p \in Id, prom'[p].alive
                 PROVE  /\ Done(p)' => Fulfilled(prom'[p])
                        /\ ~Done(p)' => Fresh(prom'[p])
      BY DEF Content, Id
    <2>1. CASE p = next
      <3>1. next \in Id /\ ~Done(p)'
        BY <1>3, <2>1
      <3>2. prom'[p] = NewPromise(next)
        BY <1>2, <1>5, <2>1, <3>1
      <3> QED BY <1>6, <3>1, <3>2
    <2>2. CASE p # next
      BY <2>2 DEF Parts, PartsPromise
    <2> QED BY <2>1, <2>2
  <1>9. /\ \A g \in InHand : g # f => g \in InHand'
        /\ r.f \in Id => r.f \in InHand'
    <2>1. InHand' = {i \in Id : \E u \in Thread : thr'[u].f = i}
      BY DEF InHand, Id
    <2> QED BY <1>1, <2>1 DEF InHand
  <1>10. f # next
    BY NewIsFresh
  <1>11. \A y \in Id : y # next =>
            prom'[y].future = IF Own(t, y) THEN None ELSE prom[y].future
    BY DEF Parts, PartsPromise
  <1>12. /\ f \in Id => fut'[f].promise = None
         /\ \A g \in Id : g # f /\ g # next => fut'[g] = fut[g]
    BY DEF Parts, PartsFuture
  <1>13. next \in Id => \/ prom'[next].future = None /\ fut'[next].promise = None
                        \/ prom'[next].future = next /\ fut'[next].promise = next /\ r.f = next
    BY <1>2, <1>6 DEF Parts, NextUnmade, NextReady, NextLinked
  <1>14. Linking'
    <2>1. ASSUME NEW g \in Id, fut'[g].promise # None
          PROVE  prom'[fut'[g].promise].future = g /\ g \in InHand'
      <3>1. CASE g = next
        BY <1>9, <1>13, <2>1, <3>1
      <3>2. CASE g # next
        <4>1. g # f /\ fut'[g] = fut[g]
          BY <1>12, <2>1, <3>2
        <4>2. fut[g].promise \in Id /\ fut[g].promise # next /\ prom[fut[g].promise].future = g
              /\ g \in InHand
          BY <2>1, <4>1, LinkedView
        <4>3. ~Own(t, fut[g].promise)
          <5>1. SUFFICES ASSUME f \in Id, fut[f].promise = fut[g].promise PROVE FALSE
            BY DEF Own
          <5>2. prom[fut[f].promise].future = f
            BY <2>1, <4>1, <5>1, LinkedView
          <5> QED BY <4>1, <4>2, <5>1, <5>2
        <4> QED BY <1>9, <1>11, <4>1, <4>2, <4>3
      <3> QED BY <3>1, <3>2
    <2>2. ASSUME NEW p \in Id, prom'[p].future # None
          PROVE  fut'[prom'[p].future].promise = p
      <3>1. CASE p = next
        BY <1>13, <2>2, <3>1
      <3>2. CASE p # next
        <4>1. ~Own(t, p) /\ prom'[p].future = prom[p].future /\ prom[p].future # None
          BY <1>11, <2>2, <3>2
        <4>2. fut[prom[p].future].promise = p /\ prom[p].future \in Id
          BY <4>1, Sames DEF Straight, Linking, Promise
        <4>3. prom[p].future # f
          BY <4>1, <4>2 DEF Own
        <4>4. prom[p].future # next
          BY <1>1, <1>2, <4>2
        <4> QED BY <1>12, <4>1, <4>2, <4>3, <4>4
      <3> QED BY <3>1, <3>2
    <2> QED BY <2>1, <2>2 DEF Linking, Id
  <1>15. ASSUME NEW u \in Thread, u # t PROVE Sound(thr[u])'
    <2> DEFINE g == thr[u].f
               x == fut[g].promise
    <2>1. thr'[u] = thr[u] /\ g \in Id \cup {None} /\ thr[u].p \in Id \cup {None}
      BY <1>1, <1>15, Sames DEF ThreadState
    <2>2. g \in Id => g # f /\ g # next
      BY <1>15, NewIsFresh DEF TokenInv, OneHand
    <2>3. g \in Id => fut'[g] = fut[g]
      BY <1>12, <2>2
    <2>4. ASSUME g \in Id, x # None
          PROVE  prom'[x].local = prom[x].local /\ (x \in Spare => x \in Spare')
      <3>1. x \in Id /\ x # next /\ prom[x].future = g
        BY <2>4, LinkedView
      <3>2. ~Own(t, x)
        <4>1. SUFFICES ASSUME f \in Id, fut[f].promise = x PROVE FALSE
          BY DEF Own
        <4>2. prom[x].future = f
          BY <2>4, <4>1, LinkedView
        <4> QED BY <2>2, <2>4, <3>1, <4>2
      <3>3. prom'[x].local = prom[x].local
        BY <1>1, <2>4, <3>1, <3>2 DEF Parts, PartsPromise
      <3>4. ASSUME x \in Spare PROVE x \in Spare'
        <4>1. \A p \in Calls(posted) : p \in Calls(posted') \/ (r.p = p /\ r.f = None)
          BY DEF Parts, PartsPosted
        <4>2. x # thr[t].p \/ f # None \/ (r.p = x /\ r.f = None)
          BY <1>1, <2>4, <3>1 DEF Parts, PartsPosted
        <4>3. Leaves(t, r)
          BY DEF Parts, PartsFuture
        <4> HIDE DEF x
        <4> QED BY <3>4, <4>1, <4>2, <4>3, SpareKept
      <3> QED BY <3>3, <3>4
    <2>5. Equipped(thr[u])
      BY Sames
    <2>6. thr[u].at \in {"store", "destroy"} => thr[u].p \in Id /\ thr[u].p # next
      BY <2>5, NewIsUnmade DEF Equipped
    <2>7. thr[u].p \in Id /\ thr[u].p # next => PartsOthers(t, thr[u].p)
      BY DEF Parts
    <2>8. /\ thr[u].at = "store" => prom'[thr[u].p].ptr = prom[thr[u].p].ptr
          /\ thr[u].at = "destroy" => prom'[thr[u].p].task \in {prom[thr[u].p].task, None}
      BY <1>15, <2>6, <2>7 DEF PartsOthers
    <2>9. Spared(u)
      BY <1>1, <2>1, <2>3, <2>4, <2>8 DEF Spared
    <2> QED BY <2>9, SoundKept DEF Straight
  <1>16. Runs(posted)'
    BY DEF Parts, PartsPosted, Runs
  <1> QED BY <1>7, <1>8, <1>14, <1>15, <1>16 DEF Straight

-----------------------------------------------------------------------------
(* Consumers: they start a call, take the state of their future or let it  *)
(* be, and keep the promise they are to fulfil or have none.               *)

LetGo(t, y) ==
    IF Own(t, y)
    THEN /\ prom'[y].future = None /\ prom'[y].alive = prom[y].alive
         /\ prom'[y].ptr = prom[y].ptr /\ prom'[y].task = prom[y].task
         /\ prom'[y].taskState = prom[y].taskState
         /\ prom'[y].local = prom[y].local \/ Now(thr[t].f) \in Available
    ELSE prom'[y] = prom[y]

Consumes(t, r) ==
    /\ PartsFuture(t, r)
    /\ r.p \in {thr[t].p, None}
    /\ thr[t].f = None => thr[t].p = None
    /\ thr[t].at \notin {"ready", "destroy"} /\ r.at \notin {"ready", "destroy"}
    /\ \A y \in Id \ {next} : LetGo(t, y)
    /\ \/ NextUnmade /\ r.f = None
       \/ NextReady /\ r.f = next
       \/ NextLinked /\ r.f = next
    /\ Calls(posted) \subseteq Calls(posted')
    /\ Runs(posted')

LEMMA LetGoParts ==
    ASSUME TypeInv, MakerInv, Straight, NEW t \in Thread, NEW y \in Id \ {next},
           LetGo(t, y), Done(y)' <=> Done(y), Makers' \subseteq Makers \cup {next}
    PROVE  PartsPromise(t, y) /\ PartsOthers(t, y)
  <1>1. (y \in Makers => prom[y].alive) /\ (prom[y].future # None => prom[y].alive)
        /\ (prom[y].alive => (Done(y) => Fulfilled(prom[y])) /\ (~Done(y) => Fresh(prom[y])))
    BY DEF Straight, Alive, Content
  <1>2. y \in Makers' => y \in Makers
    OBVIOUS
  <1>3. CASE ~Own(t, y)
    BY <1>1, <1>2, <1>3 DEF LetGo, PartsPromise, PartsOthers
  <1>4. CASE Own(t, y)
    <2>1. /\ prom[y].task = None /\ Now(thr[t].f) = prom[y].local
          /\ (~Done(y) => prom[y].local = "future")
      BY <1>4, Numbers, LinkedView DEF Own
    <2>2. /\ Fulfilled(prom'[y])
          /\ prom[y].alive /\ ~Done(y) => Fresh(prom'[y])
      BY <1>1, <1>4, <2>1 DEF LetGo, Fulfilled, Fresh, Available
    <2> QED BY <1>1, <1>2, <1>4, <2>2 DEF LetGo, PartsPromise, PartsOthers
  <1> QED BY <1>3, <1>4

LEMMA LetGoTasks ==
    ASSUME TypeInv, MakerInv, Straight, NEW t \in Thread, NEW r, Consumes(t, r)
    PROVE  \A x \in Id : prom'[x].task \in {prom[x].task, None}
  <1>1. \A y \in Id \ {next} : prom'[y].task = prom[y].task
    BY DEF Consumes, LetGo
  <1>2. next \in Id => prom'[next].task \in {prom[next].task, None}
    BY NoTasks DEF Consumes, NextUnmade, NextReady, NextLinked
  <1> QED BY <1>1, <1>2

LEMMA ConsumesStraight ==
    ASSUME TypeInv, TokenInv, MakerInv, Straight, TypeInv', NEW t \in Thread, NEW r,
           Consumes(t, r), Sound(thr[t])', fault' = "none",
           NEW base, base = posted \/ (posted # <<>> /\ base = Tail(posted)), Posts1(base),
           NextLinked \/ posted' = base
    PROVE  MakerInv' /\ Straight'
  <1>1. Leaves(t, r) /\ r.p \in {thr[t].p, None}
    BY DEF Consumes, PartsFuture
  <1>2. OneThen' /\ Promised' \subseteq Promised
    BY LetGoTasks, ThenStays DEF MakerInv
  <1>3. MakerInv' /\ Makers' \subseteq Makers \cup {next}
    BY <1>1, <1>2, MakersStay
  <1>4. ASSUME posted' = base PROVE next \notin Makers'
    <2>1. DueIn(base) \subseteq Pending
      BY PostedOnce
    <2>2. Pending' = DueIn(base) /\ Makers' = Working' \cup Pending' \cup Promised'
      BY <1>4 DEF Pending, Makers, Working, Promised, DueIn, Id
    <2>3. Working' \subseteq (Working \ {thr[t].p}) \cup {r.p}
      BY <1>1, NewIsUnmade, WorkMoves DEF MakerInv
    <2>4. r.p # next
      BY <1>1, NewIsUnmade
    <2> QED BY <1>2, <2>1, <2>2, <2>3, <2>4, NewIsUnmade DEF Makers
  <1>5. \A y \in Id : Done(y)' <=> Done(y)
    <2>1. OneWorker /\ OneWorker' /\ thr[t].at \notin {"ready", "destroy"}
          /\ r.at \notin {"ready", "destroy"}
      BY <1>3 DEF MakerInv, Consumes
    <2>2. \A p \in Id : p = thr[t].p => ~Done(p)
      BY <2>1, DoneIs
    <2>3. \A p \in Id : p # thr[t].p /\ p # r.p => (Done(p)' <=> Done(p))
      BY <1>1, <2>1, DoneMoves
    <2>4. \A p \in Id : p = r.p => ~Done(p)'
      BY <1>1, <2>1, DoneMoves
    <2>5. \A p \in Id : p = thr[t].p /\ p # r.p => ~Done(p)'
      BY <1>1, <2>1, DoneMoves
    <2> QED BY <1>1, <2>2, <2>3, <2>4, <2>5, Numbers
  <1>6. \A y \in Id \ {next} : PartsPromise(t, y) /\ PartsOthers(t, y)
    BY <1>3, <1>5, LetGoParts DEF Consumes
  <1>7. PartsPosted(t, r)
    BY Numbers DEF Consumes, PartsPosted
  <1>8. Parts(t, r)
    <2>1. \/ NextUnmade /\ r.f = None /\ next \notin Makers'
          \/ NextReady /\ r.f = next /\ next \notin Makers'
          \/ NextLinked /\ r.f = next
      <3>1. CASE NextUnmade /\ r.f = None
        <4>1. next' = next
          BY <3>1 DEF NextUnmade
        <4>2. ~NextLinked
          BY <4>1, Numbers, Sames DEF NextLinked
        <4> QED BY <1>4, <3>1, <4>2
      <3>2. CASE (NextReady \/ NextLinked) /\ r.f = next
        BY <1>4, <3>2
      <3> QED BY <3>1, <3>2 DEF Consumes
    <2> QED BY <1>6, <1>7, <2>1 DEF Parts, Consumes
  <1>9. r.at \notin {"ready", "destroy"}
    BY DEF Consumes
  <1> QED BY <1>3, <1>8, <1>9, PartsStraight

\* A thread with a new future, and one with none.
LEMMA NewSound ==
    ASSUME TypeInv, NEW t \in Thread, NEW r, Leaves(t, r), NextReady \/ NextLinked,
           r.f = next, r.at \in {"hold", "look", "moving"}, r.stage = "first",
           r.p = None \/ next \in Calls(posted')
    PROVE  Sound(thr[t])'
  <1>1. thr'[t] = r
    BY Sames DEF Leaves
  <1>2. \/ fut'[next].promise = None /\ fut'[next].local \in Available
        \/ fut'[next].promise = next
    BY DEF NextReady, NextLinked, Linked
  <1>3. next \in Calls(posted') => next \in Spare'
    BY DEF Spare, Calls, Id
  <1>4. next # None
    BY FuturesAssumption, Sames, Numbers
  <1> QED BY <1>1, <1>2, <1>3, <1>4 DEF Sound

LEMMA RestSound ==
    ASSUME TypeInv, NEW t \in Thread, NEW r, Leaves(t, r), r.f = None,
           r.at \in {"idle", "pmove", "point"}, r.at = "idle" => r.p = None
    PROVE  Sound(thr[t])'
  <1>1. thr'[t] = r
    BY Sames DEF Leaves
  <1> QED BY <1>1 DEF Sound

\* What is left of the promises once future f has let its own go.
LEMMA WithoutOwn ==
    ASSUME TypeInv, MakerInv, Straight, NEW f \in Id, NEW y \in Id
    PROVE  /\ fut[f].promise = y =>
                /\ Unlinked(f)[y] = [prom[y] EXCEPT !.future = None]
                /\ PromWithout(f, Where(f))[y]
                     = [prom[y] EXCEPT !.future = None, !.local = "invalid"]
           /\ fut[f].promise # y =>
                Unlinked(f)[y] = prom[y] /\ PromWithout(f, Where(f))[y] = prom[y]
           /\ Unlinked(f) \in [Id -> Promise] /\ PromWithout(f, Where(f)) \in [Id -> Promise]
  <1>1. prom \in [Id -> Promise] /\ None \notin Id
    BY Sames, Numbers
  <1>2. Unlinked(f) \in [Id -> Promise] /\ PromWithout(f, Where(f)) \in [Id -> Promise]
    BY UnlinkedTyped, ReadWhere
  <1>3. CASE fut[f].promise = None
    BY <1>1, <1>2, <1>3 DEF Unlinked, PromWithout, Where
  <1>4. CASE fut[f].promise # None
    <2> DEFINE p == fut[f].promise
    <2>1. p \in Id
      BY <1>4, LinkedView
    <2>2. Unlinked(f) = [prom EXCEPT ![p].future = None]
      BY <1>4 DEF Unlinked
    <2>3. PromWithout(f, Where(f)) = [Unlinked(f) EXCEPT ![p].local = "invalid"]
      BY <1>4 DEF PromWithout, Where
    <2>4. /\ Unlinked(f)[p] = [prom[p] EXCEPT !.future = None]
          /\ p # y => Unlinked(f)[y] = prom[y]
      BY <1>1, <2>1, <2>2
    <2>5. /\ PromWithout(f, Where(f))[p] = [Unlinked(f)[p] EXCEPT !.local = "invalid"]
          /\ p # y => PromWithout(f, Where(f))[y] = Unlinked(f)[y]
      BY <1>2, <2>1, <2>3
    <2>6. [[prom[p] EXCEPT !.future = None] EXCEPT !.local = "invalid"]
            = [prom[p] EXCEPT !.future = None, !.local = "invalid"]
      OBVIOUS
    <2> QED BY <1>2, <2>4, <2>5, <2>6
  <1> QED BY <1>3, <1>4

LEMMA LetsGoOf ==
    ASSUME TypeInv, MakerInv, Straight, NEW t \in Thread, thr[t].f \in Id, NEW y \in Id,
           \/ prom'[y] = Unlinked(thr[t].f)[y]
           \/ /\ prom'[y] = PromWithout(thr[t].f, Where(thr[t].f))[y]
              /\ Now(thr[t].f) \in Available
    PROVE  LetGo(t, y)
  <1>1. prom[y] \in Promise
    BY Sames
  <1> DEFINE c == [prom[y] EXCEPT !.future = None]
             d == [prom[y] EXCEPT !.future = None, !.local = "invalid"]
  <1>2. /\ c.future = None /\ c.alive = prom[y].alive /\ c.ptr = prom[y].ptr
        /\ c.task = prom[y].task /\ c.taskState = prom[y].taskState /\ c.local = prom[y].local
        /\ d.future = None /\ d.alive = prom[y].alive /\ d.ptr = prom[y].ptr
        /\ d.task = prom[y].task /\ d.taskState = prom[y].taskState
    BY <1>1 DEF Promise
  <1>5. fut[thr[t].f].promise = y =>
          prom'[y] = c \/ (prom'[y] = d /\ Now(thr[t].f) \in Available)
    BY WithoutOwn
  <1> HIDE DEF c, d
  <1>3. fut[thr[t].f].promise = y => LetGo(t, y)
    BY <1>2, <1>5 DEF LetGo, Own
  <1>4. fut[thr[t].f].promise # y => LetGo(t, y)
    BY WithoutOwn DEF LetGo, Own
  <1> QED BY <1>3, <1>4

\* No future is linked to the next promise, nor is the next future in hand.
LEMMA NextOwned ==
    ASSUME TypeInv, TokenInv, MakerInv, Straight, NEW t \in Thread
    PROVE  ~Own(t, next) /\ thr[t].f # next /\ thr[t].f \in Id \cup {None} /\ next # None
           /\ next \in Nat
  <1>1. thr[t].f \in Id \cup {None} /\ None \notin Id /\ next # None
    BY Sames, Numbers, NewIsUnmade DEF ThreadState
  <1>2. thr[t].f # next
    BY NewIsFresh
  <1>3. ~Own(t, next)
    BY <1>1, LinkedView DEF Own
  <1> QED BY <1>1, <1>2, <1>3, Sames

LEMMA BeginStraight ==
    ASSUME TypeInv, TokenInv, MakerInv, Straight, TypeInv', NEW t \in Thread, Begin(t)
    PROVE  MakerInv' /\ Straight'
  <1> DEFINE r == [Idle EXCEPT !.at = "hold", !.f = next]
             h == [k |-> "produce", p |-> next]
             base == Tail(posted)
  <1>1. next \in Id /\ next # None /\ next \in Nat
    BY NextIsFree, NextOwned DEF Begin
  <1>2. thr[t].at = "idle" /\ thr[t].f = None /\ thr[t].p = None
    BY DEF Begin, At, Straight, Sound
  <1>3. Leaves(t, r) /\ r.f = next /\ r.p = None /\ r.at = "hold" /\ r.stage = "first"
    BY DEF Begin, Leaves, Idle
  <1>4. posted \in Seq(Handler) /\ posted # <<>> /\ Head(posted).k = "app" /\ base \in Seq(Handler)
    BY PostedOnce DEF Begin
  <1>5. h \in Handler /\ DueOf(h) = next
    BY <1>1, HandlerMade DEF DueOf
  <1>6. Calls(posted) \subseteq Calls(base) /\ Runs(base)
    BY <1>4, CallsTail, RunsTail DEF Straight
  <1> HIDE DEF r, base, h
  <1>7. fault' = "none" /\ next' = next + 1
    BY DEF Begin, Straight
  <1>8. ~Own(t, next) /\ \A y \in Id : ~Own(t, y)
    BY <1>2, Numbers, NextOwned DEF Own
  <1>9. CASE /\ posted' = Append(base, h)
             /\ prom' = [prom EXCEPT ![next] = NewPromise(next)]
             /\ fut' = [fut EXCEPT ![next] = Linked(next)]
    <2>1. NextLinked
      BY <1>1, <1>7, <1>9, Sames DEF NextLinked
    <2>2. Posts1(base)
      BY <1>5, <1>7, <1>9 DEF Posts1
    <2>3. Calls(posted) \subseteq Calls(posted') /\ Runs(posted')
      BY <1>4, <1>5, <1>6, <1>9, CallsAppend, RunsAppend DEF h
    <2>4. \A y \in Id \ {next} : LetGo(t, y)
      BY <1>8, <1>9, Sames DEF LetGo
    <2>5. PartsFuture(t, r)
      BY <1>2, <1>3, <1>9, Numbers, Sames DEF PartsFuture
    <2>6. Consumes(t, r)
      BY <1>2, <1>3, <2>1, <2>3, <2>4, <2>5 DEF Consumes
    <2>7. Sound(thr[t])'
      BY <1>3, <2>1, NewSound
    <2> QED BY <1>4, <1>7, <2>1, <2>2, <2>6, <2>7, ConsumesStraight DEF base
  <1>10. CASE /\ posted' = base
              /\ prom' = prom
              /\ fut' = [fut EXCEPT ![next] = ReadyFuture("exception")]
    <2>1. NextReady
      BY <1>1, <1>7, <1>10, Sames DEF NextReady, ReadyFuture, Available
    <2>2. Posts1(base)
      BY <1>7, <1>10 DEF Posts1
    <2>3. Calls(posted) \subseteq Calls(posted') /\ Runs(posted')
      BY <1>6, <1>10
    <2>4. \A y \in Id \ {next} : LetGo(t, y)
      BY <1>8, <1>10 DEF LetGo
    <2>5. PartsFuture(t, r)
      BY <1>2, <1>3, <1>10, Numbers, Sames DEF PartsFuture
    <2>6. Consumes(t, r)
      BY <1>2, <1>3, <2>1, <2>3, <2>4, <2>5 DEF Consumes
    <2>7. Sound(thr[t])'
      BY <1>3, <2>1, NewSound
    <2> QED BY <1>4, <1>7, <1>10, <2>2, <2>6, <2>7, ConsumesStraight DEF base
  <1> QED BY <1>9, <1>10 DEF Begin, base, h

\* A thread that is done with its future, and begins no call.
LEMMA LeavesFuture ==
    ASSUME TypeInv, TokenInv, MakerInv, Straight, TypeInv', NEW t \in Thread, NEW r,
           Leaves(t, r), thr[t].f \in Id, r.f = None, r.p \in {thr[t].p, None},
           thr[t].at \notin {"ready", "destroy"}, r.at \in {"idle", "point"},
           r.at = "idle" => r.p = None,
           \/ prom' = Unlinked(thr[t].f)
           \/ prom' = PromWithout(thr[t].f, Where(thr[t].f)) /\ Now(thr[t].f) \in Available,
           fut'[thr[t].f].promise = None, \A g \in Id \ {thr[t].f} : fut'[g] = fut[g],
           UNCHANGED <<posted, next, fault>>
    PROVE  MakerInv' /\ Straight'
  <1>1. \A y \in Id : LetGo(t, y)
    BY LetsGoOf
  <1>2. ~Own(t, next) /\ thr[t].f # next /\ thr[t].f # None
    BY NextOwned, Numbers
  <1>3. NextUnmade
    BY <1>1, <1>2 DEF NextUnmade, LetGo
  <1>4. PartsFuture(t, r)
    BY DEF PartsFuture
  <1>5. Consumes(t, r)
    BY <1>1, <1>2, <1>3, <1>4 DEF Consumes, Straight
  <1>6. Posts1(posted)
    BY DEF Posts1
  <1>7. Sound(thr[t])'
    BY RestSound
  <1>8. fault' = "none"
    BY DEF Straight
  <1> QED BY <1>5, <1>6, <1>7, <1>8, ConsumesStraight

LEMMA DropStraight ==
    ASSUME TypeInv, TokenInv, MakerInv, Straight, TypeInv', NEW t \in Thread, Drop(t)
    PROVE  MakerInv' /\ Straight'
  <1>1. thr[t].f \in Id /\ thr[t].at = "hold"
    BY Sames DEF Drop, At, Equipped
  <1>2. Leaves(t, Idle) /\ Idle.f = None /\ Idle.p = None /\ Idle.at = "idle"
    BY DEF Drop, Leaves, Idle
  <1>3. fut'[thr[t].f].promise = None /\ \A g \in Id \ {thr[t].f} : fut'[g] = fut[g]
    BY <1>1, Sames DEF Drop, Future
  <1>4. prom' = Unlinked(thr[t].f) /\ UNCHANGED <<posted, next, fault>>
    BY DEF Drop
  <1> QED BY <1>1, <1>2, <1>3, <1>4, LeavesFuture

LEMMA FutWithoutIs ==
    ASSUME TypeInv, NEW f \in Id
    PROVE  FutWithout(f)[f].promise = None /\ \A g \in Id \ {f} : FutWithout(f)[g] = fut[g]
  BY Sames DEF FutWithout, ReadyFuture

LEMMA CollectStraight ==
    ASSUME TypeInv, TokenInv, MakerInv, Straight, TypeInv', NEW t \in Thread, Collect(t)
    PROVE  MakerInv' /\ Straight'
  <1> DEFINE f == thr[t].f
             v == Value(Found(f))
             r == IF thr[t].p = None THEN Idle ELSE Returned(thr[t].p, v)
  <1>1. f \in Id /\ thr[t].at = "collect" /\ Now(f) \in Available
    BY Sames DEF Collect, At, Equipped, Straight, Sound
  <1>2. Found(f) = Where(f) /\ v = Now(f)
    BY <1>1, ReadWhere
  <1>3. /\ thr' = [thr EXCEPT ![t] = r] /\ prom' = PromWithout(f, Found(f))
        /\ fut' = FutWithout(f) /\ UNCHANGED <<posted, next, fault>>
    BY <1>1, <1>2, Sames DEF Collect, Found
  <1>4. r.f = None /\ r.p \in {thr[t].p, None} /\ r.at \in {"idle", "point"}
        /\ (r.at = "idle" => r.p = None)
    BY DEF Idle, Returned
  <1> HIDE DEF r, v
  <1>5. Leaves(t, r)
    BY <1>3 DEF Leaves
  <1>6. fut'[f].promise = None /\ \A g \in Id \ {f} : fut'[g] = fut[g]
    BY <1>1, <1>3, FutWithoutIs
  <1> HIDE DEF f
  <1> QED BY <1>1, <1>2, <1>3, <1>4, <1>5, <1>6, LeavesFuture DEF f

LEMMA ForwardStraight ==
    ASSUME TypeInv, TokenInv, MakerInv, Straight, NoCross, TypeInv', NEW t \in Thread, Forward(t)
    PROVE  MakerInv' /\ Straight'
  <1> DEFINE f == thr[t].f
             v == Seen(t)
             r == Returned(thr[t].p, v)
  <1>1. /\ f \in Id /\ thr[t].at = "placed" /\ Now(f) \in Available
        /\ thr[t].place = Where(f) /\ thr[t].p \in Id
    BY Sames, SeesThere DEF Forward, At, Equipped, Straight, Sound
  <1>2. v = Now(f)
    BY <1>1, ReadWhere, SeesThere
  <1>3. /\ thr' = [thr EXCEPT ![t] = r] /\ prom' = PromWithout(f, Where(f))
        /\ fut' = FutWithout(f) /\ UNCHANGED <<posted, next, fault>>
    BY <1>1, <1>2, Sames DEF Forward
  <1>4. r.f = None /\ r.p = thr[t].p /\ r.at = "point"
    BY DEF Idle, Returned
  <1> HIDE DEF r, v
  <1>5. Leaves(t, r)
    BY <1>3 DEF Leaves
  <1>6. fut'[f].promise = None /\ \A g \in Id \ {f} : fut'[g] = fut[g]
    BY <1>1, <1>3, FutWithoutIs
  <1> HIDE DEF f
  <1> QED BY <1>1, <1>2, <1>3, <1>4, <1>5, <1>6, LeavesFuture DEF f

\* A thread that takes the state of its future and goes on with a new one.
LEMMA ChangesFuture ==
    ASSUME TypeInv, TokenInv, MakerInv, Straight, TypeInv', NEW t \in Thread, NEW r,
           Leaves(t, r), thr[t].f \in Id, Now(thr[t].f) \in Available, r.f = next, r.p = None,
           thr[t].at \notin {"ready", "destroy"}, r.at \in {"hold", "look", "moving"},
           r.stage = "first",
           \A y \in Id \ {next} : prom'[y] = PromWithout(thr[t].f, Where(thr[t].f))[y],
           fut'[thr[t].f].promise = None, \A g \in Id \ {thr[t].f, next} : fut'[g] = fut[g],
           fault' = fault,
           \/ NextReady /\ posted' = posted
           \/ NextLinked /\ \E h \in Handler : /\ DueOf(h) = next
                                               /\ h.k = "run" => h.st \in Available
                                               /\ posted' = Append(posted, h)
    PROVE  MakerInv' /\ Straight'
  <1>1. \A y \in Id \ {next} : LetGo(t, y)
    BY LetsGoOf
  <1>2. thr[t].f # next /\ thr[t].f # None
    BY NextOwned, Numbers
  <1>3. PartsFuture(t, r)
    BY DEF PartsFuture
  <1>4. posted \in Seq(Handler) /\ Runs(posted)
    BY PostedOnce DEF Straight
  <1>5. Calls(posted) \subseteq Calls(posted') /\ Runs(posted')
    BY <1>4, CallsAppend, RunsAppend
  <1>6. Posts1(posted)
    BY DEF Posts1, NextReady, NextLinked
  <1>7. Consumes(t, r)
    BY <1>1, <1>2, <1>3, <1>5 DEF Consumes
  <1>8. Sound(thr[t])'
    BY NewSound
  <1>9. fault' = "none"
    BY DEF Straight
  <1> QED BY <1>6, <1>7, <1>8, <1>9, ConsumesStraight

LEMMA PostReadyStraight ==
    ASSUME TypeInv, TokenInv, MakerInv, Straight, NoCross, TypeInv', NEW t \in Thread, PostReady(t)
    PROVE  MakerInv' /\ Straight'
  <1> DEFINE f == thr[t].f
             r == [Idle EXCEPT !.at = "hold", !.f = next]
             task == [of |-> f, q |-> next, op |-> thr[t].op]
             v == Seen(t)
             h == [k |-> "run", st |-> v, task |-> task]
             P == PromWithout(f, Where(f))
             F == FutWithout(f)
  <1>1. /\ thr[t].at = "placed" /\ f \in Id /\ thr[t].op \in {"then", "wrapped"}
        /\ thr[t].place = Where(f) /\ v \in Available
    BY Sames DEF PostReady, At, Equipped, Straight, Sound
  <1>2. v = Now(f) /\ Now(f) \in Available
    BY <1>1, ReadWhere, SeesThere
  <1>3. next \in Id /\ f # next
    BY <1>1, NextIsFree, NextOwned DEF PostReady, Chaining, Chains
  <1>4. h \in Handler /\ DueOf(h) = next /\ h.st \in Available
    <2>1. task \in Continuation
      BY <1>1, <1>3 DEF Continuation
    <2>2. v \in State
      BY <1>1 DEF Available, State
    <2> QED BY <1>1, <2>1, <2>2, HandlerMade DEF DueOf
  <1>5. /\ prom' = [P EXCEPT ![next] = NewPromise(next)]
        /\ fut' = [F EXCEPT ![next] = Linked(next)]
        /\ posted' = Append(posted, h) /\ next' = next + 1 /\ fault' = fault
    BY <1>1, SeesThere DEF PostReady
  <1>6. Leaves(t, r) /\ r.f = next /\ r.p = None /\ r.at = "hold" /\ r.stage = "first"
    BY DEF PostReady, Leaves, Idle
  <1>7. P \in [Id -> Promise] /\ F \in [Id -> Future]
        /\ F[f].promise = None /\ \A g \in Id \ {f} : F[g] = fut[g]
    BY <1>1, WithoutOwn, UnlinkedTyped, FutWithoutIs
  <1> HIDE DEF r, h, task, v, P, F
  <1>8. NextLinked
    BY <1>3, <1>5, <1>7 DEF NextLinked
  <1>9. /\ \A y \in Id \ {next} : prom'[y] = P[y]
        /\ \A g \in Id \ {f, next} : fut'[g] = fut[g]
        /\ fut'[f].promise = None
    BY <1>1, <1>3, <1>5, <1>7
  <1>10. thr[t].at \notin {"ready", "destroy"}
    BY <1>1
  <1> HIDE DEF f
  <1> QED BY <1>1, <1>2, <1>4, <1>5, <1>6, <1>8, <1>9, <1>10, ChangesFuture DEF P, f

LEMMA TakeStraight ==
    ASSUME TypeInv, TokenInv, MakerInv, Straight, NoCross, TypeInv', NEW t \in Thread, Take(t)
    PROVE  MakerInv' /\ Straight'
  <1> DEFINE f == thr[t].f
             v == Seen(t)
             h == [k |-> "produce", p |-> next]
             P == PromWithout(f, Where(f))
             F == FutWithout(f)
  <1>1. /\ thr[t].at = "placed" /\ f \in Id /\ thr[t].op \in {"then", "wrapped"}
        /\ thr[t].place = Where(f) /\ Now(f) \in Available
    BY Sames, SeesThere DEF Take, At, Equipped, Straight, Sound
  <1>2. v = Now(f) /\ v \in Available
    BY <1>1, ReadWhere, SeesThere
  <1>3. next \in Id /\ f # next
    BY <1>1, NextIsFree, NextOwned DEF Take, Chaining, Chains
  <1>4. h \in Handler /\ DueOf(h) = next /\ h.k # "run"
    BY <1>3, HandlerMade DEF DueOf
  <1>5. next' = next + 1 /\ fault' = fault
    BY <1>1, <1>2 DEF Take
  <1>6. P \in [Id -> Promise] /\ F \in [Id -> Future]
        /\ F[f].promise = None /\ \A g \in Id \ {f} : F[g] = fut[g]
    BY <1>1, WithoutOwn, UnlinkedTyped, FutWithoutIs
  <1>7. P[next] = prom[next]
    BY <1>1, <1>3, WithoutOwn, NextOwned DEF Own
  <1>8. thr[t].at \notin {"ready", "destroy"}
    BY <1>1
  <1>9. CASE /\ \E out \in Available : fut' = [F EXCEPT ![next] = ReadyFuture(out)]
             /\ prom' = P /\ posted' = posted
             /\ thr' = [thr EXCEPT ![t] = [Idle EXCEPT !.at = "hold", !.f = next]]
    <2> DEFINE r == [Idle EXCEPT !.at = "hold", !.f = next]
    <2>1. PICK out \in Available : fut' = [F EXCEPT ![next] = ReadyFuture(out)]
      BY <1>9
    <2>2. Leaves(t, r) /\ r.f = next /\ r.p = None /\ r.at = "hold" /\ r.stage = "first"
      BY <1>9 DEF Leaves, Idle
    <2> HIDE DEF r, P, F, v
    <2>3. NextReady
      BY <1>3, <1>5, <1>6, <1>7, <1>9, <2>1 DEF NextReady, ReadyFuture
    <2>4. /\ \A y \in Id \ {next} : prom'[y] = P[y]
          /\ \A g \in Id \ {f, next} : fut'[g] = fut[g]
          /\ fut'[f].promise = None
      BY <1>1, <1>3, <1>6, <1>9, <2>1
    <2> HIDE DEF f
    <2> QED BY <1>1, <1>5, <1>8, <1>9, <2>2, <2>3, <2>4, ChangesFuture DEF P, f
  <1>10. CASE /\ fut' = [F EXCEPT ![next] = Linked(next)]
              /\ prom' = [P EXCEPT ![next] = NewPromise(next)]
              /\ posted' = Append(posted, h)
              /\ \E how \in {"waits", "returns"} : thr' = [thr EXCEPT ![t] = Started(None, how)]
    <2>1. PICK how \in {"waits", "returns"} : thr' = [thr EXCEPT ![t] = Started(None, how)]
      BY <1>10
    <2> DEFINE r == Started(None, how)
    <2>2. Leaves(t, r) /\ r.f = next /\ r.p = None /\ r.at \in {"look", "moving"} /\ r.stage = "first"
      BY <2>1 DEF Leaves, Idle, Started
    <2> HIDE DEF r, P, F, v, h
    <2>3. NextLinked
      BY <1>3, <1>5, <1>6, <1>10 DEF NextLinked
    <2>4. /\ \A y \in Id \ {next} : prom'[y] = P[y]
          /\ \A g \in Id \ {f, next} : fut'[g] = fut[g]
          /\ fut'[f].promise = None
      BY <1>1, <1>3, <1>6, <1>10
    <2>5. posted' = Append(posted, h)
      BY <1>10
    <2> HIDE DEF f
    <2> QED BY <1>1, <1>4, <1>5, <1>8, <2>2, <2>3, <2>4, <2>5, ChangesFuture DEF P, f
  <1> QED BY <1>1, <1>2, <1>9, <1>10 DEF Take

-----------------------------------------------------------------------------
(* Threads that take up a promise: the handler of a call begins, or a      *)
(* continuation does.                                                      *)

TakesUp(t, r) ==
    /\ Leaves(t, r)
    /\ thr[t].f = None
    /\ r.at \notin {"ready", "destroy"}
    /\ \A g \in Id \ {next} : fut'[g] = fut[g]
    /\ \A y \in Id \ {next} : y # thr[t].p => prom'[y] = prom[y]
    /\ thr[t].p \in Id => prom[thr[t].p].future = None /\ prom'[thr[t].p] = Dead(thr[t].p)
    /\ fault' = "none"

LEMMA TakesUpStraight ==
    ASSUME TypeInv, TokenInv, MakerInv, Straight, TypeInv', NEW t \in Thread, NEW r,
           TakesUp(t, r), Sound(thr[t])', OneThen',
           NEW m \in Pending \cup Promised, r.p = m, Promised' \subseteq Promised \ {m},
           NEW base, base = posted \/ (posted # <<>> /\ base = Tail(posted)),
           m \notin DueIn(base), Runs(base),
           \A p \in Calls(posted) : p \in Calls(base) \/ (p = m /\ r.f = None),
           \/ NextUnmade /\ r.f = None /\ posted' = base
           \/ NextLinked /\ r.f = next /\ posted' = Append(base, [k |-> "produce", p |-> next])
    PROVE  MakerInv' /\ Straight'
  <1> DEFINE h == [k |-> "produce", p |-> next]
  <1>1. Leaves(t, r)
    BY DEF TakesUp
  <1>2. next \in Id => h \in Handler /\ DueOf(h) = next /\ h.k # "run"
    BY HandlerMade DEF DueOf
  <1>3. Posts1(base)
    BY <1>2 DEF Posts1, NextUnmade, NextLinked
  <1>4. /\ MakerInv' /\ Makers' \subseteq Makers \cup {next}
        /\ next' = next => Makers' \subseteq Makers
        /\ thr[t].p \notin Makers'
    BY <1>1, <1>3, MakersTurn
  <1>5. m \in Id /\ m \notin Working /\ m # next
    BY NewIsUnmade DEF MakerInv, Separate, Makers, Working
  <1>6. \A y \in Id : y # thr[t].p => (Done(y)' <=> Done(y))
    <2>1. OneWorker /\ OneWorker' /\ r.at \notin {"ready", "destroy"}
      BY <1>4 DEF MakerInv, TakesUp
    <2>2. \A y \in Id : y = m => ~Done(y)
      BY <1>5 DEF Done, Working
    <2>3. \A y \in Id : y = m => ~Done(y)'
      BY <1>1, <2>1, DoneMoves
    <2>4. \A y \in Id : y # m /\ y # thr[t].p => (Done(y)' <=> Done(y))
      BY <1>1, <2>1, DoneMoves
    <2> QED BY <2>2, <2>3, <2>4
  <1>7. \A y \in Id : ~Own(t, y)
    BY Numbers DEF Own, TakesUp
  <1>8. ASSUME NEW y \in Id \ {next} PROVE PartsPromise(t, y) /\ PartsOthers(t, y)
    <2>1. CASE y = thr[t].p
      <3>1. prom'[y] = Dead(y) /\ ~prom'[y].alive /\ prom'[y].future = None /\ prom[y].future = None
        BY <2>1 DEF TakesUp, Dead, NewPromise
      <3>2. \A u \in Thread : u # t => thr[u].p # y
        BY <2>1 DEF MakerInv, OneWorker
      <3> QED BY <1>4, <1>7, <2>1, <3>1, <3>2 DEF PartsPromise, PartsOthers
    <2>2. CASE y # thr[t].p
      <3>1. LetGo(t, y)
        BY <1>7, <2>2 DEF LetGo, TakesUp
      <3> QED BY <1>4, <1>6, <2>2, <3>1, LetGoParts
    <2> QED BY <2>1, <2>2
  <1>9. base \in Seq(Handler)
    BY PostedOnce
  <1>10. Calls(base) \subseteq Calls(posted') /\ Runs(posted')
    BY <1>2, <1>9, CallsAppend, RunsAppend DEF NextLinked
  <1>11. PartsPosted(t, r)
    BY <1>10 DEF PartsPosted, TakesUp
  <1>12. PartsFuture(t, r)
    BY Numbers DEF PartsFuture, TakesUp
  <1>13. NextUnmade => next \notin Makers'
    BY <1>4, NewIsUnmade DEF NextUnmade
  <1>14. Parts(t, r)
    BY <1>8, <1>11, <1>12, <1>13 DEF Parts
  <1>15. fault' = "none" /\ r.at \notin {"ready", "destroy"}
    BY DEF TakesUp
  <1> QED BY <1>4, <1>14, <1>15, PartsStraight

LEMMA ProduceStraight ==
    ASSUME TypeInv, TokenInv, MakerInv, Straight, TypeInv', NEW t \in Thread, Produce(t)
    PROVE  MakerInv' /\ Straight'
  <1> DEFINE h == Head(posted)
             m == h.p
             r == [Idle EXCEPT !.at = "pmove", !.p = m]
             base == Tail(posted)
  <1>1. thr[t].at = "idle" /\ thr[t].f = None /\ thr[t].p = None
    BY DEF Produce, At, Straight, Sound
  <1>2. posted # <<>> /\ h.k = "produce" /\ h \in Handler /\ posted \in Seq(Handler)
    BY PostedOnce, PostedParts DEF Produce
  <1>3. m \in Id /\ DueOf(h) = m
    BY <1>2, HandlerParts DEF DueOf
  <1>4. m \in Pending /\ m \notin DueIn(base)
    BY <1>2, <1>3, PostedOnce
  <1>5. m \notin Promised
    BY <1>3, <1>4 DEF MakerInv, Separate
  <1>6. Leaves(t, r) /\ r.p = m /\ r.f = None /\ r.at = "pmove"
    BY DEF Produce, Leaves, Idle
  <1>7. Runs(base) /\ \A p \in Calls(posted) : p \in Calls(base) \/ p = m
    BY <1>2, CallsTail, RunsTail DEF Straight
  <1>8. posted' = base /\ UNCHANGED <<prom, fut, next, fault>>
    BY DEF Produce
  <1> HIDE DEF h, m, r, base
  <1>9. TakesUp(t, r)
    BY <1>1, <1>6, <1>8, Numbers DEF TakesUp, Straight
  <1>10. OneThen' /\ Promised' \subseteq Promised \ {m}
    BY <1>5, <1>8, ThenStays DEF MakerInv
  <1>11. Sound(thr[t])'
    BY <1>6, RestSound
  <1>12. NextUnmade
    BY <1>8 DEF NextUnmade
  <1> QED BY <1>2, <1>4, <1>6, <1>7, <1>8, <1>9, <1>10, <1>11, <1>12, TakesUpStraight DEF base

\* What the function of a continuation leaves its thread with.
GoesOn(t, r, q, rest) ==
    /\ Leaves(t, r) /\ r.p = q /\ r.stage = "first" /\ fault' = fault
    /\ \/ /\ r.f = None /\ r.at = "point"
          /\ next' = next /\ posted' = rest /\ fut' = fut
       \/ /\ r.f = next /\ r.at \in {"look", "moving"} /\ next \in Id
          /\ next' = next + 1 /\ posted' = Append(rest, [k |-> "produce", p |-> next])
          /\ fut' = [fut EXCEPT ![next] = Linked(next)]

LEMMA ContinueResumes ==
    ASSUME TypeInv, NEW t \in Thread, NEW task, NEW st \in Available,
           NEW rest, Continue(t, task, st, rest)
    PROVE  \E r : GoesOn(t, r, task.q, rest)
  <1>1. /\ \A out : LET r == Returned(task.q, out)
                    IN r.f = None /\ r.p = task.q /\ r.at = "point" /\ r.stage = "first"
        /\ \A out : LET r == [Returned(task.q, out) EXCEPT !.forwarded = FALSE]
                    IN r.f = None /\ r.p = task.q /\ r.at = "point" /\ r.stage = "first"
        /\ \A how \in {"waits", "returns"} :
              LET r == Started(task.q, how)
              IN r.f = next /\ r.p = task.q /\ r.at \in {"look", "moving"} /\ r.stage = "first"
    BY DEF Returned, Idle, Started
  <1>2. MayCall => next \in Id
    BY NextIsFree
  <1>3. CASE /\ thr' = [thr EXCEPT ![t] = [Returned(task.q, st) EXCEPT !.forwarded = FALSE]]
             /\ posted' = rest /\ UNCHANGED <<fut, next, fault>>
    BY <1>1, <1>3 DEF GoesOn, Leaves
  <1>4. CASE /\ \E out \in Available : thr' = [thr EXCEPT ![t] = Returned(task.q, out)]
             /\ posted' = rest /\ UNCHANGED <<fut, next, fault>>
    <2>1. PICK out \in Available : thr' = [thr EXCEPT ![t] = Returned(task.q, out)]
      BY <1>4
    <2> DEFINE r == Returned(task.q, out)
    <2>2. Leaves(t, r) /\ r.f = None /\ r.p = task.q /\ r.at = "point" /\ r.stage = "first"
      BY <1>1, <2>1 DEF Leaves
    <2> HIDE DEF r
    <2> QED BY <1>4, <2>2 DEF GoesOn
  <1>5. CASE /\ MayCall /\ next' = next + 1
             /\ \E how \in {"waits", "returns"} : thr' = [thr EXCEPT ![t] = Started(task.q, how)]
             /\ posted' = Append(rest, [k |-> "produce", p |-> next])
             /\ fut' = [fut EXCEPT ![next] = Linked(next)]
             /\ fault' = fault
    BY <1>1, <1>2, <1>5 DEF GoesOn, Leaves
  <1> QED BY <1>3, <1>4, <1>5 DEF Continue

\* A continuation is taken from where it was kept, and run.
LEMMA ResumesStraight ==
    ASSUME TypeInv, TokenInv, MakerInv, Straight, TypeInv', NEW t \in Thread, NEW r,
           NEW m \in Pending \cup Promised,
           NEW base, base = posted \/ (posted # <<>> /\ base = Tail(posted)),
           GoesOn(t, r, m, base),
           m \notin DueIn(base), Runs(base), Calls(posted) \subseteq Calls(base),
           thr[t].f = None,
           \A y \in Id \ {next} : y # thr[t].p => prom'[y] = prom[y],
           thr[t].p \in Id => prom[thr[t].p].future = None /\ prom'[thr[t].p] = Dead(thr[t].p),
           next \in Id => prom'[next] = IF next' > next THEN NewPromise(next) ELSE prom[next],
           OneThen', Promised' \subseteq Promised \ {m}
    PROVE  MakerInv' /\ Straight'
  <1>1. next \in Nat /\ next # None /\ next + 1 > next
    BY NextOwned
  <1>2. TakesUp(t, r)
    <2>1. \A g \in Id \ {next} : fut'[g] = fut[g]
      BY Sames DEF GoesOn
    <2> QED BY <2>1 DEF GoesOn, TakesUp, Straight
  <1>3. CASE /\ r.f = None /\ r.at = "point"
             /\ next' = next /\ posted' = base /\ fut' = fut
    <2>1. NextUnmade
      BY <1>1, <1>3 DEF NextUnmade
    <2>2. Sound(thr[t])'
      BY <1>2, <1>3, RestSound DEF TakesUp
    <2> QED BY <1>2, <1>3, <2>1, <2>2, TakesUpStraight DEF GoesOn
  <1>4. CASE /\ r.f = next /\ r.at \in {"look", "moving"} /\ next \in Id
             /\ next' = next + 1 /\ posted' = Append(base, [k |-> "produce", p |-> next])
             /\ fut' = [fut EXCEPT ![next] = Linked(next)]
    <2> DEFINE h == [k |-> "produce", p |-> next]
    <2>1. NextLinked
      BY <1>1, <1>4, Sames DEF NextLinked
    <2>2. next \in Calls(posted')
      <3>1. h \in Handler /\ h.k = "produce" /\ h.p = next /\ base \in Seq(Handler)
        BY <1>4, HandlerMade, PostedOnce
      <3>2. posted' = Append(base, h)
        BY <1>4
      <3> HIDE DEF h
      <3> QED BY <3>1, <3>2, CallsAppend
    <2>3. Sound(thr[t])'
      BY <1>2, <1>4, <2>1, <2>2, NewSound DEF TakesUp, GoesOn
    <2> QED BY <1>2, <1>4, <2>1, <2>3, TakesUpStraight DEF GoesOn
  <1> QED BY <1>3, <1>4 DEF GoesOn

LEMMA RunStraight ==
    ASSUME TypeInv, TokenInv, MakerInv, Straight, TypeInv', NEW t \in Thread, Run(t)
    PROVE  MakerInv' /\ Straight'
  <1> DEFINE h == Head(posted)
             m == h.task.q
             base == Tail(posted)
  <1>1. thr[t].at = "idle" /\ thr[t].f = None /\ thr[t].p = None
    BY DEF Run, At, Straight, Sound
  <1>2. posted # <<>> /\ h.k = "run" /\ h \in Handler /\ posted \in Seq(Handler)
    BY PostedOnce, PostedParts DEF Run
  <1>3. m \in Id /\ DueOf(h) = m
    BY <1>2, HandlerParts DEF DueOf, Continuation
  <1>4. m \in Pending /\ m \notin DueIn(base)
    BY <1>2, <1>3, PostedOnce
  <1>5. m \notin Promised
    BY <1>3, <1>4 DEF MakerInv, Separate
  <1>6. Runs(base) /\ h.st \in Available /\ Calls(posted) \subseteq Calls(base)
    BY <1>2, CallsTail, RunsTail DEF Straight
  <1>7. /\ Continue(t, h.task, h.st, base)
        /\ prom' = IF next' > next THEN [prom EXCEPT ![next] = NewPromise(next)] ELSE prom
    BY DEF Run
  <1>8. PICK r : GoesOn(t, r, m, base)
    BY <1>6, <1>7, ContinueResumes
  <1> HIDE DEF h, m, base
  <1>9. /\ \A y \in Id \ {next} : prom'[y] = prom[y]
        /\ next \in Id => prom'[next] = IF next' > next THEN NewPromise(next) ELSE prom[next]
    BY <1>7, Sames
  <1>10. OneThen' /\ Promised' \subseteq Promised \ {m}
    <2>1. \A x \in Id : prom'[x].task \in {prom[x].task, None}
      BY <1>9, NoTasks
    <2> QED BY <1>5, <2>1, ThenStays DEF MakerInv
  <1> QED BY <1>1, <1>2, <1>4, <1>6, <1>8, <1>9, <1>10, Numbers, ResumesStraight DEF base

-----------------------------------------------------------------------------
(* Producers: the state is set, the continuation posted or run, the        *)
(* promise destroyed.                                                      *)

\* The promise of a continuation passes to the handler that is posted.
LEMMA MakersPost ==
    ASSUME TypeInv, MakerInv, NEW t \in Thread, NEW r, Leaves(t, r), r.p = thr[t].p,
           NEW m \in Promised, OneThen', Promised' \subseteq Promised \ {m},
           NEW h \in Handler, DueOf(h) = m, posted' = Append(posted, h), next' = next
    PROVE  MakerInv' /\ Makers' \subseteq Makers
  <1>1. m \in Id /\ m \notin Working /\ m \notin Pending /\ m # next /\ next \notin Makers
    BY NewIsUnmade DEF MakerInv, Separate, Makers, Promised
  <1>2. DueOnce(posted') /\ DueIn(posted') \subseteq Pending \cup {m}
    BY <1>1, PostedOnce, DueAppend
  <1>3. Pending' = DueIn(posted')
    BY DEF Pending, DueIn, Id
  <1>4. r.p \in Working \/ r.p = None
    BY NewIsUnmade
  <1>5. OneWorker' /\ Working' \subseteq Working \cup {None}
    BY <1>4, WorkMoves DEF MakerInv
  <1>6. None \notin Working'
    BY Numbers DEF Working, Id
  <1>7. Turns(m)
    BY <1>1, <1>2, <1>3, <1>5, <1>6 DEF Turns, Makers
  <1>8. Separate'
    BY <1>7, SeparateKept DEF MakerInv, Makers
  <1>9. MakerInv'
    BY <1>2, <1>5, <1>8 DEF MakerInv, DueOnce, Id
  <1>10. Makers' = Working' \cup Pending' \cup Promised'
    BY DEF Makers, Working, Pending, DueIn, Promised, Id
  <1> QED BY <1>2, <1>3, <1>5, <1>6, <1>9, <1>10 DEF Makers

\* A thread about to let the result go, with a promise whose state is set.
LEMMA ReadyView ==
    ASSUME TypeInv, MakerInv, Straight, NEW t \in Thread, thr[t].at \in {"store", "ready", "destroy"}
    PROVE  LET p == thr[t].p IN
           /\ p \in Id /\ p \in Makers /\ prom[p].alive /\ p # next
           /\ thr[t].f = None
           /\ prom[p] \in Promise
           /\ IF thr[t].at = "store" THEN ~Done(p) /\ Fresh(prom[p])
              ELSE Done(p) /\ Fulfilled(prom[p])
           /\ prom[p].task # None => prom[p].future = None
           /\ \A u \in Thread : u # t => thr[u].p # p
  <1> DEFINE p == thr[t].p
  <1>1. p \in Id /\ thr[t].f = None
    BY Sames DEF Equipped, Straight, Sound
  <1>2. p \in Makers /\ p # next
    BY <1>1, NewIsUnmade DEF Makers, Working
  <1>3. prom[p].alive
    BY <1>1, <1>2 DEF Straight, Alive
  <1>4. Done(p) <=> thr[t].at \in {"ready", "destroy"}
    BY <1>1, DoneIs DEF MakerInv
  <1>5. (Done(p) => Fulfilled(prom[p])) /\ (~Done(p) => Fresh(prom[p]))
    BY <1>1, <1>3 DEF Straight, Content
  <1>6. prom[p].task # None => prom[p].future = None
    BY <1>4, <1>5 DEF Fresh, Fulfilled
  <1>7. \A u \in Thread : u # t => thr[u].p # p
    BY <1>1 DEF MakerInv, OneWorker
  <1> QED BY <1>1, <1>2, <1>3, <1>4, <1>5, <1>6, <1>7, Sames

LEMMA MakeReadyStraight ==
    ASSUME TypeInv, TokenInv, MakerInv, Straight, TypeInv', NEW t \in Thread, MakeReady(t)
    PROVE  MakerInv' /\ Straight'
  <1> DEFINE p == thr[t].p
             task == prom[p].task
             st == prom[p].taskState
             h == [k |-> "run", st |-> st, task |-> task]
             r == [thr[t] EXCEPT !.at = "destroy"]
  <1>1. /\ p \in Id /\ p \in Makers /\ prom[p].alive /\ p # next
        /\ thr[t].f = None /\ prom[p] \in Promise /\ Fulfilled(prom[p])
        /\ task # None => prom[p].future = None
        /\ \A u \in Thread : u # t => thr[u].p # p
    BY ReadyView DEF MakeReady, At
  <1>2. r.f = None /\ r.p = p /\ r.at = "destroy" /\ thr[t].at = "ready"
    BY <1>1, Sames DEF ThreadState, MakeReady, At
  <1>3. /\ task # None => task \in Continuation /\ st \in Available /\ task.q \in Promised
        /\ task # None => task.q \in Id /\ task.q \notin Working /\ task.q \notin Pending
        /\ task # None => h \in Handler /\ DueOf(h) = task.q /\ h.k = "run" /\ h.st = st
    <2>1. task # None => task \in Continuation /\ st \in Available
      BY <1>1 DEF Promise, Fulfilled
    <2>2. task # None => task.q \in Promised
      BY <1>1, NewIsUnmade
    <2>3. task # None => task.q \in Id /\ task.q \notin Working /\ task.q \notin Pending
      BY <2>2 DEF Promised, MakerInv, Separate
    <2>4. task # None => h \in Handler /\ DueOf(h) = task.q
      BY <2>1, HandlerMade DEF DueOf, Available, State
    <2> QED BY <2>1, <2>2, <2>3, <2>4
  <1>4. CASE task = None /\ Leaves(t, r) /\ UNCHANGED <<posted, prom, fut, next, fault>>
    <2>1. Sound(r)
      BY <1>2, <1>4 DEF Sound
    <2>2. MovesOn(t, r)
      BY <1>1, <1>2, <1>4 DEF MovesOn
    <2> QED BY <2>1, <2>2, OnlyThread
  <1>5. CASE /\ task # None /\ Leaves(t, r) /\ posted' = Append(posted, h)
             /\ prom' = [prom EXCEPT ![p].ptr = "null", ![p].task = None]
             /\ UNCHANGED <<fut, next, fault>>
    <2>1. /\ prom'[p].task = None /\ prom'[p].future = None /\ prom'[p].alive
          /\ \A y \in Id \ {p} : prom'[y] = prom[y]
      BY <1>1, <1>5, Sames DEF Promise
    <2>2. OneThen' /\ Promised' \subseteq Promised \ {task.q}
      <3>1. \A x \in Id : prom'[x].task \in {prom[x].task, None}
        BY <2>1
      <3> QED BY <1>1, <1>5, <2>1, <3>1, ThenStays, ThenGone DEF MakerInv
    <2>3. MakerInv' /\ Makers' \subseteq Makers
      <3> HIDE DEF r, h, task
      <3> QED BY <1>2, <1>3, <1>5, <2>2, MakersPost
    <2>4. \A y \in Id : Done(y)' <=> Done(y)
      <3>1. \A u \in Thread : thr'[u] = IF u = t THEN r ELSE thr[u]
        BY <1>5, Sames DEF Leaves
      <3> HIDE DEF r
      <3> QED BY <1>2, <3>1 DEF Done
    <2>5. \A y \in Id : ~Own(t, y)
      BY <1>1, Numbers DEF Own
    <2>6. ASSUME NEW y \in Id \ {next} PROVE PartsPromise(t, y) /\ PartsOthers(t, y)
      <3>1. CASE y = p
        <4>1. Done(p)
          BY <1>1, <1>2 DEF Done
        <4>2. Fulfilled(prom'[p])
          BY <2>1 DEF Fulfilled
        <4> QED BY <1>1, <1>5, <2>1, <2>4, <2>5, <3>1, <4>1, <4>2 DEF PartsPromise, PartsOthers
      <3>2. CASE y # p
        <4>1. LetGo(t, y)
          BY <2>1, <2>5, <3>2 DEF LetGo
        <4> QED BY <2>3, <2>4, <4>1, LetGoParts
      <3> QED BY <3>1, <3>2
    <2>7. Calls(posted) \subseteq Calls(posted') /\ Runs(posted')
      <3> HIDE DEF h, st, task
      <3> QED BY <1>3, <1>5, PostedOnce, CallsAppend, RunsAppend DEF Straight
    <2>8. PartsPosted(t, r)
      BY <1>1, <1>2, <1>5, <2>7 DEF PartsPosted
    <2>9. PartsFuture(t, r)
      BY <1>1, <1>2, <1>5, Numbers DEF PartsFuture
    <2>10. NextUnmade /\ next \notin Makers'
      BY <1>1, <1>5, <2>1, <2>3, NewIsUnmade DEF NextUnmade
    <2>11. Parts(t, r)
      BY <1>2, <2>6, <2>8, <2>9, <2>10 DEF Parts
    <2>12. Sound(thr[t])'
      <3>1. thr'[t] = r
        BY <1>5, Sames DEF Leaves
      <3> HIDE DEF r
      <3> QED BY <1>2, <2>1, <3>1 DEF Sound
    <2>13. fault' = "none"
      BY <1>5 DEF Straight
    <2> HIDE DEF r
    <2> QED BY <1>2, <2>3, <2>11, <2>12, <2>13, PartsStraight
  <1>6. CASE /\ task # None
             /\ Continue(t, task, st, posted)
             /\ prom' = IF fault' # "none" THEN prom
                        ELSE IF next' > next
                        THEN [prom EXCEPT ![p] = Dead(p), ![next] = NewPromise(next)]
                        ELSE [prom EXCEPT ![p] = Dead(p)]
    <2>1. PICK s : GoesOn(t, s, task.q, posted)
      BY <1>3, <1>6, ContinueResumes
    <2>2. fault' = "none"
      BY <2>1 DEF GoesOn, Straight
    <2>3. /\ \A y \in Id \ {next} : y # p => prom'[y] = prom[y]
          /\ prom'[p] = Dead(p)
          /\ next \in Id => prom'[next] = IF next' > next THEN NewPromise(next) ELSE prom[next]
      BY <1>1, <1>6, <2>2, Sames
    <2>4. OneThen' /\ Promised' \subseteq Promised \ {task.q}
      <3>1. \A x \in Id : prom'[x].task \in {prom[x].task, None}
        BY <1>1, <2>3, NoTasks
      <3>2. prom'[p].task = None
        BY <2>3, NoTasks
      <3> QED BY <1>1, <1>6, <3>1, <3>2, ThenStays, ThenGone DEF MakerInv
    <2>5. task.q \in Promised /\ task.q \notin DueIn(posted)
      BY <1>3, <1>6, PostedOnce
    <2>6. Runs(posted) /\ prom[p].future = None
      BY <1>1, <1>6 DEF Straight
    <2> HIDE DEF p, task, st
    <2> QED BY <1>1, <2>1, <2>3, <2>4, <2>5, <2>6, ResumesStraight DEF p
  <1>7. Leaves(t, r) <=> thr' = [thr EXCEPT ![t].at = "destroy"]
    BY Sames DEF Leaves
  <1> QED BY <1>4, <1>5, <1>6, <1>7 DEF MakeReady

-----------------------------------------------------------------------------
(* The steps in which two threads could meet, and do not.                  *)

\* The promise a future lets go for its continuation is yet to be fulfilled.
LEMMA MakersAttach ==
    ASSUME TypeInv, MakerInv, NEW t \in Thread, NEW r, Leaves(t, r), r.p \in {thr[t].p, None},
           OneThen', Promised' \subseteq Promised \cup {next}, posted' = posted, next' = next + 1
    PROVE  MakerInv' /\ Makers' \subseteq Makers \cup {next}
  <1>1. next \in Nat /\ next \notin Makers /\ None \notin Makers
    BY Sames, NewIsUnmade
  <1>2. OneWorker' /\ Working' \subseteq (Working \ {thr[t].p}) \cup {r.p}
    BY NewIsUnmade, WorkMoves DEF MakerInv
  <1>3. None \notin Working' /\ None \notin Pending' /\ None \notin Promised'
    BY Numbers DEF Working, Pending, DueIn, Promised, Id
  <1>4. Pending' = Pending
    BY DEF Pending, DueIn, Id
  <1>5. Working' \subseteq Working
    BY <1>2, <1>3, NewIsUnmade
  <1>6. Turns(None)
    BY <1>1, <1>3, <1>4, <1>5 DEF Turns, Makers
  <1>7. Separate'
    BY <1>6, SeparateKept DEF MakerInv
  <1>8. MakerInv'
    BY <1>2, <1>7 DEF MakerInv, DueOnce, Id
  <1>9. Makers' = Working' \cup Pending' \cup Promised'
    BY DEF Makers, Working, Pending, DueIn, Promised, Id
  <1> QED BY <1>4, <1>5, <1>8, <1>9 DEF Makers

LEMMA AttachStraight ==
    ASSUME TypeInv, TokenInv, MakerInv, Straight, NoCross, TypeInv', NEW t \in Thread, Attach(t)
    PROVE  MakerInv' /\ Straight'
  <1> DEFINE f == thr[t].f
             p == fut[f].promise
             c == [of |-> f, q |-> next, op |-> thr[t].op]
             r == [Idle EXCEPT !.at = "hold", !.f = next]
             e == [prom[p] EXCEPT !.future = None, !.ptr = "task", !.taskState = "future",
                                  !.task = c]
  <1>1. f \in Id /\ thr[t].at = "attach" /\ p # None /\ Now(f) \notin Available
        /\ thr[t].op \in {"then", "wrapped"}
    BY Sames DEF Attach, At, Equipped, Straight, Sound, Chains
  <1>2. /\ p \in Id /\ prom[p].alive /\ p # next /\ prom[p].future = f
        /\ ~Done(p) /\ prom[p].local = "future"
        /\ \A g \in Id : fut[g].promise = p => g = f
    BY <1>1, LinkedView
  <1>3. next \in Id /\ f # next /\ next # None /\ f # None
    BY <1>1, NextIsFree, NextOwned, Numbers DEF Chaining, Chains
  <1>4. Leaves(t, r) /\ r.f = next /\ r.p = None /\ r.at = "hold" /\ r.stage = "first"
    BY <1>1 DEF Attach, Leaves, Idle
  <1>5. c # None /\ c.q = next
    <2>1. c \in Continuation
      BY <1>1, <1>3 DEF Continuation
    <2> QED BY <2>1, NoContinuation
  <1>6. /\ prom' = [prom EXCEPT ![p] = e, ![next] = NewPromise(next)]
        /\ fut' = [fut EXCEPT ![f].promise = None, ![next] = Linked(next)]
        /\ next' = next + 1 /\ UNCHANGED <<posted, fault>>
    BY <1>1 DEF Attach
  <1>7. /\ e.alive /\ e.future = None /\ e.ptr = "task" /\ e.taskState = "future" /\ e.task = c
        /\ e.local = "future"
    BY <1>1, <1>2, Sames DEF Promise
  <1> HIDE DEF e, c, r
  <1>8. prom'[p] = e /\ prom'[next] = NewPromise(next)
        /\ \A y \in Id \ {p, next} : prom'[y] = prom[y]
    BY <1>2, <1>3, <1>6, Sames
  <1>9. fut'[f].promise = None /\ fut'[next] = Linked(next)
        /\ \A g \in Id \ {f, next} : fut'[g] = fut[g]
    BY <1>1, <1>3, <1>6, Sames DEF Future
  <1>10. OneThen' /\ Promised' \subseteq Promised \cup {next}
    <2>1. next \notin Promised
      BY NewIsUnmade DEF Makers
    <2>2. \A y \in Id \ {p} : prom'[y].task \in {prom[y].task, None}
      BY <1>8, NoTasks
    <2> QED BY <1>2, <1>5, <1>7, <1>8, <2>1, <2>2, ThenGrows DEF MakerInv
  <1>11. MakerInv' /\ Makers' \subseteq Makers \cup {next}
    BY <1>4, <1>6, <1>10, MakersAttach
  <1>12. NextLinked
    BY <1>3, <1>6, <1>8, <1>9 DEF NextLinked
  <1>13. \A y \in Id : Done(y)' <=> Done(y)
    <2>1. \A u \in Thread : thr'[u] = IF u = t THEN r ELSE thr[u]
      BY <1>4, Sames DEF Leaves
    <2>2. \A y \in Id : Done(y)' <=> \E u \in Thread : thr'[u].p = y /\ thr'[u].at \in {"ready", "destroy"}
      BY DEF Done
    <2> QED BY <1>1, <1>4, <2>1, <2>2 DEF Done
  <1>14. \A y \in Id : Own(t, y) <=> y = p
    BY <1>1 DEF Own
  <1>15. ASSUME NEW y \in Id \ {next} PROVE PartsPromise(t, y) /\ PartsOthers(t, y)
    <2>1. CASE y = p
      <3>1. Fresh(prom'[p])
        BY <1>5, <1>7, <1>8 DEF Fresh
      <3>2. PartsPromise(t, y)
        BY <1>2, <1>7, <1>8, <1>13, <1>14, <2>1, <3>1 DEF PartsPromise
      <3>3. ASSUME NEW u \in Thread, thr[u].p = p PROVE thr[u].at \notin {"store", "destroy"}
        <4>1. thr[u].at # "destroy"
          BY <1>2, <3>3 DEF Done
        <4>2. thr[u].at # "store"
          BY <1>1, <1>2, <1>3, <3>3, Numbers DEF NoCross, Cross, At
        <4> QED BY <4>1, <4>2
      <3> QED BY <2>1, <3>2, <3>3 DEF PartsOthers
    <2>2. CASE y # p
      <3>1. LetGo(t, y)
        BY <1>8, <1>14, <2>2 DEF LetGo
      <3> QED BY <1>11, <1>13, <3>1, LetGoParts
    <2> QED BY <2>1, <2>2
  <1>16. PartsPosted(t, r)
    <2>1. Calls(posted') = Calls(posted) /\ Runs(posted')
      BY <1>6 DEF Straight
    <2> QED BY <1>3, <2>1 DEF PartsPosted
  <1>17. PartsFuture(t, r)
    BY <1>4, <1>9 DEF PartsFuture
  <1>18. Parts(t, r)
    BY <1>4, <1>12, <1>15, <1>16, <1>17 DEF Parts
  <1>19. Sound(thr[t])'
    BY <1>4, <1>12, NewSound
  <1>20. fault' = "none" /\ r.at \notin {"ready", "destroy"}
    BY <1>4, <1>6 DEF Straight
  <1> QED BY <1>11, <1>18, <1>19, <1>20, PartsStraight

LEMMA StoreStraight ==
    ASSUME TypeInv, TokenInv, MakerInv, Straight, NoCross, TypeInv', NEW t \in Thread, Store(t)
    PROVE  MakerInv' /\ Straight'
  <1> DEFINE p == thr[t].p
             r == [thr[t] EXCEPT !.at = "ready"]
             v == Stored(thr[t])
  <1>1. /\ p \in Id /\ p \in Makers /\ prom[p].alive /\ p # next
        /\ thr[t].f = None /\ prom[p] \in Promise /\ ~Done(p) /\ Fresh(prom[p])
        /\ \A u \in Thread : u # t => thr[u].p # p
        /\ thr[t].at = "store"
    BY ReadyView DEF Store, At
  <1>2. thr[t].place = [in |-> prom[p].ptr, id |-> p]
    BY <1>1 DEF Straight, Sound
  <1>3. Value(thr[t].place) = "future" /\ prom[p].ptr \in {"promise", "task"}
    BY <1>1, <1>2 DEF Value, Fresh
  <1>4. v \in Available
    <2>1. thr[t].out \in Available
      BY <1>1, Sames DEF Equipped
    <2> QED BY <2>1 DEF Stored, Available
  <1>5. r.f = None /\ r.p = p /\ r.at = "ready"
    BY <1>1, Sames DEF ThreadState
  <1>6. /\ prom' = IF prom[p].ptr = "promise" THEN [prom EXCEPT ![p].local = v]
                   ELSE [prom EXCEPT ![p].taskState = v]
        /\ thr' = [thr EXCEPT ![t] = r] /\ UNCHANGED <<posted, fut, next, fault>>
    BY <1>2, <1>3, Sames DEF Store
  <1> HIDE DEF r, v
  <1>7. /\ \A y \in Id \ {p} : prom'[y] = prom[y]
        /\ prom'[p].alive /\ prom'[p].future = prom[p].future /\ prom'[p].task = prom[p].task
        /\ prom'[p].ptr = prom[p].ptr
        /\ prom[p].ptr = "promise" => prom'[p].local = v
        /\ prom[p].ptr # "promise" => prom'[p].taskState = v
    BY <1>1, <1>6, Sames DEF Promise
  <1>8. Fulfilled(prom'[p])
    BY <1>1, <1>3, <1>4, <1>7 DEF Fresh, Fulfilled
  <1>9. Leaves(t, r)
    BY <1>6 DEF Leaves
  <1>10. MakerInv' /\ Makers' \subseteq Makers
    <2>1. \A x \in Id : prom'[x].task \in {prom[x].task, None}
      BY <1>7
    <2>2. OneThen' /\ Promised' \subseteq Promised
      BY <2>1, ThenStays DEF MakerInv
    <2>3. Posts1(posted)
      BY <1>6 DEF Posts1
    <2> QED BY <1>5, <1>6, <1>9, <2>2, <2>3, MakersStay
  <1>11. \A u \in Thread : thr'[u] = IF u = t THEN r ELSE thr[u]
    BY <1>6, Sames
  <1>12. Alive'
    BY <1>6, <1>7, <1>10, <1>1 DEF Straight, Alive, Id
  <1>13. \A y \in Id : Done(y)' <=> (Done(y) \/ y = p)
    <2>1. \A y \in Id : Done(y)' <=> \E u \in Thread : thr'[u].p = y /\ thr'[u].at \in {"ready", "destroy"}
      BY DEF Done
    <2> QED BY <1>1, <1>5, <1>11, <2>1 DEF Done
  <1>14. Content'
    <2> SUFFICES ASSUME NEW y \in Id, prom'[y].alive
                 PROVE  /\ Done(y)' => Fulfilled(prom'[y])
                        /\ ~Done(y)' => Fresh(prom'[y])
      BY DEF Content, Id
    <2> QED BY <1>7, <1>8, <1>13 DEF Straight, Content
  <1>15. \A u \in Thread : thr'[u].f = thr[u].f /\ thr'[u].p = thr[u].p
    BY <1>1, <1>5, <1>11
  <1>16. InHand' = InHand
    <2>1. InHand' = {i \in Id : \E u \in Thread : thr'[u].f = i}
      BY DEF InHand, Id
    <2> QED BY <1>15, <2>1 DEF InHand
  <1>17. Linking'
    <2>1. \A y \in Id : prom'[y].future = prom[y].future
      BY <1>7
    <2>2. \A g \in Id : fut[g].promise # None => fut[g].promise \in Id
      BY Sames DEF Future
    <2> QED BY <1>6, <1>16, <2>1, <2>2 DEF Straight, Linking, Id
  <1>18. Spare' = Spare
    <2>1. Spare' = Calls(posted') \cup {y \in Id : \E u \in Thread : thr'[u].p = y /\ thr'[u].f = None}
      BY DEF Spare, Calls, Id
    <2> QED BY <1>6, <1>15, <2>1 DEF Spare
  <1>19. ASSUME NEW u \in Thread PROVE Sound(thr[u])'
    <2> DEFINE g == thr[u].f
               x == fut[g].promise
    <2>1. CASE u = t
      <3>1. thr'[u] = r
        BY <1>11, <2>1
      <3> QED BY <1>5, <3>1 DEF Sound
    <2>2. CASE u # t
      <3>1. thr'[u] = thr[u] /\ g \in Id \cup {None} /\ None \notin Id /\ Sound(thr[u])
        BY <1>11, <2>2, Sames, Numbers DEF ThreadState, Straight
      <3>2. CASE g \in Id /\ x = p
        <4>1. prom[p].future = g /\ Now(g) = prom[p].local /\ prom[p].local = "future"
          BY <1>1, <3>1, <3>2, LinkedView DEF Fresh
        <4>2. prom[p].ptr = "promise" /\ prom'[p].local = v
          BY <1>1, <1>7, <3>1, <3>2, <4>1 DEF Fresh
        <4>3. thr[u].at \notin {"attach", "relink"}
          BY <1>1, <3>1, <3>2, Numbers DEF NoCross, Cross, At
        <4>4. fut' = fut /\ Where(g)' = Where(g) /\ Now(g)' = v
          BY <1>1, <1>6, <3>1, <3>2, <4>2, Numbers DEF Where, Now
        <4>5. thr[u].at \in {"store", "destroy"} => thr[u].f = None
          BY <3>1 DEF Sound
        <4>6. thr[u].at \notin {"store", "destroy"}
          BY <3>1, <3>2, <4>5
        <4> QED BY <1>1, <1>4, <1>18, <3>1, <3>2, <4>3, <4>4, <4>6 DEF Sound
      <3>3. CASE ~(g \in Id /\ x = p)
        <4>1. x \in Id \/ x = None \/ g = None
          BY <3>1, Sames DEF Future
        <4>2. thr[u].p # p /\ (thr[u].at \in {"store", "destroy"} => thr[u].p \in Id)
          BY <1>1, <2>2, Sames DEF Equipped
        <4>3. Spared(u)
          BY <1>6, <1>7, <1>18, <3>1, <3>3, <4>1, <4>2 DEF Spared
        <4> QED BY <3>1, <4>3, SoundKept
      <3> QED BY <3>2, <3>3
    <2> QED BY <2>1, <2>2
  <1>20. Runs(posted') /\ fault' = "none"
    BY <1>6 DEF Straight
  <1> QED BY <1>10, <1>12, <1>14, <1>17, <1>19, <1>20 DEF Straight, Runs

LEMMA DestroyStraight ==
    ASSUME TypeInv, TokenInv, MakerInv, Straight, NoCross, TypeInv', NEW t \in Thread, Destroy(t)
    PROVE  MakerInv' /\ Straight'
  <1> DEFINE p == thr[t].p
             f == prom[p].future
  <1>1. /\ p \in Id /\ p \in Makers /\ prom[p].alive /\ p # next
        /\ thr[t].f = None /\ prom[p] \in Promise /\ Done(p) /\ Fulfilled(prom[p])
        /\ \A u \in Thread : u # t => thr[u].p # p
        /\ thr[t].at = "destroy"
    BY ReadyView DEF Destroy, At
  <1>2. Leaves(t, Idle) /\ Idle.f = None /\ Idle.p = None /\ Idle.at = "idle"
    BY DEF Destroy, Leaves, Idle
  <1>3. /\ prom' = [prom EXCEPT ![p] = Dead(p)]
        /\ fut' = IF f = None THEN fut
                  ELSE [fut EXCEPT ![f].local = prom[p].local, ![f].promise = None]
        /\ UNCHANGED <<posted, next, fault>>
    BY DEF Destroy
  <1>4. /\ \A y \in Id \ {p} : prom'[y] = prom[y]
        /\ ~prom'[p].alive /\ prom'[p].future = None /\ prom'[p].task = None
    BY <1>1, <1>3, Sames DEF Dead, NewPromise
  <1>5. f \in Id \cup {None} /\ None \notin Id /\ p # None
    BY <1>1, Numbers DEF Promise
  <1>6. /\ \A g \in Id : g # f => fut'[g] = fut[g]
        /\ f \in Id => /\ fut'[f].promise = None /\ fut'[f].local = prom[p].local
                       /\ fut[f].promise = p /\ prom[p].local \in Available
    <2>1. f \in Id => fut[f].promise = p
      BY <1>1, <1>5 DEF Straight, Linking
    <2>2. f \in Id => prom[p].local \in Available
      BY <1>1, <1>5 DEF Fulfilled
    <2> QED BY <1>3, <1>5, <2>1, <2>2, Sames DEF Future
  <1> HIDE DEF f
  <1>7. MakerInv' /\ Makers' \subseteq Makers /\ p \notin Makers'
    <2>1. \A x \in Id : prom'[x].task \in {prom[x].task, None}
      BY <1>4
    <2>2. OneThen' /\ Promised' \subseteq Promised
      BY <2>1, ThenStays DEF MakerInv
    <2>3. Posts1(posted)
      BY <1>3 DEF Posts1
    <2> QED BY <1>2, <1>3, <1>5, <2>2, <2>3, MakersStay
  <1>8. \A u \in Thread : thr'[u] = IF u = t THEN Idle ELSE thr[u]
    BY <1>2, Sames DEF Leaves
  <1>9. Alive'
    BY <1>3, <1>4, <1>7 DEF Straight, Alive, Id
  <1>10. \A y \in Id : y # p => (Done(y)' <=> Done(y))
    <2>1. \A y \in Id : Done(y)' <=> \E u \in Thread : thr'[u].p = y /\ thr'[u].at \in {"ready", "destroy"}
      BY DEF Done
    <2> QED BY <1>2, <1>8, <2>1 DEF Done
  <1>11. Content'
    BY <1>4, <1>10 DEF Straight, Content, Id
  <1>12. InHand' = InHand
    <2>1. InHand' = {i \in Id : \E u \in Thread : thr'[u].f = i}
      BY DEF InHand, Id
    <2> QED BY <1>1, <1>2, <1>5, <1>8, <2>1 DEF InHand
  <1>13. Linking'
    <2>1. ASSUME NEW g \in Id, fut'[g].promise # None
          PROVE  prom'[fut'[g].promise].future = g /\ g \in InHand'
      <3>1. g # f /\ fut'[g] = fut[g]
        BY <1>6, <2>1
      <3>2. fut[g].promise \in Id /\ prom[fut[g].promise].future = g /\ g \in InHand
        BY <2>1, <3>1, LinkedView
      <3>3. fut[g].promise # p
        BY <3>1, <3>2 DEF f
      <3> QED BY <1>4, <1>12, <3>1, <3>2, <3>3
    <2>2. ASSUME NEW y \in Id, prom'[y].future # None
          PROVE  fut'[prom'[y].future].promise = y
      <3>1. y # p /\ prom'[y] = prom[y]
        BY <1>4, <2>2
      <3>2. prom[y].future \in Id /\ fut[prom[y].future].promise = y
        BY <2>2, <3>1, Sames DEF Promise, Straight, Linking
      <3>3. prom[y].future # f
        BY <1>6, <3>1, <3>2
      <3> QED BY <1>6, <3>1, <3>2, <3>3
    <2> QED BY <2>1, <2>2 DEF Linking, Id
  <1>14. ASSUME NEW u \in Thread PROVE Sound(thr[u])'
    <2> DEFINE g == thr[u].f
               x == fut[g].promise
    <2>1. CASE u = t
      <3>1. thr'[u] = Idle
        BY <1>8, <2>1
      <3> QED BY <1>2, <3>1 DEF Sound
    <2>2. CASE u # t
      <3>1. thr'[u] = thr[u] /\ g \in Id \cup {None} /\ Sound(thr[u])
        BY <1>8, <2>2, Sames DEF ThreadState, Straight
      <3>2. thr[u].p # p /\ (thr[u].at \in {"store", "destroy"} => thr[u].p \in Id)
        BY <1>1, <2>2, Sames DEF Equipped
      <3>3. CASE g \in Id /\ g = f
        <4>1. x = p /\ Now(g) = prom[p].local /\ Now(g) \in Available
          BY <1>5, <1>6, <3>3, LinkedView
        <4>2. thr[u].at \notin {"peeked", "placed"}
          BY <1>1, <1>5, <3>3, <4>1 DEF NoCross, Cross
        <4>3. fut'[g].promise = None /\ fut'[g].local \in Available /\ Now(g)' \in Available
          BY <1>6, <3>1, <3>3 DEF Now
        <4>4. thr[u].at \notin {"attach", "relink", "store", "destroy"}
          BY <1>5, <3>1, <3>3, <4>1 DEF Sound
        <4> QED BY <3>1, <4>2, <4>3, <4>4 DEF Sound
      <3>4. CASE ~(g \in Id /\ g = f)
        <4>1. g \in Id => fut'[g] = fut[g]
          BY <1>6, <3>4
        <4>2. ASSUME g \in Id, x # None
              PROVE  prom'[x].local = prom[x].local /\ (x \in Spare => x \in Spare')
          <5>1. x \in Id /\ prom[x].future = g
            BY <4>2, LinkedView
          <5>2. x # p
            BY <3>4, <4>2, <5>1 DEF f
          <5>3. Calls(posted') = Calls(posted)
            BY <1>3
          <5> HIDE DEF x
          <5>4. x \in Spare => x \in Spare'
            BY <1>2, <5>2, <5>3, SpareKept
          <5> QED BY <1>4, <5>1, <5>2, <5>4
        <4>3. Spared(u)
          BY <1>4, <1>5, <3>1, <3>2, <4>1, <4>2 DEF Spared
        <4> QED BY <3>1, <4>3, SoundKept
      <3> QED BY <3>3, <3>4
    <2> QED BY <2>1, <2>2
  <1>15. Runs(posted') /\ fault' = "none"
    BY <1>3 DEF Straight
  <1> QED BY <1>7, <1>9, <1>11, <1>13, <1>14, <1>15 DEF Straight, Runs

LEMMA RelinkStraight ==
    ASSUME TypeInv, TokenInv, MakerInv, Straight, NoCross, TypeInv', NEW t \in Thread, Relink(t)
    PROVE  MakerInv' /\ Straight'
  <1> DEFINE f == thr[t].f
             p == fut[f].promise
             q == thr[t].p
             g == prom[q].future
  <1>1. /\ f \in Id /\ q \in Id /\ thr[t].at = "relink" /\ p # None /\ Now(f) \notin Available
        /\ f # None /\ q # None /\ None \notin Id /\ p \in Spare
    <2>1. f \in Id /\ q \in Id /\ thr[t].at = "relink" /\ None \notin Id
      BY Sames, Numbers DEF Relink, At, Equipped
    <2> QED BY <2>1 DEF Straight, Sound
  <1>2. /\ p \in Id /\ prom[p].alive /\ p < next /\ prom[p].future = f
        /\ ~Done(p) /\ prom[p].task = None
        /\ \A i \in Id : fut[i].promise = p => i = f
    BY <1>1, LinkedView
  <1>3. q \in Working /\ q \in Makers /\ prom[q].alive /\ ~Done(q) /\ Fresh(prom[q])
        /\ \A u \in Thread : u # t => thr[u].p # q
    <2>1. q \in Working /\ q \in Makers
      BY <1>1 DEF Working, Makers
    <2>2. prom[q].alive
      BY <1>1, <2>1 DEF Straight, Alive
    <2>3. ~Done(q)
      BY <1>1, DoneIs DEF MakerInv
    <2> QED BY <1>1, <2>1, <2>2, <2>3 DEF Straight, Content, MakerInv, OneWorker
  <1>4. q \notin Spare
    <2>1. q \notin Pending
      BY <1>1, <1>3 DEF MakerInv, Separate
    <2>2. q \notin Calls(posted)
      BY <1>1, <2>1 DEF Calls, Pending, DueIn, DueOf
    <2> QED BY <1>1, <1>3, <2>2 DEF Spare
  <1>5. p # q
    BY <1>1, <1>4
  <1>6. Leaves(t, Idle) /\ Idle.f = None /\ Idle.p = None /\ Idle.at = "idle"
    BY <1>1 DEF Relink, Leaves, Idle
  <1>7. /\ prom' = [prom EXCEPT ![p] = prom[q], ![q] = Dead(q)]
        /\ fut' = [i \in Id |->
                     IF i = f THEN ReadyFuture("invalid")
                     ELSE IF i = g THEN [fut[i] EXCEPT !.promise = p]
                     ELSE fut[i]]
        /\ UNCHANGED <<posted, next, fault>>
    BY <1>1 DEF Relink
  <1>8. /\ prom'[p] = prom[q] /\ \A y \in Id \ {p, q} : prom'[y] = prom[y]
        /\ ~prom'[q].alive /\ prom'[q].future = None /\ prom'[q].task = None
    BY <1>1, <1>2, <1>5, <1>7, Sames DEF Dead, NewPromise
  <1>9. g \in Id \cup {None} /\ (g \in Id => fut[g].promise = q /\ g # f)
    <2>1. g \in Id \cup {None}
      BY <1>1, Sames DEF Promise
    <2>2. g \in Id => fut[g].promise = q
      BY <1>1 DEF Straight, Linking
    <2> QED BY <1>5, <2>1, <2>2
  <1>10. /\ fut'[f].promise = None
         /\ \A i \in Id : i # f /\ i # g => fut'[i] = fut[i]
         /\ g \in Id => fut'[g].promise = p /\ fut'[g].local = fut[g].local
    <2>1. /\ fut'[f] = ReadyFuture("invalid")
          /\ \A i \in Id : i # f /\ i # g => fut'[i] = fut[i]
          /\ g \in Id => fut'[g] = [fut[g] EXCEPT !.promise = p]
      BY <1>1, <1>7, <1>9
    <2>2. ReadyFuture("invalid").promise = None
      BY DEF ReadyFuture
    <2>3. g \in Id => /\ [fut[g] EXCEPT !.promise = p].promise = p
                      /\ [fut[g] EXCEPT !.promise = p].local = fut[g].local
      BY Sames DEF Future
    <2> QED BY <2>1, <2>2, <2>3
  <1>11. \A i \in Id : fut[i].promise = q => i = g
    BY <1>1, LinkedView
  <1> HIDE DEF g, p, q, f
  <1>12. MakerInv' /\ Makers' \subseteq Makers /\ q \notin Makers'
    <2>1. OneThen' /\ Promised' \subseteq Promised
      BY <1>1, <1>2, <1>5, <1>8, ThenMoves DEF MakerInv
    <2>2. Posts1(posted)
      BY <1>7 DEF Posts1
    <2>3. q # Idle.p
      BY <1>1, <1>6
    <2> QED BY <1>6, <1>7, <2>1, <2>2, <2>3, MakersStay DEF q
  <1>13. \A u \in Thread : thr'[u] = IF u = t THEN Idle ELSE thr[u]
    BY <1>6, Sames DEF Leaves
  <1>14. Alive'
    <2>1. \A y \in Id : y # p /\ y # q => prom'[y] = prom[y]
      BY <1>8
    <2> QED BY <1>2, <1>3, <1>7, <1>8, <1>12, <2>1 DEF Straight, Alive, Id
  <1>15. \A y \in Id : Done(y)' <=> Done(y)
    <2>1. \A y \in Id : Done(y)' <=> \E u \in Thread : thr'[u].p = y /\ thr'[u].at \in {"ready", "destroy"}
      BY DEF Done
    <2> QED BY <1>1, <1>6, <1>13, <2>1 DEF Done
  <1>16. Content'
    <2> SUFFICES ASSUME NEW y \in Id, prom'[y].alive
                 PROVE  /\ Done(y)' => Fulfilled(prom'[y])
                        /\ ~Done(y)' => Fresh(prom'[y])
      BY DEF Content, Id
    <2> QED BY <1>2, <1>3, <1>8, <1>15 DEF Straight, Content
  <1>17. \A i \in InHand : i # f => i \in InHand'
    <2>1. InHand' = {i \in Id : \E u \in Thread : thr'[u].f = i}
      BY DEF InHand, Id
    <2> QED BY <1>13, <2>1 DEF InHand, f
  <1>18. Linking'
    <2>1. ASSUME NEW i \in Id, fut'[i].promise # None
          PROVE  prom'[fut'[i].promise].future = i /\ i \in InHand'
      <3>1. i # f
        BY <1>10, <2>1
      <3>2. CASE i = g
        <4>1. fut'[i].promise = p /\ prom'[p].future = g
          BY <1>8, <1>10, <3>2 DEF g
        <4>2. fut[g].promise # None /\ g \in Id
          BY <1>1, <1>9, <3>2
        <4>3. g \in InHand
          BY <4>2, LinkedView
        <4> QED BY <1>17, <3>1, <3>2, <4>1, <4>3
      <3>3. CASE i # g
        <4>1. fut'[i] = fut[i]
          BY <1>10, <3>1, <3>3
        <4>2. fut[i].promise \in Id /\ prom[fut[i].promise].future = i /\ i \in InHand
          BY <2>1, <4>1, LinkedView
        <4>3. fut[i].promise # p /\ fut[i].promise # q
          BY <1>2, <1>11, <3>1, <3>3
        <4> QED BY <1>8, <1>17, <3>1, <4>1, <4>2, <4>3
      <3> QED BY <3>2, <3>3
    <2>2. ASSUME NEW y \in Id, prom'[y].future # None
          PROVE  fut'[prom'[y].future].promise = y
      <3>1. y # q
        BY <1>8, <2>2
      <3>2. CASE y = p
        BY <1>8, <1>9, <1>10, <2>2, <3>2 DEF g
      <3>3. CASE y # p
        <4>1. prom'[y] = prom[y]
          BY <1>8, <3>1, <3>3
        <4>2. prom[y].future \in Id /\ fut[prom[y].future].promise = y
          BY <2>2, <4>1, Sames DEF Promise, Straight, Linking
        <4>3. prom[y].future # f /\ prom[y].future # g
          BY <1>9, <3>1, <3>3, <4>2 DEF p
        <4> QED BY <1>10, <4>1, <4>2, <4>3
      <3> QED BY <3>2, <3>3
    <2> QED BY <2>1, <2>2 DEF Linking, Id
  <1>19. ASSUME NEW u \in Thread PROVE Sound(thr[u])'
    <2> DEFINE i == thr[u].f
               x == fut[i].promise
    <2>1. CASE u = t
      <3>1. thr'[u] = Idle
        BY <1>13, <2>1
      <3> QED BY <1>6, <3>1 DEF Sound
    <2>2. CASE u # t
      <3>1. thr'[u] = thr[u] /\ i \in Id \cup {None} /\ Sound(thr[u]) /\ Equipped(thr[u])
        BY <1>13, <2>2, Sames DEF ThreadState, Straight
      <3>2. i \in Id => i # f
        BY <1>1, <2>2 DEF TokenInv, OneHand, f
      <3>3. thr[u].p # q /\ (thr[u].at \in {"store", "destroy"} => thr[u].p \in Id)
        BY <1>3, <2>2, <3>1 DEF Equipped
      <3>4. thr[u].p = p => thr[u].at \notin {"store", "destroy"}
        <4>1. thr[u].p = p => thr[u].at # "destroy"
          BY <1>2 DEF Done
        <4>2. thr[u].p = p => thr[u].at # "store"
          BY <1>1 DEF NoCross, Cross, At, f, p
        <4> QED BY <4>1, <4>2
      <3>5. /\ thr[u].at = "store" => prom'[thr[u].p].ptr = prom[thr[u].p].ptr
            /\ thr[u].at = "destroy" => prom'[thr[u].p].task \in {prom[thr[u].p].task, None}
        BY <1>8, <3>3, <3>4
      <3>6. CASE i \in Id /\ i = g
        <4>1. x = q /\ fut'[i].promise = p /\ fut'[i].local = fut[i].local
          BY <1>9, <1>10, <3>6
        <4>2. Now(i)' = Now(i)
          BY <1>1, <1>8, <3>1, <3>6, <4>1 DEF Now
        <4>3. thr[u].at \notin {"peeked", "placed"}
          BY <1>1, <3>6, <4>1 DEF NoCross, Cross, q
        <4>4. thr[u].p = None
          BY <1>1, <1>4, <3>1, <3>6, <4>1 DEF Sound
        <4>5. thr[u].at \notin {"store", "destroy"}
          BY <1>1, <3>1, <3>6 DEF Sound
        <4> QED BY <1>1, <3>1, <3>6, <4>1, <4>2, <4>3, <4>4, <4>5 DEF Sound
      <3>7. CASE ~(i \in Id /\ i = g)
        <4>1. i \in Id => fut'[i] = fut[i]
          BY <1>10, <3>2, <3>7
        <4>2. ASSUME i \in Id, x # None
              PROVE  prom'[x].local = prom[x].local /\ (x \in Spare => x \in Spare')
          <5>1. x \in Id /\ x # p /\ x # q
            BY <1>2, <1>11, <3>2, <3>7, <4>2, LinkedView
          <5>2. Calls(posted') = Calls(posted)
            BY <1>7
          <5> HIDE DEF x
          <5>3. x \in Spare => x \in Spare'
            BY <1>6, <5>1, <5>2, SpareKept DEF q
          <5> QED BY <1>8, <5>1, <5>3
        <4>3. Spared(u)
          BY <1>1, <3>1, <3>5, <4>1, <4>2 DEF Spared
        <4> QED BY <3>1, <4>3, SoundKept
      <3> QED BY <3>6, <3>7
    <2> QED BY <2>1, <2>2
  <1>20. Runs(posted') /\ fault' = "none"
    BY <1>7 DEF Straight
  <1> QED BY <1>12, <1>14, <1>16, <1>18, <1>19, <1>20 DEF Straight, Runs

-----------------------------------------------------------------------------

Uncrossed == crossed \/ fault \in Alone \/ (MakerInv /\ Straight /\ NoCross)

LEMMA InitUncrossed ==
    ASSUME Init, TypeInv
    PROVE  MakerInv /\ Straight /\ NoCross
  <1>1. /\ posted = [i \in 1..Apps |-> [k |-> "app"]] /\ \A t \in Thread : thr[t] = Idle
        /\ \A i \in Id : prom[i] = Dead(i) /\ fut[i] = ReadyFuture("invalid")
        /\ fault = "none" /\ stray = {}
    BY DEF Init
  <1>2. None \notin Id /\ Idle.p = None /\ Idle.f = None /\ Idle.at = "idle"
    BY Numbers DEF Idle
  <1>3. \A i \in Id : /\ ~prom[i].alive /\ prom[i].future = None /\ prom[i].task = None
                      /\ fut[i].promise = None
    <2>1. \A i \in Id : ~Dead(i).alive /\ Dead(i).future = None /\ Dead(i).task = None
      BY DEF Dead, NewPromise
    <2>2. ReadyFuture("invalid").promise = None
      BY DEF ReadyFuture
    <2> QED BY <1>1, <2>1, <2>2
  <1>4. \A k \in DOMAIN posted : posted[k].k = "app" /\ DueOf(posted[k]) = None
    BY <1>1 DEF DueOf
  <1>5. Working = {} /\ Pending = {} /\ Promised = {} /\ Makers = {}
    <2>1. Working = {}
      BY <1>1, <1>2 DEF Working
    <2>2. Pending = {}
      BY <1>2, <1>4 DEF Pending, DueIn
    <2>3. Promised = {}
      BY <1>2, <1>3 DEF Promised, ThenOf
    <2> QED BY <2>1, <2>2, <2>3 DEF Makers
  <1>6. MakerInv
    <2>1. OneWorker /\ DueOnce(posted)
      BY <1>1, <1>2, <1>4 DEF OneWorker, DueOnce
    <2>2. OneThen
      BY <1>2, <1>3 DEF OneThen, ThenOf
    <2>3. Separate
      BY <1>5 DEF Separate
    <2> QED BY <2>1, <2>2, <2>3 DEF MakerInv
  <1>7. Alive /\ Linking /\ Content
    BY <1>3, <1>5 DEF Alive, Linking, Content
  <1>8. ASSUME NEW t \in Thread PROVE Sound(thr[t])
    BY <1>1, <1>2 DEF Sound
  <1>9. Runs(posted)
    BY <1>4 DEF Runs
  <1>10. NoCross
    BY <1>1, <1>2 DEF NoCross, Cross
  <1> QED BY <1>1, <1>6, <1>7, <1>8, <1>9, <1>10 DEF Straight

LEMMA StepStraight ==
    ASSUME TypeInv, TokenInv, MakerInv, Straight, NoCross, TypeInv', NEW t \in Thread, Step(t)
    PROVE  LostThis(t) \/ NoMutex(t) \/ (MakerInv' /\ Straight')
  BY QuietMoves, OnlyThread, BeginStraight, DropStraight, PostReadyStraight, AttachStraight,
     CollectStraight, RunStraight, TakeStraight, ForwardStraight, RelinkStraight,
     ProduceStraight, StoreStraight, MakeReadyStraight, DestroyStraight DEF Step

LEMMA NextUncrossed ==
    ASSUME TypeInv, TokenInv, Uncrossed, TypeInv', [Next]_vars
    PROVE  Uncrossed'
  <1>1. CASE UNCHANGED vars
    <2>1. UNCHANGED <<posted, thr, prom, fut, next, crossed, fault, stray>>
      BY <1>1 DEF vars, ptrs
    <2>2. CASE crossed \/ fault \in Alone
      BY <2>1, <2>2 DEF Uncrossed
    <2>3. CASE ~crossed /\ fault \notin Alone
      <3>1. MakerInv /\ Straight /\ NoCross
        BY <2>3 DEF Uncrossed
      <3>2. MakerInv'
        BY <2>1, <3>1 DEF MakerInv, OneWorker, DueOnce, OneThen, Separate, Makers, Working,
          Pending, DueIn, Promised, ThenOf, Id
      <3>3. Alive' /\ Linking' /\ Content'
        BY <2>1, <3>1 DEF Straight, Alive, Linking, Content, Done, InHand, Makers, Working,
          Pending, DueIn, Promised, ThenOf, Id
      <3>4. \A u \in Thread : Sound(thr[u])'
        <4>1. Spare' = Spare
          BY <2>1 DEF Spare, Calls, Id
        <4>2. \A f : Where(f)' = Where(f) /\ Now(f)' = Now(f)
          BY <2>1 DEF Where, Now
        <4> QED BY <2>1, <3>1, <4>1, <4>2 DEF Straight, Sound
      <3>5. Runs(posted)' /\ fault' = "none"
        BY <2>1, <3>1 DEF Straight, Runs
      <3>6. NoCross'
        BY <2>1, <3>1 DEF NoCross, Cross, At
      <3> QED BY <3>2, <3>3, <3>4, <3>5, <3>6 DEF Straight, Uncrossed
    <2> QED BY <2>2, <2>3
  <1>2. CASE Next
    <2>1. crossed' = (crossed \/ \E t, u \in Thread : Cross(t, u)')
      BY <1>2 DEF Next
    <2>2. crossed \in BOOLEAN /\ crossed' \in BOOLEAN
      BY DEF TypeInv, Typed
    <2>3. CASE ~crossed'
      <3>1. ~crossed /\ NoCross' /\ fault \notin Alone
        BY <1>2, <2>1, <2>2, <2>3 DEF NoCross, Next, Alone
      <3>2. PICK t \in Thread : Step(t)
        BY <1>2 DEF Next
      <3>3. CASE LostThis(t) \/ NoMutex(t)
        <4>1. \E kind \in Alone : Break(kind)
          BY <3>3, AloneBreaks
        <4> QED BY <4>1 DEF Break, Uncrossed
      <3>4. CASE ~(LostThis(t) \/ NoMutex(t))
        <4>1. MakerInv' /\ Straight'
          BY <3>1, <3>2, <3>4, StepStraight DEF Uncrossed
        <4> QED BY <3>1, <4>1 DEF Uncrossed
      <3> QED BY <3>3, <3>4
    <2>4. CASE crossed'
      BY <2>4 DEF Uncrossed
    <2> QED BY <2>3, <2>4
  <1> QED BY <1>1, <1>2

LEMMA UncrossedThroughout == Spec => []Uncrossed
  <1>1. Init /\ TypeInv => Uncrossed
    BY InitUncrossed DEF Uncrossed
  <1>2. TypeInv /\ TokenInv /\ Uncrossed /\ TypeInv' /\ [Next]_vars => Uncrossed'
    BY NextUncrossed
  <1> QED BY <1>1, <1>2, TypesThroughout, TokensThroughout, PTL DEF Spec

\* However many threads, calls and continuations there are, and however the
\* steps of get(), then(), make_ready(), forward_to() and the destructors
\* interleave: until a consumer meets the producer half way in one of the four
\* ways of Cross, no promise that is gone is used, no state is set twice and
\* none is read unset, and nothing undefined happens but the two faults of
\* Alone: get() on a future with no mutex, and the this of then_wrapped().
THEOREM NothingGoneIsUsed == Spec => []NoFault
  <1>1. Uncrossed => NoFault
    BY DEF Uncrossed, Straight, NoFault, Alone
  <1> QED BY <1>1, UncrossedThroughout, PTL

-----------------------------------------------------------------------------
(* Values: what a state holds, wherever it is, is what its call was made   *)
(* to return.                                                              *)

Unset(c) == (c.ptr = "promise" /\ c.local = "future") \/ (c.ptr = "task" /\ c.taskState = "future")

\* A promise, with the contents c, and the future it answers.
Sealed(c) ==
    c.alive => /\ c.whose \in Id /\ c.whose < next
               /\ c.future # None => c.whose = c.future /\ c.local = made[c.whose]
               /\ c.task # None => c.whose = c.task.of /\ c.taskState = made[c.whose]
               /\ Unset(c) => made[c.whose] = "future"

Seals ==
    /\ \A p \in Id : Sealed(prom[p])
    /\ \A p, q \in Id :
           prom[p].alive /\ prom[q].alive /\ prom[p].whose = prom[q].whose => p = q

Held == \A i \in InHand : fut[i].promise = None => fut[i].local = made[i]
Tells(q) == \A k \in DOMAIN q : q[k].k = "run" => q[k].st = made[q[k].task.of]
Blank == \A i \in Id : i >= next => made[i] = "future"
Received == \A i \in Id : \A k \in 1..Len(taken[i]) : taken[i][k] = made[i]

Meant == Seals /\ Held /\ Tells(posted) /\ Blank /\ Received

\* What a step may make of promise y and of what future i shows, and a result
\* handed over.
Reseals(y) ==
    prom'[y].alive =>
        prom[y].alive /\ prom'[y].whose = prom[y].whose /\ Sealed(prom'[y])
Shows(i) ==
    fut'[i].promise = None =>
        \/ fut[i].promise = None /\ fut'[i].local = fut[i].local
        \/ fut'[i].local = made[i]
Gets == \A i \in Id : taken'[i] = taken[i] \/ taken'[i] = Append(taken[i], made[i])

\* Nothing is made, or a new future.
Makes ==
    \/ next' = next /\ made' = made /\ (next \in Id => prom'[next] = prom[next])
    \/ NextLinked /\ made' = made
    \/ NextReady /\ made' = [made EXCEPT ![next] = fut'[next].local]

LEMMA MakesOnly ==
    ASSUME TypeInv, Makes
    PROVE  /\ next \in Nat /\ next' \in {next, next + 1}
           /\ \A i \in Id : made'[i] = made[i] \/ (i = next /\ next' = next + 1)
  BY Sames DEF Makes, NextLinked, NextReady

LEMMA SealsKept ==
    ASSUME TypeInv, Straight, Seals, Blank, Makes, \A y \in Id : y # next => Reseals(y)
    PROVE  Seals'
  <1>1. /\ next \in Nat /\ next' \in {next, next + 1}
        /\ \A i \in Id : made'[i] = made[i] \/ (i = next /\ next' = next + 1)
    BY MakesOnly
  <1>2. Id \subseteq Nat
    BY Numbers
  <1>3. next \in Id => \/ ~prom'[next].alive
                       \/ prom'[next] = NewPromise(next) /\ next' = next + 1 /\ made'[next] = "future"
    <2>1. next \in Id => ~prom[next].alive /\ made[next] = "future"
      BY <1>1 DEF Straight, Alive, Blank
    <2> QED BY <2>1 DEF Makes, NextLinked, NextReady
  <1>4. \A y \in Id : y # next /\ prom'[y].alive =>
           prom[y].alive /\ prom'[y].whose = prom[y].whose /\ prom'[y].whose # next
           /\ prom'[y].whose \in Id
    BY <1>1, <1>2 DEF Reseals, Sealed
  <1>5. ASSUME NEW y \in Id PROVE Sealed(prom[y])'
    <2>1. CASE y = next
      <3>1. LET c == NewPromise(next) IN
            /\ c.whose = next /\ c.future = next /\ c.local = "future" /\ c.task = None
        BY DEF NewPromise
      <3> QED BY <1>1, <1>3, <2>1, <3>1 DEF Sealed, Unset, Id
    <2>2. CASE y # next
      <3> DEFINE c == prom'[y]
      <3>1. SUFFICES ASSUME c.alive
                     PROVE  /\ c.whose \in Id /\ c.whose < next'
                            /\ c.future # None => c.whose = c.future /\ c.local = made'[c.whose]
                            /\ c.task # None => c.whose = c.task.of /\ c.taskState = made'[c.whose]
                            /\ Unset(c) => made'[c.whose] = "future"
        BY DEF Sealed, Unset, Id
      <3>2. Sealed(c) /\ made'[c.whose] = made[c.whose] /\ c.whose \in Id
        BY <1>1, <1>4, <2>2, <3>1 DEF Reseals
      <3> HIDE DEF c
      <3>3. c.whose < next => c.whose < next'
        <4>1. c.whose \in Nat
          BY <1>2, <3>2
        <4> QED BY <1>1, <4>1
      <3> QED BY <3>1, <3>2, <3>3 DEF Sealed
    <2> QED BY <2>1, <2>2
  <1>6. ASSUME NEW y \in Id, NEW z \in Id, prom'[y].alive, prom'[z].alive,
               prom'[y].whose = prom'[z].whose
        PROVE  y = z
    <2>1. NewPromise(next).whose = next
      BY DEF NewPromise
    <2> QED BY <1>3, <1>4, <1>6, <2>1 DEF Seals
  <1> QED BY <1>5, <1>6 DEF Seals, Id

LEMMA HeldKept ==
    ASSUME TypeInv, TokenInv, Held, Makes, NEW t \in Thread, NEW r, Leaves(t, r),
           r.f \in {thr[t].f, None, next}, r.f = next => next' = next + 1,
           \A i \in Id : i # next /\ (i # thr[t].f \/ i = r.f) => Shows(i)
    PROVE  Held'
  <1>1. /\ next \in Nat /\ next' \in {next, next + 1}
        /\ \A i \in Id : made'[i] = made[i] \/ (i = next /\ next' = next + 1)
    BY MakesOnly
  <1>2. InHand' \subseteq (InHand \ {thr[t].f}) \cup {r.f} /\ None \notin InHand'
    BY HandMoves, NewIsFresh, Numbers DEF TokenInv, InHand, Id
  <1>3. thr[t].f \in Id => thr[t].f \in InHand
    BY HasInHand
  <1>4. next \notin InHand /\ InHand \subseteq Id
    BY NewIsFresh DEF InHand
  <1>5. SUFFICES ASSUME NEW i \in InHand', fut'[i].promise = None
                 PROVE  fut'[i].local = made'[i]
    BY DEF Held
  <1>6. InHand' \subseteq Id
    BY DEF InHand, Id
  <1>7. CASE i = next
    <2>1. next' = next + 1 /\ next \in Id
      BY <1>2, <1>4, <1>6, <1>7
    <2>2. next' # next
      BY <1>1, <2>1
    <2>3. Linked(next).promise # None
      BY NewIsFresh DEF Linked
    <2> QED BY <1>5, <1>7, <2>1, <2>2, <2>3, Sames DEF Makes, NextLinked, NextReady
  <1>8. CASE i # next
    <2>1. i \in InHand /\ Shows(i) /\ i \in Id
      BY <1>2, <1>3, <1>6, <1>8
    <2> QED BY <1>1, <1>5, <1>8, <2>1 DEF Shows, Held
  <1> QED BY <1>7, <1>8

LEMMA TellsKept ==
    ASSUME TypeInv, TypeInv', Straight', Blank, Makes, Tells(posted')
    PROVE  Tells(posted)'
  <1>1. SUFFICES ASSUME NEW k \in DOMAIN posted', posted'[k].k = "run"
                 PROVE  posted'[k].st = made'[posted'[k].task.of]
    BY DEF Tells
  <1> DEFINE h == posted'[k]
  <1>2. posted' \in Seq(Handler)
    BY DEF TypeInv, Typed, Handler, Continuation, Id, State
  <1>3. h \in Handler
    BY <1>1, <1>2
  <1>4. h.task.of \in Id /\ h.st = made[h.task.of]
    BY <1>1, <1>3, HandlerParts DEF Continuation, Tells
  <1>5. h.st \in Available
    BY <1>1 DEF Straight, Runs
  <1>6. next \in Id => made[next] = "future"
    BY Sames, Numbers DEF Blank
  <1>7. h.task.of # next
    BY <1>4, <1>5, <1>6 DEF Available
  <1> QED BY <1>4, <1>7, MakesOnly

LEMMA BlankKept ==
    ASSUME TypeInv, Blank, Makes
    PROVE  Blank'
  <1>1. /\ next \in Nat /\ next' \in {next, next + 1}
        /\ \A i \in Id : made'[i] = made[i] \/ (i = next /\ next' = next + 1)
    BY MakesOnly
  <1> QED BY <1>1, Numbers DEF Blank, Id

LEMMA ReceivedKept ==
    ASSUME TypeInv, TypeInv', Blank, Received, Makes, Gets
    PROVE  Received'
  <1>1. SUFFICES ASSUME NEW i \in Id, NEW k \in 1..Len(taken'[i])
                 PROVE  taken'[i][k] = made'[i]
    BY DEF Received, Id
  <1>2. taken[i] \in Seq(Available) /\ taken'[i] \in Seq(Available)
    BY Sames DEF TypeInv, Typed, Id
  <1>3. taken'[i][k] = made[i]
    <2>1. CASE taken'[i] = taken[i]
      BY <1>1, <2>1 DEF Received
    <2>2. CASE taken'[i] = Append(taken[i], made[i])
      <3>1. k \in 1..Len(taken[i]) + 1 /\ Len(taken[i]) \in Nat
        BY <1>2, <2>2
      <3>2. k \in 1..Len(taken[i]) => taken'[i][k] = taken[i][k]
        BY <1>2, <2>2
      <3>3. k = Len(taken[i]) + 1 => taken'[i][k] = made[i]
        BY <1>2, <2>2
      <3>4. k \in 1..Len(taken[i]) => taken[i][k] = made[i]
        BY DEF Received
      <3> QED BY <3>1, <3>2, <3>3, <3>4
    <2> QED BY <2>1, <2>2 DEF Gets
  <1>4. taken'[i][k] \in Available
    BY <1>2
  <1>5. i = next => made[i] = "future"
    BY Sames, Numbers DEF Blank
  <1>6. i # next
    BY <1>3, <1>4, <1>5 DEF Available
  <1> QED BY <1>3, <1>6, MakesOnly

LEMMA MeantKept ==
    ASSUME TypeInv, TokenInv, Straight, Meant, TypeInv', Straight', Makes,
           \A y \in Id : y # next => Reseals(y),
           NEW t \in Thread, NEW r, Leaves(t, r),
           r.f \in {thr[t].f, None, next}, r.f = next => next' = next + 1,
           \A i \in Id : i # next /\ (i # thr[t].f \/ i = r.f) => Shows(i),
           Tells(posted'), Gets
    PROVE  Meant'
  <1>1. Seals' /\ Held' /\ Blank' /\ Received'
    BY SealsKept, HeldKept, BlankKept, ReceivedKept DEF Meant
  <1>2. Tells(posted)'
    BY TellsKept DEF Meant
  <1> QED BY <1>1, <1>2 DEF Meant

LEMMA NowMeant ==
    ASSUME TypeInv, MakerInv, Straight, Meant, NEW f \in InHand
    PROVE  Now(f) = made[f]
  <1>1. f \in Id
    BY DEF InHand
  <1>2. CASE fut[f].promise = None
    BY <1>2 DEF Now, Meant, Held
  <1>3. CASE fut[f].promise # None
    <2> DEFINE p == fut[f].promise
    <2>1. p \in Id /\ prom[p].alive /\ prom[p].future = f /\ Now(f) = prom[p].local
      BY <1>1, <1>3, LinkedView
    <2>2. Sealed(prom[p])
      BY <2>1 DEF Meant, Seals
    <2> QED BY <1>1, <2>1, <2>2, Numbers DEF Sealed
  <1> QED BY <1>2, <1>3

LEMMA SameSeals ==
    ASSUME Meant, NEW y \in Id, prom'[y] = prom[y]
    PROVE  Reseals(y)
  BY DEF Meant, Seals, Reseals

LEMMA QuietMeant ==
    ASSUME TypeInv, TokenInv, Straight, Meant, TypeInv', Straight', NEW t \in Thread, NEW r,
           MovesOn(t, r), UNCHANGED <<made, taken>>
    PROVE  Meant'
  <1>1. Leaves(t, r) /\ r.f = thr[t].f /\ UNCHANGED <<posted, prom, next>>
    BY DEF MovesOn
  <1>2. Makes /\ Gets /\ Tells(posted')
    BY <1>1 DEF Makes, Gets, Meant
  <1>3. \A y \in Id : Reseals(y)
    BY <1>1, SameSeals
  <1>4. \A i \in Id : Shows(i)
    BY DEF Shows, MovesOn
  <1>5. r.f # next
    BY <1>1, NewIsFresh
  <1> QED BY <1>1, <1>2, <1>3, <1>4, <1>5, MeantKept

\* A promise whose future is gone, with its state or without.
LEMMA LeftSealed ==
    ASSUME NEW c \in Promise, Sealed(c)
    PROVE  /\ Sealed([c EXCEPT !.future = None])
           /\ Sealed([c EXCEPT !.future = None, !.local = "invalid"])
  <1> DEFINE d == [c EXCEPT !.future = None]
             e == [c EXCEPT !.future = None, !.local = "invalid"]
  <1>1. /\ d.alive = c.alive /\ d.whose = c.whose /\ d.future = None /\ d.task = c.task
        /\ d.taskState = c.taskState /\ d.ptr = c.ptr /\ d.local = c.local
        /\ e.alive = c.alive /\ e.whose = c.whose /\ e.future = None /\ e.task = c.task
        /\ e.taskState = c.taskState /\ e.ptr = c.ptr /\ e.local = "invalid"
    BY DEF Promise
  <1> HIDE DEF d, e
  <1>2. Sealed(d) /\ Sealed(e)
    BY <1>1 DEF Sealed, Unset
  <1> QED BY <1>2 DEF d, e

LEMMA LeftSeals ==
    ASSUME TypeInv, MakerInv, Straight, Meant, NEW f \in Id, NEW y \in Id,
           prom'[y] = Unlinked(f)[y] \/ prom'[y] = PromWithout(f, Where(f))[y]
    PROVE  Reseals(y)
  <1>1. prom[y] \in Promise /\ Sealed(prom[y])
    BY Sames DEF Meant, Seals
  <1>2. CASE fut[f].promise = y
    <2>1. prom'[y] \in {[prom[y] EXCEPT !.future = None],
                        [prom[y] EXCEPT !.future = None, !.local = "invalid"]}
      <3>1. /\ Unlinked(f)[y] = [prom[y] EXCEPT !.future = None]
            /\ PromWithout(f, Where(f))[y] = [prom[y] EXCEPT !.future = None, !.local = "invalid"]
        BY <1>2, WithoutOwn
      <3> QED BY <3>1
    <2>2. prom'[y].alive = prom[y].alive /\ prom'[y].whose = prom[y].whose
      BY <1>1, <2>1 DEF Promise
    <2>3. Sealed(prom'[y])
      BY <1>1, <2>1, LeftSealed
    <2> QED BY <2>2, <2>3 DEF Reseals
  <1>3. CASE fut[f].promise # y
    BY <1>3, WithoutOwn, SameSeals
  <1> QED BY <1>2, <1>3

LEMMA HandedOver ==
    ASSUME TypeInv, NEW f \in Id, taken' = [taken EXCEPT ![f] = Append(@, made[f])]
    PROVE  Gets
  BY Sames DEF Gets

\* A thread that is done with its future, and begins no call.
LEMMA AwayMeant ==
    ASSUME TypeInv, TokenInv, MakerInv, Straight, Meant, TypeInv', Straight',
           NEW t \in Thread, NEW r, Leaves(t, r), thr[t].f \in Id, r.f = None,
           prom' = Unlinked(thr[t].f) \/ prom' = PromWithout(thr[t].f, Where(thr[t].f)),
           \A g \in Id \ {thr[t].f} : fut'[g] = fut[g],
           UNCHANGED <<posted, next, made>>, Gets
    PROVE  Meant'
  <1>1. \A y \in Id : Reseals(y)
    BY LeftSeals
  <1>2. next \in Id => prom'[next] = prom[next]
    <2>1. fut[thr[t].f].promise # next
      BY NextOwned DEF Own
    <2>2. next \in Id => /\ Unlinked(thr[t].f)[next] = prom[next]
                          /\ PromWithout(thr[t].f, Where(thr[t].f))[next] = prom[next]
      BY <2>1, WithoutOwn
    <2> QED BY <2>2
  <1>3. Makes /\ Tells(posted')
    BY <1>2 DEF Makes, Meant
  <1>4. \A i \in Id : i # thr[t].f => Shows(i)
    BY DEF Shows
  <1>5. r.f # next /\ thr[t].f # r.f
    BY NextOwned, Numbers
  <1> QED BY <1>1, <1>3, <1>4, <1>5, MeantKept

LEMMA DropMeant ==
    ASSUME TypeInv, TokenInv, MakerInv, Straight, Meant, TypeInv', Straight',
           NEW t \in Thread, Drop(t)
    PROVE  Meant'
  <1>1. thr[t].f \in Id
    BY Sames DEF Drop, At, Equipped
  <1>2. Leaves(t, Idle) /\ Idle.f = None
    BY DEF Drop, Leaves, Idle
  <1>3. \A g \in Id \ {thr[t].f} : fut'[g] = fut[g]
    BY <1>1, Sames DEF Drop
  <1>4. prom' = Unlinked(thr[t].f) /\ UNCHANGED <<posted, next, made>> /\ Gets
    BY DEF Drop, Gets
  <1> QED BY <1>1, <1>2, <1>3, <1>4, AwayMeant

LEMMA CollectMeant ==
    ASSUME TypeInv, TokenInv, MakerInv, Straight, Meant, TypeInv', Straight',
           NEW t \in Thread, Collect(t)
    PROVE  Meant'
  <1> DEFINE f == thr[t].f
             v == Value(Found(f))
             r == IF thr[t].p = None THEN Idle ELSE Returned(thr[t].p, v)
  <1>1. f \in Id /\ thr[t].at = "collect" /\ Now(f) \in Available
    BY Sames DEF Collect, At, Equipped, Straight, Sound
  <1>2. Found(f) = Where(f) /\ v = Now(f) /\ v = made[f]
    BY <1>1, ReadWhere, HasInHand, NowMeant
  <1>3. /\ thr' = [thr EXCEPT ![t] = r] /\ prom' = PromWithout(f, Where(f))
        /\ fut' = FutWithout(f) /\ UNCHANGED <<posted, next, made>>
        /\ taken' = [taken EXCEPT ![f] = Append(@, v)]
    BY <1>1, <1>2, Sames DEF Collect, Found
  <1>4. r.f = None
    BY DEF Idle, Returned
  <1> HIDE DEF r, v
  <1>5. Leaves(t, r)
    BY <1>3 DEF Leaves
  <1>6. \A g \in Id \ {f} : fut'[g] = fut[g]
    BY <1>1, <1>3, FutWithoutIs
  <1>7. Gets
    BY <1>1, <1>2, <1>3, HandedOver
  <1> HIDE DEF f
  <1> QED BY <1>1, <1>3, <1>4, <1>5, <1>6, <1>7, AwayMeant DEF f

LEMMA ForwardMeant ==
    ASSUME TypeInv, TokenInv, MakerInv, Straight, NoCross, Meant, TypeInv', Straight',
           NEW t \in Thread, Forward(t)
    PROVE  Meant'
  <1> DEFINE f == thr[t].f
             v == Seen(t)
             r == Returned(thr[t].p, v)
  <1>1. f \in Id /\ thr[t].place = Where(f) /\ Now(f) \in Available
    BY Sames, SeesThere DEF Forward, At, Equipped, Straight, Sound
  <1>2. v = Now(f) /\ v = made[f]
    BY <1>1, ReadWhere, SeesThere, HasInHand, NowMeant
  <1>3. /\ thr' = [thr EXCEPT ![t] = r] /\ prom' = PromWithout(f, Where(f))
        /\ fut' = FutWithout(f) /\ UNCHANGED <<posted, next, made>>
        /\ taken' = [taken EXCEPT ![f] = Append(@, v)]
    BY <1>1, <1>2, Sames DEF Forward
  <1>4. r.f = None
    BY DEF Idle, Returned
  <1> HIDE DEF r, v
  <1>5. Leaves(t, r)
    BY <1>3 DEF Leaves
  <1>6. \A g \in Id \ {f} : fut'[g] = fut[g]
    BY <1>1, <1>3, FutWithoutIs
  <1>7. Gets
    BY <1>1, <1>2, <1>3, HandedOver
  <1> HIDE DEF f
  <1> QED BY <1>1, <1>3, <1>4, <1>5, <1>6, <1>7, AwayMeant DEF f

LEMMA TellsAppend ==
    ASSUME NEW q \in Seq(Handler), NEW h \in Handler, Tells(q),
           h.k = "run" => h.st = made[h.task.of]
    PROVE  Tells(Append(q, h))
  BY DEF Tells

LEMMA TellsTail ==
    ASSUME NEW q \in Seq(Handler), q # <<>>, Tells(q)
    PROVE  Tells(Tail(q)) /\ (Head(q).k = "run" => Head(q).st = made[Head(q).task.of])
  <1>1. Len(q) \in Nat \ {0} /\ DOMAIN q = 1 .. Len(q) /\ DOMAIN Tail(q) = 1 .. Len(q) - 1
        /\ Head(q) = q[1] /\ \A k \in 1 .. Len(q) - 1 : Tail(q)[k] = q[k + 1]
    OBVIOUS
  <1> QED BY <1>1 DEF Tells

\* A thread that takes the state of its future and goes on with a new one.
LEMMA OnMeant ==
    ASSUME TypeInv, TokenInv, MakerInv, Straight, Meant, TypeInv', Straight',
           NEW t \in Thread, NEW r, Leaves(t, r), r.f = next, next' = next + 1, Makes,
           thr[t].f \in Id,
           \A y \in Id \ {next} : prom'[y] = PromWithout(thr[t].f, Where(thr[t].f))[y],
           \A g \in Id \ {thr[t].f, next} : fut'[g] = fut[g],
           Tells(posted'), Gets
    PROVE  Meant'
  <1>1. \A y \in Id : y # next => Reseals(y)
    BY LeftSeals
  <1>2. \A i \in Id : i # next /\ i # thr[t].f => Shows(i)
    BY DEF Shows
  <1> QED BY <1>1, <1>2, MeantKept

LEMMA PostReadyMeant ==
    ASSUME TypeInv, TokenInv, MakerInv, Straight, NoCross, Meant, TypeInv', Straight',
           NEW t \in Thread, PostReady(t)
    PROVE  Meant'
  <1> DEFINE f == thr[t].f
             r == [Idle EXCEPT !.at = "hold", !.f = next]
             task == [of |-> f, q |-> next, op |-> thr[t].op]
             v == Seen(t)
             h == [k |-> "run", st |-> v, task |-> task]
             P == PromWithout(f, Where(f))
             F == FutWithout(f)
  <1>1. /\ thr[t].at = "placed" /\ f \in Id /\ thr[t].op \in {"then", "wrapped"}
        /\ thr[t].place = Where(f) /\ v \in Available
    BY Sames DEF PostReady, At, Equipped, Straight, Sound
  <1>2. v = made[f]
    BY <1>1, ReadWhere, SeesThere, HasInHand, NowMeant
  <1>3. next \in Id
    BY <1>1, NextIsFree DEF PostReady, Chaining, Chains
  <1>4. h \in Handler /\ h.st = made[h.task.of]
    <2>1. task \in Continuation /\ task.of = f
      BY <1>1, <1>3 DEF Continuation
    <2>2. v \in State
      BY <1>1 DEF Available, State
    <2> QED BY <1>2, <2>1, <2>2, HandlerMade
  <1>5. /\ prom' = [P EXCEPT ![next] = NewPromise(next)]
        /\ fut' = [F EXCEPT ![next] = Linked(next)]
        /\ posted' = Append(posted, h) /\ next' = next + 1 /\ UNCHANGED <<made, taken>>
    BY <1>1, SeesThere DEF PostReady
  <1>6. Leaves(t, r) /\ r.f = next
    BY DEF PostReady, Leaves, Idle
  <1>7. P \in [Id -> Promise] /\ F \in [Id -> Future] /\ \A g \in Id \ {f} : F[g] = fut[g]
    BY <1>1, WithoutOwn, UnlinkedTyped, FutWithoutIs
  <1> HIDE DEF r, h, task, v, P, F
  <1>8. NextLinked
    BY <1>3, <1>5, <1>7 DEF NextLinked
  <1>9. /\ \A y \in Id \ {next} : prom'[y] = P[y]
        /\ \A g \in Id \ {f, next} : fut'[g] = fut[g]
    BY <1>5, <1>7
  <1>10. Tells(posted')
    BY <1>4, <1>5, Sames, TellsAppend DEF Meant
  <1>11. Makes /\ Gets
    BY <1>5, <1>8 DEF Makes, Gets
  <1> HIDE DEF f
  <1> QED BY <1>1, <1>5, <1>6, <1>9, <1>10, <1>11, OnMeant DEF P, f

LEMMA TakeMeant ==
    ASSUME TypeInv, TokenInv, MakerInv, Straight, NoCross, Meant, TypeInv', Straight',
           NEW t \in Thread, Take(t)
    PROVE  Meant'
  <1> DEFINE f == thr[t].f
             v == Seen(t)
             h == [k |-> "produce", p |-> next]
             P == PromWithout(f, Where(f))
             F == FutWithout(f)
  <1>1. /\ f \in Id /\ thr[t].op \in {"then", "wrapped"}
        /\ thr[t].place = Where(f) /\ Now(f) \in Available
    BY Sames, SeesThere DEF Take, At, Equipped, Straight, Sound
  <1>2. v = made[f] /\ v \in Available
    BY <1>1, ReadWhere, SeesThere, HasInHand, NowMeant
  <1>3. next \in Id /\ f # next
    BY <1>1, NextIsFree, NextOwned DEF Take, Chaining, Chains
  <1>4. h \in Handler /\ h.k # "run"
    BY <1>3, HandlerMade
  <1>5. next' = next + 1 /\ taken' = [taken EXCEPT ![f] = Append(@, v)]
    BY <1>1, <1>2 DEF Take
  <1>6. P \in [Id -> Promise] /\ F \in [Id -> Future] /\ \A g \in Id \ {f} : F[g] = fut[g]
    BY <1>1, WithoutOwn, UnlinkedTyped, FutWithoutIs
  <1>7. P[next] = prom[next]
    BY <1>1, <1>3, WithoutOwn, NextOwned DEF Own
  <1>8. Gets
    BY <1>1, <1>2, <1>5, HandedOver
  <1>9. CASE /\ \E out \in Available : /\ fut' = [F EXCEPT ![next] = ReadyFuture(out)]
                                       /\ made' = [made EXCEPT ![next] = out]
             /\ prom' = P /\ posted' = posted
             /\ thr' = [thr EXCEPT ![t] = [Idle EXCEPT !.at = "hold", !.f = next]]
    <2> DEFINE r == [Idle EXCEPT !.at = "hold", !.f = next]
    <2>1. PICK out \in Available : /\ fut' = [F EXCEPT ![next] = ReadyFuture(out)]
                                   /\ made' = [made EXCEPT ![next] = out]
      BY <1>9
    <2>2. Leaves(t, r) /\ r.f = next
      BY <1>9 DEF Leaves, Idle
    <2> HIDE DEF r, P, F, v
    <2>3. fut'[next] = ReadyFuture(out) /\ ReadyFuture(out).promise = None
          /\ ReadyFuture(out).local = out
      BY <1>3, <1>6, <2>1 DEF ReadyFuture
    <2>4. NextReady
      BY <1>3, <1>5, <1>7, <1>9, <2>3 DEF NextReady
    <2>5. Makes
      BY <2>1, <2>3, <2>4 DEF Makes
    <2>6. /\ \A y \in Id \ {next} : prom'[y] = P[y]
          /\ \A g \in Id \ {f, next} : fut'[g] = fut[g]
      BY <1>6, <1>9, <2>1
    <2>7. Tells(posted')
      BY <1>9 DEF Meant
    <2> HIDE DEF f
    <2> QED BY <1>1, <1>5, <1>8, <2>2, <2>5, <2>6, <2>7, OnMeant DEF P, f
  <1>10. CASE /\ fut' = [F EXCEPT ![next] = Linked(next)]
              /\ prom' = [P EXCEPT ![next] = NewPromise(next)]
              /\ posted' = Append(posted, h)
              /\ \E how \in {"waits", "returns"} : thr' = [thr EXCEPT ![t] = Started(None, how)]
              /\ made' = made
    <2>1. PICK how \in {"waits", "returns"} : thr' = [thr EXCEPT ![t] = Started(None, how)]
      BY <1>10
    <2> DEFINE r == Started(None, how)
    <2>2. Leaves(t, r) /\ r.f = next
      BY <2>1 DEF Leaves, Idle, Started
    <2> HIDE DEF r, P, F, v, h
    <2>3. NextLinked
      BY <1>3, <1>5, <1>6, <1>10 DEF NextLinked
    <2>4. /\ \A y \in Id \ {next} : prom'[y] = P[y]
          /\ \A g \in Id \ {f, next} : fut'[g] = fut[g]
      BY <1>6, <1>10
    <2>5. Tells(posted')
      BY <1>4, <1>10, Sames, TellsAppend DEF Meant
    <2>6. Makes
      BY <1>10, <2>3 DEF Makes
    <2> HIDE DEF f
    <2> QED BY <1>1, <1>5, <1>8, <2>2, <2>4, <2>5, <2>6, OnMeant DEF P, f
  <1> QED BY <1>1, <1>2, <1>9, <1>10 DEF Take

LEMMA BeginMeant ==
    ASSUME TypeInv, TokenInv, MakerInv, Straight, Meant, TypeInv', Straight',
           NEW t \in Thread, Begin(t)
    PROVE  Meant'
  <1> DEFINE r == [Idle EXCEPT !.at = "hold", !.f = next]
             h == [k |-> "produce", p |-> next]
             base == Tail(posted)
  <1>1. next \in Id /\ next' = next + 1
    BY NextIsFree DEF Begin
  <1>2. thr[t].f = None
    BY DEF Begin, At, Straight, Sound
  <1>3. Leaves(t, r) /\ r.f = next
    BY DEF Begin, Leaves, Idle
  <1>4. posted \in Seq(Handler) /\ posted # <<>> /\ base \in Seq(Handler)
    BY PostedOnce DEF Begin
  <1>5. h \in Handler /\ h.k # "run"
    BY <1>1, HandlerMade
  <1>6. Tells(base)
    BY <1>4, TellsTail DEF Meant
  <1>7. Gets
    BY DEF Begin, Gets
  <1> HIDE DEF r, base, h
  <1>8. CASE /\ posted' = Append(base, h)
             /\ prom' = [prom EXCEPT ![next] = NewPromise(next)]
             /\ fut' = [fut EXCEPT ![next] = Linked(next)]
             /\ made' = made
    <2>1. NextLinked
      BY <1>1, <1>8, Sames DEF NextLinked
    <2>2. Makes
      BY <1>8, <2>1 DEF Makes
    <2>3. Tells(posted')
      BY <1>4, <1>5, <1>6, <1>8, TellsAppend
    <2>4. \A y \in Id : y # next => Reseals(y)
      BY <1>8, Sames, SameSeals
    <2>5. \A i \in Id : i # next => Shows(i)
      BY <1>8, Sames DEF Shows
    <2> QED BY <1>1, <1>2, <1>3, <1>7, <2>2, <2>3, <2>4, <2>5, MeantKept
  <1>9. CASE /\ posted' = base
             /\ prom' = prom
             /\ fut' = [fut EXCEPT ![next] = ReadyFuture("exception")]
             /\ made' = [made EXCEPT ![next] = "exception"]
    <2>1. fut'[next].promise = None /\ fut'[next].local = "exception"
      BY <1>1, <1>9, Sames DEF ReadyFuture
    <2>2. NextReady
      BY <1>1, <1>9, <2>1 DEF NextReady, Available
    <2>3. Makes
      BY <1>9, <2>1, <2>2 DEF Makes
    <2>4. \A y \in Id : y # next => Reseals(y)
      BY <1>9, SameSeals
    <2>5. \A i \in Id : i # next => Shows(i)
      BY <1>9, Sames DEF Shows
    <2> QED BY <1>1, <1>2, <1>3, <1>6, <1>7, <1>9, <2>3, <2>4, <2>5, MeantKept
  <1> QED BY <1>8, <1>9 DEF Begin, base, h

LEMMA ProduceMeant ==
    ASSUME TypeInv, TokenInv, MakerInv, Straight, Meant, TypeInv', Straight',
           NEW t \in Thread, Produce(t)
    PROVE  Meant'
  <1> DEFINE r == [Idle EXCEPT !.at = "pmove", !.p = Head(posted).p]
  <1>1. thr[t].f = None
    BY DEF Produce, At, Straight, Sound
  <1>2. Leaves(t, r) /\ r.f = None
    BY DEF Produce, Leaves, Idle
  <1>3. /\ posted # <<>> /\ posted' = Tail(posted)
        /\ UNCHANGED <<prom, fut, next, made, taken>>
    BY DEF Produce
  <1> HIDE DEF r
  <1>4. Tells(posted')
    BY <1>3, Sames, TellsTail DEF Meant
  <1>5. Makes /\ Gets /\ \A i \in Id : Shows(i)
    BY <1>3 DEF Makes, Gets, Shows
  <1>6. \A y \in Id : Reseals(y)
    BY <1>3, SameSeals
  <1>7. r.f # next
    BY <1>2, NewIsFresh
  <1> QED BY <1>1, <1>2, <1>4, <1>5, <1>6, <1>7, MeantKept

LEMMA AttachMeant ==
    ASSUME TypeInv, TokenInv, MakerInv, Straight, Meant, TypeInv', Straight',
           NEW t \in Thread, Attach(t)
    PROVE  Meant'
  <1> DEFINE f == thr[t].f
             p == fut[f].promise
             c == [of |-> f, q |-> next, op |-> thr[t].op]
             r == [Idle EXCEPT !.at = "hold", !.f = next]
             e == [prom[p] EXCEPT !.future = None, !.ptr = "task", !.taskState = "future",
                                  !.task = c]
  <1>1. f \in Id /\ thr[t].at = "attach" /\ p # None /\ Now(f) \notin Available
        /\ thr[t].op \in {"then", "wrapped"}
    BY Sames DEF Attach, At, Equipped, Straight, Sound, Chains
  <1>2. /\ p \in Id /\ prom[p].alive /\ p # next /\ prom[p].future = f
        /\ ~Done(p) /\ prom[p].local = "future"
    BY <1>1, LinkedView
  <1>3. next \in Id /\ f # next
    BY <1>1, NextIsFree, NextOwned DEF Chaining, Chains
  <1>4. Leaves(t, r) /\ r.f = next
    BY <1>1 DEF Attach, Leaves, Idle
  <1>5. /\ prom' = [prom EXCEPT ![p] = e, ![next] = NewPromise(next)]
        /\ fut' = [fut EXCEPT ![f].promise = None, ![next] = Linked(next)]
        /\ next' = next + 1 /\ UNCHANGED <<posted, made, taken>>
    BY <1>1 DEF Attach
  <1>6. /\ e.alive /\ e.future = None /\ e.ptr = "task" /\ e.taskState = "future" /\ e.task = c
        /\ e.whose = prom[p].whose /\ c.of = f
    BY <1>1, <1>2, Sames DEF Promise
  <1> HIDE DEF e, c, r
  <1>7. prom'[p] = e /\ prom'[next] = NewPromise(next)
        /\ \A y \in Id \ {p, next} : prom'[y] = prom[y]
    BY <1>2, <1>3, <1>5, Sames
  <1>8. fut'[next] = Linked(next) /\ \A g \in Id \ {f, next} : fut'[g] = fut[g]
    BY <1>1, <1>3, <1>5, Sames DEF Future
  <1>9. Makes
    BY <1>3, <1>5, <1>7, <1>8 DEF Makes, NextLinked
  <1>10. Reseals(p)
    <2>1. Sealed(prom[p])
      BY <1>2 DEF Meant, Seals
    <2>2. f # None
      BY <1>1, Numbers
    <2>3. prom[p].whose = f /\ made[f] = "future" /\ prom[p].whose < next
      BY <1>2, <2>1, <2>2 DEF Sealed
    <2>4. Sealed(e)
      BY <1>1, <1>6, <2>3 DEF Sealed, Unset
    <2> QED BY <1>2, <1>6, <1>7, <2>4 DEF Reseals
  <1>11. \A y \in Id : y # next => Reseals(y)
    BY <1>7, <1>10, SameSeals
  <1>12. \A i \in Id : i # next /\ i # f => Shows(i)
    BY <1>8 DEF Shows
  <1>13. Tells(posted') /\ Gets
    BY <1>5 DEF Meant, Gets
  <1> HIDE DEF f, p
  <1> QED BY <1>3, <1>4, <1>5, <1>9, <1>11, <1>12, <1>13, MeantKept DEF f

\* A continuation is run with what its future was made to hold.
LEMMA ResumesMeant ==
    ASSUME TypeInv, TokenInv, MakerInv, Straight, Meant, TypeInv', Straight',
           NEW t \in Thread, NEW task \in Continuation, NEW st \in Available,
           NEW base \in Seq(Handler), Continue(t, task, st, base), Tells(base),
           st = made[task.of], thr[t].f = None,
           \A y \in Id : y # next => Reseals(y),
           next \in Id => prom'[next] = IF next' > next THEN NewPromise(next) ELSE prom[next]
    PROVE  Meant'
  <1>1. PICK r : GoesOn(t, r, task.q, base)
    BY ContinueResumes
  <1>2. taken' = [taken EXCEPT ![task.of] = Append(@, st)] /\ made' = made
    BY DEF Continue
  <1>3. Gets
    BY <1>2, HandedOver DEF Continuation
  <1>4. next \in Nat /\ next # None /\ next + 1 > next /\ ~(next > next)
    BY NextOwned
  <1>5. \A i \in Id : i # next => Shows(i)
    BY <1>1, Sames DEF GoesOn, Shows
  <1>6. Leaves(t, r)
    BY <1>1 DEF GoesOn
  <1>7. CASE r.f = None /\ next' = next /\ posted' = base /\ fut' = fut
    <2>1. Makes
      BY <1>2, <1>4, <1>7 DEF Makes
    <2> QED BY <1>3, <1>4, <1>5, <1>6, <1>7, <2>1, MeantKept
  <1>8. CASE /\ r.f = next /\ next \in Id
             /\ next' = next + 1 /\ posted' = Append(base, [k |-> "produce", p |-> next])
             /\ fut' = [fut EXCEPT ![next] = Linked(next)]
    <2> DEFINE h == [k |-> "produce", p |-> next]
    <2>1. h \in Handler /\ h.k # "run"
      BY <1>8, HandlerMade
    <2>2. posted' = Append(base, h)
      BY <1>8
    <2> HIDE DEF h
    <2>3. Tells(posted')
      BY <2>1, <2>2, TellsAppend
    <2>4. Makes
      BY <1>2, <1>4, <1>8, Sames DEF Makes, NextLinked
    <2> QED BY <1>3, <1>5, <1>6, <1>8, <2>3, <2>4, MeantKept
  <1> QED BY <1>1, <1>7, <1>8 DEF GoesOn

LEMMA RunMeant ==
    ASSUME TypeInv, TokenInv, MakerInv, Straight, Meant, TypeInv', Straight',
           NEW t \in Thread, Run(t)
    PROVE  Meant'
  <1> DEFINE h == Head(posted)
             base == Tail(posted)
  <1>1. thr[t].f = None
    BY DEF Run, At, Straight, Sound
  <1>2. posted # <<>> /\ h.k = "run" /\ h \in Handler /\ posted \in Seq(Handler)
        /\ base \in Seq(Handler)
    BY PostedOnce, PostedParts DEF Run
  <1>3. h.task \in Continuation /\ h.st \in Available
    BY <1>2, HandlerParts, RunsTail DEF Straight
  <1>4. Tells(base) /\ h.st = made[h.task.of]
    BY <1>2, TellsTail DEF Meant
  <1>5. /\ Continue(t, h.task, h.st, base)
        /\ prom' = IF next' > next THEN [prom EXCEPT ![next] = NewPromise(next)] ELSE prom
    BY DEF Run
  <1> HIDE DEF h, base
  <1>6. /\ \A y \in Id \ {next} : prom'[y] = prom[y]
        /\ next \in Id => prom'[next] = IF next' > next THEN NewPromise(next) ELSE prom[next]
    BY <1>5, Sames
  <1>7. \A y \in Id : y # next => Reseals(y)
    BY <1>6, SameSeals
  <1> QED BY <1>1, <1>2, <1>3, <1>4, <1>5, <1>6, <1>7, ResumesMeant

LEMMA MakeReadyMeant ==
    ASSUME TypeInv, TokenInv, MakerInv, Straight, Meant, TypeInv', Straight',
           NEW t \in Thread, MakeReady(t)
    PROVE  Meant'
  <1> DEFINE p == thr[t].p
             task == prom[p].task
             st == prom[p].taskState
             h == [k |-> "run", st |-> st, task |-> task]
             r == [thr[t] EXCEPT !.at = "destroy"]
  <1>1. /\ p \in Id /\ prom[p].alive /\ p # next
        /\ thr[t].f = None /\ prom[p] \in Promise /\ Fulfilled(prom[p])
    BY ReadyView DEF MakeReady, At
  <1>2. r.f = None
    BY <1>1, Sames DEF ThreadState
  <1>3. Sealed(prom[p])
    BY <1>1 DEF Meant, Seals
  <1>4. task # None => task \in Continuation /\ st \in Available /\ st = made[task.of]
    BY <1>1, <1>3 DEF Promise, Fulfilled, Sealed
  <1>5. None # next
    BY NewIsFresh
  <1>6. CASE Leaves(t, r) /\ UNCHANGED <<posted, prom, fut, next, made, taken>>
    <2>1. \A y \in Id : Reseals(y)
      BY <1>6, SameSeals
    <2>2. Makes /\ Gets /\ Tells(posted') /\ \A i \in Id : Shows(i)
      BY <1>6 DEF Makes, Gets, Shows, Meant
    <2> HIDE DEF r
    <2> QED BY <1>1, <1>2, <1>5, <1>6, <2>1, <2>2, MeantKept
  <1>7. CASE /\ task # None /\ Leaves(t, r) /\ posted' = Append(posted, h)
             /\ prom' = [prom EXCEPT ![p].ptr = "null", ![p].task = None]
             /\ UNCHANGED <<fut, next, made, taken>>
    <2>1. /\ prom'[p].task = None /\ prom'[p].future = prom[p].future /\ prom'[p].ptr = "null"
          /\ prom'[p].whose = prom[p].whose /\ prom'[p].local = prom[p].local
          /\ \A y \in Id \ {p} : prom'[y] = prom[y]
      BY <1>1, <1>7, Sames DEF Promise
    <2>2. Reseals(p)
      BY <1>1, <1>3, <2>1 DEF Reseals, Sealed, Unset
    <2>3. \A y \in Id : Reseals(y)
      BY <2>1, <2>2, SameSeals
    <2>4. h \in Handler /\ h.st = made[h.task.of]
      BY <1>4, <1>7, HandlerMade DEF Available, State
    <2>5. Tells(posted')
      <3> HIDE DEF h
      <3> QED BY <1>7, <2>4, Sames, TellsAppend DEF Meant
    <2>6. Makes /\ Gets /\ \A i \in Id : Shows(i)
      BY <1>1, <1>7, <2>1 DEF Makes, Gets, Shows
    <2>7. Leaves(t, r)
      BY <1>7
    <2> HIDE DEF r
    <2> QED BY <1>1, <1>2, <1>5, <2>3, <2>5, <2>6, <2>7, MeantKept
  <1>8. CASE /\ task # None
             /\ Continue(t, task, st, posted)
             /\ prom' = IF fault' # "none" THEN prom
                        ELSE IF next' > next
                        THEN [prom EXCEPT ![p] = Dead(p), ![next] = NewPromise(next)]
                        ELSE [prom EXCEPT ![p] = Dead(p)]
    <2>1. fault' = "none"
      BY DEF Straight
    <2>2. /\ \A y \in Id \ {next} : y # p => prom'[y] = prom[y]
          /\ prom'[p] = Dead(p)
          /\ next \in Id => prom'[next] = IF next' > next THEN NewPromise(next) ELSE prom[next]
      BY <1>1, <1>8, <2>1, Sames
    <2>3. ~Dead(p).alive
      BY DEF Dead, NewPromise
    <2>4. \A y \in Id : y # next => Reseals(y)
      <3>1. Reseals(p)
        BY <2>2, <2>3 DEF Reseals
      <3> QED BY <2>2, <3>1, SameSeals
    <2>5. Tells(posted) /\ posted \in Seq(Handler)
      BY Sames DEF Meant
    <2> HIDE DEF p, task, st
    <2> QED BY <1>1, <1>4, <1>8, <2>2, <2>4, <2>5, ResumesMeant
  <1>9. Leaves(t, r) <=> thr' = [thr EXCEPT ![t].at = "destroy"]
    BY Sames DEF Leaves
  <1> QED BY <1>6, <1>7, <1>8, <1>9 DEF MakeReady

LEMMA DestroyMeant ==
    ASSUME TypeInv, TokenInv, MakerInv, Straight, Meant, TypeInv', Straight',
           NEW t \in Thread, Destroy(t)
    PROVE  Meant'
  <1> DEFINE p == thr[t].p
             f == prom[p].future
  <1>1. p \in Id /\ prom[p].alive /\ p # next /\ thr[t].f = None /\ prom[p] \in Promise
    BY ReadyView DEF Destroy, At
  <1>2. Leaves(t, Idle) /\ Idle.f = None
    BY DEF Destroy, Leaves, Idle
  <1>3. /\ prom' = [prom EXCEPT ![p] = Dead(p)]
        /\ fut' = IF f = None THEN fut
                  ELSE [fut EXCEPT ![f].local = prom[p].local, ![f].promise = None]
        /\ UNCHANGED <<posted, next, made, taken>>
    BY DEF Destroy
  <1>4. /\ \A y \in Id \ {p} : prom'[y] = prom[y]
        /\ ~prom'[p].alive
    BY <1>1, <1>3, Sames DEF Dead, NewPromise
  <1>5. f \in Id \cup {None} /\ None \notin Id
    BY <1>1, Numbers DEF Promise
  <1>6. f \in Id => prom[p].local = made[f]
    <2>1. Sealed(prom[p])
      BY <1>1 DEF Meant, Seals
    <2> QED BY <1>1, <1>5, <2>1 DEF Sealed
  <1>7. /\ \A g \in Id : g # f => fut'[g] = fut[g]
        /\ f \in Id => fut'[f].local = prom[p].local
    <2>1. fut \in [Id -> Future]
      BY Sames
    <2> HIDE DEF f, p
    <2>2. CASE f = None
      BY <1>3, <1>5, <2>2
    <2>3. CASE f # None
      <3>1. f \in Id /\ fut' = [fut EXCEPT ![f].local = prom[p].local, ![f].promise = None]
        BY <1>3, <1>5, <2>3
      <3> QED BY <2>1, <3>1 DEF Future
    <2> QED BY <2>2, <2>3
  <1>8. \A i \in Id : Shows(i)
    BY <1>6, <1>7 DEF Shows
  <1>9. \A y \in Id : Reseals(y)
    BY <1>4, SameSeals DEF Reseals
  <1>10. Makes /\ Gets /\ Tells(posted')
    BY <1>1, <1>3, <1>4 DEF Makes, Gets, Meant
  <1>11. None # next
    BY NewIsFresh
  <1> QED BY <1>1, <1>2, <1>8, <1>9, <1>10, <1>11, MeantKept

LEMMA RelinkMeant ==
    ASSUME TypeInv, TokenInv, MakerInv, Straight, Meant, TypeInv', Straight',
           NEW t \in Thread, Relink(t)
    PROVE  Meant'
  <1> DEFINE f == thr[t].f
             p == fut[f].promise
             q == thr[t].p
             g == prom[q].future
  <1>1. f \in Id /\ q \in Id
    BY Sames DEF Relink, At, Equipped
  <1>2. p # None
    BY DEF Relink, Break, Straight
  <1>3. p \in Id /\ p # next /\ q # next
    BY <1>1, <1>2, LinkedView, NewIsUnmade
  <1>4. Leaves(t, Idle) /\ Idle.f = None
    BY <1>2 DEF Relink, Leaves, Idle
  <1>5. /\ prom' = [prom EXCEPT ![p] = prom[q], ![q] = Dead(q)]
        /\ fut' = [i \in Id |->
                     IF i = f THEN ReadyFuture("invalid")
                     ELSE IF i = g THEN [fut[i] EXCEPT !.promise = p]
                     ELSE fut[i]]
        /\ UNCHANGED <<posted, next, made, taken>>
    BY <1>2 DEF Relink
  <1>6. /\ ~prom'[q].alive /\ (p # q => prom'[p] = prom[q])
        /\ \A y \in Id \ {p, q} : prom'[y] = prom[y]
    BY <1>1, <1>3, <1>5, Sames DEF Dead, NewPromise
  <1>7. \A i \in Id : i # f => Shows(i)
    <2> SUFFICES ASSUME NEW i \in Id, i # f PROVE Shows(i)
      OBVIOUS
    <2>1. CASE i = g
      <3>1. fut'[i] = [fut[i] EXCEPT !.promise = p]
        BY <1>5, <2>1
      <3>2. fut'[i].promise = p
        BY <3>1, Sames DEF Future
      <3> QED BY <1>2, <3>2 DEF Shows
    <2>2. CASE i # g
      BY <1>5, <2>2 DEF Shows
    <2> QED BY <2>1, <2>2
  <1> HIDE DEF g, p, q, f
  <1>8. Makes /\ Gets /\ Tells(posted')
    BY <1>3, <1>5, <1>6 DEF Makes, Gets, Meant
  <1>9. None # next
    BY NewIsFresh
  <1>10. Held'
    BY <1>4, <1>7, <1>8, <1>9, Numbers, HeldKept DEF Meant, f
  <1>11. Seals'
    <2>1. \A y \in Id : Sealed(prom'[y])
      <3>1. \A y \in Id : Sealed(prom[y])
        BY DEF Meant, Seals
      <3>2. Sealed(prom'[q])
        BY <1>6 DEF Sealed
      <3> QED BY <1>1, <1>6, <3>1, <3>2
    <2>2. \A y \in Id : Sealed(prom[y])'
      <3>1. next' = next /\ made' = made
        BY <1>5
      <3> QED BY <2>1, <3>1 DEF Sealed, Unset, Id
    <2>3. ASSUME NEW y \in Id, NEW z \in Id, prom'[y].alive, prom'[z].alive,
                 prom'[y].whose = prom'[z].whose
          PROVE  y = z
      <3>1. y # q /\ z # q
        BY <1>6, <2>3
      <3>2. \A v, w \in Id :
              prom[v].alive /\ prom[w].alive /\ prom[v].whose = prom[w].whose => v = w
        BY DEF Meant, Seals
      <3> QED BY <1>1, <1>6, <2>3, <3>1, <3>2
    <2> QED BY <2>2, <2>3 DEF Seals, Id
  <1>12. Blank' /\ Received' /\ Tells(posted)'
    BY <1>8, BlankKept, ReceivedKept, TellsKept DEF Meant
  <1> QED BY <1>10, <1>11, <1>12 DEF Meant

LEMMA StoreMeant ==
    ASSUME ~Void, TypeInv, TokenInv, MakerInv, Straight, Meant, TypeInv', Straight',
           NEW t \in Thread, Store(t)
    PROVE  Meant'
  <1> DEFINE p == thr[t].p
             v == thr[t].out
             w == prom[p].whose
             r == [thr[t] EXCEPT !.at = "ready"]
  <1>1. /\ p \in Id /\ prom[p].alive /\ thr[t].f = None /\ prom[p] \in Promise
        /\ Fresh(prom[p]) /\ thr[t].at = "store"
    BY ReadyView DEF Store, At
  <1>2. thr[t].place = [in |-> prom[p].ptr, id |-> p]
    BY <1>1 DEF Straight, Sound
  <1>3. Value(thr[t].place) = "future" /\ prom[p].ptr \in {"promise", "task"}
    BY <1>1, <1>2 DEF Value, Fresh
  <1>4. Stored(thr[t]) = v /\ v \in Available
    BY <1>1, Sames DEF Stored, Equipped
  <1>5. r.f = None
    BY <1>1, Sames DEF ThreadState
  <1>6. /\ prom' = IF prom[p].ptr = "promise" THEN [prom EXCEPT ![p].local = v]
                   ELSE [prom EXCEPT ![p].taskState = v]
        /\ made' = [made EXCEPT ![w] = v]
        /\ thr' = [thr EXCEPT ![t] = r] /\ UNCHANGED <<posted, fut, next, taken>>
    BY <1>2, <1>3, <1>4, Sames DEF Store
  <1> HIDE DEF r, v
  <1>7. /\ \A y \in Id \ {p} : prom'[y] = prom[y]
        /\ prom'[p].alive /\ prom'[p].future = prom[p].future /\ prom'[p].task = prom[p].task
        /\ prom'[p].ptr = prom[p].ptr /\ prom'[p].whose = w
        /\ prom[p].ptr = "promise" => prom'[p].local = v
        /\ prom[p].ptr # "promise" => prom'[p].taskState = v
    BY <1>1, <1>6, Sames DEF Promise
  <1>8. w \in Id /\ w < next /\ made[w] = "future"
    <2>1. Sealed(prom[p]) /\ Unset(prom[p])
      BY <1>1, <1>3 DEF Meant, Seals, Fresh, Unset
    <2> QED BY <1>1, <2>1 DEF Sealed
  <1>9. /\ made'[w] = v /\ \A i \in Id \ {w} : made'[i] = made[i]
    BY <1>6, <1>8, Sames
  <1>10. \A y \in Id \ {p} : prom[y].alive => prom[y].whose # w
    BY <1>1 DEF Meant, Seals
  <1> HIDE DEF w
  <1>11. Seals'
    <2>1. ASSUME NEW y \in Id PROVE Sealed(prom[y])'
      <3> DEFINE c == prom'[y]
      <3>1. SUFFICES ASSUME c.alive
                     PROVE  /\ c.whose \in Id /\ c.whose < next
                            /\ c.future # None => c.whose = c.future /\ c.local = made'[c.whose]
                            /\ c.task # None => c.whose = c.task.of /\ c.taskState = made'[c.whose]
                            /\ Unset(c) => made'[c.whose] = "future"
        BY <1>6 DEF Sealed, Unset, Id
      <3>2. Sealed(prom[y])
        BY DEF Meant, Seals
      <3>3. CASE y = p
        <4>1. prom[p].future # None => prom[p].ptr = "promise" /\ w = prom[p].future
          BY <1>1, <3>2, <3>3 DEF Fresh, Sealed, w
        <4>2. prom[p].task # None => prom[p].ptr = "task" /\ w = prom[p].task.of
          BY <1>1, <3>2, <3>3 DEF Fresh, Sealed, w
        <4>3. ~Unset(c)
          BY <1>3, <1>4, <1>7, <3>3 DEF Unset, Available
        <4> QED BY <1>7, <1>8, <1>9, <3>3, <4>1, <4>2, <4>3
      <3>4. CASE y # p
        <4>1. c = prom[y]
          BY <1>7, <3>4
        <4>2. c.whose \in Id \ {w}
          BY <1>10, <3>1, <3>2, <3>4, <4>1 DEF Sealed
        <4> QED BY <1>9, <3>1, <3>2, <4>1, <4>2 DEF Sealed
      <3> QED BY <3>3, <3>4
    <2>2. \A y, z \in Id : prom'[y].alive /\ prom'[z].alive /\ prom'[y].whose = prom'[z].whose
                             => y = z
      BY <1>1, <1>7, <1>10 DEF Meant, Seals, w
    <2> QED BY <2>1, <2>2 DEF Seals, Id
  <1>12. Held'
    <2>1. InHand' \subseteq InHand
      <3>1. \A u \in Thread : thr'[u].f = thr[u].f
        BY <1>1, <1>5, <1>6, Sames
      <3> QED BY <3>1, HandStays DEF TokenInv
    <2>2. ASSUME NEW i \in InHand, fut[i].promise = None
          PROVE  i # w /\ i \in Id /\ fut[i].local = made[i]
      <3>1. PICK u \in Thread : thr[u].f = i
        BY DEF InHand
      <3>2. i \in Id /\ i # None
        BY Numbers DEF InHand
      <3>3. fut[i].local \in Available
        BY <2>2, <3>1, <3>2 DEF Straight, Sound
      <3>4. fut[i].local = made[i]
        BY <2>2 DEF Meant, Held
      <3> QED BY <1>8, <3>2, <3>3, <3>4 DEF Available
    <2> QED BY <1>6, <1>9, <2>1, <2>2 DEF Held
  <1>13. Tells(posted)'
    <2>1. ASSUME NEW k \in DOMAIN posted, posted[k].k = "run"
          PROVE  posted[k].st = made'[posted[k].task.of]
      <3>1. posted[k].task.of \in Id
        BY <2>1, HandlerParts, Sames DEF Continuation
      <3>2. posted[k].st \in Available /\ posted[k].st = made[posted[k].task.of]
        BY <2>1 DEF Straight, Runs, Meant, Tells
      <3>3. posted[k].task.of # w
        BY <1>8, <3>2 DEF Available
      <3> QED BY <1>9, <3>1, <3>2, <3>3
    <2> QED BY <1>6, <2>1 DEF Tells
  <1>14. Blank'
    <2>1. \A i \in Id : i >= next => i # w
      BY <1>8, Numbers, Sames
    <2> QED BY <1>6, <1>9, <2>1 DEF Meant, Blank, Id
  <1>15. Received'
    <2>1. ASSUME NEW i \in Id, NEW k \in 1..Len(taken[i]) PROVE taken[i][k] = made'[i]
      <3>1. taken[i][k] = made[i]
        BY DEF Meant, Received
      <3>2. taken[i][k] \in Available
        BY Sames
      <3>3. i # w
        BY <1>8, <3>1, <3>2 DEF Available
      <3> QED BY <1>9, <3>1, <3>3
    <2> QED BY <1>6, <2>1 DEF Received, Id
  <1> QED BY <1>11, <1>12, <1>13, <1>14, <1>15 DEF Meant

LEMMA InitMeant ==
    ASSUME Init, TypeInv
    PROVE  Meant
  <1>1. /\ \A k \in DOMAIN posted : posted[k].k = "app"
        /\ \A t \in Thread : thr[t] = Idle
        /\ \A i \in Id : prom[i] = Dead(i) /\ made[i] = "future" /\ taken[i] = <<>>
    BY DEF Init
  <1>2. \A i \in Id : ~prom[i].alive
    <2>1. \A i : ~Dead(i).alive
      BY DEF Dead, NewPromise
    <2> QED BY <1>1, <2>1
  <1>3. InHand = {}
    BY <1>1, Numbers DEF InHand, Idle
  <1>4. Seals /\ Held /\ Tells(posted) /\ Blank
    BY <1>1, <1>2, <1>3 DEF Seals, Sealed, Held, Tells, Blank
  <1>5. Received
    BY <1>1 DEF Received
  <1> QED BY <1>4, <1>5 DEF Meant

LEMMA StepMeant ==
    ASSUME ~Void, TypeInv, TokenInv, MakerInv, Straight, NoCross, Meant, TypeInv', Straight',
           NEW t \in Thread, Step(t), ~(LostThis(t) \/ NoMutex(t))
    PROVE  Meant'
  <1>1. CASE \/ \E op \in {"get", "then", "wrapped"} : Use(t, op)
             \/ Look(t) \/ Follow(t) \/ Judge(t) \/ Hold(t) \/ Moved(t)
             \/ Block(t) \/ MoveIn(t) \/ Point(t)
    <2>1. UNCHANGED <<made, taken>>
      BY <1>1 DEF Use, Look, Follow, Judge, Hold, Moved, Block, MoveIn, Point, Break
    <2>2. PICK r : MovesOn(t, r) /\ Sound(r)
      BY <1>1, QuietMoves
    <2> QED BY <2>1, <2>2, QuietMeant
  <1>2. CASE \/ Begin(t) \/ Drop(t) \/ PostReady(t) \/ Attach(t) \/ Collect(t) \/ Run(t)
             \/ Take(t) \/ Forward(t) \/ Relink(t) \/ Produce(t) \/ Store(t)
             \/ MakeReady(t) \/ Destroy(t)
    BY <1>2, BeginMeant, DropMeant, PostReadyMeant, AttachMeant, CollectMeant, RunMeant,
       TakeMeant, ForwardMeant, RelinkMeant, ProduceMeant, StoreMeant, MakeReadyMeant,
       DestroyMeant
  <1> QED BY <1>1, <1>2 DEF Step

LEMMA NextMeant ==
    ASSUME ~Void, TypeInv, TokenInv, Uncrossed, crossed \/ Meant, TypeInv', [Next]_vars
    PROVE  (crossed \/ Meant)'
  <1>1. CASE UNCHANGED <<thr, prom, fut, posted, next, made, taken, crossed>>
    BY <1>1 DEF Meant, Seals, Sealed, Unset, Held, InHand, Tells, Blank, Received, Id
  <1>2. CASE UNCHANGED vars
    BY <1>1, <1>2 DEF vars
  <1>3. CASE Next
    <2>1. crossed' = (crossed \/ \E t, u \in Thread : Cross(t, u)')
      BY <1>3 DEF Next
    <2>2. crossed \in BOOLEAN /\ crossed' \in BOOLEAN
      BY DEF TypeInv, Typed
    <2>3. CASE ~crossed'
      <3>1. ~crossed
        BY <2>1, <2>2, <2>3
      <3>2. PICK t \in Thread : Step(t)
        BY <1>3 DEF Next
      <3>3. MakerInv /\ Straight /\ NoCross /\ Meant
        BY <1>3, <3>1 DEF Uncrossed, Next, Alone
      <3>4. CASE LostThis(t) \/ NoMutex(t)
        <4>1. \E kind \in Alone : Break(kind)
          BY <3>4, AloneBreaks
        <4>2. crossed' = crossed
          BY <2>2, <2>3, <3>1
        <4> QED BY <1>1, <4>1, <4>2 DEF Break
      <3>5. CASE ~(LostThis(t) \/ NoMutex(t))
        <4>1. Straight'
          BY <3>2, <3>3, <3>5, StepStraight
        <4> QED BY <3>2, <3>3, <3>5, <4>1, StepMeant
      <3> QED BY <3>4, <3>5
    <2>4. CASE crossed'
      BY <2>4
    <2> QED BY <2>3, <2>4
  <1> QED BY <1>2, <1>3

\* A consumer is given what its call was made to return: no failure is lost or
\* made a success, and no result of one call is given for another's, on the way
\* through promises, local states, continuations and forward_to(), in whatever
\* order the threads take the steps, until a consumer meets the producer half
\* way.  What the faults of Alone do is that nothing is given at all.  Futures
\* without a value are left out: for those forward_to() takes no failure for one.
THEOREM ResultsArriveUnchanged ==
    ASSUME ~Void
    PROVE  Spec => []SameValue
  <1>1. Init /\ TypeInv => crossed \/ Meant
    BY InitMeant
  <1>2. TypeInv /\ TokenInv /\ Uncrossed /\ (crossed \/ Meant) /\ TypeInv' /\ [Next]_vars
          => (crossed \/ Meant)'
    BY NextMeant
  <1>3. crossed \/ Meant => SameValue
    BY DEF Meant, Received, SameValue
  <1> QED BY <1>1, <1>2, <1>3, TypesThroughout, TokensThroughout, UncrossedThroughout, PTL DEF Spec
=============================================================================
