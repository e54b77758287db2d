------------------------------ MODULE Bot_proofs ------------------------------
(* Theorems about the life of a bot, for any pool, any number of posted    *)
(* tasks and any processes of a cluster.                                   *)
EXTENDS Bot, FiniteSetTheorems, SequenceTheorems, WellFoundedInduction, TLAPS

-----------------------------------------------------------------------------
(* Induction over the naturals, stated of a set: the least number outside  *)
(* the set would have a predecessor in it.                                 *)

LEMMA NatSet ==
    ASSUME NEW S, 0 \in S, \A n \in Nat : n \in S => n + 1 \in S
    PROVE  \A n \in Nat : n \in S
  <1> DEFINE R == OpToRel(<, Nat)
             T == Nat \ S
  <1>1. SUFFICES ASSUME T # {} PROVE FALSE
    OBVIOUS
  <1>2. IsWellFoundedOn(R, Nat)
    BY NatLessThanWellFounded
  <1>3. T \subseteq Nat
    OBVIOUS
  <1> HIDE DEF R
  <1>4. PICK x \in T : \A y \in T : ~(<<y, x>> \in R)
    BY <1>1, <1>2, <1>3, WFMin
  <1>5. x \in Nat /\ x # 0 /\ x - 1 \in Nat /\ x - 1 < x /\ x = (x - 1) + 1
    BY <1>4, SMT
  <1>6. x - 1 \in T
    BY <1>4, <1>5
  <1>7. <<x - 1, x>> \in R
    BY <1>5 DEF R, OpToRel
  <1> QED BY <1>4, <1>6, <1>7

-----------------------------------------------------------------------------
(* The shards of a process.                                                *)

\* The step between the ids of a process: every id without a cluster.
Stride(s) == IF s.clusters = 0 THEN 1 ELSE s.clusters

\* What the loop of shard_mgr::start has in its list after k rounds.
Round(s, L, k) ==
    IF k = 0 THEN <<>>
    ELSE IF Owns(s, k - 1) THEN Append(L[k - 1], k - 1) ELSE L[k - 1]
IsLoop(s, L, n) == L = [k \in 0 .. n |-> Round(s, L, k)]

\* The loop runs for every number of shards.
LEMMA LoopExists ==
    ASSUME NEW s
    PROVE  \A n \in Nat : \E L : IsLoop(s, L, n)
  <1> DEFINE S == {n \in Nat : \E L : IsLoop(s, L, n)}
  <1>1. 0 \in S
    <2> DEFINE L == [k \in 0 .. 0 |-> <<>>]
    <2>1. IsLoop(s, L, 0)
      BY DEF IsLoop, Round
    <2> QED BY <2>1
  <1>2. ASSUME NEW n \in Nat, n \in S PROVE n + 1 \in S
    <2>1. PICK L : IsLoop(s, L, n)
      BY <1>2
    <2> DEFINE M == [k \in 0 .. n + 1 |-> IF k = n + 1 THEN Round(s, L, n + 1) ELSE L[k]]
    <2>2. ASSUME NEW k \in 0 .. n + 1
          PROVE  M[k] = Round(s, L, k) /\ (k <= n => M[k] = L[k])
      <3>1. CASE k = n + 1
        BY <3>1
      <3>2. CASE k # n + 1
        BY <2>1, <3>2 DEF IsLoop
      <3> QED BY <3>1, <3>2
    <2> HIDE DEF M
    <2>3. ASSUME NEW k \in 0 .. n + 1 PROVE M[k] = Round(s, M, k)
      <3>1. CASE k = 0
        BY <2>2, <3>1 DEF Round
      <3>2. CASE k # 0
        <4>1. k - 1 \in 0 .. n + 1 /\ k - 1 <= n
          BY <3>2
        <4>2. M[k - 1] = L[k - 1] /\ M[k] = Round(s, L, k)
          BY <2>2, <4>1
        <4> QED BY <4>2 DEF Round
      <3> QED BY <3>1, <3>2
    <2>4. IsLoop(s, M, n + 1)
      BY <2>3 DEF IsLoop, M
    <2> QED BY <2>4
  <1>3. \A n \in Nat : n \in S
    <2> HIDE DEF S
    <2> QED BY <1>1, <1>2, NatSet
  <1> QED BY <1>3

LEMMA ShardsLoop ==
    ASSUME NEW s, s.shards \in Nat
    PROVE  \E L : IsLoop(s, L, s.shards) /\ Shards(s) = L[s.shards]
  <1> DEFINE L == CHOOSE L : IsLoop(s, L, s.shards)
  <1>1. IsLoop(s, L, s.shards)
    BY LoopExists
  <1>2. Shards(s) = L[s.shards]
    BY DEF Shards, IsLoop, Round
  <1> QED BY <1>1, <1>2

LEMMA MulMono ==
    ASSUME NEW a \in Nat, NEW b \in Nat, NEW m \in Nat, a <= b
    PROVE  a * m <= b * m
  OBVIOUS

LEMMA MulNext ==
    ASSUME NEW a \in Nat, NEW m \in Nat
    PROVE  /\ a * m \in Nat
           /\ (a + 1) * m = a * m + m
  OBVIOUS

\* The only numbers with remainder c next to p * m + c are p * m + c itself.
LEMMA Multiples ==
    ASSUME NEW m \in Nat \ {0}, NEW c \in 0 .. m - 1, NEW p \in Nat, NEW k \in Nat,
           k <= p * m + c, p * m + c < k + m
    PROVE  k % m = c <=> k = p * m + c
  <1> DEFINE q == k \div m
             r == k % m
  <1>1. q \in Nat /\ r \in 0 .. m - 1 /\ k = m * q + r
    OBVIOUS
  <1>2. m * q = q * m /\ q * m \in Nat /\ p * m \in Nat
        /\ (q + 1) * m = q * m + m /\ (p + 1) * m = p * m + m
    BY <1>1, MulNext
  <1> HIDE DEF q, r
  <1>3. CASE q = p
    BY <1>1, <1>2, <1>3 DEF r
  <1>4. CASE q < p
    <2>1. (q + 1) * m <= p * m
      BY <1>1, <1>4, MulMono
    <2> QED BY <1>1, <1>2, <2>1 DEF r
  <1>5. CASE p < q
    <2>1. (p + 1) * m <= q * m
      BY <1>1, <1>5, MulMono
    <2> QED BY <1>1, <1>2, <2>1 DEF r
  <1> QED BY <1>1, <1>3, <1>4, <1>5

\* The list l after k rounds: the numbers below k with remainder c, in order.
Laid(l, k, m, c) ==
    /\ l \in Seq(Nat)
    /\ \A i \in 1 .. Len(l) : l[i] = (i - 1) * m + c /\ l[i] < k
    /\ k <= Len(l) * m + c
    /\ Len(l) * m + c < k + m

LEMMA LaidRound ==
    ASSUME NEW m \in Nat \ {0}, NEW c \in 0 .. m - 1, NEW k \in Nat, NEW l,
           Laid(l, k, m, c)
    PROVE  Laid(IF k % m = c THEN Append(l, k) ELSE l, k + 1, m, c)
  <1> DEFINE p == Len(l)
  <1>1. /\ l \in Seq(Nat) /\ p \in Nat
        /\ \A i \in 1 .. p : l[i] = (i - 1) * m + c /\ l[i] < k
        /\ k <= p * m + c /\ p * m + c < k + m
    BY DEF Laid
  <1>2. k % m = c <=> k = p * m + c
    BY <1>1, Multiples
  <1>3. p * m \in Nat /\ (p + 1) * m = p * m + m
    BY <1>1, MulNext
  <1>4. CASE k % m = c
    <2>1. k = p * m + c
      BY <1>2, <1>4
    <2> DEFINE a == Append(l, k)
    <2>2. /\ a \in Seq(Nat) /\ Len(a) = p + 1
          /\ \A i \in 1 .. p : a[i] = l[i]
          /\ a[p + 1] = k
      BY <1>1
    <2> HIDE DEF a, p
    <2>3. \A i \in 1 .. Len(a) : a[i] = (i - 1) * m + c /\ a[i] < k + 1
      <3> SUFFICES ASSUME NEW i \in 1 .. Len(a)
                   PROVE  a[i] = (i - 1) * m + c /\ a[i] < k + 1
        OBVIOUS
      <3>1. CASE i = p + 1
        <4>1. i - 1 = p
          BY <1>1, <3>1
        <4> QED BY <2>1, <2>2, <3>1, <4>1
      <3>2. CASE i # p + 1
        <4>1. i \in 1 .. p
          BY <1>1, <2>2, <3>2
        <4>2. l[i] \in Nat
          BY <1>1, <4>1 DEF p
        <4> QED BY <1>1, <2>2, <4>1, <4>2
      <3> QED BY <3>1, <3>2
    <2>4. k + 1 <= Len(a) * m + c /\ Len(a) * m + c < k + 1 + m
      BY <1>1, <1>3, <2>1, <2>2
    <2>5. Laid(a, k + 1, m, c)
      BY <2>2, <2>3, <2>4 DEF Laid
    <2> QED BY <1>4, <2>5 DEF a
  <1>5. CASE k % m # c
    <2>1. k + 1 <= p * m + c /\ p * m + c < k + 1 + m
      <3> HIDE DEF p
      <3> QED BY <1>1, <1>2, <1>3, <1>5
    <2>2. \A i \in 1 .. p : l[i] = (i - 1) * m + c /\ l[i] < k + 1
      <3> SUFFICES ASSUME NEW i \in 1 .. p
                   PROVE  l[i] = (i - 1) * m + c /\ l[i] < k + 1
        OBVIOUS
      <3>1. l[i] \in Nat /\ l[i] < k
        BY <1>1
      <3> QED BY <1>1, <3>1
    <2>3. Laid(l, k + 1, m, c)
      BY <1>1, <2>1, <2>2 DEF Laid
    <2> QED BY <1>5, <2>3
  <1> QED BY <1>4, <1>5

LEMMA LaidRange ==
    ASSUME NEW m \in Nat \ {0}, NEW c \in 0 .. m - 1, NEW n \in Nat, NEW l,
           Laid(l, n, m, c)
    PROVE  Range(l) = {k \in 0 .. n - 1 : k % m = c}
  <1> DEFINE p == Len(l)
  <1>1. /\ l \in Seq(Nat) /\ p \in Nat
        /\ \A i \in 1 .. p : l[i] = (i - 1) * m + c /\ l[i] < n
        /\ n <= p * m + c
    BY DEF Laid
  <1>2. \A i \in 1 .. p : l[i] \in Nat
    BY <1>1
  <1>3. DOMAIN l = 1 .. p
    BY <1>1
  <1> HIDE DEF p
  <1>4. ASSUME NEW i \in 1 .. p PROVE l[i] \in 0 .. n - 1 /\ l[i] % m = c
    <2>1. l[i] \in Nat /\ l[i] < n /\ l[i] = (i - 1) * m + c
      BY <1>1, <1>2
    <2>2. i - 1 \in Nat
      BY <1>1
    <2>3. (i - 1) * m + c = l[i]
      BY <2>1
    <2>4. l[i] <= (i - 1) * m + c /\ (i - 1) * m + c < l[i] + m
      BY <2>1, <2>3
    <2>5. l[i] % m = c <=> l[i] = (i - 1) * m + c
      BY <2>1, <2>2, <2>4, Multiples
    <2> QED BY <2>1, <2>5
  <1>5. ASSUME NEW k \in 0 .. n - 1, k % m = c
        PROVE  \E i \in 1 .. p : l[i] = k
    <2> DEFINE q == k \div m
    <2>1. q \in Nat /\ k = m * q + (k % m) /\ k \in Nat
      OBVIOUS
    <2> HIDE DEF q
    <2>2. m * q = q * m /\ p * m \in Nat /\ q * m \in Nat
      BY <1>1, <2>1, MulNext
    <2>3. q < p
      <3> SUFFICES ASSUME p <= q PROVE FALSE
        BY <1>1, <2>1
      <3>1. p * m <= q * m
        BY <1>1, <2>1, MulMono
      <3>2. n <= p * m + c /\ k = q * m + c /\ k < n
        BY <1>1, <1>5, <2>1, <2>2
      <3> QED BY <2>2, <3>1, <3>2
    <2>4. q + 1 \in 1 .. p /\ (q + 1) - 1 = q
      BY <1>1, <2>1, <2>3
    <2>5. l[q + 1] = q * m + c
      BY <1>1, <2>4
    <2> QED BY <1>5, <2>1, <2>2, <2>4, <2>5
  <1>6. Range(l) = {l[i] : i \in 1 .. p}
    BY <1>3 DEF Range
  <1> QED BY <1>4, <1>5, <1>6

\* A process of a cluster, or one without: the step between its ids, and the
\* first of them.
LEMMA SetupFacts ==
    ASSUME NEW s \in [shards : Nat, clusters : Nat, cluster : Nat],
           IF s.clusters = 0 THEN s.cluster = 0 ELSE s.cluster < s.clusters
    PROVE  /\ s.shards \in Nat
           /\ Stride(s) \in Nat \ {0} /\ s.cluster \in 0 .. Stride(s) - 1
           /\ \A k \in Nat : Owns(s, k) <=> k % Stride(s) = s.cluster
  <1>1. \A k \in Nat : k % 1 = 0
    OBVIOUS
  <1> QED BY <1>1 DEF Stride, Owns

\* The loop of shard_mgr::start leaves the ids of its process, in order.
LEMMA ShardsLaid ==
    ASSUME NEW s \in [shards : Nat, clusters : Nat, cluster : Nat],
           IF s.clusters = 0 THEN s.cluster = 0 ELSE s.cluster < s.clusters
    PROVE  /\ Laid(Shards(s), s.shards, Stride(s), s.cluster)
           /\ Range(Shards(s)) = {k \in 0 .. s.shards - 1 : Owns(s, k)}
  <1> DEFINE m == Stride(s)
             c == s.cluster
             n == s.shards
  <1>1. /\ n \in Nat /\ m \in Nat \ {0} /\ c \in 0 .. m - 1
        /\ \A k \in Nat : Owns(s, k) <=> k % m = c
    BY SetupFacts
  <1>2. PICK L : IsLoop(s, L, n) /\ Shards(s) = L[n]
    BY <1>1, ShardsLoop
  <1> HIDE DEF m, c, n
  <1> DEFINE S == {k \in Nat : k <= n => Laid(L[k], k, m, c)}
  <1>3. 0 \in S
    <2>1. L[0] = <<>>
      BY <1>1, <1>2 DEF IsLoop, Round
    <2>2. Laid(<<>>, 0, m, c)
      <3>1. Len(<<>>) * m = 0
        BY <1>1
      <3> QED BY <1>1, <3>1 DEF Laid
    <2> QED BY <2>1, <2>2
  <1>4. ASSUME NEW k \in Nat, k \in S PROVE k + 1 \in S
    <2> SUFFICES ASSUME k + 1 <= n PROVE Laid(L[k + 1], k + 1, m, c)
      OBVIOUS
    <2>1. k + 1 \in 0 .. n /\ (k + 1) - 1 = k /\ k + 1 # 0 /\ k <= n
      BY <1>1
    <2>2. L[k + 1] = IF Owns(s, k) THEN Append(L[k], k) ELSE L[k]
      BY <1>2, <2>1 DEF IsLoop, Round
    <2>3. Laid(L[k], k, m, c)
      BY <1>4, <2>1
    <2>4. Owns(s, k) <=> k % m = c
      BY <1>1
    <2> QED BY <1>1, <2>2, <2>3, <2>4, LaidRound
  <1>5. \A k \in Nat : k \in S
    <2> HIDE DEF S
    <2> QED BY <1>3, <1>4, NatSet
  <1>6. Laid(Shards(s), n, m, c)
    BY <1>1, <1>2, <1>5
  <1>7. Range(Shards(s)) = {k \in 0 .. n - 1 : k % m = c}
    BY <1>1, <1>6, LaidRange
  <1>8. {k \in 0 .. n - 1 : k % m = c} = {k \in 0 .. n - 1 : Owns(s, k)}
    BY <1>1
  <1> QED BY <1>6, <1>7, <1>8 DEF m, c, n

-----------------------------------------------------------------------------
(* A lookup by the id of a shard.                                          *)

IsSetup(s) == /\ s \in [shards : Nat, clusters : Nat, cluster : Nat]
              /\ IF s.clusters = 0 THEN s.cluster = 0 ELSE s.cluster < s.clusters

\* Every shard of a clustered bot is run by exactly one of its processes
\* (core.hpp:142-143, shard_mgr.cpp:71-79): for any number of shards and clusters.
THEOREM OneProcess ==
    ASSUME NEW s, IsSetup(s), s.clusters > 1, NEW k \in 0 .. s.shards - 1
    PROVE  Cardinality({c \in 0 .. s.clusters - 1 :
                           k \in Range(Shards([s EXCEPT !.cluster = c]))}) = 1
  <1> DEFINE Sibling(c) == [s EXCEPT !.cluster = c]
             m == s.clusters
             C == {c \in 0 .. m - 1 : k \in Range(Shards(Sibling(c)))}
  <1>1. m \in Nat /\ m > 1 /\ s.shards \in Nat /\ k \in Nat /\ k % m \in 0 .. m - 1
    BY DEF IsSetup
  <1>2. ASSUME NEW c \in 0 .. m - 1
        PROVE  k \in Range(Shards(Sibling(c))) <=> k % m = c
    <2>1. /\ IsSetup(Sibling(c))
          /\ Sibling(c).shards = s.shards /\ Sibling(c).clusters = m
          /\ Sibling(c).cluster = c
      BY <1>1 DEF IsSetup
    <2> HIDE DEF Sibling
    <2>2. Range(Shards(Sibling(c))) = {j \in 0 .. s.shards - 1 : Owns(Sibling(c), j)}
      BY <2>1, ShardsLaid DEF IsSetup
    <2>3. Owns(Sibling(c), k) <=> k % m = c
      BY <1>1, <2>1 DEF Owns
    <2> QED BY <2>2, <2>3
  <1> HIDE DEF Sibling, m
  <1>3. C = {k % m}
    BY <1>1, <1>2
  <1>4. Cardinality(C) = 1
    BY <1>3, FS_Singleton
  <1> QED BY <1>4 DEF C, Sibling, m

\* What get_shard finds at the position of an id the process runs.
LEMMA GetShardFinds ==
    ASSUME NEW s, IsSetup(s), NEW id \in Range(Shards(s))
    PROVE  /\ id \in Nat
           /\ GetShard(s, id) \subseteq {id * Stride(s) + s.cluster}
           /\ s.clusters <= 1 => GetShard(s, id) = {id}
           /\ id = 0 => GetShard(s, id) = {id}
  <1> DEFINE l == Shards(s)
             m == Stride(s)
  <1>1. /\ m \in Nat \ {0} /\ s.cluster \in 0 .. m - 1 /\ s.clusters \in Nat
        /\ s.shards \in Nat
    BY SetupFacts DEF IsSetup
  <1>2. /\ l \in Seq(Nat) /\ Len(l) \in Nat
        /\ \A i \in 1 .. Len(l) : l[i] = (i - 1) * m + s.cluster
        /\ s.shards <= Len(l) * m + s.cluster
        /\ id \in 0 .. s.shards - 1
    <2>1. Laid(l, s.shards, m, s.cluster) /\ id \in 0 .. s.shards - 1
      BY ShardsLaid DEF IsSetup
    <2> QED BY <2>1 DEF Laid
  <1> HIDE DEF l, m
  <1>3. id \in Nat
    BY <1>2
  <1>4. GetShard(s, id) = IF id >= Len(l) THEN {} ELSE {l[id + 1]}
    BY DEF GetShard, l
  <1>5. id < Len(l) => l[id + 1] = id * m + s.cluster
    <2>1. id < Len(l) => id + 1 \in 1 .. Len(l) /\ (id + 1) - 1 = id
      BY <1>2, <1>3
    <2> QED BY <1>2, <2>1
  <1>6. GetShard(s, id) \subseteq {id * m + s.cluster}
    BY <1>2, <1>3, <1>4, <1>5
  <1>7. ASSUME s.clusters <= 1 PROVE GetShard(s, id) = {id}
    <2>1. m = 1 /\ s.cluster = 0
      BY <1>1, <1>7 DEF m, Stride
    <2>2. id < Len(l)
      BY <1>1, <1>2, <2>1
    <2>3. id * m + s.cluster = id
      BY <1>3, <2>1
    <2> QED BY <1>3, <1>4, <1>5, <2>2, <2>3, <1>2
  <1>8. ASSUME id = 0 PROVE GetShard(s, id) = {id}
    <2>1. Owns(s, id)
      BY ShardsLaid, <1>2 DEF IsSetup
    <2>2. s.cluster = 0
      <3>1. \A k \in Nat : Owns(s, k) <=> k % Stride(s) = s.cluster
        BY SetupFacts DEF IsSetup
      <3>3. 0 % m = s.cluster
        BY <1>8, <2>1, <3>1 DEF m
      <3>2. 0 % m = 0
        BY <1>1
      <3> QED BY <3>2, <3>3
    <2>3. id < Len(l)
      <3>1. s.shards > 0
        BY <1>1, <1>2, <1>8
      <3>2. Len(l) = 0 => Len(l) * m = 0
        BY <1>1
      <3> QED BY <1>1, <1>2, <1>8, <2>2, <3>1, <3>2
    <2>4. id * m + s.cluster = id
      <3>1. 0 * m + 0 = 0
        BY <1>1
      <3> QED BY <1>8, <2>2, <3>1
    <2> QED BY <1>2, <1>3, <1>4, <1>5, <2>3, <2>4
  <1> QED BY <1>3, <1>6, <1>7, <1>8 DEF m

\* A lookup by the id of a shard of the process finds that shard in two cases.
Alike(s, id) == s.clusters <= 1 \/ id = 0

LEMMA FindLemma ==
    ASSUME NEW s \in Setups, NEW id \in Range(Shards(s))
    PROVE  GetShard(s, id) = {id} <=> Alike(s, id)
  <1>1. IsSetup(s)
    BY BotAssumption DEF BotAssumption, IsSetup
  <1>2. /\ id \in Nat /\ s.clusters \in Nat /\ s.cluster \in Nat
        /\ GetShard(s, id) \subseteq {id * Stride(s) + s.cluster}
        /\ s.clusters <= 1 => GetShard(s, id) = {id}
        /\ id = 0 => GetShard(s, id) = {id}
    BY <1>1, GetShardFinds DEF IsSetup
  <1>3. ASSUME s.clusters > 1, GetShard(s, id) = {id}
        PROVE  id = 0
    <2>1. id = id * s.clusters + s.cluster
      BY <1>2, <1>3 DEF Stride
    <2>2. 2 * id <= s.clusters * id
      BY <1>2, <1>3, MulMono
    <2>3. s.clusters * id = id * s.clusters /\ id * s.clusters \in Nat /\ 2 * id = id + id
      BY <1>2
    <2> QED BY <1>2, <2>1, <2>2, <2>3
  <1> QED BY <1>2, <1>3 DEF Alike

\* What the last lookup has found.
Looked == lookup # None => (lookup.found = {lookup.id} <=> Alike(lookup.setup, lookup.id))

\* A step that leaves the lookup as it is leaves what it found.
LEMMA LookedStep ==
    ASSUME Looked, [Next]_vars
    PROVE  Looked'
  <1>1. CASE lookup' = lookup
    BY <1>1 DEF Looked
  <1>2. CASE lookup' = None
    BY <1>2 DEF Looked
  <1>3. ASSUME NEW t \in Pool, Find(t) PROVE Looked'
    <2>1. PICK s \in Setups : \E id \in Range(Shards(s)) :
             lookup' = [setup |-> s, id |-> id, found |-> GetShard(s, id)]
      BY <1>3 DEF Find
    <2>2. PICK id \in Range(Shards(s)) :
             lookup' = [setup |-> s, id |-> id, found |-> GetShard(s, id)]
      BY <2>1
    <2>3. /\ lookup'.setup = s /\ lookup'.id = id
          /\ lookup'.found = GetShard(s, id)
      BY <2>2
    <2>4. GetShard(s, id) = {id} <=> Alike(s, id)
      BY FindLemma
    <2> QED BY <2>3, <2>4 DEF Looked
  <1>4. \/ lookup' = lookup \/ lookup' = None
        \/ \E t \in Pool : Find(t)
    BY DEF Next, vars, Main, Construct, Run, Look, Sleep, Destroy, Join, Free, WakeUp,
           Interrupt, Outside, Receive, Worker, Leave, Take, Return, Answered, Inside,
           User, Throw, SetTimer, ReduceThreads, AddRunThread, Ask, CallShutdown
  <1> QED BY <1>1, <1>2, <1>3, <1>4

\* The lookup of a shard returns the one that was asked for when the bot is one
\* process or the id is 0, and never otherwise: it takes the id for a position
\* among the shards of the process (shard_mgr.cpp:71-79, 479-485).  For any number
\* of shards and clusters.
THEOREM ShardFound ==
    Spec => [](FindsShard <=> lookup = None \/ Alike(lookup.setup, lookup.id))
  <1>1. Init => Looked
    BY DEF Init, Looked
  <1>2. Looked /\ [Next]_vars => Looked'
    BY LookedStep
  <1>3. Looked => (FindsShard <=> lookup = None \/ Alike(lookup.setup, lookup.id))
    BY DEF Looked, FindsShard
  <1> QED BY <1>1, <1>2, <1>3, PTL DEF Spec

-----------------------------------------------------------------------------
(* The threads of the pool.                                                *)

ThreadAt == {"idle", "handler", "timer", "found", "waits", "over"} \cup Shutdown
ThreadState == [at : ThreadAt, own : BOOLEAN, answered : BOOLEAN]
Task == [task : {"event", "timer", "throw", "answer"}, by : Nat \cup {None}]

\* What the steps of the pool go by.
PoolType ==
    /\ main \in {"constructor", "built", "terminated", "ran", "looked", "asleep",
                 "leaving", "joining", "gone"}
    /\ outsider \in {"away", "done"} \cup Shutdown
    /\ stopped \in BOOLEAN /\ missed \in BOOLEAN /\ grown \in BOOLEAN
    /\ queue \in Seq(Task)
    /\ pool \in Seq(ThreadState)
    /\ joined \in Nat /\ joined <= Len(pool)

\* What the destructor has joined stays over: whatever main has done so far.
JoinedOver ==
    /\ main \notin {"joining", "gone"} => joined = 0
    /\ \A t \in 1 .. joined : Joinable(t) => Over(t)
    /\ main = "gone" => joined = Len(pool) \/ grown

PoolInv == PoolType /\ JoinedOver

LEMMA PoolInit == Init => PoolInv
  <1> SUFFICES ASSUME Init PROVE PoolInv
    OBVIOUS
  <1>1. pool \in Seq(ThreadState) /\ Len(pool) \in Nat
    <2>1. Started \in Nat /\ Thread(~external) \in ThreadState
      BY BotAssumption DEF BotAssumption, Init, Thread, ThreadState, ThreadAt
    <2> QED BY <2>1 DEF Init
  <1>2. PoolType
    <2>1. queue \in Seq(Task)
      BY DEF Init
    <2>2. joined = 0
      BY DEF Init
    <2>3. joined <= Len(pool)
      BY <1>1, <2>2
    <2>4. main = "constructor" /\ outsider = "away"
          /\ stopped = FALSE /\ missed = FALSE /\ grown = FALSE
      BY DEF Init
    <2> QED BY <1>1, <2>1, <2>2, <2>3, <2>4 DEF PoolType
  <1>3. JoinedOver
    BY DEF Init, JoinedOver
  <1> QED BY <1>2, <1>3 DEF PoolInv

\* What a step of shutdown() does to main and to the flags.
LEMMA StepEffect ==
    ASSUME PoolType, NEW at \in Shutdown, Step(at)
    PROVE  /\ main' = main \/ (main = "asleep" /\ main' = "leaving")
           /\ stopped' \in BOOLEAN /\ missed' \in BOOLEAN
           /\ After(at) \in {"stop", "notify", "done"}
  <1>1. CASE at = "set"
    BY <1>1 DEF Step, After, SetStatus, PoolType
  <1>2. CASE at = "stop"
    BY <1>2 DEF Step, After, StopManager, PoolType
  <1>3. CASE at = "notify"
    <2>1. NotifyAll
      BY <1>3 DEF Step
    <2>2. missed' \in BOOLEAN
      BY <2>1 DEF NotifyAll, PoolType
    <2>3. UNCHANGED stopped /\ (main' = main \/ (main = "asleep" /\ main' = "leaving"))
      BY <2>1 DEF NotifyAll
    <2> QED BY <1>3, <2>2, <2>3 DEF After, PoolType
  <1> QED BY <1>1, <1>2, <1>3 DEF Shutdown

\* A step that moves one thread that is not over, and adds none, spoils nothing
\* the destructor has joined.
LEMMA PoolKept ==
    ASSUME PoolInv, NEW t \in Pool, pool[t].at # "over",
           Len(pool') = Len(pool), pool' \in Seq(ThreadState),
           \A u \in Pool : /\ pool'[u].own = pool[u].own
                           /\ u # t => pool'[u].at = pool[u].at,
           UNCHANGED <<joined, grown>>,
           main' = main \/ (main = "asleep" /\ main' = "leaving")
    PROVE  JoinedOver' /\ joined' \in Nat /\ joined' <= Len(pool')
  <1>1. PoolType /\ JoinedOver /\ Len(pool) \in Nat /\ Pool = 1 .. Len(pool)
    BY DEF PoolInv, PoolType, Pool
  <1>2. ASSUME NEW u \in 1 .. joined, pool'[u].own PROVE pool'[u].at = "over"
    <2>1. u \in Pool
      BY <1>1 DEF PoolType
    <2>2. pool[u].at = "over"
      BY <1>1, <1>2, <2>1 DEF JoinedOver, Joinable, Over
    <2> QED BY <2>1, <2>2
  <1> QED BY <1>1, <1>2 DEF PoolType, JoinedOver, Joinable, Over

\* f is the pool with thread t somewhere else, or answered.
Moved(t, f) ==
    \/ \E where \in ThreadAt : \/ f = [pool EXCEPT ![t].at = where]
                               \/ f = [pool EXCEPT ![t].at = where, ![t].answered = FALSE]
    \/ f = [pool EXCEPT ![t].answered = TRUE]

LEMMA MoveType ==
    ASSUME pool \in Seq(ThreadState), NEW t \in Pool, NEW f, Moved(t, f)
    PROVE  /\ f \in Seq(ThreadState) /\ Len(f) = Len(pool)
           /\ \A u \in Pool : /\ f[u].own = pool[u].own
                              /\ u # t => f[u].at = pool[u].at
  <1>1. /\ Pool = 1 .. Len(pool) /\ t \in 1 .. Len(pool)
        /\ \A u \in Pool : pool[u] \in ThreadState
    BY DEF Pool
  <1>2. PICK e \in ThreadState : /\ f = [pool EXCEPT ![t] = e]
                                 /\ e.own = pool[t].own
    <2>1. ASSUME NEW where \in ThreadAt, f = [pool EXCEPT ![t].at = where]
          PROVE  \E e \in ThreadState : /\ f = [pool EXCEPT ![t] = e]
                                        /\ e.own = pool[t].own
      <3> DEFINE e == [pool[t] EXCEPT !.at = where]
      <3>1. e \in ThreadState /\ e.own = pool[t].own
        BY <1>1 DEF ThreadState
      <3>2. f = [pool EXCEPT ![t] = e]
        BY <2>1
      <3> QED BY <3>1, <3>2
    <2>2. ASSUME NEW where \in ThreadAt,
                 f = [pool EXCEPT ![t].at = where, ![t].answered = FALSE]
          PROVE  \E e \in ThreadState : /\ f = [pool EXCEPT ![t] = e]
                                        /\ e.own = pool[t].own
      <3> DEFINE e == [pool[t] EXCEPT !.at = where, !.answered = FALSE]
      <3>1. e \in ThreadState /\ e.own = pool[t].own
        BY <1>1 DEF ThreadState
      <3>2. f = [pool EXCEPT ![t] = e]
        BY <1>1, <2>2
      <3> QED BY <3>1, <3>2
    <2>3. CASE f = [pool EXCEPT ![t].answered = TRUE]
      <3> DEFINE e == [pool[t] EXCEPT !.answered = TRUE]
      <3>1. e \in ThreadState /\ e.own = pool[t].own
        BY <1>1 DEF ThreadState
      <3>2. f = [pool EXCEPT ![t] = e]
        BY <2>3
      <3> QED BY <3>1, <3>2
    <2> QED BY <2>1, <2>2, <2>3 DEF Moved
  <1> QED BY <1>1, <1>2, ExceptSeq

LEMMA MoveKept ==
    ASSUME PoolInv, NEW t \in Pool, pool[t].at # "over", Moved(t, pool'),
           UNCHANGED <<joined, grown>>,
           main' = main \/ (main = "asleep" /\ main' = "leaving")
    PROVE  /\ JoinedOver' /\ joined' \in Nat /\ joined' <= Len(pool')
           /\ pool' \in Seq(ThreadState)
  <1>1. pool \in Seq(ThreadState)
    BY DEF PoolInv, PoolType
  <1>2. /\ pool' \in Seq(ThreadState) /\ Len(pool') = Len(pool)
        /\ \A u \in Pool : /\ pool'[u].own = pool[u].own
                           /\ u # t => pool'[u].at = pool[u].at
    BY <1>1, MoveType
  <1> QED BY <1>2, PoolKept

\* Tasks posted and taken.
LEMMA QueueType ==
    ASSUME queue \in Seq(Task)
    PROVE  /\ \A task \in {"event", "timer", "throw", "answer"} : \A by \in Nat \cup {None} :
                 Append(queue, [task |-> task, by |-> by]) \in Seq(Task)
           /\ queue # <<>> => Head(queue) \in Task /\ Tail(queue) \in Seq(Task)
  <1>1. ASSUME NEW task \in {"event", "timer", "throw", "answer"},
               NEW by \in Nat \cup {None}
        PROVE  Append(queue, [task |-> task, by |-> by]) \in Seq(Task)
    <2>1. [task |-> task, by |-> by] \in Task
      BY DEF Task
    <2> QED BY <2>1, AppendProperties
  <1> QED BY <1>1, HeadTailProperties

\* The steps of the thread of main.
LEMMA MainInv ==
    ASSUME PoolInv, Main \/ WakeUp
    PROVE  PoolInv'
  <1>1. PoolType /\ JoinedOver
    BY DEF PoolInv
  <1>2. CASE Construct
    BY <1>1, <1>2 DEF Construct, SetupGateway, PoolInv, PoolType, JoinedOver, Joinable, Over
  <1>3. CASE Run
    <2>1. missed' \in BOOLEAN
      BY <1>1, <1>3 DEF Run, PoolType
    <2> QED BY <1>1, <1>3, <2>1 DEF Run, MainAt, PoolInv, PoolType, JoinedOver, Joinable, Over
  <1>4. CASE Look \/ Sleep \/ WakeUp \/ Destroy
    BY <1>1, <1>4 DEF Look, Sleep, WakeUp, Destroy, MainAt, PoolInv, PoolType, JoinedOver,
                      Joinable, Over
  <1>5. CASE Join
    <2>1. /\ joined' = joined + 1 /\ joined < Len(pool)
          /\ Joinable(joined + 1) => Over(joined + 1)
          /\ UNCHANGED <<main, pool, grown, stopped, queue, outsider, missed>>
          /\ main = "joining"
      BY <1>5 DEF Join
    <2>2. PoolType'
      BY <1>1, <2>1 DEF PoolType
    <2>3. \A t \in 1 .. joined' : t \in 1 .. joined \/ t = joined + 1
      BY <1>1, <2>1 DEF PoolType
    <2>4. JoinedOver'
      BY <1>1, <2>1, <2>3 DEF JoinedOver, Joinable, Over
    <2> QED BY <2>2, <2>4 DEF PoolInv
  <1>6. CASE Free
    BY <1>1, <1>6 DEF Free, MainAt, PoolInv, PoolType, JoinedOver, Joinable, Over
  <1> QED BY <1>2, <1>3, <1>4, <1>5, <1>6 DEF Main

\* The steps of a thread of the pool, but for adding one.
LEMMA ThreadInv ==
    ASSUME PoolInv, NEW t \in Pool,
           \/ Leave(t) \/ Take(t) \/ Return(t) \/ Answered(t) \/ Inside(t)
           \/ Throw(t) \/ SetTimer(t) \/ ReduceThreads(t) \/ Ask(t) \/ Find(t)
           \/ CallShutdown(t)
    PROVE  PoolInv'
  <1>1. /\ PoolType /\ queue \in Seq(Task) /\ pool \in Seq(ThreadState)
        /\ t \in Nat /\ t \in 1 .. Len(pool) /\ Len(pool) \in Nat
    BY DEF PoolInv, PoolType, Pool
  <1>2. ASSUME Handles, UNCHANGED grown, queue' \in Seq(Task),
               pool[t].at # "over", Moved(t, pool')
        PROVE  PoolInv'
    <2>1. /\ JoinedOver' /\ joined' \in Nat /\ joined' <= Len(pool')
          /\ pool' \in Seq(ThreadState)
      BY <1>2, MoveKept DEF Handles
    <2> QED BY <1>1, <1>2, <2>1 DEF Handles, PoolInv, PoolType
  <1>3. CASE Leave(t) \/ Return(t) \/ Answered(t) \/ Throw(t) \/ Find(t) \/ CallShutdown(t)
    <2>1. /\ Handles /\ UNCHANGED <<grown, queue>> /\ pool[t].at # "over"
          /\ \E where \in ThreadAt : pool' = [pool EXCEPT ![t].at = where]
      BY <1>3 DEF Leave, Return, Answered, Throw, Find, CallShutdown, Move, ThreadAt, Shutdown
    <2> QED BY <1>1, <1>2, <2>1 DEF Moved
  <1>4. CASE SetTimer(t) \/ ReduceThreads(t) \/ Ask(t)
    <2>1. /\ Handles /\ UNCHANGED grown /\ pool[t].at # "over"
          /\ \E where \in ThreadAt :
                \/ pool' = [pool EXCEPT ![t].at = where]
                \/ pool' = [pool EXCEPT ![t].at = where, ![t].answered = FALSE]
          /\ \E task \in {"timer", "throw", "answer"} :
                queue' = Append(queue, [task |-> task, by |-> t])
      BY <1>4 DEF SetTimer, ReduceThreads, Ask, Posted, Move, ThreadAt
    <2>2. queue' \in Seq(Task)
      BY <1>1, <2>1, QueueType
    <2> QED BY <1>2, <2>1, <2>2 DEF Moved
  <1>5. CASE Take(t)
    <2> DEFINE h == Head(queue)
    <2>1. /\ Handles /\ UNCHANGED grown /\ pool[t].at = "idle"
          /\ queue # <<>> /\ queue' = Tail(queue) /\ Began(h, t)
      BY <1>5 DEF Take
    <2>2. h \in Task /\ queue' \in Seq(Task)
      BY <1>1, <2>1, QueueType
    <2> HIDE DEF h
    <2>3. CASE h.task # "answer"
      <3>1. \E where \in ThreadAt : pool' = [pool EXCEPT ![t].at = where]
        BY <2>1, <2>2, <2>3 DEF Began, Move, ThreadAt, Task
      <3> QED BY <1>2, <2>1, <2>2, <3>1 DEF Moved
    <2>4. CASE h.task = "answer"
      <3>1. pool' = [pool EXCEPT ![h.by].answered = TRUE]
        BY <2>1, <2>4 DEF Began
      <3>2. /\ pool' \in Seq(ThreadState) /\ Len(pool') = Len(pool)
            /\ \A u \in Pool : /\ pool'[u].own = pool[u].own
                               /\ u # t => pool'[u].at = pool[u].at
        <4>1. CASE h.by \in Pool
          <5>1. /\ pool' \in Seq(ThreadState) /\ Len(pool') = Len(pool)
                /\ \A u \in Pool : /\ pool'[u].own = pool[u].own
                                   /\ u # h.by => pool'[u].at = pool[u].at
            <6>1. Moved(h.by, pool')
              BY <3>1 DEF Moved
            <6> QED BY <1>1, <4>1, <6>1, MoveType
          <5>2. pool'[h.by].at = pool[h.by].at
            <6>1. pool[h.by] \in ThreadState /\ h.by \in DOMAIN pool
              BY <1>1, <4>1 DEF Pool
            <6> QED BY <3>1, <6>1 DEF ThreadState
          <5> QED BY <5>1, <5>2
        <4>2. CASE h.by \notin Pool
          <5>1. pool' = pool
            BY <1>1, <3>1, <4>2 DEF Pool
          <5> QED BY <1>1, <5>1
        <4> QED BY <4>1, <4>2
      <3>5. JoinedOver' /\ joined' \in Nat /\ joined' <= Len(pool')
        BY <2>1, <3>2, PoolKept DEF Handles
      <3> QED BY <1>1, <2>1, <2>2, <3>2, <3>5 DEF Handles, PoolInv, PoolType
    <2> QED BY <2>3, <2>4
  <1>6. CASE Inside(t)
    <2> DEFINE where == IF After(pool[t].at) = "done" THEN "idle" ELSE After(pool[t].at)
    <2>1. /\ pool[t].at \in Shutdown /\ Step(pool[t].at)
          /\ pool' = [pool EXCEPT ![t].at = where]
          /\ UNCHANGED <<joined, queue, outsider, grown>>
      BY <1>6 DEF Inside, Move
    <2>2. /\ main' = main \/ (main = "asleep" /\ main' = "leaving")
          /\ stopped' \in BOOLEAN /\ missed' \in BOOLEAN
          /\ where \in ThreadAt
      BY <1>1, <2>1, StepEffect DEF ThreadAt, Shutdown
    <2> HIDE DEF where
    <2>3. /\ JoinedOver' /\ joined' \in Nat /\ joined' <= Len(pool')
          /\ pool' \in Seq(ThreadState)
      BY <2>1, <2>2, MoveKept DEF Shutdown, Moved
    <2> QED BY <1>1, <2>1, <2>2, <2>3 DEF PoolInv, PoolType
  <1> QED BY <1>3, <1>4, <1>5, <1>6

\* A thread added while the destructor joins the others sets grown.
LEMMA AddInv ==
    ASSUME PoolInv, NEW t \in Pool, main # "gone", AddRunThread(t)
    PROVE  PoolInv'
  <1> DEFINE f == [pool EXCEPT ![t].at = "idle"]
  <1>1. /\ PoolType /\ JoinedOver /\ pool \in Seq(ThreadState) /\ Len(pool) \in Nat
        /\ Pool = 1 .. Len(pool) /\ joined \in Nat /\ joined <= Len(pool)
    BY DEF PoolInv, PoolType, Pool
  <1>2. /\ pool[t].at = "handler" /\ Handles /\ UNCHANGED queue
        /\ pool' = Append(f, Thread(TRUE))
        /\ grown' = (grown \/ main = "joining")
    BY DEF AddRunThread
  <1>3. /\ f \in Seq(ThreadState) /\ Len(f) = Len(pool)
        /\ \A u \in Pool : /\ f[u].own = pool[u].own
                           /\ u # t => f[u].at = pool[u].at
    <2>1. "idle" \in ThreadAt
      BY DEF ThreadAt
    <2>2. Moved(t, f)
      BY <2>1 DEF Moved
    <2> QED BY <1>1, <2>2, MoveType
  <1> HIDE DEF f
  <1>5. Thread(TRUE) \in ThreadState
    BY DEF Thread, ThreadState, ThreadAt
  <1>6. /\ pool' \in Seq(ThreadState) /\ Len(pool') = Len(pool) + 1
        /\ \A u \in Pool : pool'[u] = f[u]
    <2>1. /\ pool' \in Seq(ThreadState) /\ Len(pool') = Len(f) + 1
          /\ \A u \in 1 .. Len(f) : pool'[u] = f[u]
      <3> DEFINE e == Thread(TRUE)
      <3>1. pool' = Append(f, e) /\ e \in ThreadState /\ f \in Seq(ThreadState)
        BY <1>2, <1>3, <1>5
      <3> HIDE DEF e
      <3> QED BY <3>1, AppendProperties
    <2> QED BY <1>1, <1>3, <2>1
  <1>7. ASSUME NEW u \in 1 .. joined, pool'[u].own PROVE pool'[u].at = "over"
    <2>1. u \in Pool
      BY <1>1
    <2>2. pool[u].at = "over" /\ u # t
      BY ZenonT(40), <1>1, <1>2, <1>3, <1>6, <1>7, <2>1 DEF JoinedOver, Joinable, Over
    <2> QED BY <1>3, <1>6, <2>1, <2>2
  <1>8. JoinedOver'
    BY <1>1, <1>2, <1>7 DEF JoinedOver, Joinable, Over, Handles
  <1>9. PoolType'
    <2>1. grown' \in BOOLEAN
      BY <1>1, <1>2 DEF PoolType
    <2>2. joined' \in Nat /\ joined' <= Len(pool')
      BY <1>1, <1>2, <1>6 DEF Handles
    <2> QED BY <1>1, <1>2, <1>6, <2>1, <2>2 DEF PoolType, Handles
  <1> QED BY <1>8, <1>9 DEF PoolInv

LEMMA PoolStep ==
    ASSUME PoolInv, [Next]_vars
    PROVE  PoolInv'
  <1>1. CASE Main \/ WakeUp
    BY <1>1, MainInv
  <1>2. CASE Interrupt
    BY <1>2 DEF Interrupt, PoolInv, PoolType, JoinedOver, Joinable, Over, Shutdown
  <1>3. CASE Outside
    <2>1. /\ outsider \in Shutdown /\ Step(outsider) /\ outsider' = After(outsider)
          /\ UNCHANGED <<joined, queue, pool, grown>>
      BY <1>3 DEF Outside
    <2>2. /\ main' = main \/ (main = "asleep" /\ main' = "leaving")
          /\ stopped' \in BOOLEAN /\ missed' \in BOOLEAN
          /\ outsider' \in {"stop", "notify", "done"}
      BY <2>1, StepEffect DEF PoolInv
    <2> QED BY <2>1, <2>2 DEF PoolInv, PoolType, JoinedOver, Joinable, Over, Shutdown
  <1>4. CASE Receive
    <2>1. queue' = Append(queue, [task |-> "event", by |-> None])
      BY <1>4 DEF Receive, Posted
    <2>2. queue' \in Seq(Task)
      BY <2>1, QueueType DEF PoolInv, PoolType
    <2> QED BY <1>4, <2>2 DEF Receive, Handles, PoolInv, PoolType, JoinedOver, Joinable, Over
  <1>5. ASSUME NEW t \in Pool, Worker(t) \/ User(t)
        PROVE  PoolInv'
    BY <1>5, ThreadInv, AddInv DEF Worker, User
  <1>6. CASE UNCHANGED vars
    BY <1>6 DEF vars, PoolInv, PoolType, JoinedOver, Joinable, Over
  <1> QED BY <1>1, <1>2, <1>3, <1>4, <1>5, <1>6 DEF Next

\* Where main, the user's thread and the threads of the pool are, and that the
\* destructor has joined only threads that have left (core.cpp:205-216).
THEOREM PoolCorrect == Spec => []PoolInv
  <1>1. Init => PoolInv
    BY PoolInit
  <1>2. PoolInv /\ [Next]_vars => PoolInv'
    BY PoolStep
  <1> QED BY <1>1, <1>2, PTL DEF Spec

\* When the bot is destroyed no thread of its own is left to use it, but for one
\* that was added while the destructor joined the others (core.cpp:205-216): for
\* a pool of any size, and shutdown() called from any thread at any time.
THEOREM Outlived == Spec => []OutlivedByNone
  <1>1. PoolInv => OutlivedByNone
    BY DEF PoolInv, PoolType, JoinedOver, OutlivedByNone, Joinable, Over, Pool
  <1> QED BY <1>1, PoolCorrect, PTL
=============================================================================
