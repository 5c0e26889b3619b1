--------------------------- MODULE UciEngineProofs ---------------------------
(***************************************************************************)
(* Proofs about the engine, for every value of the constants.              *)
(***************************************************************************)
EXTENDS UciEngine, FoldProofs, FiniteSetTheorems

-----------------------------------------------------------------------------
(* Scheduled events.                                                       *)

(* Among finitely many events one has the least index, so the CHOOSE of    *)
(* uci_sim_device_dequeue_ready_event picks an event.                      *)
LEMMA FirstReady ==
  ASSUME NEW R, R \subseteq Event, R # {}, IsFiniteSet(R)
  PROVE  \E e \in R : \A f \in R : e.pos <= f.pos
<1> DEFINE Below(e) == {f \in R : f.pos < e.pos}
<1> DEFINE T == {Below(e) : e \in R}
<1>1. T \subseteq FiniteSubsetsOf(R) /\ T # {}
  <2>1. \A U \in SUBSET R : IsFiniteSet(U) BY FS_Subset
  <2> QED BY <2>1 DEF FiniteSubsetsOf
<1>2. PICK X \in T : \A Y \in T : ~ (<<Y, X>> \in StrictSubsetOrdering(R))
  <2> HIDE DEF T
  <2> QED BY <1>1, FS_StrictSubsetOrderingWellFounded, WFMin
<1>3. PICK e \in R : X = Below(e) BY <1>2
<1>4. ASSUME NEW f \in R, f.pos < e.pos
      PROVE  FALSE
  <2>1. e.pos \in Nat /\ f.pos \in Nat BY DEF Event
  <2>2. Below(f) \subseteq Below(e) BY <1>4, <2>1 DEF Event
  <2>3. f \in Below(e) /\ f \notin Below(f) BY <1>4, <2>1
  <2>4. <<Below(f), Below(e)>> \in StrictSubsetOrdering(R)
    BY <2>2, <2>3 DEF StrictSubsetOrdering
  <2> QED BY <1>2, <1>3, <2>4
<1> QED BY <1>4 DEF Event

(* A set of events obtained from another one by changing delays or indices *)
(* has no more elements.                                                   *)
LEMMA EventImage ==
  ASSUME NEW E, IsFiniteSet(E), NEW T, NEW f \in [E -> T], T = {f[e] : e \in E}
  PROVE  IsFiniteSet(T) /\ Cardinality(T) <= Cardinality(E)
<1>1. f \in Surjection(E, T) BY DEF Surjection
<1> QED BY <1>1, FS_Surjection

(* Two entries of the array that differ in their index at most.            *)
SameEvent(c, e) == c.type = e.type /\ c.sid = e.sid /\ c.delay = e.delay

(* A part of the array closed up in its order has its entries, their       *)
(* owners and their delays, and no more of them.                           *)
LEMMA InOrderType ==
  ASSUME NEW E, E \subseteq Event, IsFiniteSet(E)
  PROVE  /\ InOrder(E) \subseteq Event
         /\ IsFiniteSet(InOrder(E))
         /\ Cardinality(InOrder(E)) <= Cardinality(E)
         /\ \A c \in InOrder(E) : \E e \in E : SameEvent(c, e)
<1> DEFINE Index(e) == Cardinality({f \in E : f.pos <= e.pos})
<1> DEFINE g == [e \in E |-> [e EXCEPT !.pos = Index(e)]]
<1>1. \A e \in E : Index(e) \in Nat
  <2> TAKE e \in E
  <2>1. {f \in E : f.pos <= e.pos} \in SUBSET E OBVIOUS
  <2> QED BY <2>1, FS_Subset, FS_CardinalityType
<1> HIDE DEF Index
<1>2. InOrder(E) = {g[e] : e \in E} BY DEF InOrder, Index
<1>3. \A e \in E : /\ g[e] \in Event
                   /\ SameEvent(g[e], e)
  BY <1>1 DEF Event, SameEvent
<1>4. g \in [E -> InOrder(E)] BY <1>2
<1>5. IsFiniteSet(InOrder(E)) /\ Cardinality(InOrder(E)) <= Cardinality(E)
  <2> HIDE DEF g
  <2> QED BY <1>2, <1>4, EventImage
<1> QED BY <1>2, <1>3, <1>5

(* The entries of a set of events are numbered without a gap.              *)
DenseSet(E) == {e.pos : e \in E} = 1 .. Cardinality(E)
Distinct(E) == \A e, f \in E : e.pos = f.pos => e = f

(* In a dense array no two entries have the same index.                    *)
LEMMA DenseDistinct ==
  ASSUME NEW E, IsFiniteSet(E), DenseSet(E)
  PROVE  Distinct(E)
<1> DEFINE n == Cardinality(E)
<1> DEFINE g == [e \in E |-> e.pos]
<1>1. n \in Nat BY FS_CardinalityType
<1>2. g \in Surjection(E, 1 .. n) BY DEF DenseSet, Surjection
<1>3. Cardinality(1 .. n) = n
  <2> HIDE DEF n
  <2> QED BY <1>1, FS_Interval
<1>4. g \in Injection(E, 1 .. n)
  <2> HIDE DEF g
  <2> QED BY <1>2, <1>3, FS_Surjection
<1>5. \A e, f \in E : g[e] = g[f] => e = f
  <2> HIDE DEF g
  <2> QED BY <1>4 DEF Injection, IsInjective
<1> QED BY <1>5 DEF Distinct

(* It is numbered without a gap: ranks are all different and at most the   *)
(* number of entries.                                                      *)
LEMMA InOrderDense ==
  ASSUME NEW E, E \subseteq Event, IsFiniteSet(E), Distinct(E)
  PROVE  DenseSet(InOrder(E))
<1> DEFINE Upto(e) == {f \in E : f.pos <= e.pos}
<1> DEFINE rank == [e \in E |-> Cardinality(Upto(e))]
<1> DEFINE n == Cardinality(E)
<1>1. \A e \in E : Upto(e) \in SUBSET E /\ e \in Upto(e) BY DEF Event
<1>2. \A e \in E : /\ IsFiniteSet(Upto(e)) /\ Cardinality(Upto(e)) \in Nat
                   /\ Cardinality(Upto(e)) <= n /\ Cardinality(Upto(e)) # 0
  <2> HIDE DEF Upto
  <2> QED BY <1>1, FS_Subset, FS_CardinalityType, FS_EmptySet
<1>3. n \in Nat BY FS_CardinalityType
<1>4. rank \in [E -> 1 .. n]
  <2> HIDE DEF Upto, n
  <2> QED BY <1>2, <1>3
<1>5. ASSUME NEW e \in E, NEW f \in E, e.pos < f.pos
      PROVE  rank[e] # rank[f]
  <2>1. Upto(e) \in SUBSET Upto(f) /\ f \in Upto(f) /\ f \notin Upto(e)
    BY <1>5 DEF Event
  <2>2. Cardinality(Upto(e)) # Cardinality(Upto(f))
    <3> HIDE DEF Upto
    <3> QED BY <1>2, <2>1, FS_Subset
  <2> QED BY <2>2
<1>6. \A e, f \in E : rank[e] = rank[f] => e = f
  <2> SUFFICES ASSUME NEW e \in E, NEW f \in E, rank[e] = rank[f] PROVE e = f
    OBVIOUS
  <2>1. e.pos \in Nat /\ f.pos \in Nat BY DEF Event
  <2>2. ~(e.pos < f.pos) /\ ~(f.pos < e.pos)
    <3> HIDE DEF rank
    <3> QED BY <1>5
  <2> QED BY <2>1, <2>2 DEF Distinct
<1> HIDE DEF rank, n
<1>7. rank \in Injection(E, 1 .. n) BY <1>4, <1>6 DEF Injection, IsInjective
<1>8. IsFiniteSet(1 .. n) /\ Cardinality(1 .. n) = n BY <1>3, FS_Interval
<1>9. rank \in Surjection(E, 1 .. n) BY <1>7, <1>8, FS_Injection DEF n
<1>10. {rank[e] : e \in E} = 1 .. n BY <1>9 DEF Surjection
<1> DEFINE g == [e \in E |-> [e EXCEPT !.pos = rank[e]]]
<1>11. InOrder(E) = {g[e] : e \in E} BY DEF InOrder, rank
<1>12. \A e \in E : g[e].pos = rank[e] BY DEF Event
<1>13. {c.pos : c \in InOrder(E)} = 1 .. n
  <2> HIDE DEF g
  <2> QED BY <1>10, <1>11, <1>12
<1>14. g \in Surjection(E, InOrder(E)) /\ \A e, f \in E : g[e] = g[f] => e = f
  <2> HIDE DEF g
  <2>1. DOMAIN g = E BY DEF g
  <2>2. g \in [E -> InOrder(E)] BY <1>11, <2>1 DEF g
  <2> QED BY <1>6, <1>11, <1>12, <2>2 DEF Surjection
<1>15. g \in Injection(E, InOrder(E))
  <2> HIDE DEF g
  <2> QED BY <1>14 DEF Injection, IsInjective, Surjection
<1>16. Cardinality(InOrder(E)) = n
  <2> HIDE DEF g
  <2> QED BY <1>14, <1>15, FS_Surjection DEF n
<1> QED BY <1>13, <1>16 DEF DenseSet

-----------------------------------------------------------------------------
(* The loops over the array.  Its entries are told apart by their index    *)
(* and the index has no gap, so the entry a loop reads is the one the      *)
(* index names.                                                            *)

(* How many entries of E have an index of at most p.                       *)
Rank(E, p) == Cardinality({f \in E : f.pos <= p})
Moved(e, i) == [e EXCEPT !.pos = i]

LEMMA MovedIs ==
  ASSUME NEW e \in Event, NEW i \in Nat
  PROVE  /\ Moved(e, i) \in Event /\ Moved(e, i).pos = i
         /\ Moved(e, i).type = e.type /\ Moved(e, i).sid = e.sid
         /\ Moved(e, i).delay = e.delay
         /\ i = e.pos => Moved(e, i) = e
BY DEF Moved, Event

LEMMA RankType ==
  ASSUME NEW E, IsFiniteSet(E), NEW p
  PROVE  /\ IsFiniteSet({f \in E : f.pos <= p})
         /\ Rank(E, p) \in Nat
         /\ Rank(E, p) <= Cardinality(E)
         /\ Cardinality(E) \in Nat
<1> DEFINE S == {f \in E : f.pos <= p}
<1>1. S \in SUBSET E OBVIOUS
<1> HIDE DEF S
<1>2. IsFiniteSet(S) /\ Cardinality(S) \in Nat /\ Cardinality(S) <= Cardinality(E)
  BY <1>1, FS_Subset, FS_CardinalityType
<1> QED BY <1>2, FS_CardinalityType DEF S, Rank

LEMMA RankMonotonic ==
  ASSUME NEW E, IsFiniteSet(E), E \subseteq Event, NEW K \in SUBSET E,
         NEW p \in Int, NEW q \in Int, p <= q
  PROVE  Rank(K, p) <= Rank(E, q)
<1> DEFINE S == {f \in K : f.pos <= p}
<1> DEFINE T == {f \in E : f.pos <= q}
<1>1. S \subseteq T
  <2>1. \A f \in E : f.pos \in Nat BY DEF Event
  <2> QED BY <2>1
<1>2. IsFiniteSet(T) BY RankType
<1> HIDE DEF S, T
<1>3. Cardinality(S) <= Cardinality(T) BY <1>1, <1>2, FS_Subset
<1> QED BY <1>3 DEF S, T, Rank

(* One more index: the rank grows by the entry there, if there is one.     *)
LEMMA RankStep ==
  ASSUME NEW E, IsFiniteSet(E), E \subseteq Event, Distinct(E), NEW i \in Nat
  PROVE  /\ \A e \in E : e.pos = i + 1 => Rank(E, i + 1) = Rank(E, i) + 1
         /\ (\A e \in E : e.pos # i + 1) => Rank(E, i + 1) = Rank(E, i)
<1> DEFINE S == {f \in E : f.pos <= i}
<1> DEFINE T == {f \in E : f.pos <= i + 1}
<1>0. \A f \in E : f.pos \in Nat BY DEF Event
<1>1. IsFiniteSet(S) BY RankType
<1>2. ASSUME NEW e \in E, e.pos = i + 1 PROVE Cardinality(T) = Cardinality(S) + 1
  <2>1. T = S \cup {e} BY <1>0, <1>2 DEF Distinct
  <2>2. e \notin S BY <1>2
  <2> HIDE DEF S, T
  <2> QED BY <1>1, <2>1, <2>2, FS_AddElement
<1>3. ASSUME \A e \in E : e.pos # i + 1 PROVE T = S
  BY <1>0, <1>3
<1> HIDE DEF S, T
<1> QED BY <1>2, <1>3 DEF S, T, Rank

(* In an array without a gap the rank of an index is the index.            *)
LEMMA RankDense ==
  ASSUME NEW E, IsFiniteSet(E), E \subseteq Event, DenseSet(E),
         NEW i \in 0 .. Cardinality(E)
  PROVE  Rank(E, i) = i
<1> DEFINE n == Cardinality(E)
<1> DEFINE S == {k \in 0 .. n : Rank(E, k) = k}
<1>1. n \in Nat /\ Distinct(E) BY FS_CardinalityType, DenseDistinct
<1>2. \A k \in 1 .. n : \E e \in E : e.pos = k BY DEF DenseSet
<1> HIDE DEF n
<1>3. 0 \in S
  <2>1. {f \in E : f.pos <= 0} = {}
    <3>1. \A f \in E : f.pos \in 1 .. n BY DEF DenseSet, n
    <3> QED BY <1>1, <3>1
  <2> QED BY <1>1, <2>1, FS_EmptySet DEF Rank
<1>4. ASSUME NEW k \in 1 .. n, k - 1 \in S PROVE k \in S
  <2>1. PICK e \in E : e.pos = k BY <1>2
  <2>2. k - 1 \in Nat /\ (k - 1) + 1 = k /\ Rank(E, k - 1) = k - 1 BY <1>1, <1>4
  <2>3. e.pos = (k - 1) + 1 BY <2>1, <2>2
  <2>4. Rank(E, (k - 1) + 1) = Rank(E, k - 1) + 1 BY <1>1, <2>2, <2>3, RankStep
  <2>5. Rank(E, k) = (k - 1) + 1 BY <2>2, <2>4
  <2> QED BY <2>2, <2>5
<1>5. \A k \in 0 .. n : k \in S
  <2> HIDE DEF S
  <2> QED BY <1>1, <1>3, <1>4, Climb
<1> QED BY <1>5 DEF n

(* Reading the entry at an index.                                          *)
LEMMA EntryIs ==
  ASSUME NEW A, NEW e \in A, NEW i, e.pos = i, \A f \in A : f.pos = i => f = e
  PROVE  EntryAt(A, i) = e
BY DEF EntryAt

-----------------------------------------------------------------------------
(* The array of the compaction loop after i entries were read, of which    *)
(* those in K were kept: they have moved to their rank, and beyond the     *)
(* write position nothing has changed yet.                                 *)
Compacting(E, K, i) ==
  {Moved(e, Rank(K, e.pos)) : e \in {k \in K : k.pos <= i}}
    \cup {e \in E : e.pos > Rank(K, i)}

LEMMA CompactingStep ==
  ASSUME NEW E, IsFiniteSet(E), E \subseteq Event, DenseSet(E), NEW K \in SUBSET E,
         NEW i \in 1 .. Cardinality(E), NEW x \in E, x.pos = i
  PROVE  /\ EntryAt(Compacting(E, K, i - 1), i) = x
         /\ x \notin K => /\ Compacting(E, K, i) = Compacting(E, K, i - 1)
                          /\ Rank(K, i) = Rank(K, i - 1)
         /\ x \in K => /\ Rank(K, i) = Rank(K, i - 1) + 1
                       /\ Compacting(E, K, i) =
                            Put(Compacting(E, K, i - 1), Rank(K, i - 1) + 1, x)
<1> DEFINE A == Compacting(E, K, i - 1)
<1> DEFINE r == Rank(K, i - 1)
<1>1. /\ Distinct(E) /\ Distinct(K) /\ IsFiniteSet(K) /\ K \subseteq Event
      /\ i \in Nat /\ i - 1 \in 0 .. Cardinality(E) /\ i - 1 \in Nat /\ (i - 1) + 1 = i
  <2>1. Cardinality(E) \in Nat BY FS_CardinalityType
  <2>2. IsFiniteSet(K) BY FS_Subset
  <2>3. Distinct(E) BY DenseDistinct
  <2> QED BY <2>1, <2>2, <2>3 DEF Distinct
<1>2. \A f \in E : f.pos \in Nat BY DEF Event
<1>3. \A p : Rank(K, p) \in Nat BY <1>1, RankType
<1>4. \A p \in 0 .. Cardinality(E) : Rank(K, p) <= p
  <2> TAKE p \in 0 .. Cardinality(E)
  <2>1. Rank(K, p) <= Rank(E, p) BY <1>1, RankMonotonic
  <2>2. Rank(E, p) = p BY RankDense
  <2> QED BY <2>1, <2>2
<1>5. r \in Nat /\ r <= i - 1 BY <1>1, <1>3, <1>4
<1>6. \A k \in K : k.pos <= i - 1 => Rank(K, k.pos) <= r
  <2> TAKE k \in K
  <2>1. k.pos \in Int /\ i - 1 \in Int /\ K \in SUBSET K BY <1>1, <1>2
  <2>2. \A p, q \in Int : p <= q => Rank(K, p) <= Rank(K, q)
    <3> TAKE p, q \in Int
    <3> QED BY <1>1, <2>1, RankMonotonic
  <2> HIDE DEF r
  <2> QED BY <2>1, <2>2 DEF r
<1>7. \A k \in K : Moved(k, Rank(K, k.pos)).pos = Rank(K, k.pos)
  <2> TAKE k \in K
  <2>1. k \in Event /\ Rank(K, k.pos) \in Nat BY <1>1, <1>3
  <2> QED BY <2>1, MovedIs
<1>8. EntryAt(A, i) = x
  <2>1. x \in A BY <1>2, <1>5 DEF Compacting
  <2>2. \A f \in A : f.pos = i => f = x
    <3> TAKE f \in A
    <3>1. CASE f \in {Moved(e, Rank(K, e.pos)) : e \in {k \in K : k.pos <= i - 1}}
      <4>1. PICK k \in K : k.pos <= i - 1 /\ f = Moved(k, Rank(K, k.pos)) BY <3>1
      <4>2. f.pos = Rank(K, k.pos) BY <1>7, <4>1
      <4>3. f.pos <= r BY <1>6, <4>1, <4>2
      <4>4. f.pos \in Nat BY <1>3, <4>2
      <4> QED BY <1>1, <1>5, <4>3, <4>4
    <3>2. CASE f \in E BY <1>1, <3>2 DEF Distinct
    <3> QED BY <3>1, <3>2 DEF Compacting
  <2> HIDE DEF A
  <2> QED BY <2>1, <2>2, EntryIs
<1>9. ASSUME x \notin K
      PROVE  Compacting(E, K, i) = A /\ Rank(K, i) = r
  <2>1. \A k \in K : k.pos # (i - 1) + 1 BY <1>1, <1>9 DEF Distinct
  <2>2. Rank(K, (i - 1) + 1) = r BY <1>1, <2>1, RankStep
  <2>3. Rank(K, i) = r BY <1>1, <2>2
  <2>4. \A k \in K : k.pos <= i <=> k.pos <= i - 1
    <3> TAKE k \in K
    <3>1. k.pos \in Nat /\ k.pos # i BY <1>1, <1>2, <2>1
    <3> QED BY <1>1, <3>1
  <2>5. {k \in K : k.pos <= i} = {k \in K : k.pos <= i - 1} BY <2>4
  <2> HIDE DEF r
  <2> QED BY <2>3, <2>5 DEF Compacting, r
<1>10. ASSUME x \in K
       PROVE  /\ Rank(K, i) = r + 1
              /\ Compacting(E, K, i) = Put(A, r + 1, x)
  <2>1. x.pos = (i - 1) + 1 BY <1>1
  <2>2. Rank(K, (i - 1) + 1) = r + 1 BY <1>1, <1>10, <2>1, RankStep
  <2>3. Rank(K, i) = r + 1 BY <1>1, <2>2
  <2>4. {k \in K : k.pos <= i} = {k \in K : k.pos <= i - 1} \cup {x}
    <3>1. \A k \in K : k.pos <= i <=> k.pos <= i - 1 \/ k = x
      <4> TAKE k \in K
      <4>1. k.pos \in Nat /\ (k.pos = i <=> k = x) BY <1>1, <1>2 DEF Distinct
      <4> QED BY <1>1, <4>1
    <3> QED BY <1>10, <3>1
  <2> DEFINE L == {Moved(e, Rank(K, e.pos)) : e \in {k \in K : k.pos <= i - 1}}
  <2>5. {Moved(e, Rank(K, e.pos)) : e \in {k \in K : k.pos <= i}} = L \cup {Moved(x, r + 1)}
    <3>1. Rank(K, x.pos) = r + 1 BY <2>3
    <3> HIDE DEF r
    <3> QED BY <2>4, <3>1
  <2>6. \A f \in L : f.pos # r + 1
    <3> TAKE f \in L
    <3>1. PICK k \in K : k.pos <= i - 1 /\ f = Moved(k, Rank(K, k.pos)) OBVIOUS
    <3>2. f.pos <= r /\ f.pos \in Nat BY <1>3, <1>6, <1>7, <3>1
    <3> QED BY <1>5, <3>2
  <2> DEFINE H == {e \in E : e.pos > r}
  <2>7. \A e \in E : e.pos > r + 1 <=> e \in H /\ e.pos # r + 1
    <3> TAKE e \in E
    <3>1. e.pos \in Nat BY <1>2
    <3> QED BY <1>5, <3>1
  <2>8. {e \in E : e.pos > Rank(K, i)} = {e \in H : e.pos # r + 1}
    <3> HIDE DEF r
    <3> QED BY <2>3, <2>7
  <2>9. {f \in A : f.pos # r + 1} = L \cup {e \in H : e.pos # r + 1}
    <3>1. A = L \cup H BY DEF Compacting
    <3> HIDE DEF A, L, H, r
    <3> QED BY <2>6, <3>1
  <2>10. Compacting(E, K, i) = (L \cup {Moved(x, r + 1)}) \cup {e \in H : e.pos # r + 1}
    <3> HIDE DEF L, H, r
    <3> QED BY <2>5, <2>8 DEF Compacting
  <2>11. Put(A, r + 1, x) = {f \in A : f.pos # r + 1} \cup {Moved(x, r + 1)}
    BY DEF Put, Moved
  <2> HIDE DEF L, H, r, A
  <2> QED BY <2>3, <2>9, <2>10, <2>11
<1> QED BY <1>8, <1>9, <1>10

(* What the loop leaves: the entries that are not dropped, in their order  *)
(* and without a gap.                                                      *)
LEMMA CompactIs ==
  ASSUME NEW E, IsFiniteSet(E), E \subseteq Event, DenseSet(E), NEW dropped
  PROVE  Compact(E, dropped) = InOrder({e \in E : <<e.type, e.sid>> \notin dropped})
<1> DEFINE K == {e \in E : <<e.type, e.sid>> \notin dropped}
<1> DEFINE n == Cardinality(E)
<1> DEFINE Step(last, i) ==
      LET e == EntryAt(last.array, i)
      IN  IF <<e.type, e.sid>> \in dropped THEN last
          ELSE [array |-> Put(last.array, last.out + 1, e), out |-> last.out + 1]
<1> DEFINE Eq(g) == g = [i \in 0 .. n |-> IF i = 0 THEN [array |-> E, out |-> 0]
                                          ELSE Step(g[i - 1], i)]
<1> DEFINE It == CHOOSE g : Eq(g)
<1> DEFINE St(i) == [array |-> Compacting(E, K, i), out |-> Rank(K, i)]
<1> DEFINE f == [i \in 0 .. n |-> St(i)]
<1>1. n \in Nat /\ K \in SUBSET E BY FS_CardinalityType
<1>2. Compact(E, dropped) = Truncate(It[n].array, It[n].out) BY DEF Compact
<1>3. \A i \in 1 .. n : \E x \in E : x.pos = i BY DEF DenseSet
<1>4. ASSUME NEW i \in 1 .. n PROVE St(i) = Step(St(i - 1), i)
  <2>1. PICK x \in E : x.pos = i BY <1>3
  <2>2. x \in K <=> <<x.type, x.sid>> \notin dropped OBVIOUS
  <2> HIDE DEF K
  <2>3. /\ EntryAt(Compacting(E, K, i - 1), i) = x
        /\ x \notin K => /\ Compacting(E, K, i) = Compacting(E, K, i - 1)
                         /\ Rank(K, i) = Rank(K, i - 1)
        /\ x \in K => /\ Rank(K, i) = Rank(K, i - 1) + 1
                      /\ Compacting(E, K, i) =
                           Put(Compacting(E, K, i - 1), Rank(K, i - 1) + 1, x)
    BY <1>1, <2>1, CompactingStep
  <2> QED BY <2>2, <2>3
<1>5. St(0) = [array |-> E, out |-> 0]
  <2>1. \A e \in E : e.pos \in Nat /\ e.pos > 0
    <3>1. \A e \in E : e.pos \in 1 .. n BY DEF DenseSet
    <3> QED BY <1>1, <3>1
  <2>2. {k \in K : k.pos <= 0} = {} BY <2>1
  <2>3. Rank(K, 0) = 0 BY <2>2, FS_EmptySet DEF Rank
  <2>4. {e \in E : e.pos > Rank(K, 0)} = E BY <2>1, <2>3
  <2> HIDE DEF K
  <2>5. Compacting(E, K, 0) = E BY <2>2, <2>4 DEF Compacting
  <2> QED BY <2>3, <2>5
<1> HIDE DEF Step, St, n, K
<1>6. Eq(f)
  <2>1. \A i \in 0 .. n : i # 0 => i \in 1 .. n /\ i - 1 \in 0 .. n BY <1>1
  <2>2. \A i \in 0 .. n : f[i] = IF i = 0 THEN [array |-> E, out |-> 0]
                                 ELSE Step(f[i - 1], i)
    BY <1>4, <1>5, <2>1
  <2> QED BY <2>2
<1>7. Eq(It)
  <2> HIDE DEF Eq
  <2> QED BY <1>6
<1> HIDE DEF It
<1>8. \A i \in 0 .. n : It[i] = IF i = 0 THEN [array |-> E, out |-> 0]
                                ELSE Step(It[i - 1], i)
  BY <1>7
<1> DEFINE S == {i \in 0 .. n : It[i] = St(i)}
<1>9. 0 \in S BY <1>1, <1>5, <1>8
<1>10. ASSUME NEW i \in 1 .. n, i - 1 \in S PROVE i \in S
  <2>1. i \in 0 .. n /\ i # 0 BY <1>1
  <2>2. It[i - 1] = St(i - 1) BY <1>10
  <2>3. It[i] = Step(It[i - 1], i) BY <1>8, <2>1
  <2> QED BY <1>4, <2>1, <2>2, <2>3
<1>11. n \in S
  <2>1. \A i \in 0 .. n : i \in S
    <3> HIDE DEF S
    <3> QED BY <1>1, <1>9, <1>10, Climb
  <2> QED BY <1>1, <2>1
<1>12. Compact(E, dropped) = Truncate(Compacting(E, K, n), Rank(K, n))
  BY <1>2, <1>11 DEF St
<1>13. Truncate(Compacting(E, K, n), Rank(K, n)) = InOrder(K)
  <2>1. \A e \in E : e.pos \in 1 .. n BY DEF DenseSet, n
  <2>2. {k \in K : k.pos <= n} = K BY <1>1, <2>1
  <2>3. InOrder(K) = {Moved(e, Rank(K, e.pos)) : e \in K} BY DEF InOrder, Moved, Rank
  <2>4. IsFiniteSet(K) /\ K \subseteq Event BY <1>1, FS_Subset
  <2>5. \A e \in K : /\ Moved(e, Rank(K, e.pos)).pos \in Nat
                     /\ Moved(e, Rank(K, e.pos)).pos <= Rank(K, n)
    <3> TAKE e \in K
    <3>1. e.pos \in Int /\ n \in Int /\ e.pos <= n BY <1>1, <2>1
    <3>2. Rank(K, e.pos) <= Rank(K, n) BY <2>4, <3>1, RankMonotonic
    <3>3. Rank(K, e.pos) \in Nat BY <2>4, RankType
    <3> QED BY <2>4, <3>2, <3>3, MovedIs
  <2>6. \A c \in InOrder(K) : c.pos <= Rank(K, n)
    <3> QED BY <2>3, <2>5
  <2>7. \A e \in {g \in E : g.pos > Rank(K, n)} : ~(e.pos <= Rank(K, n))
    <3>1. Rank(K, n) \in Nat BY <2>4, RankType
    <3> QED BY <1>1, <2>1, <3>1
  <2>8. Compacting(E, K, n) = InOrder(K) \cup {g \in E : g.pos > Rank(K, n)}
    BY <2>2, <2>3 DEF Compacting
  <2> QED BY <2>6, <2>7, <2>8 DEF Truncate
<1> QED BY <1>12, <1>13 DEF K
-----------------------------------------------------------------------------
(* The array of the dequeue loop after k moves: the entries behind index p *)
(* were copied down one by one, and the last one copied is still there     *)
(* twice.                                                                  *)
Shifting(E, p, k) ==
  {f \in E : f.pos < p}
    \cup {Moved(f, f.pos - 1) : f \in {g \in E : p < g.pos /\ g.pos <= p + k}}
    \cup {f \in E : f.pos >= p + k}

LEMMA ShiftingStep ==
  ASSUME NEW E, IsFiniteSet(E), E \subseteq Event, DenseSet(E),
         NEW p \in 1 .. Cardinality(E), NEW k \in 1 .. Cardinality(E) - p
  PROVE  Shifting(E, p, k) =
           Put(Shifting(E, p, k - 1), p + k - 1, EntryAt(Shifting(E, p, k - 1), p + k))
<1> DEFINE A == Shifting(E, p, k - 1)
<1> DEFINE n == Cardinality(E)
<1> DEFINE j == p + k
<1> DEFINE L == {f \in E : f.pos < p}
<1> DEFINE M(i) == {Moved(f, f.pos - 1) : f \in {g \in E : p < g.pos /\ g.pos <= i}}
<1> DEFINE H(i) == {f \in E : f.pos >= i}
<1>1. n \in Nat /\ Distinct(E) BY FS_CardinalityType, DenseDistinct
<1>2. /\ p \in Nat /\ k \in Nat /\ j \in 1 .. n /\ j \in Nat /\ p < j
      /\ p + (k - 1) = j - 1 /\ p + k - 1 = j - 1 /\ j - 1 \in Nat /\ p <= j - 1
  <2> HIDE DEF n
  <2> QED BY <1>1 DEF n
<1>3. PICK x \in E : x.pos = j
  <2>1. {e.pos : e \in E} = 1 .. n BY DEF DenseSet
  <2> HIDE DEF n
  <2> QED BY <1>2, <2>1
<1>4. \A f \in E : f.pos \in Nat BY DEF Event
<1>5. A = (L \cup M(j - 1)) \cup H(j - 1)
  <2>1. p + (k - 1) = j - 1 BY <1>2
  <2> HIDE DEF j
  <2> QED BY <2>1 DEF Shifting
<1>6. Shifting(E, p, k) = (L \cup M(j)) \cup H(j) BY DEF Shifting
<1> HIDE DEF A, j, n
<1>7. \A f \in M(j - 1) : f.pos \in Nat /\ f.pos < j - 1
  <2> TAKE f \in M(j - 1)
  <2>1. PICK g \in E : p < g.pos /\ g.pos <= j - 1 /\ f = Moved(g, g.pos - 1) OBVIOUS
  <2>2. g.pos \in Nat /\ g.pos - 1 \in Nat /\ g \in Event BY <1>2, <1>4, <2>1
  <2>3. f.pos = g.pos - 1 BY <2>1, <2>2, MovedIs
  <2> QED BY <1>2, <2>1, <2>2, <2>3
<1>8. \A f \in L : f.pos \in Nat /\ f.pos < j - 1 BY <1>2, <1>4
<1>9. EntryAt(A, j) = x
  <2>1. x \in A
    <3>1. x \in H(j - 1) BY <1>2, <1>3
    <3> HIDE DEF L, M, H
    <3> QED BY <1>5, <3>1
  <2>2. \A f \in A : f.pos = j => f = x
    <3> TAKE f \in A
    <3>1. f \in H(j - 1) => f \in E OBVIOUS
    <3>2. f \in L \cup M(j - 1) => f.pos # j
      <4> HIDE DEF L, M
      <4> QED BY <1>2, <1>7, <1>8
    <3> HIDE DEF L, M, H
    <3> QED BY <1>1, <1>3, <1>5, <3>1, <3>2 DEF Distinct
  <2> QED BY <1>3, <2>1, <2>2, EntryIs
<1>10. M(j) = M(j - 1) \cup {Moved(x, j - 1)}
  <2>1. \A g \in E : (p < g.pos /\ g.pos <= j) <=> (p < g.pos /\ g.pos <= j - 1) \/ g = x
    <3> TAKE g \in E
    <3>1. g.pos \in Nat /\ (g.pos = j <=> g = x) BY <1>1, <1>3, <1>4 DEF Distinct
    <3> QED BY <1>2, <3>1
  <2>2. {g \in E : p < g.pos /\ g.pos <= j} = {g \in E : p < g.pos /\ g.pos <= j - 1} \cup {x}
    BY <2>1
  <2> QED BY <1>3, <2>2
<1>11. {f \in H(j - 1) : f.pos # j - 1} = H(j)
  <2>1. \A f \in E : f.pos >= j - 1 /\ f.pos # j - 1 <=> f.pos >= j
    <3> TAKE f \in E
    <3>1. f.pos \in Nat BY <1>4
    <3> QED BY <1>2, <3>1
  <2> QED BY <2>1
<1>12. Put(A, j - 1, x) = {f \in A : f.pos # j - 1} \cup {Moved(x, j - 1)}
  BY DEF Put, Moved
<1>13. {f \in A : f.pos # j - 1} = (L \cup M(j - 1)) \cup H(j)
  <2>1. \A f \in L \cup M(j - 1) : f.pos # j - 1
    <3> HIDE DEF L, M
    <3> QED BY <1>2, <1>7, <1>8
  <2> HIDE DEF L, M, H
  <2> QED BY <1>5, <1>11, <2>1
<1>14. Put(A, j - 1, x) = (L \cup M(j)) \cup H(j)
  <2> HIDE DEF L, M, H
  <2> QED BY <1>10, <1>12, <1>13
<1>15. Put(A, p + k - 1, EntryAt(A, p + k)) = Put(A, j - 1, x)
  <2>1. p + k - 1 = j - 1 /\ p + k = j BY <1>2 DEF j
  <2> QED BY <1>9, <2>1
<1> QED BY <1>6, <1>14, <1>15 DEF A

(* What the dequeue leaves: the other entries, in their order and without  *)
(* a gap.                                                                  *)
LEMMA ShiftIs ==
  ASSUME NEW E, IsFiniteSet(E), E \subseteq Event, DenseSet(E), NEW x \in E
  PROVE  Truncate(Shifted(E, x.pos, Cardinality(E) - x.pos), Cardinality(E) - 1) =
           InOrder(E \ {x})
<1> DEFINE n == Cardinality(E)
<1> DEFINE p == x.pos
<1> DEFINE m == n - p
<1> DEFINE Eq(g) == g = [k \in 0 .. m |->
                           IF k = 0 THEN E
                           ELSE Put(g[k - 1], p + k - 1, EntryAt(g[k - 1], p + k))]
<1> DEFINE It == CHOOSE g : Eq(g)
<1> DEFINE f == [k \in 0 .. m |-> Shifting(E, p, k)]
<1>1. n \in Nat /\ Distinct(E) BY FS_CardinalityType, DenseDistinct
<1>2. \A e \in E : e.pos \in 1 .. n /\ e.pos \in Nat /\ e.pos <= n
  <2>1. {e.pos : e \in E} = 1 .. n BY DEF DenseSet
  <2> HIDE DEF n
  <2> QED BY <1>1, <2>1
<1>3. Shifted(E, p, m) = It[m] BY DEF Shifted
<1>4. p \in 1 .. n /\ p \in Nat /\ m \in Nat /\ p + m = n
  <2> HIDE DEF n
  <2> QED BY <1>1, <1>2
<1>5. \A k \in 1 .. m : Shifting(E, p, k) =
        Put(Shifting(E, p, k - 1), p + k - 1, EntryAt(Shifting(E, p, k - 1), p + k))
  <2> HIDE DEF p
  <2> QED BY <1>4, ShiftingStep
<1> HIDE DEF n, p, m
<1>6. Shifting(E, p, 0) = E
  <2>1. {g \in E : p < g.pos /\ g.pos <= p + 0} = {}
    <3>1. \A g \in E : ~(p < g.pos /\ g.pos <= p + 0) BY <1>2, <1>4
    <3> QED BY <3>1
  <2>2. \A g \in E : g.pos < p \/ g.pos >= p + 0 BY <1>2, <1>4
  <2> QED BY <2>1, <2>2 DEF Shifting
<1>7. Eq(f)
  <2>1. \A k \in 0 .. m : k # 0 => k \in 1 .. m /\ k - 1 \in 0 .. m BY <1>4
  <2>2. \A k \in 0 .. m : f[k] = IF k = 0 THEN E
                 ELSE Put(f[k - 1], p + k - 1, EntryAt(f[k - 1], p + k))
    BY <1>5, <1>6, <2>1
  <2> QED BY <2>2
<1>8. Eq(It)
  <2> HIDE DEF Eq
  <2> QED BY <1>7
<1> HIDE DEF It
<1>9. \A k \in 0 .. m : It[k] = IF k = 0 THEN E
                 ELSE Put(It[k - 1], p + k - 1, EntryAt(It[k - 1], p + k))
  BY <1>8
<1> DEFINE S == {k \in 0 .. m : It[k] = Shifting(E, p, k)}
<1>10. 0 \in S BY <1>4, <1>6, <1>9
<1>11. ASSUME NEW k \in 1 .. m, k - 1 \in S PROVE k \in S
  <2>1. k \in 0 .. m /\ k # 0 BY <1>4
  <2>2. It[k - 1] = Shifting(E, p, k - 1) BY <1>11
  <2>3. It[k] = Put(It[k - 1], p + k - 1, EntryAt(It[k - 1], p + k)) BY <1>9, <2>1
  <2> QED BY <1>5, <2>1, <2>2, <2>3
<1>12. It[m] = Shifting(E, p, m)
  <2>1. \A k \in 0 .. m : k \in S
    <3> HIDE DEF S
    <3> QED BY <1>4, <1>10, <1>11, Climb
  <2>2. m \in S BY <1>4, <2>1
  <2> QED BY <2>2
<1> DEFINE K == E \ {x}
<1> DEFINE L == {g \in E : g.pos < p}
<1> DEFINE D == {g \in E : p < g.pos /\ g.pos <= n}
<1>13. K = L \cup D
  <2>1. \A g \in E : g # x <=> g.pos < p \/ (p < g.pos /\ g.pos <= n)
    <3> TAKE g \in E
    <3>1. g.pos \in Nat /\ g.pos <= n /\ (g = x <=> g.pos = p)
      BY <1>1, <1>2 DEF Distinct, p
    <3> QED BY <1>4, <3>1
  <2> QED BY <2>1
<1>14. \A g \in E : p < g.pos => Rank(K, g.pos) = g.pos - 1
  <2> TAKE g \in E
  <2> SUFFICES ASSUME p < g.pos PROVE Rank(K, g.pos) = g.pos - 1 OBVIOUS
  <2> DEFINE T == {h \in E : h.pos <= g.pos}
  <2>1. {h \in K : h.pos <= g.pos} = T \ {x} OBVIOUS
  <2>2. x \in T BY <1>2, <1>4 DEF p
  <2>3. IsFiniteSet(T) BY RankType
  <2>4. Cardinality(T) = g.pos
    <3>1. g.pos \in 0 .. Cardinality(E) BY <1>1, <1>2 DEF n
    <3> QED BY <3>1, RankDense DEF Rank
  <2> HIDE DEF T
  <2>5. Cardinality(T \ {x}) = Cardinality(T) - 1 BY <2>2, <2>3, FS_RemoveElement
  <2> QED BY <2>1, <2>4, <2>5 DEF Rank
<1>15. \A g \in E : g.pos < p => Rank(K, g.pos) = g.pos
  <2> TAKE g \in E
  <2> SUFFICES ASSUME g.pos < p PROVE Rank(K, g.pos) = g.pos OBVIOUS
  <2>1. {h \in K : h.pos <= g.pos} = {h \in E : h.pos <= g.pos}
    <3>1. ~(x.pos <= g.pos) BY <1>2, <1>4 DEF p
    <3> QED BY <3>1
  <2>2. g.pos \in 0 .. Cardinality(E) BY <1>1, <1>2 DEF n
  <2> QED BY <2>1, <2>2, RankDense DEF Rank
<1>16. InOrder(K) = L \cup {Moved(g, g.pos - 1) : g \in D}
  <2>1. InOrder(K) = {Moved(g, Rank(K, g.pos)) : g \in K} BY DEF InOrder, Moved, Rank
  <2>2. \A g \in L : Moved(g, Rank(K, g.pos)) = g
    <3> TAKE g \in L
    <3>1. Rank(K, g.pos) = g.pos /\ g \in Event /\ g.pos \in Nat BY <1>2, <1>15
    <3> QED BY <3>1, MovedIs
  <2>3. \A g \in D : Moved(g, Rank(K, g.pos)) = Moved(g, g.pos - 1) BY <1>14
  <2>4. {Moved(g, Rank(K, g.pos)) : g \in L} = L BY <2>2
  <2>5. {Moved(g, Rank(K, g.pos)) : g \in D} = {Moved(g, g.pos - 1) : g \in D} BY <2>3
  <2>6. {Moved(g, Rank(K, g.pos)) : g \in L \cup D} =
          {Moved(g, Rank(K, g.pos)) : g \in L} \cup {Moved(g, Rank(K, g.pos)) : g \in D}
    <3> HIDE DEF L, D
    <3> QED OBVIOUS
  <2> HIDE DEF K, L, D
  <2> QED BY <1>13, <2>1, <2>4, <2>5, <2>6
<1>17. Truncate(Shifting(E, p, m), n - 1) = L \cup {Moved(g, g.pos - 1) : g \in D}
  <2>1. Shifting(E, p, m) = (L \cup {Moved(g, g.pos - 1) : g \in D}) \cup {g \in E : g.pos >= n}
    BY <1>4 DEF Shifting
  <2>2. \A g \in L : g.pos <= n - 1 BY <1>1, <1>2, <1>4
  <2>3. \A g \in {Moved(h, h.pos - 1) : h \in D} : g.pos <= n - 1
    <3> TAKE g \in {Moved(h, h.pos - 1) : h \in D}
    <3>1. PICK h \in D : g = Moved(h, h.pos - 1) OBVIOUS
    <3>2. h \in Event /\ h.pos \in Nat /\ h.pos - 1 \in Nat /\ h.pos <= n
      BY <1>2, <1>4
    <3>3. g.pos = h.pos - 1 BY <3>1, <3>2, MovedIs
    <3> QED BY <1>1, <3>2, <3>3
  <2>4. \A g \in {h \in E : h.pos >= n} : ~(g.pos <= n - 1) BY <1>1, <1>2
  <2> HIDE DEF L, D
  <2> QED BY <2>1, <2>2, <2>3, <2>4 DEF Truncate
<1>18. Shifted(E, x.pos, Cardinality(E) - x.pos) = Shifting(E, p, m)
  BY <1>3, <1>12 DEF n, p, m
<1> QED BY <1>16, <1>17, <1>18 DEF n

-----------------------------------------------------------------------------
(* The operations on a device keep it well-typed.  Each lemma also says    *)
(* what the operation leaves alone and where the events that remain come   *)
(* from, which is what the proof of QuietWhenIdle needs.                   *)

EventsFrom(d2, d1) == \A e \in d2.events : \E f \in d1.events : f.sid = e.sid

(* A device whose events are replaced by no more events than the array     *)
(* holds is well-typed.                                                    *)
LEMMA ReplaceEvents ==
  ASSUME NEW d, DeviceOK(d), NEW E, E \subseteq Event, IsFiniteSet(E),
         Cardinality(E) <= MAX_SCENARIO_EVENTS
  PROVE  LET d2 == [d EXCEPT !.events = E]
         IN  DeviceOK(d2) /\ d2.sessions = d.sessions /\ d2.events = E
<1> DEFINE d2 == [d EXCEPT !.events = E]
<1>1. d2 \in DeviceState BY DEF DeviceOK, DeviceState
<1>2. /\ d2.sessions = d.sessions /\ d2.events = E
      /\ d2.pending = d.pending
  BY DEF DeviceOK, DeviceState
<1> QED BY <1>1, <1>2 DEF DeviceOK, Allocated

(* Queueing a notification, or dropping it when the queue is full, keeps   *)
(* the bound of the queue.                                                 *)
LEMMA QueueNotificationType ==
  ASSUME NEW d, DeviceOK(d), NEW n \in Packet
  PROVE  LET d2 == QueueNotification(d, n)
         IN  DeviceOK(d2) /\ d2.sessions = d.sessions /\ d2.events = d.events
<1> DEFINE d2 == QueueNotification(d, n)
<1>1. d.pending \in Seq(Packet) BY DEF DeviceOK, DeviceState
<1>2. /\ Append(d.pending, n) \in Seq(Packet)
      /\ Len(Append(d.pending, n)) = Len(d.pending) + 1
      /\ Len(d.pending) \in Nat
  BY <1>1, AppendProperties, LenProperties
<1>3. d2 \in DeviceState BY <1>2 DEF QueueNotification, DeviceOK, DeviceState
<1>4. d2.sessions = d.sessions /\ d2.events = d.events
  BY DEF QueueNotification, DeviceOK, DeviceState
<1>5. Len(d2.pending) <= MAX_PENDING_NOTIFICATIONS
  BY <1>1, <1>2, SizesAssumption DEF QueueNotification, CanQueue, DeviceOK, DeviceState
<1> QED BY <1>3, <1>4, <1>5 DEF DeviceOK, Allocated

(* The sessions in use are finitely many.                                  *)
LEMMA AllocatedFinite ==
  ASSUME NEW d
  PROVE  IsFiniteSet(Allocated(d)) /\ Cardinality(Allocated(d)) \in Nat
<1>1. Allocated(d) \in SUBSET Sid BY DEF Allocated
<1> QED BY <1>1, FS_Subset, FS_CardinalityType, IdsAssumption

(* No session is created: the table cannot overflow.                       *)
LEMMA SetSessionType ==
  ASSUME NEW d, DeviceOK(d), NEW s \in Sid, NEW v \in Session,
         v.state = "NONE" \/ s \in Allocated(d)
  PROVE  LET d2 == SetSession(d, s, v)
         IN  /\ DeviceOK(d2)
             /\ d2.sessions = [d.sessions EXCEPT ![s] = v]
             /\ d2.events = d.events
<1> DEFINE d2 == SetSession(d, s, v)
<1>1. d2 \in DeviceState BY DEF SetSession, DeviceOK, DeviceState
<1>2. /\ d2.sessions = [d.sessions EXCEPT ![s] = v]
      /\ d2.events = d.events
      /\ d2.pending = d.pending
  BY DEF SetSession, DeviceOK, DeviceState
<1>3. Allocated(d2) \in SUBSET Allocated(d)
  BY <1>2 DEF Allocated, DeviceOK, DeviceState
<1>4. Cardinality(Allocated(d2)) <= Cardinality(Allocated(d))
  BY <1>3, FS_Subset, AllocatedFinite
<1>5. Cardinality(Allocated(d2)) <= MAX_SESSIONS
  BY <1>4, AllocatedFinite, SizesAssumption DEF DeviceOK
<1> QED BY <1>1, <1>2, <1>5 DEF DeviceOK

(* Scheduling adds at most one event, only for its session, and only into  *)
(* a free entry.                                                           *)
LEMMA ScheduleEventType ==
  ASSUME NEW d, DeviceOK(d), NEW type \in EventTypes, NEW s \in Sid, NEW ms \in Nat
  PROVE  LET d2 == ScheduleEvent(d, type, s, ms)
         IN  /\ DeviceOK(d2) /\ d2.sessions = d.sessions
             /\ \A e \in d2.events : e \in d.events \/ e.sid = s
             /\ DenseSet(d.events) => DenseSet(d2.events)
<1> DEFINE x == [type |-> type, sid |-> s, delay |-> ms, pos |-> Cardinality(d.events) + 1]
<1> DEFINE E == d.events \cup {x}
<1>1. CASE ~CanSchedule(d)
  BY <1>1 DEF ScheduleEvent
<1>2. CASE CanSchedule(d)
  <2>1. /\ d.events \subseteq Event /\ IsFiniteSet(d.events)
        /\ Cardinality(d.events) \in Nat
        /\ Cardinality(d.events) < MAX_SCENARIO_EVENTS
    BY <1>2, FS_CardinalityType DEF CanSchedule, DeviceOK, DeviceState
  <2>2. E \subseteq Event BY <2>1 DEF Event
  <2>3. IsFiniteSet(E) /\ Cardinality(E) <= Cardinality(d.events) + 1
    <3> HIDE DEF x
    <3>1. /\ IsFiniteSet(d.events \cup {x})
          /\ Cardinality(d.events \cup {x}) =
               IF x \in d.events THEN Cardinality(d.events)
                                 ELSE Cardinality(d.events) + 1
      BY <2>1, FS_AddElement
    <3> QED BY <2>1, <3>1
  <2>4. Cardinality(E) \in Nat BY <2>3, FS_CardinalityType
  <2>5. Cardinality(E) <= MAX_SCENARIO_EVENTS
    BY <2>1, <2>3, <2>4, SizesAssumption
  <2>6. ScheduleEvent(d, type, s, ms) = [d EXCEPT !.events = E]
    BY <1>2 DEF ScheduleEvent
  <2>7. \A e \in E : e \in d.events \/ e.sid = s OBVIOUS
  <2>8. DenseSet(d.events) => DenseSet(E)
    <3> SUFFICES ASSUME DenseSet(d.events) PROVE DenseSet(E) OBVIOUS
    <3> DEFINE n == Cardinality(d.events)
    <3>1. x.pos = n + 1 OBVIOUS
    <3>2. {e.pos : e \in d.events} = 1 .. n BY DEF DenseSet
    <3>3. x \notin d.events
      <4>1. n + 1 \notin 1 .. n BY <2>1
      <4> HIDE DEF n, x
      <4> QED BY <3>1, <3>2, <4>1
    <3>4. Cardinality(E) = n + 1
      <4> HIDE DEF x
      <4> QED BY <2>1, <3>3, FS_AddElement
    <3>5. {e.pos : e \in E} = (1 .. n) \cup {n + 1}
      <4> HIDE DEF x, n
      <4> QED BY <3>1, <3>2
    <3>6. (1 .. n) \cup {n + 1} = 1 .. n + 1
      <4> HIDE DEF n
      <4>1. n \in Nat BY <2>1 DEF n
      <4> QED BY <4>1
    <3> HIDE DEF E, n
    <3> QED BY <3>4, <3>5, <3>6 DEF DenseSet
  <2> HIDE DEF E
  <2> QED BY <2>2, <2>3, <2>5, <2>6, <2>7, <2>8, ReplaceEvents
<1> QED BY <1>1, <1>2

(* Cancelling, rescheduling and dequeuing keep a part of the array and     *)
(* close the gaps.                                                         *)
LEMMA InOrderPart ==
  ASSUME NEW d, DeviceOK(d), NEW E \in SUBSET d.events
  PROVE  LET d2 == [d EXCEPT !.events = InOrder(E)]
         IN  /\ DeviceOK(d2) /\ d2.sessions = d.sessions
             /\ \A c \in d2.events : \E e \in E : SameEvent(c, e)
             /\ DenseSet(d.events) => DenseSet(d2.events)
<1>1. /\ E \subseteq Event /\ IsFiniteSet(E)
      /\ Cardinality(E) <= Cardinality(d.events)
      /\ Cardinality(d.events) \in Nat
  BY FS_Subset, FS_CardinalityType DEF DeviceOK, DeviceState
<1>2. /\ InOrder(E) \subseteq Event /\ IsFiniteSet(InOrder(E))
      /\ Cardinality(InOrder(E)) <= Cardinality(E)
      /\ \A c \in InOrder(E) : \E e \in E : SameEvent(c, e)
  BY <1>1, InOrderType
<1>3. Cardinality(InOrder(E)) \in Nat /\ Cardinality(E) \in Nat
  BY <1>1, <1>2, FS_CardinalityType
<1>4. Cardinality(InOrder(E)) <= MAX_SCENARIO_EVENTS
  BY <1>1, <1>2, <1>3, SizesAssumption DEF DeviceOK
<1>5. DenseSet(d.events) => DenseSet(InOrder(E))
  <2>1. DenseSet(d.events) => Distinct(E) BY DenseDistinct DEF DeviceOK, Distinct
  <2> QED BY <1>1, <2>1, InOrderDense
<1> QED BY <1>2, <1>4, <1>5, ReplaceEvents

(* What the three loops leave of the array of a device.                    *)
LEMMA LoopsAre ==
  ASSUME NEW d, DeviceOK(d), DenseSet(d.events)
  PROVE  /\ \A s : CancelSessionEvents(d, s) =
              [d EXCEPT !.events = InOrder({e \in d.events : e.sid # s})]
         /\ \A type, s : RemoveEvents(d, type, s) =
              [d EXCEPT !.events = InOrder({e \in d.events : ~IsEventOf(e, type, s)})]
         /\ \A x \in d.events : RemoveEvent(d, x) =
              [d EXCEPT !.events = InOrder(d.events \ {x})]
<1>1. IsFiniteSet(d.events) /\ d.events \subseteq Event
  BY DEF DeviceOK, DeviceState
<1>2. \A dropped : Compact(d.events, dropped) =
                     InOrder({e \in d.events : <<e.type, e.sid>> \notin dropped})
  BY <1>1, CompactIs
<1>3. ASSUME NEW s
      PROVE  CancelSessionEvents(d, s) =
               [d EXCEPT !.events = InOrder({e \in d.events : e.sid # s})]
  <2>1. \A e \in d.events : e.type \in EventTypes BY <1>1 DEF Event
  <2>2. {e \in d.events : <<e.type, e.sid>> \notin EventTypes \X {s}} =
          {e \in d.events : e.sid # s}
    BY <2>1
  <2> QED BY <1>2, <2>2 DEF CancelSessionEvents
<1>4. ASSUME NEW type, NEW s
      PROVE  RemoveEvents(d, type, s) =
               [d EXCEPT !.events = InOrder({e \in d.events : ~IsEventOf(e, type, s)})]
  <2>1. {e \in d.events : <<e.type, e.sid>> \notin {<<type, s>>}} =
          {e \in d.events : ~IsEventOf(e, type, s)}
    BY DEF IsEventOf
  <2> QED BY <1>2, <2>1 DEF RemoveEvents
<1>5. ASSUME NEW x \in d.events
      PROVE  RemoveEvent(d, x) = [d EXCEPT !.events = InOrder(d.events \ {x})]
  BY <1>1, ShiftIs DEF RemoveEvent
<1> QED BY <1>3, <1>4, <1>5

(* After a cancel no event of the session is left and no event is new.     *)
LEMMA CancelSessionEventsType ==
  ASSUME NEW d, DeviceOK(d), DenseSet(d.events), NEW s \in Sid
  PROVE  LET d2 == CancelSessionEvents(d, s)
         IN  /\ DeviceOK(d2) /\ d2.sessions = d.sessions
             /\ EventsFrom(d2, d) /\ \A e \in d2.events : e.sid # s
             /\ DenseSet(d2.events)
<1> DEFINE E == {e \in d.events : e.sid # s}
<1>1. CancelSessionEvents(d, s) = [d EXCEPT !.events = InOrder(E)]
  BY LoopsAre
<1>2. E \in SUBSET d.events OBVIOUS
<1>3. \A e \in E : e.sid # s OBVIOUS
<1> HIDE DEF E
<1> QED BY <1>1, <1>2, <1>3, InOrderPart DEF EventsFrom, SameEvent

(* The first half of a reschedule: one kind of event of a session is       *)
(* removed.                                                                *)
LEMMA RemoveEventsType ==
  ASSUME NEW d, DeviceOK(d), DenseSet(d.events), NEW type, NEW s
  PROVE  LET d2 == RemoveEvents(d, type, s)
         IN  /\ DeviceOK(d2) /\ d2.sessions = d.sessions /\ EventsFrom(d2, d)
             /\ DenseSet(d2.events)
<1> DEFINE E == {e \in d.events : ~IsEventOf(e, type, s)}
<1>1. RemoveEvents(d, type, s) = [d EXCEPT !.events = InOrder(E)]
  BY LoopsAre
<1>2. E \in SUBSET d.events OBVIOUS
<1> HIDE DEF E
<1> QED BY <1>1, <1>2, InOrderPart DEF EventsFrom, SameEvent

(* Dequeuing an event leaves the others.                                   *)
LEMMA RemoveEventType ==
  ASSUME NEW d, DeviceOK(d), DenseSet(d.events), NEW x \in d.events
  PROVE  LET d2 == RemoveEvent(d, x)
         IN  /\ DeviceOK(d2) /\ d2.sessions = d.sessions /\ EventsFrom(d2, d)
             /\ DenseSet(d2.events)
<1>1. RemoveEvent(d, x) = [d EXCEPT !.events = InOrder(d.events \ {x})]
  BY LoopsAre
<1> QED BY <1>1, InOrderPart DEF EventsFrom, SameEvent

(* The passing of time changes the delays only.                            *)
LEMMA TickEventsType ==
  ASSUME NEW d, DeviceOK(d), NEW ms \in Nat
  PROVE  LET d2 == TickEvents(d, ms)
         IN  /\ DeviceOK(d2) /\ d2.sessions = d.sessions /\ EventsFrom(d2, d)
             /\ DenseSet(d.events) => DenseSet(d2.events)
<1> DEFINE g == [e \in d.events |-> Age(e, ms)]
<1> DEFINE E == {g[e] : e \in d.events}
<1>1. \A e \in d.events : g[e] \in Event /\ g[e].sid = e.sid
  BY DEF DeviceOK, DeviceState, Event, Age
<1>2. TickEvents(d, ms) = [d EXCEPT !.events = E]
  BY DEF TickEvents
<1>3. \A c \in E : c \in Event /\ \E e \in d.events : c.sid = e.sid BY <1>1
<1>4. g \in [d.events -> E] OBVIOUS
<1>5. IsFiniteSet(E) /\ Cardinality(E) <= Cardinality(d.events)
  <2> HIDE DEF g
  <2> QED BY <1>4, EventImage DEF DeviceOK
<1>6. Cardinality(E) \in Nat /\ Cardinality(d.events) \in Nat
  BY <1>5, FS_CardinalityType DEF DeviceOK
<1>7. Cardinality(E) <= MAX_SCENARIO_EVENTS
  BY <1>5, <1>6, SizesAssumption DEF DeviceOK
<1>8. DenseSet(d.events) => DenseSet(E)
  <2> SUFFICES ASSUME DenseSet(d.events) PROVE DenseSet(E) OBVIOUS
  <2>1. \A e \in d.events : g[e].pos = e.pos
    BY DEF DeviceOK, DeviceState, Event, Age
  <2>2. Distinct(d.events) BY DenseDistinct DEF DeviceOK
  <2> HIDE DEF g
  <2>3. g \in Surjection(d.events, E) BY <1>4 DEF Surjection
  <2>4. g \in Injection(d.events, E)
    BY <1>4, <2>1, <2>2 DEF Distinct, Injection, IsInjective
  <2>5. Cardinality(E) = Cardinality(d.events)
    <3> HIDE DEF E
    <3> QED BY <2>3, <2>4, FS_Surjection DEF DeviceOK
  <2>6. {c.pos : c \in E} = {e.pos : e \in d.events} BY <2>1
  <2> QED BY <2>5, <2>6 DEF DenseSet
<1> HIDE DEF E
<1> QED BY <1>2, <1>3, <1>5, <1>7, <1>8, ReplaceEvents DEF EventsFrom

-----------------------------------------------------------------------------
(* The inductive invariant of the device, and what a handler's result and  *)
(* an engine function's value must satisfy.                                *)

Sound(d) == DeviceOK(d) /\ QuietWhenIdle(d) /\ DenseSet(d.events)

OptPacket == {<< >>} \cup {<<p>> : p \in Packet}
ResultType == [dev : DeviceState, rsp : OptPacket, ntf : OptPacket, rc : Int]
ResultTyped(res) == res \in ResultType /\ DeviceOK(res.dev)
ResultOK(res) == ResultTyped(res) /\ Sound(res.dev)
EngineOK(g) == Sound(g.dev) /\ QueueOK(g.out)

LEMMA MakePacketTyped ==
  ASSUME NEW kind \in Kinds, NEW s \in Sid \cup {NoSid}, NEW code \in Codes,
         NEW n \in Nat, NEW m \in Msg \cup {NoMsg}, kind \in LinkKinds => n \in 0 .. 255
  PROVE  MakePacket(kind, s, code, n, m) \in Packet
BY DEF MakePacket, Packet

(* Every packet the handlers build is well-formed.                         *)
LEMMA PacketTypes ==
  /\ \A code \in Codes : MakeStatusResponse(code) \in Packet
  /\ \A code \in Codes : GenericErrorNtf(code) \in Packet
  /\ DeviceStatusNtf \in Packet
  /\ \A s \in Sid, code \in Codes : SessionStatusNtf(s, code) \in Packet
  /\ \A s \in Sid : DataCreditNtf(s) \in Packet
  /\ \A s \in Sid, m \in Msg \cup {NoMsg}, code \in Codes, n \in Nat :
       DataStatusNtf(s, m, code, n) \in Packet
  /\ \A s \in Sid, n \in Nat : RangeDataNtf(s, n) \in Packet
<1>1. \A kind \in Kinds \ LinkKinds : kind \in Kinds /\ kind \notin LinkKinds OBVIOUS
<1>2. /\ {"RSP", "GENERIC_ERROR", "DEVICE_STATUS", "SESSION_STATUS",
          "DATA_CREDIT", "DATA_STATUS", "RANGE_DATA"} \subseteq Kinds \ LinkKinds
      /\ {"READY", "NONE"} \subseteq Codes
  BY DEF Kinds, LinkKinds, Codes
<1> QED BY <1>1, <1>2, MakePacketTyped
        DEF MakeStatusResponse, GenericErrorNtf, DeviceStatusNtf, SessionStatusNtf,
            DataCreditNtf, DataStatusNtf, RangeDataNtf

(* A session just allocated, and a free entry, are well-formed.            *)
LEMMA SessionTypes == NewSession \in Session /\ FreeSession \in Session
BY IntervalAssumption, SizesAssumption
DEF NewSession, FreeSession, Session, SessionStates

(* The invariant depends on the sessions and the events only, beside the   *)
(* types: an operation that keeps the session states and invents no event  *)
(* preserves it.                                                           *)
LEMMA QuietFrame ==
  ASSUME NEW d, NEW d2, QuietWhenIdle(d), EventsFrom(d2, d),
         \A s \in Sid : d2.sessions[s].state = "IDLE" => d.sessions[s].state = "IDLE"
  PROVE  QuietWhenIdle(d2)
BY DEF QuietWhenIdle, EventsFrom

(* A notification schedules nothing.                                       *)
LEMMA QueueNotificationSound ==
  ASSUME NEW d, Sound(d), NEW n \in Packet
  PROVE  Sound(QueueNotification(d, n))
BY QueueNotificationType DEF Sound, QuietWhenIdle

(* A session that is, or becomes, anything but IDLE cannot break it.       *)
LEMMA SetSessionSound ==
  ASSUME NEW d, Sound(d), NEW s \in Sid, NEW v \in Session,
         v.state = "NONE" \/ s \in Allocated(d),
         v.state = "IDLE" => d.sessions[s].state = "IDLE"
  PROVE  Sound(SetSession(d, s, v)) /\ SetSession(d, s, v).sessions[s] = v
<1> DEFINE d2 == SetSession(d, s, v)
<1>1. d.sessions \in [Sid -> Session] BY DEF Sound, DeviceOK, DeviceState
<1>2. /\ DeviceOK(d2)
      /\ d2.sessions = [d.sessions EXCEPT ![s] = v]
      /\ d2.events = d.events
  BY SetSessionType DEF Sound
<1> HIDE DEF d2
<1>3. Sound(d2) BY <1>1, <1>2 DEF Sound, QuietWhenIdle
<1>4. d2.sessions[s] = v BY <1>1, <1>2
<1> QED BY <1>3, <1>4 DEF d2

(* An event scheduled for a session that is not IDLE leaves the IDLE ones  *)
(* quiet.                                                                  *)
LEMMA ScheduleEventSound ==
  ASSUME NEW d, Sound(d), NEW type \in EventTypes, NEW s \in Sid, NEW ms \in Nat,
         d.sessions[s].state # "IDLE"
  PROVE  Sound(ScheduleEvent(d, type, s, ms))
BY ScheduleEventType DEF Sound, QuietWhenIdle

(* Cancelling the events of a session makes up for its being IDLE.         *)
LEMMA CancelSessionEventsSound ==
  ASSUME NEW d, DeviceOK(d), NEW s \in Sid,
         \A t \in Sid \ {s} :
           d.sessions[t].state = "IDLE" => \A e \in d.events : e.sid # t,
         DenseSet(d.events)
  PROVE  Sound(CancelSessionEvents(d, s))
<1> DEFINE d2 == CancelSessionEvents(d, s)
<1>1. /\ DeviceOK(d2) /\ d2.sessions = d.sessions
      /\ EventsFrom(d2, d) /\ (\A e \in d2.events : e.sid # s)
      /\ DenseSet(d2.events)
  BY CancelSessionEventsType
<1> HIDE DEF d2
<1>2. Sound(d2) BY <1>1 DEF Sound, QuietWhenIdle, EventsFrom
<1> QED BY <1>2 DEF d2

-----------------------------------------------------------------------------
(* What a scheduled event does.                                            *)

(* The entry of a session is well-formed.                                  *)
LEMMA SessionOf ==
  ASSUME NEW d, DeviceOK(d), NEW s \in Sid
  PROVE  d.sessions[s] \in Session
BY DEF DeviceOK, DeviceState

(* The end of the measurement budget makes the session IDLE and cancels    *)
(* its events.                                                             *)
LEMMA StopAtBudgetSound ==
  ASSUME NEW d, Sound(d), NEW s \in Allocated(d)
  PROVE  Sound(StopAtBudget(d, s).dev)
<1> DEFINE w == [d.sessions[s] EXCEPT !.state = "IDLE", !.stream_remaining = 0]
<1> DEFINE idle == SetSession(d, s, w)
<1> DEFINE quiet == CancelSessionEvents(idle, s)
<1> DEFINE n == SessionStatusNtf(s, "IDLE_MAX_REACHED")
<1>1. s \in Sid /\ DeviceOK(d) BY DEF Allocated, Sound
<1>2. w \in Session BY <1>1, SessionOf DEF Session, SessionStates
<1>3. /\ DeviceOK(idle)
      /\ idle.sessions = [d.sessions EXCEPT ![s] = w]
      /\ idle.events = d.events
  <2> HIDE DEF w
  <2> QED BY <1>1, <1>2, SetSessionType
<1>4. \A t \in Sid \ {s} :
        idle.sessions[t].state = "IDLE" => \A e \in idle.events : e.sid # t
  <2> HIDE DEF w, idle
  <2> QED BY <1>1, <1>3 DEF Sound, QuietWhenIdle, DeviceOK, DeviceState
<1>5. Sound(quiet)
  <2> HIDE DEF idle
  <2> QED BY <1>1, <1>3, <1>4, CancelSessionEventsSound DEF Sound
<1>6. n \in Packet BY <1>1, PacketTypes DEF Codes
<1>7. StopAtBudget(d, s).dev = QueueNotification(quiet, n)
  BY DEF StopAtBudget, Outcome
<1> HIDE DEF quiet, n
<1> QED BY <1>5, <1>6, <1>7, QueueNotificationSound

(* uci_sim_device_emit_ranging_stream, on each of its return paths.        *)
LEMMA EmitRangingStreamSound ==
  ASSUME NEW d, Sound(d), NEW s \in Allocated(d), NEW hit \in BOOLEAN
  PROVE  Sound(EmitRangingStream(d, s, hit).dev)
<1> DEFINE v == d.sessions[s]
<1> DEFINE numbered == [d EXCEPT !.next_seq = @ + 1]
<1> DEFINE n == RangeDataNtf(s, d.next_seq)
<1> DEFINE sent == IF ShouldEmit(v, hit) THEN QueueNotification(numbered, n) ELSE d
<1> DEFINE count == v.ranging_count + 1
<1> DEFINE left == v.stream_remaining - 1
<1> DEFINE w == [v EXCEPT !.ranging_count = count, !.stream_remaining = left]
<1> DEFINE counted == SetSession(sent, s, w)
<1> SUFFICES ASSUME ~(Scenario # "ranging_stream" \/ v.stream_remaining = 0
                       \/ v.state # "ACTIVE")
             PROVE  Sound(EmitRangingStream(d, s, hit).dev)
  BY DEF EmitRangingStream, Outcome
<1>1. s \in Sid /\ DeviceOK(d) /\ v \in Session
  BY SessionOf DEF Allocated, Sound
<1>2. count \in Nat /\ left \in Nat BY <1>1 DEF Session
<1>3. /\ Sound(numbered) /\ numbered.sessions = d.sessions
      /\ d.next_seq \in Nat
  BY DEF Sound, DeviceOK, DeviceState, QuietWhenIdle, Allocated
<1>4. n \in Packet BY <1>1, <1>3, PacketTypes DEF Codes
<1>5. Sound(QueueNotification(numbered, n))
  <2> HIDE DEF numbered, n
  <2> QED BY <1>3, <1>4, QueueNotificationSound
<1>6. QueueNotification(numbered, n).sessions = d.sessions
  <2> HIDE DEF numbered, n
  <2> QED BY <1>3, <1>4, QueueNotificationType DEF Sound
<1>7. Sound(sent) /\ sent.sessions = d.sessions
  BY <1>5, <1>6
<1>8. w \in Session /\ w.state = v.state
  <2> HIDE DEF count, left, v
  <2> QED BY <1>1, <1>2 DEF Session
<1>9. s \in Allocated(sent)
  <2> HIDE DEF sent
  <2> QED BY <1>1, <1>7 DEF Allocated
<1>10. Sound(counted) /\ counted.sessions[s] = w
  <2> HIDE DEF sent, w
  <2> QED BY <1>1, <1>7, <1>8, <1>9, SetSessionSound
<1>11. s \in Allocated(counted)
  <2> HIDE DEF sent, w, counted
  <2> QED BY <1>1, <1>8, <1>10 DEF Allocated
<1>12. /\ Sound(StopAtBudget(d, s).dev)
       /\ Sound(StopAtBudget(counted, s).dev)
  <2> HIDE DEF counted
  <2> QED BY <1>10, <1>11, StopAtBudgetSound
<1>13. EmitRangingStream(d, s, hit) =
         IF BudgetReached(v) THEN StopAtBudget(d, s)
         ELSE IF ShouldEmit(v, hit) /\ ~CanQueue(d) THEN Outcome(sent, FALSE)
         ELSE IF BudgetReached(counted.sessions[s]) THEN StopAtBudget(counted, s)
         ELSE Outcome(counted, TRUE)
  <2>1. CountMeasurement(sent, s) = counted
    <3> HIDE DEF sent
    <3> QED BY <1>7 DEF CountMeasurement
  <2>2. sent = IF ShouldEmit(v, hit)
               THEN QueueNotification(IF ShouldEmit(v, hit) THEN numbered ELSE d, n)
               ELSE d
    OBVIOUS
  <2> HIDE DEF sent, counted
  <2> QED BY <2>1, <2>2 DEF EmitRangingStream
<1> HIDE DEF sent, counted, v
<1> QED BY <1>7, <1>10, <1>12, <1>13 DEF Outcome

(* A transfer moves on without touching the session's state.               *)
LEMMA ProgressDataTransferSound ==
  ASSUME NEW d, Sound(d), NEW s \in Sid, Active(d, s)
  PROVE  /\ Sound(ProgressDataTransfer(d, s).dev)
         /\ Active(ProgressDataTransfer(d, s).dev, s)
<1> DEFINE v == d.sessions[s]
<1> DEFINE tx == (v.tx_count + 1) % TxModulus
<1> DEFINE left == v.reps_remaining - 1
<1> DEFINE a == [v EXCEPT !.tx_count = tx, !.reps_remaining = left]
<1> DEFINE f == [v EXCEPT !.tx_count = tx, !.in_progress = FALSE]
<1> DEFINE again == SetSession(d, s, a)
<1> DEFINE final == SetSession(d, s, f)
<1> DEFINE status(code) == DataStatusNtf(s, v.last_data, code, tx)
<1> DEFINE credited == QueueNotification(final, DataCreditNtf(s))
<1>1. DeviceOK(d) /\ v \in Session /\ v.state = "ACTIVE" /\ s \in Allocated(d)
  BY SessionOf DEF Sound, Active, Allocated
<1>2. tx \in Nat BY <1>1, SizesAssumption DEF Session
<1>3. status("OK") \in Packet /\ status("REPETITION_OK") \in Packet
      /\ DataCreditNtf(s) \in Packet
  <2>1. v.last_data \in Msg \cup {NoMsg} BY <1>1 DEF Session
  <2> HIDE DEF v, tx
  <2> QED BY <1>2, <2>1, PacketTypes DEF Codes
<1>4. f \in Session /\ f.state = "ACTIVE"
  <2> HIDE DEF tx
  <2> QED BY <1>1, <1>2 DEF Session
<1>5. v.reps_remaining > 0 => a \in Session /\ a.state = "ACTIVE"
  <2>1. v.reps_remaining > 0 => left \in Nat BY <1>1 DEF Session
  <2> HIDE DEF tx, left, v
  <2> QED BY <1>1, <1>2, <2>1 DEF Session
<1>6. Sound(final) /\ Active(final, s)
  <2> HIDE DEF f
  <2> QED BY <1>1, <1>4, SetSessionSound DEF Active
<1>7. v.reps_remaining > 0 => Sound(again) /\ Active(again, s)
  <2> HIDE DEF a
  <2> QED BY <1>1, <1>5, SetSessionSound DEF Active
<1>8. Sound(credited) /\ Active(credited, s)
  <2> HIDE DEF final
  <2> QED BY <1>3, <1>6, QueueNotificationSound, QueueNotificationType DEF Sound, Active
<1>9. /\ Sound(QueueNotification(credited, status("OK")))
      /\ Active(QueueNotification(credited, status("OK")), s)
  <2> HIDE DEF credited, status
  <2> QED BY <1>3, <1>8, QueueNotificationSound, QueueNotificationType DEF Sound, Active
<1>10. v.reps_remaining > 0 =>
         /\ Sound(QueueNotification(again, status("REPETITION_OK")))
         /\ Active(QueueNotification(again, status("REPETITION_OK")), s)
  <2> HIDE DEF again, status, v
  <2> QED BY <1>3, <1>7, QueueNotificationSound, QueueNotificationType DEF Sound, Active
<1>11. ProgressDataTransfer(d, s).dev =
         IF v.reps_remaining > 0 THEN QueueNotification(again, status("REPETITION_OK"))
         ELSE IF ~CanQueue(final) THEN credited
         ELSE QueueNotification(credited, status("OK"))
  BY DEF ProgressDataTransfer, Outcome
<1> HIDE DEF v, again, final, credited, status
<1> QED BY <1>8, <1>9, <1>10, <1>11

-----------------------------------------------------------------------------
(* The results of the handlers.                                            *)

(* A command handler that fails has written a response, from which the     *)
(* generic error is made.                                                  *)
Answered(res) == res.rc # 0 => res.rsp # << >>

(* A response and nothing else is a well-formed, answered result.          *)
LEMMA RespondTyped ==
  ASSUME NEW d, DeviceOK(d), NEW code \in Codes
  PROVE  /\ ResultTyped(Respond(d, code)) /\ Answered(Respond(d, code))
         /\ ResultTyped(Reject(d, code)) /\ Answered(Reject(d, code))
         /\ Respond(d, code).dev = d /\ Reject(d, code).dev = d
<1> DEFINE p == MakeStatusResponse(code)
<1>1. p \in Packet BY PacketTypes
<1>2. /\ Respond(d, code) = [dev |-> d, rsp |-> <<p>>, ntf |-> << >>, rc |-> 0]
      /\ Reject(d, code) = [dev |-> d, rsp |-> <<p>>, ntf |-> << >>, rc |-> -1]
  BY DEF Respond, Reject, Result
<1>3. <<p>> \in OptPacket /\ << >> \in OptPacket BY <1>1 DEF OptPacket
<1>4. <<p>> # << >> OBVIOUS
<1> HIDE DEF p
<1> QED BY <1>2, <1>3, <1>4 DEF ResultTyped, ResultType, Answered, DeviceOK

(* The same for a sound device.                                            *)
LEMMA RespondOK ==
  ASSUME NEW d, Sound(d), NEW code \in Codes
  PROVE  /\ ResultOK(Respond(d, code)) /\ Answered(Respond(d, code))
         /\ ResultOK(Reject(d, code)) /\ Answered(Reject(d, code))
BY RespondTyped DEF Sound, ResultOK

(* Another device in the result.                                           *)
LEMMA ReplaceDevice ==
  ASSUME NEW res, ResultTyped(res), NEW d, DeviceOK(d)
  PROVE  LET r2 == [res EXCEPT !.dev = d]
         IN  /\ ResultTyped(r2) /\ r2.dev = d /\ (Answered(res) => Answered(r2))
BY DEF ResultTyped, ResultType, Answered, DeviceOK

(* Delivering a notification, at once or deferred, touches neither         *)
(* sessions nor events.                                                    *)
LEMMA DeliverNotificationTyped ==
  ASSUME NEW res, ResultTyped(res), NEW n \in Packet
  PROVE  LET r2 == DeliverNotification(res, n)
         IN  /\ ResultTyped(r2) /\ (Answered(res) => Answered(r2))
             /\ r2.dev.sessions = res.dev.sessions
             /\ r2.dev.events = res.dev.events
<1>1. CASE ~ShouldDefer /\ res.ntf = << >>
  <2>1. DeliverNotification(res, n) = [res EXCEPT !.ntf = <<n>>]
    BY <1>1 DEF DeliverNotification
  <2>2. <<n>> \in OptPacket BY DEF OptPacket
  <2> QED BY <2>1, <2>2 DEF ResultTyped, ResultType, Answered
<1>2. CASE ~(~ShouldDefer /\ res.ntf = << >>)
  <2> DEFINE d2 == QueueNotification(res.dev, n)
  <2>1. DeliverNotification(res, n) = [res EXCEPT !.dev = d2]
    BY <1>2 DEF DeliverNotification
  <2>2. DeviceOK(d2) /\ d2.sessions = res.dev.sessions /\ d2.events = res.dev.events
    BY QueueNotificationType DEF ResultTyped
  <2> HIDE DEF d2
  <2> QED BY <2>1, <2>2, ReplaceDevice
<1> QED BY <1>1, <1>2

(* Delivering a notification keeps a result sound.                         *)
LEMMA DeliverNotificationOK ==
  ASSUME NEW res, ResultOK(res), NEW n \in Packet
  PROVE  /\ ResultOK(DeliverNotification(res, n))
         /\ Answered(res) => Answered(DeliverNotification(res, n))
BY DeliverNotificationTyped DEF ResultOK, ResultTyped, Sound, QuietWhenIdle

(* Handing over a pending notification keeps a result sound.               *)
LEMMA FinalizeResultOK ==
  ASSUME NEW res, ResultOK(res), NEW before
  PROVE  ResultOK(FinalizeResult(res, before))
<1> DEFINE r2 == FinalizeResult(res, before)
<1> DEFINE q == res.dev.pending
<1>1. CASE r2 = res BY <1>1
<1>2. CASE r2 # res
  <2>1. /\ q # << >>
        /\ r2 = [res EXCEPT !.ntf = <<Head(q)>>, !.dev.pending = Tail(q)]
    BY <1>2 DEF FinalizeResult
  <2>2. q \in Seq(Packet) /\ res \in ResultType
    BY DEF ResultOK, ResultTyped, DeviceOK, DeviceState
  <2>3. /\ Head(q) \in Packet /\ Tail(q) \in Seq(Packet)
        /\ Len(Tail(q)) = Len(q) - 1 /\ Len(q) \in Nat
    BY <2>1, <2>2, HeadTailProperties, LenProperties
  <2> DEFINE d2 == [res.dev EXCEPT !.pending = Tail(q)]
  <2>4. /\ d2 \in DeviceState
        /\ d2.pending = Tail(q)
        /\ d2.sessions = res.dev.sessions /\ d2.events = res.dev.events
    BY <2>3 DEF ResultOK, ResultTyped, DeviceOK, DeviceState
  <2>5. Len(d2.pending) <= MAX_PENDING_NOTIFICATIONS
    BY <2>3, <2>4, SizesAssumption DEF ResultOK, ResultTyped, DeviceOK
  <2>6. Sound(d2)
    <3> HIDE DEF d2
    <3> QED BY <2>4, <2>5 DEF ResultOK, ResultTyped, Sound, DeviceOK, Allocated, QuietWhenIdle
  <2>7. <<Head(q)>> \in OptPacket BY <2>3 DEF OptPacket
  <2>8. r2 \in ResultType /\ r2.dev = d2
    <3>1. d2 = [res.dev EXCEPT !.pending = Tail(q)] OBVIOUS
    <3> HIDE DEF d2
    <3>2. r2 = [res EXCEPT !.ntf = <<Head(q)>>, !.dev = d2]
      BY <2>1, <2>2, <3>1 DEF ResultType
    <3> HIDE DEF r2, q
    <3> QED BY <2>2, <2>4, <2>7, <3>2 DEF ResultType
  <2> HIDE DEF r2, d2
  <2>9. ResultOK(r2) BY <2>6, <2>8 DEF ResultOK, ResultTyped, Sound
  <2> QED BY <2>9 DEF r2
<1> QED BY <1>1, <1>2

(* uci_sim_device_handle_packet after the handler: the generic error and   *)
(* the finalisation.                                                       *)
LEMMA CommandResultOK ==
  ASSUME NEW d, NEW res, ResultOK(res), Answered(res)
  PROVE  ResultOK(CommandResult(d, res))
<1> DEFINE n == GenericErrorNtf(res.rsp[1].code)
<1> DEFINE r2 == IF res.rc # 0 THEN DeliverNotification(res, n) ELSE res
<1>1. ResultOK(r2)
  <2>1. CASE res.rc # 0
    <3>1. res.rsp # << >> /\ res.rsp \in OptPacket
      BY <2>1 DEF Answered, ResultOK, ResultTyped, ResultType
    <3>2. PICK p \in Packet : res.rsp = <<p>> BY <3>1 DEF OptPacket
    <3>3. res.rsp[1].code \in Codes BY <3>2 DEF Packet
    <3>4. n \in Packet BY <3>3, PacketTypes
    <3> HIDE DEF n
    <3> QED BY <2>1, <3>4, DeliverNotificationOK
  <2>2. CASE res.rc = 0 BY <2>2
  <2> QED BY <2>1, <2>2
<1>2. CommandResult(d, res) = FinalizeResult(r2, Len(d.pending))
  BY DEF CommandResult
<1> HIDE DEF r2
<1> QED BY <1>1, <1>2, FinalizeResultOK

-----------------------------------------------------------------------------
(* The handlers, one lemma each.                                           *)

CommandOK(res) == ResultOK(res) /\ Answered(res)

(* A refused command leaves the device as it was.                          *)
LEMMA RefuseOK ==
  ASSUME NEW d, Sound(d), NEW code \in Codes
  PROVE  CommandOK(Reject(d, code))
BY RespondOK DEF CommandOK

(* A response and a notification on a sound device.                        *)
LEMMA AnnounceOK ==
  ASSUME NEW d, Sound(d), NEW n \in Packet
  PROVE  LET res == DeliverNotification(Respond(d, "OK"), n)
         IN  /\ CommandOK(res)
             /\ res.dev.sessions = d.sessions /\ res.dev.events = d.events
<1> DEFINE r == Respond(d, "OK")
<1>1. ResultOK(r) /\ Answered(r) /\ r.dev = d
  <2>1. "OK" \in Codes BY DEF Codes
  <2> QED BY <2>1, RespondOK, RespondTyped DEF Sound
<1>2. ResultTyped(r) BY <1>1 DEF ResultOK
<1> HIDE DEF r
<1>3. LET res == DeliverNotification(r, n)
      IN  /\ CommandOK(res)
          /\ res.dev.sessions = d.sessions /\ res.dev.events = d.events
  BY <1>1, <1>2, DeliverNotificationOK, DeliverNotificationTyped DEF CommandOK
<1> QED BY <1>3 DEF r

(* The device at power-up, or after a reset.                               *)
LEMMA InitDeviceSound ==
  ASSUME NEW lost \in BOOLEAN
  PROVE  Sound([InitDevice EXCEPT !.lost = lost])
<1> DEFINE d == [InitDevice EXCEPT !.lost = lost]
<1>1. d \in DeviceState
  BY SessionTypes, EmptySeq DEF InitDevice, DeviceState
<1>2. /\ d.sessions = [s \in Sid |-> FreeSession]
      /\ d.events = {} /\ d.pending = << >>
  BY DEF InitDevice
<1>3. FreeSession.state = "NONE"
  BY SessionTypes DEF FreeSession, Session, NewSession
<1>4. Allocated(d) = {}
  <2> HIDE DEF d
  <2> QED BY <1>2, <1>3 DEF Allocated
<1>5. Len(d.pending) = 0 BY <1>2, EmptySeq
<1>6. IsFiniteSet(d.events) /\ Cardinality(d.events) = 0 /\ Cardinality(Allocated(d)) = 0
  BY <1>2, <1>4, FS_EmptySet
<1>8. DenseSet(d.events)
  <2>1. 1 .. 0 = {} OBVIOUS
  <2> HIDE DEF d
  <2> QED BY <1>2, <1>6, <2>1 DEF DenseSet
<1> HIDE DEF d
<1>7. Sound(d)
  BY <1>1, <1>2, <1>5, <1>6, <1>8, SizesAssumption DEF Sound, DeviceOK, QuietWhenIdle
<1> QED BY <1>7 DEF d

(* CORE_DEVICE_RESET.                                                      *)
LEMMA DeviceResetOK ==
  ASSUME NEW d, Sound(d)
  PROVE  CommandOK(HandleDeviceReset(d))
<1>1. d.lost \in BOOLEAN BY DEF Sound, DeviceOK, DeviceState
<1>2. Sound([InitDevice EXCEPT !.lost = d.lost]) BY <1>1, InitDeviceSound
<1>3. DeviceStatusNtf \in Packet BY PacketTypes
<1> QED BY <1>2, <1>3, AnnounceOK DEF HandleDeviceReset

(* SESSION_INIT creates a session only while the table has a free entry.   *)
LEMMA SessionInitOK ==
  ASSUME NEW d, Sound(d), NEW s \in Sid
  PROVE  CommandOK(HandleSessionInit(d, s))
<1>1. ASSUME NEW d1, Sound(d1)
      PROVE  CommandOK(DeliverNotification(Respond(d1, "OK"),
                                           SessionStatusNtf(s, d1.sessions[s].state)))
  <2>1. d1.sessions[s].state \in Codes
    <3>1. d1.sessions[s] \in Session BY <1>1, SessionOf DEF Sound
    <3> QED BY <3>1 DEF Session, SessionStates, Codes
  <2>2. SessionStatusNtf(s, d1.sessions[s].state) \in Packet
    BY <2>1, PacketTypes
  <2> QED BY <1>1, <2>2, AnnounceOK
<1>2. CASE s \in Allocated(d)
  BY <1>1, <1>2 DEF HandleSessionInit
<1>3. CASE s \notin Allocated(d) /\ Cardinality(Allocated(d)) >= MAX_SESSIONS
  <2>1. "REJECTED" \in Codes BY DEF Codes
  <2> QED BY <1>3, <2>1, RefuseOK DEF HandleSessionInit
<1>4. CASE s \notin Allocated(d) /\ ~(Cardinality(Allocated(d)) >= MAX_SESSIONS)
  <2> DEFINE d1 == SetSession(d, s, NewSession)
  <2>1. d1 \in DeviceState
    BY SessionTypes DEF SetSession, Sound, DeviceOK, DeviceState
  <2>2. /\ d1.sessions = [d.sessions EXCEPT ![s] = NewSession]
        /\ d1.events = d.events /\ d1.pending = d.pending
    BY DEF SetSession, Sound, DeviceOK, DeviceState
  <2>3. NewSession.state = "INIT" BY DEF NewSession
  <2> HIDE DEF d1
  <2>4. Allocated(d1) = Allocated(d) \cup {s}
    BY <2>2, <2>3 DEF Allocated, Sound, DeviceOK, DeviceState
  <2>5. Cardinality(Allocated(d1)) = Cardinality(Allocated(d)) + 1
    BY <1>4, <2>4, AllocatedFinite, FS_AddElement
  <2>6. Cardinality(Allocated(d1)) <= MAX_SESSIONS
    BY <1>4, <2>5, AllocatedFinite, SizesAssumption
  <2>7. DeviceOK(d1) BY <2>1, <2>2, <2>6 DEF Sound, DeviceOK
  <2>8. QuietWhenIdle(d1)
    BY <2>2, <2>3 DEF Sound, DeviceOK, DeviceState, QuietWhenIdle
  <2>9. CommandOK(DeliverNotification(Respond(d1, "OK"),
                                      SessionStatusNtf(s, d1.sessions[s].state)))
    BY <1>1, <2>2, <2>7, <2>8 DEF Sound
  <2> QED BY <1>4, <2>9 DEF HandleSessionInit, d1
<1> QED BY <1>2, <1>3, <1>4

(* The device of a result is replaced by a sound one.                      *)
LEMMA ReplaceDeviceOK ==
  ASSUME NEW res, CommandOK(res), NEW d, Sound(d)
  PROVE  CommandOK([res EXCEPT !.dev = d])
BY ReplaceDevice DEF CommandOK, ResultOK, Sound

(* SESSION_DEINIT frees the entry; its events stay, but the session is not *)
(* IDLE.                                                                   *)
LEMMA SessionDeinitOK ==
  ASSUME NEW d, Sound(d), NEW s \in Sid
  PROVE  CommandOK(HandleSessionDeinit(d, s))
<1>1. CASE s \notin Allocated(d)
  <2>1. "INVALID_PARAM" \in Codes BY DEF Codes
  <2> QED BY <1>1, <2>1, RefuseOK DEF HandleSessionDeinit
<1>2. CASE s \in Allocated(d)
  <2> DEFINE res == DeliverNotification(Respond(d, "OK"), SessionStatusNtf(s, "DEINIT"))
  <2>1. SessionStatusNtf(s, "DEINIT") \in Packet
    BY PacketTypes DEF Codes
  <2>2. CommandOK(res) BY <2>1, AnnounceOK
  <2>3. HandleSessionDeinit(d, s) = [res EXCEPT !.dev = SetSession(res.dev, s, FreeSession)]
    BY <1>2 DEF HandleSessionDeinit
  <2>4. FreeSession.state = "NONE"
    BY SessionTypes DEF FreeSession, Session, NewSession
  <2> HIDE DEF res
  <2>5. Sound(res.dev) BY <2>2 DEF CommandOK, ResultOK, ResultTyped, Sound
  <2>6. Sound(SetSession(res.dev, s, FreeSession))
    BY <2>4, <2>5, SessionTypes, SetSessionSound
  <2> QED BY <2>2, <2>3, <2>6, ReplaceDeviceOK
<1> QED BY <1>1, <1>2

(* The hook of SESSION_START schedules for a session that is ACTIVE.       *)
LEMMA OnSessionStartedSound ==
  ASSUME NEW d, Sound(d), NEW s \in Sid, Active(d, s)
  PROVE  Sound(OnSessionStarted(d, s))
<1>1. CASE Scenario # "ranging_stream" BY <1>1 DEF OnSessionStarted
<1>2. CASE Scenario = "ranging_stream"
  <2> DEFINE v == d.sessions[s]
  <2> DEFINE w == [v EXCEPT !.stream_remaining = BurstCount]
  <2> DEFINE armed == SetSession(d, s, w)
  <2>1. v \in Session /\ v.state = "ACTIVE" /\ s \in Allocated(d)
    BY SessionOf DEF Sound, Active, Allocated
  <2>2. w \in Session /\ w.state = "ACTIVE" BY <2>1, SizesAssumption DEF Session
  <2>3. Sound(armed) /\ armed.sessions[s] = w
    <3> HIDE DEF w
    <3> QED BY <2>1, <2>2, SetSessionSound
  <2>4. armed = [d EXCEPT !.sessions[s].stream_remaining = BurstCount]
    BY DEF SetSession, Sound, DeviceOK, DeviceState
  <2>5. v.interval \in Nat BY <2>1 DEF Session
  <2>6. Sound(ScheduleEvent(armed, "RANGE_DATA", s, v.interval))
    <3>1. armed.sessions[s].state # "IDLE"
      <4> HIDE DEF armed, w
      <4> QED BY <2>2, <2>3
    <3> HIDE DEF armed, v
    <3> QED BY <2>3, <2>5, <3>1, ScheduleEventSound DEF EventTypes
  <2>7. OnSessionStarted(d, s) = IF BurstCount = 0 THEN armed
                                 ELSE ScheduleEvent(armed, "RANGE_DATA", s, v.interval)
    <3> HIDE DEF armed
    <3> QED BY <1>2, <2>4 DEF OnSessionStarted
  <2> HIDE DEF armed, v
  <2> QED BY <2>3, <2>6, <2>7
<1> QED BY <1>1, <1>2

(* SESSION_START.                                                          *)
LEMMA SessionStartOK ==
  ASSUME NEW d, Sound(d), NEW s \in Sid, NEW verdict \in Verdicts
  PROVE  CommandOK(HandleSessionStart(d, s, verdict))
<1> DEFINE v == d.sessions[s]
<1> DEFINE st == StartVerdict(v, verdict)
<1>0. v \in Session BY SessionOf DEF Sound
<1>1. CASE s \notin Allocated(d)
  <2>1. "INVALID_PARAM" \in Codes BY DEF Codes
  <2> QED BY <1>1, <2>1, RefuseOK DEF HandleSessionStart
<1>2. CASE s \in Allocated(d) /\ v.state \notin {"INIT", "IDLE"}
  <2>1. "REJECTED" \in Codes BY DEF Codes
  <2> QED BY <1>2, <2>1, RefuseOK DEF HandleSessionStart
<1>3. CASE s \in Allocated(d) /\ v.state \in {"INIT", "IDLE"} /\ st \notin {"OK", "SURFACED"}
  <2>1. st \in Codes BY <1>3 DEF StartVerdict, Verdicts, Codes
  <2>2. HandleSessionStart(d, s, verdict) = Reject(d, st) BY <1>3 DEF HandleSessionStart
  <2> QED BY <2>1, <2>2, RefuseOK
<1>5. CASE s \in Allocated(d) /\ v.state \in {"INIT", "IDLE"} /\ st = "SURFACED"
  <2>1. SessionStatusNtf(s, v.state) \in Packet BY <1>5, PacketTypes DEF Codes
  <2>2. HandleSessionStart(d, s, verdict) =
          DeliverNotification(Respond(d, "OK"), SessionStatusNtf(s, v.state))
    BY <1>5 DEF HandleSessionStart
  <2> QED BY <2>1, <2>2, AnnounceOK
<1>4. CASE s \in Allocated(d) /\ v.state \in {"INIT", "IDLE"} /\ st = "OK"
  <2> DEFINE w == [v EXCEPT !.state = "ACTIVE"]
  <2> DEFINE d1 == SetSession(d, s, w)
  <2> DEFINE res == DeliverNotification(Respond(d1, "OK"), SessionStatusNtf(s, "ACTIVE"))
  <2>1. v \in Session BY <1>0
  <2>2. w \in Session /\ w.state = "ACTIVE" BY <2>1 DEF Session, SessionStates
  <2>3. Sound(d1) /\ d1.sessions[s] = w
    <3> HIDE DEF w
    <3> QED BY <1>4, <2>2, SetSessionSound
  <2>4. SessionStatusNtf(s, "ACTIVE") \in Packet BY PacketTypes DEF Codes
  <2>5. CommandOK(res) /\ res.dev.sessions = d1.sessions
    <3> HIDE DEF d1
    <3> QED BY <2>3, <2>4, AnnounceOK
  <2>6. HandleSessionStart(d, s, verdict) = [res EXCEPT !.dev = OnSessionStarted(res.dev, s)]
    BY <1>4 DEF HandleSessionStart
  <2> HIDE DEF res, w, d1
  <2>7. Sound(res.dev) /\ Active(res.dev, s)
    BY <2>2, <2>3, <2>5 DEF CommandOK, ResultOK, ResultTyped, Sound, Active
  <2>8. Sound(OnSessionStarted(res.dev, s)) BY <2>7, OnSessionStartedSound
  <2> QED BY <2>5, <2>6, <2>8, ReplaceDeviceOK
<1> QED BY <1>1, <1>2, <1>3, <1>4, <1>5

(* SESSION_STOP passes through a state that is not sound: the session is   *)
(* IDLE and its events are still scheduled until the hook cancels them.    *)
LEMMA SessionStopOK ==
  ASSUME NEW d, Sound(d), NEW s \in Sid
  PROVE  CommandOK(HandleSessionStop(d, s))
<1>1. CASE s \notin Allocated(d)
  <2>1. "INVALID_PARAM" \in Codes BY DEF Codes
  <2> QED BY <1>1, <2>1, RefuseOK DEF HandleSessionStop
<1>2. CASE s \in Allocated(d) /\ ~Active(d, s)
  <2>1. "REJECTED" \in Codes BY DEF Codes
  <2> QED BY <1>2, <2>1, RefuseOK DEF HandleSessionStop
<1>3. CASE s \in Allocated(d) /\ Active(d, s)
  <2> DEFINE w == [d.sessions[s] EXCEPT !.state = "IDLE"]
  <2> DEFINE d1 == SetSession(d, s, w)
  <2> DEFINE r == Respond(d1, "OK")
  <2> DEFINE res == DeliverNotification(r, SessionStatusNtf(s, "IDLE"))
  <2>1. w \in Session /\ w.state = "IDLE"
    BY SessionOf DEF Sound, Session, SessionStates
  <2>2. /\ DeviceOK(d1) /\ d1.sessions = [d.sessions EXCEPT ![s] = w]
        /\ d1.events = d.events
    <3> HIDE DEF w
    <3> QED BY <1>3, <2>1, SetSessionType DEF Sound
  <2>3. ResultTyped(r) /\ Answered(r) /\ r.dev = d1
    <3>1. "OK" \in Codes BY DEF Codes
    <3> HIDE DEF d1
    <3> QED BY <2>2, <3>1, RespondTyped
  <2>4. /\ ResultTyped(res) /\ Answered(res)
        /\ res.dev.sessions = d1.sessions /\ res.dev.events = d1.events
    <3>1. SessionStatusNtf(s, "IDLE") \in Packet BY PacketTypes DEF Codes
    <3> HIDE DEF r
    <3> QED BY <2>3, <3>1, DeliverNotificationTyped
  <2>5. HandleSessionStop(d, s) = [res EXCEPT !.dev = OnSessionStopped(res.dev, s)]
    BY <1>3 DEF HandleSessionStop
  <2> HIDE DEF res, r, d1
  <2> DEFINE e == res.dev
  <2> DEFINE x == [e.sessions[s] EXCEPT !.stream_remaining = 0, !.in_progress = FALSE,
                                        !.reps_remaining = 0, !.tx_count = 0]
  <2> DEFINE e1 == SetSession(e, s, x)
  <2>6. DeviceOK(e) /\ e.sessions = [d.sessions EXCEPT ![s] = w] /\ e.events = d.events
    BY <2>2, <2>4 DEF ResultTyped
  <2> HIDE DEF e
  <2>7. d.sessions \in [Sid -> Session] BY DEF Sound, DeviceOK, DeviceState
  <2>8. x \in Session
    <3>1. e.sessions[s] \in Session BY <2>6, SessionOf
    <3> QED BY <3>1 DEF Session
  <2>9. s \in Allocated(e)
    <3>1. e.sessions[s] = w
      <4> HIDE DEF w
      <4> QED BY <2>6, <2>7
    <3> QED BY <2>1, <3>1 DEF Allocated
  <2>10. /\ DeviceOK(e1) /\ e1.sessions = [e.sessions EXCEPT ![s] = x]
         /\ e1.events = e.events
    <3> HIDE DEF x
    <3> QED BY <2>6, <2>8, <2>9, SetSessionType
  <2> HIDE DEF e1, x, w
  <2>11. \A t \in Sid \ {s} :
           e1.sessions[t].state = "IDLE" => \A f \in e1.events : f.sid # t
    BY <2>6, <2>7, <2>10 DEF Sound, QuietWhenIdle
  <2>12. Sound(CancelSessionEvents(e1, s))
    BY <2>6, <2>10, <2>11, CancelSessionEventsSound DEF Sound
  <2>13. OnSessionStopped(e, s) = CancelSessionEvents(e1, s)
    BY DEF OnSessionStopped, e1, x
  <2>14. LET r2 == [res EXCEPT !.dev = CancelSessionEvents(e1, s)]
         IN  CommandOK(r2)
    BY <2>4, <2>12, ReplaceDevice DEF CommandOK, ResultOK, Sound
  <2> QED BY <2>5, <2>13, <2>14 DEF e
<1> QED BY <1>1, <1>2, <1>3

(* Storing a parameter keeps the session well-formed and its state.        *)
LEMMA StoreConfigType ==
  ASSUME NEW v \in Session, NEW t \in Tlvs
  PROVE  StoreConfig(v, t) \in Session /\ StoreConfig(v, t).state = v.state
<1>1. t.val \in Nat BY TlvAssumption
<1> DEFINE val == t.val
<1> HIDE DEF val
<1>2. /\ [v EXCEPT !.interval = val] \in Session
      /\ [v EXCEPT !.max_meas = val] \in Session
      /\ [v EXCEPT !.ntf_config = val] \in Session
      /\ [v EXCEPT !.repetition = val] \in Session
  BY <1>1 DEF Session, val
<1>3. StoreConfig(v, t) \in {[v EXCEPT !.interval = val], [v EXCEPT !.max_meas = val],
                             [v EXCEPT !.ntf_config = val], [v EXCEPT !.repetition = val]}
  BY DEF StoreConfig, val
<1>4. \A w \in {[v EXCEPT !.interval = val], [v EXCEPT !.max_meas = val],
                [v EXCEPT !.ntf_config = val], [v EXCEPT !.repetition = val]} : w.state = v.state
  BY DEF Session
<1> QED BY <1>2, <1>3, <1>4

(* One entry of SESSION_SET_APP_CONFIG, the rescheduling of a stream       *)
(* included.                                                               *)
LEMMA ApplyTlvSound ==
  ASSUME NEW d, Sound(d), NEW s \in Allocated(d), NEW t \in Tlvs
  PROVE  Sound(ApplyTlv(d, s, t).dev) /\ ApplyTlv(d, s, t).ok \in Codes
<1> DEFINE v == d.sessions[s]
<1> DEFINE w == StoreConfig(v, t)
<1> DEFINE d1 == SetSession(d, s, w)
<1> DEFINE cut == RemoveEvents(d1, "RANGE_DATA", s)
<1> DEFINE d2 == RescheduleSessionEvent(d1, "RANGE_DATA", s, t.val)
<1>1. s \in Sid /\ v \in Session BY SessionOf DEF Sound, Allocated
<1>2. w \in Session /\ w.state = v.state BY <1>1, StoreConfigType
<1>3. Sound(d1) /\ d1.sessions[s] = w
  <2> HIDE DEF w
  <2> QED BY <1>1, <1>2, SetSessionSound
<1>4. t.val \in Nat BY TlvAssumption
<1>5. v.state = "ACTIVE" => Sound(d2)
  <2> HIDE DEF d1
  <2>1. /\ DeviceOK(cut) /\ cut.sessions = d1.sessions /\ EventsFrom(cut, d1)
        /\ DenseSet(cut.events)
    BY <1>3, RemoveEventsType DEF Sound
  <2>2. Sound(cut)
    <3> HIDE DEF cut
    <3> QED BY <1>3, <2>1, QuietFrame DEF Sound
  <2>3. d2 = ScheduleEvent(cut, "RANGE_DATA", s, t.val) BY DEF RescheduleSessionEvent
  <2>4. v.state = "ACTIVE" => cut.sessions[s].state # "IDLE"
    <3> HIDE DEF cut
    <3> QED BY <1>2, <1>3, <2>1
  <2> HIDE DEF cut, d2, v
  <2> QED BY <1>1, <1>4, <2>2, <2>3, <2>4, ScheduleEventSound DEF EventTypes
<1>6. ApplyTlv(d, s, t).dev \in {d, d1} \/ (v.state = "ACTIVE" /\ ApplyTlv(d, s, t).dev = d2)
  <2> HIDE DEF d1, d2
  <2> QED BY DEF ApplyTlv, Outcome, Active, d1, d2
<1>7. ApplyTlv(d, s, t).ok \in Codes
  <2> HIDE DEF d1, d2
  <2> QED BY DEF ApplyTlv, Outcome, Codes
<1> HIDE DEF v, d1, d2
<1> QED BY <1>3, <1>5, <1>6, <1>7

(* SESSION_SET_APP_CONFIG, also when a later entry is refused.             *)
LEMMA SetAppConfigOK ==
  ASSUME NEW d, Sound(d), NEW s \in Sid, NEW t \in Tlvs, NEW bad \in BOOLEAN
  PROVE  CommandOK(HandleSetAppConfig(d, s, t, bad))
<1> DEFINE first == ApplyTlv(d, s, t)
<1>1. "INVALID_PARAM" \in Codes /\ "OK" \in Codes BY DEF Codes
<1>2. CASE s \notin Allocated(d)
  BY <1>1, <1>2, RefuseOK DEF HandleSetAppConfig
<1>3. CASE s \in Allocated(d)
  <2>1. Sound(first.dev) /\ first.ok \in Codes BY <1>3, ApplyTlvSound
  <2>2. HandleSetAppConfig(d, s, t, bad) =
          IF first.ok # "OK" THEN Reject(first.dev, first.ok)
          ELSE IF bad THEN Reject(first.dev, "INVALID_PARAM")
          ELSE Respond(first.dev, "OK")
    BY <1>3 DEF HandleSetAppConfig
  <2> HIDE DEF first
  <2> QED BY <1>1, <2>1, <2>2, RespondOK DEF CommandOK
<1> QED BY <1>2, <1>3

(* The commands that only read.                                            *)
LEMMA QueryOK ==
  ASSUME NEW d, Sound(d), NEW s \in Sid
  PROVE  CommandOK(HandleQuery(d, s))
<1>1. "INVALID_PARAM" \in Codes /\ "OK" \in Codes BY DEF Codes
<1> QED BY <1>1, RespondOK DEF HandleQuery, CommandOK

(* The data handlers write no response, and at most one notification.      *)
LEMMA DataResultTyped ==
  ASSUME NEW d, Sound(d), NEW ntf \in OptPacket, NEW rc \in Int
  PROVE  ResultOK(Result(d, << >>, ntf, rc))
<1>1. << >> \in OptPacket BY DEF OptPacket
<1>2. d \in DeviceState BY DEF Sound, DeviceOK
<1> QED BY <1>1, <1>2 DEF Result, ResultOK, ResultTyped, ResultType, Sound

(* A refused data message leaves the device as it was.                     *)
LEMMA RefuseDataOK ==
  ASSUME NEW d, Sound(d), NEW s \in Sid, NEW m \in Msg, NEW code \in Codes, NEW tx \in Nat
  PROVE  ResultOK(RefuseData(d, s, m, code, tx))
<1>1. DataStatusNtf(s, m, code, tx) \in Packet BY PacketTypes
<1>2. <<DataStatusNtf(s, m, code, tx)>> \in OptPacket BY <1>1 DEF OptPacket
<1> QED BY <1>2, DataResultTyped DEF RefuseData

(* A data message reported at once queues its credit and its status.       *)
LEMMA ReportTransferOK ==
  ASSUME NEW d, Sound(d), NEW s \in Sid, NEW m \in Msg, NEW code \in Codes
  PROVE  ResultOK(ReportTransfer(d, s, m, code))
<1> DEFINE credited == QueueNotification(d, DataCreditNtf(s))
<1> DEFINE reported == QueueNotification(credited, DataStatusNtf(s, m, code, 1))
<1>1. DataCreditNtf(s) \in Packet /\ DataStatusNtf(s, m, code, 1) \in Packet
  BY PacketTypes
<1>2. Sound(credited) BY <1>1, QueueNotificationSound
<1>3. Sound(reported)
  <2> HIDE DEF credited
  <2> QED BY <1>1, <1>2, QueueNotificationSound
<1>4. << >> \in OptPacket BY DEF OptPacket
<1>5. ReportTransfer(d, s, m, code) =
        IF ~CanQueue(d) THEN Result(credited, << >>, << >>, -1)
        ELSE Result(reported, << >>, << >>, IF CanQueue(credited) THEN 0 ELSE -1)
  BY DEF ReportTransfer
<1> HIDE DEF credited, reported
<1> QED BY <1>2, <1>3, <1>4, <1>5, DataResultTyped

(* A transfer is scheduled for an ACTIVE session only.                     *)
LEMMA StartTransferOK ==
  ASSUME NEW d, Sound(d), NEW s \in Sid, Active(d, s), NEW m \in Msg
  PROVE  ResultOK(StartTransfer(d, s, m))
<1> DEFINE v == d.sessions[s]
<1> DEFINE b == [v EXCEPT !.last_data = m, !.in_progress = TRUE,
                          !.reps_remaining = v.repetition, !.tx_count = 0]
<1> DEFINE u == [v EXCEPT !.last_data = m, !.in_progress = FALSE,
                          !.reps_remaining = 0, !.tx_count = 0]
<1> DEFINE busy == SetSession(d, s, b)
<1> DEFINE undone == SetSession(d, s, u)
<1> DEFINE going == ScheduleEvent(busy, "DATA_TRANSFER", s, v.interval)
<1>1. v \in Session /\ v.state = "ACTIVE" /\ s \in Allocated(d)
  BY SessionOf DEF Sound, Active, Allocated
<1>2. /\ b \in Session /\ b.state = "ACTIVE"
      /\ u \in Session /\ u.state = "ACTIVE" /\ v.interval \in Nat
  BY <1>1 DEF Session
<1>3. Sound(busy) /\ busy.sessions[s] = b /\ Sound(undone)
  <2> HIDE DEF b, u
  <2> QED BY <1>1, <1>2, SetSessionSound
<1>4. Sound(going)
  <2>1. busy.sessions[s].state # "IDLE"
    <3> HIDE DEF busy, b
    <3> QED BY <1>2, <1>3
  <2> HIDE DEF busy, v
  <2> QED BY <1>2, <1>3, <2>1, ScheduleEventSound DEF EventTypes
<1>5. << >> \in OptPacket BY DEF OptPacket
<1>6. StartTransfer(d, s, m) = IF CanSchedule(d) THEN Result(going, << >>, << >>, 0)
                               ELSE Result(undone, << >>, << >>, -1)
  BY DEF StartTransfer
<1> HIDE DEF going, undone
<1> QED BY <1>3, <1>4, <1>5, <1>6, DataResultTyped

(* DATA_MESSAGE_SND, on each of its return paths.                          *)
LEMMA DataMessageSendOK ==
  ASSUME NEW d, Sound(d), NEW s \in Sid, NEW m \in Msg
  PROVE  ResultOK(HandleDataMessageSend(d, s, m))
<1> DEFINE v == d.sessions[s]
<1> DEFINE w == [v EXCEPT !.last_data = m]
<1> DEFINE d1 == SetSession(d, s, w)
<1>1. v \in Session BY SessionOf DEF Sound
<1>2. v.tx_count \in Nat BY <1>1 DEF Session
<1>3. /\ ResultOK(RefuseData(d, s, m, "ERROR_REJECTED", 0))
      /\ ResultOK(RefuseData(d, s, m, "ERROR_ONGOING", v.tx_count))
      /\ ResultOK(ReportTransfer(d, s, m, "REPETITION_OK"))
  <2> HIDE DEF v
  <2> QED BY <1>2, RefuseDataOK, ReportTransferOK DEF Codes
<1>4. v.state = "ACTIVE" => ResultOK(ReportTransfer(d1, s, m, "OK"))
  <2>1. w \in Session /\ w.state = v.state BY <1>1 DEF Session
  <2>2. v.state = "ACTIVE" => Sound(d1)
    <3> HIDE DEF w
    <3> QED BY <2>1, SetSessionSound DEF Allocated
  <2> HIDE DEF d1
  <2> QED BY <2>2, ReportTransferOK DEF Codes
<1>5. v.state = "ACTIVE" => ResultOK(StartTransfer(d, s, m))
  BY StartTransferOK DEF Active
<1>6. HandleDataMessageSend(d, s, m) =
        IF v.state # "ACTIVE" THEN RefuseData(d, s, m, "ERROR_REJECTED", 0)
        ELSE IF v.in_progress THEN RefuseData(d, s, m, "ERROR_ONGOING", v.tx_count)
        ELSE IF v.last_data = m THEN ReportTransfer(d, s, m, "REPETITION_OK")
        ELSE IF v.repetition = 0 THEN ReportTransfer(d1, s, m, "OK")
        ELSE StartTransfer(d, s, m)
  BY DEF HandleDataMessageSend
<1> HIDE DEF v, d1
<1> QED BY <1>3, <1>4, <1>5, <1>6

-----------------------------------------------------------------------------
(* The engine functions.                                                   *)

(* Moving the pending notifications respects the outbound queue, lossy or  *)
(* not.                                                                    *)
LEMMA FlushOK ==
  ASSUME NEW d, Sound(d), NEW out, QueueOK(out)
  PROVE  LET f == FlushDeviceNotifications(d, out)
         IN  /\ EngineOK(f)
             /\ f.dev.sessions = d.sessions /\ f.dev.events = d.events
<1> DEFINE room == MAX_OUTBOUND_PACKETS - Len(out)
<1> DEFINE q == d.pending
<1> DEFINE n == Len(q)
<1>1. /\ q \in Seq(Packet) /\ n \in Nat /\ n <= MAX_PENDING_NOTIFICATIONS
      /\ out \in Seq(Packet) /\ Len(out) \in Nat /\ room \in Nat
      /\ \A i \in 1 .. n : q[i] \in Packet
  <2>1. q \in Seq(Packet) /\ n <= MAX_PENDING_NOTIFICATIONS
    BY DEF Sound, DeviceOK, DeviceState
  <2>2. n \in Nat /\ \A i \in 1 .. n : q[i] \in Packet BY <2>1, LenProperties, ElementOfSeq
  <2>3. out \in Seq(Packet) /\ Len(out) \in Nat /\ Len(out) <= MAX_OUTBOUND_PACKETS
    BY LenProperties DEF QueueOK
  <2> QED BY <2>1, <2>2, <2>3, OutboundAssumption
<1>2. ASSUME NEW p \in Seq(Packet), Len(p) <= n, NEW lost \in BOOLEAN
      PROVE  LET d2 == [d EXCEPT !.pending = p, !.lost = lost]
             IN  Sound(d2) /\ d2.sessions = d.sessions /\ d2.events = d.events
  <2> DEFINE d2 == [d EXCEPT !.pending = p, !.lost = lost]
  <2>1. d2 \in DeviceState BY DEF Sound, DeviceOK, DeviceState
  <2>2. /\ d2.sessions = d.sessions /\ d2.events = d.events /\ d2.pending = p
    BY DEF Sound, DeviceOK, DeviceState
  <2>3. Len(p) <= MAX_PENDING_NOTIFICATIONS
    <3>1. Len(p) \in Nat BY LenProperties
    <3> QED BY <1>1, <1>2, <3>1, SizesAssumption
  <2> HIDE DEF d2
  <2>4. Sound(d2)
    BY <2>1, <2>2, <2>3 DEF Sound, DeviceOK, Allocated, QuietWhenIdle
  <2> QED BY <2>2, <2>4 DEF d2
<1>3. CASE ShouldDefer
  BY <1>3 DEF FlushDeviceNotifications, Engine, EngineOK
<1>4. CASE ~ShouldDefer /\ n <= room
  <2> DEFINE d2 == [d EXCEPT !.pending = << >>, !.lost = d.lost]
  <2>1. d2 = [d EXCEPT !.pending = << >>] BY DEF Sound, DeviceOK, DeviceState
  <2>2. << >> \in Seq(Packet) /\ Len(<< >>) <= n BY <1>1, EmptySeq
  <2>3. Sound(d2) /\ d2.sessions = d.sessions /\ d2.events = d.events
    <3>1. d.lost \in BOOLEAN BY DEF Sound, DeviceOK, DeviceState
    <3> QED BY <1>2, <2>2, <3>1
  <2>4. out \o q \in Seq(Packet) /\ Len(out \o q) = Len(out) + n
    BY <1>1, ConcatProperties
  <2>5. QueueOK(out \o q) BY <1>1, <1>4, <2>4, OutboundAssumption DEF QueueOK
  <2>6. FlushDeviceNotifications(d, out) = Engine(d2, out \o q, 0)
    BY <1>4, <2>1 DEF FlushDeviceNotifications
  <2> HIDE DEF d2
  <2> QED BY <2>3, <2>5, <2>6 DEF Engine, EngineOK
<1>5. CASE ~ShouldDefer /\ ~(n <= room)
  <2> DEFINE p == SubSeq(q, room + 2, n)
  <2> DEFINE h == SubSeq(q, 1, room)
  <2> DEFINE d2 == [d EXCEPT !.pending = p, !.lost = TRUE]
  <2>1. p \in Seq(Packet) /\ Len(p) <= n
    <3>1. room + 2 \in Int /\ n \in Int /\ \A i \in room + 2 .. n : q[i] \in Packet
      <4> HIDE DEF room, n, q
      <4> QED BY <1>1
    <3>2. p \in Seq(Packet) /\ Len(p) = IF room + 2 <= n THEN n - (room + 2) + 1 ELSE 0
      <4> HIDE DEF room, n, q
      <4> QED BY <3>1, SubSeqProperties
    <3> HIDE DEF room, n, q, p
    <3> QED BY <1>1, <3>2
  <2>2. h \in Seq(Packet) /\ Len(h) = room
    <3>1. \A i \in 1 .. room : q[i] \in Packet
      <4> HIDE DEF room, n, q
      <4> QED BY <1>1, <1>5
    <3>2. h \in Seq(Packet) /\ Len(h) = IF 1 <= room THEN room - 1 + 1 ELSE 0
      <4> HIDE DEF room, n, q
      <4> QED BY <1>1, <3>1, SubSeqProperties
    <3> HIDE DEF room, h
    <3> QED BY <1>1, <3>2
  <2>3. Sound(d2) /\ d2.sessions = d.sessions /\ d2.events = d.events
    <3> HIDE DEF p
    <3> QED BY <1>2, <2>1
  <2>4. out \o h \in Seq(Packet) /\ Len(out \o h) = Len(out) + Len(h)
    <3> HIDE DEF h
    <3> QED BY <1>1, <2>2, ConcatProperties
  <2>5. QueueOK(out \o h)
    <3>1. Len(out) + room = MAX_OUTBOUND_PACKETS BY <1>1, OutboundAssumption
    <3> HIDE DEF h, room
    <3> QED BY <2>2, <2>4, <3>1, OutboundAssumption DEF QueueOK
  <2>6. FlushDeviceNotifications(d, out) = Engine(d2, out \o h, 0)
    BY <1>5 DEF FlushDeviceNotifications
  <2> HIDE DEF d2, h
  <2> QED BY <2>3, <2>5, <2>6 DEF Engine, EngineOK
<1> QED BY <1>3, <1>4, <1>5

(* A further event is scheduled for an ACTIVE session only.                *)
LEMMA ContinueOK ==
  ASSUME NEW d, Sound(d), NEW out, QueueOK(out), NEW type \in EventTypes,
         NEW s \in Sid, NEW goesOn \in BOOLEAN, goesOn => Active(d, s)
  PROVE  EngineOK(Continue(d, out, type, s, goesOn))
<1> DEFINE f == FlushDeviceNotifications(d, out)
<1> DEFINE ms == d.sessions[s].interval
<1>1. EngineOK(f) /\ f.dev.sessions = d.sessions BY FlushOK
<1>2. ms \in Nat
  <2>1. d.sessions[s] \in Session BY SessionOf DEF Sound
  <2> QED BY <2>1 DEF Session
<1>3. CASE ~goesOn BY <1>1, <1>3 DEF Continue
<1>4. CASE goesOn
  <2> DEFINE d2 == ScheduleEvent(f.dev, type, s, ms)
  <2>1. Sound(d2)
    <3> HIDE DEF f, ms
    <3> QED BY <1>1, <1>2, <1>4, ScheduleEventSound DEF EngineOK, Active
  <2>2. Continue(d, out, type, s, goesOn) =
          Engine(d2, f.out, IF CanSchedule(f.dev) THEN 0 ELSE -1)
    BY <1>4 DEF Continue
  <2> HIDE DEF d2, f
  <2> QED BY <1>1, <2>1, <2>2 DEF Engine, EngineOK
<1> QED BY <1>3, <1>4

(* Serving a ready event, also one whose session is gone or was stopped.   *)
LEMMA ProcessReadyEventOK ==
  ASSUME NEW d, Sound(d), NEW out, QueueOK(out), NEW e, e.sid \in Sid,
         NEW hit \in BOOLEAN
  PROVE  EngineOK(ProcessReadyEvent(d, out, e, hit))
<1> DEFINE s == e.sid
<1>0. EngineOK(Engine(d, out, 0)) BY DEF Engine, EngineOK
<1>1. EngineOK(ProcessRangeData(d, out, s, hit))
  <2> DEFINE o == EmitRangingStream(d, s, hit)
  <2> DEFINE v == o.dev.sessions[s]
  <2> DEFINE goesOn == v.stream_remaining > 0 /\ v.state = "ACTIVE"
  <2>1. CASE s \notin Allocated(d) BY <1>0, <2>1 DEF ProcessRangeData
  <2>2. CASE s \in Allocated(d)
    <3>1. Sound(o.dev) BY <2>2, EmitRangingStreamSound
    <3>2. goesOn \in BOOLEAN /\ (goesOn => Active(o.dev, s)) BY DEF Active
    <3>3. EngineOK(Continue(o.dev, out, "RANGE_DATA", s, goesOn))
      <4> HIDE DEF o, goesOn
      <4> QED BY <3>1, <3>2, ContinueOK DEF EventTypes
    <3>4. EngineOK(Engine(o.dev, out, -1)) BY <3>1 DEF Engine, EngineOK
    <3>5. ProcessRangeData(d, out, s, hit) =
            IF ~o.ok THEN Engine(o.dev, out, -1)
            ELSE Continue(o.dev, out, "RANGE_DATA", s, goesOn)
      BY <2>2 DEF ProcessRangeData
    <3> HIDE DEF o, goesOn
    <3> QED BY <3>3, <3>4, <3>5
  <2> QED BY <2>1, <2>2
<1>2. EngineOK(ProcessDataTransfer(d, out, s))
  <2> DEFINE o == ProgressDataTransfer(d, s)
  <2> DEFINE goesOn == o.dev.sessions[s].in_progress
  <2>1. CASE ~Active(d, s) \/ ~d.sessions[s].in_progress
    BY <1>0, <2>1 DEF ProcessDataTransfer
  <2>2. CASE ~(~Active(d, s) \/ ~d.sessions[s].in_progress)
    <3>1. Sound(o.dev) /\ Active(o.dev, s) BY <2>2, ProgressDataTransferSound
    <3>2. goesOn \in BOOLEAN
      <4>1. o.dev.sessions[s] \in Session
        <5> HIDE DEF o
        <5> QED BY <3>1, SessionOf DEF Sound
      <4> HIDE DEF o
      <4> QED BY <4>1 DEF Session
    <3>3. EngineOK(Continue(o.dev, out, "DATA_TRANSFER", s, goesOn))
      <4> HIDE DEF o, goesOn
      <4> QED BY <3>1, <3>2, ContinueOK DEF EventTypes
    <3>4. EngineOK(Engine(o.dev, out, -1)) BY <3>1 DEF Engine, EngineOK
    <3>5. ProcessDataTransfer(d, out, s) =
            IF ~o.ok THEN Engine(o.dev, out, -1)
            ELSE Continue(o.dev, out, "DATA_TRANSFER", s, goesOn)
      BY <2>2 DEF ProcessDataTransfer
    <3> HIDE DEF o, goesOn
    <3> QED BY <3>3, <3>4, <3>5
  <2> QED BY <2>1, <2>2
<1> QED BY <1>1, <1>2 DEF ProcessReadyEvent

(* A tick serves the first ready event, if there is one.                   *)
LEMMA EngineTickIs ==
  ASSUME NEW d, Sound(d), NEW out, NEW ms \in Nat, NEW hit
  PROVE  LET t == TickEvents(d, ms)
             x == FirstReadyEvent(t)
         IN  /\ ReadyEvents(t) = {} => EngineTick(d, out, ms, hit) = Engine(t, out, 0)
             /\ ReadyEvents(t) # {} =>
                  /\ x \in ReadyEvents(t) /\ x \in t.events /\ x \in Event
                  /\ \A f \in ReadyEvents(t) : x.pos <= f.pos
                  /\ EngineTick(d, out, ms, hit) =
                       ProcessReadyEvent(RemoveEvent(t, x), out, x, hit)
<1> DEFINE t == TickEvents(d, ms)
<1> DEFINE R == ReadyEvents(t)
<1> DEFINE x == FirstReadyEvent(t)
<1> DEFINE serve == [e \in R |-> ProcessReadyEvent(RemoveEvent(t, e), out, e, hit)]
<1>1. EngineTick(d, out, ms, hit) = IF R = {} THEN Engine(t, out, 0) ELSE serve[x]
  BY DEF EngineTick
<1>2. DeviceOK(t) BY TickEventsType DEF Sound
<1> HIDE DEF t
<1>3. R \in SUBSET t.events /\ t.events \subseteq Event /\ IsFiniteSet(t.events)
  BY <1>2 DEF ReadyEvents, DeviceOK, DeviceState
<1>4. R # {} => x \in R /\ \A f \in R : x.pos <= f.pos
  <2> SUFFICES ASSUME R # {} PROVE x \in R /\ \A f \in R : x.pos <= f.pos OBVIOUS
  <2>1. \E e \in R : \A f \in R : e.pos <= f.pos
    <3>1. R \subseteq Event /\ IsFiniteSet(R) BY <1>3, FS_Subset
    <3> HIDE DEF R
    <3> QED BY <3>1, FirstReady
  <2> QED BY <2>1 DEF FirstReadyEvent
<1> HIDE DEF R, x
<1>5. R # {} => serve[x] = ProcessReadyEvent(RemoveEvent(t, x), out, x, hit) BY <1>4
<1>6. R # {} => x \in t.events /\ x \in Event BY <1>3, <1>4
<1> HIDE DEF serve
<1> QED BY <1>1, <1>4, <1>5, <1>6 DEF t, R, x

(* uci_sim_engine_tick.                                                    *)
LEMMA EngineTickOK ==
  ASSUME NEW d, Sound(d), NEW out, QueueOK(out), NEW ms \in Nat, NEW hit \in BOOLEAN
  PROVE  EngineOK(EngineTick(d, out, ms, hit))
<1> DEFINE t == TickEvents(d, ms)
<1> DEFINE R == ReadyEvents(t)
<1> DEFINE e == FirstReadyEvent(t)
<1>1. /\ DeviceOK(t) /\ t.sessions = d.sessions /\ EventsFrom(t, d)
      /\ DenseSet(t.events)
  BY TickEventsType DEF Sound
<1>2. Sound(t)
  <2> HIDE DEF t
  <2> QED BY <1>1, QuietFrame DEF Sound
<1>3. CASE R = {}
  <2>1. EngineTick(d, out, ms, hit) = Engine(t, out, 0) BY <1>3, EngineTickIs
  <2> QED BY <1>2, <2>1 DEF Engine, EngineOK
<1>4. CASE R # {}
  <2> DEFINE r == RemoveEvent(t, e)
  <2>1. e \in t.events /\ e \in Event
    BY <1>4, EngineTickIs
  <2>2. EngineTick(d, out, ms, hit) = ProcessReadyEvent(r, out, e, hit)
    BY <1>4, EngineTickIs
  <2> HIDE DEF t, e
  <2>3. /\ DeviceOK(r) /\ r.sessions = t.sessions /\ EventsFrom(r, t)
        /\ DenseSet(r.events)
    BY <1>1, <2>1, RemoveEventType
  <2>4. Sound(r)
    <3> HIDE DEF r
    <3> QED BY <1>2, <2>3, QuietFrame DEF Sound
  <2>5. e.sid \in Sid BY <2>1 DEF Event
  <2> HIDE DEF r
  <2> QED BY <2>2, <2>4, <2>5, ProcessReadyEventOK
<1> QED BY <1>3, <1>4

(* Appending at most one packet, when there is room for it.                *)
LEMMA OptPacketAppend ==
  ASSUME NEW out, QueueOK(out), NEW p \in OptPacket, p # << >> => HasRoom(out)
  PROVE  QueueOK(out \o p)
<1>1. p \in Seq(Packet) /\ Len(p) <= 1 /\ (p = << >> => Len(p) = 0)
  <2>1. CASE p = << >> BY <2>1, EmptySeq
  <2>2. ASSUME NEW q \in Packet, p = <<q>>
        PROVE  p \in Seq(Packet) /\ Len(p) = 1 /\ p # << >>
    BY <2>2
  <2>3. p = << >> \/ \E q \in Packet : p = <<q>> BY DEF OptPacket
  <2>4. CASE p = << >> BY <2>1, <2>4
  <2>5. CASE \E q \in Packet : p = <<q>>
    <3>1. p \in Seq(Packet) /\ Len(p) = 1 /\ p # << >> BY <2>2, <2>5
    <3> QED BY <3>1
  <2> QED BY <2>3, <2>4, <2>5
<1>2. out \in Seq(Packet) /\ Len(out) \in Nat /\ Len(p) \in Nat
  BY <1>1, LenProperties DEF QueueOK
<1>3. out \o p \in Seq(Packet) /\ Len(out \o p) = Len(out) + Len(p)
  BY <1>1, <1>2, ConcatProperties
<1> QED BY <1>1, <1>2, <1>3, OutboundAssumption DEF QueueOK, HasRoom

(* uci_sim_engine_submit_packet, on each of its return paths.              *)
LEMMA EngineSubmitOK ==
  ASSUME NEW res, ResultOK(res), NEW out, QueueOK(out), NEW hit \in BOOLEAN
  PROVE  EngineOK(EngineSubmit(res, out, hit))
<1> DEFINE out1 == out \o res.rsp
<1> DEFINE out2 == out1 \o res.ntf
<1> DEFINE f == FlushDeviceNotifications(res.dev, out2)
<1>1. Sound(res.dev) /\ res.rsp \in OptPacket /\ res.ntf \in OptPacket
  BY DEF ResultOK, ResultTyped, ResultType, Sound
<1>2. Sound(Lose(res.dev))
  BY <1>1 DEF Lose, Sound, DeviceOK, DeviceState, QuietWhenIdle, Allocated
<1>3. CASE res.rc # 0 /\ res.rsp = << >> /\ res.ntf = << >>
  BY <1>1, <1>3 DEF EngineSubmit, Engine, EngineOK
<1>4. CASE /\ ~(res.rc # 0 /\ res.rsp = << >> /\ res.ntf = << >>)
           /\ res.rsp # << >> /\ ~HasRoom(out)
  BY <1>2, <1>4 DEF EngineSubmit, Engine, EngineOK
<1>5. CASE /\ ~(res.rc # 0 /\ res.rsp = << >> /\ res.ntf = << >>)
           /\ ~(res.rsp # << >> /\ ~HasRoom(out))
  <2>1. QueueOK(out1) BY <1>1, <1>5, OptPacketAppend
  <2>2. CASE res.ntf # << >> /\ ~HasRoom(out1)
    BY <1>2, <1>5, <2>1, <2>2 DEF EngineSubmit, Engine, EngineOK
  <2>3. CASE ~(res.ntf # << >> /\ ~HasRoom(out1))
    <3>1. QueueOK(out2)
      <4> HIDE DEF out1
      <4> QED BY <1>1, <2>1, <2>3, OptPacketAppend
    <3>2. EngineOK(f)
      <4> HIDE DEF out2
      <4> QED BY <1>1, <3>1, FlushOK
    <3>3. EngineSubmit(res, out, hit) = EngineTick(f.dev, f.out, 0, hit)
      BY <1>5, <2>3 DEF EngineSubmit
    <3> HIDE DEF f
    <3> QED BY <3>2, <3>3, EngineTickOK DEF EngineOK
  <2> QED BY <2>2, <2>3
<1> QED BY <1>3, <1>4, <1>5

-----------------------------------------------------------------------------
(* The inductive invariant.  IdleHasNoEvents is not inductive as it stands: *)
(* that cancelling and compacting keep the owner of each event, and that   *)
(* the event served is one of the array, rest on the types and the         *)
(* finiteness of the array; that compacting makes the array dense again    *)
(* rests on its having been dense.  The three are proved together.         *)
EngineInv == Sound(dev) /\ QueueOK(outbound)

(* Submitting a command preserves the invariant.                           *)
LEMMA SubmitCommandInv ==
  ASSUME EngineInv, NEW res, CommandOK(res), SubmitCommand(res)
  PROVE  EngineInv'
<1>1. PICK hit \in BOOLEAN :
        Apply(EngineSubmit(CommandResult(dev, res), outbound, hit))
  BY DEF SubmitCommand
<1> DEFINE r == CommandResult(dev, res)
<1>2. ResultOK(r) BY CommandResultOK DEF CommandOK
<1> HIDE DEF r
<1>3. EngineOK(EngineSubmit(r, outbound, hit))
  BY <1>2, EngineSubmitOK DEF EngineInv
<1>4. Apply(EngineSubmit(r, outbound, hit)) BY <1>1 DEF r
<1> QED BY <1>3, <1>4 DEF Apply, EngineOK, EngineInv

(* Submitting a data message preserves the invariant.                      *)
LEMMA SubmitDataInv ==
  ASSUME EngineInv, NEW res, ResultOK(res), SubmitData(res)
  PROVE  EngineInv'
<1>1. PICK hit \in BOOLEAN :
        Apply(EngineSubmit(DataResult(dev, res), outbound, hit))
  BY DEF SubmitData
<1> DEFINE r == DataResult(dev, res)
<1>2. ResultOK(r) BY FinalizeResultOK DEF DataResult
<1> HIDE DEF r
<1>3. EngineOK(EngineSubmit(r, outbound, hit))
  BY <1>2, EngineSubmitOK DEF EngineInv
<1>4. Apply(EngineSubmit(r, outbound, hit)) BY <1>1 DEF r
<1> QED BY <1>3, <1>4 DEF Apply, EngineOK, EngineInv

(* The initial state satisfies the invariant.                              *)
LEMMA InitInv == Init => EngineInv
<1> SUFFICES ASSUME Init PROVE EngineInv OBVIOUS
<1>1. Sound([InitDevice EXCEPT !.lost = FALSE]) BY InitDeviceSound
<1>2. InitDevice = [InitDevice EXCEPT !.lost = FALSE]
  <2>1. InitDevice \in DeviceState /\ InitDevice.lost = FALSE
    BY SessionTypes, EmptySeq DEF InitDevice, DeviceState
  <2> QED BY <2>1 DEF DeviceState
<1>3. QueueOK(<< >>) BY EmptySeq, OutboundAssumption DEF QueueOK
<1> QED BY <1>1, <1>2, <1>3 DEF Init, EngineInv

(* Every packet the host may send preserves the invariant.                 *)
LEMMA HostPacketInv ==
  ASSUME EngineInv, HostPacket
  PROVE  EngineInv'
<1>1. Sound(dev) BY DEF EngineInv
<1>2. CASE DeviceReset
  BY <1>1, <1>2, DeviceResetOK, SubmitCommandInv DEF DeviceReset
<1>3. ASSUME NEW s \in Sid, SessionInit(s) PROVE EngineInv'
  BY <1>1, <1>3, SessionInitOK, SubmitCommandInv DEF SessionInit
<1>4. ASSUME NEW s \in Sid, SessionDeinit(s) PROVE EngineInv'
  BY <1>1, <1>4, SessionDeinitOK, SubmitCommandInv DEF SessionDeinit
<1>5. ASSUME NEW s \in Sid, SessionStart(s) PROVE EngineInv'
  <2>1. PICK verdict \in StartVerdicts : SubmitCommand(HandleSessionStart(dev, s, verdict))
    BY <1>5 DEF SessionStart
  <2>2. verdict \in Verdicts BY InputAssumption
  <2> QED BY <1>1, <2>1, <2>2, SessionStartOK, SubmitCommandInv
<1>6. ASSUME NEW s \in Sid, SessionStop(s) PROVE EngineInv'
  BY <1>1, <1>6, SessionStopOK, SubmitCommandInv DEF SessionStop
<1>7. ASSUME NEW s \in Sid, Query(s) PROVE EngineInv'
  BY <1>1, <1>7, QueryOK, SubmitCommandInv DEF Query
<1>8. ASSUME NEW s \in Sid, NEW t \in Tlvs, NEW bad \in BOOLEAN, SetAppConfig(s, t, bad)
      PROVE  EngineInv'
  BY <1>1, <1>8, SetAppConfigOK, SubmitCommandInv DEF SetAppConfig
<1>9. ASSUME NEW code \in RefusalCodes, RefusedCommand(code) PROVE EngineInv'
  <2>1. code \in Codes BY InputAssumption
  <2>2. CommandOK(HandleRefused(dev, code)) BY <1>1, <2>1, RefuseOK DEF HandleRefused
  <2> QED BY <1>9, <2>2, SubmitCommandInv DEF RefusedCommand
<1>10. ASSUME NEW s \in Sid, NEW m \in Msg, DataMessageSend(s, m) PROVE EngineInv'
  BY <1>1, <1>10, DataMessageSendOK, SubmitDataInv DEF DataMessageSend
<1>11. ASSUME NEW s \in Sid, NEW m \in BadMsg, BadDataLength(s, m) PROVE EngineInv'
  <2>1. ResultOK(HandleBadDataLength(dev, s, m))
    BY <1>1, RefuseDataOK DEF BadMsg, HandleBadDataLength, Codes
  <2> QED BY <1>11, <2>1, SubmitDataInv DEF BadDataLength
<1>12. CASE MalformedData
  <2>1. << >> \in OptPacket BY DEF OptPacket
  <2>2. ResultOK(HandleMalformedData(dev))
    BY <1>1, <2>1, DataResultTyped DEF HandleMalformedData
  <2> QED BY <1>12, <2>2, SubmitDataInv DEF MalformedData
<1> QED BY <1>2, <1>3, <1>4, <1>5, <1>6, <1>7, <1>8, <1>9, <1>10, <1>11, <1>12
       DEF HostPacket

(* Every call of the engine preserves the invariant.                       *)
LEMMA NextInv == EngineInv /\ [Next]_engineVars => EngineInv'
<1> SUFFICES ASSUME EngineInv, [Next]_engineVars PROVE EngineInv' OBVIOUS
<1>1. CASE HostPacket BY <1>1, HostPacketInv
<1>2. ASSUME NEW ms \in Elapsed, Tick(ms) PROVE EngineInv'
  <2>1. PICK hit \in BOOLEAN : Apply(EngineTick(dev, outbound, ms, hit))
    BY <1>2 DEF Tick
  <2>2. EngineOK(EngineTick(dev, outbound, ms, hit))
    BY InputAssumption, EngineTickOK DEF EngineInv
  <2> QED BY <2>1, <2>2 DEF Apply, EngineOK, EngineInv
<1>3. CASE DequeueOutbound
  <2>1. outbound \in Seq(Packet) /\ outbound # << >> BY <1>3 DEF DequeueOutbound, EngineInv, QueueOK
  <2>2. /\ Tail(outbound) \in Seq(Packet) /\ Len(Tail(outbound)) = Len(outbound) - 1
        /\ Len(outbound) \in Nat
    BY <2>1, HeadTailProperties, LenProperties
  <2> QED BY <1>3, <2>2, OutboundAssumption DEF DequeueOutbound, EngineInv, QueueOK
<1>4. CASE UNCHANGED engineVars BY <1>4 DEF engineVars, EngineInv
<1> QED BY <1>1, <1>2, <1>3, <1>4 DEF Next

(* The types, the bounds and the quiet of IDLE sessions hold in every      *)
(* state that any sequence of calls of the engine reaches.                 *)
THEOREM InvHolds == Spec => []EngineInv
BY InitInv, NextInv, PTL DEF Spec

(* Whatever the order in which the host's packets, the ticks and the       *)
(* dequeues arrive, the session table, the pending queue, the scheduled    *)
(* events and the outbound queue stay typed and within their capacity, for *)
(* every capacity.                                                         *)
THEOREM TypeCorrect == Spec => []TypeOK
<1>1. EngineInv => TypeOK BY DEF EngineInv, Sound, TypeOK
<1> QED BY <1>1, InvHolds, PTL

(* A session in IDLE never has a scheduled event.                          *)
THEOREM IdleQuiet == Spec => []IdleHasNoEvents
<1>1. EngineInv => IdleHasNoEvents BY DEF EngineInv, Sound, IdleHasNoEvents
<1> QED BY <1>1, InvHolds, PTL
=============================================================================
