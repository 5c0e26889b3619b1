------------------------------ MODULE FoldProofs ------------------------------
(***************************************************************************)
(* Induction, and the folds of the community modules.  An induction is the *)
(* least element of the set of counterexamples, so the property is given   *)
(* as a set and no theorem takes an operator as its parameter.             *)
(***************************************************************************)
EXTENDS Integers, SequencesExt, SequenceTheorems, WellFoundedInduction, TLAPS

(* Every set of naturals has a least element.                              *)
LEMMA Least ==
  ASSUME NEW S, S \subseteq Nat, S # {}
  PROVE  \E n \in S : \A m \in S : n <= m
<1>1. PICK n \in S : \A m \in S : ~ (<<m, n>> \in OpToRel(<, Nat))
  BY NatLessThanWellFounded, WFMin
<1>2. \A m \in S : ~ (m < n) BY <1>1 DEF OpToRel
<1> QED BY <1>2

(* Induction up to n, for the numbers in S.                                *)
LEMMA Climb ==
  ASSUME NEW n \in Nat, NEW S, 0 \in S,
         \A k \in 1 .. n : k - 1 \in S => k \in S
  PROVE  \A k \in 0 .. n : k \in S
<1> DEFINE Bad == {k \in 0 .. n : k \notin S}
<1> SUFFICES ASSUME Bad # {} PROVE FALSE OBVIOUS
<1>1. Bad \subseteq Nat OBVIOUS
<1>2. PICK k \in Bad : \A m \in Bad : k <= m
  <2> HIDE DEF Bad
  <2> QED BY <1>1, Least
<1>3. k \in 1 .. n /\ k \notin S BY <1>2
<1>4. k - 1 \in 0 .. n /\ k - 1 < k BY <1>3
<1>5. k - 1 \in S BY <1>2, <1>3, <1>4
<1> QED BY <1>3, <1>5

(* The largest member of a set of positions.                               *)
LEMMA MaxOf ==
  ASSUME NEW n \in Nat, NEW s \in SUBSET (1 .. n), s # {}
  PROVE  Max(s) \in s /\ \A x \in s : x <= Max(s)
<1> DEFINE S == {n - x : x \in s}
<1>1. S \subseteq Nat /\ S # {}
  <2>1. \A x \in 1 .. n : n - x \in Nat OBVIOUS
  <2> QED BY <2>1
<1>2. PICK y \in S : \A m \in S : y <= m
  <2> HIDE DEF S
  <2> QED BY <1>1, Least
<1>3. PICK x \in s : y = n - x BY <1>2
<1>4. \A z \in s : x >= z
  <2> TAKE z \in s
  <2>1. n - x <= n - z BY <1>2, <1>3
  <2> QED BY <2>1
<1>5. Max(s) \in s /\ \A z \in s : Max(s) >= z BY <1>3, <1>4 DEF Max
<1> QED BY <1>5

LEMMA MaxInterval ==
  ASSUME NEW n \in Nat, NEW k \in 1 .. n
  PROVE  Max(1 .. k) = k
<1>1. 1 .. k \in SUBSET (1 .. n) /\ 1 .. k # {} /\ k \in 1 .. k OBVIOUS
<1>2. Max(1 .. k) \in 1 .. k /\ k <= Max(1 .. k) BY <1>1, MaxOf
<1> DEFINE m == Max(1 .. k)
<1> HIDE DEF m
<1>3. m \in 1 .. k /\ k <= m BY <1>2 DEF m
<1>4. m = k BY <1>3
<1> QED BY <1>4 DEF m

LEMMA PrefixIntervals ==
  ASSUME NEW n \in Nat, NEW k \in 1 .. n
  PROVE  1 .. k \in SUBSET (1 .. n) /\ 1 .. k # {} /\ (1 .. k) \ {k} = 1 .. k - 1
<1>1. k \in 1 .. k /\ \A x \in 1 .. k : x \in 1 .. n OBVIOUS
<1>2. \A x : x \in (1 .. k) \ {k} <=> x \in 1 .. k - 1 OBVIOUS
<1>3. (1 .. k) \ {k} = 1 .. k - 1 BY <1>2
<1> QED BY <1>1, <1>3

(* MapThenFoldSet is a recursive function on the subsets of its domain.    *)
(* When the operator maps A and B to A it exists: F is the operator there. *)
Folding(g, A, F, base, seq) ==
  /\ g \in [SUBSET (1 .. Len(seq)) -> A]
  /\ \A s \in SUBSET (1 .. Len(seq)) :
       g[s] = IF s = {} THEN base ELSE F[<<g[s \ {Max(s)}], seq[Max(s)]>>]
LEMMA FoldExists ==
  ASSUME NEW A, NEW B, NEW F \in [A \X B -> A], NEW base \in A, NEW seq \in Seq(B)
  PROVE  \E g : Folding(g, A, F, base, seq)
<1> DEFINE n == Len(seq)
<1> DEFINE Up(g, k) ==
      /\ g \in [SUBSET (1 .. k) -> A]
      /\ \A s \in SUBSET (1 .. k) :
           g[s] = IF s = {} THEN base ELSE F[<<g[s \ {Max(s)}], seq[Max(s)]>>]
<1> DEFINE S == {k \in 0 .. n : \E g : Up(g, k)}
<1>1. n \in Nat /\ \A k \in 1 .. n : seq[k] \in B BY LenProperties, ElementOfSeq
<1> HIDE DEF n
<1>2. 0 \in S
  <2> DEFINE g == [s \in SUBSET (1 .. 0) |-> base]
  <2>1. \A s \in SUBSET (1 .. 0) : s = {} OBVIOUS
  <2>2. Up(g, 0) BY <2>1
  <2> HIDE DEF Up, g
  <2> QED BY <1>1, <2>2
<1>3. ASSUME NEW k \in 1 .. n, k - 1 \in S PROVE k \in S
  <2>1. PICK g : Up(g, k - 1) BY <1>3
  <2> DEFINE D == SUBSET (1 .. k)
  <2> DEFINE h == [s \in D |-> IF k \in s THEN F[<<g[s \ {k}], seq[k]>>] ELSE g[s]]
  <2>2. \A s \in D : k \notin s => s \in SUBSET (1 .. k - 1) BY <1>1, <1>3
  <2>3. \A s \in D : s \ {k} \in SUBSET (1 .. k - 1) BY <1>1, <1>3
  <2>4. \A s \in D : k \notin s => g[s] \in A BY <2>1, <2>2
  <2>5. \A s \in D : F[<<g[s \ {k}], seq[k]>>] \in A
    <3> TAKE s \in D
    <3>1. g[s \ {k}] \in A BY <2>1, <2>3
    <3>2. seq[k] \in B BY <1>1
    <3> QED BY <3>1, <3>2
  <2>6. h \in [D -> A] BY <2>4, <2>5
  <2>7. ASSUME NEW s \in D
        PROVE  h[s] = IF s = {} THEN base ELSE F[<<h[s \ {Max(s)}], seq[Max(s)]>>]
    <3>1. CASE k \in s
      <4>1. Max(s) = k
        <5>1. k \in Nat /\ s \in SUBSET (1 .. k) /\ s # {} BY <1>1, <3>1
        <5>2. Max(s) \in s /\ k <= Max(s) BY <3>1, <5>1, MaxOf
        <5> DEFINE m == Max(s)
        <5> HIDE DEF m
        <5>3. m \in 1 .. k /\ k <= m BY <5>1, <5>2 DEF m
        <5>4. m = k BY <5>1, <5>3
        <5> QED BY <5>4 DEF m
      <4>2. h[s] = F[<<g[s \ {k}], seq[k]>>] BY <3>1
      <4>3. h[s \ {k}] = g[s \ {k}] OBVIOUS
      <4> QED BY <3>1, <4>1, <4>2, <4>3
    <3>2. CASE k \notin s
      <4>1. h[s] = g[s] /\ h[s \ {Max(s)}] = g[s \ {Max(s)}] BY <3>2
      <4>2. s \in SUBSET (1 .. k - 1) BY <2>2, <3>2
      <4> QED BY <2>1, <4>1, <4>2
    <3> QED BY <3>1, <3>2
  <2>8. Up(h, k)
    <3> HIDE DEF h
    <3> QED BY <2>6, <2>7
  <2> HIDE DEF Up
  <2> QED BY <1>1, <2>8
<1>4. \A k \in 0 .. n : k \in S
  <2> HIDE DEF S
  <2> QED BY <1>1, <1>2, <1>3, Climb
<1>5. n \in S
  <2> HIDE DEF S
  <2> QED BY <1>1, <1>4
<1>6. PICK g : Up(g, n)
  <2> HIDE DEF Up
  <2> QED BY <1>5
<1> QED BY <1>6 DEF n, Folding

(* FlattenSeq is a recursive function on the positions of its argument.    *)
Flattening(f, seqs, B) ==
  /\ f \in [1 .. Len(seqs) -> Seq(B)]
  /\ \A i \in 1 .. Len(seqs) :
       f[i] = IF i = 1 THEN seqs[i] ELSE f[i - 1] \o seqs[i]

LEMMA FlattenExists ==
  ASSUME NEW B, NEW seqs \in Seq(Seq(B))
  PROVE  \E f : Flattening(f, seqs, B)
<1> DEFINE n == Len(seqs)
<1> DEFINE Up(f, k) ==
      /\ f \in [1 .. k -> Seq(B)]
      /\ \A i \in 1 .. k : f[i] = IF i = 1 THEN seqs[i] ELSE f[i - 1] \o seqs[i]
<1> DEFINE S == {k \in 0 .. n : \E f : Up(f, k)}
<1>1. n \in Nat /\ \A k \in 1 .. n : seqs[k] \in Seq(B) BY LenProperties, ElementOfSeq
<1> HIDE DEF n
<1>2. 0 \in S
  <2> DEFINE f == [i \in 1 .. 0 |-> << >>]
  <2>1. Up(f, 0) OBVIOUS
  <2> HIDE DEF Up, f
  <2> QED BY <1>1, <2>1
<1>3. ASSUME NEW k \in 1 .. n, k - 1 \in S PROVE k \in S
  <2>1. PICK f : Up(f, k - 1) BY <1>3
  <2> DEFINE v == IF k = 1 THEN seqs[k] ELSE f[k - 1] \o seqs[k]
  <2>2. v \in Seq(B)
    <3>1. seqs[k] \in Seq(B) BY <1>1
    <3>2. k # 1 => f[k - 1] \in Seq(B) BY <1>1, <2>1
    <3>3. k # 1 => f[k - 1] \o seqs[k] \in Seq(B) BY <3>1, <3>2, ConcatProperties
    <3> QED BY <3>1, <3>3
  <2> DEFINE h == [i \in 1 .. k |-> IF i = k THEN v ELSE f[i]]
  <2>3. \A i \in 1 .. k : i # k => i \in 1 .. k - 1 BY <1>1
  <2>4. h \in [1 .. k -> Seq(B)]
    <3> HIDE DEF v
    <3> QED BY <2>1, <2>2, <2>3
  <2>5. \A i \in 1 .. k : i # 1 => h[i - 1] = f[i - 1] BY <1>1
  <2>6. \A i \in 1 .. k : h[i] = IF i = 1 THEN seqs[i] ELSE h[i - 1] \o seqs[i]
    <3> TAKE i \in 1 .. k
    <3>1. CASE i = k BY <2>5, <3>1
    <3>2. CASE i # k
      <4>1. h[i] = f[i] BY <3>2
      <4> HIDE DEF h
      <4> QED BY <2>1, <2>3, <2>5, <3>2, <4>1
    <3> QED BY <3>1, <3>2
  <2>7. Up(h, k)
    <3> HIDE DEF h
    <3> QED BY <2>4, <2>6
  <2> HIDE DEF Up
  <2> QED BY <1>1, <2>7
<1>4. \A k \in 0 .. n : k \in S
  <2> HIDE DEF S
  <2> QED BY <1>1, <1>2, <1>3, Climb
<1>5. n \in S
  <2> HIDE DEF S
  <2> QED BY <1>1, <1>4
<1>6. PICK f : Up(f, n)
  <2> HIDE DEF Up
  <2> QED BY <1>5
<1> QED BY <1>6 DEF n, Flattening

(* What FlattenSeq returns: the value of that function at the last         *)
(* position.                                                               *)
LEMMA FlattenIs ==
  ASSUME NEW B, NEW seqs \in Seq(Seq(B)), NEW f, Flattening(f, seqs, B)
  PROVE  /\ Len(seqs) = 0 => FlattenSeq(seqs) = << >>
         /\ Len(seqs) # 0 => FlattenSeq(seqs) = f[Len(seqs)]
         /\ FlattenSeq(seqs) \in Seq(B)
<1> DEFINE n == Len(seqs)
<1> DEFINE Fix(g) == g = [i \in 1 .. n |->
                            IF i = 1 THEN seqs[i] ELSE g[i - 1] \o seqs[i]]
<1> DEFINE c == CHOOSE g : Fix(g)
<1>1. n \in Nat BY LenProperties
<1>2. CASE n = 0
  <2>1. seqs = << >> BY <1>2, EmptySeq
  <2>2. FlattenSeq(seqs) = << >> BY <1>2, <2>1 DEF FlattenSeq
  <2> QED BY <1>2, <2>2, EmptySeq
<1>3. CASE n # 0
  <2>1. FlattenSeq(seqs) = c[n] BY <1>3 DEF FlattenSeq
  <2>2. Fix(f)
    <3>1. /\ f \in [1 .. n -> Seq(B)]
          /\ \A i \in 1 .. n : f[i] = IF i = 1 THEN seqs[i] ELSE f[i - 1] \o seqs[i]
      BY DEF Flattening
    <3> HIDE DEF n
    <3> QED BY <3>1
  <2>3. Fix(c)
    <3> HIDE DEF Fix
    <3> QED BY <2>2
  <2> HIDE DEF c
  <2>4. \A i \in 1 .. n : c[i] = IF i = 1 THEN seqs[i] ELSE c[i - 1] \o seqs[i]
    <3> HIDE DEF n
    <3> QED BY <2>3
  <2> DEFINE S == {k \in 0 .. n : k # 0 => f[k] = c[k]}
  <2>5. /\ f \in [1 .. n -> Seq(B)]
        /\ \A i \in 1 .. n : f[i] = IF i = 1 THEN seqs[i] ELSE f[i - 1] \o seqs[i]
    BY DEF Flattening
  <2> HIDE DEF n
  <2>6. 0 \in S BY <1>1
  <2>7. ASSUME NEW k \in 1 .. n, k - 1 \in S PROVE k \in S
    <3>1. k # 1 => f[k - 1] = c[k - 1] BY <1>1, <2>7
    <3>2. f[k] = c[k] BY <2>4, <2>5, <3>1
    <3> QED BY <1>1, <3>2
  <2>8. \A k \in 0 .. n : k \in S
    <3> HIDE DEF S
    <3> QED BY <1>1, <2>6, <2>7, Climb
  <2>9. n \in 1 .. n BY <1>1, <1>3
  <2>10. f[n] = c[n] /\ f[n] \in Seq(B) BY <1>1, <2>5, <2>8, <2>9
  <2> QED BY <1>3, <2>1, <2>10 DEF n
<1> QED BY <1>2, <1>3

LEMMA FlattenTyped ==
  ASSUME NEW B, NEW seqs \in Seq(Seq(B))
  PROVE  FlattenSeq(seqs) \in Seq(B)
BY FlattenExists, FlattenIs

(* One more sequence at the end.                                           *)
LEMMA FlattenSnoc ==
  ASSUME NEW B, NEW s \in Seq(Seq(B)), NEW t \in Seq(Seq(B)),
         Len(t) = Len(s) + 1, \A i \in 1 .. Len(s) : t[i] = s[i]
  PROVE  FlattenSeq(t) = FlattenSeq(s) \o t[Len(t)]
<1> DEFINE n == Len(s)
<1>1. n \in Nat /\ Len(t) = n + 1 BY LenProperties
<1>2. PICK f : Flattening(f, t, B) BY FlattenExists
<1>3. /\ f \in [1 .. n + 1 -> Seq(B)]
      /\ \A i \in 1 .. n + 1 : f[i] = IF i = 1 THEN t[i] ELSE f[i - 1] \o t[i]
  BY <1>1, <1>2 DEF Flattening
<1>4. FlattenSeq(t) = f[n + 1] BY <1>1, <1>2, FlattenIs
<1>5. \A i \in 1 .. n : t[i] = s[i] OBVIOUS
<1>6. CASE n = 0
  <2>1. FlattenSeq(s) = << >> BY <1>6, FlattenExists, FlattenIs
  <2>2. f[n + 1] = t[n + 1] BY <1>3, <1>6
  <2>3. f[n + 1] \in Seq(B) BY <1>3, <1>6
  <2>4. << >> \o f[n + 1] = f[n + 1] BY <2>3, ConcatEmptySeq
  <2> QED BY <1>1, <1>4, <2>1, <2>2, <2>4
<1>7. CASE n # 0
  <2> DEFINE g == [i \in 1 .. n |-> f[i]]
  <2>1. g \in [1 .. n -> Seq(B)]
    <3>1. \A i \in 1 .. n : i \in 1 .. n + 1 BY <1>1
    <3> HIDE DEF n
    <3> QED BY <1>3, <3>1
  <2>2. \A i \in 1 .. n : g[i] = IF i = 1 THEN s[i] ELSE g[i - 1] \o s[i]
    <3> TAKE i \in 1 .. n
    <3>1. i \in 1 .. n + 1 /\ (i # 1 => i - 1 \in 1 .. n) BY <1>1
    <3>2. g[i] = f[i] /\ (i # 1 => g[i - 1] = f[i - 1]) BY <3>1
    <3> HIDE DEF g
    <3> QED BY <1>3, <1>5, <3>1, <3>2
  <2>3. Flattening(g, s, B)
    <3> HIDE DEF g
    <3> QED BY <2>1, <2>2 DEF Flattening
  <2>4. g[n] = f[n] BY <1>1, <1>7
  <2> HIDE DEF g
  <2>5. FlattenSeq(s) = g[n] BY <1>7, <2>3, FlattenIs
  <2>6. f[n + 1] = f[n] \o t[n + 1]
    <3>1. n + 1 \in 1 .. n + 1 /\ n + 1 # 1 /\ (n + 1) - 1 = n BY <1>1, <1>7
    <3> HIDE DEF n
    <3> QED BY <1>3, <3>1
  <2> QED BY <1>1, <1>4, <2>4, <2>5, <2>6
<1> QED BY <1>6, <1>7

Assoc(Q) == \A a, b, c \in Q : (a \o b) \o c = a \o (b \o c)
LEMMA Associative ==
  ASSUME NEW B
  PROVE  Assoc(Seq(B))
BY ConcatAssociative DEF Assoc

(* One more sequence at the front.                                         *)
LEMMA FlattenCons ==
  ASSUME NEW B, NEW s \in Seq(Seq(B)), NEW t \in Seq(Seq(B)),
         Len(t) = Len(s) + 1, \A i \in 1 .. Len(s) : t[i + 1] = s[i]
  PROVE  FlattenSeq(t) = t[1] \o FlattenSeq(s)
<1> DEFINE n == Len(s)
<1>0. Assoc(Seq(B)) BY Associative
<1>1. n \in Nat /\ Len(t) = n + 1 BY LenProperties
<1>2. PICK f : Flattening(f, s, B) BY FlattenExists
<1>3. /\ f \in [1 .. n -> Seq(B)]
      /\ \A i \in 1 .. n : f[i] = IF i = 1 THEN s[i] ELSE f[i - 1] \o s[i]
  BY <1>2 DEF Flattening
<1>4. \A i \in 1 .. n : t[i + 1] = s[i] /\ s[i] \in Seq(B)
  BY <1>1, ElementOfSeq
<1>5. t[1] \in Seq(B)
  <2>1. 1 \in 1 .. Len(t) BY <1>1
  <2> QED BY <2>1, ElementOfSeq
<1> DEFINE g == [i \in 1 .. n + 1 |-> IF i = 1 THEN t[1] ELSE t[1] \o f[i - 1]]
<1>6. \A i \in 1 .. n : t[1] \o f[i] \in Seq(B)
  <2> HIDE DEF n
  <2> QED BY <1>3, <1>5, ConcatProperties
<1>7. g \in [1 .. n + 1 -> Seq(B)]
  <2>1. \A i \in 1 .. n + 1 : i # 1 => i - 1 \in 1 .. n BY <1>1
  <2> HIDE DEF n
  <2> QED BY <1>5, <1>6, <2>1
<1>8. \A i \in 1 .. n + 1 : g[i] = IF i = 1 THEN t[i] ELSE g[i - 1] \o t[i]
  <2> TAKE i \in 1 .. n + 1
  <2>1. CASE i = 1 BY <2>1
  <2>2. CASE i # 1
    <3>0. PICK j \in 1 .. n : i = j + 1
      <4>1. i - 1 \in 1 .. n /\ i = (i - 1) + 1 BY <1>1, <2>2
      <4> QED BY <4>1
    <3>1. j \in 1 .. n + 1 /\ j \in Nat /\ i - 1 = j BY <1>1, <3>0
    <3>2. g[i] = t[1] \o f[j] BY <2>2, <3>1
    <3>3. t[i] = s[j] /\ s[j] \in Seq(B) BY <1>4, <3>0
    <3>4. g[j] = IF j = 1 THEN t[1] ELSE t[1] \o f[j - 1] BY <3>1
    <3> HIDE DEF g, n
    <3>5. CASE j = 1
      <4>1. f[j] = s[j] BY <1>3, <3>5
      <4> QED BY <2>2, <3>1, <3>2, <3>3, <3>4, <3>5, <4>1
    <3>6. CASE j # 1
      <4>1. j - 1 \in 1 .. n BY <1>1, <3>0, <3>6
      <4>2. f[j] = f[j - 1] \o s[j] BY <1>3, <3>6
      <4>3. f[j - 1] \in Seq(B) BY <1>3, <4>1
      <4>4. (t[1] \o f[j - 1]) \o s[j] = t[1] \o (f[j - 1] \o s[j])
        BY <1>0, <1>5, <3>3, <4>3 DEF Assoc
      <4> QED BY <2>2, <3>1, <3>2, <3>3, <3>4, <3>6, <4>2, <4>4
    <3> QED BY <3>5, <3>6
  <2> QED BY <2>1, <2>2
<1>9. Flattening(g, t, B)
  <2> HIDE DEF g
  <2> QED BY <1>1, <1>7, <1>8 DEF Flattening
<1>10. g[n + 1] = IF n = 0 THEN t[1] ELSE t[1] \o f[n] BY <1>1
<1> HIDE DEF g
<1>11. FlattenSeq(t) = g[n + 1]
  <2>1. Len(t) # 0 BY <1>1
  <2> QED BY <1>1, <1>9, <2>1, FlattenIs
<1>12. CASE n = 0
  <2>1. FlattenSeq(s) = << >> BY <1>2, <1>12, FlattenIs
  <2> QED BY <1>5, <1>10, <1>11, <1>12, <2>1, ConcatEmptySeq
<1>13. CASE n # 0
  <2>1. FlattenSeq(s) = f[n] BY <1>2, <1>13, FlattenIs
  <2> QED BY <1>10, <1>11, <1>13, <2>1
<1> QED BY <1>12, <1>13
=============================================================================
