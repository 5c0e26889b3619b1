-------------------------- MODULE EngineStepProofs --------------------------
(***************************************************************************)
(* What one call of the engine may do to the sessions.  A submit is a      *)
(* handler followed by the serving of at most one ready event, and a tick  *)
(* is the second half alone; each half is given a law, and the refinement  *)
(* of SessionLifecycle and the action properties of UciEngine follow from  *)
(* the two laws.                                                           *)
(***************************************************************************)
EXTENDS UciEngineProofs

View(d) == [s \in Sid |-> d.sessions[s].state]

-----------------------------------------------------------------------------
(* The array of scheduled events across a call.  f leads the entries that  *)
(* are kept to what they have become: aged by ms, in the order they had,   *)
(* and in front of every entry that is new.                                *)

Image(f) == {f[e] : e \in DOMAIN f}
Leads(E, F, f, ms) ==
  /\ E \subseteq Event /\ F \subseteq Event /\ DOMAIN f \subseteq E
  /\ \A e \in DOMAIN f : /\ f[e] \in F /\ f[e].type = e.type /\ f[e].sid = e.sid
                         /\ f[e].delay = Age(e, ms).delay
  /\ \A e, k \in DOMAIN f : e.pos < k.pos => f[e].pos < f[k].pos
  /\ \A c \in F \ Image(f), e \in DOMAIN f : f[e].pos < c.pos

(* What ageing does to an entry; no time is no change.                     *)
LEMMA AgeIs ==
  ASSUME NEW e \in Event, NEW ms \in Nat
  PROVE  /\ Age(e, ms) \in Event /\ Age(e, ms).type = e.type
         /\ Age(e, ms).sid = e.sid /\ Age(e, ms).pos = e.pos
         /\ Age(e, ms).delay = (IF e.delay > ms THEN e.delay - ms ELSE 0)
         /\ Age(e, 0) = e
BY DEF Age, Event

(* Nothing happens to the array.                                           *)
LEMMA LeadsSame ==
  ASSUME NEW E, E \subseteq Event
  PROVE  LET f == [e \in E |-> e]
         IN  Leads(E, E, f, 0) /\ Image(f) = E /\ DOMAIN f = E
<1> DEFINE f == [e \in E |-> e]
<1>1. DOMAIN f = E /\ Image(f) = E /\ \A e \in E : f[e] = e BY DEF Image
<1>2. \A e \in E : Age(e, 0) = e BY AgeIs
<1> HIDE DEF f
<1>3. Leads(E, E, f, 0) BY <1>1, <1>2 DEF Leads
<1> QED BY <1>1, <1>3 DEF f

(* Time passes.                                                            *)
LEMMA LeadsAged ==
  ASSUME NEW E, E \subseteq Event, NEW ms \in Nat
  PROVE  LET f == [e \in E |-> Age(e, ms)]
             F == {Age(e, ms) : e \in E}
         IN  Leads(E, F, f, ms) /\ Image(f) = F /\ DOMAIN f = E
<1> DEFINE f == [e \in E |-> Age(e, ms)]
<1> DEFINE F == {Age(e, ms) : e \in E}
<1>1. DOMAIN f = E /\ Image(f) = F /\ \A e \in E : f[e] = Age(e, ms) /\ f[e] \in F
  BY DEF Image
<1>2. F \subseteq Event
  <2>1. \A e \in E : Age(e, ms) \in Event BY AgeIs
  <2> QED BY <2>1
<1>3. \A e \in E : /\ f[e].type = e.type /\ f[e].sid = e.sid
                   /\ f[e].delay = Age(e, ms).delay /\ f[e].pos = e.pos
  BY <1>1, AgeIs
<1> HIDE DEF f, F
<1>4. Leads(E, F, f, ms) BY <1>1, <1>2, <1>3 DEF Leads
<1> QED BY <1>1, <1>4 DEF f, F

(* A part of the array is kept and closed up.                              *)
LEMMA LeadsPart ==
  ASSUME NEW E, E \subseteq Event, IsFiniteSet(E), Distinct(E), NEW K \in SUBSET E
  PROVE  LET f == [e \in K |-> Moved(e, Rank(K, e.pos))]
         IN  Leads(E, InOrder(K), f, 0) /\ Image(f) = InOrder(K) /\ DOMAIN f = K
<1> DEFINE f == [e \in K |-> Moved(e, Rank(K, e.pos))]
<1>0. IsFiniteSet(K) /\ K \subseteq Event /\ Distinct(K)
  BY FS_Subset DEF Distinct
<1>1. DOMAIN f = K /\ \A e \in K : f[e] = Moved(e, Rank(K, e.pos)) OBVIOUS
<1>2. Image(f) = InOrder(K) BY DEF Image, InOrder, Moved, Rank
<1>3. \A e \in K : Rank(K, e.pos) \in Nat /\ e \in Event /\ e.pos \in Nat
  BY <1>0, RankType DEF Event
<1>4. \A e \in K : /\ f[e] \in Event /\ f[e].type = e.type /\ f[e].sid = e.sid
                   /\ f[e].delay = Age(e, 0).delay /\ f[e].pos = Rank(K, e.pos)
  <2> TAKE e \in K
  <2>1. Age(e, 0) = e BY <1>3, AgeIs
  <2> QED BY <1>1, <1>3, <2>1, MovedIs
<1>5. \A e, k \in K : e.pos < k.pos => f[e].pos < f[k].pos
  <2> SUFFICES ASSUME NEW e \in K, NEW k \in K, e.pos < k.pos
               PROVE  Rank(K, e.pos) < Rank(K, k.pos)
    BY <1>4
  <2> DEFINE q == k.pos - 1
  <2>1. q \in Nat /\ k.pos = q + 1 /\ e.pos <= q /\ e.pos \in Int BY <1>3
  <2>2. Rank(K, q + 1) = Rank(K, q) + 1
    <3> HIDE DEF q
    <3> QED BY <1>0, <2>1, RankStep
  <2>3. Rank(K, e.pos) <= Rank(K, q)
    <3> HIDE DEF q
    <3>1. K \in SUBSET K /\ q \in Int BY <2>1
    <3> QED BY <1>0, <2>1, <3>1, RankMonotonic
  <2>4. Rank(K, q) \in Nat /\ Rank(K, e.pos) \in Nat BY <1>0, RankType
  <2> HIDE DEF q
  <2> QED BY <2>1, <2>2, <2>3, <2>4
<1> HIDE DEF f
<1>6. \A e \in DOMAIN f : f[e] \in InOrder(K) BY <1>2 DEF Image
<1>7. InOrder(K) \subseteq Event BY <1>0, InOrderType
<1>8. Leads(E, InOrder(K), f, 0) BY <1>1, <1>2, <1>4, <1>5, <1>6, <1>7 DEF Leads
<1> QED BY <1>1, <1>2, <1>8 DEF f

(* An entry is added behind the others.                                    *)
LEMMA LeadsMore ==
  ASSUME NEW E, NEW F, NEW f, NEW ms, Leads(E, F, f, ms), NEW x \in Event,
         \A c \in F : c.pos < x.pos
  PROVE  /\ Leads(E, F \cup {x}, f, ms)
         /\ (F \cup {x}) \ Image(f) = (F \ Image(f)) \cup {x}
<1>1. \A e \in DOMAIN f : f[e] \in F BY DEF Leads
<1>2. x \notin F BY DEF Event
<1>3. x \notin Image(f) BY <1>1, <1>2 DEF Image
<1>4. \A c \in (F \cup {x}) \ Image(f), e \in DOMAIN f : f[e].pos < c.pos
  BY <1>1 DEF Leads
<1> QED BY <1>3, <1>4 DEF Leads

(* One change after another.                                               *)
Then(f, g) == [e \in {k \in DOMAIN f : f[k] \in DOMAIN g} |-> g[f[e]]]

LEMMA ThenIs ==
  ASSUME NEW f, NEW g
  PROVE  /\ DOMAIN Then(f, g) = {k \in DOMAIN f : f[k] \in DOMAIN g}
         /\ \A e \in DOMAIN Then(f, g) : Then(f, g)[e] = g[f[e]]
         /\ \A c \in Image(g) \ Image(Then(f, g)) :
              \E y \in DOMAIN g : c = g[y] /\ y \notin Image(f)
BY DEF Then, Image

LEMMA LeadsThen ==
  ASSUME NEW E, NEW F, NEW G, NEW f, NEW g, NEW a \in Nat, NEW b \in Nat,
         Leads(E, F, f, a), Leads(F, G, g, b)
  PROVE  Leads(E, G, Then(f, g), a + b)
<1> DEFINE h == Then(f, g)
<1>1. /\ DOMAIN h = {k \in DOMAIN f : f[k] \in DOMAIN g}
      /\ \A e \in DOMAIN h : h[e] = g[f[e]]
      /\ \A c \in Image(g) \ Image(h) : \E y \in DOMAIN g : c = g[y] /\ y \notin Image(f)
  BY ThenIs
<1> HIDE DEF h
<1>2. E \subseteq Event /\ F \subseteq Event /\ G \subseteq Event /\ DOMAIN f \subseteq E
      /\ DOMAIN g \subseteq F /\ DOMAIN h \subseteq E
  BY <1>1 DEF Leads
<1>3. ASSUME NEW e \in DOMAIN h
      PROVE  /\ h[e] \in G /\ h[e].type = e.type /\ h[e].sid = e.sid
             /\ h[e].delay = Age(e, a + b).delay
  <2>1. /\ e \in DOMAIN f /\ f[e] \in DOMAIN g /\ h[e] = g[f[e]] BY <1>1
  <2>2. e \in Event /\ f[e] \in Event /\ f[e].delay = Age(e, a).delay BY <1>2, <2>1 DEF Leads
  <2>3. h[e].delay = Age(f[e], b).delay BY <2>1 DEF Leads
  <2>4. a + b \in Nat /\ e.delay \in Nat BY <2>2 DEF Event
  <2>5. /\ Age(e, a).delay = IF e.delay > a THEN e.delay - a ELSE 0
        /\ Age(e, a + b).delay = IF e.delay > a + b THEN e.delay - (a + b) ELSE 0
        /\ Age(f[e], b).delay = IF f[e].delay > b THEN f[e].delay - b ELSE 0
    BY <2>2, <2>4, AgeIs
  <2>6. h[e].delay = Age(e, a + b).delay BY <2>2, <2>3, <2>4, <2>5
  <2> QED BY <2>1, <2>6 DEF Leads
<1>4. \A e, k \in DOMAIN h : e.pos < k.pos => h[e].pos < h[k].pos
  BY <1>1 DEF Leads
<1>5. ASSUME NEW c \in G \ Image(h), NEW e \in DOMAIN h
      PROVE  h[e].pos < c.pos
  <2>1. e \in DOMAIN f /\ f[e] \in DOMAIN g /\ h[e] = g[f[e]] BY <1>1
  <2>2. CASE c \notin Image(g) BY <2>1, <2>2 DEF Leads
  <2>3. CASE c \in Image(g)
    <3>1. PICK y \in DOMAIN g : c = g[y] /\ y \notin Image(f) BY <1>1, <2>3
    <3>2. y \in F \ Image(f) BY <1>2, <3>1
    <3>3. f[e].pos < y.pos BY <2>1, <3>2 DEF Leads
    <3> QED BY <2>1, <3>1, <3>3 DEF Leads
  <2> QED BY <2>2, <2>3
<1>6. Leads(E, G, h, a + b) BY <1>2, <1>3, <1>4, <1>5 DEF Leads
<1> QED BY <1>6 DEF h

(* Applying a function that is one to one keeps the number of elements.    *)
LEMMA ImageSize ==
  ASSUME NEW Q, IsFiniteSet(Q), NEW g, Q \subseteq DOMAIN g,
         \A p, q \in Q : g[p] = g[q] => p = q
  PROVE  Cardinality({g[q] : q \in Q}) = Cardinality(Q)
<1> DEFINE h == [q \in Q |-> g[q]]
<1> DEFINE T == {g[q] : q \in Q}
<1>1. h \in [Q -> T] /\ \A q \in Q : h[q] = g[q] OBVIOUS
<1>2. \A t \in T : \E q \in Q : h[q] = t OBVIOUS
<1> HIDE DEF h, T
<1>3. h \in Surjection(Q, T) BY <1>1, <1>2 DEF Surjection
<1>4. h \in Injection(Q, T) BY <1>1 DEF Injection, IsInjective
<1>5. Cardinality(T) = Cardinality(Q) BY <1>3, <1>4, FS_Surjection
<1> QED BY <1>5 DEF T

(* In an array without a gap the entries that were kept are where closing  *)
(* up puts them.                                                           *)
LEMMA LeadsInOrder ==
  ASSUME NEW E, IsFiniteSet(E), Distinct(E), NEW F, IsFiniteSet(F), DenseSet(F),
         NEW f, NEW ms \in Nat, Leads(E, F, f, ms)
  PROVE  InOrder({Age(e, ms) : e \in DOMAIN f}) = Image(f)
<1> DEFINE K == DOMAIN f
<1> DEFINE A == {Age(e, ms) : e \in K}
<1> DEFINE aged == [e \in K |-> Age(e, ms)]
<1> DEFINE At(e) == Cardinality({b \in A : b.pos <= e.pos})
<1>1. K \subseteq E /\ K \subseteq Event /\ F \subseteq Event /\ IsFiniteSet(K)
  BY FS_Subset DEF Leads
<1>2. \A e \in K : /\ e.pos \in Nat /\ f[e] \in F /\ f[e].pos \in Nat
                   /\ Age(e, ms) \in Event /\ Age(e, ms).pos = e.pos
  BY <1>1, AgeIs DEF Leads, Event
<1>3. \A e, k \in K : e.pos <= k.pos <=> f[e].pos <= f[k].pos
  <2> SUFFICES ASSUME NEW e \in K, NEW k \in K
               PROVE  e.pos <= k.pos <=> f[e].pos <= f[k].pos
    OBVIOUS
  <2>1. e.pos < k.pos => f[e].pos < f[k].pos BY DEF Leads
  <2>2. k.pos < e.pos => f[k].pos < f[e].pos BY DEF Leads
  <2>3. e.pos = k.pos => e = k BY <1>1 DEF Distinct
  <2> HIDE DEF K
  <2> QED BY <1>2, <2>1, <2>2, <2>3
<1>4. ASSUME NEW e \in K
      PROVE  f[e].pos = At(e)
  <2> DEFINE Q == {k \in K : k.pos <= e.pos}
  <2> DEFINE P == {c \in F : c.pos <= f[e].pos}
  <2>1. IsFiniteSet(Q)
    <3>1. Q \in SUBSET K OBVIOUS
    <3> QED BY <1>1, <3>1, FS_Subset
  <2>2. P = {f[k] : k \in Q}
    <3>1. ASSUME NEW c \in P PROVE c \in {f[k] : k \in Q}
      <4>1. c \in F /\ c.pos <= f[e].pos /\ c.pos \in Nat BY <1>1 DEF Event
      <4>2. c \in Image(f)
        <5>1. c \notin Image(f) => f[e].pos < c.pos BY <4>1 DEF Leads
        <5> QED BY <1>2, <4>1, <5>1
      <4>3. PICK k \in K : c = f[k] BY <4>2 DEF Image
      <4>4. k.pos <= e.pos BY <1>3, <4>1, <4>3
      <4> QED BY <4>3, <4>4
    <3>2. ASSUME NEW k \in Q PROVE f[k] \in P
      <4>1. k \in K /\ k.pos <= e.pos OBVIOUS
      <4> HIDE DEF K
      <4> QED BY <1>2, <1>3, <4>1
    <3> HIDE DEF P, Q
    <3> QED BY <3>1, <3>2
  <2>3. {b \in A : b.pos <= e.pos} = {aged[k] : k \in Q}
    <3>1. \A k \in K : aged[k] = Age(k, ms) /\ aged[k].pos = k.pos BY <1>2
    <3>2. A = {aged[k] : k \in K} BY <3>1
    <3> HIDE DEF A, aged, K
    <3> QED BY <3>1, <3>2
  <2>4. Cardinality({f[k] : k \in Q}) = Cardinality(Q)
    <3>1. \A p, q \in Q : f[p] = f[q] => p = q
      <4> SUFFICES ASSUME NEW p \in K, NEW q \in K, f[p] = f[q] PROVE p = q OBVIOUS
      <4>1. f[p].pos <= f[q].pos /\ f[q].pos <= f[p].pos
        <5> HIDE DEF K
        <5> QED BY <1>2
      <4>2. p.pos <= q.pos /\ q.pos <= p.pos
        <5> HIDE DEF K
        <5> QED BY <1>3, <4>1
      <4>3. p.pos = q.pos
        <5> HIDE DEF K
        <5> QED BY <1>2, <4>2
      <4> QED BY <1>1, <4>3 DEF Distinct
    <3>2. Q \subseteq DOMAIN f OBVIOUS
    <3> HIDE DEF Q
    <3> QED BY <2>1, <3>1, <3>2, ImageSize
  <2>5. Cardinality({aged[k] : k \in Q}) = Cardinality(Q)
    <3>1. \A p, q \in Q : aged[p] = aged[q] => p = q
      <4> SUFFICES ASSUME NEW p \in K, NEW q \in K, aged[p] = aged[q] PROVE p = q OBVIOUS
      <4>1. Age(p, ms).pos = Age(q, ms).pos OBVIOUS
      <4>2. p.pos = q.pos
        <5> HIDE DEF K
        <5> QED BY <1>2, <4>1
      <4> QED BY <1>1, <4>2 DEF Distinct
    <3>2. Q \subseteq DOMAIN aged OBVIOUS
    <3> HIDE DEF Q, aged
    <3> QED BY <2>1, <3>1, <3>2, ImageSize
  <2>6. Cardinality(P) = f[e].pos
    <3>1. f[e].pos \in 0 .. Cardinality(F)
      <4>1. f[e] \in F BY <1>2
      <4>2. f[e].pos \in 1 .. Cardinality(F) BY <4>1 DEF DenseSet
      <4> QED BY <4>2, FS_CardinalityType
    <3> QED BY <1>1, <3>1, RankDense DEF Rank
  <2> HIDE DEF P, Q, A, aged
  <2> QED BY <2>2, <2>3, <2>4, <2>5, <2>6
<1>5. ASSUME NEW e \in K
      PROVE  [Age(e, ms) EXCEPT !.pos = At(e)] = f[e]
  <2> DEFINE a == Age(e, ms)
  <2>1. a \in Event /\ f[e] \in Event BY <1>1, <1>2
  <2>2. a.type = e.type /\ a.sid = e.sid BY <1>1, AgeIs
  <2>3. f[e].type = a.type /\ f[e].sid = a.sid /\ f[e].delay = a.delay
    BY <2>2 DEF Leads
  <2>4. f[e].pos = At(e) BY <1>4
  <2> HIDE DEF a, At
  <2>5. [a EXCEPT !.pos = At(e)] = f[e] BY <2>1, <2>3, <2>4 DEF Event
  <2> QED BY <2>5 DEF a
<1>6. InOrder(A) = {[Age(e, ms) EXCEPT !.pos = At(e)] : e \in K}
  <2>1. \A e \in K : Cardinality({b \in A : b.pos <= Age(e, ms).pos}) = At(e)
    <3> TAKE e \in K
    <3>1. Age(e, ms).pos = e.pos BY <1>2
    <3> QED BY <3>1
  <2>2. InOrder(A) =
          {[Age(e, ms) EXCEPT !.pos = Cardinality({b \in A : b.pos <= Age(e, ms).pos})] :
             e \in K}
    BY DEF InOrder
  <2> HIDE DEF At, A
  <2> QED BY <2>1, <2>2
<1> HIDE DEF At
<1>7. InOrder(A) = {f[e] : e \in K} BY <1>5, <1>6
<1> QED BY <1>7 DEF Image

-----------------------------------------------------------------------------
(* Every scheduled event of s waits one full, positive interval.           *)
Fresh(d, s) ==
  /\ d.sessions[s].interval > 0
  /\ \A e \in d.events : e.sid = s => e.delay = d.sessions[s].interval

(* The measurement counted by a step, if any, was within the budget.       *)
CountLaw(v, w) ==
  w.ranging_count > v.ranging_count =>
    w.max_meas = 0 \/ w.ranging_count <= w.max_meas

(* Serving an event of session t: no other session changes, no other       *)
(* session gets an event, and t may at most be stopped by its budget.      *)
KeepsOthers(d, r, t) ==
  \A c \in r.events : c.sid = t \/ \E f \in d.events : SameEvent(c, f)

(* The entries that are not kept belong to sessions that were stopped, and *)
(* the new ones wait one interval.                                         *)
Waits(r, f) == \A c \in r.events \ Image(f) : c.delay = r.sessions[c.sid].interval
ServedEvents(E, r) ==
  \E f : /\ Leads(E, r.events, f, 0) /\ Waits(r, f)
         /\ \A e \in E \ DOMAIN f : r.sessions[e.sid].state = "IDLE"
SessionLaw(v, w) ==
  /\ w.state = v.state \/ (v.state = "ACTIVE" /\ w.state = "IDLE")
  /\ w.interval = v.interval
  /\ CountLaw(v, w)
ServeLaw(d, r, t) ==
  /\ \A s \in Sid \ {t} : r.sessions[s] = d.sessions[s]
  /\ KeepsOthers(d, r, t)
  /\ ServedEvents(d.events, r)
  /\ SessionLaw(d.sessions[t], r.sessions[t])

-----------------------------------------------------------------------------
(* The first half: the law of serving one event.                           *)

(* An event left in place is an event kept.                                *)
LEMMA SameEventsKept ==
  ASSUME NEW d, NEW r, NEW t, r.events = d.events
  PROVE  KeepsOthers(d, r, t)
BY DEF KeepsOthers, SameEvent

LEMMA SameEventsServed ==
  ASSUME NEW r, r.events \subseteq Event
  PROVE  ServedEvents(r.events, r)
<1> DEFINE f == [e \in r.events |-> e]
<1>1. Leads(r.events, r.events, f, 0) /\ Image(f) = r.events /\ DOMAIN f = r.events
  BY LeadsSame
<1> HIDE DEF f
<1> QED BY <1>1 DEF ServedEvents, Waits

(* A part of the array is kept.                                            *)
LEMMA PartServed ==
  ASSUME NEW d, DeviceOK(d), DenseSet(d.events), NEW K \in SUBSET d.events,
         NEW r, r.events = InOrder(K),
         \A e \in d.events \ K : r.sessions[e.sid].state = "IDLE"
  PROVE  ServedEvents(d.events, r)
<1> DEFINE f == [e \in K |-> Moved(e, Rank(K, e.pos))]
<1>1. /\ d.events \subseteq Event /\ IsFiniteSet(d.events) /\ Distinct(d.events)
  BY DenseDistinct DEF DeviceOK, DeviceState
<1>2. Leads(d.events, InOrder(K), f, 0) /\ Image(f) = InOrder(K) /\ DOMAIN f = K
  BY <1>1, LeadsPart
<1> HIDE DEF f
<1> QED BY <1>2 DEF ServedEvents, Waits

(* Cancelling the events of a session keeps the events of the others.      *)
LEMMA CancelKeeps ==
  ASSUME NEW d, DeviceOK(d), DenseSet(d.events), NEW s \in Sid
  PROVE  \A c \in CancelSessionEvents(d, s).events :
           \E f \in d.events : SameEvent(c, f)
<1> DEFINE E == {e \in d.events : e.sid # s}
<1>1. CancelSessionEvents(d, s) = [d EXCEPT !.events = InOrder(E)] BY LoopsAre
<1>2. E \in SUBSET d.events OBVIOUS
<1> HIDE DEF E
<1> QED BY <1>1, <1>2, InOrderPart

(* Dequeuing an event keeps the others.                                    *)
LEMMA RemoveEventKeeps ==
  ASSUME NEW d, DeviceOK(d), DenseSet(d.events), NEW x \in d.events
  PROVE  \A c \in RemoveEvent(d, x).events : \E f \in d.events : SameEvent(c, f)
<1>1. RemoveEvent(d, x) = [d EXCEPT !.events = InOrder(d.events \ {x})] BY LoopsAre
<1>2. d.events \ {x} \in SUBSET d.events OBVIOUS
<1> QED BY <1>1, <1>2, InOrderPart

(* The end of the budget, reached from a device r0 that differs from d in  *)
(* the counters of session s at most.                                      *)
LEMMA StopAtBudgetLaw ==
  ASSUME NEW d, Sound(d), NEW s \in Allocated(d)
  PROVE  LET r == StopAtBudget(d, s).dev
         IN  /\ \A t \in Sid \ {s} : r.sessions[t] = d.sessions[t]
             /\ \A c \in r.events : \E f \in d.events : SameEvent(c, f)
             /\ ServedEvents(d.events, r)
             /\ r.sessions[s].state = "IDLE"
             /\ r.sessions[s].interval = d.sessions[s].interval
             /\ r.sessions[s].ranging_count = d.sessions[s].ranging_count
             /\ r.sessions[s].max_meas = d.sessions[s].max_meas
<1> DEFINE v == d.sessions[s]
<1> DEFINE w == [v EXCEPT !.state = "IDLE", !.stream_remaining = 0]
<1> DEFINE idle == SetSession(d, s, w)
<1> DEFINE quiet == CancelSessionEvents(idle, s)
<1> DEFINE n == SessionStatusNtf(s, "IDLE_MAX_REACHED")
<1> DEFINE r == QueueNotification(quiet, n)
<1>1. s \in Sid /\ DeviceOK(d) /\ v \in Session BY SessionOf DEF Allocated, Sound
<1>2. w \in Session /\ w.state = "IDLE" /\ w.ranging_count = v.ranging_count
      /\ w.max_meas = v.max_meas /\ w.interval = v.interval
  BY <1>1 DEF Session, SessionStates
<1>3. /\ DeviceOK(idle) /\ idle.sessions = [d.sessions EXCEPT ![s] = w]
      /\ idle.events = d.events
  <2> HIDE DEF w
  <2> QED BY <1>1, <1>2, SetSessionType
<1>4. /\ DeviceOK(quiet) /\ quiet.sessions = idle.sessions
      /\ \A c \in quiet.events : \E f \in idle.events : SameEvent(c, f)
  <2> HIDE DEF idle
  <2> QED BY <1>1, <1>3, CancelSessionEventsType, CancelKeeps DEF Sound
<1>5. r.sessions = quiet.sessions /\ r.events = quiet.events
  <2>1. n \in Packet BY <1>1, PacketTypes DEF Codes
  <2> HIDE DEF quiet, n
  <2> QED BY <1>4, <2>1, QueueNotificationType
<1>6. StopAtBudget(d, s).dev = r BY DEF StopAtBudget, Outcome
<1>7. d.sessions \in [Sid -> Session] BY <1>1 DEF DeviceOK, DeviceState
<1> HIDE DEF r, quiet, idle, w
<1>8. r.sessions = [d.sessions EXCEPT ![s] = w] BY <1>3, <1>4, <1>5
<1>9. r.sessions[s] = w /\ \A t \in Sid \ {s} : r.sessions[t] = d.sessions[t]
  BY <1>1, <1>7, <1>8
<1>10. ServedEvents(d.events, r)
  <2> DEFINE K == {e \in d.events : e.sid # s}
  <2>1. r.events = InOrder(K)
    <3>1. quiet.events = InOrder({e \in idle.events : e.sid # s})
      BY <1>3, LoopsAre DEF Sound, quiet, DeviceOK, DeviceState
    <3> QED BY <1>3, <1>5, <3>1
  <2>2. \A e \in d.events \ K : r.sessions[e.sid].state = "IDLE" BY <1>2, <1>9
  <2>3. K \in SUBSET d.events OBVIOUS
  <2> HIDE DEF K
  <2> QED BY <1>1, <2>1, <2>2, <2>3, PartServed DEF Sound
<1> QED BY <1>2, <1>3, <1>4, <1>5, <1>6, <1>9, <1>10

(* uci_sim_device_emit_ranging_stream counts one measurement at most, and  *)
(* only while the budget allows it.                                        *)
LEMMA EmitRangingStreamLaw ==
  ASSUME NEW d, Sound(d), NEW s \in Allocated(d), NEW hit \in BOOLEAN
  PROVE  ServeLaw(d, EmitRangingStream(d, s, hit).dev, s)
<1> DEFINE v == d.sessions[s]
<1> DEFINE numbered == [d EXCEPT !.next_seq = @ + 1]
<1> DEFINE n == RangeDataNtf(s, d.next_seq)
<1> DEFINE sent == IF ShouldEmit(v, hit) THEN QueueNotification(numbered, n) ELSE d
<1> DEFINE count == v.ranging_count + 1
<1> DEFINE left == v.stream_remaining - 1
<1> DEFINE w == [v EXCEPT !.ranging_count = count, !.stream_remaining = left]
<1> DEFINE counted == SetSession(sent, s, w)
<1>0. s \in Sid /\ DeviceOK(d) /\ v \in Session
  BY SessionOf DEF Allocated, Sound
<1>1. v.ranging_count \in Nat /\ v.stream_remaining \in Nat /\ v.max_meas \in Nat
  BY <1>0 DEF Session
<1>18. d.events \subseteq Event BY <1>0 DEF DeviceOK, DeviceState
<1>2. ServeLaw(d, d, s)
  <2> HIDE DEF v
  <2> QED BY <1>0, <1>1, <1>18, SameEventsKept, SameEventsServed
         DEF ServeLaw, SessionLaw, CountLaw, v
<1> SUFFICES ASSUME ~(Scenario # "ranging_stream" \/ v.stream_remaining = 0
                       \/ v.state # "ACTIVE")
             PROVE  ServeLaw(d, EmitRangingStream(d, s, hit).dev, s)
  BY <1>2 DEF EmitRangingStream, Outcome
<1>3. count \in Nat /\ left \in Nat BY <1>1
<1>4. /\ Sound(numbered) /\ numbered.sessions = d.sessions
      /\ numbered.events = d.events /\ d.next_seq \in Nat
  BY DEF Sound, DeviceOK, DeviceState, QuietWhenIdle, Allocated
<1>5. /\ Sound(QueueNotification(numbered, n))
      /\ QueueNotification(numbered, n).sessions = d.sessions
      /\ QueueNotification(numbered, n).events = d.events
  <2>1. n \in Packet BY <1>0, <1>4, PacketTypes DEF Codes
  <2> HIDE DEF numbered, n
  <2> QED BY <1>4, <2>1, QueueNotificationSound, QueueNotificationType DEF Sound
<1>6. Sound(sent) /\ sent.sessions = d.sessions /\ sent.events = d.events
  BY <1>5
<1>7. /\ w \in Session /\ w.state = "ACTIVE"
      /\ w.ranging_count = count /\ w.max_meas = v.max_meas
      /\ w.interval = v.interval
  <2> HIDE DEF count, left
  <2> QED BY <1>0, <1>3 DEF Session
<1>8. s \in Allocated(sent)
  <2> HIDE DEF sent
  <2> QED BY <1>0, <1>6 DEF Allocated
<1>9. /\ Sound(counted) /\ counted.sessions = [d.sessions EXCEPT ![s] = w]
      /\ counted.sessions[s] = w /\ counted.events = d.events
  <2> HIDE DEF sent, w
  <2> QED BY <1>0, <1>6, <1>7, <1>8, SetSessionSound, SetSessionType DEF Sound
<1>10. s \in Allocated(counted)
  <2> HIDE DEF counted, w
  <2> QED BY <1>0, <1>7, <1>9 DEF Allocated
<1>11. d.sessions \in [Sid -> Session] BY <1>0 DEF DeviceOK, DeviceState
<1>12. EmitRangingStream(d, s, hit) =
         IF BudgetReached(v) THEN StopAtBudget(d, s)
         ELSE IF ShouldEmit(v, hit) /\ ~CanQueue(d) THEN Outcome(sent, FALSE)
         ELSE IF BudgetReached(counted.sessions[s]) THEN StopAtBudget(counted, s)
         ELSE Outcome(counted, TRUE)
  <2>1. CountMeasurement(sent, s) = counted
    <3> HIDE DEF sent
    <3> QED BY <1>6 DEF CountMeasurement
  <2>2. sent = IF ShouldEmit(v, hit)
               THEN QueueNotification(IF ShouldEmit(v, hit) THEN numbered ELSE d, n)
               ELSE d
    OBVIOUS
  <2> HIDE DEF sent, counted
  <2> QED BY <2>1, <2>2 DEF EmitRangingStream
<1>13. ServeLaw(d, StopAtBudget(d, s).dev, s)
  <2> DEFINE r == StopAtBudget(d, s).dev
  <2>1. /\ \A t \in Sid \ {s} : r.sessions[t] = d.sessions[t]
        /\ \A c \in r.events : \E f \in d.events : SameEvent(c, f)
        /\ r.sessions[s].state = "IDLE" /\ ServedEvents(d.events, r)
        /\ r.sessions[s].interval = v.interval
        /\ r.sessions[s].ranging_count = v.ranging_count
    BY StopAtBudgetLaw
  <2> HIDE DEF r, v
  <2>2. ServeLaw(d, r, s)
    BY <1>1, <2>1 DEF ServeLaw, KeepsOthers, SessionLaw, CountLaw, v
  <2> QED BY <2>2 DEF r
<1>14. ServeLaw(d, sent, s)
  <2> HIDE DEF sent, v
  <2> QED BY <1>0, <1>1, <1>6, <1>18, SameEventsKept, SameEventsServed
         DEF ServeLaw, SessionLaw, CountLaw, v
<1>15. ~BudgetReached(v) => CountLaw(v, w)
  BY <1>1, <1>7 DEF BudgetReached, CountLaw
<1>16. ~BudgetReached(v) => ServeLaw(d, counted, s)
  <2> HIDE DEF counted, v, w
  <2>1. \A t \in Sid \ {s} : counted.sessions[t] = d.sessions[t] BY <1>9, <1>11
  <2> QED BY <1>7, <1>9, <1>15, <1>18, <2>1, SameEventsKept, SameEventsServed
         DEF ServeLaw, SessionLaw, v
<1>17. ~BudgetReached(v) => ServeLaw(d, StopAtBudget(counted, s).dev, s)
  <2> DEFINE r == StopAtBudget(counted, s).dev
  <2>1. /\ \A t \in Sid \ {s} : r.sessions[t] = counted.sessions[t]
        /\ \A c \in r.events : \E f \in counted.events : SameEvent(c, f)
        /\ r.sessions[s].state = "IDLE" /\ ServedEvents(counted.events, r)
        /\ r.sessions[s].interval = w.interval
        /\ r.sessions[s].ranging_count = w.ranging_count
        /\ r.sessions[s].max_meas = w.max_meas
    <3> HIDE DEF counted, w
    <3> QED BY <1>9, <1>10, StopAtBudgetLaw
  <2> HIDE DEF r, v, w, counted
  <2>2. \A t \in Sid \ {s} : r.sessions[t] = d.sessions[t] BY <1>9, <1>11, <2>1
  <2>3. ~BudgetReached(v) => CountLaw(v, r.sessions[s])
    BY <1>15, <2>1 DEF CountLaw
  <2>4. ~BudgetReached(v) => ServeLaw(d, r, s)
    BY <1>7, <1>9, <2>1, <2>2, <2>3 DEF ServeLaw, KeepsOthers, SessionLaw, v
  <2> QED BY <2>4 DEF r
<1> HIDE DEF sent, counted, v
<1> QED BY <1>12, <1>13, <1>14, <1>16, <1>17 DEF Outcome

(* uci_sim_device_progress_data_transfer touches the fields of the         *)
(* transfer only.                                                          *)
LEMMA ProgressDataTransferLaw ==
  ASSUME NEW d, Sound(d), NEW s \in Sid, Active(d, s)
  PROVE  LET r == ProgressDataTransfer(d, s).dev
         IN  /\ ServeLaw(d, r, s)
             /\ r.sessions[s].ranging_count = d.sessions[s].ranging_count
<1> DEFINE v == d.sessions[s]
<1> DEFINE tx == (v.tx_count + 1) % TxModulus
<1> DEFINE left == v.reps_remaining - 1
<1> DEFINE a == [v EXCEPT !.tx_count = tx, !.reps_remaining = left]
<1> DEFINE f == [v EXCEPT !.tx_count = tx, !.in_progress = FALSE]
<1> DEFINE again == SetSession(d, s, a)
<1> DEFINE final == SetSession(d, s, f)
<1> DEFINE status(code) == DataStatusNtf(s, v.last_data, code, tx)
<1> DEFINE credited == QueueNotification(final, DataCreditNtf(s))
<1>1. DeviceOK(d) /\ v \in Session /\ v.state = "ACTIVE" /\ s \in Allocated(d)
  BY SessionOf DEF Sound, Active, Allocated
<1>2. tx \in Nat /\ v.ranging_count \in Nat BY <1>1, SizesAssumption DEF Session
<1>3. status("OK") \in Packet /\ status("REPETITION_OK") \in Packet
      /\ DataCreditNtf(s) \in Packet
  <2>1. v.last_data \in Msg \cup {NoMsg} BY <1>1 DEF Session
  <2> HIDE DEF v, tx
  <2> QED BY <1>2, <2>1, PacketTypes DEF Codes
<1>4. ASSUME NEW x \in Session, x.state = v.state, x.ranging_count = v.ranging_count,
             x.interval = v.interval, NEW r, r.sessions = [d.sessions EXCEPT ![s] = x], r.events = d.events
      PROVE  ServeLaw(d, r, s) /\ r.sessions[s].ranging_count = v.ranging_count
  <2>1. d.sessions \in [Sid -> Session] BY <1>1 DEF DeviceOK, DeviceState
  <2>2. r.sessions[s] = x /\ \A t \in Sid \ {s} : r.sessions[t] = d.sessions[t]
    BY <1>4, <2>1
  <2> HIDE DEF v
  <2>3. r.events \subseteq Event BY <1>1, <1>4 DEF DeviceOK, DeviceState
  <2> QED BY <1>2, <1>4, <2>2, <2>3, SameEventsKept, SameEventsServed
         DEF ServeLaw, SessionLaw, CountLaw, v
<1>5. f \in Session /\ f.state = v.state /\ f.ranging_count = v.ranging_count
      /\ f.interval = v.interval
  <2> HIDE DEF tx
  <2> QED BY <1>1, <1>2 DEF Session
<1>6. v.reps_remaining > 0 =>
        a \in Session /\ a.state = v.state /\ a.ranging_count = v.ranging_count
        /\ a.interval = v.interval
  <2>1. v.reps_remaining > 0 => left \in Nat BY <1>1 DEF Session
  <2> HIDE DEF tx, left, v
  <2> QED BY <1>1, <1>2, <2>1 DEF Session
<1>7. /\ DeviceOK(final) /\ final.sessions = [d.sessions EXCEPT ![s] = f]
      /\ final.events = d.events
  <2> HIDE DEF f
  <2> QED BY <1>1, <1>5, SetSessionType
<1>8. v.reps_remaining > 0 =>
        /\ DeviceOK(again) /\ again.sessions = [d.sessions EXCEPT ![s] = a]
        /\ again.events = d.events
  <2> HIDE DEF a
  <2> QED BY <1>1, <1>6, SetSessionType
<1>9. /\ DeviceOK(credited) /\ credited.sessions = final.sessions
      /\ credited.events = final.events
  <2> HIDE DEF final
  <2> QED BY <1>3, <1>7, QueueNotificationType
<1>10. LET r == QueueNotification(credited, status("OK"))
       IN  r.sessions = credited.sessions /\ r.events = credited.events
  <2> HIDE DEF credited, status
  <2> QED BY <1>3, <1>9, QueueNotificationType
<1>11. v.reps_remaining > 0 =>
         LET r == QueueNotification(again, status("REPETITION_OK"))
         IN  r.sessions = again.sessions /\ r.events = again.events
  <2> HIDE DEF again, status, v
  <2> QED BY <1>3, <1>8, QueueNotificationType
<1>12. ProgressDataTransfer(d, s).dev =
         IF v.reps_remaining > 0 THEN QueueNotification(again, status("REPETITION_OK"))
         ELSE IF ~CanQueue(final) THEN credited
         ELSE QueueNotification(credited, status("OK"))
  BY DEF ProgressDataTransfer, Outcome
<1>13. v.ranging_count = d.sessions[s].ranging_count OBVIOUS
<1> HIDE DEF v, again, final, credited, status, a, f
<1> QED BY <1>4, <1>5, <1>6, <1>7, <1>8, <1>9, <1>10, <1>11, <1>12, <1>13

(* Scheduling puts at most one entry behind those that are there.          *)
LEMMA ScheduleLeads ==
  ASSUME NEW d, DeviceOK(d), DenseSet(d.events), NEW type \in EventTypes,
         NEW s \in Sid, NEW ms \in Nat, NEW E, NEW f, NEW a, Leads(E, d.events, f, a)
  PROVE  LET r == ScheduleEvent(d, type, s, ms)
             Has(c) == IsEventOf(c, type, s) /\ c.delay = ms
         IN  /\ Leads(E, r.events, f, a)
             /\ \A c \in r.events \ Image(f) : c \in d.events \ Image(f) \/ Has(c)
             /\ CanSchedule(d) => \E c \in r.events \ Image(f) : Has(c)
<1> DEFINE x == [type |-> type, sid |-> s, delay |-> ms, pos |-> Cardinality(d.events) + 1]
<1> DEFINE r == ScheduleEvent(d, type, s, ms)
<1>1. r.events = IF CanSchedule(d) THEN d.events \cup {x} ELSE d.events
  BY DEF ScheduleEvent, DeviceOK, DeviceState
<1>2. Cardinality(d.events) \in Nat BY FS_CardinalityType DEF DeviceOK
<1>3. x \in Event /\ IsEventOf(x, type, s) /\ x.delay = ms
  BY <1>2 DEF Event, IsEventOf
<1>4. \A c \in d.events : c.pos < x.pos
  <2>1. \A c \in d.events : c.pos \in 1 .. Cardinality(d.events) BY DEF DenseSet
  <2>2. x.pos = Cardinality(d.events) + 1 OBVIOUS
  <2> HIDE DEF x
  <2> QED BY <1>2, <2>1, <2>2
<1> HIDE DEF x, r
<1>5. /\ Leads(E, d.events \cup {x}, f, a)
      /\ (d.events \cup {x}) \ Image(f) = (d.events \ Image(f)) \cup {x}
  BY <1>3, <1>4, LeadsMore
<1> QED BY <1>1, <1>3, <1>5 DEF r

(* Flushing and scheduling the next event of the same session keep the     *)
(* law.                                                                    *)
LEMMA ContinueLaw ==
  ASSUME NEW d0, NEW d, Sound(d), NEW out, QueueOK(out), NEW type \in EventTypes,
         NEW s \in Sid, NEW goesOn \in BOOLEAN, ServeLaw(d0, d, s)
  PROVE  LET r == Continue(d, out, type, s, goesOn).dev
         IN  ServeLaw(d0, r, s) /\ r.sessions = d.sessions
<1> DEFINE f == FlushDeviceNotifications(d, out)
<1> DEFINE ms == d.sessions[s].interval
<1> DEFINE r == ScheduleEvent(f.dev, type, s, ms)
<1>1. EngineOK(f) /\ f.dev.sessions = d.sessions /\ f.dev.events = d.events
  BY FlushOK
<1>2. ms \in Nat
  <2>1. d.sessions[s] \in Session BY SessionOf DEF Sound
  <2> QED BY <2>1 DEF Session
<1>3. r.sessions = d.sessions /\ \A e \in r.events : e \in d.events \/ e.sid = s
  <2> HIDE DEF f, ms
  <2> QED BY <1>1, <1>2, ScheduleEventType DEF EngineOK, Sound
<1>6. ServedEvents(d0.events, d) => ServedEvents(d0.events, r)
  <2> SUFFICES ASSUME ServedEvents(d0.events, d) PROVE ServedEvents(d0.events, r)
    OBVIOUS
  <2>1. PICK g : /\ Leads(d0.events, d.events, g, 0) /\ Waits(d, g)
                 /\ \A e \in d0.events \ DOMAIN g : d.sessions[e.sid].state = "IDLE"
    BY DEF ServedEvents
  <2> DEFINE fd == f.dev
  <2>2. /\ DeviceOK(fd) /\ DenseSet(fd.events) /\ Leads(d0.events, fd.events, g, 0)
        /\ fd.events = d.events
    BY <1>1, <2>1 DEF EngineOK, Sound
  <2> HIDE DEF fd, ms
  <2>3. /\ Leads(d0.events, r.events, g, 0)
        /\ \A c \in r.events \ Image(g) :
             c \in d.events \ Image(g) \/ (IsEventOf(c, type, s) /\ c.delay = ms)
    <3>1. r = ScheduleEvent(fd, type, s, ms) BY DEF fd
    <3> HIDE DEF r
    <3>2. LET q == ScheduleEvent(fd, type, s, ms)
              Has(c) == IsEventOf(c, type, s) /\ c.delay = ms
          IN  /\ Leads(d0.events, q.events, g, 0)
              /\ \A c \in q.events \ Image(g) : c \in fd.events \ Image(g) \/ Has(c)
              /\ CanSchedule(fd) => \E c \in q.events \ Image(g) : Has(c)
      BY <1>2, <2>2, ScheduleLeads
    <3> QED BY <2>2, <3>1, <3>2
  <2> HIDE DEF r
  <2>4. Waits(r, g) BY <1>3, <2>1, <2>3 DEF Waits, IsEventOf, ms
  <2> QED BY <1>3, <2>1, <2>3, <2>4 DEF ServedEvents
<1>7. ServedEvents(d0.events, d) => ServedEvents(d0.events, f.dev)
  BY <1>1 DEF ServedEvents, Waits
<1>4. Continue(d, out, type, s, goesOn).dev = IF goesOn THEN r ELSE f.dev
  <2> HIDE DEF f
  <2> QED BY DEF Continue, Engine, f
<1> HIDE DEF f, r
<1>5. ServeLaw(d0, r, s) /\ ServeLaw(d0, f.dev, s)
  BY <1>1, <1>3, <1>6, <1>7 DEF ServeLaw, KeepsOthers
<1> QED BY <1>1, <1>3, <1>4, <1>5

(* Serving a ready event obeys the law of its session.                     *)
LEMMA ProcessReadyEventLaw ==
  ASSUME NEW d, Sound(d), NEW out, QueueOK(out), NEW e, e.sid \in Sid,
         NEW hit \in BOOLEAN
  PROVE  LET r == ProcessReadyEvent(d, out, e, hit).dev
         IN  /\ ServeLaw(d, r, e.sid)
             /\ e.type # "RANGE_DATA" =>
                  r.sessions[e.sid].ranging_count = d.sessions[e.sid].ranging_count
<1> DEFINE s == e.sid
<1>0. ServeLaw(d, d, s)
  <2>1. d.sessions[s] \in Session BY SessionOf DEF Sound
  <2>2. d.sessions[s].ranging_count \in Nat BY <2>1 DEF Session
  <2>3. d.events \subseteq Event BY DEF Sound, DeviceOK, DeviceState
  <2> HIDE DEF s
  <2> QED BY <2>2, <2>3, SameEventsKept, SameEventsServed DEF ServeLaw, SessionLaw, CountLaw
<1>1. ServeLaw(d, ProcessRangeData(d, out, s, hit).dev, s)
  <2> DEFINE o == EmitRangingStream(d, s, hit)
  <2> DEFINE v == o.dev.sessions[s]
  <2> DEFINE goesOn == v.stream_remaining > 0 /\ v.state = "ACTIVE"
  <2>1. CASE s \notin Allocated(d) BY <1>0, <2>1 DEF ProcessRangeData, Engine
  <2>2. CASE s \in Allocated(d)
    <3>1. Sound(o.dev) /\ ServeLaw(d, o.dev, s)
      BY <2>2, EmitRangingStreamSound, EmitRangingStreamLaw
    <3>2. goesOn \in BOOLEAN OBVIOUS
    <3>3. ServeLaw(d, Continue(o.dev, out, "RANGE_DATA", s, goesOn).dev, s)
      <4> HIDE DEF o, goesOn
      <4> QED BY <3>1, <3>2, ContinueLaw DEF EventTypes
    <3>4. ProcessRangeData(d, out, s, hit) =
            IF ~o.ok THEN Engine(o.dev, out, -1)
            ELSE Continue(o.dev, out, "RANGE_DATA", s, goesOn)
      BY <2>2 DEF ProcessRangeData
    <3> HIDE DEF o, goesOn
    <3> QED BY <3>1, <3>3, <3>4 DEF Engine
  <2> QED BY <2>1, <2>2
<1>2. LET r == ProcessDataTransfer(d, out, s).dev
      IN  /\ ServeLaw(d, r, s)
          /\ r.sessions[s].ranging_count = d.sessions[s].ranging_count
  <2> DEFINE o == ProgressDataTransfer(d, s)
  <2> DEFINE goesOn == o.dev.sessions[s].in_progress
  <2>1. CASE ~Active(d, s) \/ ~d.sessions[s].in_progress
    BY <1>0, <2>1 DEF ProcessDataTransfer, Engine
  <2>2. CASE ~(~Active(d, s) \/ ~d.sessions[s].in_progress)
    <3>1. /\ Sound(o.dev) /\ ServeLaw(d, o.dev, s)
          /\ o.dev.sessions[s].ranging_count = d.sessions[s].ranging_count
      BY <2>2, ProgressDataTransferSound, ProgressDataTransferLaw
    <3>2. goesOn \in BOOLEAN
      <4>1. o.dev.sessions[s] \in Session
        <5> HIDE DEF o
        <5> QED BY <3>1, SessionOf DEF Sound
      <4> HIDE DEF o
      <4> QED BY <4>1 DEF Session
    <3>3. LET r == Continue(o.dev, out, "DATA_TRANSFER", s, goesOn).dev
          IN  ServeLaw(d, r, s) /\ r.sessions = o.dev.sessions
      <4> HIDE DEF o, goesOn
      <4> QED BY <3>1, <3>2, ContinueLaw DEF EventTypes
    <3>4. ProcessDataTransfer(d, out, s) =
            IF ~o.ok THEN Engine(o.dev, out, -1)
            ELSE Continue(o.dev, out, "DATA_TRANSFER", s, goesOn)
      BY <2>2 DEF ProcessDataTransfer
    <3> HIDE DEF o, goesOn
    <3> QED BY <3>1, <3>3, <3>4 DEF Engine
  <2> QED BY <2>1, <2>2
<1> QED BY <1>1, <1>2 DEF ProcessReadyEvent

-----------------------------------------------------------------------------
(* What a tick does to the array: the entries that left belong to sessions *)
(* that were stopped, but for the one that was served, which was the first *)
(* due; only an event of the stream lets its session count.                *)
DueFirst(E, e, ms) ==
  /\ Age(e, ms).delay = 0
  /\ \A k \in E : k.pos < e.pos => Age(k, ms).delay > 0
TickedEvents(d, r, ms) ==
  \E f : /\ Leads(d.events, r.events, f, ms) /\ Waits(r, f)
         /\ \A e \in d.events \ DOMAIN f :
              r.sessions[e.sid].state = "IDLE" \/ DueFirst(d.events, e, ms)
         /\ \A s \in Sid :
              r.sessions[s].ranging_count > d.sessions[s].ranging_count =>
                \E e \in d.events \ DOMAIN f :
                  IsEventOf(e, "RANGE_DATA", s) /\ Age(e, ms).delay = 0
TickedSessions(d, r) ==
  /\ \A s \in Sid : /\ r.sessions[s].interval = d.sessions[s].interval
                    /\ d.sessions[s].state = "IDLE" => r.sessions[s].state = "IDLE"
  /\ d.events = {} => r.events = {} /\ r.sessions = d.sessions

(* When the first change leaves no entry new, the second one decides which *)
(* are.                                                                    *)
LEMMA ThenAll ==
  ASSUME NEW f, NEW g, DOMAIN g \subseteq Image(f)
  PROVE  Image(Then(f, g)) = Image(g)
<1> DEFINE h == Then(f, g)
<1>1. /\ DOMAIN h = {k \in DOMAIN f : f[k] \in DOMAIN g}
      /\ \A e \in DOMAIN h : h[e] = g[f[e]]
      /\ \A c \in Image(g) \ Image(h) : \E y \in DOMAIN g : c = g[y] /\ y \notin Image(f)
  BY ThenIs
<1> HIDE DEF h
<1>2. ASSUME NEW c \in Image(h) PROVE c \in Image(g)
  <2>1. PICK e \in DOMAIN h : c = h[e] BY DEF Image
  <2> QED BY <1>1, <2>1 DEF Image
<1>3. Image(g) \ Image(h) = {} BY <1>1
<1>4. Image(h) = Image(g) BY <1>2, <1>3
<1> QED BY <1>4 DEF h

(* The law of a tick of ms milliseconds.  In the tick of a submit, ms = 0: *)
(* a session all of whose events wait a positive interval is not served.   *)
TickLaw(d, r, ms) ==
  /\ Lifecycle!BudgetEnd(View(d), View(r))
  /\ \A s \in Sid : CountLaw(d.sessions[s], r.sessions[s])
  /\ ms = 0 => \A s \in Sid : Fresh(d, s) => Fresh(r, s)
  /\ TickedEvents(d, r, ms) /\ TickedSessions(d, r)

(* When no time has passed every delay is what it was.                     *)
LEMMA ZeroTick ==
  ASSUME NEW d, DeviceOK(d)
  PROVE  TickEvents(d, 0).events = d.events
<1>1. \A e \in d.events : Age(e, 0) = e
  BY DEF DeviceOK, DeviceState, Event, Age
<1>2. TickEvents(d, 0).events = {Age(e, 0) : e \in d.events}
  BY DEF TickEvents, DeviceOK, DeviceState
<1> QED BY <1>1, <1>2

(* No entry is due: all are kept, aged.                                    *)
LEMMA QuietTickEvents ==
  ASSUME NEW d, Sound(d), NEW ms \in Nat
  PROVE  LET t == TickEvents(d, ms) IN TickedEvents(d, t, ms) /\ TickedSessions(d, t)
<1> DEFINE t == TickEvents(d, ms)
<1> DEFINE f == [e \in d.events |-> Age(e, ms)]
<1>1. d.events \subseteq Event /\ d.sessions \in [Sid -> Session]
  BY DEF Sound, DeviceOK, DeviceState
<1>2. t.events = {Age(e, ms) : e \in d.events} /\ t.sessions = d.sessions
  BY DEF TickEvents, Sound, DeviceOK, DeviceState
<1> HIDE DEF t
<1>3. Leads(d.events, t.events, f, ms) /\ Image(f) = t.events /\ DOMAIN f = d.events
  BY <1>1, <1>2, LeadsAged
<1>4. \A s \in Sid : ~(t.sessions[s].ranging_count > d.sessions[s].ranging_count)
  BY <1>1, <1>2 DEF Session
<1> HIDE DEF f
<1>5. TickedEvents(d, t, ms) BY <1>3, <1>4 DEF TickedEvents, Waits
<1>6. TickedSessions(d, t) BY <1>2 DEF TickedSessions
<1> QED BY <1>5, <1>6 DEF t

(* The entry x of the aged array is served.                                *)
LEMMA ServedTickEvents ==
  ASSUME NEW d, Sound(d), NEW ms \in Nat, NEW x, NEW r,
         LET t == TickEvents(d, ms)
             u == RemoveEvent(t, x)
         IN  /\ x \in ReadyEvents(t) /\ \A k \in ReadyEvents(t) : x.pos <= k.pos
             /\ ServeLaw(u, r, x.sid)
             /\ x.type # "RANGE_DATA" =>
                  r.sessions[x.sid].ranging_count = u.sessions[x.sid].ranging_count
  PROVE  TickedEvents(d, r, ms) /\ TickedSessions(d, r)
<1> DEFINE t == TickEvents(d, ms)
<1> DEFINE K == t.events \ {x}
<1> DEFINE u == RemoveEvent(t, x)
<1> DEFINE f1 == [e \in d.events |-> Age(e, ms)]
<1> DEFINE f2 == [e \in K |-> Moved(e, Rank(K, e.pos))]
<1>1. d.events \subseteq Event /\ d.sessions \in [Sid -> Session]
  BY DEF Sound, DeviceOK, DeviceState
<1>2. t.events = {Age(e, ms) : e \in d.events} /\ t.sessions = d.sessions
  BY DEF TickEvents, Sound, DeviceOK, DeviceState
<1>3. DeviceOK(t) /\ DenseSet(t.events) BY TickEventsType DEF Sound
<1>4. /\ x \in ReadyEvents(t) /\ \A k \in ReadyEvents(t) : x.pos <= k.pos
      /\ ServeLaw(u, r, x.sid)
      /\ x.type # "RANGE_DATA" =>
           r.sessions[x.sid].ranging_count = u.sessions[x.sid].ranging_count
  OBVIOUS
<1> HIDE DEF t
<1>5. x \in t.events /\ x.delay = 0 /\ x \in Event /\ x.sid \in Sid /\ x.pos \in Nat
  BY <1>3, <1>4 DEF ReadyEvents, DeviceOK, DeviceState, Event
<1>6. u.events = InOrder(K) /\ u.sessions = d.sessions
  <2>1. u = [t EXCEPT !.events = InOrder(K)] BY <1>3, <1>5, LoopsAre
  <2> HIDE DEF K, u
  <2> QED BY <1>2, <1>3, <2>1 DEF DeviceOK, DeviceState
<1> HIDE DEF u
<1>7. /\ Leads(d.events, t.events, f1, ms) /\ Image(f1) = t.events
      /\ DOMAIN f1 = d.events /\ \A e \in d.events : f1[e] = Age(e, ms)
  BY <1>1, <1>2, LeadsAged
<1>8. Leads(t.events, u.events, f2, 0) /\ Image(f2) = u.events /\ DOMAIN f2 = K
  <2>1. /\ t.events \subseteq Event /\ IsFiniteSet(t.events) /\ Distinct(t.events)
    BY <1>3, DenseDistinct DEF DeviceOK, DeviceState
  <2>2. K \in SUBSET t.events OBVIOUS
  <2> HIDE DEF K
  <2> QED BY <1>6, <2>1, <2>2, LeadsPart
<1>9. PICK f3 : /\ Leads(u.events, r.events, f3, 0) /\ Waits(r, f3)
                /\ \A e \in u.events \ DOMAIN f3 : r.sessions[e.sid].state = "IDLE"
  BY <1>4 DEF ServeLaw, ServedEvents
<1> HIDE DEF f1, f2
<1> DEFINE g == Then(f1, f2)
<1> DEFINE h == Then(g, f3)
<1>10. Leads(d.events, r.events, h, ms)
  <2>1. Leads(d.events, u.events, g, ms + 0) BY <1>7, <1>8, LeadsThen
  <2>2. ms + 0 = ms OBVIOUS
  <2> HIDE DEF g
  <2>3. Leads(d.events, r.events, h, ms + 0) BY <1>9, <2>1, <2>2, LeadsThen
  <2> QED BY <2>2, <2>3
<1>11. Image(h) = Image(f3)
  <2>1. DOMAIN f2 \subseteq Image(f1) BY <1>7, <1>8
  <2>2. Image(g) = u.events BY <1>8, <2>1, ThenAll
  <2>3. DOMAIN f3 \subseteq Image(g) BY <1>9, <2>2 DEF Leads
  <2> HIDE DEF g
  <2> QED BY <2>3, ThenAll
<1>12. Waits(r, h) BY <1>9, <1>11 DEF Waits
<1>13. DOMAIN h = {e \in d.events : Age(e, ms) # x /\ f2[Age(e, ms)] \in DOMAIN f3}
  <2>1. /\ DOMAIN g = {e \in d.events : Age(e, ms) \in K}
        /\ \A e \in DOMAIN g : g[e] = f2[Age(e, ms)]
    <3>1. /\ DOMAIN g = {k \in DOMAIN f1 : f1[k] \in DOMAIN f2}
          /\ \A e \in DOMAIN g : g[e] = f2[f1[e]]
          /\ \A c \in Image(f2) \ Image(g) :
               \E y \in DOMAIN f2 : c = f2[y] /\ y \notin Image(f1)
      BY ThenIs
    <3> HIDE DEF g, K
    <3> QED BY <1>7, <1>8, <3>1
  <2>2. \A e \in DOMAIN g : g[e] = f2[Age(e, ms)] BY <2>1
  <2> HIDE DEF g
  <2>3. DOMAIN h = {e \in DOMAIN g : g[e] \in DOMAIN f3}
    <3>1. /\ DOMAIN h = {k \in DOMAIN g : g[k] \in DOMAIN f3}
          /\ \A e \in DOMAIN h : h[e] = f3[g[e]]
          /\ \A c \in Image(f3) \ Image(h) :
               \E y \in DOMAIN f3 : c = f3[y] /\ y \notin Image(g)
      BY ThenIs
    <3> QED BY <3>1
  <2> QED BY <1>2, <2>1, <2>2, <2>3
<1> HIDE DEF h, g
<1>14. ASSUME NEW e \in d.events \ DOMAIN h
       PROVE  r.sessions[e.sid].state = "IDLE" \/ DueFirst(d.events, e, ms)
  <2> DEFINE y == Age(e, ms)
  <2>0. y \in t.events /\ y.sid = e.sid /\ y.pos = e.pos BY <1>1, <1>2, AgeIs
  <2>1. CASE y = x
    <3>1. ASSUME NEW k \in d.events, k.pos < e.pos PROVE Age(k, ms).delay > 0
      <4>1. Age(k, ms) \in t.events /\ Age(k, ms).pos = k.pos /\ Age(k, ms) \in Event
        BY <1>1, <1>2, AgeIs
      <4>2. Age(k, ms).delay # 0
        <5>1. Age(k, ms).delay = 0 => x.pos <= k.pos BY <1>4, <4>1 DEF ReadyEvents
        <5>2. k.pos \in Nat /\ e.pos = x.pos BY <1>1, <2>0, <2>1 DEF Event
        <5> QED BY <1>5, <3>1, <5>1, <5>2
      <4> QED BY <4>1, <4>2 DEF Event
    <3>2. y.delay = 0 BY <1>5, <2>1
    <3> QED BY <3>1, <3>2 DEF DueFirst
  <2>2. CASE y # x
    <3>1. y \in DOMAIN f2 /\ f2[y] \notin DOMAIN f3 BY <1>8, <1>13, <2>0, <2>2
    <3>2. f2[y] \in u.events /\ f2[y].sid = y.sid BY <1>8, <3>1 DEF Leads
    <3>3. r.sessions[f2[y].sid].state = "IDLE" BY <1>9, <3>1, <3>2
    <3> QED BY <2>0, <3>2, <3>3
  <2> QED BY <2>1, <2>2
<1>15. ASSUME NEW s \in Sid, r.sessions[s].ranging_count > d.sessions[s].ranging_count
       PROVE  \E e \in d.events \ DOMAIN h :
                IsEventOf(e, "RANGE_DATA", s) /\ Age(e, ms).delay = 0
  <2>1. d.sessions[s].ranging_count \in Nat BY <1>1 DEF Session
  <2>2. s = x.sid /\ x.type = "RANGE_DATA"
    BY <1>4, <1>5, <1>6, <1>15, <2>1 DEF ServeLaw
  <2>3. PICK e \in d.events : x = Age(e, ms) BY <1>2, <1>5
  <2>4. e \notin DOMAIN h BY <1>13, <2>3
  <2>5. x.type = e.type /\ x.sid = e.sid BY <1>1, <2>3, AgeIs
  <2> QED BY <1>5, <2>2, <2>3, <2>4, <2>5 DEF IsEventOf
<1>16. TickedEvents(d, r, ms) BY <1>10, <1>12, <1>14, <1>15 DEF TickedEvents
<1>17. TickedSessions(d, r)
  <2>1. d.events # {} BY <1>2, <1>5
  <2>2. \A s \in Sid : /\ r.sessions[s].interval = d.sessions[s].interval
                       /\ d.sessions[s].state = "IDLE" => r.sessions[s].state = "IDLE"
    BY <1>4, <1>5, <1>6 DEF ServeLaw, SessionLaw
  <2> QED BY <2>1, <2>2 DEF TickedSessions
<1> QED BY <1>16, <1>17

(* uci_sim_engine_tick obeys its law.                                      *)
LEMMA EngineTickLaw ==
  ASSUME NEW d, Sound(d), NEW out, QueueOK(out), NEW ms \in Nat, NEW hit \in BOOLEAN
  PROVE  TickLaw(d, EngineTick(d, out, ms, hit).dev, ms)
<1> DEFINE t == TickEvents(d, ms)
<1> DEFINE R == ReadyEvents(t)
<1> DEFINE e == FirstReadyEvent(t)
<1>0. d.sessions \in [Sid -> Session] BY DEF Sound, DeviceOK, DeviceState
<1>1. /\ DeviceOK(t) /\ t.sessions = d.sessions /\ EventsFrom(t, d)
      /\ DenseSet(t.events)
  BY TickEventsType DEF Sound
<1>2. Sound(t)
  <2> HIDE DEF t
  <2> QED BY <1>1, QuietFrame DEF Sound
<1>3. ms = 0 => t.events = d.events BY ZeroTick DEF Sound
<1>4. CASE R = {}
  <2>1. EngineTick(d, out, ms, hit).dev = t
    BY <1>4, EngineTickIs DEF Engine
  <2>6. TickedEvents(d, t, ms) /\ TickedSessions(d, t) BY QuietTickEvents
  <2> HIDE DEF t
  <2>2. \A s \in Sid : CountLaw(d.sessions[s], t.sessions[s])
    BY <1>0, <1>1 DEF CountLaw, Session
  <2>3. ms = 0 => \A s \in Sid : Fresh(d, s) => Fresh(t, s)
    BY <1>1, <1>3 DEF Fresh
  <2>4. View(t) = View(d) BY <1>1 DEF View
  <2>5. TickLaw(d, t, ms) BY <2>2, <2>3, <2>4, <2>6 DEF TickLaw, Lifecycle!BudgetEnd
  <2> QED BY <2>1, <2>5
<1>5. CASE R # {}
  <2> DEFINE u == RemoveEvent(t, e)
  <2> DEFINE r == ProcessReadyEvent(u, out, e, hit).dev
  <2>4. e.sid \in Sid /\ e \in t.events /\ e.delay = 0
    <3>1. e \in ReadyEvents(t) /\ e \in t.events /\ e \in Event
      BY <1>5, EngineTickIs
    <3> HIDE DEF e, t
    <3> QED BY <3>1 DEF Event, ReadyEvents
  <2>7. EngineTick(d, out, ms, hit).dev = r
    BY <1>5, EngineTickIs
  <2>13. e \in ReadyEvents(t) /\ \A k \in ReadyEvents(t) : e.pos <= k.pos
    BY <1>5, EngineTickIs
  <2> HIDE DEF t
  <2>5. /\ DeviceOK(u) /\ u.sessions = t.sessions /\ EventsFrom(u, t)
        /\ DenseSet(u.events)
        /\ \A c \in u.events : \E f \in t.events : SameEvent(c, f)
    <3> HIDE DEF e
    <3> QED BY <1>1, <2>4, RemoveEventType, RemoveEventKeeps
  <2>6. Sound(u)
    <3> HIDE DEF u
    <3> QED BY <1>2, <2>5, QuietFrame DEF Sound
  <2> HIDE DEF u, e, R
  <2>8. /\ ServeLaw(u, r, e.sid)
        /\ e.type # "RANGE_DATA" =>
             r.sessions[e.sid].ranging_count = u.sessions[e.sid].ranging_count
    BY <2>4, <2>6, ProcessReadyEventLaw
  <2> HIDE DEF r
  <2>9. \A s \in Sid : CountLaw(d.sessions[s], r.sessions[s])
    <3> TAKE s \in Sid
    <3>1. CASE s = e.sid BY <1>1, <2>5, <2>8, <3>1 DEF ServeLaw, SessionLaw
    <3>2. CASE s # e.sid BY <1>0, <1>1, <2>5, <2>8, <3>2 DEF ServeLaw, CountLaw, Session
    <3> QED BY <3>1, <3>2
  <2>10. ms = 0 => \A s \in Sid : Fresh(d, s) => Fresh(r, s)
    <3> SUFFICES ASSUME ms = 0, NEW s \in Sid, Fresh(d, s) PROVE Fresh(r, s)
      OBVIOUS
    <3>1. s # e.sid BY <1>3, <2>4 DEF Fresh
    <3>2. r.sessions[s] = d.sessions[s] BY <1>1, <2>5, <2>8, <3>1 DEF ServeLaw
    <3>3. \A c \in r.events : c.sid = s => c.delay = d.sessions[s].interval
      BY <1>3, <2>5, <2>8, <3>1 DEF ServeLaw, KeepsOthers, SameEvent, Fresh
    <3> QED BY <3>2, <3>3 DEF Fresh
  <2>11. Lifecycle!BudgetEnd(View(d), View(r))
    <3>1. \A s \in Sid \ {e.sid} : r.sessions[s] = d.sessions[s]
      BY <1>1, <2>5, <2>8 DEF ServeLaw
    <3>2. \/ r.sessions[e.sid].state = d.sessions[e.sid].state
          \/ /\ d.sessions[e.sid].state = "ACTIVE"
             /\ r.sessions[e.sid].state = "IDLE"
      BY <1>1, <2>5, <2>8 DEF ServeLaw, SessionLaw
    <3>3. CASE r.sessions[e.sid].state = d.sessions[e.sid].state
      <4>1. View(r) = View(d) BY <3>1, <3>3 DEF View
      <4> QED BY <4>1 DEF Lifecycle!BudgetEnd
    <3>4. CASE d.sessions[e.sid].state = "ACTIVE" /\ r.sessions[e.sid].state = "IDLE"
      <4>1. View(r) = [View(d) EXCEPT ![e.sid] = "IDLE"]
        BY <2>4, <3>1, <3>4 DEF View
      <4>2. View(d)[e.sid] = "ACTIVE" BY <2>4, <3>4 DEF View
      <4> QED BY <2>4, <4>1, <4>2
             DEF Lifecycle!BudgetEnd, Lifecycle!Stop, Lifecycle!Moves
    <3> QED BY <3>2, <3>3, <3>4
  <2>14. TickedEvents(d, r, ms) /\ TickedSessions(d, r)
    BY <2>8, <2>13, ServedTickEvents DEF t, u
  <2>12. TickLaw(d, r, ms) BY <2>9, <2>10, <2>11, <2>14 DEF TickLaw
  <2> QED BY <2>7, <2>12
<1> QED BY <1>4, <1>5

-----------------------------------------------------------------------------
(* The other half: the law of a handler.  Only SESSION_START makes an IDLE *)
(* session ACTIVE, and what it schedules waits one interval.               *)
(* The entries that left the array belong to sessions that were stopped,   *)
(* are all those of a reset device, or were rescheduled; an event of the   *)
(* stream that is new is not due.                                          *)
Stopped(e, r) ==
  r.sessions[e.sid].state = "IDLE" \/ (Allocated(r) = {} /\ r.events = {})
Rescheduled(e, r, f) ==
  /\ \A k \in DOMAIN f : ~IsEventOf(k, e.type, e.sid)
  /\ \E c \in r.events \ Image(f) : IsEventOf(c, e.type, e.sid)
CommandEvents(d, r) ==
  \E f : /\ Leads(d.events, r.events, f, 0) /\ Waits(r, f)
         /\ \A c \in r.events \ Image(f) : c.type = "RANGE_DATA" => c.delay > 0
         /\ \A e \in d.events \ DOMAIN f :
              Stopped(e, r) \/ (e.type = "RANGE_DATA" /\ Rescheduled(e, r, f))
CommandLaw(d, r) ==
  /\ Lifecycle!Command(View(d), View(r))
  /\ CommandEvents(d, r)
  /\ \A s \in Sid : r.sessions[s].ranging_count \in 0 .. d.sessions[s].ranging_count
  /\ \A s \in Sid : d.sessions[s].state = "IDLE" /\ Active(r, s) => Fresh(r, s)

(* The states and the counters are left alone.                             *)
SameProgress(d, r) ==
  \A s \in Sid : /\ r.sessions[s].state = d.sessions[s].state
                 /\ r.sessions[s].ranging_count = d.sessions[s].ranging_count

(* No session is released.                                                 *)
Grows(d, r) == Allocated(d) \subseteq Allocated(r)

(* The array is left alone.                                                *)
LEMMA SameEventsCommand ==
  ASSUME NEW d, d.events \subseteq Event, NEW r, r.events = d.events
  PROVE  CommandEvents(d, r)
<1> DEFINE f == [e \in d.events |-> e]
<1>1. Leads(d.events, d.events, f, 0) /\ Image(f) = d.events /\ DOMAIN f = d.events
  BY LeadsSame
<1> HIDE DEF f
<1> QED BY <1>1 DEF CommandEvents, Waits

(* An event that waits the interval of its session is added.               *)
LEMMA ScheduleCommand ==
  ASSUME NEW d, NEW d1, DeviceOK(d1), DenseSet(d1.events), d1.events = d.events,
         NEW type \in EventTypes, NEW s \in Sid, NEW ms \in Nat,
         ms = d1.sessions[s].interval, type = "RANGE_DATA" => ms > 0
  PROVE  CommandEvents(d, ScheduleEvent(d1, type, s, ms))
<1> DEFINE f == [e \in d.events |-> e]
<1> DEFINE r == ScheduleEvent(d1, type, s, ms)
<1>0. d.events \subseteq Event BY DEF DeviceOK, DeviceState
<1>1. Leads(d.events, d.events, f, 0) /\ Image(f) = d.events /\ DOMAIN f = d.events
  BY <1>0, LeadsSame
<1>2. r.sessions = d1.sessions BY ScheduleEventType
<1> HIDE DEF f
<1>3. Leads(d.events, d1.events, f, 0) BY <1>1
<1>4. LET q == ScheduleEvent(d1, type, s, ms)
          Has(c) == IsEventOf(c, type, s) /\ c.delay = ms
      IN  /\ Leads(d.events, q.events, f, 0)
          /\ \A c \in q.events \ Image(f) : c \in d1.events \ Image(f) \/ Has(c)
          /\ CanSchedule(d1) => \E c \in q.events \ Image(f) : Has(c)
  BY <1>3, ScheduleLeads
<1>5. /\ Leads(d.events, r.events, f, 0)
      /\ \A c \in r.events \ Image(f) : IsEventOf(c, type, s) /\ c.delay = ms
  BY <1>1, <1>4
<1> HIDE DEF r
<1>6. CommandEvents(d, r) BY <1>1, <1>2, <1>5 DEF CommandEvents, Waits, IsEventOf
<1> QED BY <1>6 DEF r

(* A handler that leaves states and counters alone obeys the law.          *)
LEMMA SameProgressLaw ==
  ASSUME NEW d, DeviceOK(d), NEW r, SameProgress(d, r), CommandEvents(d, r)
  PROVE  CommandLaw(d, r) /\ Grows(d, r)
<1>1. View(r) = View(d) BY DEF View, SameProgress
<1>2. \A s \in Sid : d.sessions[s].ranging_count \in Nat
  BY DEF DeviceOK, DeviceState, Session
<1>3. CommandLaw(d, r)
  BY <1>1, <1>2 DEF CommandLaw, Lifecycle!Command, SameProgress, Active
<1>4. Grows(d, r) BY DEF Grows, Allocated, SameProgress
<1> QED BY <1>3, <1>4

(* A change of one session that keeps its state and its counter.           *)
LEMMA SetSessionProgress ==
  ASSUME NEW d, DeviceOK(d), NEW s \in Sid, NEW w \in Session, s \in Allocated(d),
         w.state = d.sessions[s].state,
         w.ranging_count = d.sessions[s].ranging_count
  PROVE  DeviceOK(SetSession(d, s, w)) /\ SameProgress(d, SetSession(d, s, w))
<1> DEFINE r == SetSession(d, s, w)
<1>1. DeviceOK(r) /\ r.sessions = [d.sessions EXCEPT ![s] = w] BY SetSessionType
<1>2. d.sessions \in [Sid -> Session] BY DEF DeviceOK, DeviceState
<1> HIDE DEF r
<1>3. DeviceOK(r) /\ SameProgress(d, r) BY <1>1, <1>2 DEF SameProgress
<1> QED BY <1>3 DEF r

(* A rejected command changes nothing.                                     *)
LEMMA RejectLaw ==
  ASSUME NEW d, DeviceOK(d), NEW code
  PROVE  /\ CommandLaw(d, Reject(d, code).dev) /\ CommandLaw(d, Respond(d, code).dev)
         /\ Grows(d, Reject(d, code).dev) /\ Grows(d, Respond(d, code).dev)
<1>1. Reject(d, code).dev = d /\ Respond(d, code).dev = d
  BY DEF Reject, Respond, Result
<1>2. SameProgress(d, d) BY DEF SameProgress
<1>3. CommandEvents(d, d) BY SameEventsCommand DEF DeviceOK, DeviceState
<1> QED BY <1>1, <1>2, <1>3, SameProgressLaw

(* CORE_DEVICE_RESET.                                                      *)
LEMMA DeviceResetLaw ==
  ASSUME NEW d, Sound(d)
  PROVE  CommandLaw(d, HandleDeviceReset(d).dev) /\ Allocated(HandleDeviceReset(d).dev) = {}
<1> DEFINE d1 == [InitDevice EXCEPT !.lost = d.lost]
<1> DEFINE r == HandleDeviceReset(d).dev
<1>1. d.lost \in BOOLEAN /\ d.sessions \in [Sid -> Session]
  BY DEF Sound, DeviceOK, DeviceState
<1>2. Sound(d1) BY <1>1, InitDeviceSound
<1>3. d1.sessions = [s \in Sid |-> FreeSession] /\ d1.events = {} BY DEF InitDevice
<1>4. r.sessions = d1.sessions /\ r.events = d1.events
  <2>1. DeviceStatusNtf \in Packet BY PacketTypes
  <2>2. r = DeliverNotification(Respond(d1, "OK"), DeviceStatusNtf).dev
    BY DEF HandleDeviceReset
  <2> HIDE DEF d1, r
  <2> QED BY <1>2, <2>1, <2>2, AnnounceOK
<1>5. FreeSession.state = "NONE" /\ FreeSession.ranging_count = 0
  BY SessionTypes DEF FreeSession, Session, NewSession
<1> HIDE DEF r, d1
<1>6. View(r) = [s \in Sid |-> "NONE"] BY <1>3, <1>4, <1>5 DEF View
<1>7. Lifecycle!Command(View(d), View(r))
  BY <1>6 DEF Lifecycle!Command, Lifecycle!Reset
<1>9. Allocated(r) = {} BY <1>3, <1>4, <1>5 DEF Allocated
<1>10. CommandEvents(d, r)
  <2> DEFINE f == [e \in {} |-> e]
  <2>1. DOMAIN f = {} OBVIOUS
  <2> HIDE DEF f
  <2>2. Leads(d.events, {}, f, 0)
    BY <2>1 DEF Leads, Sound, DeviceOK, DeviceState
  <2> QED BY <1>3, <1>4, <1>9, <2>2 DEF CommandEvents, Waits, Stopped
<1>8. CommandLaw(d, r)
  BY <1>1, <1>3, <1>4, <1>5, <1>7, <1>10 DEF CommandLaw, Active, Session
<1> QED BY <1>8, <1>9 DEF r

(* The sessions of the abstract view that exist are the allocated ones.    *)
LEMMA ExistingAllocated ==
  ASSUME NEW d
  PROVE  Lifecycle!Existing(View(d)) = Allocated(d)
BY DEF Lifecycle!Existing, View, Allocated

(* SESSION_INIT.                                                           *)
LEMMA SessionInitLaw ==
  ASSUME NEW d, Sound(d), NEW s \in Sid
  PROVE  CommandLaw(d, HandleSessionInit(d, s).dev) /\ Grows(d, HandleSessionInit(d, s).dev)
<1>0. DeviceOK(d) /\ d.sessions \in [Sid -> Session] BY DEF Sound, DeviceOK, DeviceState
<1>1. CASE s \notin Allocated(d) /\ Cardinality(Allocated(d)) >= MAX_SESSIONS
  BY <1>0, <1>1, RejectLaw DEF HandleSessionInit
<1>2. CASE s \in Allocated(d)
  <2> DEFINE n == SessionStatusNtf(s, d.sessions[s].state)
  <2> DEFINE r == HandleSessionInit(d, s).dev
  <2>1. r = DeliverNotification(Respond(d, "OK"), n).dev
    BY <1>2 DEF HandleSessionInit
  <2>2. n \in Packet
    BY <1>0, PacketTypes DEF Session, SessionStates, Codes
  <2> HIDE DEF n, r
  <2>3. r.sessions = d.sessions /\ r.events = d.events BY <2>1, <2>2, AnnounceOK
  <2>5. CommandEvents(d, r) BY <1>0, <2>3, SameEventsCommand DEF DeviceOK, DeviceState
  <2>4. CommandLaw(d, r) /\ Grows(d, r)
    BY <1>0, <2>3, <2>5, SameProgressLaw DEF SameProgress
  <2> QED BY <2>4 DEF r
<1>3. CASE s \notin Allocated(d) /\ ~(Cardinality(Allocated(d)) >= MAX_SESSIONS)
  <2> DEFINE d1 == SetSession(d, s, NewSession)
  <2> DEFINE res == Respond(d1, "OK")
  <2> DEFINE n == SessionStatusNtf(s, d1.sessions[s].state)
  <2> DEFINE r == HandleSessionInit(d, s).dev
  <2>1. d1.sessions = [d.sessions EXCEPT ![s] = NewSession] /\ d1.events = d.events
    BY <1>0 DEF SetSession, DeviceOK, DeviceState
  <2>2. r.sessions = d1.sessions /\ r.events = d1.events
    <3>1. r = DeliverNotification(res, n).dev BY <1>3 DEF HandleSessionInit
    <3>2. res.dev = d1 BY DEF Respond, Result
    <3>3. /\ DeliverNotification(res, n).dev.sessions = d1.sessions
          /\ DeliverNotification(res, n).dev.events = d1.events
      <4>1. CASE ~ShouldDefer /\ res.ntf = << >>
        BY <3>2, <4>1 DEF DeliverNotification, Respond, Result
      <4>2. CASE ~(~ShouldDefer /\ res.ntf = << >>)
        <5>1. DeliverNotification(res, n).dev = QueueNotification(d1, n)
          BY <4>2 DEF DeliverNotification, Respond, Result
        <5>2. d1 = [d EXCEPT !.sessions = d1.sessions]
          BY <1>0 DEF SetSession, DeviceOK, DeviceState
        <5>3. /\ QueueNotification(d1, n).sessions = d1.sessions
              /\ QueueNotification(d1, n).events = d1.events
          BY <1>0, <5>2 DEF QueueNotification, DeviceOK, DeviceState
        <5> QED BY <5>1, <5>3
      <4> QED BY <4>1, <4>2
    <3> QED BY <3>1, <3>3
  <2>3. NewSession.state = "INIT" /\ NewSession.ranging_count = 0 BY DEF NewSession
  <2>4. d.sessions[s].state = "NONE" BY <1>3 DEF Allocated
  <2> HIDE DEF d1, r
  <2>5. View(r) = [View(d) EXCEPT ![s] = "INIT"] BY <1>0, <2>1, <2>2, <2>3 DEF View
  <2>6. View(d)[s] = "NONE" BY <2>4 DEF View
  <2>7. Lifecycle!Cardinality(Lifecycle!Existing(View(d))) < MAX_SESSIONS
    <3>1. Lifecycle!Cardinality(Allocated(d)) = Cardinality(Allocated(d))
      BY DEF Cardinality, Lifecycle!Cardinality
    <3> QED BY <1>3, <3>1, ExistingAllocated, AllocatedFinite, SizesAssumption
  <2>8. Lifecycle!Command(View(d), View(r))
    BY <2>5, <2>6, <2>7 DEF Lifecycle!Command, Lifecycle!Create, Lifecycle!Moves
  <2>9. \A x \in Sid : r.sessions[x].ranging_count \in 0 .. d.sessions[x].ranging_count
    BY <1>0, <2>1, <2>2, <2>3 DEF Session
  <2>10. \A x \in Sid : d.sessions[x].state = "IDLE" => ~Active(r, x)
    BY <1>0, <2>1, <2>2, <2>3 DEF Active
  <2>13. CommandEvents(d, r)
    BY <1>0, <2>1, <2>2, SameEventsCommand DEF DeviceOK, DeviceState
  <2>11. CommandLaw(d, r) BY <2>8, <2>9, <2>10, <2>13 DEF CommandLaw
  <2>12. Grows(d, r) BY <1>0, <2>1, <2>2, <2>3 DEF Grows, Allocated
  <2> QED BY <2>11, <2>12 DEF r
<1> QED BY <1>1, <1>2, <1>3

(* SESSION_DEINIT.                                                         *)
LEMMA SessionDeinitLaw ==
  ASSUME NEW d, Sound(d), NEW s \in Sid
  PROVE  LET r == HandleSessionDeinit(d, s).dev
         IN  /\ CommandLaw(d, r)
             /\ Allocated(d) \ {s} \subseteq Allocated(r) /\ s \notin Allocated(r)
<1>0. DeviceOK(d) /\ d.sessions \in [Sid -> Session] BY DEF Sound, DeviceOK, DeviceState
<1>1. CASE s \notin Allocated(d)
  <2>1. HandleSessionDeinit(d, s).dev = d BY <1>1 DEF HandleSessionDeinit, Reject, Result
  <2> QED BY <1>0, <1>1, <2>1, RejectLaw DEF HandleSessionDeinit, Grows
<1>2. CASE s \in Allocated(d)
  <2> DEFINE n == SessionStatusNtf(s, "DEINIT")
  <2> DEFINE res == DeliverNotification(Respond(d, "OK"), n)
  <2> DEFINE d1 == SetSession(res.dev, s, FreeSession)
  <2> DEFINE r == HandleSessionDeinit(d, s).dev
  <2>1. n \in Packet BY PacketTypes DEF Codes
  <2>2. CommandOK(res) /\ res.dev.sessions = d.sessions /\ res.dev.events = d.events
    <3> HIDE DEF n
    <3> QED BY <2>1, AnnounceOK
  <2>3. FreeSession.state = "NONE" /\ FreeSession.ranging_count = 0
    BY SessionTypes DEF FreeSession, Session, NewSession
  <2>4. /\ DeviceOK(d1) /\ d1.sessions = [d.sessions EXCEPT ![s] = FreeSession]
        /\ d1.events = d.events
    <3> HIDE DEF res
    <3> QED BY <2>2, <2>3, SessionTypes, SetSessionType DEF CommandOK, ResultOK, ResultTyped
  <2>5. r.sessions = [d.sessions EXCEPT ![s] = FreeSession] /\ r.events = d.events
    <3>1. HandleSessionDeinit(d, s) = [res EXCEPT !.dev = d1]
      BY <1>2 DEF HandleSessionDeinit
    <3> HIDE DEF res, d1
    <3>2. r = d1 BY <2>2, <2>4, <3>1, ReplaceDevice DEF CommandOK, ResultOK
    <3> QED BY <2>4, <3>2
  <2> HIDE DEF r, d1, res
  <2>6. View(r) = [View(d) EXCEPT ![s] = "NONE"] BY <1>0, <2>3, <2>5 DEF View
  <2>7. View(d)[s] \in {"INIT", "ACTIVE", "IDLE"}
    BY <1>0, <1>2 DEF View, Allocated, Session, SessionStates
  <2>8. Lifecycle!Command(View(d), View(r))
    BY <2>6, <2>7 DEF Lifecycle!Command, Lifecycle!Destroy, Lifecycle!Moves
  <2>9. \A x \in Sid : r.sessions[x].ranging_count \in 0 .. d.sessions[x].ranging_count
    BY <1>0, <2>3, <2>5 DEF Session
  <2>10. \A x \in Sid : d.sessions[x].state = "IDLE" => ~Active(r, x)
    BY <1>0, <2>3, <2>5 DEF Active
  <2>13. CommandEvents(d, r)
    BY <1>0, <2>5, SameEventsCommand DEF DeviceOK, DeviceState
  <2>11. CommandLaw(d, r) BY <2>8, <2>9, <2>10, <2>13 DEF CommandLaw
  <2>12. Allocated(d) \ {s} \subseteq Allocated(r) /\ s \notin Allocated(r)
    BY <1>0, <2>3, <2>5 DEF Allocated
  <2> QED BY <2>11, <2>12 DEF r
<1> QED BY <1>1, <1>2

(* The hook of SESSION_START, on a session that had nothing scheduled:     *)
(* what it schedules waits the interval of the session.                    *)
LEMMA OnSessionStartedLaw ==
  ASSUME NEW d, Sound(d), NEW s \in Sid, Active(d, s), d.sessions[s].interval > 0
  PROVE  LET r == OnSessionStarted(d, s)
         IN  /\ SameProgress(d, r) /\ CommandEvents(d, r)
             /\ (\A e \in d.events : e.sid # s) => Fresh(r, s)
<1> DEFINE v == d.sessions[s]
<1> DEFINE w == [v EXCEPT !.stream_remaining = BurstCount]
<1> DEFINE armed == SetSession(d, s, w)
<1> DEFINE ms == v.interval
<1> DEFINE x == [type |-> "RANGE_DATA", sid |-> s, delay |-> ms,
                 pos |-> Cardinality(armed.events) + 1]
<1> DEFINE r == OnSessionStarted(d, s)
<1>0. d.sessions \in [Sid -> Session] BY DEF Sound, DeviceOK, DeviceState
<1>1. v \in Session /\ v.state = "ACTIVE" /\ s \in Allocated(d) /\ ms \in Nat
  BY SessionOf DEF Sound, Active, Allocated, Session
<1>2. /\ w \in Session /\ w.state = v.state
      /\ w.ranging_count = v.ranging_count /\ w.interval = ms
  BY <1>1, SizesAssumption DEF Session
<1>3. /\ DeviceOK(armed) /\ armed.sessions = [d.sessions EXCEPT ![s] = w]
      /\ armed.events = d.events /\ SameProgress(d, armed)
  <2> HIDE DEF w
  <2> QED BY <1>1, <1>2, SetSessionType, SetSessionProgress DEF Sound
<1>4. armed = [d EXCEPT !.sessions[s].stream_remaining = BurstCount]
  BY DEF SetSession, Sound, DeviceOK, DeviceState
<1>5. r \in {d, armed, ScheduleEvent(armed, "RANGE_DATA", s, ms)}
  <2> HIDE DEF armed
  <2> QED BY <1>4 DEF OnSessionStarted
<1>6. ScheduleEvent(armed, "RANGE_DATA", s, ms).events
        \in {armed.events, armed.events \cup {x}}
  BY <1>3 DEF ScheduleEvent, DeviceOK, DeviceState
<1>7. x.delay = ms OBVIOUS
<1>8. /\ DeviceOK(ScheduleEvent(armed, "RANGE_DATA", s, ms))
      /\ ScheduleEvent(armed, "RANGE_DATA", s, ms).sessions = armed.sessions
  <2> HIDE DEF armed, ms
  <2> QED BY <1>1, <1>3, ScheduleEventType DEF EventTypes
<1>9. armed.sessions[s].interval = ms
  <2> HIDE DEF armed, w
  <2> QED BY <1>0, <1>2, <1>3
<1>12. CommandEvents(d, r)
  <2>1. d.events \subseteq Event /\ DenseSet(d.events)
    BY DEF Sound, DeviceOK, DeviceState
  <2>2. CommandEvents(d, d) /\ CommandEvents(d, armed)
    <3> HIDE DEF armed
    <3> QED BY <1>3, <2>1, SameEventsCommand
  <2>3. CommandEvents(d, ScheduleEvent(armed, "RANGE_DATA", s, ms))
    <3> HIDE DEF armed, ms
    <3> QED BY <1>1, <1>3, <1>9, <2>1, ScheduleCommand DEF EventTypes, ms
  <2> HIDE DEF armed, r, ms
  <2> QED BY <1>5, <2>2, <2>3
<1> HIDE DEF armed, r, x, w
<1>10. SameProgress(d, r)
  BY <1>3, <1>5, <1>8 DEF SameProgress
<1>11. ASSUME \A e \in d.events : e.sid # s PROVE Fresh(r, s)
  <2>1. \A e \in r.events : e.sid = s => e.delay = ms
    BY <1>3, <1>5, <1>6, <1>7, <1>11
  <2>2. r.sessions[s].interval = ms BY <1>5, <1>8, <1>9
  <2> QED BY <2>1, <2>2 DEF Fresh
<1> QED BY <1>10, <1>11, <1>12 DEF r

(* SESSION_START validates the interval before it starts the session.      *)
LEMMA SessionStartLaw ==
  ASSUME NEW d, Sound(d), NEW s \in Sid, NEW verdict
  PROVE  LET r == HandleSessionStart(d, s, verdict).dev
         IN  CommandLaw(d, r) /\ Grows(d, r)
<1> DEFINE v == d.sessions[s]
<1> DEFINE st == StartVerdict(v, verdict)
<1>0. DeviceOK(d) /\ d.sessions \in [Sid -> Session] BY DEF Sound, DeviceOK, DeviceState
<1>1. CASE s \notin Allocated(d) \/ v.state \notin {"INIT", "IDLE"}
                                 \/ st \notin {"OK", "SURFACED"}
  <2>1. \E code : HandleSessionStart(d, s, verdict) = Reject(d, code)
    BY <1>1 DEF HandleSessionStart
  <2> QED BY <1>0, <2>1, RejectLaw
<1>3. CASE s \in Allocated(d) /\ v.state \in {"INIT", "IDLE"} /\ st = "SURFACED"
  <2> DEFINE n == SessionStatusNtf(s, v.state)
  <2> DEFINE r == HandleSessionStart(d, s, verdict).dev
  <2>1. r = DeliverNotification(Respond(d, "OK"), n).dev
    BY <1>3 DEF HandleSessionStart
  <2>2. n \in Packet BY <1>3, PacketTypes DEF Codes
  <2> HIDE DEF n, r
  <2>3. r.sessions = d.sessions /\ r.events = d.events BY <2>1, <2>2, AnnounceOK
  <2>5. CommandEvents(d, r) BY <1>0, <2>3, SameEventsCommand DEF DeviceOK, DeviceState
  <2>4. CommandLaw(d, r) /\ Grows(d, r)
    BY <1>0, <2>3, <2>5, SameProgressLaw DEF SameProgress
  <2> QED BY <2>4 DEF r
<1>2. CASE /\ s \in Allocated(d) /\ v.state \in {"INIT", "IDLE"}
           /\ st = "OK"
  <2> DEFINE w == [v EXCEPT !.state = "ACTIVE"]
  <2> DEFINE d1 == SetSession(d, s, w)
  <2> DEFINE res == DeliverNotification(Respond(d1, "OK"), SessionStatusNtf(s, "ACTIVE"))
  <2> DEFINE d2 == OnSessionStarted(res.dev, s)
  <2> DEFINE r == HandleSessionStart(d, s, verdict).dev
  <2>1. v \in Session BY <1>0
  <2>2. /\ w \in Session /\ w.state = "ACTIVE" /\ w.interval = v.interval
        /\ w.ranging_count = v.ranging_count
    BY <2>1 DEF Session, SessionStates
  <2>3. /\ Sound(d1) /\ d1.sessions[s] = w /\ d1.events = d.events
        /\ d1.sessions = [d.sessions EXCEPT ![s] = w]
    <3> HIDE DEF w
    <3> QED BY <1>0, <1>2, <2>2, SetSessionSound, SetSessionType
  <2>4. SessionStatusNtf(s, "ACTIVE") \in Packet BY PacketTypes DEF Codes
  <2>5. /\ CommandOK(res) /\ res.dev.sessions = d1.sessions
        /\ res.dev.events = d1.events
    <3> HIDE DEF d1
    <3> QED BY <2>3, <2>4, AnnounceOK
  <2>6. HandleSessionStart(d, s, verdict) = [res EXCEPT !.dev = d2]
    BY <1>2 DEF HandleSessionStart
  <2> HIDE DEF res, w, d1, d2
  <2>7. Sound(res.dev) /\ Active(res.dev, s)
    BY <2>2, <2>3, <2>5 DEF CommandOK, ResultOK, Active
  <2>8. v.interval > 0
    <3>1. ~(v.interval < MinInterval) BY <1>2 DEF StartVerdict
    <3>2. v.interval \in Nat BY <2>1 DEF Session
    <3> HIDE DEF v
    <3> QED BY <3>1, <3>2, IntervalAssumption
  <2>9. /\ SameProgress(res.dev, d2) /\ CommandEvents(res.dev, d2)
        /\ (\A e \in d.events : e.sid # s) => Fresh(d2, s)
    <3>1. res.dev.sessions[s].interval > 0 BY <2>2, <2>3, <2>5, <2>8
    <3> QED BY <2>3, <2>5, <2>7, <3>1, OnSessionStartedLaw DEF d2
  <2>10. r = d2
    <3>1. DeviceOK(d2) BY <2>7, OnSessionStartedSound DEF Sound, d2
    <3> QED BY <2>5, <2>6, <3>1, ReplaceDevice DEF CommandOK, ResultOK
  <2>11. \A x \in Sid : /\ r.sessions[x].state = IF x = s THEN "ACTIVE" ELSE d.sessions[x].state
                        /\ r.sessions[x].ranging_count = d.sessions[x].ranging_count
    BY <1>0, <2>2, <2>3, <2>5, <2>9, <2>10 DEF SameProgress
  <2> HIDE DEF r
  <2>12. View(r) = [View(d) EXCEPT ![s] = "ACTIVE"] BY <2>11 DEF View
  <2>13. View(d)[s] \in {"INIT", "IDLE"} BY <1>2 DEF View
  <2>14. Lifecycle!Command(View(d), View(r))
    BY <2>12, <2>13 DEF Lifecycle!Command, Lifecycle!Start, Lifecycle!Moves
  <2>15. \A x \in Sid : r.sessions[x].ranging_count \in 0 .. d.sessions[x].ranging_count
    BY <1>0, <2>11 DEF Session
  <2>16. \A x \in Sid : d.sessions[x].state = "IDLE" /\ Active(r, x) => Fresh(r, x)
    <3> SUFFICES ASSUME NEW x \in Sid, d.sessions[x].state = "IDLE", Active(r, x)
                 PROVE  Fresh(r, x)
      OBVIOUS
    <3>1. x = s BY <2>11 DEF Active
    <3>2. \A e \in d.events : e.sid # s BY <3>1 DEF Sound, QuietWhenIdle
    <3> QED BY <2>9, <2>10, <3>1, <3>2
  <2>19. CommandEvents(d, r)
    <3>1. res.dev.events = d.events BY <2>3, <2>5
    <3> QED BY <2>9, <2>10, <3>1 DEF CommandEvents
  <2>17. CommandLaw(d, r) BY <2>14, <2>15, <2>16, <2>19 DEF CommandLaw
  <2>18. Grows(d, r) BY <2>11 DEF Grows, Allocated
  <2> QED BY <2>17, <2>18 DEF r
<1> QED BY <1>1, <1>2, <1>3

(* SESSION_STOP.                                                           *)
LEMMA SessionStopLaw ==
  ASSUME NEW d, Sound(d), NEW s \in Sid
  PROVE  CommandLaw(d, HandleSessionStop(d, s).dev) /\ Grows(d, HandleSessionStop(d, s).dev)
<1>0. DeviceOK(d) /\ d.sessions \in [Sid -> Session] BY DEF Sound, DeviceOK, DeviceState
<1>1. CASE s \notin Allocated(d) \/ ~Active(d, s)
  <2>1. \E code : HandleSessionStop(d, s) = Reject(d, code)
    BY <1>1 DEF HandleSessionStop
  <2> QED BY <1>0, <2>1, RejectLaw
<1>2. CASE s \in Allocated(d) /\ Active(d, s)
  <2> DEFINE w == [d.sessions[s] EXCEPT !.state = "IDLE"]
  <2> DEFINE d1 == SetSession(d, s, w)
  <2> DEFINE q == Respond(d1, "OK")
  <2> DEFINE res == DeliverNotification(q, SessionStatusNtf(s, "IDLE"))
  <2>1. w \in Session /\ w.state = "IDLE" /\ w.ranging_count = d.sessions[s].ranging_count
    BY <1>0 DEF Session, SessionStates
  <2>2. /\ DeviceOK(d1) /\ d1.sessions = [d.sessions EXCEPT ![s] = w]
        /\ d1.events = d.events
    <3> HIDE DEF w
    <3> QED BY <1>0, <1>2, <2>1, SetSessionType
  <2>3. ResultTyped(q) /\ q.dev = d1
    <3>1. "OK" \in Codes BY DEF Codes
    <3> HIDE DEF d1
    <3> QED BY <2>2, <3>1, RespondTyped
  <2>4. /\ ResultTyped(res) /\ res.dev.sessions = d1.sessions
        /\ res.dev.events = d1.events
    <3>1. SessionStatusNtf(s, "IDLE") \in Packet BY PacketTypes DEF Codes
    <3> HIDE DEF q
    <3> QED BY <2>3, <3>1, DeliverNotificationTyped
  <2>5. HandleSessionStop(d, s) = [res EXCEPT !.dev = OnSessionStopped(res.dev, s)]
    BY <1>2 DEF HandleSessionStop
  <2> HIDE DEF res, q, d1
  <2> DEFINE e == res.dev
  <2> DEFINE x == [e.sessions[s] EXCEPT !.stream_remaining = 0, !.in_progress = FALSE,
                                        !.reps_remaining = 0, !.tx_count = 0]
  <2> DEFINE e1 == SetSession(e, s, x)
  <2>6. /\ DeviceOK(e) /\ e.sessions = [d.sessions EXCEPT ![s] = w]
        /\ e.events = d.events
    BY <2>2, <2>4 DEF ResultTyped
  <2> HIDE DEF e
  <2>7. e.sessions[s] = w
    <3> HIDE DEF w
    <3> QED BY <1>0, <2>6
  <2>8. x \in Session /\ x.state = "IDLE" /\ x.ranging_count = w.ranging_count
    <3> HIDE DEF w
    <3> QED BY <2>1, <2>7 DEF Session
  <2>9. s \in Allocated(e)
    <3> HIDE DEF w
    <3> QED BY <2>1, <2>7 DEF Allocated
  <2>10. /\ DeviceOK(e1) /\ e1.sessions = [e.sessions EXCEPT ![s] = x]
         /\ e1.events = e.events
    <3> HIDE DEF x
    <3> QED BY <2>6, <2>8, <2>9, SetSessionType
  <2>11. OnSessionStopped(e, s) = CancelSessionEvents(e1, s)
    BY DEF OnSessionStopped
  <2> HIDE DEF e1, x, w
  <2> DEFINE e2 == CancelSessionEvents(e1, s)
  <2>12. DeviceOK(e2) /\ e2.sessions = e1.sessions
    BY <2>6, <2>10, CancelSessionEventsType DEF Sound
  <2> HIDE DEF e2
  <2> DEFINE r == HandleSessionStop(d, s).dev
  <2>13. r = e2 BY <2>4, <2>5, <2>11, <2>12, ReplaceDevice DEF e, e2
  <2> HIDE DEF r
  <2>14. \A y \in Sid : /\ r.sessions[y].state = IF y = s THEN "IDLE" ELSE d.sessions[y].state
                        /\ r.sessions[y].ranging_count = d.sessions[y].ranging_count
    BY <1>0, <2>1, <2>6, <2>8, <2>10, <2>12, <2>13
  <2>15. View(r) = [View(d) EXCEPT ![s] = "IDLE"] BY <2>14 DEF View
  <2>16. View(d)[s] = "ACTIVE" BY <1>2 DEF View, Active
  <2>17. Lifecycle!Command(View(d), View(r))
    BY <2>15, <2>16 DEF Lifecycle!Command, Lifecycle!Stop, Lifecycle!Moves
  <2>18. \A y \in Sid : r.sessions[y].ranging_count \in 0 .. d.sessions[y].ranging_count
    BY <1>0, <2>14 DEF Session
  <2>19. \A y \in Sid : d.sessions[y].state = "IDLE" => ~Active(r, y)
    BY <2>14 DEF Active
  <2>22. CommandEvents(d, r)
    <3> DEFINE K == {y \in d.events : y.sid # s}
    <3> DEFINE f == [y \in K |-> Moved(y, Rank(K, y.pos))]
    <3>1. r.events = InOrder(K)
      <4>1. e2 = [e1 EXCEPT !.events = InOrder({y \in e1.events : y.sid # s})]
        <5>1. DeviceOK(e1) /\ DenseSet(e1.events) BY <2>6, <2>10 DEF Sound
        <5>2. CancelSessionEvents(e1, s) =
                [e1 EXCEPT !.events = InOrder({y \in e1.events : y.sid # s})]
          BY <5>1, LoopsAre
        <5> QED BY <5>2 DEF e2
      <4>2. e1.events = d.events BY <2>6, <2>10
      <4>3. e2.events = InOrder({y \in e1.events : y.sid # s})
        BY <2>10, <4>1 DEF DeviceOK, DeviceState
      <4> QED BY <2>13, <4>2, <4>3
    <3>2. /\ d.events \subseteq Event /\ IsFiniteSet(d.events) /\ Distinct(d.events)
      BY DenseDistinct DEF Sound, DeviceOK, DeviceState
    <3>3. K \in SUBSET d.events /\ \A y \in d.events \ K : y.sid = s OBVIOUS
    <3>4. Leads(d.events, InOrder(K), f, 0) /\ Image(f) = InOrder(K) /\ DOMAIN f = K
      <4> HIDE DEF K
      <4> QED BY <3>2, <3>3, LeadsPart
    <3> HIDE DEF f, K
    <3>5. \A y \in d.events \ DOMAIN f : Stopped(y, r) BY <2>14, <3>3, <3>4 DEF Stopped
    <3> QED BY <3>1, <3>4, <3>5 DEF CommandEvents, Waits
  <2>20. CommandLaw(d, r) BY <2>17, <2>18, <2>19, <2>22 DEF CommandLaw
  <2>21. Grows(d, r) BY <2>14 DEF Grows, Allocated
  <2> QED BY <2>20, <2>21 DEF r
<1> QED BY <1>1, <1>2

(* Storing a parameter does not touch the measurement counter.             *)
LEMMA StoreConfigCount ==
  ASSUME NEW v \in Session, NEW t
  PROVE  StoreConfig(v, t).ranging_count = v.ranging_count
<1> DEFINE val == t.val
<1> HIDE DEF val
<1>1. StoreConfig(v, t) \in {[v EXCEPT !.interval = val], [v EXCEPT !.max_meas = val],
                             [v EXCEPT !.ntf_config = val], [v EXCEPT !.repetition = val]}
  BY DEF StoreConfig, val
<1>2. \A w \in {[v EXCEPT !.interval = val], [v EXCEPT !.max_meas = val],
                [v EXCEPT !.ntf_config = val], [v EXCEPT !.repetition = val]} :
        w.ranging_count = v.ranging_count
  BY DEF Session
<1> QED BY <1>1, <1>2

(* A new interval of a running stream: the scheduled event is replaced. If *)
(* there was one, there is room for the new one.                           *)
LEMMA RescheduleCommand ==
  ASSUME NEW d, NEW d1, DeviceOK(d1), DenseSet(d1.events), d1.events = d.events,
         NEW s \in Sid, NEW ms \in Nat, ms = d1.sessions[s].interval, ms > 0
  PROVE  CommandEvents(d, RescheduleSessionEvent(d1, "RANGE_DATA", s, ms))
<1> DEFINE E == d1.events
<1> DEFINE K == {e \in E : ~IsEventOf(e, "RANGE_DATA", s)}
<1> DEFINE f == [e \in K |-> Moved(e, Rank(K, e.pos))]
<1> DEFINE cut == RemoveEvents(d1, "RANGE_DATA", s)
<1> DEFINE r == ScheduleEvent(cut, "RANGE_DATA", s, ms)
<1>1. /\ E \subseteq Event /\ IsFiniteSet(E) /\ Distinct(E)
      /\ Cardinality(E) \in Nat /\ Cardinality(E) <= MAX_SCENARIO_EVENTS
  BY DenseDistinct, FS_CardinalityType DEF DeviceOK, DeviceState
<1>2. K \in SUBSET E /\ \A e \in E \ K : IsEventOf(e, "RANGE_DATA", s) OBVIOUS
<1>3. DeviceOK(cut) /\ cut.sessions = d1.sessions /\ DenseSet(cut.events)
  BY RemoveEventsType
<1>4. cut.events = InOrder(K)
  <2>1. \A type, x : RemoveEvents(d1, type, x) =
          [d1 EXCEPT !.events = InOrder({e \in d1.events : ~IsEventOf(e, type, x)})]
    BY LoopsAre
  <2>2. cut = [d1 EXCEPT !.events = InOrder(K)] BY <2>1
  <2> HIDE DEF cut, K
  <2> QED BY <2>2 DEF DeviceOK, DeviceState
<1>5. r.sessions = d1.sessions
  <2> HIDE DEF cut
  <2> QED BY <1>3, ScheduleEventType DEF EventTypes
<1>6. \A e \in K : ~IsEventOf(e, "RANGE_DATA", s) OBVIOUS
<1>7. Leads(E, InOrder(K), f, 0) /\ Image(f) = InOrder(K) /\ DOMAIN f = K
  <2> HIDE DEF K, E
  <2> QED BY <1>1, <1>2, LeadsPart
<1> HIDE DEF f, K, cut, E
<1>8. Leads(E, cut.events, f, 0) BY <1>4, <1>7
<1>9. LET q == ScheduleEvent(cut, "RANGE_DATA", s, ms)
          Has(c) == IsEventOf(c, "RANGE_DATA", s) /\ c.delay = ms
      IN  /\ Leads(E, q.events, f, 0)
          /\ \A c \in q.events \ Image(f) : c \in cut.events \ Image(f) \/ Has(c)
          /\ CanSchedule(cut) => \E c \in q.events \ Image(f) : Has(c)
  BY <1>3, <1>8, ScheduleLeads DEF EventTypes
<1>10. /\ Leads(E, r.events, f, 0)
       /\ \A c \in r.events \ Image(f) : IsEventOf(c, "RANGE_DATA", s) /\ c.delay = ms
       /\ CanSchedule(cut) => \E c \in r.events \ Image(f) : IsEventOf(c, "RANGE_DATA", s)
  BY <1>4, <1>7, <1>9
<1> HIDE DEF r
<1>11. ASSUME NEW e \in E \ K PROVE CanSchedule(cut)
  <2>1. K \in SUBSET (E \ {e}) /\ IsFiniteSet(E \ {e}) /\ Cardinality(E \ {e}) = Cardinality(E) - 1
    BY <1>1, <1>2, FS_RemoveElement
  <2>2. Cardinality(K) <= Cardinality(E) - 1 /\ IsFiniteSet(K) /\ K \subseteq Event
    BY <1>1, <1>2, <2>1, FS_Subset
  <2>3. Cardinality(InOrder(K)) <= Cardinality(K) /\ IsFiniteSet(InOrder(K))
    BY <2>2, InOrderType
  <2>4. Cardinality(K) \in Nat /\ Cardinality(InOrder(K)) \in Nat
    BY <2>2, <2>3, FS_CardinalityType
  <2> QED BY <1>1, <1>4, <2>2, <2>3, <2>4, SizesAssumption DEF CanSchedule
<1>12. ASSUME NEW e \in E \ DOMAIN f
       PROVE  e.type = "RANGE_DATA" /\ Rescheduled(e, r, f)
  <2>1. e \in E \ K /\ e.type = "RANGE_DATA" /\ e.sid = s
    BY <1>2, <1>7 DEF IsEventOf
  <2>2. \E c \in r.events \ Image(f) : IsEventOf(c, "RANGE_DATA", s)
    BY <1>10, <1>11, <2>1
  <2> QED BY <1>6, <1>7, <2>1, <2>2 DEF Rescheduled
<1>13. Waits(r, f) BY <1>5, <1>10 DEF Waits, IsEventOf
<1>14. CommandEvents(d, r)
  <2>1. d.events = E BY DEF E
  <2>2. \A c \in r.events \ Image(f) : c.delay > 0 BY <1>10
  <2> QED BY <1>10, <1>12, <1>13, <2>1, <2>2 DEF CommandEvents
<1> QED BY <1>14 DEF RescheduleSessionEvent, r, cut

(* SESSION_SET_APP_CONFIG.                                                 *)
LEMMA SetAppConfigLaw ==
  ASSUME NEW d, Sound(d), NEW s \in Sid, NEW t \in Tlvs, NEW bad \in BOOLEAN
  PROVE  CommandLaw(d, HandleSetAppConfig(d, s, t, bad).dev) /\ Grows(d, HandleSetAppConfig(d, s, t, bad).dev)
<1>0. DeviceOK(d) BY DEF Sound
<1>1. CASE s \notin Allocated(d)
  BY <1>0, <1>1, RejectLaw DEF HandleSetAppConfig
<1>2. CASE s \in Allocated(d)
  <2> DEFINE v == d.sessions[s]
  <2> DEFINE w == StoreConfig(v, t)
  <2> DEFINE d1 == SetSession(d, s, w)
  <2> DEFINE cut == RemoveEvents(d1, "RANGE_DATA", s)
  <2> DEFINE d2 == ScheduleEvent(cut, "RANGE_DATA", s, t.val)
  <2>1. v \in Session BY <1>0, SessionOf
  <2>2. w \in Session /\ w.state = v.state /\ w.ranging_count = v.ranging_count
    BY <2>1, StoreConfigType, StoreConfigCount
  <2>3. DeviceOK(d1) /\ SameProgress(d, d1)
    <3> HIDE DEF w
    <3> QED BY <1>0, <1>2, <2>2, SetSessionProgress
  <2>11. d1.events = d.events /\ d1.sessions = [d.sessions EXCEPT ![s] = w]
    <3> HIDE DEF w
    <3> QED BY <1>0, <1>2, <2>2, SetSessionType
  <2>4. DeviceOK(cut) /\ cut.sessions = d1.sessions
    <3> HIDE DEF d1
    <3> QED BY <2>3, <2>11, RemoveEventsType DEF Sound
  <2>5. d2.sessions = cut.sessions
    <3>1. t.val \in Nat BY TlvAssumption
    <3> HIDE DEF cut
    <3> QED BY <2>4, <3>1, ScheduleEventType DEF EventTypes
  <2>6. \/ ApplyTlv(d, s, t).dev \in {d, d1}
        \/ /\ ApplyTlv(d, s, t).dev = d2
           /\ t.id = "RANGING_INTERVAL" /\ ~(t.val < MinInterval)
    <3> HIDE DEF d1, d2
    <3> QED BY DEF ApplyTlv, Outcome, RescheduleSessionEvent, d1, d2
  <2>12. t.id = "RANGING_INTERVAL" => d1.sessions[s].interval = t.val
    <3>1. t.id = "RANGING_INTERVAL" => w.interval = t.val
      BY <2>1 DEF StoreConfig, Session
    <3>2. d.sessions \in [Sid -> Session] BY <1>0 DEF DeviceOK, DeviceState
    <3> HIDE DEF d1, w
    <3> QED BY <2>11, <3>1, <3>2
  <2>13. CommandEvents(d, d) /\ CommandEvents(d, d1)
    <3> HIDE DEF d1
    <3> QED BY <1>0, <2>11, SameEventsCommand DEF DeviceOK, DeviceState
  <2>14. t.id = "RANGING_INTERVAL" /\ ~(t.val < MinInterval) => CommandEvents(d, d2)
    <3> DEFINE val == t.val
    <3> SUFFICES ASSUME t.id = "RANGING_INTERVAL", ~(val < MinInterval)
                 PROVE  CommandEvents(d, RescheduleSessionEvent(d1, "RANGE_DATA", s, val))
      BY DEF RescheduleSessionEvent
    <3>1. val \in Nat BY TlvAssumption
    <3>2. val = d1.sessions[s].interval BY <2>12
    <3>3. DenseSet(d1.events) BY <2>11 DEF Sound
    <3> HIDE DEF d1, val
    <3>4. val > 0 BY <3>1, IntervalAssumption
    <3> QED BY <2>3, <2>11, <3>1, <3>2, <3>3, <3>4, RescheduleCommand
  <2>7. SameProgress(d, d) BY DEF SameProgress
  <2>8. HandleSetAppConfig(d, s, t, bad).dev = ApplyTlv(d, s, t).dev
    BY <1>2 DEF HandleSetAppConfig, Reject, Respond, Result
  <2> HIDE DEF d1, d2, cut, v, w
  <2>9. SameProgress(d, d2) BY <2>3, <2>4, <2>5 DEF SameProgress
  <2> QED BY <1>0, <2>3, <2>6, <2>7, <2>8, <2>9, <2>13, <2>14, SameProgressLaw
<1> QED BY <1>1, <1>2

(* A notification leaves the sessions alone.                               *)
LEMMA QueueProgress ==
  ASSUME NEW d, DeviceOK(d), NEW n \in Packet
  PROVE  /\ DeviceOK(QueueNotification(d, n))
         /\ SameProgress(d, QueueNotification(d, n))
         /\ QueueNotification(d, n).events = d.events
BY QueueNotificationType DEF SameProgress

(* A data message reported at once.                                        *)
LEMMA ReportTransferProgress ==
  ASSUME NEW d, DeviceOK(d), NEW s \in Sid, NEW m \in Msg, NEW code \in Codes
  PROVE  /\ SameProgress(d, ReportTransfer(d, s, m, code).dev)
         /\ ReportTransfer(d, s, m, code).dev.events = d.events
<1> DEFINE credited == QueueNotification(d, DataCreditNtf(s))
<1> DEFINE reported == QueueNotification(credited, DataStatusNtf(s, m, code, 1))
<1>1. DataCreditNtf(s) \in Packet /\ DataStatusNtf(s, m, code, 1) \in Packet
  BY PacketTypes
<1>2. DeviceOK(credited) /\ SameProgress(d, credited) /\ credited.events = d.events
  BY <1>1, QueueProgress
<1>3. SameProgress(credited, reported) /\ reported.events = credited.events
  <2> HIDE DEF credited
  <2> QED BY <1>1, <1>2, QueueProgress
<1>4. ReportTransfer(d, s, m, code).dev = IF ~CanQueue(d) THEN credited ELSE reported
  BY DEF ReportTransfer, Result
<1> HIDE DEF credited, reported
<1> QED BY <1>2, <1>3, <1>4 DEF SameProgress

(* DATA_MESSAGE_SND.                                                       *)
LEMMA DataMessageSendLaw ==
  ASSUME NEW d, Sound(d), NEW s \in Sid, NEW m \in Msg
  PROVE  CommandLaw(d, HandleDataMessageSend(d, s, m).dev) /\ Grows(d, HandleDataMessageSend(d, s, m).dev)
<1> DEFINE v == d.sessions[s]
<1> DEFINE w == [v EXCEPT !.last_data = m]
<1> DEFINE b == [v EXCEPT !.last_data = m, !.in_progress = TRUE,
                          !.reps_remaining = v.repetition, !.tx_count = 0]
<1> DEFINE u == [v EXCEPT !.last_data = m, !.in_progress = FALSE,
                          !.reps_remaining = 0, !.tx_count = 0]
<1> DEFINE d1 == SetSession(d, s, w)
<1> DEFINE busy == SetSession(d, s, b)
<1> DEFINE undone == SetSession(d, s, u)
<1> DEFINE going == ScheduleEvent(busy, "DATA_TRANSFER", s, v.interval)
<1> DEFINE r == HandleDataMessageSend(d, s, m).dev
<1>0. DeviceOK(d) /\ v \in Session BY SessionOf DEF Sound
<1>1. v.state = "ACTIVE" => s \in Allocated(d) BY DEF Allocated
<1>2. \A x \in {w, b, u} : /\ x \in Session /\ x.state = v.state
                           /\ x.ranging_count = v.ranging_count
  <2>1. w \in Session /\ w.state = v.state /\ w.ranging_count = v.ranging_count
    BY <1>0 DEF Session
  <2>2. b \in Session /\ b.state = v.state /\ b.ranging_count = v.ranging_count
    BY <1>0 DEF Session
  <2>3. u \in Session /\ u.state = v.state /\ u.ranging_count = v.ranging_count
    BY <1>0 DEF Session
  <2> HIDE DEF w, b, u
  <2> QED BY <2>1, <2>2, <2>3
<1>3. v.state = "ACTIVE" =>
        /\ DeviceOK(d1) /\ SameProgress(d, d1) /\ d1.events = d.events
        /\ DeviceOK(busy) /\ SameProgress(d, busy) /\ busy.events = d.events
        /\ SameProgress(d, undone) /\ undone.events = d.events
        /\ busy.sessions = [d.sessions EXCEPT ![s] = b]
  <2>1. w \in {w, b, u} /\ b \in {w, b, u} /\ u \in {w, b, u} OBVIOUS
  <2> HIDE DEF w, b, u
  <2> SUFFICES ASSUME v.state = "ACTIVE"
               PROVE  /\ DeviceOK(d1) /\ SameProgress(d, d1) /\ d1.events = d.events
                      /\ DeviceOK(busy) /\ SameProgress(d, busy) /\ busy.events = d.events
                      /\ SameProgress(d, undone) /\ undone.events = d.events
                      /\ busy.sessions = [d.sessions EXCEPT ![s] = b]
    OBVIOUS
  <2>2. ASSUME NEW x \in {w, b, u}
        PROVE  LET r2 == SetSession(d, s, x)
               IN  /\ DeviceOK(r2) /\ SameProgress(d, r2) /\ r2.events = d.events
                   /\ r2.sessions = [d.sessions EXCEPT ![s] = x]
    BY <1>0, <1>1, <1>2, SetSessionProgress, SetSessionType
  <2> QED BY <2>1, <2>2
<1>4. v.state = "ACTIVE" => SameProgress(d, going)
  <2>1. v.interval \in Nat BY <1>0 DEF Session
  <2>2. v.state = "ACTIVE" => going.sessions = busy.sessions
    <3> HIDE DEF busy, v
    <3> QED BY <1>3, <2>1, ScheduleEventType DEF EventTypes
  <2> HIDE DEF going, busy, v
  <2> QED BY <1>3, <2>2 DEF SameProgress
<1>10. v.state = "ACTIVE" => CommandEvents(d, going)
  <2>1. v.interval \in Nat /\ b.interval = v.interval BY <1>0 DEF Session
  <2>2. d.sessions \in [Sid -> Session] /\ DenseSet(d.events)
    BY DEF Sound, DeviceOK, DeviceState
  <2> DEFINE ms == v.interval
  <2> SUFFICES ASSUME v.state = "ACTIVE"
               PROVE  CommandEvents(d, ScheduleEvent(busy, "DATA_TRANSFER", s, ms))
    OBVIOUS
  <2> HIDE DEF b, busy, v
  <2>3. busy.sessions[s].interval = ms BY <1>3, <2>1, <2>2
  <2> HIDE DEF ms
  <2> QED BY <1>3, <2>1, <2>2, <2>3, ScheduleCommand DEF EventTypes, ms
<1>5. v.state = "ACTIVE" =>
        /\ SameProgress(d, ReportTransfer(d, s, m, "REPETITION_OK").dev)
        /\ SameProgress(d, ReportTransfer(d1, s, m, "OK").dev)
        /\ ReportTransfer(d, s, m, "REPETITION_OK").dev.events = d.events
        /\ ReportTransfer(d1, s, m, "OK").dev.events = d.events
  <2>1. "REPETITION_OK" \in Codes /\ "OK" \in Codes BY DEF Codes
  <2>2. /\ SameProgress(d, ReportTransfer(d, s, m, "REPETITION_OK").dev)
        /\ ReportTransfer(d, s, m, "REPETITION_OK").dev.events = d.events
    BY <1>0, <2>1, ReportTransferProgress
  <2> HIDE DEF d1, v
  <2>3. v.state = "ACTIVE" =>
          /\ SameProgress(d1, ReportTransfer(d1, s, m, "OK").dev)
          /\ ReportTransfer(d1, s, m, "OK").dev.events = d1.events
    BY <1>3, <2>1, ReportTransferProgress
  <2> QED BY <1>3, <2>2, <2>3 DEF SameProgress
<1>6. SameProgress(d, d) BY DEF SameProgress
<1>7. \/ r = d
      \/ /\ v.state = "ACTIVE"
         /\ r \in {ReportTransfer(d, s, m, "REPETITION_OK").dev,
                   ReportTransfer(d1, s, m, "OK").dev, going, undone}
  <2>1. HandleDataMessageSend(d, s, m) =
          IF v.state # "ACTIVE" THEN RefuseData(d, s, m, "ERROR_REJECTED", 0)
          ELSE IF v.in_progress THEN RefuseData(d, s, m, "ERROR_ONGOING", v.tx_count)
          ELSE IF v.last_data = m THEN ReportTransfer(d, s, m, "REPETITION_OK")
          ELSE IF v.repetition = 0 THEN ReportTransfer(d1, s, m, "OK")
          ELSE StartTransfer(d, s, m)
    BY DEF HandleDataMessageSend
  <2>2. StartTransfer(d, s, m).dev = IF CanSchedule(d) THEN going ELSE undone
    BY DEF StartTransfer, Result
  <2>3. \A code, tx : RefuseData(d, s, m, code, tx).dev = d BY DEF RefuseData, Result
  <2> HIDE DEF v, d1, going, undone
  <2> QED BY <2>1, <2>2, <2>3
<1> HIDE DEF r, d1, going, undone, v
<1>8. SameProgress(d, r) BY <1>3, <1>4, <1>5, <1>6, <1>7
<1>11. CommandEvents(d, r)
  <2>1. r.events = d.events \/ (v.state = "ACTIVE" /\ r = going) BY <1>3, <1>5, <1>7
  <2> QED BY <1>0, <1>10, <2>1, SameEventsCommand DEF DeviceOK, DeviceState
<1>9. CommandLaw(d, r) /\ Grows(d, r) BY <1>0, <1>8, <1>11, SameProgressLaw
<1> QED BY <1>9 DEF r

-----------------------------------------------------------------------------
(* After the handler: the finalisation changes the pending queue only, so  *)
(* the law of the handler is the law of its result.                        *)

SameTable(d, r) == r.sessions = d.sessions /\ r.events = d.events

(* The law looks at the sessions and the events only.                      *)
LEMMA LawTable ==
  ASSUME NEW d, NEW r, NEW r2, CommandLaw(d, r), SameTable(r, r2)
  PROVE  CommandLaw(d, r2)
<1>1. View(r2) = View(r) BY DEF View, SameTable
<1>2. CommandEvents(d, r2)
  <2>1. Allocated(r2) = Allocated(r) BY DEF Allocated, SameTable
  <2> QED BY <2>1 DEF CommandLaw, CommandEvents, SameTable, Waits, Stopped, Rescheduled
<1> QED BY <1>1, <1>2 DEF CommandLaw, SameTable, Active, Fresh

(* uci_sim_device_finalize_result.                                         *)
LEMMA FinalizeResultTable ==
  ASSUME NEW res, ResultOK(res), NEW before
  PROVE  SameTable(res.dev, FinalizeResult(res, before).dev)
<1> DEFINE q == res.dev.pending
<1> DEFINE r2 == FinalizeResult(res, before)
<1>1. CASE r2 = res BY <1>1 DEF SameTable
<1>2. CASE r2 # res
  <2>1. r2 = [res EXCEPT !.ntf = <<Head(q)>>, !.dev.pending = Tail(q)]
    BY <1>2 DEF FinalizeResult
  <2>2. res \in ResultType BY DEF ResultOK, ResultTyped
  <2>3. r2.dev = [res.dev EXCEPT !.pending = Tail(q)] BY <2>1, <2>2 DEF ResultType
  <2> QED BY <2>2, <2>3 DEF SameTable, ResultType, DeviceState
<1> QED BY <1>1, <1>2

(* The generic error of a failed command, and the finalisation.            *)
LEMMA CommandResultTable ==
  ASSUME NEW d, NEW res, CommandOK(res)
  PROVE  SameTable(res.dev, CommandResult(d, res).dev)
<1> DEFINE n == GenericErrorNtf(res.rsp[1].code)
<1> DEFINE r2 == IF res.rc # 0 THEN DeliverNotification(res, n) ELSE res
<1>1. ResultOK(r2) /\ SameTable(res.dev, r2.dev)
  <2>1. CASE res.rc # 0
    <3>1. res.rsp # << >> /\ res.rsp \in OptPacket
      BY <2>1 DEF CommandOK, Answered, ResultOK, ResultTyped, ResultType
    <3>2. PICK p \in Packet : res.rsp = <<p>> BY <3>1 DEF OptPacket
    <3>3. res.rsp[1].code \in Codes BY <3>2 DEF Packet
    <3>4. n \in Packet BY <3>3, PacketTypes
    <3> HIDE DEF n
    <3> QED BY <2>1, <3>4, DeliverNotificationOK, DeliverNotificationTyped
           DEF CommandOK, ResultOK, SameTable
  <2>2. CASE res.rc = 0 BY <2>2 DEF CommandOK, SameTable
  <2> QED BY <2>1, <2>2
<1>2. CommandResult(d, res) = FinalizeResult(r2, Len(d.pending))
  BY DEF CommandResult
<1> HIDE DEF r2
<1> QED BY <1>1, <1>2, FinalizeResultTable DEF SameTable

(* A submit is a handler, and then nothing or a tick of 0 ms.              *)
SubmitLaw(d, r) ==
  \E mid : CommandLaw(d, mid) /\ (r = mid \/ (Sound(mid) /\ TickLaw(mid, r, 0)))

(* uci_sim_engine_submit_packet, on each of its return paths.              *)
LEMMA EngineSubmitLaw ==
  ASSUME NEW d, NEW res, ResultOK(res), CommandLaw(d, res.dev),
         NEW out, QueueOK(out), NEW hit \in BOOLEAN
  PROVE  SubmitLaw(d, EngineSubmit(res, out, hit).dev)
<1> DEFINE out1 == out \o res.rsp
<1> DEFINE out2 == out1 \o res.ntf
<1> DEFINE f == FlushDeviceNotifications(res.dev, out2)
<1>1. Sound(res.dev) /\ res.rsp \in OptPacket /\ res.ntf \in OptPacket
  BY DEF ResultOK, ResultTyped, ResultType
<1>2. CommandLaw(d, Lose(res.dev))
  <2>1. SameTable(res.dev, Lose(res.dev))
    BY <1>1 DEF Lose, Sound, DeviceOK, DeviceState, SameTable
  <2> QED BY <2>1, LawTable
<1>3. CASE res.rc # 0 /\ res.rsp = << >> /\ res.ntf = << >>
  BY <1>3 DEF EngineSubmit, Engine, SubmitLaw
<1>4. CASE /\ ~(res.rc # 0 /\ res.rsp = << >> /\ res.ntf = << >>)
           /\ res.rsp # << >> /\ ~HasRoom(out)
  BY <1>2, <1>4 DEF EngineSubmit, Engine, SubmitLaw
<1>5. CASE /\ ~(res.rc # 0 /\ res.rsp = << >> /\ res.ntf = << >>)
           /\ ~(res.rsp # << >> /\ ~HasRoom(out))
  <2>1. QueueOK(out1) BY <1>1, <1>5, OptPacketAppend
  <2>2. CASE res.ntf # << >> /\ ~HasRoom(out1)
    BY <1>2, <1>5, <2>2 DEF EngineSubmit, Engine, SubmitLaw
  <2>3. CASE ~(res.ntf # << >> /\ ~HasRoom(out1))
    <3>1. QueueOK(out2)
      <4> HIDE DEF out1
      <4> QED BY <1>1, <2>1, <2>3, OptPacketAppend
    <3>2. EngineOK(f) /\ SameTable(res.dev, f.dev)
      <4> HIDE DEF out2
      <4> QED BY <1>1, <3>1, FlushOK DEF SameTable
    <3>3. EngineSubmit(res, out, hit) = EngineTick(f.dev, f.out, 0, hit)
      BY <1>5, <2>3 DEF EngineSubmit
    <3> HIDE DEF f
    <3>4. CommandLaw(d, f.dev) BY <3>2, LawTable
    <3>5. TickLaw(f.dev, EngineTick(f.dev, f.out, 0, hit).dev, 0)
      BY <3>2, EngineTickLaw DEF EngineOK
    <3> QED BY <3>2, <3>3, <3>4, <3>5 DEF SubmitLaw, EngineOK
  <2> QED BY <2>2, <2>3
<1> QED BY <1>3, <1>4, <1>5

-----------------------------------------------------------------------------
(* The steps.                                                              *)

(* The law of every engine call.                                           *)
StepLaw == SubmitLaw(dev, dev') \/ (\E ms \in Elapsed : TickLaw(dev, dev', ms))
                                \/ dev' = dev

(* Submitting a command.                                                   *)
LEMMA SubmitCommandLaw ==
  ASSUME EngineInv, NEW res, CommandOK(res), CommandLaw(dev, res.dev), SubmitCommand(res)
  PROVE  StepLaw
<1>1. PICK hit \in BOOLEAN :
        Apply(EngineSubmit(CommandResult(dev, res), outbound, hit))
  BY DEF SubmitCommand
<1> DEFINE r == CommandResult(dev, res)
<1>2. ResultOK(r) /\ CommandLaw(dev, r.dev)
  BY CommandResultOK, CommandResultTable, LawTable DEF CommandOK
<1> HIDE DEF r
<1>3. SubmitLaw(dev, EngineSubmit(r, outbound, hit).dev)
  BY <1>2, EngineSubmitLaw DEF EngineInv
<1>4. Apply(EngineSubmit(r, outbound, hit)) BY <1>1 DEF r
<1> QED BY <1>3, <1>4 DEF Apply, StepLaw

(* Submitting a data message.                                              *)
LEMMA SubmitDataLaw ==
  ASSUME EngineInv, NEW res, ResultOK(res), CommandLaw(dev, res.dev), SubmitData(res)
  PROVE  StepLaw
<1>1. PICK hit \in BOOLEAN :
        Apply(EngineSubmit(DataResult(dev, res), outbound, hit))
  BY DEF SubmitData
<1> DEFINE r == DataResult(dev, res)
<1>2. ResultOK(r) /\ CommandLaw(dev, r.dev)
  BY FinalizeResultOK, FinalizeResultTable, LawTable DEF DataResult
<1> HIDE DEF r
<1>3. SubmitLaw(dev, EngineSubmit(r, outbound, hit).dev)
  BY <1>2, EngineSubmitLaw DEF EngineInv
<1>4. Apply(EngineSubmit(r, outbound, hit)) BY <1>1 DEF r
<1> QED BY <1>3, <1>4 DEF Apply, StepLaw

(* Every packet the host may send obeys the law.                           *)
LEMMA HostPacketLaw ==
  ASSUME EngineInv, HostPacket
  PROVE  StepLaw
<1>1. Sound(dev) /\ DeviceOK(dev) BY DEF EngineInv, Sound
<1>2. CASE DeviceReset
  BY <1>1, <1>2, DeviceResetOK, DeviceResetLaw, SubmitCommandLaw DEF DeviceReset
<1>3. ASSUME NEW s \in Sid, SessionInit(s) PROVE StepLaw
  BY <1>1, <1>3, SessionInitOK, SessionInitLaw, SubmitCommandLaw DEF SessionInit
<1>4. ASSUME NEW s \in Sid, SessionDeinit(s) PROVE StepLaw
  BY <1>1, <1>4, SessionDeinitOK, SessionDeinitLaw, SubmitCommandLaw DEF SessionDeinit
<1>5. ASSUME NEW s \in Sid, SessionStart(s) PROVE StepLaw
  <2>1. PICK verdict \in StartVerdicts : SubmitCommand(HandleSessionStart(dev, s, verdict))
    BY <1>5 DEF SessionStart
  <2>2. verdict \in Verdicts BY InputAssumption
  <2> QED BY <1>1, <2>1, <2>2, SessionStartOK, SessionStartLaw, SubmitCommandLaw
<1>6. ASSUME NEW s \in Sid, SessionStop(s) PROVE StepLaw
  BY <1>1, <1>6, SessionStopOK, SessionStopLaw, SubmitCommandLaw DEF SessionStop
<1>7. ASSUME NEW s \in Sid, Query(s) PROVE StepLaw
  <2>1. CommandLaw(dev, HandleQuery(dev, s).dev) BY <1>1, RejectLaw DEF HandleQuery
  <2> QED BY <1>1, <1>7, <2>1, QueryOK, SubmitCommandLaw DEF Query
<1>8. ASSUME NEW s \in Sid, NEW t \in Tlvs, NEW bad \in BOOLEAN, SetAppConfig(s, t, bad)
      PROVE  StepLaw
  BY <1>1, <1>8, SetAppConfigOK, SetAppConfigLaw, SubmitCommandLaw DEF SetAppConfig
<1>9. ASSUME NEW code \in RefusalCodes, RefusedCommand(code) PROVE StepLaw
  <2>1. code \in Codes BY InputAssumption
  <2>2. CommandOK(HandleRefused(dev, code)) BY <1>1, <2>1, RefuseOK DEF HandleRefused
  <2>3. CommandLaw(dev, HandleRefused(dev, code).dev) BY <1>1, RejectLaw DEF HandleRefused
  <2> QED BY <1>9, <2>2, <2>3, SubmitCommandLaw DEF RefusedCommand
<1>10. ASSUME NEW s \in Sid, NEW m \in Msg, DataMessageSend(s, m) PROVE StepLaw
  BY <1>1, <1>10, DataMessageSendOK, DataMessageSendLaw, SubmitDataLaw DEF DataMessageSend
<1>11. SameProgress(dev, dev) /\ CommandEvents(dev, dev)
  BY <1>1, SameEventsCommand DEF SameProgress, DeviceOK, DeviceState
<1>12. ASSUME NEW s \in Sid, NEW m \in BadMsg, BadDataLength(s, m) PROVE StepLaw
  <2>1. ResultOK(HandleBadDataLength(dev, s, m))
    BY <1>1, RefuseDataOK DEF BadMsg, HandleBadDataLength, Codes
  <2>2. HandleBadDataLength(dev, s, m).dev = dev
    BY DEF HandleBadDataLength, RefuseData, Result
  <2> QED BY <1>1, <1>11, <1>12, <2>1, <2>2, SameProgressLaw, SubmitDataLaw DEF BadDataLength
<1>13. CASE MalformedData
  <2>1. << >> \in OptPacket BY DEF OptPacket
  <2>2. ResultOK(HandleMalformedData(dev))
    BY <1>1, <2>1, DataResultTyped DEF HandleMalformedData
  <2>3. HandleMalformedData(dev).dev = dev BY DEF HandleMalformedData, Result
  <2> QED BY <1>1, <1>11, <1>13, <2>2, <2>3, SameProgressLaw, SubmitDataLaw DEF MalformedData
<1> QED BY <1>2, <1>3, <1>4, <1>5, <1>6, <1>7, <1>8, <1>9, <1>10, <1>12, <1>13
       DEF HostPacket

(* Every call of the engine obeys the law.                                 *)
LEMMA NextLaw == EngineInv /\ [Next]_engineVars => StepLaw
<1> SUFFICES ASSUME EngineInv, [Next]_engineVars PROVE StepLaw OBVIOUS
<1>1. CASE HostPacket BY <1>1, HostPacketLaw
<1>2. ASSUME NEW ms \in Elapsed, Tick(ms) PROVE StepLaw
  <2>1. PICK hit \in BOOLEAN : Apply(EngineTick(dev, outbound, ms, hit))
    BY <1>2 DEF Tick
  <2>2. ms \in Nat BY InputAssumption
  <2>3. TickLaw(dev, EngineTick(dev, outbound, ms, hit).dev, ms)
    BY <2>2, EngineTickLaw DEF EngineInv
  <2> QED BY <2>1, <2>2, <2>3 DEF Apply, StepLaw
<1>3. CASE DequeueOutbound BY <1>3 DEF DequeueOutbound, StepLaw
<1>4. CASE UNCHANGED engineVars BY <1>4 DEF engineVars, StepLaw
<1> QED BY <1>1, <1>2, <1>3, <1>4 DEF Next

-----------------------------------------------------------------------------
(* What the law says of each property.  A transport calls the engine under *)
(* conditions of its own, and its steps obey the law all the same.         *)

(* The step of BudgetRespected.                                            *)
BudgetStep ==
  \A s \in Sid :
    dev'.sessions[s].ranging_count > dev.sessions[s].ranging_count =>
      \/ dev'.sessions[s].max_meas = 0
      \/ dev'.sessions[s].ranging_count <= dev'.sessions[s].max_meas

LEMMA LawBudget ==
  ASSUME EngineInv, EngineInv', StepLaw
  PROVE  BudgetStep
<1> SUFFICES ASSUME NEW s \in Sid,
                    dev'.sessions[s].ranging_count > dev.sessions[s].ranging_count
             PROVE  \/ dev'.sessions[s].max_meas = 0
                    \/ dev'.sessions[s].ranging_count <= dev'.sessions[s].max_meas
  BY DEF BudgetStep
<1>2. dev.sessions[s].ranging_count \in Nat /\ dev'.sessions[s].ranging_count \in Nat
  BY DEF EngineInv, Sound, DeviceOK, DeviceState, Session
<1>3. CASE SubmitLaw(dev, dev')
  <2>1. PICK mid : CommandLaw(dev, mid) /\ (dev' = mid \/ TickLaw(mid, dev', 0))
    BY <1>3 DEF SubmitLaw
  <2>2. mid.sessions[s].ranging_count \in 0 .. dev.sessions[s].ranging_count
    BY <2>1 DEF CommandLaw
  <2>3. CASE dev' = mid BY <1>2, <2>2, <2>3
  <2>4. CASE TickLaw(mid, dev', 0)
    <3>1. CountLaw(mid.sessions[s], dev'.sessions[s]) BY <2>4 DEF TickLaw
    <3> QED BY <1>2, <2>2, <3>1 DEF CountLaw
  <2> QED BY <2>1, <2>3, <2>4
<1>4. CASE \E ms \in Elapsed : TickLaw(dev, dev', ms)
  BY <1>4 DEF TickLaw, CountLaw
<1>5. CASE dev' = dev BY <1>2, <1>5
<1> QED BY <1>3, <1>4, <1>5 DEF StepLaw

(* The step of RestartWaitsOneInterval.                                    *)
RestartStep ==
  \A s \in Sid :
    dev.sessions[s].state = "IDLE" /\ Active(dev', s) =>
      \A e \in dev'.events :
        e.sid = s => e.delay = dev'.sessions[s].interval

LEMMA LawRestart ==
  ASSUME EngineInv, StepLaw
  PROVE  RestartStep
<1> SUFFICES ASSUME NEW s \in Sid, dev.sessions[s].state = "IDLE", Active(dev', s)
             PROVE  Fresh(dev', s)
  BY DEF Fresh, RestartStep
<1>2. ASSUME NEW d, NEW ms, TickLaw(d, dev', ms)
      PROVE  Active(d, s)
  <2>1. View(dev')[s] = "ACTIVE" BY DEF View, Active
  <2>2. CASE View(dev') = View(d) BY <2>1, <2>2 DEF View, Active
  <2>3. CASE Lifecycle!Stop(View(d), View(dev'))
    <3>1. PICK t \in Sid : View(dev') = [View(d) EXCEPT ![t] = "IDLE"]
      BY <2>3 DEF Lifecycle!Stop, Lifecycle!Moves
    <3>2. View(d)[s] = "ACTIVE" BY <2>1, <3>1 DEF View
    <3> QED BY <3>2 DEF View, Active
  <2> QED BY <1>2, <2>2, <2>3 DEF TickLaw, Lifecycle!BudgetEnd
<1>3. CASE SubmitLaw(dev, dev')
  <2>1. PICK mid : CommandLaw(dev, mid) /\ (dev' = mid \/ TickLaw(mid, dev', 0))
    BY <1>3 DEF SubmitLaw
  <2>2. Active(mid, s) BY <1>2, <2>1
  <2>3. Fresh(mid, s) BY <2>1, <2>2 DEF CommandLaw
  <2> QED BY <2>1, <2>3 DEF TickLaw
<1>4. CASE \E ms \in Elapsed : TickLaw(dev, dev', ms)
  BY <1>2, <1>4 DEF Active
<1>5. CASE dev' = dev BY <1>5 DEF Active
<1> QED BY <1>3, <1>4, <1>5 DEF StepLaw

(* The step of EventsAccounted.  h leads the entries that were kept across *)
(* the whole call; those that left were stopped or rescheduled, but for    *)
(* one at most, which was the first due.                                   *)
Released(e, r, h) == Stopped(e, r) \/ Rescheduled(e, r, h)
StepEvents(d, r, ms) ==
  \E h : /\ Leads(d.events, r.events, h, ms) /\ Waits(r, h)
         /\ \A e, k \in d.events \ DOMAIN h :
              \/ Released(e, r, h) \/ Released(k, r, h)
              \/ e = k /\ DueFirst(DOMAIN h, e, ms)
         /\ \A s \in Sid :
              r.sessions[s].ranging_count > d.sessions[s].ranging_count =>
                \E e \in d.events \ DOMAIN h :
                  IsEventOf(e, "RANGE_DATA", s) /\ Age(e, ms).delay = 0

(* Two entries cannot both be the first due.                               *)
LEMMA FirstDueUnique ==
  ASSUME NEW E, E \subseteq Event, Distinct(E), NEW ms \in Nat,
         NEW e \in E, NEW k \in E, DueFirst(E, e, ms), DueFirst(E, k, ms)
  PROVE  e = k
<1>1. e.pos \in Nat /\ k.pos \in Nat BY DEF Event
<1>2. ~(e.pos < k.pos) /\ ~(k.pos < e.pos) BY DEF DueFirst
<1> QED BY <1>1, <1>2 DEF Distinct

(* A tick.                                                                 *)
LEMMA TickAccounted ==
  ASSUME NEW d, Sound(d), NEW r, NEW ms \in Nat, TickedEvents(d, r, ms)
  PROVE  StepEvents(d, r, ms)
<1>1. d.events \subseteq Event /\ Distinct(d.events)
  BY DenseDistinct DEF Sound, DeviceOK, DeviceState
<1>2. PICK h : /\ Leads(d.events, r.events, h, ms) /\ Waits(r, h)
               /\ \A e \in d.events \ DOMAIN h :
                    r.sessions[e.sid].state = "IDLE" \/ DueFirst(d.events, e, ms)
               /\ \A s \in Sid :
                    r.sessions[s].ranging_count > d.sessions[s].ranging_count =>
                      \E e \in d.events \ DOMAIN h :
                        IsEventOf(e, "RANGE_DATA", s) /\ Age(e, ms).delay = 0
  BY DEF TickedEvents
<1>3. ASSUME NEW e \in d.events \ DOMAIN h, NEW k \in d.events \ DOMAIN h,
             ~Released(e, r, h), ~Released(k, r, h)
      PROVE  e = k /\ DueFirst(DOMAIN h, e, ms)
  <2>1. DueFirst(d.events, e, ms) /\ DueFirst(d.events, k, ms)
    BY <1>2, <1>3 DEF Released, Stopped
  <2>2. e = k BY <1>1, <2>1, FirstDueUnique
  <2>3. DOMAIN h \subseteq d.events BY <1>2 DEF Leads
  <2>4. DueFirst(DOMAIN h, e, ms) BY <2>1, <2>3 DEF DueFirst
  <2> QED BY <2>2, <2>4
<1> QED BY <1>2, <1>3 DEF StepEvents

(* A submit that ends before the tick.                                     *)
LEMMA CommandAccounted ==
  ASSUME NEW d, Sound(d), NEW r, CommandLaw(d, r)
  PROVE  StepEvents(d, r, 0)
<1>1. PICK h : /\ Leads(d.events, r.events, h, 0) /\ Waits(r, h)
               /\ \A e \in d.events \ DOMAIN h :
                    Stopped(e, r) \/ (e.type = "RANGE_DATA" /\ Rescheduled(e, r, h))
  BY DEF CommandLaw, CommandEvents
<1>2. \A s \in Sid : ~(r.sessions[s].ranging_count > d.sessions[s].ranging_count)
  <2> TAKE s \in Sid
  <2>1. d.sessions[s].ranging_count \in Nat
    BY DEF Sound, DeviceOK, DeviceState, Session
  <2>2. r.sessions[s].ranging_count \in 0 .. d.sessions[s].ranging_count
    BY DEF CommandLaw
  <2> QED BY <2>1, <2>2
<1>3. \A e \in d.events \ DOMAIN h : Released(e, r, h) BY <1>1 DEF Released
<1> QED BY <1>1, <1>2, <1>3 DEF StepEvents

(* A submit: the handler, and then the tick of 0 ms.  What the handler put *)
(* there waits a positive interval if it belongs to the stream, so that    *)
(* the tick does not serve it.                                             *)
LEMMA SubmitAccounted ==
  ASSUME NEW d, Sound(d), NEW mid, Sound(mid), CommandLaw(d, mid),
         NEW r, Sound(r), TickLaw(mid, r, 0)
  PROVE  StepEvents(d, r, 0)
<1>1. /\ d.events \subseteq Event /\ Distinct(d.events)
      /\ mid.events \subseteq Event /\ Distinct(mid.events)
  BY DenseDistinct DEF Sound, DeviceOK, DeviceState
<1>2. PICK f : /\ Leads(d.events, mid.events, f, 0) /\ Waits(mid, f)
               /\ \A c \in mid.events \ Image(f) : c.type = "RANGE_DATA" => c.delay > 0
               /\ \A e \in d.events \ DOMAIN f :
                    Stopped(e, mid) \/ (e.type = "RANGE_DATA" /\ Rescheduled(e, mid, f))
  BY DEF CommandLaw, CommandEvents
<1>3. PICK g : /\ Leads(mid.events, r.events, g, 0) /\ Waits(r, g)
               /\ \A e \in mid.events \ DOMAIN g :
                    r.sessions[e.sid].state = "IDLE" \/ DueFirst(mid.events, e, 0)
               /\ \A s \in Sid :
                    r.sessions[s].ranging_count > mid.sessions[s].ranging_count =>
                      \E e \in mid.events \ DOMAIN g :
                        IsEventOf(e, "RANGE_DATA", s) /\ Age(e, 0).delay = 0
  BY DEF TickLaw, TickedEvents
<1>4. TickedSessions(mid, r) BY DEF TickLaw
<1> DEFINE h == Then(f, g)
<1>5. /\ DOMAIN h = {k \in DOMAIN f : f[k] \in DOMAIN g}
      /\ \A e \in DOMAIN h : h[e] = g[f[e]]
      /\ \A c \in Image(g) \ Image(h) : \E y \in DOMAIN g : c = g[y] /\ y \notin Image(f)
  BY ThenIs
<1>6. Leads(d.events, r.events, h, 0)
  <2>1. Leads(d.events, r.events, h, 0 + 0) BY <1>2, <1>3, LeadsThen
  <2> QED BY <2>1
<1> HIDE DEF h
<1>7. \A e \in Event : Age(e, 0) = e /\ e.delay \in Nat /\ e.pos \in Nat
  BY AgeIs DEF Event
<1>8. \A c \in DOMAIN g : /\ c \in mid.events /\ g[c] \in r.events /\ g[c].type = c.type
                         /\ g[c].sid = c.sid /\ g[c].delay = c.delay
  BY <1>1, <1>3, <1>7 DEF Leads
<1>9. \A e \in DOMAIN f : /\ e \in d.events /\ f[e] \in mid.events /\ f[e].type = e.type
                         /\ f[e].sid = e.sid /\ f[e].delay = e.delay
  BY <1>1, <1>2, <1>7 DEF Leads
<1>10. Waits(r, h)
  <2> SUFFICES ASSUME NEW c \in r.events \ Image(h)
               PROVE  c.delay = r.sessions[c.sid].interval
    BY DEF Waits
  <2>1. CASE c \notin Image(g) BY <1>3, <2>1 DEF Waits
  <2>2. CASE c \in Image(g)
    <3>1. PICK y \in DOMAIN g : c = g[y] /\ y \notin Image(f) BY <1>5, <2>2
    <3>2. y \in mid.events /\ c.sid = y.sid /\ c.delay = y.delay BY <1>8, <3>1
    <3>3. y.delay = mid.sessions[y.sid].interval BY <1>2, <3>1, <3>2 DEF Waits
    <3>4. y.sid \in Sid BY <1>1, <3>2 DEF Event
    <3> QED BY <1>4, <3>2, <3>3, <3>4 DEF TickedSessions
  <2> QED BY <2>1, <2>2
<1>11. ASSUME NEW e \in d.events, Stopped(e, mid) PROVE Stopped(e, r)
  <2>1. e.sid \in Sid BY <1>1 DEF Event
  <2> QED BY <1>4, <1>11, <2>1 DEF Stopped, TickedSessions, Allocated
<1>12. ASSUME NEW c \in mid.events \ Image(f), c \in DOMAIN g
       PROVE  g[c] \in r.events \ Image(h)
  <2>1. g[c] \in r.events BY <1>8, <1>12
  <2>2. ASSUME NEW e \in DOMAIN h, g[c] = h[e] PROVE FALSE
    <3>1. e \in DOMAIN f /\ f[e] \in DOMAIN g /\ g[c] = g[f[e]] BY <1>5, <2>2
    <3>2. c \in Event /\ f[e] \in Event /\ g[c] \in Event
      BY <1>1, <1>3, <1>8, <1>9, <3>1 DEF Leads
    <3>3. ~(c.pos < f[e].pos) /\ ~(f[e].pos < c.pos)
      BY <1>3, <1>7, <1>12, <3>1, <3>2 DEF Leads
    <3>4. c = f[e] BY <1>1, <1>7, <1>9, <3>1, <3>2, <3>3 DEF Distinct
    <3> QED BY <1>12, <3>1, <3>4 DEF Image
  <2> QED BY <2>1, <2>2 DEF Image
<1>13. ASSUME NEW e \in d.events \ DOMAIN f PROVE Released(e, r, h)
  <2>1. CASE Stopped(e, mid) BY <1>11, <2>1 DEF Released
  <2>2. CASE e.type = "RANGE_DATA" /\ Rescheduled(e, mid, f)
    <3>1. PICK c \in mid.events \ Image(f) : IsEventOf(c, e.type, e.sid)
      BY <2>2 DEF Rescheduled
    <3>2. c.delay > 0 BY <1>2, <2>2, <3>1 DEF IsEventOf
    <3>3. CASE c \in DOMAIN g
      <4>1. g[c] \in r.events \ Image(h) BY <1>12, <3>3
      <4>2. IsEventOf(g[c], e.type, e.sid) BY <1>8, <3>1, <3>3 DEF IsEventOf
      <4>3. \A k \in DOMAIN h : ~IsEventOf(k, e.type, e.sid)
        BY <1>5, <2>2 DEF Rescheduled
      <4> QED BY <4>1, <4>2, <4>3 DEF Released, Rescheduled
    <3>4. CASE c \notin DOMAIN g
      <4>1. ~DueFirst(mid.events, c, 0) BY <1>1, <1>7, <3>2 DEF DueFirst
      <4>2. r.sessions[e.sid].state = "IDLE" BY <1>3, <3>1, <3>4, <4>1 DEF IsEventOf
      <4> QED BY <4>2 DEF Released, Stopped
    <3> QED BY <3>3, <3>4
  <2> QED BY <1>2, <2>1, <2>2
<1>14. ASSUME NEW e \in d.events \ DOMAIN h, ~Released(e, r, h)
       PROVE  e \in DOMAIN f /\ DueFirst(mid.events, f[e], 0)
  <2>1. e \in DOMAIN f BY <1>13, <1>14
  <2>2. f[e] \in mid.events \ DOMAIN g /\ f[e].sid = e.sid BY <1>5, <1>9, <2>1
  <2>3. r.sessions[e.sid].state # "IDLE" BY <1>14 DEF Released, Stopped
  <2> QED BY <1>3, <2>1, <2>2, <2>3
<1>15. ASSUME NEW e \in d.events \ DOMAIN h, NEW k \in d.events \ DOMAIN h,
              ~Released(e, r, h), ~Released(k, r, h)
       PROVE  e = k /\ DueFirst(DOMAIN h, e, 0)
  <2>1. /\ e \in DOMAIN f /\ DueFirst(mid.events, f[e], 0)
        /\ k \in DOMAIN f /\ DueFirst(mid.events, f[k], 0)
    BY <1>14, <1>15
  <2>2. f[e] = f[k] BY <1>1, <1>9, <2>1, FirstDueUnique
  <2>3. ~(e.pos < k.pos) /\ ~(k.pos < e.pos)
    <3>1. f[e].pos \in Nat BY <1>1, <1>7, <1>9, <2>1
    <3> QED BY <1>2, <2>1, <2>2, <3>1 DEF Leads
  <2>4. e = k BY <1>1, <1>7, <2>3 DEF Distinct
  <2>5. Age(e, 0).delay = 0 BY <1>1, <1>7, <1>9, <2>1 DEF DueFirst
  <2>6. ASSUME NEW x \in DOMAIN h, x.pos < e.pos PROVE Age(x, 0).delay > 0
    <3>1. x \in DOMAIN f BY <1>5
    <3>2. f[x].pos < f[e].pos BY <1>2, <2>1, <2>6, <3>1 DEF Leads
    <3>3. Age(f[x], 0).delay > 0 BY <1>9, <2>1, <3>1, <3>2 DEF DueFirst
    <3> QED BY <1>1, <1>7, <1>9, <3>1, <3>3
  <2> QED BY <2>4, <2>5, <2>6 DEF DueFirst
<1>16. ASSUME NEW s \in Sid, r.sessions[s].ranging_count > d.sessions[s].ranging_count
       PROVE  \E e \in d.events \ DOMAIN h :
                IsEventOf(e, "RANGE_DATA", s) /\ Age(e, 0).delay = 0
  <2>1. d.sessions[s].ranging_count \in Nat /\ mid.sessions[s].ranging_count \in Nat
    BY DEF Sound, DeviceOK, DeviceState, Session
  <2>2. mid.sessions[s].ranging_count <= d.sessions[s].ranging_count
    <3>1. mid.sessions[s].ranging_count \in 0 .. d.sessions[s].ranging_count
      BY DEF CommandLaw
    <3> QED BY <2>1, <3>1
  <2> DEFINE n == r.sessions[s].ranging_count
  <2>3. n > mid.sessions[s].ranging_count
    <3>1. n \in Nat BY DEF Sound, DeviceOK, DeviceState, Session
    <3> HIDE DEF n
    <3> QED BY <1>16, <2>1, <2>2, <3>1 DEF n
  <2>4. PICK c \in mid.events \ DOMAIN g :
          IsEventOf(c, "RANGE_DATA", s) /\ Age(c, 0).delay = 0
    BY <1>3, <2>3
  <2>5. c.delay = 0 /\ c.type = "RANGE_DATA" /\ c.sid = s
    BY <1>1, <1>7, <2>4 DEF IsEventOf
  <2>6. c \in Image(f) BY <1>2, <2>4, <2>5
  <2>7. PICK e \in DOMAIN f : c = f[e] BY <2>6 DEF Image
  <2>8. e \in d.events \ DOMAIN h BY <1>5, <1>9, <2>4, <2>7
  <2>9. e.delay = 0 /\ IsEventOf(e, "RANGE_DATA", s) BY <1>9, <2>5, <2>7 DEF IsEventOf
  <2>10. Age(e, 0) = e BY <1>1, <1>7, <2>8
  <2> QED BY <2>8, <2>9, <2>10
<1> QED BY <1>6, <1>10, <1>15, <1>16 DEF StepEvents

(* The body of EventsAccounted for given ms and kept.                      *)
Accounted(ms, kept) ==
  LET stayed == InOrder({Age(e, ms) : e \in kept})
      added == dev'.events \ stayed
      gone == dev.events \ kept
      served == {e \in gone : ~Withdrawn(e) /\ ~Replaced(e, kept, added)}
  IN  /\ stayed \subseteq dev'.events
      /\ {e.pos : e \in dev'.events} = 1 .. Cardinality(dev'.events)
      /\ \A c \in added : c.delay = dev'.sessions[c.sid].interval
      /\ \A e, f \in served : e = f /\ FirstDue(e, kept, ms)
      /\ \A s \in Sid :
           dev'.sessions[s].ranging_count > dev.sessions[s].ranging_count =>
             \E e \in gone :
               IsEventOf(e, "RANGE_DATA", s) /\ Age(e, ms).delay = 0
AccountedStep == \E ms \in Elapsed \cup {0}, kept \in SUBSET dev.events : Accounted(ms, kept)

(* The function that leads the kept entries gives the accounting.          *)
LEMMA AccountedBy ==
  ASSUME EngineInv, EngineInv', NEW ms \in Elapsed \cup {0}, StepEvents(dev, dev', ms)
  PROVE  AccountedStep
<1>0. ms \in Nat BY InputAssumption
<1>1. PICK h : /\ Leads(dev.events, dev'.events, h, ms) /\ Waits(dev', h)
               /\ \A e, k \in dev.events \ DOMAIN h :
                    \/ Released(e, dev', h) \/ Released(k, dev', h)
                    \/ e = k /\ DueFirst(DOMAIN h, e, ms)
               /\ \A s \in Sid :
                    dev'.sessions[s].ranging_count > dev.sessions[s].ranging_count =>
                      \E e \in dev.events \ DOMAIN h :
                        IsEventOf(e, "RANGE_DATA", s) /\ Age(e, ms).delay = 0
  BY DEF StepEvents
<1> DEFINE kept == DOMAIN h
<1> DEFINE stayed == InOrder({Age(e, ms) : e \in kept})
<1> DEFINE added == dev'.events \ stayed
<1> DEFINE gone == dev.events \ kept
<1> DEFINE served == {e \in gone : ~Withdrawn(e) /\ ~Replaced(e, kept, added)}
<1>2. /\ IsFiniteSet(dev.events) /\ Distinct(dev.events)
      /\ IsFiniteSet(dev'.events) /\ DenseSet(dev'.events)
  BY DenseDistinct DEF EngineInv, Sound, DeviceOK
<1>3. stayed = Image(h) BY <1>0, <1>1, <1>2, LeadsInOrder
<1>4. kept \in SUBSET dev.events /\ stayed \subseteq dev'.events
  <2>1. Image(h) \subseteq dev'.events BY <1>1 DEF Leads, Image
  <2>2. DOMAIN h \subseteq dev.events BY <1>1 DEF Leads
  <2> QED BY <1>3, <2>1, <2>2
<1>5. {e.pos : e \in dev'.events} = 1 .. Cardinality(dev'.events)
  BY <1>2 DEF DenseSet
<1>6. \A c \in added : c.delay = dev'.sessions[c.sid].interval
  <2> HIDE DEF stayed
  <2> QED BY <1>1, <1>3 DEF Waits
<1>7. ASSUME NEW e \in gone, ~Withdrawn(e), ~Replaced(e, kept, added)
      PROVE  ~Released(e, dev', h)
  <2> HIDE DEF stayed
  <2> QED BY <1>3, <1>7 DEF Withdrawn, Replaced, Released, Stopped, Rescheduled
<1>8. \A e, f \in served : e = f /\ FirstDue(e, kept, ms)
  <2> SUFFICES ASSUME NEW e \in served, NEW f \in served
               PROVE  e = f /\ FirstDue(e, kept, ms)
    OBVIOUS
  <2>1. e \in gone /\ f \in gone /\ ~Released(e, dev', h) /\ ~Released(f, dev', h)
    <3> HIDE DEF gone, added, kept
    <3> QED BY <1>7
  <2>2. e = f /\ DueFirst(DOMAIN h, e, ms) BY <1>1, <2>1
  <2> QED BY <2>2 DEF DueFirst, FirstDue
<1>9. Accounted(ms, kept)
  <2>1. \A s \in Sid :
          dev'.sessions[s].ranging_count > dev.sessions[s].ranging_count =>
            \E e \in gone : IsEventOf(e, "RANGE_DATA", s) /\ Age(e, ms).delay = 0
    BY <1>1
  <2> HIDE DEF kept
  <2> QED BY <1>4, <1>5, <1>6, <1>8, <2>1 DEF Accounted
<1> HIDE DEF kept
<1> QED BY <1>4, <1>9 DEF AccountedStep

LEMMA LawAccounted ==
  ASSUME EngineInv, EngineInv', StepLaw
  PROVE  [AccountedStep]_dev
<1>1. Sound(dev) /\ Sound(dev') BY DEF EngineInv
<1>2. CASE SubmitLaw(dev, dev')
  <2>1. PICK mid : /\ CommandLaw(dev, mid)
                   /\ dev' = mid \/ (Sound(mid) /\ TickLaw(mid, dev', 0))
    BY <1>2 DEF SubmitLaw
  <2>2. CASE dev' = mid BY <1>1, <2>1, <2>2, CommandAccounted, AccountedBy
  <2>3. CASE Sound(mid) /\ TickLaw(mid, dev', 0)
    BY <1>1, <2>1, <2>3, SubmitAccounted, AccountedBy
  <2> QED BY <2>1, <2>2, <2>3
<1>3. CASE \E ms \in Elapsed : TickLaw(dev, dev', ms)
  <2>1. PICK ms \in Elapsed : TickLaw(dev, dev', ms) BY <1>3
  <2>2. ms \in Nat BY InputAssumption
  <2>3. StepEvents(dev, dev', ms) BY <1>1, <2>1, <2>2, TickAccounted DEF TickLaw
  <2> QED BY <2>3, AccountedBy
<1>4. CASE dev' = dev BY <1>4
<1> QED BY <1>2, <1>3, <1>4 DEF StepLaw

(* The initial states and the steps of SessionLifecycle.                   *)
StateView == [s \in Sid |-> dev.sessions[s].state]

LEMMA InitLifecycle == Init => Lifecycle!Init
<1>1. FreeSession.state = "NONE"
  BY SessionTypes DEF FreeSession, Session, NewSession
<1> QED BY <1>1 DEF Init, InitDevice, Lifecycle!Init

LEMMA LawLifecycle ==
  ASSUME EngineInv, StepLaw
  PROVE  [Lifecycle!Next]_StateView
<1> DEFINE v == [s \in Sid |-> dev.sessions[s].state]
<1> SUFFICES [Lifecycle!Next]_v BY DEF StateView
<1>2. View(dev) = v /\ View(dev') = v' BY DEF View
<1>3. v \in Lifecycle!Views
  <2>1. dev.sessions \in [Sid -> Session] BY DEF EngineInv, Sound, DeviceOK, DeviceState
  <2> QED BY <2>1 DEF Lifecycle!Views, Lifecycle!States, Session, SessionStates
<1>4. ASSUME NEW w, Lifecycle!Command(v, w) PROVE w \in Lifecycle!Views
  <2> HIDE DEF v
  <2> QED BY <1>3, <1>4 DEF Lifecycle!Command, Lifecycle!Create, Lifecycle!Start,
           Lifecycle!Stop, Lifecycle!Destroy, Lifecycle!Reset, Lifecycle!Moves,
           Lifecycle!Views, Lifecycle!States
<1>5. ASSUME NEW w, Lifecycle!Command(v, w), Lifecycle!BudgetEnd(w, v')
      PROVE  Lifecycle!Next
  <2>1. w \in Lifecycle!Views BY <1>4, <1>5
  <2> QED BY <1>5, <2>1 DEF Lifecycle!Next
<1>6. CASE SubmitLaw(dev, dev')
  <2>1. PICK mid : CommandLaw(dev, mid) /\ (dev' = mid \/ TickLaw(mid, dev', 0))
    BY <1>6 DEF SubmitLaw
  <2>2. Lifecycle!Command(v, View(mid)) BY <1>2, <2>1 DEF CommandLaw
  <2>3. Lifecycle!BudgetEnd(View(mid), v')
    BY <1>2, <2>1 DEF TickLaw, Lifecycle!BudgetEnd
  <2> QED BY <1>5, <2>2, <2>3
<1>7. CASE \E ms \in Elapsed : TickLaw(dev, dev', ms)
  <2>1. Lifecycle!BudgetEnd(v, v') BY <1>2, <1>7 DEF TickLaw
  <2>2. Lifecycle!Command(v, v) BY DEF Lifecycle!Command
  <2> QED BY <1>5, <2>1, <2>2
<1>8. CASE dev' = dev BY <1>8
<1> QED BY <1>6, <1>7, <1>8 DEF StepLaw

-----------------------------------------------------------------------------
(* The theorems.                                                           *)

(* A measurement is only ever counted while the budget of the session      *)
(* allows it: neither lowering MAX_NUMBER_OF_MEASUREMENTS in mid-stream    *)
(* nor restarting a session whose count was kept gets round the check of   *)
(* uci_sim_device_emit_ranging_stream.                                     *)
THEOREM BudgetKept == Spec => BudgetRespected
<1>1. EngineInv /\ EngineInv' /\ [Next]_engineVars => [BudgetStep]_engineVars
  BY NextLaw, LawBudget
<1> QED BY <1>1, InvHolds, PTL DEF Spec, BudgetRespected, BudgetStep

(* No engine call loses, repeats or reorders a scheduled event.  The loops *)
(* of reschedule, cancel and dequeue move the entries one by one; however  *)
(* many there are, the array is left with those that were kept, in order,  *)
(* then the new ones, and what left was withdrawn, replaced or served.     *)
THEOREM EventsAreAccounted == Spec => EventsAccounted
<1>1. EngineInv /\ EngineInv' /\ [Next]_engineVars => [AccountedStep]_dev
  BY NextLaw, LawAccounted
<1> QED BY <1>1, InvHolds, PTL DEF Spec, EventsAccounted, AccountedStep, Accounted

(* A session that goes from IDLE to ACTIVE waits one full interval before  *)
(* its first range data, although the submit that starts it also serves a  *)
(* ready event: the one served belongs to another session.                 *)
THEOREM RestartWaits == Spec => RestartWaitsOneInterval
<1>1. EngineInv /\ [Next]_engineVars => [RestartStep]_engineVars
  BY NextLaw, LawRestart
<1> QED BY <1>1, InvHolds, PTL DEF Spec, RestartWaitsOneInterval, RestartStep

(* The engine implements the session life cycle: every submit is a command *)
(* of SessionLifecycle, possibly followed by the end of a budget, and      *)
(* every tick is at most the end of a budget.                              *)
THEOREM EngineImplementsLifecycle == Spec => LifecycleImplemented
<1>1. EngineInv /\ [Next]_engineVars => [Lifecycle!Next]_StateView
  BY NextLaw, LawLifecycle
<1> QED BY <1>1, InitLifecycle, InvHolds, PTL
        DEF Spec, LifecycleImplemented, Lifecycle!Spec, StateView

-----------------------------------------------------------------------------
(* Which operations leave the pending queue and the numbering alone.       *)

SameQueue(d, r) ==
  r.pending = d.pending /\ r.next_seq = d.next_seq /\ r.lost = d.lost

LEMMA SameQueues ==
  ASSUME NEW d, d \in DeviceState
  PROVE  /\ \A s, v : SameQueue(d, SetSession(d, s, v))
         /\ \A type, s, ms : SameQueue(d, ScheduleEvent(d, type, s, ms))
         /\ \A type, s : SameQueue(d, RemoveEvents(d, type, s))
         /\ \A s : SameQueue(d, CancelSessionEvents(d, s))
         /\ \A ms : SameQueue(d, TickEvents(d, ms))
         /\ \A e : SameQueue(d, RemoveEvent(d, e))
<1>1. ASSUME NEW x, NEW y
      PROVE  /\ SameQueue(d, [d EXCEPT !.sessions = x])
             /\ SameQueue(d, [d EXCEPT !.events = y])
  BY DEF SameQueue, DeviceState
<1>2. ASSUME NEW s, NEW v PROVE SameQueue(d, SetSession(d, s, v))
  <2>1. SetSession(d, s, v) = [d EXCEPT !.sessions = [d.sessions EXCEPT ![s] = v]]
    BY DEF SetSession, DeviceState
  <2> QED BY <1>1, <2>1
<1>3. SameQueue(d, d) BY DEF SameQueue
<1>4. ASSUME NEW type, NEW s, NEW ms PROVE SameQueue(d, ScheduleEvent(d, type, s, ms))
  BY <1>1, <1>3 DEF ScheduleEvent
<1> QED BY <1>1, <1>2, <1>4 DEF RemoveEvents, CancelSessionEvents, TickEvents, RemoveEvent
=============================================================================
