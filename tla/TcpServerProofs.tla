--------------------------- MODULE TcpServerProofs ---------------------------
(***************************************************************************)
(* Proofs about the TCP server: what the client can tell of the sessions   *)
(* from the packets it is sent.  The argument follows the packets.  A step *)
(* of the device from d to r that puts the packets P on the wire keeps the *)
(* client's view correct (WireStep(d, r, P)); such steps compose; a        *)
(* handler is one with at most two packets, so is a served event, and one  *)
(* iteration of the loop is at most three of them.                         *)
(***************************************************************************)
EXTENDS TcpServer, EngineStepProofs

(* Hear and See, for any earlier knowledge h and n of the client.          *)
HearOf(h, q, s) ==
  LET about == {i \in DOMAIN q : Concerns(q[i], s)}
  IN  IF about = {} THEN h[s] ELSE Told(q[Max(about)])
Numbered(p) == p.kind \in {"RANGE_DATA", "DEVICE_STATUS"}
SeeOf(n, q) ==
  LET marks == {i \in DOMAIN q : Numbered(q[i])}
  IN  IF marks = {} THEN n ELSE q[Max(marks)].num

(* The range data at index i carries the next number, and the client has   *)
(* been told by then that its session is ACTIVE.                           *)
InTurn(h, n, q, i) ==
  q[i].kind = "RANGE_DATA" =>
    /\ q[i].num = SeeOf(n, SubSeq(q, 1, i - 1)) + 1
    /\ HearOf(h, SubSeq(q, 1, i - 1), q[i].sid) = "ACTIVE"

(* After the packets q the client knows the states of device d.            *)
Wire(h, n, d, q) ==
  /\ \A s \in Sid : HearOf(h, q, s) = d.sessions[s].state
  /\ d.next_seq = SeeOf(n, q) + 1
  /\ \A i \in DOMAIN q : InTurn(h, n, q, i)

(* Device r is what d becomes for a client that reads packet p.            *)
Carries(d, r, p) ==
  /\ \A s \in Sid : r.sessions[s].state =
                      IF Concerns(p, s) THEN Told(p) ELSE d.sessions[s].state
  /\ r.next_seq = IF Numbered(p) THEN p.num + 1 ELSE d.next_seq
  /\ p.kind = "RANGE_DATA" => /\ p.num = d.next_seq
                              /\ p.sid \in Sid /\ Active(d, p.sid)

WireStep(d, r, P) ==
  \A h, n : \A q \in Seq(Packet) : Wire(h, n, d, q) => Wire(h, n, r, q \o P)

-----------------------------------------------------------------------------
(* The last packet of a kind.                                              *)

(* A nonempty finite set of indices has a greatest element, so Max chooses *)
(* one.                                                                    *)
LEMMA LastIndex ==
  ASSUME NEW k \in Nat, NEW R, R \subseteq 1 .. k, R # {}
  PROVE  Max(R) \in R /\ \A j \in R : Max(R) >= j
<1> DEFINE Above(i) == {j \in R : j > i}
<1> DEFINE T == {Above(i) : i \in R}
<1>1. T \subseteq FiniteSubsetsOf(R) /\ T # {}
  <2>1. IsFiniteSet(R)
    <3>1. IsFiniteSet(1 .. k) BY FS_Interval
    <3> QED BY <3>1, FS_Subset
  <2>2. \A U \in SUBSET R : IsFiniteSet(U) BY <2>1, FS_Subset
  <2> QED BY <2>2 DEF FiniteSubsetsOf
<1>2. PICK X \in T : \A Y \in T : ~ (<<Y, X>> \in StrictSubsetOrdering(R))
  <2>1. IsFiniteSet(R)
    <3>1. IsFiniteSet(1 .. k) BY FS_Interval
    <3> QED BY <3>1, FS_Subset
  <2> HIDE DEF T
  <2> QED BY <1>1, <2>1, FS_StrictSubsetOrderingWellFounded, WFMin
<1>3. PICK m \in R : X = Above(m) BY <1>2
<1>4. ASSUME NEW j \in R, j > m PROVE FALSE
  <2>1. j \in Nat /\ m \in Nat BY <1>3
  <2>2. Above(j) \subseteq Above(m)
    <3>1. \A x \in R : x \in Nat /\ (x > j => x > m) BY <1>4, <2>1
    <3> QED BY <3>1
  <2>3. j \in Above(m) /\ j \notin Above(j) BY <1>4, <2>1
  <2>4. <<Above(j), Above(m)>> \in StrictSubsetOrdering(R)
    BY <2>2, <2>3 DEF StrictSubsetOrdering
  <2> QED BY <1>2, <1>3, <2>4
<1>5. \E x \in R : \A j \in R : x >= j BY <1>3, <1>4
<1> QED BY <1>5 DEF Max

(* One more packet: what the client hears last is that packet, if it       *)
(* concerns the session, and what it heard before otherwise.               *)
LEMMA HearAppend ==
  ASSUME NEW h, NEW q \in Seq(Packet), NEW p \in Packet, NEW s
  PROVE  HearOf(h, Append(q, p), s) =
           IF Concerns(p, s) THEN Told(p) ELSE HearOf(h, q, s)
<1> DEFINE k == Len(q)
<1> DEFINE q2 == Append(q, p)
<1> DEFINE A == {i \in DOMAIN q : Concerns(q[i], s)}
<1> DEFINE B == {i \in DOMAIN q2 : Concerns(q2[i], s)}
<1>1. /\ k \in Nat /\ DOMAIN q = 1 .. k /\ DOMAIN q2 = 1 .. k + 1
      /\ (\A i \in 1 .. k : q2[i] = q[i]) /\ q2[k + 1] = p
  BY AppendProperties, LenProperties
<1> HIDE DEF q2, k
<1>2. A \subseteq 1 .. k BY <1>1
<1>3. B \subseteq 1 .. k + 1 BY <1>1
<1>4. CASE Concerns(p, s)
  <2>1. k + 1 \in B BY <1>1, <1>4
  <2>2. Max(B) \in B /\ \A j \in B : Max(B) >= j
    <3>1. k + 1 \in Nat /\ B # {} BY <1>1, <2>1
    <3> HIDE DEF B
    <3> QED BY <1>3, <3>1, LastIndex
  <2>3. Max(B) = k + 1
    <3>1. Max(B) \in 1 .. k + 1 /\ Max(B) >= k + 1
      <4> HIDE DEF B
      <4> QED BY <1>3, <2>1, <2>2
    <3> HIDE DEF B
    <3> QED BY <1>1, <3>1
  <2>4. HearOf(h, q2, s) = Told(q2[Max(B)]) BY <2>1 DEF HearOf
  <2> QED BY <1>1, <1>4, <2>3, <2>4 DEF q2
<1>5. CASE ~Concerns(p, s)
  <2>1. A = B
    <3>1. \A i \in A : i \in B BY <1>1
    <3>2. \A i \in B : i \in A BY <1>1, <1>5
    <3> HIDE DEF A, B
    <3> QED BY <3>1, <3>2
  <2>2. HearOf(h, q2, s) = IF B = {} THEN h[s] ELSE Told(q2[Max(B)]) BY DEF HearOf
  <2>3. HearOf(h, q, s) = IF A = {} THEN h[s] ELSE Told(q[Max(A)]) BY DEF HearOf
  <2>4. A # {} => q2[Max(A)] = q[Max(A)]
    <3> HIDE DEF A
    <3> QED BY <1>1, <1>2, LastIndex
  <2> HIDE DEF A, B
  <2> QED BY <1>5, <2>1, <2>2, <2>3, <2>4 DEF q2
<1> QED BY <1>4, <1>5

(* The same for the numbers.                                               *)
LEMMA SeeAppend ==
  ASSUME NEW n, NEW q \in Seq(Packet), NEW p \in Packet
  PROVE  SeeOf(n, Append(q, p)) = IF Numbered(p) THEN p.num ELSE SeeOf(n, q)
<1> DEFINE k == Len(q)
<1> DEFINE q2 == Append(q, p)
<1> DEFINE A == {i \in DOMAIN q : Numbered(q[i])}
<1> DEFINE B == {i \in DOMAIN q2 : Numbered(q2[i])}
<1>1. /\ k \in Nat /\ DOMAIN q = 1 .. k /\ DOMAIN q2 = 1 .. k + 1
      /\ (\A i \in 1 .. k : q2[i] = q[i]) /\ q2[k + 1] = p
  BY AppendProperties, LenProperties
<1> HIDE DEF q2, k
<1>2. A \subseteq 1 .. k BY <1>1
<1>3. B \subseteq 1 .. k + 1 BY <1>1
<1>4. CASE Numbered(p)
  <2>1. k + 1 \in B BY <1>1, <1>4
  <2>2. Max(B) \in B /\ \A j \in B : Max(B) >= j
    <3>1. k + 1 \in Nat /\ B # {} BY <1>1, <2>1
    <3> HIDE DEF B
    <3> QED BY <1>3, <3>1, LastIndex
  <2>3. Max(B) = k + 1
    <3>1. Max(B) \in 1 .. k + 1 /\ Max(B) >= k + 1
      <4> HIDE DEF B
      <4> QED BY <1>3, <2>1, <2>2
    <3> HIDE DEF B
    <3> QED BY <1>1, <3>1
  <2>4. SeeOf(n, q2) = q2[Max(B)].num BY <2>1 DEF SeeOf
  <2> QED BY <1>1, <1>4, <2>3, <2>4 DEF q2
<1>5. CASE ~Numbered(p)
  <2>1. A = B
    <3>1. \A i \in A : i \in B BY <1>1
    <3>2. \A i \in B : i \in A BY <1>1, <1>5
    <3> HIDE DEF A, B
    <3> QED BY <3>1, <3>2
  <2>2. SeeOf(n, q2) = IF B = {} THEN n ELSE q2[Max(B)].num BY DEF SeeOf
  <2>3. SeeOf(n, q) = IF A = {} THEN n ELSE q[Max(A)].num BY DEF SeeOf
  <2>4. A # {} => q2[Max(A)] = q[Max(A)]
    <3> HIDE DEF A
    <3> QED BY <1>1, <1>2, LastIndex
  <2> HIDE DEF A, B
  <2> QED BY <1>5, <2>1, <2>2, <2>3, <2>4 DEF q2
<1> QED BY <1>4, <1>5

(* The packets already queued stay a prefix of the queue.                  *)
LEMMA PrefixAppend ==
  ASSUME NEW q \in Seq(Packet), NEW p \in Packet, NEW i \in 1 .. Len(q) + 1
  PROVE  SubSeq(Append(q, p), 1, i - 1) = SubSeq(q, 1, i - 1)
<1> DEFINE q2 == Append(q, p)
<1>1. /\ Len(q) \in Nat /\ DOMAIN q = 1 .. Len(q)
      /\ (\A j \in 1 .. Len(q) : q2[j] = q[j] /\ q[j] \in Packet)
  BY AppendProperties, LenProperties
<1> HIDE DEF q2
<1>2. /\ SubSeq(q2, 1, i - 1) \in Seq(Packet)
      /\ Len(SubSeq(q2, 1, i - 1)) = i - 1
      /\ \A j \in 1 .. i - 1 : SubSeq(q2, 1, i - 1)[j] = q2[j]
  BY <1>1, SubSeqProperties
<1>3. /\ SubSeq(q, 1, i - 1) \in Seq(Packet)
      /\ Len(SubSeq(q, 1, i - 1)) = i - 1
      /\ \A j \in 1 .. i - 1 : SubSeq(q, 1, i - 1)[j] = q[j]
  BY <1>1, SubSeqProperties
<1>4. SubSeq(q2, 1, i - 1) = SubSeq(q, 1, i - 1) BY <1>1, <1>2, <1>3, SeqEqual
<1> QED BY <1>4 DEF q2

-----------------------------------------------------------------------------
(* Steps on the wire, and how they compose.                                *)

(* A packet that tells the client of a change, or of no change.            *)
LEMMA CarriesStep ==
  ASSUME NEW d, NEW r, NEW p \in Packet, Carries(d, r, p)
  PROVE  WireStep(d, r, <<p>>)
<1> SUFFICES ASSUME NEW h, NEW n, NEW q \in Seq(Packet), Wire(h, n, d, q)
             PROVE  Wire(h, n, r, q \o <<p>>)
  BY DEF WireStep
<1> DEFINE q2 == Append(q, p)
<1> DEFINE k == Len(q)
<1>1. q \o <<p>> = q2 BY AppendIsConcat
<1>2. /\ k \in Nat /\ DOMAIN q = 1 .. k /\ DOMAIN q2 = 1 .. k + 1
      /\ (\A i \in 1 .. k : q2[i] = q[i]) /\ q2[k + 1] = p
  BY AppendProperties, LenProperties
<1>3. \A i \in 1 .. k + 1 : SubSeq(q2, 1, i - 1) = SubSeq(q, 1, i - 1)
  BY PrefixAppend
<1>4. SubSeq(q, 1, (k + 1) - 1) = q
  <2>1. (k + 1) - 1 = k BY <1>2
  <2> QED BY <2>1, SubSeqFull
<1>5. \A s \in Sid : HearOf(h, q2, s) = r.sessions[s].state
  BY HearAppend DEF Carries, Wire
<1>6. r.next_seq = SeeOf(n, q2) + 1 BY SeeAppend DEF Carries, Wire
<1>7. ASSUME NEW i \in DOMAIN q2 PROVE InTurn(h, n, q2, i)
  <2> HIDE DEF q2, k
  <2>1. CASE i \in 1 .. k
    <3>1. InTurn(h, n, q, i) BY <1>2, <2>1 DEF Wire
    <3>2. SubSeq(q2, 1, i - 1) = SubSeq(q, 1, i - 1) /\ q2[i] = q[i]
      BY <1>2, <1>3, <2>1
    <3> QED BY <3>1, <3>2 DEF InTurn
  <2>2. CASE i = k + 1
    <3>1. SubSeq(q2, 1, i - 1) = q /\ q2[i] = p BY <1>2, <1>3, <1>4, <2>2
    <3> QED BY <3>1 DEF InTurn, Carries, Wire, Active
  <2> QED BY <1>2, <1>7, <2>1, <2>2
<1> HIDE DEF q2
<1> QED BY <1>1, <1>5, <1>6, <1>7 DEF Wire

(* What the client is to know is the same.                                 *)
SameTold(d, r) ==
  /\ \A s \in Sid : r.sessions[s].state = d.sessions[s].state
  /\ r.next_seq = d.next_seq

LEMMA NoStep ==
  ASSUME NEW d, NEW r, SameTold(d, r)
  PROVE  WireStep(d, r, << >>)
<1>1. \A q \in Seq(Packet) : q \o << >> = q BY ConcatEmptySeq
<1> QED BY <1>1 DEF WireStep, Wire, SameTold

(* The kinds of packets that say nothing about states and numbers.         *)
Silent(p) == p.kind \notin {"SESSION_STATUS", "DEVICE_STATUS", "RANGE_DATA"}

LEMMA SilentStep ==
  ASSUME NEW d, NEW r, SameTold(d, r), NEW p \in Packet, Silent(p)
  PROVE  WireStep(d, r, <<p>>)
<1>1. Carries(d, r, p) BY DEF Carries, SameTold, Silent, Concerns, Numbered
<1> QED BY <1>1, CarriesStep

LEMMA Compose ==
  ASSUME NEW d, NEW m, NEW r, NEW P \in Seq(Packet), NEW Q \in Seq(Packet),
         WireStep(d, m, P), WireStep(m, r, Q)
  PROVE  WireStep(d, r, P \o Q)
<1> SUFFICES ASSUME NEW h, NEW n, NEW q \in Seq(Packet), Wire(h, n, d, q)
             PROVE  Wire(h, n, r, q \o (P \o Q))
  BY DEF WireStep
<1>1. (q \o P) \o Q = q \o (P \o Q) BY ConcatAssociative
<1>2. q \o P \in Seq(Packet) BY ConcatProperties
<1>3. Wire(h, n, m, q \o P) BY DEF WireStep
<1>4. Wire(h, n, r, (q \o P) \o Q) BY <1>2, <1>3 DEF WireStep
<1> QED BY <1>1, <1>4

-----------------------------------------------------------------------------
(* How much room the argument needs.                                       *)

(* The code's queues hold 8 and 16 packets; the argument needs 2 and 6.    *)
Roomy ==
  /\ ~ShouldDefer
  /\ MAX_PENDING_NOTIFICATIONS >= 2
  /\ MAX_OUTBOUND_PACKETS >= 6

Settled(d) == d.pending = << >> /\ d.lost = FALSE

(* While one slot is free a notification is appended.                      *)
LEMMA QueueOne ==
  ASSUME Roomy, NEW d, DeviceOK(d), Len(d.pending) <= 1, NEW n
  PROVE  LET r == QueueNotification(d, n)
         IN  /\ CanQueue(d) /\ r.pending = Append(d.pending, n)
             /\ r.next_seq = d.next_seq /\ r.lost = d.lost
             /\ r.sessions = d.sessions
<1>1. Len(d.pending) \in Nat
  BY LenProperties DEF DeviceOK, DeviceState
<1>2. CanQueue(d) BY <1>1, SizesAssumption DEF CanQueue, Roomy
<1> QED BY <1>2 DEF QueueNotification, DeviceOK, DeviceState

-----------------------------------------------------------------------------
(* A served event.                                                         *)

(* The device r reached from d has queued what tells the client of it.     *)
Burst(d, r) ==
  /\ r.pending \in Seq(Packet) /\ Len(r.pending) <= 2
  /\ r.lost = FALSE
  /\ WireStep(d, r, r.pending)

(* The end of the budget is announced.                                     *)
LEMMA StopAtBudgetWire ==
  ASSUME Roomy, NEW d, Sound(d), NEW s \in Allocated(d),
         Len(d.pending) <= 1, d.lost = FALSE
  PROVE  LET o == StopAtBudget(d, s)
             n == SessionStatusNtf(s, "IDLE_MAX_REACHED")
         IN  /\ o.ok /\ o.dev.pending = Append(d.pending, n)
             /\ o.dev.lost = FALSE /\ WireStep(d, o.dev, <<n>>)
<1> DEFINE v == d.sessions[s]
<1> DEFINE w == [v EXCEPT !.state = "IDLE", !.stream_remaining = 0]
<1> DEFINE idle == SetSession(d, s, w)
<1> DEFINE quiet == CancelSessionEvents(idle, s)
<1> DEFINE n == SessionStatusNtf(s, "IDLE_MAX_REACHED")
<1> DEFINE r == QueueNotification(quiet, n)
<1>1. s \in Sid /\ DeviceOK(d) /\ v \in Session BY SessionOf DEF Allocated, Sound
<1>2. w \in Session BY <1>1 DEF Session, SessionStates
<1>3. DeviceOK(idle) /\ SameQueue(d, idle) /\ idle.events = d.events
  <2> HIDE DEF w
  <2> QED BY <1>1, <1>2, SetSessionType, SameQueues DEF DeviceOK
<1>4. DeviceOK(quiet) /\ SameQueue(idle, quiet)
  <2> HIDE DEF idle
  <2> QED BY <1>1, <1>3, CancelSessionEventsType, SameQueues DEF DeviceOK, Sound
<1>5. /\ CanQueue(quiet) /\ r.pending = Append(d.pending, n)
      /\ r.next_seq = d.next_seq /\ r.lost = FALSE
  <2> HIDE DEF quiet, idle, n
  <2>1. Len(quiet.pending) <= 1 BY <1>3, <1>4 DEF SameQueue
  <2> QED BY <1>3, <1>4, <2>1, QueueOne DEF SameQueue
<1>6. StopAtBudget(d, s).dev = r /\ StopAtBudget(d, s).ok = CanQueue(quiet)
  BY DEF StopAtBudget, Outcome
<1>7. /\ \A t \in Sid \ {s} : r.sessions[t] = d.sessions[t]
      /\ r.sessions[s].state = "IDLE"
  <2> HIDE DEF r
  <2> QED BY <1>6, StopAtBudgetLaw
<1>8. n \in Packet BY <1>1, PacketTypes DEF Codes
<1>9. /\ n.kind = "SESSION_STATUS" /\ n.sid = s /\ Told(n) = "IDLE"
  BY DEF SessionStatusNtf, MakePacket, Told
<1> HIDE DEF r, n, quiet
<1>10. Carries(d, r, n) BY <1>5, <1>7, <1>9 DEF Carries, Concerns, Numbered
<1>11. WireStep(d, r, <<n>>) BY <1>8, <1>10, CarriesStep
<1> QED BY <1>5, <1>6, <1>11 DEF n

(* One range-data event: a measurement is numbered, announced and counted, *)
(* and the end of the budget is announced behind it.                       *)
LEMMA EmitRangingStreamWire ==
  ASSUME Roomy, NEW d, Sound(d), Settled(d), NEW s \in Allocated(d), NEW hit \in BOOLEAN
  PROVE  LET o == EmitRangingStream(d, s, hit) IN o.ok /\ Burst(d, o.dev)
<1> DEFINE v == d.sessions[s]
<1> DEFINE numbered == [d EXCEPT !.next_seq = @ + 1]
<1> DEFINE n == RangeDataNtf(s, d.next_seq)
<1> DEFINE sent == IF ShouldEmit(v, hit) THEN QueueNotification(numbered, n) ELSE d
<1> DEFINE count == v.ranging_count + 1
<1> DEFINE left == v.stream_remaining - 1
<1> DEFINE w == [v EXCEPT !.ranging_count = count, !.stream_remaining = left]
<1> DEFINE counted == SetSession(sent, s, w)
<1> DEFINE z == SessionStatusNtf(s, "IDLE_MAX_REACHED")
<1>0. s \in Sid /\ DeviceOK(d) /\ v \in Session /\ d.next_seq \in Nat
      /\ d.sessions \in [Sid -> Session]
  BY SessionOf DEF Allocated, Sound, DeviceOK, DeviceState
<1>1. << >> \in Seq(Packet) /\ Len(<< >>) = 0 /\ Len(d.pending) = 0
  BY EmptySeq DEF Settled
<1>2. Burst(d, d)
  <2>1. SameTold(d, d) BY DEF SameTold
  <2> QED BY <1>1, <2>1, NoStep DEF Burst, Settled
<1> SUFFICES ASSUME ~(Scenario # "ranging_stream" \/ v.stream_remaining = 0
                       \/ v.state # "ACTIVE")
             PROVE  LET o == EmitRangingStream(d, s, hit) IN o.ok /\ Burst(d, o.dev)
  BY <1>2 DEF EmitRangingStream, Outcome
<1>3. n \in Packet /\ z \in Packet BY <1>0, PacketTypes DEF Codes
<1>4. /\ Sound(numbered) /\ numbered.sessions = d.sessions
      /\ numbered.events = d.events /\ numbered.next_seq = d.next_seq + 1
      /\ numbered.pending = << >> /\ numbered.lost = FALSE
  BY DEF Sound, DeviceOK, DeviceState, QuietWhenIdle, Allocated, Settled
<1>5. LET r == QueueNotification(numbered, n)
      IN  /\ Sound(r) /\ r.sessions = d.sessions /\ r.pending = Append(<< >>, n)
          /\ r.next_seq = d.next_seq + 1 /\ r.lost = FALSE
  <2> HIDE DEF numbered, n
  <2> QED BY <1>1, <1>3, <1>4, QueueNotificationSound, QueueOne DEF Sound
<1>6. /\ Sound(sent) /\ sent.sessions = d.sessions /\ sent.lost = FALSE
      /\ s \in Allocated(sent)
  <2>1. Sound(sent) /\ sent.sessions = d.sessions /\ sent.lost = FALSE
    BY <1>5 DEF Settled
  <2> HIDE DEF sent
  <2> QED BY <1>0, <2>1 DEF Allocated
<1>7. w \in Session /\ w.state = "ACTIVE"
  <2>1. count \in Nat /\ left \in Nat BY <1>0 DEF Session
  <2> HIDE DEF count, left
  <2> QED BY <1>0, <2>1 DEF Session
<1>8. /\ Sound(counted) /\ counted.sessions[s] = w /\ SameQueue(sent, counted)
      /\ counted.sessions = [d.sessions EXCEPT ![s] = w]
  <2> HIDE DEF sent, w
  <2> QED BY <1>0, <1>6, <1>7, SetSessionSound, SetSessionType, SameQueues
         DEF Sound, DeviceOK
<1>9. /\ \A t \in Sid : counted.sessions[t].state = d.sessions[t].state
      /\ s \in Allocated(counted) /\ counted.lost = FALSE
  <2> HIDE DEF counted, sent, w
  <2>1. \A t \in Sid : counted.sessions[t].state = d.sessions[t].state
    BY <1>0, <1>7, <1>8
  <2> QED BY <1>0, <1>6, <1>8, <2>1 DEF Allocated, SameQueue
<1>10. /\ counted.pending \in Seq(Packet) /\ Len(counted.pending) <= 1
       /\ WireStep(d, counted, counted.pending)
  <2>1. CASE ShouldEmit(v, hit)
    <3>1. Append(<< >>, n) = <<n>> /\ <<n>> \in Seq(Packet) /\ Len(<<n>>) = 1
      BY <1>3
    <3>2. counted.pending = <<n>> /\ counted.next_seq = d.next_seq + 1
      <4>1. sent = QueueNotification(numbered, n) BY <2>1
      <4> HIDE DEF counted, sent, n
      <4> QED BY <1>5, <1>8, <3>1, <4>1 DEF SameQueue
    <3>3. n.kind = "RANGE_DATA" /\ n.num = d.next_seq /\ n.sid = s
      BY DEF RangeDataNtf, MakePacket
    <3> HIDE DEF counted, n
    <3>4. Carries(d, counted, n)
      BY <1>0, <1>9, <3>2, <3>3 DEF Carries, Concerns, Numbered, Active
    <3> QED BY <1>3, <3>1, <3>2, <3>4, CarriesStep
  <2>2. CASE ~ShouldEmit(v, hit)
    <3>1. counted.pending = << >> /\ counted.next_seq = d.next_seq
      <4>1. sent = d BY <2>2
      <4> HIDE DEF counted, sent
      <4> QED BY <1>8, <4>1 DEF SameQueue, Settled
    <3> HIDE DEF counted
    <3>2. SameTold(d, counted) BY <1>9, <3>1 DEF SameTold
    <3> QED BY <1>1, <3>1, <3>2, NoStep
  <2> QED BY <2>1, <2>2
<1>11. EmitRangingStream(d, s, hit) =
         IF BudgetReached(v) THEN StopAtBudget(d, s)
         ELSE IF ShouldEmit(v, hit) /\ ~CanQueue(d) THEN Outcome(sent, FALSE)
         ELSE IF BudgetReached(counted.sessions[s]) THEN StopAtBudget(counted, s)
         ELSE Outcome(counted, TRUE)
  <2>1. CountMeasurement(sent, s) = counted
    <3> HIDE DEF sent
    <3> QED BY <1>6 DEF CountMeasurement
  <2>2. sent = IF ShouldEmit(v, hit)
               THEN QueueNotification(IF ShouldEmit(v, hit) THEN numbered ELSE d, n)
               ELSE d
    OBVIOUS
  <2> HIDE DEF sent, counted
  <2> QED BY <2>1, <2>2 DEF EmitRangingStream
<1>12. ASSUME NEW c, Sound(c), s \in Allocated(c), c.lost = FALSE,
              c.pending \in Seq(Packet), Len(c.pending) <= 1,
              WireStep(d, c, c.pending)
       PROVE  LET o == StopAtBudget(c, s) IN o.ok /\ Burst(d, o.dev)
  <2> DEFINE r == StopAtBudget(c, s).dev
  <2>1. /\ StopAtBudget(c, s).ok /\ r.pending = Append(c.pending, z)
        /\ r.lost = FALSE /\ WireStep(c, r, <<z>>)
    BY <1>12, StopAtBudgetWire
  <2>2. /\ Append(c.pending, z) = c.pending \o <<z>> /\ Append(c.pending, z) \in Seq(Packet)
        /\ Len(Append(c.pending, z)) <= 2 /\ <<z>> \in Seq(Packet)
    <3> HIDE DEF z
    <3>1. Len(c.pending) \in Nat BY <1>12, LenProperties
    <3> QED BY <1>3, <1>12, <3>1, AppendIsConcat, AppendProperties
  <2> HIDE DEF r, z
  <2>3. WireStep(d, r, c.pending \o <<z>>) BY <1>12, <2>1, <2>2, Compose
  <2>4. Burst(d, r) BY <2>1, <2>2, <2>3 DEF Burst
  <2> QED BY <2>1, <2>4 DEF r
<1>13. CanQueue(d) BY <1>0, <1>1, QueueOne
<1>14. LET o == StopAtBudget(d, s) IN o.ok /\ Burst(d, o.dev)
  <2>1. WireStep(d, d, d.pending) BY <1>2 DEF Burst
  <2>2. d.pending \in Seq(Packet) /\ Len(d.pending) <= 1 /\ d.lost = FALSE
    BY <1>1 DEF Settled
  <2> QED BY <1>12, <2>1, <2>2
<1>15. LET o == StopAtBudget(counted, s) IN o.ok /\ Burst(d, o.dev)
  <2> HIDE DEF counted
  <2> QED BY <1>8, <1>9, <1>10, <1>12
<1>16. Burst(d, counted)
  <2> HIDE DEF counted
  <2>1. Len(counted.pending) <= 2
    <3>1. Len(counted.pending) \in Nat BY <1>10, LenProperties
    <3> QED BY <1>10, <3>1
  <2> QED BY <1>9, <1>10, <2>1 DEF Burst
<1> HIDE DEF sent, counted, v
<1> QED BY <1>11, <1>13, <1>14, <1>15, <1>16 DEF Outcome

(* A data-transfer event: a status, behind the credit when it is the last. *)
LEMMA ProgressDataTransferWire ==
  ASSUME Roomy, NEW d, Sound(d), Settled(d), NEW s \in Sid, Active(d, s)
  PROVE  LET o == ProgressDataTransfer(d, s) IN o.ok /\ Burst(d, o.dev)
<1> DEFINE v == d.sessions[s]
<1> DEFINE tx == (v.tx_count + 1) % TxModulus
<1> DEFINE left == v.reps_remaining - 1
<1> DEFINE a == [v EXCEPT !.tx_count = tx, !.reps_remaining = left]
<1> DEFINE f == [v EXCEPT !.tx_count = tx, !.in_progress = FALSE]
<1> DEFINE again == SetSession(d, s, a)
<1> DEFINE final == SetSession(d, s, f)
<1> DEFINE status(code) == DataStatusNtf(s, v.last_data, code, tx)
<1> DEFINE credit == DataCreditNtf(s)
<1> DEFINE credited == QueueNotification(final, credit)
<1> DEFINE ended == QueueNotification(credited, status("OK"))
<1> DEFINE repeated == QueueNotification(again, status("REPETITION_OK"))
<1>1. DeviceOK(d) /\ v \in Session /\ v.state = "ACTIVE" /\ s \in Allocated(d)
      /\ d.sessions \in [Sid -> Session] /\ d \in DeviceState
  BY SessionOf DEF Sound, Active, Allocated, DeviceOK, DeviceState
<1>2. tx \in Nat BY <1>1, SizesAssumption DEF Session
<1>3. status("OK") \in Packet /\ status("REPETITION_OK") \in Packet /\ credit \in Packet
  <2>1. v.last_data \in Msg \cup {NoMsg} BY <1>1 DEF Session
  <2> HIDE DEF v, tx
  <2> QED BY <1>2, <2>1, PacketTypes DEF Codes
<1>4. Silent(status("OK")) /\ Silent(status("REPETITION_OK")) /\ Silent(credit)
  BY DEF Silent, DataStatusNtf, DataCreditNtf, MakePacket
<1>5. ASSUME NEW x \in Session, x.state = v.state
      PROVE  LET r == SetSession(d, s, x)
             IN  DeviceOK(r) /\ SameTold(d, r) /\ r.pending = << >> /\ r.lost = FALSE
  <2> DEFINE r == SetSession(d, s, x)
  <2>1. /\ DeviceOK(r) /\ r.sessions = [d.sessions EXCEPT ![s] = x]
        /\ SameQueue(d, r)
    BY <1>1, SetSessionType, SameQueues
  <2> HIDE DEF r, v
  <2>2. SameTold(d, r) BY <1>1, <1>5, <2>1 DEF SameTold, SameQueue, v
  <2>3. r.pending = << >> /\ r.lost = FALSE BY <2>1 DEF SameQueue, Settled
  <2> QED BY <2>1, <2>2, <2>3 DEF r
<1>6. f \in Session /\ f.state = v.state
  <2> HIDE DEF tx
  <2> QED BY <1>1, <1>2 DEF Session
<1>7. v.reps_remaining > 0 => a \in Session /\ a.state = v.state
  <2>1. v.reps_remaining > 0 => left \in Nat BY <1>1 DEF Session
  <2> HIDE DEF tx, left, v
  <2> QED BY <1>1, <1>2, <2>1 DEF Session
<1>8. DeviceOK(final) /\ SameTold(d, final) /\ final.pending = << >> /\ final.lost = FALSE
  <2> HIDE DEF f, v
  <2> QED BY <1>5, <1>6
<1>9. v.reps_remaining > 0 =>
        DeviceOK(again) /\ SameTold(d, again) /\ again.pending = << >> /\ again.lost = FALSE
  <2> HIDE DEF a, v
  <2> QED BY <1>5, <1>7
<1>10. \A p \in Packet : /\ Append(<< >>, p) = <<p>> /\ <<p>> \in Seq(Packet)
                         /\ Len(<<p>>) = 1
  OBVIOUS
<1>11. Len(<< >>) = 0 OBVIOUS
<1>12. ASSUME v.reps_remaining > 0 PROVE CanQueue(again) /\ Burst(d, repeated)
  <2> DEFINE p == status("REPETITION_OK")
  <2>1. /\ CanQueue(again) /\ repeated.pending = Append(again.pending, p)
        /\ repeated.next_seq = again.next_seq /\ repeated.lost = again.lost
        /\ repeated.sessions = again.sessions
    <3> HIDE DEF again, status
    <3> QED BY <1>9, <1>11, <1>12, QueueOne
  <2> HIDE DEF repeated, again, status, v
  <2>2. SameTold(d, repeated) BY <1>9, <1>12, <2>1 DEF SameTold
  <2>3. repeated.pending = <<p>> /\ repeated.lost = FALSE
    BY <1>3, <1>9, <1>10, <1>12, <2>1
  <2>4. WireStep(d, repeated, <<p>>) BY <1>3, <1>4, <2>2, SilentStep
  <2> HIDE DEF p
  <2>5. repeated.pending \in Seq(Packet) /\ Len(repeated.pending) <= 2
    <3>1. <<p>> \in Seq(Packet) /\ Len(<<p>>) = 1 BY <1>3, <1>10 DEF p
    <3> QED BY <2>3, <3>1
  <2>6. Burst(d, repeated) BY <2>3, <2>4, <2>5 DEF Burst
  <2> QED BY <2>1, <2>6
<1>13. CanQueue(final) /\ CanQueue(credited) /\ Burst(d, ended)
  <2> DEFINE p == status("OK")
  <2>1. /\ CanQueue(final) /\ credited.pending = Append(final.pending, credit)
        /\ credited.next_seq = final.next_seq /\ credited.lost = final.lost
        /\ credited.sessions = final.sessions /\ DeviceOK(credited)
    <3> HIDE DEF final, credit
    <3>1. Len(final.pending) <= 1 BY <1>8, <1>11
    <3> QED BY <1>3, <1>8, <3>1, QueueOne, QueueNotificationType
  <2>2. credited.pending = <<credit>> /\ Len(credited.pending) <= 1
    <3> HIDE DEF credited, credit, final
    <3> QED BY <1>3, <1>8, <1>10, <2>1
  <2>3. /\ CanQueue(credited) /\ ended.pending = Append(credited.pending, p)
        /\ ended.next_seq = credited.next_seq /\ ended.lost = credited.lost
        /\ ended.sessions = credited.sessions
    <3> HIDE DEF credited, status
    <3> QED BY <2>1, <2>2, QueueOne
  <2> HIDE DEF ended, credited, final, credit, status
  <2>4. SameTold(d, credited) /\ SameTold(credited, ended)
    BY <1>8, <2>1, <2>3 DEF SameTold
  <2>5. WireStep(d, credited, <<credit>>) /\ WireStep(credited, ended, <<p>>)
    BY <1>3, <1>4, <2>4, SilentStep
  <2>6. /\ ended.pending = <<credit>> \o <<p>> /\ ended.pending \in Seq(Packet)
        /\ Len(ended.pending) = 2
    BY <1>3, <1>10, <2>2, <2>3, AppendIsConcat, AppendProperties
  <2>7. WireStep(d, ended, <<credit>> \o <<p>>)
    BY <1>3, <1>10, <2>5, Compose
  <2>8. Len(ended.pending) <= 2 /\ ended.lost = FALSE BY <1>8, <2>1, <2>3, <2>6
  <2>9. WireStep(d, ended, ended.pending) BY <2>6, <2>7
  <2>10. Burst(d, ended) BY <2>6, <2>8, <2>9 DEF Burst
  <2> QED BY <2>1, <2>3, <2>10
<1>14. ProgressDataTransfer(d, s) =
         IF v.reps_remaining > 0 THEN Outcome(repeated, CanQueue(again))
         ELSE IF ~CanQueue(final) THEN Outcome(credited, FALSE)
         ELSE Outcome(ended, CanQueue(credited))
  BY DEF ProgressDataTransfer
<1> HIDE DEF v, again, final, credited, ended, repeated
<1> QED BY <1>12, <1>13, <1>14 DEF Outcome

(* The engine left device d and queue out for g by sending at most two     *)
(* packets, and holds nothing back.                                        *)
Sends(d, out, g) ==
  \E P \in Seq(Packet) : /\ Len(P) <= 2 /\ g.out = out \o P
                         /\ Settled(g.dev) /\ WireStep(d, g.dev, P)

LEMMA SendsNothing ==
  ASSUME NEW d, NEW r, NEW out \in Seq(Packet), NEW rc, SameTold(d, r), Settled(r)
  PROVE  Sends(d, out, Engine(r, out, rc))
<1>1. << >> \in Seq(Packet) /\ Len(<< >>) <= 2 /\ out \o << >> = out
  BY ConcatEmptySeq
<1>2. WireStep(d, r, << >>) BY NoStep
<1> QED BY <1>1, <1>2 DEF Sends, Engine

(* What precedes on the device without a word to the client.               *)
LEMMA SendsAfter ==
  ASSUME NEW d, NEW m, NEW out, NEW g, SameTold(d, m), Sends(m, out, g)
  PROVE  Sends(d, out, g)
<1>1. PICK P \in Seq(Packet) : /\ Len(P) <= 2 /\ g.out = out \o P
                               /\ Settled(g.dev) /\ WireStep(m, g.dev, P)
  BY DEF Sends
<1>2. WireStep(d, g.dev, P)
  <2>1. << >> \in Seq(Packet) /\ << >> \o P = P BY ConcatEmptySeq
  <2>2. WireStep(d, g.dev, << >> \o P) BY <1>1, <2>1, NoStep, Compose
  <2> QED BY <2>1, <2>2
<1> QED BY <1>1, <1>2 DEF Sends

(* flush_device_notifications with room for all that is pending.           *)
LEMMA FlushAll ==
  ASSUME Roomy, NEW d, Sound(d), NEW out, QueueOK(out), Len(d.pending) <= 2,
         Len(out) + 2 <= MAX_OUTBOUND_PACKETS
  PROVE  LET f == FlushDeviceNotifications(d, out)
         IN  /\ f.out = out \o d.pending /\ f.dev.pending = << >>
             /\ f.dev.next_seq = d.next_seq /\ f.dev.lost = d.lost
             /\ f.dev.sessions = d.sessions
<1>1. Len(d.pending) \in Nat /\ Len(out) \in Nat
  BY LenProperties DEF Sound, DeviceOK, DeviceState, QueueOK
<1>2. Len(d.pending) <= MAX_OUTBOUND_PACKETS - Len(out) BY <1>1, OutboundAssumption
<1>3. FlushDeviceNotifications(d, out) =
        Engine([d EXCEPT !.pending = << >>], out \o d.pending, 0)
  BY <1>2 DEF FlushDeviceNotifications, Roomy
<1> QED BY <1>3 DEF Engine, Sound, DeviceOK, DeviceState

(* After the event the engine flushes and may schedule the next one.       *)
LEMMA ContinueWire ==
  ASSUME Roomy, NEW d0, NEW d, Sound(d), Burst(d0, d), NEW out, QueueOK(out),
         Len(out) + 2 <= MAX_OUTBOUND_PACKETS,
         NEW type \in EventTypes, NEW s \in Sid, NEW goesOn \in BOOLEAN
  PROVE  Sends(d0, out, Continue(d, out, type, s, goesOn))
<1> DEFINE f == FlushDeviceNotifications(d, out)
<1> DEFINE ms == d.sessions[s].interval
<1> DEFINE g == Continue(d, out, type, s, goesOn)
<1>1. /\ f.out = out \o d.pending /\ f.dev.pending = << >>
      /\ f.dev.next_seq = d.next_seq /\ f.dev.lost = FALSE
      /\ f.dev.sessions = d.sessions /\ DeviceOK(f.dev)
  BY FlushAll, FlushOK DEF Burst, EngineOK, Sound
<1>2. ms \in Nat
  <2>1. d.sessions[s] \in Session BY SessionOf DEF Sound
  <2> QED BY <2>1 DEF Session
<1> DEFINE r == ScheduleEvent(f.dev, type, s, ms)
<1>3. r.sessions = d.sessions /\ SameQueue(f.dev, r)
  <2> HIDE DEF f, ms
  <2> QED BY <1>1, <1>2, ScheduleEventType, SameQueues DEF DeviceOK
<1>4. g.out = f.out /\ (g.dev = f.dev \/ g.dev = r)
  <2> HIDE DEF f
  <2> QED BY DEF Continue, Engine, f
<1> HIDE DEF f, r, g
<1>5. SameTold(d, g.dev) /\ Settled(g.dev)
  BY <1>1, <1>3, <1>4 DEF SameTold, SameQueue, Settled
<1>6. WireStep(d0, g.dev, d.pending)
  <2>1. WireStep(d, g.dev, << >>) BY <1>5, NoStep
  <2>2. << >> \in Seq(Packet) /\ d.pending \o << >> = d.pending
    BY ConcatEmptySeq DEF Burst
  <2>3. WireStep(d0, g.dev, d.pending \o << >>) BY <2>1, <2>2, Compose DEF Burst
  <2> QED BY <2>2, <2>3
<1>7. Sends(d0, out, g) BY <1>1, <1>4, <1>5, <1>6 DEF Sends, Burst
<1> QED BY <1>7 DEF g

(* A served event sends what tells the client of it.                       *)
LEMMA ProcessReadyEventWire ==
  ASSUME Roomy, NEW d, Sound(d), Settled(d), NEW out, QueueOK(out),
         Len(out) + 2 <= MAX_OUTBOUND_PACKETS,
         NEW e, e.sid \in Sid, NEW hit \in BOOLEAN
  PROVE  Sends(d, out, ProcessReadyEvent(d, out, e, hit))
<1> DEFINE s == e.sid
<1>0. Sends(d, out, Engine(d, out, 0))
  <2>1. SameTold(d, d) BY DEF SameTold
  <2> QED BY <2>1, SendsNothing DEF QueueOK
<1>1. Sends(d, out, ProcessRangeData(d, out, s, hit))
  <2> DEFINE o == EmitRangingStream(d, s, hit)
  <2> DEFINE v == o.dev.sessions[s]
  <2> DEFINE goesOn == v.stream_remaining > 0 /\ v.state = "ACTIVE"
  <2>1. CASE s \notin Allocated(d) BY <1>0, <2>1 DEF ProcessRangeData
  <2>2. CASE s \in Allocated(d)
    <3>1. Sound(o.dev) /\ o.ok /\ Burst(d, o.dev)
      BY <2>2, EmitRangingStreamSound, EmitRangingStreamWire
    <3>2. goesOn \in BOOLEAN OBVIOUS
    <3>3. Sends(d, out, Continue(o.dev, out, "RANGE_DATA", s, goesOn))
      <4> HIDE DEF o, goesOn
      <4> QED BY <3>1, <3>2, ContinueWire DEF EventTypes
    <3>4. ProcessRangeData(d, out, s, hit) = Continue(o.dev, out, "RANGE_DATA", s, goesOn)
      BY <2>2, <3>1 DEF ProcessRangeData
    <3> QED BY <3>3, <3>4
  <2> QED BY <2>1, <2>2
<1>2. Sends(d, out, ProcessDataTransfer(d, out, s))
  <2> DEFINE o == ProgressDataTransfer(d, s)
  <2> DEFINE goesOn == o.dev.sessions[s].in_progress
  <2>1. CASE ~Active(d, s) \/ ~d.sessions[s].in_progress
    BY <1>0, <2>1 DEF ProcessDataTransfer
  <2>2. CASE Active(d, s) /\ d.sessions[s].in_progress
    <3>1. Sound(o.dev) /\ o.ok /\ Burst(d, o.dev)
      BY <2>2, ProgressDataTransferSound, ProgressDataTransferWire
    <3>2. goesOn \in BOOLEAN
      <4>1. o.dev.sessions[s] \in Session
        <5> HIDE DEF o
        <5> QED BY <3>1, SessionOf DEF Sound
      <4> QED BY <4>1 DEF Session
    <3>3. Sends(d, out, Continue(o.dev, out, "DATA_TRANSFER", s, goesOn))
      <4> HIDE DEF o, goesOn
      <4> QED BY <3>1, <3>2, ContinueWire DEF EventTypes
    <3>4. ProcessDataTransfer(d, out, s) = Continue(o.dev, out, "DATA_TRANSFER", s, goesOn)
      BY <2>2, <3>1 DEF ProcessDataTransfer
    <3> QED BY <3>3, <3>4
  <2> QED BY <2>1, <2>2
<1> QED BY <1>1, <1>2 DEF ProcessReadyEvent

(* uci_sim_engine_tick: time passes in silence, and one event is served.   *)
LEMMA EngineTickWire ==
  ASSUME Roomy, NEW d, Sound(d), Settled(d), NEW out, QueueOK(out),
         Len(out) + 2 <= MAX_OUTBOUND_PACKETS, NEW ms \in Nat, NEW hit \in BOOLEAN
  PROVE  Sends(d, out, EngineTick(d, out, ms, hit))
<1> DEFINE t == TickEvents(d, ms)
<1> DEFINE R == ReadyEvents(t)
<1> DEFINE e == FirstReadyEvent(t)
<1>1. /\ DeviceOK(t) /\ t.sessions = d.sessions /\ EventsFrom(t, d)
      /\ DenseSet(t.events) /\ SameQueue(d, t)
  BY TickEventsType, SameQueues DEF Sound, DeviceOK
<1>2. Sound(t)
  <2> HIDE DEF t
  <2> QED BY <1>1, QuietFrame DEF Sound
<1>3. SameTold(d, t) /\ Settled(t) BY <1>1 DEF SameTold, SameQueue, Settled
<1>4. CASE R = {}
  <2>1. EngineTick(d, out, ms, hit) = Engine(t, out, 0) BY <1>4, EngineTickIs
  <2> QED BY <1>3, <2>1, SendsNothing DEF QueueOK
<1>5. CASE R # {}
  <2> DEFINE m == RemoveEvent(t, e)
  <2>1. e \in t.events /\ e \in Event BY <1>5, EngineTickIs
  <2>8. EngineTick(d, out, ms, hit) = ProcessReadyEvent(m, out, e, hit)
    BY <1>5, EngineTickIs
  <2> HIDE DEF t, e
  <2>3. e.sid \in Sid BY <2>1 DEF Event
  <2>4. /\ DeviceOK(m) /\ m.sessions = t.sessions /\ EventsFrom(m, t)
        /\ DenseSet(m.events) /\ SameQueue(t, m)
    BY <1>1, <2>1, RemoveEventType, SameQueues DEF DeviceOK
  <2>5. Sound(m)
    <3> HIDE DEF m
    <3> QED BY <1>2, <2>4, QuietFrame DEF Sound
  <2> HIDE DEF m
  <2>6. SameTold(d, m) /\ Settled(m)
    BY <1>3, <2>4 DEF SameTold, SameQueue, Settled
  <2>7. Sends(m, out, ProcessReadyEvent(m, out, e, hit))
    BY <2>3, <2>5, <2>6, ProcessReadyEventWire
  <2> QED BY <2>6, <2>7, <2>8, SendsAfter
<1> QED BY <1>4, <1>5

-----------------------------------------------------------------------------
(* Handlers.  A command answers and tells nothing new, or answers and      *)
(* announces what it has done.                                             *)

Answers(d, res) ==
  /\ \E p \in Packet : Silent(p) /\ res.rsp = <<p>>
  /\ res.ntf = << >> /\ Settled(res.dev) /\ SameTold(d, res.dev)
Announces(d, res) ==
  /\ \E p \in Packet : Silent(p) /\ res.rsp = <<p>>
  /\ \E n \in Packet : res.ntf = <<n>> /\ Carries(d, res.dev, n)
  /\ res.rc = 0 /\ Settled(res.dev)

(* What a result puts on the wire.                                         *)
Sent(res) == (res.rsp \o res.ntf) \o res.dev.pending
Delivers(d, res) ==
  /\ Len(Sent(res)) <= 2 /\ Sent(res) \in Seq(Packet)
  /\ res.dev.lost = FALSE /\ WireStep(d, res.dev, Sent(res))
  /\ res.ntf = << >> => res.dev.pending = << >>

(* A response and a notification.                                          *)
LEMMA DeliversTwo ==
  ASSUME NEW d, NEW res, NEW p \in Packet, NEW n \in Packet, Silent(p),
         res.rsp = <<p>>, res.ntf = <<n>>, Settled(res.dev),
         WireStep(d, res.dev, <<n>>)
  PROVE  Delivers(d, res)
<1>1. /\ <<p>> \in Seq(Packet) /\ <<n>> \in Seq(Packet)
      /\ Len(<<p>>) = 1 /\ Len(<<n>>) = 1
  OBVIOUS
<1>2. /\ <<p>> \o <<n>> \in Seq(Packet) /\ Len(<<p>> \o <<n>>) <= 2
  BY <1>1, ConcatProperties
<1>3. Sent(res) = <<p>> \o <<n>>
  BY <1>2, ConcatEmptySeq DEF Sent, Settled
<1>4. SameTold(d, d) BY DEF SameTold
<1>5. WireStep(d, d, <<p>>) BY <1>4, SilentStep
<1>6. WireStep(d, res.dev, <<p>> \o <<n>>) BY <1>1, <1>5, Compose
<1> QED BY <1>2, <1>3, <1>6 DEF Delivers, Settled

(* One packet, or none.                                                    *)
LEMMA DeliversSilently ==
  ASSUME NEW d, NEW res, SameTold(d, res.dev), Settled(res.dev),
         res.rsp = << >> \/ res.ntf = << >>,
         res.rsp = << >> \/ \E p \in Packet : Silent(p) /\ res.rsp = <<p>>,
         res.ntf = << >> \/ \E p \in Packet : Silent(p) /\ res.ntf = <<p>>
  PROVE  Delivers(d, res)
<1>1. << >> \in Seq(Packet) /\ << >> \o << >> = << >> /\ Len(<< >>) = 0
  BY ConcatEmptySeq
<1>2. CASE res.rsp = << >> /\ res.ntf = << >>
  <2>1. Sent(res) = << >> BY <1>1, <1>2 DEF Sent, Settled
  <2> QED BY <1>1, <2>1, NoStep DEF Delivers, Settled
<1>3. CASE \E p \in Packet : Silent(p) /\ (res.rsp = <<p>> \/ res.ntf = <<p>>)
  <2>1. PICK p \in Packet : Silent(p) /\ (res.rsp = <<p>> \/ res.ntf = <<p>>)
    BY <1>3
  <2>2. <<p>> \in Seq(Packet) /\ Len(<<p>>) = 1 /\ <<p>> # << >> OBVIOUS
  <2>3. <<p>> \o << >> = <<p>> /\ << >> \o <<p>> = <<p>> BY <2>2, ConcatEmptySeq
  <2>4. Sent(res) = <<p>> BY <2>1, <2>2, <2>3 DEF Sent, Settled
  <2>5. WireStep(d, res.dev, <<p>>) BY <2>1, SilentStep
  <2> QED BY <2>2, <2>4, <2>5 DEF Delivers, Settled
<1> QED BY <1>2, <1>3

(* The generic error of a failed command goes out behind its response.     *)
LEMMA CommandDelivers ==
  ASSUME Roomy, NEW d, NEW res \in ResultType, Answers(d, res) \/ Announces(d, res)
  PROVE  Delivers(d, CommandResult(d, res))
<1> DEFINE n == GenericErrorNtf(res.rsp[1].code)
<1>1. CASE res.rc = 0
  <2>1. CommandResult(d, res) = res
    BY <1>1 DEF CommandResult, FinalizeResult, Answers, Announces, Settled
  <2>2. CASE Announces(d, res)
    BY <2>1, <2>2, CarriesStep, DeliversTwo DEF Announces
  <2>3. CASE Answers(d, res)
    BY <2>1, <2>3, DeliversSilently DEF Answers
  <2> QED BY <2>2, <2>3
<1>2. CASE res.rc # 0
  <2> DEFINE r == CommandResult(d, res)
  <2>1. Answers(d, res) BY <1>2 DEF Announces
  <2>2. PICK p \in Packet : Silent(p) /\ res.rsp = <<p>> BY <2>1 DEF Answers
  <2>3. n \in Packet /\ Silent(n)
    <3>1. n = GenericErrorNtf(p.code) /\ p.code \in Codes BY <2>2 DEF Packet
    <3> QED BY <3>1, PacketTypes DEF Silent, GenericErrorNtf, MakePacket
  <2> HIDE DEF n
  <2>4. r = [res EXCEPT !.ntf = <<n>>]
    <3>1. DeliverNotification(res, n) = [res EXCEPT !.ntf = <<n>>]
      BY <2>1 DEF DeliverNotification, Roomy, Answers
    <3>2. <<n>> # << >> OBVIOUS
    <3>3. [res EXCEPT !.ntf = <<n>>].ntf = <<n>> BY DEF ResultType
    <3> QED BY <1>2, <3>1, <3>2, <3>3 DEF CommandResult, FinalizeResult, n
  <2>5. r.rsp = res.rsp /\ r.ntf = <<n>> /\ r.dev = res.dev BY <2>4 DEF ResultType
  <2> HIDE DEF r
  <2>6. WireStep(d, r.dev, <<n>>) BY <2>1, <2>3, <2>5, SilentStep DEF Answers
  <2>7. Settled(r.dev) BY <2>1, <2>5 DEF Answers
  <2>8. Delivers(d, r) BY <2>2, <2>3, <2>5, <2>6, <2>7, DeliversTwo
  <2> QED BY <2>8 DEF r
<1> QED BY <1>1, <1>2

LEMMA ResponseSilent ==
  ASSUME NEW code \in Codes
  PROVE  MakeStatusResponse(code) \in Packet /\ Silent(MakeStatusResponse(code))
BY PacketTypes DEF Silent, MakeStatusResponse, MakePacket

(* A command that only answers.                                            *)
LEMMA RespondWire ==
  ASSUME NEW d, NEW r, SameTold(d, r), Settled(r), NEW code \in Codes
  PROVE  Answers(d, Respond(r, code)) /\ Answers(d, Reject(r, code))
<1> DEFINE p == MakeStatusResponse(code)
<1>1. p \in Packet /\ Silent(p) BY ResponseSilent
<1> HIDE DEF p
<1>2. /\ Respond(r, code) = [dev |-> r, rsp |-> <<p>>, ntf |-> << >>, rc |-> 0]
      /\ Reject(r, code) = [dev |-> r, rsp |-> <<p>>, ntf |-> << >>, rc |-> -1]
  BY DEF Respond, Reject, Result, p
<1> QED BY <1>1, <1>2 DEF Answers

LEMMA RejectWire ==
  ASSUME NEW d, Settled(d), NEW code \in Codes
  PROVE  Answers(d, Respond(d, code)) /\ Answers(d, Reject(d, code))
<1>1. SameTold(d, d) BY DEF SameTold
<1> QED BY <1>1, RespondWire

(* Only the state of s has changed, to st.                                 *)
Becomes(d, r, s, st) ==
  /\ r.next_seq = d.next_seq
  /\ \A t \in Sid : r.sessions[t].state = IF t = s THEN st ELSE d.sessions[t].state

(* A command that announces the state of a session; r is the device the    *)
(* handler leaves, perhaps after more work on the result's device.         *)
LEMMA StatusWire ==
  ASSUME Roomy, NEW d, NEW d1, NEW r, NEW s \in Sid, NEW code \in Codes, NEW st,
         Told(SessionStatusNtf(s, code)) = st, Settled(r), Becomes(d, r, s, st)
  PROVE  LET res == DeliverNotification(Respond(d1, "OK"), SessionStatusNtf(s, code))
         IN  res.dev = d1 /\ Announces(d, [res EXCEPT !.dev = r])
<1> DEFINE p == MakeStatusResponse("OK")
<1> DEFINE n == SessionStatusNtf(s, code)
<1>1. p \in Packet /\ Silent(p)
  <2>1. "OK" \in Codes BY DEF Codes
  <2> QED BY <2>1, ResponseSilent
<1>2. n \in Packet BY PacketTypes
<1>3. n.kind = "SESSION_STATUS" /\ n.sid = s BY DEF SessionStatusNtf, MakePacket
<1>4. Respond(d1, "OK") = [dev |-> d1, rsp |-> <<p>>, ntf |-> << >>, rc |-> 0]
  BY DEF Respond, Result
<1> HIDE DEF n, p
<1>5. DeliverNotification(Respond(d1, "OK"), n)
        = [dev |-> d1, rsp |-> <<p>>, ntf |-> <<n>>, rc |-> 0]
  BY <1>4 DEF DeliverNotification, Roomy
<1>6. Carries(d, r, n)
  BY <1>3 DEF Carries, Concerns, Numbered, Becomes, n
<1>7. LET res == DeliverNotification(Respond(d1, "OK"), n)
      IN  res.dev = d1 /\ Announces(d, [res EXCEPT !.dev = r])
  BY <1>1, <1>2, <1>5, <1>6 DEF Announces
<1> QED BY <1>7 DEF n

(* What the client makes of the code of a session status.                  *)
LEMMA ToldStatus ==
  ASSUME NEW s
  PROVE  /\ \A code \in {"INIT", "ACTIVE", "IDLE"} : Told(SessionStatusNtf(s, code)) = code
         /\ Told(SessionStatusNtf(s, "DEINIT")) = "NONE"
BY DEF Told, SessionStatusNtf, MakePacket

(* CORE_DEVICE_RESET.                                                      *)
LEMMA DeviceResetWire ==
  ASSUME Roomy, NEW d, Settled(d)
  PROVE  Announces(d, HandleDeviceReset(d))
<1> DEFINE r == [InitDevice EXCEPT !.lost = d.lost]
<1> DEFINE p == MakeStatusResponse("OK")
<1> DEFINE n == DeviceStatusNtf
<1>1. p \in Packet /\ Silent(p)
  <2>1. "OK" \in Codes BY DEF Codes
  <2> QED BY <2>1, ResponseSilent
<1>2. /\ n \in Packet /\ n.kind = "DEVICE_STATUS" /\ n.num = 0 /\ Told(n) = "NONE"
  BY PacketTypes DEF DeviceStatusNtf, MakePacket, Told
<1>3. /\ r.sessions = [s \in Sid |-> FreeSession] /\ r.pending = << >>
      /\ r.next_seq = 1 /\ r.lost = d.lost
  BY DEF InitDevice
<1>4. FreeSession.state = "NONE"
  BY SessionTypes DEF FreeSession, Session, NewSession
<1>5. HandleDeviceReset(d) = DeliverNotification(Respond(r, "OK"), n)
  BY DEF HandleDeviceReset
<1>6. Respond(r, "OK") = [dev |-> r, rsp |-> <<p>>, ntf |-> << >>, rc |-> 0]
  BY DEF Respond, Result
<1> HIDE DEF r, p, n
<1>7. HandleDeviceReset(d) = [dev |-> r, rsp |-> <<p>>, ntf |-> <<n>>, rc |-> 0]
  BY <1>5, <1>6 DEF DeliverNotification, Roomy
<1>8. Carries(d, r, n) BY <1>2, <1>3, <1>4 DEF Carries, Concerns, Numbered
<1>9. Settled(r) BY <1>3 DEF Settled
<1> DEFINE res == HandleDeviceReset(d)
<1>10. res.dev = r /\ res.rsp = <<p>> /\ res.ntf = <<n>> /\ res.rc = 0 BY <1>7
<1> HIDE DEF res
<1>11. Announces(d, res) BY <1>1, <1>2, <1>8, <1>9, <1>10 DEF Announces
<1> QED BY <1>11 DEF res

(* SESSION_INIT.                                                           *)
LEMMA SessionInitWire ==
  ASSUME Roomy, NEW d, Sound(d), Settled(d), NEW s \in Sid
  PROVE  LET res == HandleSessionInit(d, s) IN Answers(d, res) \/ Announces(d, res)
<1>0. /\ d.sessions \in [Sid -> Session] /\ d \in DeviceState
      /\ "REJECTED" \in Codes
  BY DEF Sound, DeviceOK, DeviceState, Codes
<1>1. CASE s \notin Allocated(d) /\ Cardinality(Allocated(d)) >= MAX_SESSIONS
  BY <1>0, <1>1, RejectWire DEF HandleSessionInit
<1>2. CASE ~(s \notin Allocated(d) /\ Cardinality(Allocated(d)) >= MAX_SESSIONS)
  <2> DEFINE r == IF s \in Allocated(d) THEN d ELSE SetSession(d, s, NewSession)
  <2> DEFINE st == r.sessions[s].state
  <2> DEFINE n == SessionStatusNtf(s, st)
  <2> DEFINE res == DeliverNotification(Respond(r, "OK"), n)
  <2>1. /\ SameQueue(d, r) /\ st \in {"INIT", "ACTIVE", "IDLE"}
        /\ \A t \in Sid : r.sessions[t].state = IF t = s THEN st ELSE d.sessions[t].state
    <3>1. CASE s \in Allocated(d)
      BY <1>0, <3>1 DEF Allocated, Session, SessionStates, SameQueue
    <3>2. CASE s \notin Allocated(d)
      <4>1. r.sessions = [d.sessions EXCEPT ![s] = NewSession]
        BY <1>0, <3>2 DEF SetSession, DeviceState
      <4>2. NewSession.state = "INIT" BY DEF NewSession
      <4>3. SameQueue(d, r) BY <1>0, <3>2, SameQueues
      <4> HIDE DEF r
      <4> QED BY <1>0, <4>1, <4>2, <4>3
    <3> QED BY <3>1, <3>2
  <2>2. HandleSessionInit(d, s) = res BY <1>2 DEF HandleSessionInit
  <2> HIDE DEF r, st
  <2>3. Settled(r) /\ Becomes(d, r, s, st) BY <2>1 DEF SameQueue, Settled, Becomes
  <2>4. Told(n) = st /\ st \in Codes BY <2>1, ToldStatus DEF Codes
  <2>5. res.dev = r /\ Announces(d, [res EXCEPT !.dev = r])
    BY <2>3, <2>4, StatusWire
  <2>6. [res EXCEPT !.dev = r] = res
    <3>1. res = [dev |-> r, rsp |-> <<MakeStatusResponse("OK")>>, ntf |-> <<n>>, rc |-> 0]
      BY DEF DeliverNotification, Respond, Result, Roomy
    <3> HIDE DEF res
    <3> QED BY <3>1
  <2> QED BY <2>2, <2>5, <2>6
<1> QED BY <1>1, <1>2

(* SESSION_DEINIT.                                                         *)
LEMMA SessionDeinitWire ==
  ASSUME Roomy, NEW d, Sound(d), Settled(d), NEW s \in Sid
  PROVE  LET res == HandleSessionDeinit(d, s) IN Answers(d, res) \/ Announces(d, res)
<1>0. /\ d.sessions \in [Sid -> Session] /\ d \in DeviceState
      /\ "INVALID_PARAM" \in Codes /\ "DEINIT" \in Codes
  BY DEF Sound, DeviceOK, DeviceState, Codes
<1>1. CASE s \notin Allocated(d)
  BY <1>0, <1>1, RejectWire DEF HandleSessionDeinit
<1>2. CASE s \in Allocated(d)
  <2> DEFINE r == SetSession(d, s, FreeSession)
  <2> DEFINE res == DeliverNotification(Respond(d, "OK"), SessionStatusNtf(s, "DEINIT"))
  <2>1. r.sessions = [d.sessions EXCEPT ![s] = FreeSession] /\ SameQueue(d, r)
    BY <1>0, SameQueues DEF SetSession, DeviceState
  <2>2. FreeSession.state = "NONE"
    BY SessionTypes DEF FreeSession, Session, NewSession
  <2>3. HandleSessionDeinit(d, s) = [res EXCEPT !.dev = SetSession(res.dev, s, FreeSession)]
    BY <1>2 DEF HandleSessionDeinit
  <2> HIDE DEF r, res
  <2>4. Settled(r) /\ Becomes(d, r, s, "NONE")
    BY <1>0, <2>1, <2>2 DEF SameQueue, Settled, Becomes
  <2>5. res.dev = d /\ Announces(d, [res EXCEPT !.dev = r])
    BY <1>0, <2>4, ToldStatus, StatusWire DEF res
  <2> QED BY <2>3, <2>5 DEF r
<1> QED BY <1>1, <1>2

(* The hooks of SESSION_START and SESSION_STOP tell the client nothing.    *)
LEMMA OnSessionStartedWire ==
  ASSUME NEW d, DeviceOK(d), NEW s \in Allocated(d)
  PROVE  LET r == OnSessionStarted(d, s) IN SameQueue(d, r) /\ SameTold(d, r)
<1> DEFINE v == d.sessions[s]
<1> DEFINE w == [v EXCEPT !.stream_remaining = BurstCount]
<1> DEFINE armed == SetSession(d, s, w)
<1> DEFINE ms == v.interval
<1> DEFINE r == OnSessionStarted(d, s)
<1>0. s \in Sid /\ d.sessions \in [Sid -> Session] /\ d \in DeviceState
  BY DEF DeviceOK, DeviceState, Allocated
<1>1. v \in Session /\ ms \in Nat BY <1>0 DEF Session
<1>2. w \in Session /\ w.state = v.state BY <1>1, SizesAssumption DEF Session
<1>3. /\ DeviceOK(armed) /\ armed.sessions = [d.sessions EXCEPT ![s] = w]
      /\ SameQueue(d, armed)
  <2> HIDE DEF w
  <2> QED BY <1>0, <1>2, SetSessionType, SameQueues
<1>4. armed = [d EXCEPT !.sessions[s].stream_remaining = BurstCount]
  BY <1>0 DEF SetSession, DeviceState
<1>5. r \in {d, armed, ScheduleEvent(armed, "RANGE_DATA", s, ms)}
  <2> HIDE DEF armed
  <2> QED BY <1>4 DEF OnSessionStarted
<1>6. LET x == ScheduleEvent(armed, "RANGE_DATA", s, ms)
      IN  x.sessions = armed.sessions /\ SameQueue(armed, x)
  <2> HIDE DEF armed, ms
  <2> QED BY <1>0, <1>1, <1>3, ScheduleEventType, SameQueues DEF EventTypes, DeviceOK
<1> HIDE DEF r, armed, w
<1>7. SameQueue(d, r) BY <1>3, <1>5, <1>6 DEF SameQueue
<1>8. \A t \in Sid : armed.sessions[t].state = d.sessions[t].state
  BY <1>0, <1>2, <1>3
<1>9. SameTold(d, r) BY <1>5, <1>6, <1>7, <1>8 DEF SameTold, SameQueue
<1> QED BY <1>7, <1>9 DEF r

LEMMA OnSessionStoppedWire ==
  ASSUME NEW d, DeviceOK(d), DenseSet(d.events), NEW s \in Allocated(d)
  PROVE  LET r == OnSessionStopped(d, s) IN SameQueue(d, r) /\ SameTold(d, r)
<1> DEFINE v == d.sessions[s]
<1> DEFINE w == [v EXCEPT !.stream_remaining = 0, !.in_progress = FALSE,
                          !.reps_remaining = 0, !.tx_count = 0]
<1> DEFINE m == SetSession(d, s, w)
<1> DEFINE r == CancelSessionEvents(m, s)
<1>0. s \in Sid /\ d.sessions \in [Sid -> Session] /\ d \in DeviceState
  BY DEF DeviceOK, DeviceState, Allocated
<1>1. w \in Session /\ w.state = v.state BY <1>0 DEF Session
<1>2. /\ DeviceOK(m) /\ m.sessions = [d.sessions EXCEPT ![s] = w]
      /\ SameQueue(d, m) /\ m.events = d.events
  <2> HIDE DEF w
  <2> QED BY <1>0, <1>1, SetSessionType, SameQueues
<1>3. r.sessions = m.sessions /\ SameQueue(m, r)
  <2> HIDE DEF m
  <2> QED BY <1>0, <1>2, CancelSessionEventsType, SameQueues DEF DeviceOK
<1>4. OnSessionStopped(d, s) = r BY DEF OnSessionStopped
<1> HIDE DEF r, m, w
<1>5. SameQueue(d, r) BY <1>2, <1>3 DEF SameQueue
<1>6. SameTold(d, r) BY <1>0, <1>1, <1>2, <1>3, <1>5 DEF SameTold, SameQueue
<1> QED BY <1>4, <1>5, <1>6

(* SESSION_START.                                                          *)
LEMMA SessionStartWire ==
  ASSUME Roomy, NEW d, Sound(d), Settled(d), NEW s \in Sid, NEW verdict \in Verdicts
  PROVE  LET res == HandleSessionStart(d, s, verdict)
         IN  Answers(d, res) \/ Announces(d, res)
<1> DEFINE v == d.sessions[s]
<1> DEFINE verd == StartVerdict(v, verdict)
<1>0. /\ d.sessions \in [Sid -> Session] /\ d \in DeviceState /\ DeviceOK(d)
      /\ "ACTIVE" \in Codes
  BY DEF Sound, DeviceOK, DeviceState, Codes
<1>1. CASE s \notin Allocated(d) \/ v.state \notin {"INIT", "IDLE"}
                                 \/ verd \notin {"OK", "SURFACED"}
  <2>1. \E code \in Codes : HandleSessionStart(d, s, verdict) = Reject(d, code)
    BY <1>1 DEF HandleSessionStart, StartVerdict, Verdicts, Codes
  <2> QED BY <2>1, RejectWire
<1>3. CASE s \in Allocated(d) /\ v.state \in {"INIT", "IDLE"} /\ verd = "SURFACED"
  <2> DEFINE st == v.state
  <2> DEFINE n == SessionStatusNtf(s, st)
  <2> DEFINE res == DeliverNotification(Respond(d, "OK"), n)
  <2>1. HandleSessionStart(d, s, verdict) = res BY <1>3 DEF HandleSessionStart
  <2>2. Becomes(d, d, s, st) BY <1>0 DEF Becomes
  <2>3. Told(n) = st /\ st \in Codes BY <1>3, ToldStatus DEF Codes
  <2>4. res.dev = d /\ Announces(d, [res EXCEPT !.dev = d])
    <3> HIDE DEF st
    <3> QED BY <2>2, <2>3, StatusWire
  <2>5. [res EXCEPT !.dev = d] = res
    <3>1. res = [dev |-> d, rsp |-> <<MakeStatusResponse("OK")>>, ntf |-> <<n>>, rc |-> 0]
      BY DEF DeliverNotification, Respond, Result, Roomy
    <3> HIDE DEF res
    <3> QED BY <3>1
  <2> QED BY <2>1, <2>4, <2>5
<1>2. CASE s \in Allocated(d) /\ v.state \in {"INIT", "IDLE"} /\ verd = "OK"
  <2> DEFINE w == [v EXCEPT !.state = "ACTIVE"]
  <2> DEFINE d1 == SetSession(d, s, w)
  <2> DEFINE res == DeliverNotification(Respond(d1, "OK"), SessionStatusNtf(s, "ACTIVE"))
  <2> DEFINE r == OnSessionStarted(d1, s)
  <2>1. w \in Session /\ w.state = "ACTIVE" BY <1>0 DEF Session, SessionStates
  <2>2. /\ DeviceOK(d1) /\ d1.sessions = [d.sessions EXCEPT ![s] = w] /\ SameQueue(d, d1)
    <3> HIDE DEF w
    <3> QED BY <1>0, <1>2, <2>1, SetSessionType, SameQueues
  <2>3. HandleSessionStart(d, s, verdict) = [res EXCEPT !.dev = OnSessionStarted(res.dev, s)]
    BY <1>2 DEF HandleSessionStart
  <2> HIDE DEF d1, w, res
  <2>4. s \in Allocated(d1) BY <1>0, <2>1, <2>2 DEF Allocated
  <2>5. SameQueue(d1, r) /\ SameTold(d1, r) BY <2>2, <2>4, OnSessionStartedWire
  <2> HIDE DEF r
  <2>6. Settled(r) BY <2>2, <2>5 DEF SameQueue, Settled
  <2>7. Becomes(d, r, s, "ACTIVE")
    BY <1>0, <2>1, <2>2, <2>5 DEF SameQueue, SameTold, Becomes
  <2>8. res.dev = d1 /\ Announces(d, [res EXCEPT !.dev = r])
    BY <1>0, <2>6, <2>7, ToldStatus, StatusWire DEF res
  <2> QED BY <2>3, <2>8 DEF r
<1> QED BY <1>1, <1>2, <1>3

(* SESSION_STOP.                                                           *)
LEMMA SessionStopWire ==
  ASSUME Roomy, NEW d, Sound(d), Settled(d), NEW s \in Sid
  PROVE  LET res == HandleSessionStop(d, s) IN Answers(d, res) \/ Announces(d, res)
<1>0. /\ d.sessions \in [Sid -> Session] /\ d \in DeviceState /\ DeviceOK(d)
      /\ "IDLE" \in Codes
  BY DEF Sound, DeviceOK, DeviceState, Codes
<1>1. CASE s \notin Allocated(d) \/ ~Active(d, s)
  <2>1. \E code \in Codes : HandleSessionStop(d, s) = Reject(d, code)
    BY <1>1 DEF HandleSessionStop, Codes
  <2> QED BY <2>1, RejectWire
<1>2. CASE s \in Allocated(d) /\ Active(d, s)
  <2> DEFINE w == [d.sessions[s] EXCEPT !.state = "IDLE"]
  <2> DEFINE d1 == SetSession(d, s, w)
  <2> DEFINE res == DeliverNotification(Respond(d1, "OK"), SessionStatusNtf(s, "IDLE"))
  <2> DEFINE r == OnSessionStopped(d1, s)
  <2>1. w \in Session /\ w.state = "IDLE" BY <1>0 DEF Session, SessionStates
  <2>2. /\ DeviceOK(d1) /\ d1.sessions = [d.sessions EXCEPT ![s] = w] /\ SameQueue(d, d1)
        /\ d1.events = d.events
    <3> HIDE DEF w
    <3> QED BY <1>0, <1>2, <2>1, SetSessionType, SameQueues
  <2>3. HandleSessionStop(d, s) = [res EXCEPT !.dev = OnSessionStopped(res.dev, s)]
    BY <1>2 DEF HandleSessionStop
  <2> HIDE DEF d1, w, res
  <2>4. s \in Allocated(d1) BY <1>0, <2>1, <2>2 DEF Allocated
  <2>5. SameQueue(d1, r) /\ SameTold(d1, r)
    BY <2>2, <2>4, OnSessionStoppedWire DEF Sound
  <2> HIDE DEF r
  <2>6. Settled(r) BY <2>2, <2>5 DEF SameQueue, Settled
  <2>7. Becomes(d, r, s, "IDLE")
    BY <1>0, <2>1, <2>2, <2>5 DEF SameQueue, SameTold, Becomes
  <2>8. res.dev = d1 /\ Announces(d, [res EXCEPT !.dev = r])
    BY <1>0, <2>6, <2>7, ToldStatus, StatusWire DEF res
  <2> QED BY <2>3, <2>8 DEF r
<1> QED BY <1>1, <1>2

(* SESSION_SET_APP_CONFIG.                                                 *)
LEMMA SetAppConfigWire ==
  ASSUME NEW d, Sound(d), Settled(d), NEW s \in Sid, NEW t \in Tlvs, NEW bad \in BOOLEAN
  PROVE  Answers(d, HandleSetAppConfig(d, s, t, bad))
<1>0. /\ d.sessions \in [Sid -> Session] /\ d \in DeviceState /\ DeviceOK(d)
      /\ "INVALID_PARAM" \in Codes /\ "OK" \in Codes
  BY DEF Sound, DeviceOK, DeviceState, Codes
<1>1. CASE s \notin Allocated(d)
  BY <1>0, <1>1, RejectWire DEF HandleSetAppConfig
<1>2. CASE s \in Allocated(d)
  <2> DEFINE v == d.sessions[s]
  <2> DEFINE w == StoreConfig(v, t)
  <2> DEFINE d1 == SetSession(d, s, w)
  <2> DEFINE cut == RemoveEvents(d1, "RANGE_DATA", s)
  <2> DEFINE d2 == ScheduleEvent(cut, "RANGE_DATA", s, t.val)
  <2> DEFINE first == ApplyTlv(d, s, t)
  <2>1. w \in Session /\ w.state = v.state BY <1>0, StoreConfigType
  <2>2. /\ DeviceOK(d1) /\ d1.sessions = [d.sessions EXCEPT ![s] = w] /\ SameQueue(d, d1)
        /\ d1.events = d.events
    <3> HIDE DEF w
    <3> QED BY <1>0, <1>2, <2>1, SetSessionType, SameQueues
  <2>3. DeviceOK(cut) /\ cut.sessions = d1.sessions /\ SameQueue(d1, cut)
    <3> HIDE DEF d1
    <3> QED BY <2>2, RemoveEventsType, SameQueues DEF DeviceOK, Sound
  <2>4. d2.sessions = cut.sessions /\ SameQueue(cut, d2)
    <3>1. t.val \in Nat BY TlvAssumption
    <3> HIDE DEF cut
    <3> QED BY <2>3, <3>1, ScheduleEventType, SameQueues DEF EventTypes, DeviceOK
  <2>5. first.dev \in {d, d1, d2}
    <3> HIDE DEF d1, d2
    <3> QED BY DEF ApplyTlv, Outcome, RescheduleSessionEvent, d1, d2
  <2>6. first.ok \in Codes BY <1>2, ApplyTlvSound
  <2>7. HandleSetAppConfig(d, s, t, bad) \in
          {Reject(first.dev, first.ok), Reject(first.dev, "INVALID_PARAM"),
           Respond(first.dev, "OK")}
    BY <1>2 DEF HandleSetAppConfig
  <2> HIDE DEF d1, d2, cut, w, first
  <2>8. \A x \in Sid : d1.sessions[x].state = d.sessions[x].state
    BY <1>0, <2>1, <2>2
  <2>9. SameTold(d, first.dev) /\ Settled(first.dev)
    BY <2>2, <2>3, <2>4, <2>5, <2>8 DEF SameTold, SameQueue, Settled
  <2> QED BY <1>0, <2>6, <2>7, <2>9, RespondWire
<1> QED BY <1>1, <1>2

(* The data handlers, with their finalisation.                             *)
LEMMA DataSettled ==
  ASSUME NEW d, NEW res, SameTold(d, res.dev), Settled(res.dev), res.rsp = << >>,
         res.ntf = << >> \/ \E p \in Packet : Silent(p) /\ res.ntf = <<p>>
  PROVE  Delivers(d, DataResult(d, res))
<1>1. DataResult(d, res) = res BY DEF DataResult, FinalizeResult, Settled
<1> QED BY <1>1, DeliversSilently

LEMMA RefuseDataWire ==
  ASSUME NEW d, Settled(d), NEW s \in Sid, NEW m \in Msg, NEW code \in Codes, NEW tx \in Nat
  PROVE  Delivers(d, DataResult(d, RefuseData(d, s, m, code, tx)))
<1> DEFINE p == DataStatusNtf(s, m, code, tx)
<1>1. p \in Packet BY PacketTypes
<1>2. Silent(p) BY DEF Silent, DataStatusNtf, MakePacket
<1> HIDE DEF p
<1> DEFINE res == Result(d, << >>, <<p>>, -1)
<1>3. res.dev = d /\ res.rsp = << >> /\ res.ntf = <<p>> BY DEF Result
<1>4. RefuseData(d, s, m, code, tx) = res BY DEF RefuseData, p
<1> HIDE DEF res
<1>5. SameTold(d, res.dev) BY <1>3 DEF SameTold
<1> QED BY <1>1, <1>2, <1>3, <1>4, <1>5, DataSettled

(* The credit and the status of a message reported at once: the first goes *)
(* out as the result's notification, the second from the pending queue.    *)
LEMMA ReportTransferWire ==
  ASSUME Roomy, NEW d, NEW x, DeviceOK(x), SameTold(d, x), Settled(x),
         NEW s \in Sid, NEW m \in Msg, NEW code \in Codes
  PROVE  Delivers(d, DataResult(d, ReportTransfer(x, s, m, code)))
<1> DEFINE c == DataCreditNtf(s)
<1> DEFINE p == DataStatusNtf(s, m, code, 1)
<1> DEFINE credited == QueueNotification(x, c)
<1> DEFINE reported == QueueNotification(credited, p)
<1>1. c \in Packet /\ p \in Packet BY PacketTypes
<1>2. Silent(c) /\ Silent(p) BY DEF Silent, DataStatusNtf, DataCreditNtf, MakePacket
<1> HIDE DEF c, p
<1>3. /\ CanQueue(x) /\ credited.pending = Append(<< >>, c) /\ credited.lost = FALSE
      /\ credited.next_seq = x.next_seq /\ credited.sessions = x.sessions
      /\ DeviceOK(credited)
  <2>1. x.pending = << >> /\ x.lost = FALSE /\ Len(x.pending) <= 1
    BY DEF Settled
  <2>2. DeviceOK(credited) BY <1>1, QueueNotificationType
  <2>3. /\ CanQueue(x) /\ credited.pending = Append(x.pending, c)
        /\ credited.next_seq = x.next_seq /\ credited.lost = x.lost
        /\ credited.sessions = x.sessions
    BY <2>1, QueueOne
  <2> QED BY <2>1, <2>2, <2>3
<1>4. \A n \in Packet : /\ Append(<< >>, n) = <<n>> /\ <<n>> \in Seq(Packet)
                        /\ Len(<<n>>) = 1
  OBVIOUS
<1> HIDE DEF credited
<1>5. /\ CanQueue(credited) /\ reported.pending = Append(<<c>>, p) /\ reported.lost = FALSE
      /\ reported.next_seq = x.next_seq /\ reported.sessions = x.sessions
      /\ DeviceOK(reported)
  <2>1. credited.pending = <<c>> /\ Len(credited.pending) <= 1 BY <1>1, <1>3, <1>4
  <2>2. DeviceOK(reported) BY <1>1, <1>3, QueueNotificationType
  <2>3. /\ CanQueue(credited) /\ reported.pending = Append(credited.pending, p)
        /\ reported.next_seq = credited.next_seq /\ reported.lost = credited.lost
        /\ reported.sessions = credited.sessions
    BY <1>3, <2>1, QueueOne
  <2> QED BY <1>3, <2>1, <2>2, <2>3
<1>6. ReportTransfer(x, s, m, code) =
        [dev |-> reported, rsp |-> << >>, ntf |-> << >>, rc |-> 0]
  BY <1>3, <1>5 DEF ReportTransfer, Result, credited, c, p
<1> HIDE DEF reported
<1> DEFINE r == [reported EXCEPT !.pending = <<p>>]
<1> DEFINE res == DataResult(d, ReportTransfer(x, s, m, code))
<1>7. Append(<<c>>, p) # << >> /\ Head(Append(<<c>>, p)) = c /\ Tail(Append(<<c>>, p)) = <<p>>
  <2>1. <<c>> \in Seq(Packet) /\ <<c>> # << >> BY <1>1
  <2>2. Head(<<c>>) = c /\ Tail(<<c>>) = << >> OBVIOUS
  <2>3. Append(<<c>>, p) # << >> BY <1>1, <2>1, AppendProperties
  <2>4. Head(Append(<<c>>, p)) = Head(<<c>>)
    BY <2>1, HeadTailAppend
  <2>5. Tail(Append(<<c>>, p)) = Append(Tail(<<c>>), p)
    BY <2>1, HeadTailAppend
  <2>6. Append(<< >>, p) = <<p>> BY <1>1, <1>4
  <2> QED BY <2>2, <2>3, <2>4, <2>5, <2>6
<1>8. res.dev = r /\ res.rsp = << >> /\ res.ntf = <<c>>
  <2> DEFINE q == [dev |-> reported, rsp |-> << >>, ntf |-> << >>, rc |-> 0]
  <2>1. q.ntf = << >> /\ q.dev = reported OBVIOUS
  <2>2. FinalizeResult(q, Len(d.pending)) =
          [q EXCEPT !.ntf = <<Head(reported.pending)>>,
                    !.dev.pending = Tail(reported.pending)]
    <3> HIDE DEF q
    <3> QED BY <1>5, <1>7, <2>1 DEF FinalizeResult, Roomy
  <2>3. FinalizeResult(q, Len(d.pending)) =
          [q EXCEPT !.ntf = <<c>>, !.dev.pending = <<p>>]
    BY <1>5, <1>7, <2>2
  <2>4. res = [q EXCEPT !.ntf = <<c>>, !.dev.pending = <<p>>]
    <3> HIDE DEF q
    <3> QED BY <1>6, <2>3 DEF DataResult, q
  <2> QED BY <2>4
<1>9. /\ r.pending = <<p>> /\ r.lost = FALSE /\ r.next_seq = x.next_seq
      /\ r.sessions = x.sessions
  BY <1>5 DEF DeviceOK, DeviceState
<1>10. <<c>> # << >> OBVIOUS
<1> HIDE DEF r, res
<1>11. SameTold(d, r) BY <1>9 DEF SameTold
<1>12. SameTold(d, d) BY DEF SameTold
<1>13. WireStep(d, d, <<c>>) /\ WireStep(d, r, <<p>>)
  BY <1>1, <1>2, <1>11, <1>12, SilentStep
<1>14. WireStep(d, r, <<c>> \o <<p>>) BY <1>1, <1>4, <1>13, Compose
<1>15. << >> \o <<c>> = <<c>> BY <1>1, <1>4, ConcatEmptySeq
<1>16. Sent(res) = <<c>> \o <<p>> BY <1>8, <1>9, <1>15 DEF Sent
<1>17. <<c>> \o <<p>> \in Seq(Packet) /\ Len(<<c>> \o <<p>>) <= 2
  BY <1>1, <1>4, ConcatProperties
<1>18. Delivers(d, res) BY <1>8, <1>9, <1>10, <1>14, <1>16, <1>17 DEF Delivers
<1> QED BY <1>18 DEF res

(* A transfer that starts says nothing yet.                                *)
LEMMA StartTransferWire ==
  ASSUME NEW d, Sound(d), Settled(d), NEW s \in Sid, Active(d, s), NEW m \in Msg
  PROVE  Delivers(d, DataResult(d, StartTransfer(d, s, m)))
<1> DEFINE v == d.sessions[s]
<1> DEFINE b == [v EXCEPT !.last_data = m, !.in_progress = TRUE,
                          !.reps_remaining = v.repetition, !.tx_count = 0]
<1> DEFINE u == [v EXCEPT !.last_data = m, !.in_progress = FALSE,
                          !.reps_remaining = 0, !.tx_count = 0]
<1> DEFINE busy == SetSession(d, s, b)
<1> DEFINE undone == SetSession(d, s, u)
<1> DEFINE going == ScheduleEvent(busy, "DATA_TRANSFER", s, v.interval)
<1> DEFINE res == StartTransfer(d, s, m)
<1>0. /\ DeviceOK(d) /\ v \in Session /\ s \in Allocated(d) /\ d \in DeviceState
      /\ d.sessions \in [Sid -> Session]
  BY SessionOf DEF Sound, Active, Allocated, DeviceOK, DeviceState
<1>1. v.interval \in Nat BY <1>0 DEF Session
<1>2. b \in Session /\ b.state = v.state /\ u \in Session /\ u.state = v.state
  BY <1>0 DEF Session
<1>3. ASSUME NEW x \in Session, x.state = v.state
      PROVE  LET r == SetSession(d, s, x) IN DeviceOK(r) /\ SameTold(d, r) /\ SameQueue(d, r)
  <2> DEFINE r == SetSession(d, s, x)
  <2>1. /\ DeviceOK(r) /\ r.sessions = [d.sessions EXCEPT ![s] = x] /\ SameQueue(d, r)
    BY <1>0, SetSessionType, SameQueues
  <2> HIDE DEF r, v
  <2>2. SameTold(d, r) BY <1>0, <1>3, <2>1 DEF SameTold, SameQueue, v
  <2> QED BY <2>1, <2>2 DEF r
<1>4. /\ DeviceOK(busy) /\ SameTold(d, busy) /\ SameQueue(d, busy)
      /\ SameTold(d, undone) /\ SameQueue(d, undone)
  <2> HIDE DEF b, u, v
  <2> QED BY <1>2, <1>3
<1>5. going.sessions = busy.sessions /\ SameQueue(busy, going)
  <2> HIDE DEF busy
  <2> QED BY <1>1, <1>4, ScheduleEventType, SameQueues DEF EventTypes, DeviceOK
<1>6. res.dev \in {going, undone} /\ res.rsp = << >> /\ res.ntf = << >>
  <2> HIDE DEF going, undone
  <2> QED BY DEF StartTransfer, Result, going, undone
<1> HIDE DEF res, going, undone, busy
<1>7. SameTold(d, res.dev) /\ Settled(res.dev)
  BY <1>4, <1>5, <1>6 DEF SameTold, SameQueue, Settled
<1> QED BY <1>6, <1>7, DataSettled DEF res

(* DATA_MESSAGE_SND.                                                       *)
LEMMA DataMessageSendWire ==
  ASSUME Roomy, NEW d, Sound(d), Settled(d), NEW s \in Sid, NEW m \in Msg
  PROVE  Delivers(d, DataResult(d, HandleDataMessageSend(d, s, m)))
<1> DEFINE v == d.sessions[s]
<1> DEFINE w == [v EXCEPT !.last_data = m]
<1> DEFINE x == SetSession(d, s, w)
<1>0. /\ DeviceOK(d) /\ v \in Session /\ d \in DeviceState
      /\ d.sessions \in [Sid -> Session]
      /\ {"ERROR_REJECTED", "ERROR_ONGOING", "REPETITION_OK", "OK"} \subseteq Codes
  BY SessionOf DEF Sound, DeviceOK, DeviceState, Codes
<1>1. v.tx_count \in Nat BY <1>0 DEF Session
<1>2. /\ Delivers(d, DataResult(d, RefuseData(d, s, m, "ERROR_REJECTED", 0)))
      /\ Delivers(d, DataResult(d, RefuseData(d, s, m, "ERROR_ONGOING", v.tx_count)))
  <2> HIDE DEF v
  <2> QED BY <1>0, <1>1, RefuseDataWire
<1>3. Delivers(d, DataResult(d, ReportTransfer(d, s, m, "REPETITION_OK")))
  <2>1. SameTold(d, d) BY DEF SameTold
  <2> QED BY <1>0, <2>1, ReportTransferWire
<1>4. CASE v.state = "ACTIVE"
  <2>1. w \in Session /\ w.state = v.state BY <1>0 DEF Session
  <2>2. s \in Allocated(d) /\ Active(d, s) BY <1>4 DEF Allocated, Active
  <2>3. DeviceOK(x) /\ x.sessions = [d.sessions EXCEPT ![s] = w] /\ SameQueue(d, x)
    <3> HIDE DEF w
    <3> QED BY <1>0, <2>1, <2>2, SetSessionType, SameQueues
  <2>4. SameTold(d, x) /\ Settled(x)
    <3> HIDE DEF w, x
    <3> QED BY <1>0, <2>1, <2>3 DEF SameTold, SameQueue, Settled
  <2>5. Delivers(d, DataResult(d, ReportTransfer(x, s, m, "OK")))
    <3> HIDE DEF x
    <3> QED BY <1>0, <2>3, <2>4, ReportTransferWire
  <2>6. Delivers(d, DataResult(d, StartTransfer(d, s, m))) BY <2>2, StartTransferWire
  <2> QED BY <1>2, <1>3, <1>4, <2>5, <2>6 DEF HandleDataMessageSend
<1>5. CASE v.state # "ACTIVE" BY <1>2, <1>5 DEF HandleDataMessageSend
<1> QED BY <1>4, <1>5

(* uci_sim_engine_submit_packet: unless the handler failed without a word, *)
(* its packets leave, the pending ones follow, and a ready event is served *)
(* on a device that holds nothing back.                                    *)
LEMMA SubmitFlushes ==
  ASSUME Roomy, NEW d, NEW res, ResultOK(res), Delivers(d, res), NEW out, QueueOK(out),
         Len(out) + 4 <= MAX_OUTBOUND_PACKETS, NEW hit \in BOOLEAN,
         ~(res.rc # 0 /\ res.rsp = << >> /\ res.ntf = << >>)
  PROVE  \E f : /\ EngineSubmit(res, out, hit) = EngineTick(f.dev, f.out, 0, hit)
               /\ f.out = out \o Sent(res) /\ QueueOK(f.out)
               /\ Sound(f.dev) /\ Settled(f.dev)
               /\ f.dev.next_seq = res.dev.next_seq
               /\ f.dev.sessions = res.dev.sessions /\ f.dev.events = res.dev.events
<1> DEFINE g == EngineSubmit(res, out, hit)
<1> DEFINE q == res.dev.pending
<1> DEFINE out1 == out \o res.rsp
<1> DEFINE out2 == out1 \o res.ntf
<1> DEFINE f == FlushDeviceNotifications(res.dev, out2)
<1>1. /\ Sound(res.dev) /\ res.rsp \in OptPacket /\ res.ntf \in OptPacket
      /\ q \in Seq(Packet) /\ out \in Seq(Packet) /\ Len(out) \in Nat
  BY LenProperties DEF ResultOK, ResultTyped, ResultType, Sound, DeviceOK, DeviceState, QueueOK
<1>2. \A p \in OptPacket : p \in Seq(Packet) /\ Len(p) \in {0, 1}
  <2>1. \A p \in Packet : <<p>> \in Seq(Packet) /\ Len(<<p>>) = 1 OBVIOUS
  <2>2. << >> \in Seq(Packet) /\ Len(<< >>) = 0 OBVIOUS
  <2>3. SUFFICES ASSUME NEW p \in OptPacket PROVE p \in Seq(Packet) /\ Len(p) \in {0, 1}
    OBVIOUS
  <2>4. CASE p = << >> BY <2>2, <2>4
  <2>5. CASE \E x \in Packet : p = <<x>>
    <3>1. PICK x \in Packet : p = <<x>> BY <2>5
    <3> QED BY <2>1, <3>1
  <2> QED BY <2>4, <2>5 DEF OptPacket
<1>3. /\ res.rsp \in Seq(Packet) /\ res.ntf \in Seq(Packet) /\ Len(q) \in Nat
      /\ Len(res.rsp) \in {0, 1} /\ Len(res.ntf) \in {0, 1}
  BY <1>1, <1>2, LenProperties
<1> HIDE DEF q
<1>4. /\ res.rsp \o res.ntf \in Seq(Packet)
      /\ Len(Sent(res)) = (Len(res.rsp) + Len(res.ntf)) + Len(q)
  BY <1>1, <1>3, ConcatProperties DEF Sent, q
<1>5. /\ out1 \in Seq(Packet) /\ Len(out1) = Len(out) + Len(res.rsp)
      /\ out2 \in Seq(Packet) /\ Len(out2) = Len(out1) + Len(res.ntf)
  BY <1>1, <1>3, ConcatProperties
<1>6. out2 \o q = out \o Sent(res)
  <2> DEFINE a == res.rsp
  <2> DEFINE b == res.ntf
  <2>0. a \in Seq(Packet) /\ b \in Seq(Packet) /\ out \in Seq(Packet) /\ q \in Seq(Packet)
    BY <1>1, <1>3 DEF q
  <2>1. (out \o a) \o b = out \o (a \o b)
    <3> HIDE DEF a, b
    <3> QED BY <2>0, ConcatAssociative
  <2>2. (out \o (a \o b)) \o q = out \o ((a \o b) \o q)
    <3> DEFINE c == a \o b
    <3>1. c \in Seq(Packet) BY <1>4
    <3> HIDE DEF a, b, c
    <3>2. (out \o c) \o q = out \o (c \o q) BY <2>0, <3>1, ConcatAssociative
    <3> QED BY <3>2 DEF c
  <2> QED BY <2>1, <2>2 DEF Sent, q
<1>7. HasRoom(out) /\ HasRoom(out1)
  <2>1. Len(out1) <= Len(out) + 1 /\ Len(out1) \in Nat
    <3> DEFINE i == Len(res.rsp)
    <3>1. i \in {0, 1} /\ Len(out1) = Len(out) + i BY <1>3, <1>5
    <3> HIDE DEF i, out1
    <3> QED BY <1>1, <3>1
  <2> HIDE DEF out1
  <2> QED BY <1>1, <2>1, OutboundAssumption DEF HasRoom
<1>8. g = EngineTick(f.dev, f.out, 0, hit) BY <1>7 DEF EngineSubmit
<1> HIDE DEF out1, out2
<1>9. /\ QueueOK(out2) /\ Len(out2) + 2 <= MAX_OUTBOUND_PACKETS /\ Len(q) <= 2
      /\ Len(Sent(res)) <= 2
  <2> DEFINE i == Len(res.rsp)
  <2> DEFINE j == Len(res.ntf)
  <2> DEFINE k == Len(q)
  <2>1. (i + j) + k <= 2 BY <1>4 DEF Delivers
  <2>2. i \in Nat /\ j \in Nat /\ k \in Nat BY <1>3
  <2>3. Len(out2) = (Len(out) + i) + j BY <1>5
  <2>4. out2 \in Seq(Packet) /\ Len(Sent(res)) <= 2 BY <1>5 DEF Delivers
  <2> HIDE DEF i, j, k
  <2>5. Len(out2) + 2 <= MAX_OUTBOUND_PACKETS /\ k <= 2
    BY <1>1, <2>1, <2>2, <2>3, OutboundAssumption
  <2>6. Len(out2) <= MAX_OUTBOUND_PACKETS
    BY <1>1, <2>2, <2>3, <2>5, OutboundAssumption
  <2> QED BY <2>4, <2>5, <2>6 DEF QueueOK, k
<1>10. /\ f.out = out \o Sent(res) /\ f.dev.pending = << >>
      /\ f.dev.next_seq = res.dev.next_seq /\ f.dev.lost = FALSE
      /\ f.dev.events = res.dev.events
      /\ f.dev.sessions = res.dev.sessions /\ Sound(f.dev) /\ QueueOK(f.out)
  BY <1>1, <1>6, <1>9, FlushAll, FlushOK DEF EngineOK, Delivers, q
<1> HIDE DEF f, g
<1>11. Settled(f.dev) BY <1>10 DEF Settled
<1> QED BY <1>8, <1>10, <1>11 DEF g

(* The packets of the handler, then those of the served event.             *)
LEMMA EngineSubmitWire ==
  ASSUME Roomy, NEW d, NEW res, ResultOK(res), Delivers(d, res), NEW out, QueueOK(out),
         Len(out) + 4 <= MAX_OUTBOUND_PACKETS, NEW hit \in BOOLEAN
  PROVE  LET g == EngineSubmit(res, out, hit)
         IN  \E P \in Seq(Packet) : /\ Len(P) <= 4 /\ g.out = out \o P
                                    /\ Settled(g.dev) /\ WireStep(d, g.dev, P)
<1> DEFINE g == EngineSubmit(res, out, hit)
<1>1. /\ Sent(res) \in Seq(Packet) /\ Len(Sent(res)) <= 2
      /\ out \in Seq(Packet) /\ Len(out) \in Nat
  BY LenProperties DEF Delivers, QueueOK
<1>2. CASE res.rc # 0 /\ res.rsp = << >> /\ res.ntf = << >>
  <2>1. Sent(res) = << >>
    <3>1. << >> \in Seq(Packet) /\ << >> \o << >> = << >> BY ConcatEmptySeq
    <3> QED BY <1>2, <3>1 DEF Sent, Delivers
  <2>2. g.dev = res.dev /\ g.out = out BY <1>2 DEF EngineSubmit, Engine
  <2>3. out \o << >> = out BY <1>1, ConcatEmptySeq
  <2>4. Settled(res.dev) BY <1>2 DEF Delivers, Settled
  <2>5. << >> \in Seq(Packet) /\ Len(<< >>) <= 4 OBVIOUS
  <2>6. WireStep(d, g.dev, << >>) BY <2>1, <2>2 DEF Delivers
  <2> QED BY <2>2, <2>3, <2>4, <2>5, <2>6
<1>3. CASE ~(res.rc # 0 /\ res.rsp = << >> /\ res.ntf = << >>)
  <2>1. PICK f : /\ g = EngineTick(f.dev, f.out, 0, hit)
                 /\ f.out = out \o Sent(res) /\ QueueOK(f.out)
                 /\ Sound(f.dev) /\ Settled(f.dev)
                 /\ f.dev.next_seq = res.dev.next_seq
                 /\ f.dev.sessions = res.dev.sessions
    BY <1>3, SubmitFlushes
  <2>2. Settled(f.dev) /\ SameTold(res.dev, f.dev) BY <2>1 DEF Settled, SameTold
  <2> DEFINE S == Sent(res)
  <2>3. S \in Seq(Packet) /\ WireStep(d, f.dev, S)
    <3>1. << >> \in Seq(Packet) /\ S \o << >> = S BY ConcatEmptySeq DEF Delivers
    <3>2. WireStep(d, f.dev, S \o << >>) BY <2>2, <3>1, NoStep, Compose DEF Delivers
    <3> QED BY <3>1, <3>2 DEF Delivers
  <2>4. Len(S) \in Nat /\ Len(f.out) = Len(out) + Len(S)
    BY <1>1, <2>1, <2>3, ConcatProperties, LenProperties
  <2>5. Len(f.out) + 2 <= MAX_OUTBOUND_PACKETS
    BY <1>1, <2>4, OutboundAssumption
  <2>6. Sends(f.dev, f.out, g) BY <2>1, <2>2, <2>5, EngineTickWire
  <2>7. PICK T \in Seq(Packet) : /\ Len(T) <= 2 /\ g.out = f.out \o T
                                  /\ Settled(g.dev) /\ WireStep(f.dev, g.dev, T)
    BY <2>6 DEF Sends
  <2> HIDE DEF S, g
  <2>8. WireStep(d, g.dev, S \o T) BY <2>3, <2>7, Compose
  <2>9. g.out = out \o (S \o T)
    <3>1. (out \o S) \o T = out \o (S \o T) BY <1>1, <2>3, <2>7, ConcatAssociative
    <3>2. f.out = out \o S /\ g.out = f.out \o T BY <2>1, <2>7 DEF S
    <3> QED BY <3>1, <3>2
  <2>10. S \o T \in Seq(Packet) /\ Len(S \o T) <= 4
    <3>1. Len(S) <= 2 BY <1>1 DEF S
    <3>2. Len(S \o T) = Len(S) + Len(T) /\ S \o T \in Seq(Packet) /\ Len(T) \in Nat
      BY <2>3, ConcatProperties, LenProperties
    <3> DEFINE i == Len(S)
    <3> DEFINE j == Len(T)
    <3>3. i \in Nat /\ j \in Nat /\ i <= 2 /\ j <= 2 BY <2>4, <2>7, <3>1, <3>2
    <3>4. i + j <= 4
      <4> HIDE DEF i, j
      <4> QED BY <3>3
    <3> QED BY <3>2, <3>4
  <2>11. \E P \in Seq(Packet) : /\ Len(P) <= 4 /\ g.out = out \o P
                                /\ Settled(g.dev) /\ WireStep(d, g.dev, P)
    BY <2>7, <2>8, <2>9, <2>10
  <2> QED BY <2>11 DEF g
<1> QED BY <1>2, <1>3

-----------------------------------------------------------------------------
(* One packet of the host: at most four packets tell of its effects.       *)
Exchange ==
  \E P \in Seq(Packet) : /\ Len(P) <= 4 /\ outbound' = outbound \o P
                         /\ Settled(dev') /\ WireStep(dev, dev', P)

(* The queue has room for an exchange.                                     *)
Ready == EngineInv /\ Settled(dev) /\ Len(outbound) + 4 <= MAX_OUTBOUND_PACKETS

LEMMA SubmitCommandWire ==
  ASSUME Roomy, Ready, NEW res, CommandOK(res), Answers(dev, res) \/ Announces(dev, res),
         SubmitCommand(res)
  PROVE  Exchange
<1>1. PICK hit \in BOOLEAN :
        Apply(EngineSubmit(CommandResult(dev, res), outbound, hit))
  BY DEF SubmitCommand
<1> DEFINE r == CommandResult(dev, res)
<1>2. ResultOK(r) BY CommandResultOK DEF CommandOK
<1>3. Delivers(dev, r)
  BY CommandDelivers DEF CommandOK, ResultOK, ResultTyped
<1> HIDE DEF r
<1> DEFINE g == EngineSubmit(r, outbound, hit)
<1>4. dev' = g.dev /\ outbound' = g.out BY <1>1 DEF Apply, r
<1>5. QueueOK(outbound) /\ Len(outbound) + 4 <= MAX_OUTBOUND_PACKETS
  BY DEF Ready, EngineInv
<1>6. \E P \in Seq(Packet) : /\ Len(P) <= 4 /\ g.out = outbound \o P
                             /\ Settled(g.dev) /\ WireStep(dev, g.dev, P)
  BY <1>2, <1>3, <1>5, EngineSubmitWire
<1> HIDE DEF g
<1> QED BY <1>4, <1>6 DEF Exchange

LEMMA SubmitDataWire ==
  ASSUME Roomy, Ready, NEW res, ResultOK(res), Delivers(dev, DataResult(dev, res)),
         SubmitData(res)
  PROVE  Exchange
<1>1. PICK hit \in BOOLEAN :
        Apply(EngineSubmit(DataResult(dev, res), outbound, hit))
  BY DEF SubmitData
<1> DEFINE r == DataResult(dev, res)
<1>2. ResultOK(r) /\ Delivers(dev, r) BY FinalizeResultOK DEF DataResult
<1> HIDE DEF r
<1> DEFINE g == EngineSubmit(r, outbound, hit)
<1>3. dev' = g.dev /\ outbound' = g.out BY <1>1 DEF Apply, r
<1>4. QueueOK(outbound) /\ Len(outbound) + 4 <= MAX_OUTBOUND_PACKETS
  BY DEF Ready, EngineInv
<1>5. \E P \in Seq(Packet) : /\ Len(P) <= 4 /\ g.out = outbound \o P
                             /\ Settled(g.dev) /\ WireStep(dev, g.dev, P)
  BY <1>2, <1>4, EngineSubmitWire
<1> HIDE DEF g
<1> QED BY <1>3, <1>5 DEF Exchange

LEMMA HostPacketWire ==
  ASSUME Roomy, Ready, HostPacket
  PROVE  Exchange
<1>1. Sound(dev) /\ Settled(dev) BY DEF Ready, EngineInv
<1>2. CASE DeviceReset
  BY <1>1, <1>2, DeviceResetOK, DeviceResetWire, SubmitCommandWire DEF DeviceReset
<1>3. ASSUME NEW s \in Sid, SessionInit(s) PROVE Exchange
  BY <1>1, <1>3, SessionInitOK, SessionInitWire, SubmitCommandWire DEF SessionInit
<1>4. ASSUME NEW s \in Sid, SessionDeinit(s) PROVE Exchange
  BY <1>1, <1>4, SessionDeinitOK, SessionDeinitWire, SubmitCommandWire DEF SessionDeinit
<1>5. ASSUME NEW s \in Sid, SessionStart(s) PROVE Exchange
  <2>1. PICK verdict \in StartVerdicts : SubmitCommand(HandleSessionStart(dev, s, verdict))
    BY <1>5 DEF SessionStart
  <2>2. verdict \in Verdicts BY InputAssumption
  <2> QED BY <1>1, <2>1, <2>2, SessionStartOK, SessionStartWire, SubmitCommandWire
<1>6. ASSUME NEW s \in Sid, SessionStop(s) PROVE Exchange
  BY <1>1, <1>6, SessionStopOK, SessionStopWire, SubmitCommandWire DEF SessionStop
<1>7. ASSUME NEW s \in Sid, Query(s) PROVE Exchange
  <2>1. "OK" \in Codes /\ "INVALID_PARAM" \in Codes BY DEF Codes
  <2>2. Answers(dev, HandleQuery(dev, s)) BY <1>1, <2>1, RejectWire DEF HandleQuery
  <2> QED BY <1>1, <1>7, <2>2, QueryOK, SubmitCommandWire DEF Query
<1>8. ASSUME NEW s \in Sid, NEW t \in Tlvs, NEW bad \in BOOLEAN, SetAppConfig(s, t, bad)
      PROVE  Exchange
  BY <1>1, <1>8, SetAppConfigOK, SetAppConfigWire, SubmitCommandWire DEF SetAppConfig
<1>9. ASSUME NEW code \in RefusalCodes, RefusedCommand(code) PROVE Exchange
  <2>1. code \in Codes BY InputAssumption
  <2>2. CommandOK(HandleRefused(dev, code)) BY <1>1, <2>1, RefuseOK DEF HandleRefused
  <2>3. Answers(dev, HandleRefused(dev, code)) BY <1>1, <2>1, RejectWire DEF HandleRefused
  <2> QED BY <1>9, <2>2, <2>3, SubmitCommandWire DEF RefusedCommand
<1>10. ASSUME NEW s \in Sid, NEW m \in Msg, DataMessageSend(s, m) PROVE Exchange
  BY <1>1, <1>10, DataMessageSendOK, DataMessageSendWire, SubmitDataWire DEF DataMessageSend
<1>11. ASSUME NEW s \in Sid, NEW m \in BadMsg, BadDataLength(s, m) PROVE Exchange
  <2>1. ResultOK(HandleBadDataLength(dev, s, m))
    BY <1>1, RefuseDataOK DEF BadMsg, HandleBadDataLength, Codes
  <2>2. Delivers(dev, DataResult(dev, HandleBadDataLength(dev, s, m)))
    BY <1>1, RefuseDataWire DEF BadMsg, HandleBadDataLength, Codes
  <2> QED BY <1>11, <2>1, <2>2, SubmitDataWire DEF BadDataLength
<1>12. CASE MalformedData
  <2>1. << >> \in OptPacket BY DEF OptPacket
  <2>2. ResultOK(HandleMalformedData(dev))
    BY <1>1, <2>1, DataResultTyped DEF HandleMalformedData
  <2> DEFINE res == HandleMalformedData(dev)
  <2>3. res.dev = dev /\ res.rsp = << >> /\ res.ntf = << >>
    BY DEF HandleMalformedData, Result
  <2>4. SameTold(dev, res.dev) /\ Settled(res.dev) BY <1>1, <2>3 DEF SameTold
  <2> HIDE DEF res
  <2>5. Delivers(dev, DataResult(dev, res)) BY <2>3, <2>4, DataSettled
  <2> QED BY <1>12, <2>2, <2>5, SubmitDataWire DEF MalformedData, res
<1> QED BY <1>2, <1>3, <1>4, <1>5, <1>6, <1>7, <1>8, <1>9, <1>10, <1>11, <1>12
       DEF HostPacket

-----------------------------------------------------------------------------
(* The server's invariant.  While the connection is open nothing waits on  *)
(* the device, the client will know everything once it has read the queue, *)
(* and the queue is empty when the loop polls: one iteration adds at most  *)
(* four packets for the host's packet and two for the tick.                *)
TcpInv ==
  /\ EngineInv /\ phase \in Phases /\ dev.lost = FALSE
  /\ Open => /\ dev.pending = << >>
             /\ Wire(heard, seen, dev, outbound)
             /\ phase = "poll" => outbound = << >>
             /\ phase = "tick" => Len(outbound) <= 4

(* The initial state: nothing is known and nothing was told.               *)
LEMMA TcpInitInv == TcpInit => TcpInv
<1> SUFFICES ASSUME TcpInit PROVE TcpInv OBVIOUS
<1>1. EngineInv BY InitInv DEF TcpInit
<1>2. FreeSession.state = "NONE"
  BY SessionTypes DEF FreeSession, Session, NewSession
<1>3. /\ dev.lost = FALSE /\ dev.pending = << >> /\ dev.next_seq = 1
      /\ \A s \in Sid : dev.sessions[s].state = "NONE"
  BY <1>2 DEF TcpInit, Init, InitDevice
<1>4. \A s \in Sid : HearOf(heard, << >>, s) = "NONE"
  <2>1. \A s \in Sid : heard[s] = "NONE" BY DEF TcpInit
  <2> QED BY <2>1 DEF HearOf
<1>5. SeeOf(seen, << >>) = 0 BY DEF SeeOf, TcpInit
<1>6. Wire(heard, seen, dev, outbound)
  BY <1>3, <1>4, <1>5 DEF Wire, TcpInit, Init
<1> QED BY <1>1, <1>3, <1>6 DEF TcpInv, TcpInit, Init, Phases

(* The packets of a step are appended and the client is none the worse.    *)
LEMMA WireKept ==
  ASSUME TcpInv, Open, UNCHANGED <<heard, seen>>,
         NEW P \in Seq(Packet), outbound' = outbound \o P, WireStep(dev, dev', P)
  PROVE  Wire(heard', seen', dev', outbound')
<1>1. outbound \in Seq(Packet) BY DEF TcpInv, EngineInv, QueueOK
<1>2. Wire(heard, seen, dev, outbound) BY DEF TcpInv
<1> QED BY <1>1, <1>2 DEF WireStep

(* Hear and See are HearOf and SeeOf for what the client knows now.        *)
LEMMA ClientView ==
  /\ \A q, s : Hear(q, s) = HearOf(heard, q, s)
  /\ \A q : See(q) = SeeOf(seen, q)
<1>1. \A q, s : Hear(q, s) = HearOf(heard, q, s) BY DEF Hear, HearOf
<1>2. \A q : See(q) = SeeOf(seen, q) BY DEF See, SeeOf, Numbered
<1> QED BY <1>1, <1>2

(* A queue from which some packets were taken.                             *)
LEMMA TailQueue ==
  ASSUME NEW q, QueueOK(q), NEW i \in 1 .. Len(q) + 1
  PROVE  QueueOK(SubSeq(q, i, Len(q)))
<1>1. q \in Seq(Packet) /\ Len(q) \in Nat /\ Len(q) <= MAX_OUTBOUND_PACKETS
      /\ MAX_OUTBOUND_PACKETS \in Nat
  BY LenProperties, OutboundAssumption DEF QueueOK
<1> DEFINE k == Len(q)
<1> DEFINE t == SubSeq(q, i, k)
<1>2. t \in Seq(Packet) /\ Len(t) = IF i <= k THEN k - i + 1 ELSE 0
  BY <1>1, SubSeqProperties
<1>3. Len(t) \in Nat BY <1>2, LenProperties
<1>4. Len(t) <= k
  <2> HIDE DEF t, k
  <2> QED BY <1>1, <1>2 DEF k
<1> HIDE DEF t
<1> QED BY <1>1, <1>2, <1>3, <1>4 DEF QueueOK, t

LEMMA TcpNextInv == Roomy /\ TcpInv /\ [TcpNext]_tcpVars => TcpInv'
<1> SUFFICES ASSUME Roomy, TcpInv, [TcpNext]_tcpVars PROVE TcpInv' OBVIOUS
<1>1. /\ EngineInv /\ outbound \in Seq(Packet) /\ Len(outbound) \in Nat
      /\ Len(outbound) <= MAX_OUTBOUND_PACKETS /\ dev.lost = FALSE
      /\ MAX_OUTBOUND_PACKETS \in Nat /\ MAX_OUTBOUND_PACKETS >= 6
  BY LenProperties, OutboundAssumption DEF TcpInv, EngineInv, QueueOK, Roomy
<1>2. CASE PollIdle
  <2>1. Open /\ outbound = << >> BY <1>2 DEF PollIdle, TcpInv, Open
  <2>2. Len(<< >>) <= 4 OBVIOUS
  <2>3. EngineInv' BY <1>1, <1>2 DEF PollIdle, EngineInv
  <2> QED BY <1>2, <2>1, <2>2, <2>3 DEF PollIdle, TcpInv, Open, Phases
<1>3. CASE PollPacket
  <2>1. Open /\ outbound = << >> /\ Settled(dev)
    BY <1>3 DEF PollPacket, TcpInv, Open, Settled
  <2>2. Ready
    <3>1. Len(outbound) = 0 BY <2>1
    <3> QED BY <1>1, <2>1, <3>1 DEF Ready
  <2>3. Exchange BY <1>3, <2>2, HostPacketWire DEF PollPacket
  <2>4. EngineInv' BY <1>1, <1>3, HostPacketInv DEF PollPacket
  <2>5. PICK P \in Seq(Packet) : /\ Len(P) <= 4 /\ outbound' = outbound \o P
                                 /\ Settled(dev') /\ WireStep(dev, dev', P)
    BY <2>3 DEF Exchange
  <2>6. Wire(heard', seen', dev', outbound')
    BY <1>3, <2>1, <2>5, WireKept DEF PollPacket
  <2>7. outbound' = P BY <2>1, <2>5, ConcatEmptySeq
  <2>8. Len(outbound') <= 4 BY <2>5, <2>7
  <2> QED BY <1>3, <2>4, <2>5, <2>6, <2>8 DEF PollPacket, TcpInv, Open, Phases, Settled
<1>4. CASE LoopTick
  <2>1. Open /\ Len(outbound) <= 4 /\ Settled(dev)
    BY <1>4 DEF LoopTick, TcpInv, Open, Settled
  <2>2. PICK ms \in Elapsed, hit \in BOOLEAN : Apply(EngineTick(dev, outbound, ms, hit))
    BY <1>4 DEF LoopTick, Tick
  <2> DEFINE g == EngineTick(dev, outbound, ms, hit)
  <2>3. ms \in Nat BY InputAssumption
  <2>4. EngineOK(g) BY <1>1, <2>3, EngineTickOK DEF EngineInv
  <2>5. Sends(dev, outbound, g)
    <3>1. Len(outbound) + 2 <= MAX_OUTBOUND_PACKETS BY <1>1, <2>1
    <3> QED BY <1>1, <2>1, <2>3, <3>1, EngineTickWire DEF EngineInv
  <2>6. dev' = g.dev /\ outbound' = g.out BY <2>2 DEF Apply
  <2> HIDE DEF g
  <2>7. EngineInv' BY <2>4, <2>6 DEF EngineOK, EngineInv
  <2>8. PICK P \in Seq(Packet) : /\ outbound' = outbound \o P
                                 /\ Settled(dev') /\ WireStep(dev, dev', P)
    BY <2>5, <2>6 DEF Sends
  <2>9. Wire(heard', seen', dev', outbound')
    BY <1>4, <2>1, <2>8, WireKept DEF LoopTick
  <2> QED BY <1>4, <2>7, <2>8, <2>9 DEF LoopTick, TcpInv, Open, Phases, Settled
<1>5. CASE LoopNoTick
  <2>1. EngineInv' BY <1>1, <1>5 DEF LoopNoTick, EngineInv
  <2> QED BY <1>5, <2>1 DEF LoopNoTick, TcpInv, Open, Phases
<1>6. CASE FlushToClient
  <2>1. /\ Open /\ Wire(heard, seen, dev, outbound) /\ dev.pending = << >>
    BY <1>6 DEF FlushToClient, TcpInv, Open
  <2>2. EngineInv'
    <3>1. << >> \in Seq(Packet) /\ Len(<< >>) = 0 OBVIOUS
    <3>2. QueueOK(<< >>) BY <1>1, <3>1 DEF QueueOK
    <3> QED BY <1>1, <1>6, <3>2 DEF FlushToClient, EngineInv
  <2>3. \A s \in Sid : HearOf(heard', << >>, s) = dev.sessions[s].state
    <3>1. \A s \in Sid : heard'[s] = HearOf(heard, outbound, s)
      BY <1>6, ClientView DEF FlushToClient
    <3>2. \A s \in Sid : HearOf(heard', << >>, s) = heard'[s] BY DEF HearOf
    <3> QED BY <2>1, <3>1, <3>2 DEF Wire
  <2>4. dev.next_seq = SeeOf(seen', << >>) + 1
    <3>1. seen' = SeeOf(seen, outbound) BY <1>6, ClientView DEF FlushToClient
    <3>2. SeeOf(seen', << >>) = seen' BY DEF SeeOf
    <3> QED BY <2>1, <3>1, <3>2 DEF Wire
  <2>5. Wire(heard', seen', dev, << >>) BY <2>3, <2>4 DEF Wire
  <2> QED BY <1>1, <1>6, <2>1, <2>2, <2>5 DEF FlushToClient, TcpInv, Open, Phases
<1>7. CASE Close
  <2>1. ASSUME NEW i \in 1 .. Len(outbound) + 1
        PROVE  QueueOK(SubSeq(outbound, i, Len(outbound)))
    BY <1>1, TailQueue DEF EngineInv
  <2>2. QueueOK(outbound') BY <1>1, <1>7, <2>1 DEF Close, EngineInv
  <2>3. EngineInv' BY <1>1, <1>7, <2>2 DEF Close, EngineInv
  <2> QED BY <1>1, <1>7, <2>3 DEF Close, TcpInv, Open, Phases
<1>8. CASE UNCHANGED tcpVars
  <2>1. EngineInv' BY <1>1, <1>8 DEF tcpVars, EngineInv
  <2> QED BY <1>8, <2>1 DEF tcpVars, TcpInv, Open
<1> QED BY <1>2, <1>3, <1>4, <1>5, <1>6, <1>7, <1>8 DEF TcpNext, Closed

-----------------------------------------------------------------------------
(* The engine below the loop.  A flush takes all packets at once and a     *)
(* closed connection any number of them, which no single call of the       *)
(* engine does; the device does not see the difference.  No room is        *)
(* assumed: this holds of full queues and deferred notifications too.      *)

LEMMA TcpEngineInv == EngineInv /\ [TcpNext]_tcpVars => EngineInv'
<1> SUFFICES ASSUME EngineInv, [TcpNext]_tcpVars PROVE EngineInv' OBVIOUS
<1>1. /\ outbound \in Seq(Packet) /\ Len(outbound) \in Nat
      /\ Len(outbound) <= MAX_OUTBOUND_PACKETS /\ MAX_OUTBOUND_PACKETS \in Nat
  BY LenProperties, OutboundAssumption DEF EngineInv, QueueOK
<1>2. CASE PollPacket BY <1>2, HostPacketInv DEF PollPacket
<1>3. CASE LoopTick
  <2>1. PICK ms \in Elapsed, hit \in BOOLEAN : Apply(EngineTick(dev, outbound, ms, hit))
    BY <1>3 DEF LoopTick, Tick
  <2>2. EngineOK(EngineTick(dev, outbound, ms, hit))
    BY InputAssumption, EngineTickOK DEF EngineInv
  <2> QED BY <2>1, <2>2 DEF Apply, EngineOK, EngineInv
<1>4. CASE FlushToClient
  <2>1. << >> \in Seq(Packet) /\ Len(<< >>) = 0 OBVIOUS
  <2>2. QueueOK(<< >>) BY <1>1, <2>1 DEF QueueOK
  <2> QED BY <1>4, <2>2 DEF FlushToClient, EngineInv
<1>5. CASE Close
  <2>1. ASSUME NEW i \in 1 .. Len(outbound) + 1
        PROVE  QueueOK(SubSeq(outbound, i, Len(outbound)))
    BY TailQueue DEF EngineInv
  <2> QED BY <1>5, <2>1 DEF Close, EngineInv
<1>6. CASE UNCHANGED <<dev, outbound>> BY <1>6 DEF EngineInv
<1> QED BY <1>2, <1>3, <1>4, <1>5, <1>6
        DEF TcpNext, PollIdle, LoopNoTick, Closed, tcpVars

LEMMA TcpLaw == EngineInv /\ [TcpNext]_tcpVars => StepLaw
<1> SUFFICES ASSUME EngineInv, [TcpNext]_tcpVars PROVE StepLaw OBVIOUS
<1>1. CASE PollPacket BY <1>1, HostPacketLaw DEF PollPacket
<1>2. CASE LoopTick
  <2>1. PICK ms \in Elapsed : Tick(ms) BY <1>2 DEF LoopTick
  <2>2. [Next]_engineVars BY <2>1 DEF Next
  <2> QED BY <2>2, NextLaw
<1>3. CASE UNCHANGED dev BY <1>3 DEF StepLaw
<1> QED BY <1>1, <1>2, <1>3
        DEF TcpNext, PollIdle, LoopNoTick, FlushToClient, Close, Closed, tcpVars

(* What holds of the engine holds of the engine in the event loop: its     *)
(* arrays are typed and bounded, no event is lost, repeated or reordered,  *)
(* idle sessions are quiet, budgets and intervals are respected and        *)
(* sessions live by the profile's transitions (uci_sim_tcp_serve).         *)
THEOREM ServerKeepsEngine ==
  TcpSpec => /\ []TypeOK /\ []IdleHasNoEvents /\ EventsAccounted
             /\ BudgetRespected /\ RestartWaitsOneInterval /\ LifecycleImplemented
<1>1. TcpInit => EngineInv BY InitInv DEF TcpInit
<1>2. TcpSpec => []EngineInv BY <1>1, TcpEngineInv, PTL DEF TcpSpec
<1>3. EngineInv => TypeOK /\ IdleHasNoEvents
  BY DEF EngineInv, Sound, TypeOK, IdleHasNoEvents
<1>4. EngineInv /\ EngineInv' /\ [TcpNext]_tcpVars =>
        /\ [BudgetStep]_engineVars /\ [RestartStep]_engineVars
        /\ [AccountedStep]_dev /\ [Lifecycle!Next]_StateView
  BY TcpLaw, LawBudget, LawRestart, LawAccounted, LawLifecycle
<1>5. TcpInit => Lifecycle!Init BY InitLifecycle DEF TcpInit
<1> QED BY <1>2, <1>3, <1>4, <1>5, PTL
        DEF TcpSpec, BudgetRespected, BudgetStep, RestartWaitsOneInterval, RestartStep,
            EventsAccounted, AccountedStep, Accounted,
            LifecycleImplemented, Lifecycle!Spec, StateView

-----------------------------------------------------------------------------
(* The theorems, for every number of sessions, every set of messages and   *)
(* configurations and every scenario but delayed_notifications, where the  *)
(* notifications wait on the device on purpose.                            *)

THEOREM TcpInvHolds ==
  ASSUME Roomy
  PROVE  TcpSpec => []TcpInv
<1>1. TcpInv /\ [TcpNext]_tcpVars => TcpInv' BY TcpNextInv
<1> QED BY <1>1, TcpInitInv, PTL DEF TcpSpec

(* No response and no notification is ever dropped: one iteration of the   *)
(* event loop puts at most two notifications in the pending queue and six  *)
(* packets in the outbound queue before it empties both.                   *)
THEOREM ServerLosesNothing ==
  ASSUME Roomy
  PROVE  TcpSpec => []NothingLost
<1>1. TcpInv => NothingLost BY DEF TcpInv, NothingLost
<1> QED BY <1>1, TcpInvHolds, PTL

(* A client that has read what is queued knows the state of every session. *)
THEOREM ClientKnowsSessions ==
  ASSUME Roomy
  PROVE  TcpSpec => []HostViewCurrent
<1>1. TcpInv => HostViewCurrent
  BY ClientView DEF TcpInv, HostViewCurrent, Wire
<1> QED BY <1>1, TcpInvHolds, PTL

(* The client receives the range data numbered without a gap.              *)
THEOREM ClientCountsRangeData ==
  ASSUME Roomy
  PROVE  TcpSpec => []RangeNumbersConsecutive
<1>1. TcpInv => RangeNumbersConsecutive
  BY ClientView DEF TcpInv, RangeNumbersConsecutive, Wire, InTurn
<1> QED BY <1>1, TcpInvHolds, PTL

(* The client receives range data only of sessions it knows to be ACTIVE.  *)
THEOREM ClientRangesWhileActive ==
  ASSUME Roomy
  PROVE  TcpSpec => []RangeDataOnlyWhileActive
<1>1. TcpInv => RangeDataOnlyWhileActive
  BY ClientView DEF TcpInv, RangeDataOnlyWhileActive, Wire, InTurn
<1> QED BY <1>1, TcpInvHolds, PTL
=============================================================================
