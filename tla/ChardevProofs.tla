---------------------------- MODULE ChardevProofs ----------------------------
(***************************************************************************)
(* Proofs about the PTY transport, for every cut of the byte stream, every *)
(* length of packets and buffer and any number of packets the host writes. *)
(***************************************************************************)
EXTENDS Chardev, UciEngineProofs, FoldProofs

(* The bytes the packets of q are made of, and all bytes of those packets  *)
(* that come after the first k.                                            *)
ByteOf(q) == (1 .. Len(q)) \X Nat
Parts(q, k) == [j \in 1 .. Len(q) - k |-> Bytes(k + j, q[k + j])]
Wire(q, k) == FlattenSeq(Parts(q, k))

LEMMA BytesTyped ==
  ASSUME NEW q \in Seq(WirePackets), NEW i \in 1 .. Len(q)
  PROVE  /\ q[i] \in WirePackets /\ q[i].len \in Nat /\ q[i].len >= HEADER_SIZE
         /\ Bytes(i, q[i]) \in Seq(ByteOf(q))
         /\ Len(Bytes(i, q[i])) = q[i].len
         /\ Bytes(i, q[i])[1] = <<i, 1>>
<1>1. q[i] \in WirePackets BY ElementOfSeq
<1> DEFINE l == q[i].len
<1>2. l \in Nat /\ l >= HEADER_SIZE /\ HEADER_SIZE \in Nat \ {0}
  BY <1>1, WireAssumption
<1> HIDE DEF l
<1> DEFINE b == [k \in 1 .. l |-> <<i, k>>]
<1>3. b \in [1 .. l -> ByteOf(q)] BY <1>2 DEF ByteOf
<1>4. b \in Seq(ByteOf(q)) /\ Len(b) = l
  <2> HIDE DEF b
  <2> QED BY <1>2, <1>3
<1>5. b[1] = <<i, 1>> BY <1>2
<1>6. Bytes(i, q[i]) = b BY DEF Bytes, l
<1> HIDE DEF b
<1> QED BY <1>1, <1>2, <1>4, <1>5, <1>6 DEF l

LEMMA PartsTyped ==
  ASSUME NEW q \in Seq(WirePackets), NEW k \in 0 .. Len(q)
  PROVE  /\ Parts(q, k) \in Seq(Seq(ByteOf(q)))
         /\ Len(Parts(q, k)) = Len(q) - k
         /\ \A j \in 1 .. Len(q) - k : Parts(q, k)[j] = Bytes(k + j, q[k + j])
<1> DEFINE n == Len(q) - k
<1>1. Len(q) \in Nat BY LenProperties
<1>2. n \in Nat BY <1>1
<1>3. \A j \in 1 .. n : k + j \in 1 .. Len(q) BY <1>1
<1>4. \A j \in 1 .. n : Bytes(k + j, q[k + j]) \in Seq(ByteOf(q))
  <2> TAKE j \in 1 .. n
  <2>1. k + j \in 1 .. Len(q) BY <1>3
  <2> QED BY <2>1, BytesTyped
<1> HIDE DEF n
<1>5. Parts(q, k) \in [1 .. n -> Seq(ByteOf(q))] BY <1>4 DEF Parts, n
<1>6. Parts(q, k) \in Seq(Seq(ByteOf(q))) /\ Len(Parts(q, k)) = n BY <1>2, <1>5
<1>7. \A j \in 1 .. n : Parts(q, k)[j] = Bytes(k + j, q[k + j]) BY DEF Parts, n
<1> QED BY <1>6, <1>7 DEF n

LEMMA WireTyped ==
  ASSUME NEW q \in Seq(WirePackets), NEW k \in 0 .. Len(q)
  PROVE  Wire(q, k) \in Seq(ByteOf(q))
BY PartsTyped, FlattenTyped DEF Wire

(* After the last packet there is nothing.                                 *)
LEMMA WireEnd ==
  ASSUME NEW q \in Seq(WirePackets)
  PROVE  Wire(q, Len(q)) = << >>
<1>1. Len(q) \in 0 .. Len(q) BY LenProperties
<1> DEFINE P == Parts(q, Len(q))
<1>2. P \in Seq(Seq(ByteOf(q))) /\ Len(P) = Len(q) - Len(q) BY <1>1, PartsTyped
<1>3. Len(P) = 0 BY <1>1, <1>2
<1> HIDE DEF P
<1>4. FlattenSeq(P) = << >> BY <1>2, <1>3, FlattenExists, FlattenIs
<1> QED BY <1>4 DEF Wire, P

(* What follows k packets starts with the packet k + 1.                    *)
LEMMA WireCons ==
  ASSUME NEW q \in Seq(WirePackets), NEW k \in 0 .. Len(q), k # Len(q)
  PROVE  /\ k + 1 \in 1 .. Len(q)
         /\ Wire(q, k) = Bytes(k + 1, q[k + 1]) \o Wire(q, k + 1)
<1>1. Len(q) \in Nat /\ k + 1 \in 0 .. Len(q) /\ k + 1 \in 1 .. Len(q)
  BY LenProperties
<1> DEFINE s == Parts(q, k + 1)
<1> DEFINE t == Parts(q, k)
<1> DEFINE n == Len(q) - (k + 1)
<1>2. /\ s \in Seq(Seq(ByteOf(q))) /\ Len(s) = n
      /\ \A j \in 1 .. n : s[j] = Bytes((k + 1) + j, q[(k + 1) + j])
  BY <1>1, PartsTyped
<1>3. /\ t \in Seq(Seq(ByteOf(q))) /\ Len(t) = Len(q) - k
      /\ \A j \in 1 .. Len(q) - k : t[j] = Bytes(k + j, q[k + j])
  BY <1>1, PartsTyped
<1> HIDE DEF s, t
<1>4. Len(t) = Len(s) + 1 BY <1>1, <1>2, <1>3
<1>5. \A j \in 1 .. Len(s) : t[j + 1] = s[j]
  <2> TAKE j \in 1 .. Len(s)
  <2>1. j \in 1 .. n /\ j + 1 \in 1 .. Len(q) - k /\ k + (j + 1) = (k + 1) + j
    BY <1>1, <1>2
  <2>2. t[j + 1] = Bytes(k + (j + 1), q[k + (j + 1)]) BY <1>3, <2>1
  <2> QED BY <1>2, <2>1, <2>2
<1>6. t[1] = Bytes(k + 1, q[k + 1]) BY <1>1, <1>3
<1>7. FlattenSeq(t) = t[1] \o FlattenSeq(s) BY <1>2, <1>3, <1>4, <1>5, FlattenCons
<1> QED BY <1>1, <1>6, <1>7 DEF Wire, s, t

(* Another packet of the host goes to the end.                             *)
LEMMA WireSnoc ==
  ASSUME NEW q \in Seq(WirePackets), NEW p \in WirePackets, NEW k \in 0 .. Len(q)
  PROVE  Wire(Append(q, p), k) = Wire(q, k) \o Bytes(Len(q) + 1, p)
<1> DEFINE r == Append(q, p)
<1>1. /\ Len(q) \in Nat /\ r \in Seq(WirePackets) /\ Len(r) = Len(q) + 1
      /\ \A i \in 1 .. Len(q) : r[i] = q[i]
      /\ r[Len(q) + 1] = p
  BY LenProperties, AppendProperties
<1> HIDE DEF r
<1>2. k \in 0 .. Len(r) BY <1>1
<1> DEFINE s == Parts(q, k)
<1> DEFINE t == Parts(r, k)
<1> DEFINE n == Len(q) - k
<1>3. n \in Nat /\ Len(r) - k = n + 1 BY <1>1
<1>4. /\ s \in Seq(Seq(ByteOf(q))) /\ Len(s) = n
      /\ \A j \in 1 .. n : s[j] = Bytes(k + j, q[k + j])
  BY PartsTyped
<1>5. /\ t \in Seq(Seq(ByteOf(r))) /\ Len(t) = n + 1
      /\ \A j \in 1 .. n + 1 : t[j] = Bytes(k + j, r[k + j])
  <2>1. /\ t \in Seq(Seq(ByteOf(r))) /\ Len(t) = Len(r) - k
        /\ \A j \in 1 .. Len(r) - k : t[j] = Bytes(k + j, r[k + j])
    BY <1>1, <1>2, PartsTyped
  <2> HIDE DEF t, n
  <2> QED BY <1>3, <2>1
<1>6. s \in Seq(Seq(ByteOf(r)))
  <2>1. 1 .. Len(q) \subseteq 1 .. Len(r) BY <1>1
  <2>2. ByteOf(q) \subseteq ByteOf(r) BY <2>1 DEF ByteOf
  <2>3. Seq(ByteOf(q)) \subseteq Seq(ByteOf(r)) BY <2>2, SeqMonotonic
  <2> HIDE DEF s
  <2> QED BY <1>4, <2>3, SeqMonotonic
<1> HIDE DEF s, t
<1>7. \A j \in 1 .. Len(s) : t[j] = s[j]
  <2> TAKE j \in 1 .. Len(s)
  <2>1. j \in 1 .. n /\ j \in 1 .. n + 1 /\ k + j \in 1 .. Len(q) BY <1>1, <1>3, <1>4
  <2> QED BY <1>1, <1>4, <1>5, <2>1
<1>8. t[Len(t)] = Bytes(Len(q) + 1, p)
  <2>1. n + 1 \in 1 .. n + 1 /\ k + (n + 1) = Len(q) + 1 BY <1>1, <1>3
  <2> QED BY <1>1, <1>5, <2>1
<1>9. FlattenSeq(t) = FlattenSeq(s) \o t[Len(t)]
  <2>1. Len(t) = Len(s) + 1 BY <1>4, <1>5
  <2> QED BY <1>5, <1>6, <1>7, <2>1, FlattenSnoc
<1> QED BY <1>8, <1>9 DEF Wire, s, t, r

-----------------------------------------------------------------------------
(* The bytes behind the first c of a buffer.                               *)
Behind(s, c) == SubSeq(s, c + 1, Len(s))

LEMMA BehindTyped ==
  ASSUME NEW B, NEW s \in Seq(B), NEW c \in 0 .. Len(s)
  PROVE  /\ Behind(s, c) \in Seq(B) /\ Len(Behind(s, c)) = Len(s) - c
         /\ \A i \in 1 .. Len(s) - c : Behind(s, c)[i] = s[c + i]
<1>1. Len(s) \in Nat /\ \A i \in 1 .. Len(s) : s[i] \in B BY LenProperties, ElementOfSeq
<1> DEFINE n == Len(s)
<1> HIDE DEF n
<1>2. n \in Nat /\ c \in 0 .. n /\ \A i \in c + 1 .. n : s[i] \in B
  BY <1>1 DEF n
<1>3. /\ SubSeq(s, c + 1, n) \in Seq(B)
      /\ Len(SubSeq(s, c + 1, n)) = IF c + 1 <= n THEN n - (c + 1) + 1 ELSE 0
      /\ \A i \in 1 .. n - (c + 1) + 1 : SubSeq(s, c + 1, n)[i] = s[(c + 1) + i - 1]
  BY <1>2, SubSeqProperties
<1> DEFINE b == SubSeq(s, c + 1, n)
<1> HIDE DEF b
<1>4. /\ b \in Seq(B) /\ Len(b) = IF c + 1 <= n THEN n - (c + 1) + 1 ELSE 0
      /\ \A i \in 1 .. n - (c + 1) + 1 : b[i] = s[(c + 1) + i - 1]
  BY <1>3 DEF b
<1>5. Len(b) = n - c BY <1>2, <1>4
<1>6. ASSUME NEW i \in 1 .. n - c PROVE b[i] = s[c + i]
  <2>1. i \in 1 .. n - (c + 1) + 1 /\ (c + 1) + i - 1 = c + i BY <1>2
  <2> QED BY <1>4, <2>1
<1> QED BY <1>4, <1>5, <1>6 DEF Behind, b, n

LEMMA BehindNone ==
  ASSUME NEW B, NEW s \in Seq(B)
  PROVE  Behind(s, 0) = s
<1>1. SubSeq(s, 1, Len(s)) = s BY SubSeqFull
<1> QED BY <1>1 DEF Behind

LEMMA BehindTwice ==
  ASSUME NEW B, NEW s \in Seq(B), NEW c \in 0 .. Len(s), NEW n \in 0 .. Len(s) - c
  PROVE  Behind(Behind(s, c), n) = Behind(s, c + n)
<1> DEFINE m == Len(s)
<1>1. m \in Nat BY LenProperties
<1> DEFINE t == Behind(s, c)
<1>2. t \in Seq(B) /\ Len(t) = m - c /\ \A i \in 1 .. m - c : t[i] = s[c + i]
  BY BehindTyped
<1> HIDE DEF t
<1>3. n \in 0 .. Len(t) /\ c + n \in 0 .. Len(s) BY <1>1, <1>2
<1> DEFINE u == Behind(t, n)
<1> DEFINE v == Behind(s, c + n)
<1>4. u \in Seq(B) /\ Len(u) = Len(t) - n /\ \A i \in 1 .. Len(t) - n : u[i] = t[n + i]
  BY <1>2, <1>3, BehindTyped
<1>5. v \in Seq(B) /\ Len(v) = m - (c + n) /\ \A i \in 1 .. m - (c + n) : v[i] = s[(c + n) + i]
  BY <1>3, BehindTyped
<1> HIDE DEF u, v
<1>6. Len(u) = Len(v) BY <1>1, <1>2, <1>4, <1>5
<1>7. ASSUME NEW i \in 1 .. Len(u) PROVE u[i] = v[i]
  <2>1. /\ i \in 1 .. Len(t) - n /\ n + i \in 1 .. m - c /\ i \in 1 .. m - (c + n)
        /\ c + (n + i) = (c + n) + i
    BY <1>1, <1>2, <1>4
  <2>2. u[i] = t[n + i] BY <1>4, <2>1
  <2>3. t[n + i] = s[c + (n + i)] BY <1>2, <2>1
  <2>4. v[i] = s[(c + n) + i] BY <1>5, <2>1
  <2> QED BY <2>1, <2>2, <2>3, <2>4
<1>8. u = v BY <1>4, <1>5, <1>6, <1>7, SeqEqual
<1> QED BY <1>8 DEF t, u, v

(* A packet that is complete in the buffer comes off the front of buffer   *)
(* and pipe together.                                                      *)
LEMMA Peel ==
  ASSUME NEW B, NEW a \in Seq(B), NEW p \in Seq(B), NEW b \in Seq(B), NEW w \in Seq(B),
         a \o p = b \o w, Len(b) <= Len(a)
  PROVE  Behind(a, Len(b)) \o p = w
<1> DEFINE n == Len(b)
<1>1. n \in Nat /\ Len(a) \in Nat /\ Len(p) \in Nat /\ Len(w) \in Nat BY LenProperties
<1>2. n \in 0 .. Len(a) BY <1>1
<1> DEFINE t == Behind(a, n)
<1>3. t \in Seq(B) /\ Len(t) = Len(a) - n /\ \A i \in 1 .. Len(a) - n : t[i] = a[n + i]
  BY <1>2, BehindTyped
<1> HIDE DEF t
<1> DEFINE x == a \o p
<1>4. /\ x \in Seq(B) /\ Len(x) = Len(a) + Len(p)
      /\ \A i \in 1 .. Len(a) + Len(p) : x[i] = IF i <= Len(a) THEN a[i] ELSE p[i - Len(a)]
  BY ConcatProperties
<1>5. /\ Len(x) = n + Len(w)
      /\ \A i \in 1 .. n + Len(w) : x[i] = IF i <= n THEN b[i] ELSE w[i - n]
  <2>1. /\ Len(b \o w) = n + Len(w)
        /\ \A i \in 1 .. n + Len(w) : (b \o w)[i] = IF i <= n THEN b[i] ELSE w[i - n]
    BY ConcatProperties
  <2>2. x = b \o w OBVIOUS
  <2> HIDE DEF x, n
  <2> QED BY <2>1, <2>2
<1> HIDE DEF x, n
<1> DEFINE y == t \o p
<1>6. /\ y \in Seq(B) /\ Len(y) = Len(t) + Len(p)
      /\ \A i \in 1 .. Len(t) + Len(p) : y[i] = IF i <= Len(t) THEN t[i] ELSE p[i - Len(t)]
  BY <1>3, ConcatProperties
<1> HIDE DEF y
<1>7. Len(y) = Len(w)
  <2>1. Len(y) = Len(t) + Len(p) BY <1>6
  <2>2. Len(t) = Len(a) - n BY <1>3
  <2>3. Len(a) + Len(p) = n + Len(w) BY <1>4, <1>5
  <2> QED BY <1>1, <2>1, <2>2, <2>3
<1>8. ASSUME NEW i \in 1 .. Len(y) PROVE y[i] = w[i]
  <2>1. n + i \in 1 .. n + Len(w) /\ ~(n + i <= n) /\ (n + i) - n = i
    BY <1>1, <1>7
  <2>2. x[n + i] = w[i] BY <1>5, <2>1
  <2>3. n + i \in 1 .. Len(a) + Len(p) /\ i \in 1 .. Len(t) + Len(p)
    BY <1>1, <1>2, <1>3, <1>6
  <2>4. CASE i <= Len(t)
    <3>1. i \in 1 .. Len(a) - n /\ n + i <= Len(a) BY <1>1, <1>2, <1>3, <2>4
    <3>2. y[i] = t[i] BY <1>6, <2>3, <2>4
    <3>3. t[i] = a[n + i] BY <1>3, <3>1
    <3>4. x[n + i] = a[n + i] BY <1>4, <2>3, <3>1
    <3> QED BY <2>2, <3>2, <3>3, <3>4
  <2>5. CASE ~(i <= Len(t))
    <3>1. ~(n + i <= Len(a)) /\ (n + i) - Len(a) = i - Len(t)
      BY <1>1, <1>2, <1>3, <2>5
    <3>2. y[i] = p[i - Len(t)] BY <1>6, <2>3, <2>5
    <3>3. x[n + i] = p[(n + i) - Len(a)] BY <1>4, <2>3, <3>1
    <3> QED BY <2>2, <3>1, <3>2, <3>3
  <2> QED BY <2>4, <2>5
<1>9. y = w BY <1>6, <1>7, <1>8, SeqEqual
<1> QED BY <1>9 DEF y, t, n

(* A read cuts the pipe in two.                                            *)
LEMMA Cut ==
  ASSUME NEW B, NEW a \in Seq(B), NEW p \in Seq(B), NEW n \in 1 .. Len(p)
  PROVE  (a \o SubSeq(p, 1, n)) \o Behind(p, n) = a \o p
<1>1. Len(p) \in Nat BY LenProperties
<1>2. n \in Nat /\ n \in 0 .. Len(p) /\ n + 1 \in 1 .. Len(p) + 1 BY <1>1
<1> DEFINE u == SubSeq(p, 1, n)
<1> DEFINE v == Behind(p, n)
<1>3. u \in Seq(B)
  <2>1. \A i \in 1 .. n : p[i] \in B BY <1>1, ElementOfSeq
  <2> QED BY <1>2, <2>1, SubSeqProperties
<1>4. v \in Seq(B) BY <1>2, BehindTyped
<1>5. u \o v = p
  <2>1. 1 \in 1 .. Len(p) + 1 /\ n \in 1 - 1 .. Len(p) /\ Len(p) \in n .. Len(p)
    BY <1>1, <1>2
  <2>2. SubSeq(p, 1, n) \o SubSeq(p, n + 1, Len(p)) = SubSeq(p, 1, Len(p))
    BY <2>1, ConcatAdjacentSubSeq
  <2>3. SubSeq(p, 1, Len(p)) = p BY SubSeqFull
  <2> QED BY <2>2, <2>3 DEF Behind
<1> HIDE DEF u, v
<1>6. (a \o u) \o v = a \o (u \o v)
  <2>1. Assoc(Seq(B)) BY Associative
  <2> QED BY <1>3, <1>4, <2>1 DEF Assoc
<1> QED BY <1>5, <1>6 DEF u, v

-----------------------------------------------------------------------------
(* The invariant.  Framing is not inductive as it stands: a refusal sets   *)
(* consumed back to the front of the stream, so the front has to be the    *)
(* start of a packet too.                                                  *)
Counted(k) ==
  /\ \A i \in DOMAIN sent : i <= k => times[i] >= 1
  /\ "refused" \notin fault =>
       \A i \in DOMAIN sent : times[i] = IF i <= k THEN 1 ELSE 0

Framed ==
  \E first, k \in 0 .. Len(sent) :
    /\ first <= k
    /\ stream \o pipe = Wire(sent, first)
    /\ Rest = Wire(sent, k)
    /\ Counted(k)

Buffers ==
  /\ stream \in Seq(ByteOf(sent)) /\ pipe \in Seq(ByteOf(sent))
  /\ Len(stream) <= MAX_PACKET
  /\ consumed \in 0 .. Len(stream)
  /\ phase \notin {"feed", "desync"} => consumed = 0
  /\ phase \in Phases /\ errno \in Errnos /\ fault \subseteq Faults
  /\ sent \in Seq(WirePackets) /\ times \in Seq(0 .. 2)
  /\ Len(times) = Len(sent)

ChardevInv == EngineInv /\ Buffers /\ ("dropped" \notin fault => Framed)

-----------------------------------------------------------------------------
(* The engine below the transport.                                         *)

LEMMA HandledOK ==
  ASSUME NEW d, Sound(d), NEW p \in WirePackets
  PROVE  ResultOK(Handled(d, p))
<1>1. p.sid \in Sid BY WireAssumption
<1>2. CASE p.op = "RESET"
  <2>1. Handled(d, p) = CommandResult(d, HandleDeviceReset(d)) BY <1>2 DEF Handled
  <2> QED BY <2>1, DeviceResetOK, CommandResultOK DEF CommandOK
<1>3. CASE p.op = "INIT"
  <2>1. Handled(d, p) = CommandResult(d, HandleSessionInit(d, p.sid))
    BY <1>3 DEF Handled
  <2> QED BY <1>1, <2>1, SessionInitOK, CommandResultOK DEF CommandOK
<1>4. CASE p.op = "DEINIT"
  <2>1. Handled(d, p) = CommandResult(d, HandleSessionDeinit(d, p.sid))
    BY <1>4 DEF Handled
  <2> QED BY <1>1, <2>1, SessionDeinitOK, CommandResultOK DEF CommandOK
<1>5. CASE p.op = "START"
  <2>1. Handled(d, p) = CommandResult(d, HandleSessionStart(d, p.sid, "OK"))
    BY <1>5 DEF Handled
  <2>2. "OK" \in Verdicts BY DEF Verdicts
  <2> QED BY <1>1, <2>1, <2>2, SessionStartOK, CommandResultOK DEF CommandOK
<1>6. CASE p.op = "STOP"
  <2>1. Handled(d, p) = CommandResult(d, HandleSessionStop(d, p.sid))
    BY <1>6 DEF Handled
  <2> QED BY <1>1, <2>1, SessionStopOK, CommandResultOK DEF CommandOK
<1>7. CASE p.op \notin {"RESET", "INIT", "DEINIT", "START", "STOP"}
  <2>1. Handled(d, p) = DataResult(d, HandleMalformedData(d)) BY <1>7 DEF Handled
  <2>2. << >> \in OptPacket BY DEF OptPacket
  <2>3. ResultOK(HandleMalformedData(d))
    BY <2>2, DataResultTyped DEF HandleMalformedData
  <2> QED BY <2>1, <2>3, FinalizeResultOK DEF DataResult
<1> QED BY <1>2, <1>3, <1>4, <1>5, <1>6, <1>7

(* The packet behind the consumed bytes is one of the host's.              *)
LEMMA AtTyped ==
  ASSUME Buffers, HasHeader
  PROVE  /\ Len(stream) \in Nat /\ consumed + 1 \in 1 .. Len(stream)
         /\ At \in 1 .. Len(sent) /\ sent[At] \in WirePackets
         /\ Total \in Nat /\ Total >= HEADER_SIZE
<1>1. Len(stream) \in Nat /\ consumed \in 0 .. Len(stream) /\ HEADER_SIZE \in Nat \ {0}
  BY LenProperties, WireAssumption DEF Buffers
<1>2. consumed + 1 \in 1 .. Len(stream) BY <1>1 DEF HasHeader, Avail
<1>3. stream[consumed + 1] \in ByteOf(sent)
  BY <1>2, ElementOfSeq DEF Buffers
<1>4. At \in 1 .. Len(sent) BY <1>3 DEF ByteOf, At
<1>5. sent[At] \in WirePackets BY <1>4, ElementOfSeq DEF Buffers
<1> QED BY <1>1, <1>2, <1>4, <1>5, WireAssumption DEF Total

LEMMA EngineKept ==
  ASSUME EngineInv, Buffers, ChardevNext
  PROVE  EngineInv'
<1>1. CASE FeedPacket
  <2>1. PICK hit \in BOOLEAN : Apply(EngineSubmit(Handled(dev, sent[At]), outbound, hit))
    BY <1>1 DEF FeedPacket
  <2>2. sent[At] \in WirePackets
    BY <1>1, AtTyped DEF FeedPacket, Complete, Accepted
  <2> DEFINE r == Handled(dev, sent[At])
  <2>3. ResultOK(r) BY <2>2, HandledOK DEF EngineInv
  <2> HIDE DEF r
  <2>4. EngineOK(EngineSubmit(r, outbound, hit)) BY <2>3, EngineSubmitOK DEF EngineInv
  <2>5. Apply(EngineSubmit(r, outbound, hit)) BY <2>1 DEF r
  <2> QED BY <2>4, <2>5 DEF Apply, EngineOK, EngineInv
<1>2. CASE LoopTick
  <2>1. PICK ms \in Elapsed, hit \in BOOLEAN : Apply(EngineTick(dev, outbound, ms, hit))
    BY <1>2 DEF LoopTick
  <2>2. EngineOK(EngineTick(dev, outbound, ms, hit))
    BY InputAssumption, EngineTickOK DEF EngineInv
  <2> QED BY <2>1, <2>2 DEF Apply, EngineOK, EngineInv
<1>3. CASE MasterFlush
  <2>1. QueueOK(<< >>) BY EmptySeq, OutboundAssumption DEF QueueOK
  <2> QED BY <1>3, <2>1 DEF MasterFlush, EngineInv
<1>4. CASE MasterFlushFails
  <2>1. PICK i \in DOMAIN outbound : outbound' = Behind(outbound, i)
    BY <1>4 DEF MasterFlushFails, Behind
  <2>2. outbound \in Seq(Packet) /\ Len(outbound) \in Nat /\ i \in 1 .. Len(outbound)
    BY LenProperties DEF EngineInv, QueueOK
  <2>3. i \in 0 .. Len(outbound) BY <2>2
  <2>4. Behind(outbound, i) \in Seq(Packet) /\ Len(Behind(outbound, i)) = Len(outbound) - i
    BY <2>2, <2>3, BehindTyped
  <2>5. QueueOK(outbound') BY <2>1, <2>2, <2>4, OutboundAssumption DEF EngineInv, QueueOK
  <2> QED BY <1>4, <2>5 DEF MasterFlushFails, EngineInv
<1>5. CASE UNCHANGED <<dev, outbound>> BY <1>5 DEF EngineInv
<1>6. \/ FeedPacket \/ LoopTick \/ MasterFlush \/ MasterFlushFails
      \/ UNCHANGED <<dev, outbound>>
  BY DEF ChardevNext, LoopStep, HostWrite, ReadNothing, ReadError, ReadEof, ReadSome,
         FeedOversized, FeedDone, Desync, Retry, GiveUp, Ended, chardevVars
<1> QED BY <1>1, <1>2, <1>3, <1>4, <1>5, <1>6

-----------------------------------------------------------------------------
(* The buffers.                                                            *)

LEMMA MinOfTwo ==
  ASSUME NEW a \in Int, NEW b \in Int
  PROVE  Min({a, b}) = IF a <= b THEN a ELSE b
<1> DEFINE c == IF a <= b THEN a ELSE b
<1>1. c \in {a, b} /\ \A y \in {a, b} : c <= y OBVIOUS
<1>2. \A x \in {a, b} : (\A y \in {a, b} : x <= y) => x = c OBVIOUS
<1> HIDE DEF c
<1>3. Min({a, b}) = c BY <1>1, <1>2 DEF Min
<1> QED BY <1>3 DEF c

(* What one read returns and what of it is kept.                           *)
LEMMA ReadTyped ==
  ASSUME Buffers, NEW n \in 1 .. Min({Len(pipe), MAX_PACKET})
  PROVE  /\ Len(pipe) \in Nat /\ n \in 1 .. Len(pipe)
         /\ Clipped(n) \in 0 .. n /\ Clipped(n) <= MAX_PACKET - Len(stream)
<1>1. Len(pipe) \in Nat /\ Len(stream) \in Nat /\ MAX_PACKET \in Nat /\ Len(stream) <= MAX_PACKET
  BY LenProperties, WireAssumption DEF Buffers
<1>2. Min({Len(pipe), MAX_PACKET})
        = IF Len(pipe) <= MAX_PACKET THEN Len(pipe) ELSE MAX_PACKET
  BY <1>1, MinOfTwo
<1>3. n \in Nat /\ n \in 1 .. Len(pipe) BY <1>1, <1>2
<1> DEFINE room == MAX_PACKET - Len(stream)
<1>4. room \in Nat BY <1>1
<1> HIDE DEF room
<1>5. Min({n, room}) = IF n <= room THEN n ELSE room BY <1>3, <1>4, MinOfTwo
<1>6. Clipped(n) = IF n <= room THEN n ELSE room BY <1>5 DEF Clipped, room
<1> QED BY <1>1, <1>3, <1>4, <1>6 DEF room

LEMMA PrefixTyped ==
  ASSUME NEW B, NEW p \in Seq(B), NEW n \in 0 .. Len(p)
  PROVE  SubSeq(p, 1, n) \in Seq(B) /\ Len(SubSeq(p, 1, n)) = n
<1>1. Len(p) \in Nat /\ \A i \in 1 .. n : p[i] \in B BY LenProperties, ElementOfSeq
<1>2. /\ SubSeq(p, 1, n) \in Seq(B)
      /\ Len(SubSeq(p, 1, n)) = IF 1 <= n THEN n - 1 + 1 ELSE 0
  BY <1>1, SubSeqProperties
<1> QED BY <1>1, <1>2

LEMMA HostWriteBuffers ==
  ASSUME Buffers, HostWrite
  PROVE  Buffers'
<1>1. PICK p \in WirePackets : /\ sent' = Append(sent, p)
                               /\ pipe' = pipe \o Bytes(Len(sent) + 1, p)
  BY DEF HostWrite
<1>2. /\ Len(sent) \in Nat /\ sent' \in Seq(WirePackets) /\ Len(sent') = Len(sent) + 1
      /\ sent'[Len(sent) + 1] = p
  BY <1>1, LenProperties, AppendProperties DEF Buffers
<1>3. ByteOf(sent) \subseteq ByteOf(sent')
  <2>1. 1 .. Len(sent) \subseteq 1 .. Len(sent') BY <1>2
  <2> QED BY <2>1 DEF ByteOf
<1>4. stream \in Seq(ByteOf(sent')) /\ pipe \in Seq(ByteOf(sent'))
  BY <1>3, SeqMonotonic DEF Buffers
<1>5. Bytes(Len(sent) + 1, p) \in Seq(ByteOf(sent'))
  <2>1. Len(sent) + 1 \in 1 .. Len(sent') BY <1>2
  <2> QED BY <1>2, <2>1, BytesTyped
<1>6. pipe' \in Seq(ByteOf(sent')) BY <1>1, <1>4, <1>5, ConcatProperties
<1>7. times' \in Seq(0 .. 2) /\ Len(times') = Len(times) + 1
  <2>1. times \in Seq(0 .. 2) /\ 0 \in 0 .. 2 /\ times' = Append(times, 0)
    BY DEF Buffers, HostWrite
  <2> QED BY <2>1, AppendProperties
<1> QED BY <1>2, <1>4, <1>6, <1>7 DEF Buffers, HostWrite

LEMMA ReadSomeBuffers ==
  ASSUME Buffers, ReadSome
  PROVE  Buffers'
<1>1. PICK n \in 1 .. Min({Len(pipe), MAX_PACKET}) :
        /\ stream' = stream \o SubSeq(pipe, 1, Clipped(n))
        /\ pipe' = Behind(pipe, n)
        /\ fault' = IF Clipped(n) < n THEN fault \cup {"dropped"} ELSE fault
  BY DEF ReadSome, Behind
<1>2. /\ Len(pipe) \in Nat /\ n \in 1 .. Len(pipe)
      /\ Clipped(n) \in 0 .. n /\ Clipped(n) <= MAX_PACKET - Len(stream)
  BY ReadTyped
<1> DEFINE c == Clipped(n)
<1> DEFINE u == SubSeq(pipe, 1, c)
<1>3. c \in 0 .. Len(pipe) /\ n \in 0 .. Len(pipe) BY <1>2
<1>4. u \in Seq(ByteOf(sent)) /\ Len(u) = c
  <2> HIDE DEF c
  <2> QED BY <1>3, PrefixTyped DEF Buffers
<1>5. pipe' \in Seq(ByteOf(sent)) BY <1>1, <1>3, BehindTyped DEF Buffers
<1>6. stream' \in Seq(ByteOf(sent)) /\ Len(stream') = Len(stream) + c
  <2>1. stream' = stream \o u BY <1>1
  <2>2. stream \in Seq(ByteOf(sent)) BY DEF Buffers
  <2> HIDE DEF u, c
  <2>3. stream \o u \in Seq(ByteOf(sent)) /\ Len(stream \o u) = Len(stream) + Len(u)
    BY <1>4, <2>2, ConcatProperties
  <2> QED BY <1>4, <2>1, <2>3
<1>7. Len(stream) \in Nat /\ MAX_PACKET \in Nat BY LenProperties, WireAssumption DEF Buffers
<1>8. Len(stream') <= MAX_PACKET /\ 0 \in 0 .. Len(stream') BY <1>2, <1>3, <1>6, <1>7
<1>9. sent' = sent /\ consumed' = 0 /\ phase' = "feed" /\ errno' = errno /\ times' = times
  BY DEF ReadSome, Buffers
<1>10. fault' \subseteq Faults BY <1>1 DEF Buffers, Faults
<1> QED BY <1>5, <1>6, <1>8, <1>9, <1>10 DEF Buffers, Phases

LEMMA FeedPacketBuffers ==
  ASSUME Buffers, FeedPacket
  PROVE  Buffers'
<1>1. HasHeader /\ Avail >= Total BY DEF FeedPacket, Complete, Accepted
<1>2. /\ Len(stream) \in Nat /\ At \in 1 .. Len(sent) /\ Total \in Nat
  BY <1>1, AtTyped
<1>3. \/ consumed' = consumed + Total /\ phase' = phase /\ fault' = fault
      \/ consumed' = 0 /\ phase' = "failed" /\ fault' = fault \cup {"refused"}
  BY DEF FeedPacket
<1>4. consumed + Total \in 0 .. Len(stream) BY <1>1, <1>2 DEF Avail, Buffers
<1>5. consumed' \in 0 .. Len(stream) BY <1>2, <1>3, <1>4
<1>6. phase = "feed" BY DEF FeedPacket
<1>7. times' \in Seq(0 .. 2) /\ Len(times') = Len(times)
  <2> DEFINE v == IF times[At] < 2 THEN times[At] + 1 ELSE 2
  <2>1. times \in Seq(0 .. 2) /\ At \in 1 .. Len(times) BY <1>2 DEF Buffers
  <2>2. times[At] \in 0 .. 2 BY <2>1, ElementOfSeq
  <2>3. v \in 0 .. 2 BY <2>2
  <2>4. times' = [times EXCEPT ![At] = v] BY DEF FeedPacket
  <2> HIDE DEF v
  <2> QED BY <2>1, <2>3, <2>4, ExceptSeq
<1>8. stream' = stream /\ pipe' = pipe /\ sent' = sent /\ errno' = errno BY DEF FeedPacket
<1>9. fault' \subseteq Faults /\ phase' \in Phases
  BY <1>3, <1>6 DEF Buffers, Faults, Phases
<1>10. phase' \notin {"feed", "desync"} => consumed' = 0 BY <1>3, <1>6
<1> QED BY <1>5, <1>7, <1>8, <1>9, <1>10 DEF Buffers

LEMMA FeedDoneBuffers ==
  ASSUME Buffers, FeedDone
  PROVE  Buffers'
<1>1. Len(stream) \in Nat /\ consumed \in 0 .. Len(stream) /\ MAX_PACKET \in Nat
  BY LenProperties, WireAssumption DEF Buffers
<1>2. stream' = Behind(stream, consumed) BY DEF FeedDone, Behind
<1>3. stream' \in Seq(ByteOf(sent)) /\ Len(stream') = Len(stream) - consumed
  BY <1>1, <1>2, BehindTyped DEF Buffers
<1>4. Len(stream') <= MAX_PACKET /\ 0 \in 0 .. Len(stream') BY <1>1, <1>3 DEF Buffers
<1> QED BY <1>3, <1>4 DEF Buffers, FeedDone, Phases

LEMMA BuffersKept ==
  ASSUME Buffers, ChardevNext
  PROVE  Buffers'
<1>0. Len(stream) \in Nat BY LenProperties DEF Buffers
<1>1. CASE ReadNothing BY <1>1 DEF ReadNothing, Buffers, Phases, Errnos
<1>2. CASE ReadError \/ ReadEof
  BY <1>2 DEF ReadError, ReadEof, Buffers, Phases, Errnos
<1>3. CASE FeedOversized
  BY <1>0, <1>3 DEF FeedOversized, Buffers, Phases, Faults
<1>4. CASE Desync BY <1>4 DEF Desync, Buffers, Phases
<1>5. CASE Retry BY <1>5 DEF Retry, Buffers, Phases
<1>6. CASE GiveUp BY <1>6 DEF GiveUp, Buffers, Phases
<1>7. CASE MasterFlush BY <1>7 DEF MasterFlush, Buffers, Phases
<1>8. CASE MasterFlushFails
  BY <1>8 DEF MasterFlushFails, Buffers, Phases, Errnos, Faults
<1>9. CASE LoopTick
  <2>1. phase = "tick" /\ phase' \in {"read", "ended"} BY <1>9 DEF LoopTick
  <2> QED BY <1>9, <2>1 DEF LoopTick, Buffers, Phases
<1>10. CASE Ended BY <1>10 DEF Ended, chardevVars, ptyVars, Buffers
<1> QED
  BY <1>1, <1>2, <1>3, <1>4, <1>5, <1>6, <1>7, <1>8, <1>9, <1>10, HostWriteBuffers,
     ReadSomeBuffers, FeedPacketBuffers, FeedDoneBuffers
  DEF ChardevNext, LoopStep

-----------------------------------------------------------------------------
(* The framing.                                                            *)

RestIs(k) == k \in 0 .. Len(sent) /\ Behind(stream, consumed) \o pipe = Wire(sent, k)
FrontIs(k) == k \in 0 .. Len(sent) /\ stream \o pipe = Wire(sent, k)

LEMMA FramedIs ==
  Framed <=> \E first, k \in 0 .. Len(sent) :
               first <= k /\ FrontIs(first) /\ RestIs(k) /\ Counted(k)
BY DEF Framed, FrontIs, RestIs, Rest, Behind

(* Where consumed is 0 the two are the same.                               *)
LEMMA AtFront ==
  ASSUME Buffers, consumed = 0
  PROVE  Behind(stream, consumed) \o pipe = stream \o pipe
<1>1. Behind(stream, 0) = stream BY BehindNone DEF Buffers
<1> QED BY <1>1

(* The packet behind the consumed bytes is the next of the host's.         *)
LEMMA NextPacket ==
  ASSUME Buffers, HasHeader, NEW k, RestIs(k)
  PROVE  /\ At = k + 1 /\ k + 1 \in 1 .. Len(sent)
         /\ Wire(sent, k) = Bytes(At, sent[At]) \o Wire(sent, k + 1)
<1> DEFINE B == ByteOf(sent)
<1> DEFINE a == Behind(stream, consumed)
<1>1. /\ Len(stream) \in Nat /\ consumed \in 0 .. Len(stream) /\ HEADER_SIZE \in Nat \ {0}
      /\ stream \in Seq(B) /\ pipe \in Seq(B) /\ sent \in Seq(WirePackets)
      /\ k \in 0 .. Len(sent)
  BY LenProperties, WireAssumption DEF Buffers, RestIs
<1>2. a \in Seq(B) /\ Len(a) = Len(stream) - consumed
      /\ \A i \in 1 .. Len(stream) - consumed : a[i] = stream[consumed + i]
  BY <1>1, BehindTyped
<1>3. 1 \in 1 .. Len(stream) - consumed BY <1>1 DEF HasHeader, Avail
<1>4. a[1] = stream[consumed + 1] BY <1>2, <1>3
<1> DEFINE x == a \o pipe
<1>5. x \in Seq(B) /\ Len(x) = Len(a) + Len(pipe) /\ x[1] = a[1] /\ Len(pipe) \in Nat
  <2> HIDE DEF a, B
  <2>1. Len(pipe) \in Nat /\ Len(a) \in Nat /\ 1 <= Len(a) BY <1>1, <1>2, <1>3, LenProperties
  <2>2. /\ x \in Seq(B) /\ Len(x) = Len(a) + Len(pipe)
        /\ \A i \in 1 .. Len(a) + Len(pipe) : x[i] = IF i <= Len(a) THEN a[i] ELSE pipe[i - Len(a)]
    BY <1>1, <1>2, ConcatProperties
  <2>3. 1 \in 1 .. Len(a) + Len(pipe) BY <2>1
  <2>4. x[1] = a[1]
    <3> HIDE DEF x
    <3> QED BY <2>1, <2>2, <2>3
  <2> QED BY <2>1, <2>2, <2>4
<1>6. Wire(sent, k) = x BY DEF RestIs
<1> HIDE DEF x, a, B
<1>7. k # Len(sent)
  <2>1. Len(x) # 0 BY <1>1, <1>2, <1>3, <1>5
  <2> QED BY <1>1, <1>6, <2>1, WireEnd
<1>8. /\ k + 1 \in 1 .. Len(sent)
      /\ Wire(sent, k) = Bytes(k + 1, sent[k + 1]) \o Wire(sent, k + 1)
  BY <1>1, <1>7, WireCons
<1> DEFINE b == Bytes(k + 1, sent[k + 1])
<1> DEFINE w == Wire(sent, k + 1)
<1>9. b \in Seq(B) /\ Len(b) \in Nat /\ 1 <= Len(b) /\ b[1] = <<k + 1, 1>>
  <2> DEFINE l == sent[k + 1].len
  <2>1. b \in Seq(B) /\ Len(b) = l /\ l \in Nat /\ l >= HEADER_SIZE /\ b[1] = <<k + 1, 1>>
    BY <1>1, <1>8, BytesTyped DEF B
  <2> HIDE DEF l, b
  <2> QED BY <1>1, <2>1
<1>10. w \in Seq(B) /\ Len(w) \in Nat
  <2>1. k + 1 \in 0 .. Len(sent) BY <1>1, <1>8, LenProperties
  <2>2. w \in Seq(B) BY <1>1, <2>1, WireTyped DEF B
  <2> QED BY <2>2, LenProperties
<1> HIDE DEF b, w
<1>11. (b \o w)[1] = b[1]
  <2>1. \A i \in 1 .. Len(b) + Len(w) : (b \o w)[i] = IF i <= Len(b) THEN b[i] ELSE w[i - Len(b)]
    BY <1>9, <1>10, ConcatProperties
  <2>2. 1 \in 1 .. Len(b) + Len(w) BY <1>9, <1>10
  <2> QED BY <1>9, <2>1, <2>2
<1>12. Wire(sent, k) = b \o w BY <1>8 DEF b, w
<1>13. stream[consumed + 1] = <<k + 1, 1>> BY <1>4, <1>5, <1>6, <1>9, <1>11, <1>12
<1>14. At = k + 1 BY <1>13 DEF At
<1> QED BY <1>8, <1>14

LEMMA HostWriteFramed ==
  ASSUME Buffers, HostWrite, Framed
  PROVE  Framed'
<1> DEFINE B == ByteOf(sent')
<1>1. PICK p \in WirePackets : /\ sent' = Append(sent, p)
                               /\ pipe' = pipe \o Bytes(Len(sent) + 1, p)
  BY DEF HostWrite
<1>2. PICK first, k \in 0 .. Len(sent) :
        first <= k /\ FrontIs(first) /\ RestIs(k) /\ Counted(k)
  BY FramedIs
<1>3. /\ Len(sent) \in Nat /\ sent \in Seq(WirePackets) /\ sent' \in Seq(WirePackets)
      /\ Len(sent') = Len(sent) + 1 /\ sent'[Len(sent) + 1] = p
  BY <1>1, LenProperties, AppendProperties DEF Buffers
<1>4. first \in 0 .. Len(sent') /\ k \in 0 .. Len(sent') BY <1>3
<1> DEFINE b == Bytes(Len(sent) + 1, p)
<1> DEFINE a == Behind(stream, consumed)
<1>5. b \in Seq(B)
  <2>1. Len(sent) + 1 \in 1 .. Len(sent') BY <1>3
  <2> QED BY <1>3, <2>1, BytesTyped
<1>6. stream \in Seq(B) /\ pipe \in Seq(B)
  <2>1. 1 .. Len(sent) \subseteq 1 .. Len(sent') BY <1>3
  <2>2. ByteOf(sent) \subseteq B BY <2>1 DEF ByteOf
  <2> HIDE DEF B
  <2> QED BY <2>2, SeqMonotonic DEF Buffers
<1>7. a \in Seq(B) BY <1>6, BehindTyped DEF Buffers
<1>8. Wire(sent', first) = Wire(sent, first) \o b /\ Wire(sent', k) = Wire(sent, k) \o b
  BY <1>1, <1>3, WireSnoc
<1>9. Assoc(Seq(B)) BY Associative
<1> HIDE DEF B, a, b
<1>10. stream \o (pipe \o b) = (stream \o pipe) \o b /\ a \o (pipe \o b) = (a \o pipe) \o b
  BY <1>5, <1>6, <1>7, <1>9 DEF Assoc
<1>11. pipe' = pipe \o b /\ stream' = stream /\ consumed' = consumed /\ fault' = fault
  BY <1>1 DEF HostWrite, b
<1>12. FrontIs(first)' BY <1>2, <1>4, <1>8, <1>10, <1>11 DEF FrontIs
<1>13. RestIs(k)'
  <2>1. Behind(stream', consumed') = a BY <1>11 DEF a
  <2>2. a \o pipe = Wire(sent, k) BY <1>2 DEF RestIs, a
  <2> QED BY <1>4, <1>8, <1>10, <1>11, <2>1, <2>2 DEF RestIs
<1>14. Counted(k)'
  <2>1. times \in Seq(0 .. 2) /\ Len(times) = Len(sent) /\ times' = Append(times, 0)
    BY DEF Buffers, HostWrite
  <2>2. /\ \A i \in 1 .. Len(sent) : times'[i] = times[i]
        /\ times'[Len(sent) + 1] = 0
    BY <2>1, AppendProperties
  <2>3. DOMAIN sent = 1 .. Len(sent) /\ DOMAIN sent' = 1 .. Len(sent) + 1
    BY <1>3, LenProperties
  <2>4. \A i \in DOMAIN sent' : i \in DOMAIN sent \/ (i = Len(sent) + 1 /\ ~(i <= k))
    BY <1>3, <2>3
  <2>5. \A i \in DOMAIN sent' : i <= k => times'[i] >= 1
    BY <1>2, <2>2, <2>3, <2>4 DEF Counted
  <2>6. "refused" \notin fault' =>
          \A i \in DOMAIN sent' : times'[i] = IF i <= k THEN 1 ELSE 0
    BY <1>2, <1>11, <2>2, <2>3, <2>4 DEF Counted
  <2> QED BY <2>5, <2>6 DEF Counted
<1>15. \E i, j \in 0 .. Len(sent') : i <= j /\ FrontIs(i)' /\ RestIs(j)' /\ Counted(j)'
  BY <1>2, <1>4, <1>12, <1>13, <1>14
<1> QED BY <1>15 DEF Framed, FrontIs, RestIs, Rest, Behind

(* A read that drops nothing moves bytes from the pipe to the stream.      *)
LEMMA ReadSomeFramed ==
  ASSUME Buffers, Buffers', ReadSome, Framed, "dropped" \notin fault'
  PROVE  Framed'
<1> DEFINE B == ByteOf(sent)
<1>1. PICK n \in 1 .. Min({Len(pipe), MAX_PACKET}) :
        /\ stream' = stream \o SubSeq(pipe, 1, Clipped(n))
        /\ pipe' = Behind(pipe, n)
        /\ fault' = IF Clipped(n) < n THEN fault \cup {"dropped"} ELSE fault
  BY DEF ReadSome, Behind
<1>2. Len(pipe) \in Nat /\ n \in 1 .. Len(pipe) /\ Clipped(n) \in 0 .. n BY ReadTyped
<1>3. Clipped(n) = n /\ fault' = fault
  <2>1. ~(Clipped(n) < n) /\ fault' = fault BY <1>1
  <2> QED BY <1>2, <2>1
<1>4. stream' \o pipe' = stream \o pipe
  <2>1. stream \in Seq(B) /\ pipe \in Seq(B) BY DEF Buffers
  <2>2. (stream \o SubSeq(pipe, 1, n)) \o Behind(pipe, n) = stream \o pipe
    BY <1>2, <2>1, Cut
  <2> QED BY <1>1, <1>3, <2>2
<1>5. /\ consumed = 0 /\ consumed' = 0 /\ sent' = sent /\ times' = times
  BY DEF ReadSome, Buffers
<1>6. PICK first, k \in 0 .. Len(sent) :
        first <= k /\ FrontIs(first) /\ RestIs(k) /\ Counted(k)
  BY FramedIs
<1>7. Behind(stream, consumed) \o pipe = stream \o pipe BY <1>5, AtFront
<1>8. (Behind(stream, consumed) \o pipe)' = (stream \o pipe)'
  <2>1. stream' \in Seq(ByteOf(sent')) BY DEF Buffers
  <2>2. Behind(stream', 0) = stream' BY <2>1, BehindNone
  <2> QED BY <1>5, <2>2
<1>9. FrontIs(first)' BY <1>4, <1>5, <1>6 DEF FrontIs
<1>10. RestIs(k)' BY <1>4, <1>5, <1>6, <1>7, <1>8 DEF RestIs
<1>11. Counted(k)' BY <1>3, <1>5, <1>6 DEF Counted
<1>12. \E i, j \in 0 .. Len(sent') : i <= j /\ FrontIs(i)' /\ RestIs(j)' /\ Counted(j)'
  BY <1>5, <1>6, <1>9, <1>10, <1>11
<1> QED BY <1>12 DEF Framed, FrontIs, RestIs, Rest, Behind

(* consumed goes back to the front of the stream: the packets up to there  *)
(* were submitted, and a refusal is on record.                             *)
LEMMA BackToFront ==
  ASSUME Buffers, Framed, stream' = stream, pipe' = pipe, sent' = sent, consumed' = 0,
         "refused" \in fault',
         \A i \in DOMAIN sent : times[i] >= 1 => times'[i] >= 1
  PROVE  Framed'
<1>1. PICK first, k \in 0 .. Len(sent) :
        first <= k /\ FrontIs(first) /\ RestIs(k) /\ Counted(k)
  BY FramedIs
<1>2. Behind(stream, 0) = stream BY BehindNone DEF Buffers
<1>3. FrontIs(first)' BY <1>1 DEF FrontIs
<1>4. RestIs(first)' BY <1>1, <1>2 DEF FrontIs, RestIs
<1>5. Counted(first)'
  <2>1. Len(sent) \in Nat /\ DOMAIN sent = 1 .. Len(sent) BY LenProperties DEF Buffers
  <2>2. \A i \in DOMAIN sent : i <= first => i <= k BY <1>1, <2>1
  <2> QED BY <1>1, <2>2 DEF Counted
<1>6. first <= first BY <1>1
<1>7. \E i, j \in 0 .. Len(sent') : i <= j /\ FrontIs(i)' /\ RestIs(j)' /\ Counted(j)'
  BY <1>1, <1>3, <1>4, <1>5, <1>6
<1> QED BY <1>7 DEF Framed, FrontIs, RestIs, Rest, Behind

LEMMA FeedPacketFramed ==
  ASSUME Buffers, FeedPacket, Framed
  PROVE  Framed'
<1> DEFINE B == ByteOf(sent)
<1>1. HasHeader /\ Avail >= Total BY DEF FeedPacket, Complete, Accepted
<1>2. /\ Len(stream) \in Nat /\ At \in 1 .. Len(sent) /\ Total \in Nat
      /\ sent \in Seq(WirePackets) /\ stream \in Seq(B) /\ pipe \in Seq(B)
      /\ consumed \in 0 .. Len(stream)
  BY <1>1, AtTyped DEF Buffers
<1>3. stream' = stream /\ pipe' = pipe /\ sent' = sent BY DEF FeedPacket
<1>4. /\ DOMAIN sent = 1 .. Len(sent) /\ Len(sent) \in Nat
      /\ \A i \in DOMAIN sent : times[i] \in 0 .. 2
      /\ \A i \in DOMAIN sent : i # At => times'[i] = times[i]
      /\ times'[At] = IF times[At] < 2 THEN times[At] + 1 ELSE 2
  <2>1. /\ DOMAIN sent = 1 .. Len(sent) /\ DOMAIN times = 1 .. Len(sent)
        /\ Len(sent) \in Nat /\ times \in Seq(0 .. 2) /\ Len(times) = Len(sent)
    BY LenProperties DEF Buffers
  <2>2. \A i \in DOMAIN sent : times[i] \in 0 .. 2 BY <2>1, ElementOfSeq
  <2>3. times' = [times EXCEPT ![At] = IF times[At] < 2 THEN times[At] + 1 ELSE 2]
    BY DEF FeedPacket
  <2> HIDE DEF B
  <2> QED BY <1>2, <2>1, <2>2, <2>3
<1>5. \A i \in DOMAIN sent : times[i] >= 1 => times'[i] >= 1
  <2> TAKE i \in DOMAIN sent
  <2>1. CASE i = At BY <1>4, <2>1
  <2>2. CASE i # At BY <1>4, <2>2
  <2> QED BY <2>1, <2>2
<1>6. CASE consumed' = 0 /\ fault' = fault \cup {"refused"}
  BY <1>3, <1>5, <1>6, BackToFront
<1>7. CASE consumed' = consumed + Total /\ fault' = fault
  <2>1. PICK first, k \in 0 .. Len(sent) :
          first <= k /\ FrontIs(first) /\ RestIs(k) /\ Counted(k)
    BY FramedIs
  <2>2. /\ At = k + 1 /\ k + 1 \in 1 .. Len(sent)
        /\ Wire(sent, k) = Bytes(At, sent[At]) \o Wire(sent, k + 1)
    BY <1>1, <2>1, NextPacket
  <2> DEFINE a == Behind(stream, consumed)
  <2> DEFINE b == Bytes(At, sent[At])
  <2> DEFINE w == Wire(sent, k + 1)
  <2>3. a \in Seq(B) /\ Len(a) = Len(stream) - consumed BY <1>2, BehindTyped
  <2>4. b \in Seq(B) /\ Len(b) = Total BY <1>2, BytesTyped DEF Total
  <2>5. k + 1 \in 0 .. Len(sent) BY <1>4, <2>2
  <2>6. w \in Seq(B) BY <1>2, <2>5, WireTyped
  <2>7. a \o pipe = b \o w BY <2>1, <2>2 DEF RestIs
  <2> HIDE DEF a, b, w, B
  <2>8. Len(b) <= Len(a) BY <1>1, <2>3, <2>4 DEF Avail
  <2>9. Behind(a, Len(b)) \o pipe = w BY <1>2, <2>3, <2>4, <2>6, <2>7, <2>8, Peel
  <2>10. Behind(a, Len(b)) = Behind(stream, consumed + Total)
    <3>1. Total \in 0 .. Len(stream) - consumed BY <1>1, <1>2 DEF Avail
    <3> QED BY <1>2, <2>4, <3>1, BehindTwice DEF a
  <2>11. RestIs(k + 1)' BY <1>3, <1>7, <2>5, <2>9, <2>10 DEF RestIs, w
  <2>12. FrontIs(first)' BY <1>3, <2>1 DEF FrontIs
  <2>13. \A i \in DOMAIN sent : i <= k + 1 <=> i <= k \/ i = At BY <1>4, <2>2
  <2>14. times'[At] >= 1 /\ (times[At] = 0 => times'[At] = 1)
    BY <1>2, <1>4
  <2>15. At \in DOMAIN sent /\ ~(At <= k) BY <1>2, <1>4, <2>2
  <2>16. Counted(k + 1)'
    <3>1. \A i \in DOMAIN sent : i <= k + 1 => times'[i] >= 1
      BY <1>4, <2>1, <2>13, <2>14 DEF Counted
    <3>2. "refused" \notin fault =>
            \A i \in DOMAIN sent : times'[i] = IF i <= k + 1 THEN 1 ELSE 0
      BY <1>4, <2>1, <2>13, <2>14, <2>15 DEF Counted
    <3> QED BY <1>3, <1>7, <3>1, <3>2 DEF Counted
  <2>17. first <= k + 1 BY <2>1
  <2>18. \E i, j \in 0 .. Len(sent') : i <= j /\ FrontIs(i)' /\ RestIs(j)' /\ Counted(j)'
    BY <1>3, <2>1, <2>5, <2>11, <2>12, <2>16, <2>17
  <2> QED BY <2>18 DEF Framed, FrontIs, RestIs, Rest, Behind
<1>8. \/ consumed' = 0 /\ fault' = fault \cup {"refused"}
      \/ consumed' = consumed + Total /\ fault' = fault
  BY DEF FeedPacket
<1> QED BY <1>6, <1>7, <1>8

(* The tail moves to the front.                                            *)
LEMMA FeedDoneFramed ==
  ASSUME Buffers, Buffers', FeedDone, Framed
  PROVE  Framed'
<1>1. PICK first, k \in 0 .. Len(sent) :
        first <= k /\ FrontIs(first) /\ RestIs(k) /\ Counted(k)
  BY FramedIs
<1>2. /\ stream' = Behind(stream, consumed) /\ pipe' = pipe /\ sent' = sent
      /\ consumed' = 0 /\ times' = times /\ fault' = fault
  BY DEF FeedDone, Behind
<1>3. Behind(stream', 0) = stream'
  <2>1. stream' \in Seq(ByteOf(sent')) BY DEF Buffers
  <2> QED BY <2>1, BehindNone
<1>4. FrontIs(k)' BY <1>1, <1>2 DEF FrontIs, RestIs
<1>5. RestIs(k)' BY <1>1, <1>2, <1>3 DEF RestIs
<1>6. Counted(k)' BY <1>1, <1>2 DEF Counted
<1>7. k <= k BY <1>1
<1>8. \E i, j \in 0 .. Len(sent') : i <= j /\ FrontIs(i)' /\ RestIs(j)' /\ Counted(j)'
  BY <1>1, <1>2, <1>4, <1>5, <1>6, <1>7
<1> QED BY <1>8 DEF Framed, FrontIs, RestIs, Rest, Behind

(* Steps that leave the bytes and the counts alone.                        *)
LEMMA FrameFramed ==
  ASSUME Framed, UNCHANGED <<stream, pipe, consumed, sent, times>>,
         "refused" \in fault' <=> "refused" \in fault
  PROVE  Framed'
BY DEF Framed, Rest, Counted

LEMMA FramedKept ==
  ASSUME Buffers, Buffers', ChardevNext, "dropped" \notin fault => Framed,
         "dropped" \notin fault'
  PROVE  Framed'
<1>1. fault \subseteq fault'
  BY DEF ChardevNext, LoopStep, HostWrite, ReadNothing, ReadError, ReadEof, ReadSome, FeedPacket,
         FeedOversized, FeedDone, Desync, Retry, GiveUp, MasterFlush, MasterFlushFails,
         LoopTick, Ended, chardevVars, ptyVars
<1>2. Framed BY <1>1
<1>3. CASE FeedOversized BY <1>2, <1>3, BackToFront DEF FeedOversized
<1>4. CASE MasterFlushFails BY <1>2, <1>4, FrameFramed DEF MasterFlushFails
<1>5. CASE UNCHANGED <<stream, pipe, consumed, sent, times, fault>>
  BY <1>2, <1>5, FrameFramed
<1>6. \/ HostWrite \/ ReadSome \/ FeedPacket \/ FeedDone \/ FeedOversized
      \/ MasterFlushFails \/ UNCHANGED <<stream, pipe, consumed, sent, times, fault>>
  BY DEF ChardevNext, LoopStep, ReadNothing, ReadError, ReadEof, Desync, Retry, GiveUp,
         MasterFlush, LoopTick, Ended, chardevVars, ptyVars
<1> QED BY <1>2, <1>3, <1>4, <1>5, <1>6, HostWriteFramed, ReadSomeFramed,
       FeedPacketFramed, FeedDoneFramed

-----------------------------------------------------------------------------
LEMMA InitChardev == ChardevInit => ChardevInv
<1> SUFFICES ASSUME ChardevInit PROVE ChardevInv OBVIOUS
<1>1. EngineInv BY InitInv DEF ChardevInit
<1>2. /\ stream = << >> /\ pipe = << >> /\ sent = << >> /\ times = << >> /\ fault = {}
      /\ consumed = 0 /\ phase = "read" /\ errno = "OTHER"
  BY DEF ChardevInit
<1>3. /\ stream \in Seq(ByteOf(sent)) /\ pipe \in Seq(ByteOf(sent))
      /\ sent \in Seq(WirePackets) /\ times \in Seq(0 .. 2)
      /\ Len(stream) = 0 /\ Len(sent) = 0 /\ Len(times) = 0
  BY <1>2, EmptySeq
<1>4. Buffers
  BY <1>2, <1>3, WireAssumption DEF Buffers, Phases, Errnos, Faults
<1>5. Wire(sent, 0) = << >> BY <1>3, WireEnd
<1>6. << >> \o << >> = << >>
  <2>1. << >> \in Seq({}) BY EmptySeq
  <2> QED BY <2>1, ConcatEmptySeq
<1>7. FrontIs(0) BY <1>2, <1>3, <1>5, <1>6 DEF FrontIs
<1>8. RestIs(0) BY <1>2, <1>4, <1>7, AtFront DEF FrontIs, RestIs
<1>9. DOMAIN sent = {} BY <1>2
<1>10. Counted(0) BY <1>9 DEF Counted
<1>11. 0 \in 0 .. Len(sent) /\ 0 <= 0 BY <1>3
<1>12. Framed BY <1>7, <1>8, <1>10, <1>11, FramedIs
<1> QED BY <1>1, <1>4, <1>12 DEF ChardevInv

LEMMA NextChardev == ChardevInv /\ [ChardevNext]_chardevVars => ChardevInv'
<1> SUFFICES ASSUME ChardevInv, [ChardevNext]_chardevVars PROVE ChardevInv' OBVIOUS
<1>1. CASE ChardevNext
  <2>1. EngineInv' BY <1>1, EngineKept DEF ChardevInv
  <2>2. Buffers' BY <1>1, BuffersKept DEF ChardevInv
  <2> QED BY <1>1, <2>1, <2>2, FramedKept DEF ChardevInv
<1>2. CASE UNCHANGED chardevVars
  <2>1. UNCHANGED <<dev, outbound, pipe, stream, consumed, phase, errno, sent, times, fault>>
    BY <1>2 DEF chardevVars, ptyVars
  <2>2. EngineInv' BY <2>1 DEF EngineInv, ChardevInv
  <2>3. Buffers' BY <2>1 DEF Buffers, ChardevInv
  <2>4. "dropped" \notin fault' => Framed' BY <2>1, FrameFramed DEF ChardevInv
  <2> QED BY <2>2, <2>3, <2>4 DEF ChardevInv
<1> QED BY <1>1, <1>2

(* The buffers stay typed and the stream holds whole packets and a tail,   *)
(* whatever the reads return and whatever the engine refuses.              *)
THEOREM ChardevInvHolds == ChardevSpec => []ChardevInv
BY InitChardev, NextChardev, PTL DEF ChardevSpec

(* The stream never outgrows its allocation and consumed never passes its  *)
(* end (stream_feed_to_engine), and the engine's queues stay within theirs *)
(* although the transport, unlike the TCP loop, submits many packets       *)
(* between two flushes.                                                    *)
THEOREM ChardevTyped == ChardevSpec => []ChardevTypeOK
<1>1. ChardevInv => ChardevTypeOK
  BY DEF ChardevInv, Buffers, ChardevTypeOK, EngineInv, Sound, TypeOK
<1> QED BY <1>1, ChardevInvHolds, PTL

(* Packets are put together again however they were cut: stream and pipe   *)
(* hold exactly the bytes after the first k packets, and those k were      *)
(* submitted, in every state without a dropped byte, for packets of any    *)
(* length and any number of them.                                          *)
THEOREM FramesWhole == ChardevSpec => []FramingKept
<1>1. ChardevInv => FramingKept
  <2> SUFFICES ASSUME ChardevInv, "dropped" \notin fault PROVE FramingKept
    BY DEF FramingKept
  <2>1. PICK first, k \in 0 .. Len(sent) :
          first <= k /\ Rest = Wire(sent, k) /\ Counted(k)
    BY DEF ChardevInv, Framed
  <2>2. Rest = FlattenSeq([j \in 1 .. Len(sent) - k |-> Bytes(k + j, sent[k + j])])
    BY <2>1 DEF Wire, Parts
  <2> QED BY <2>1, <2>2 DEF FramingKept, Counted
<1> QED BY <1>1, ChardevInvHolds, PTL
=============================================================================
