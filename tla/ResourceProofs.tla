---------------------------- MODULE ResourceProofs ----------------------------
(***************************************************************************)
(* Proofs about what a session owns: its logical links keep distinct       *)
(* identifiers and a session that is not allocated owns nothing.           *)
(***************************************************************************)
EXTENDS SessionResources, EngineStepProofs, FoldProofs

-----------------------------------------------------------------------------
(* The identifiers of the logical links.                                   *)

NoneTwice(links) == \A i, j \in DOMAIN links : links[i] = links[j] => i = j

(* n links leave one of the n + 1 smallest identifiers free.               *)
LEMMA SomeIdFree ==
  ASSUME NEW links \in Seq(0 .. 255)
  PROVE  \E c \in 0 .. Len(links) : ~HasLink(links, c)
<1> DEFINE n == Len(links)
<1>1. n \in Nat /\ DOMAIN links = 1 .. n BY LenProperties
<1> SUFFICES ASSUME \A c \in 0 .. n : HasLink(links, c) PROVE FALSE OBVIOUS
<1> DEFINE At(c) == CHOOSE i \in 1 .. n : links[i] = c
<1>2. \A c \in 0 .. n : At(c) \in 1 .. n /\ links[At(c)] = c BY <1>1 DEF HasLink
<1> HIDE DEF At
<1> DEFINE f == [c \in 0 .. n |-> At(c)]
<1>3. f \in [0 .. n -> 1 .. n] /\ \A c \in 0 .. n : links[f[c]] = c BY <1>2
<1>4. /\ IsFiniteSet(0 .. n) /\ Cardinality(0 .. n) = n + 1
      /\ IsFiniteSet(1 .. n) /\ Cardinality(1 .. n) = n
  <2> HIDE DEF n
  <2>1. 0 \in Int /\ 1 \in Int /\ n \in Int /\ ~(0 > n) BY <1>1
  <2>2. IsFiniteSet(0 .. n) /\ Cardinality(0 .. n) = n - 0 + 1
    BY <2>1, FS_Interval
  <2>3. IsFiniteSet(1 .. n) /\ Cardinality(1 .. n) = IF 1 > n THEN 0 ELSE n - 1 + 1
    BY <2>1, FS_Interval
  <2> QED BY <1>1, <2>2, <2>3
<1>5. Cardinality(1 .. n) < Cardinality(0 .. n)
  <2> HIDE DEF n
  <2> QED BY <1>1, <1>4
<1> HIDE DEF f, n
<1>6. \E x, y \in 0 .. n : x # y /\ f[x] = f[y] BY <1>3, <1>4, <1>5, FS_PigeonHole
<1> QED BY <1>3, <1>6

(* uci_sim_session_allocate_logical_link: the identifier given is new.     *)
LEMMA AssignedIdFree ==
  ASSUME NEW links \in Seq(0 .. 255), NEW id \in LinkIds,
         LinkCreateStatus(links, id) = "OK"
  PROVE  AssignedId(links, id) \in 0 .. 255 /\ ~HasLink(links, AssignedId(links, id))
<1> DEFINE n == Len(links)
<1>1. n \in Nat /\ n < MAX_LOGICAL_LINKS /\ MAX_LOGICAL_LINKS \in 1 .. 254
  BY LenProperties, ResourceAssumption DEF LinkCreateStatus
<1>2. CASE id # AnyLink
  <2>1. AssignedId(links, id) = id BY <1>2 DEF AssignedId
  <2>2. id \in 0 .. 255 /\ ~HasLink(links, id)
    BY <1>2, ResourceAssumption DEF LinkCreateStatus
  <2> QED BY <2>1, <2>2
<1>3. CASE id = AnyLink
  <2> DEFINE S == {c \in 0 .. n : ~HasLink(links, c)}
  <2>1. S \subseteq Nat /\ S # {} BY <1>1, SomeIdFree
  <2>2. PICK c \in S : \A m \in S : c <= m
    <3> HIDE DEF S
    <3> QED BY <2>1, Least
  <2>3. \A b \in 0 .. c - 1 : HasLink(links, b)
    <3> HIDE DEF n
    <3> QED BY <1>1, <2>2
  <2>4. \E d \in 0 .. n : ~HasLink(links, d) /\ \A b \in 0 .. d - 1 : HasLink(links, b)
    BY <2>2, <2>3
  <2>5. AssignedId(links, id) \in 0 .. n /\ ~HasLink(links, AssignedId(links, id))
    BY <1>3, <2>4 DEF AssignedId
  <2> DEFINE x == AssignedId(links, id)
  <2> HIDE DEF n, x
  <2>6. \A y \in 0 .. n : y \in 0 .. 255 BY <1>1
  <2>7. x \in 0 .. n BY <2>5 DEF x
  <2>8. x \in 0 .. 255 BY <2>6, <2>7
  <2> QED BY <2>5, <2>8 DEF x
<1> QED BY <1>2, <1>3

(* Appending a new identifier.                                             *)
LEMMA AppendDistinct ==
  ASSUME NEW links \in Seq(0 .. 255), NoneTwice(links), NEW c \in 0 .. 255,
         ~HasLink(links, c)
  PROVE  /\ Append(links, c) \in Seq(0 .. 255) /\ NoneTwice(Append(links, c))
         /\ ToSet(Append(links, c)) = ToSet(links) \cup {c}
<1> DEFINE n == Len(links)
<1> DEFINE q == Append(links, c)
<1>1. n \in Nat /\ DOMAIN links = 1 .. n BY LenProperties
<1>2. /\ q \in Seq(0 .. 255) /\ Len(q) = n + 1 /\ q[n + 1] = c
      /\ \A i \in 1 .. n : q[i] = links[i]
  BY AppendProperties
<1> HIDE DEF q, n
<1>3. DOMAIN q = 1 .. n + 1 BY <1>2, LenProperties
<1>4. \A i \in DOMAIN q : i = n + 1 \/ i \in 1 .. n BY <1>1, <1>3
<1>5. \A i \in 1 .. n : q[i] # c BY <1>1, <1>2 DEF HasLink
<1>6. NoneTwice(q) BY <1>1, <1>2, <1>4, <1>5 DEF NoneTwice
<1>7. \A i \in 1 .. n : i \in 1 .. n + 1 BY <1>1
<1>8. n + 1 \in 1 .. n + 1 BY <1>1
<1>9. ToSet(q) = ToSet(links) \cup {c} BY <1>1, <1>2, <1>3, <1>4, <1>7, <1>8 DEF ToSet
<1> QED BY <1>2, <1>6, <1>9 DEF q

(* uci_sim_session_close_logical_link: the links behind move up.           *)
LEMMA RemoveDistinct ==
  ASSUME NEW links \in Seq(0 .. 255), NoneTwice(links), NEW id, HasLink(links, id)
  PROVE  /\ RemoveLink(links, id) \in Seq(0 .. 255) /\ NoneTwice(RemoveLink(links, id))
         /\ Len(RemoveLink(links, id)) <= Len(links)
         /\ ToSet(RemoveLink(links, id)) = ToSet(links) \ {id}
<1> DEFINE n == Len(links)
<1> DEFINE I == {i \in 1 .. n : links[i] = id}
<1>1. n \in Nat /\ DOMAIN links = 1 .. n BY LenProperties
<1>2. I \subseteq Nat /\ I # {} BY <1>1 DEF HasLink
<1> DEFINE k == Min(I)
<1>3. k \in I
  <2> HIDE DEF I
  <2>1. PICK m \in I : \A j \in I : m <= j BY <1>2, Least
  <2> QED BY <2>1 DEF Min
<1> DEFINE a == SubSeq(links, 1, k - 1)
<1> DEFINE b == SubSeq(links, k + 1, n)
<1> DEFINE q == a \o b
<1>4. RemoveLink(links, id) = q
  <2>1. \E i \in 1 .. Len(links) : links[i] = id BY <1>2
  <2>2. SelectInSeq(links, LAMBDA v : v = id) = k BY <1>2 DEF SelectInSeq
  <2> HIDE DEF k
  <2> QED BY <2>1, <2>2 DEF RemoveLink, RemoveFirst, RemoveAt
<1>5. k \in 1 .. n BY <1>3
<1> HIDE DEF I, k, n
<1>6. /\ a \in Seq(0 .. 255) /\ Len(a) = k - 1 /\ \A i \in 1 .. k - 1 : a[i] = links[i]
      /\ b \in Seq(0 .. 255) /\ Len(b) = n - k
      /\ \A i \in 1 .. n - k : b[i] = links[k + i]
  <2>1. \A i \in 1 .. n : links[i] \in 0 .. 255 BY <1>1, ElementOfSeq DEF n
  <2>2. /\ k \in Int /\ n \in Int /\ 1 \in Int /\ k - 1 \in Int /\ k + 1 \in Int
        /\ \A i \in 1 .. k - 1 : i \in 1 .. n
        /\ \A i \in k + 1 .. n : i \in 1 .. n
    BY <1>1, <1>5
  <2>3. /\ \A i \in 1 .. k - 1 : links[i] \in 0 .. 255
        /\ \A i \in k + 1 .. n : links[i] \in 0 .. 255
    BY <2>1, <2>2
  <2>4. /\ a \in Seq(0 .. 255) /\ Len(a) = IF 1 <= k - 1 THEN k - 1 - 1 + 1 ELSE 0
        /\ \A i \in 1 .. k - 1 - 1 + 1 : a[i] = links[1 + i - 1]
    BY <2>2, <2>3, SubSeqProperties
  <2>5. /\ b \in Seq(0 .. 255) /\ Len(b) = IF k + 1 <= n THEN n - (k + 1) + 1 ELSE 0
        /\ \A i \in 1 .. n - (k + 1) + 1 : b[i] = links[k + 1 + i - 1]
    BY <2>2, <2>3, SubSeqProperties
  <2> HIDE DEF a, b
  <2>6. k - 1 - 1 + 1 = k - 1 /\ n - (k + 1) + 1 = n - k BY <2>2
  <2>7. /\ \A i \in 1 .. k - 1 : 1 + i - 1 = i
        /\ \A i \in 1 .. n - k : k + 1 + i - 1 = k + i
    BY <2>2
  <2>8. Len(a) = k - 1 /\ Len(b) = n - k BY <1>1, <1>5, <2>4, <2>5
  <2> QED BY <2>4, <2>5, <2>6, <2>7, <2>8
<1> HIDE DEF a, b
<1>7. /\ q \in Seq(0 .. 255) /\ Len(q) = Len(a) + Len(b)
      /\ \A i \in 1 .. Len(a) + Len(b) : q[i] = IF i <= Len(a) THEN a[i] ELSE b[i - Len(a)]
  BY <1>6, ConcatProperties
<1> HIDE DEF q
<1>8. Len(q) = n - 1 /\ DOMAIN q = 1 .. n - 1
  <2>1. Len(q) = n - 1 BY <1>1, <1>5, <1>6, <1>7
  <2> QED BY <1>7, <2>1, LenProperties
<1> DEFINE Was(i) == IF i < k THEN i ELSE i + 1
<1>9. \A i \in 1 .. n - 1 : Was(i) \in 1 .. n /\ q[i] = links[Was(i)]
  <2> SUFFICES ASSUME NEW i \in 1 .. n - 1 PROVE Was(i) \in 1 .. n /\ q[i] = links[Was(i)]
    OBVIOUS
  <2>1. Was(i) \in 1 .. n BY <1>1, <1>5
  <2>2. q[i] = IF i <= k - 1 THEN a[i] ELSE b[i - (k - 1)]
    <3>1. i \in 1 .. Len(a) + Len(b) BY <1>1, <1>5, <1>6
    <3> QED BY <1>6, <1>7, <3>1
  <2>3. CASE i < k
    <3>1. i \in 1 .. k - 1 /\ i <= k - 1 BY <1>5, <2>3
    <3> QED BY <1>6, <2>1, <2>2, <2>3, <3>1
  <2>4. CASE ~(i < k)
    <3>1. i - (k - 1) \in 1 .. n - k /\ ~(i <= k - 1) /\ k + (i - (k - 1)) = i + 1
      BY <1>1, <1>5, <2>4
    <3> QED BY <1>6, <2>1, <2>2, <2>4, <3>1
  <2> QED BY <2>3, <2>4
<1>10. \A i, j \in 1 .. n - 1 : Was(i) = Was(j) => i = j BY <1>1, <1>5
<1> HIDE DEF Was
<1>11. NoneTwice(q) BY <1>1, <1>8, <1>9, <1>10 DEF NoneTwice
<1>12. Len(q) <= n BY <1>1, <1>8
<1>13. links[k] = id BY <1>3 DEF I
<1>14. ToSet(q) = ToSet(links) \ {id}
  <2>1. \A i \in 1 .. n - 1 : Was(i) # k BY <1>1, <1>5 DEF Was
  <2>2. \A j \in 1 .. n : j # k => \E i \in 1 .. n - 1 : Was(i) = j
    <3> SUFFICES ASSUME NEW j \in 1 .. n, j # k PROVE \E i \in 1 .. n - 1 : Was(i) = j
      OBVIOUS
    <3>1. CASE j < k
      <4>1. j \in 1 .. n - 1 /\ Was(j) = j BY <1>1, <1>5, <3>1 DEF Was
      <4> QED BY <4>1
    <3>2. CASE ~(j < k)
      <4>1. j - 1 \in 1 .. n - 1 /\ Was(j - 1) = j BY <1>1, <1>5, <3>2 DEF Was
      <4> QED BY <4>1
    <3> QED BY <3>1, <3>2
  <2>3. ASSUME NEW c \in ToSet(q) PROVE c \in ToSet(links) /\ c # id
    <3>1. PICK i \in 1 .. n - 1 : c = q[i] BY <1>8, <2>3 DEF ToSet
    <3>2. Was(i) \in 1 .. n /\ Was(i) # k /\ c = links[Was(i)] BY <1>9, <2>1, <3>1
    <3> QED BY <1>1, <1>5, <1>13, <3>2 DEF ToSet, NoneTwice
  <2>4. ASSUME NEW c \in ToSet(links), c # id PROVE c \in ToSet(q)
    <3>1. PICK j \in 1 .. n : c = links[j] BY <1>1, <2>4 DEF ToSet
    <3>2. PICK i \in 1 .. n - 1 : Was(i) = j BY <1>13, <2>2, <2>4, <3>1
    <3>3. q[i] = c BY <1>9, <3>1, <3>2
    <3> QED BY <1>8, <3>2, <3>3 DEF ToSet
  <2> QED BY <2>3, <2>4
<1> QED BY <1>4, <1>7, <1>11, <1>12, <1>14 DEF n

-----------------------------------------------------------------------------
(* The sessions that are allocated after an engine call.                   *)

(* A served event neither creates nor releases a session.                  *)
LEMMA TickAllocated ==
  ASSUME NEW d, NEW r, NEW ms, TickLaw(d, r, ms)
  PROVE  Allocated(r) = Allocated(d)
<1>1. \A s \in Sid : View(d)[s] = d.sessions[s].state /\ View(r)[s] = r.sessions[s].state
  BY DEF View
<1>2. CASE View(r) = View(d) BY <1>1, <1>2 DEF Allocated
<1>3. CASE Lifecycle!Stop(View(d), View(r))
  <2>1. PICK t \in Sid : /\ View(d)[t] = "ACTIVE"
                         /\ View(r) = [View(d) EXCEPT ![t] = "IDLE"]
    BY <1>3 DEF Lifecycle!Stop, Lifecycle!Moves
  <2>2. \A s \in Sid : View(r)[s] = IF s = t THEN "IDLE" ELSE View(d)[s]
    BY <2>1 DEF View
  <2> QED BY <1>1, <2>1, <2>2 DEF Allocated
<1> QED BY <1>2, <1>3 DEF TickLaw, Lifecycle!BudgetEnd

(* uci_sim_engine_submit_packet, on each of its return paths.              *)
LEMMA EngineSubmitAllocated ==
  ASSUME NEW res, ResultOK(res), NEW out, QueueOK(out), NEW hit \in BOOLEAN
  PROVE  Allocated(EngineSubmit(res, out, hit).dev) = Allocated(res.dev)
<1> DEFINE out1 == out \o res.rsp
<1> DEFINE out2 == out1 \o res.ntf
<1> DEFINE f == FlushDeviceNotifications(res.dev, out2)
<1>1. Sound(res.dev) /\ res.rsp \in OptPacket /\ res.ntf \in OptPacket
  BY DEF ResultOK, ResultTyped, ResultType
<1>2. Allocated(Lose(res.dev)) = Allocated(res.dev)
  BY <1>1 DEF Lose, Sound, DeviceOK, DeviceState, Allocated
<1>3. CASE res.rc # 0 /\ res.rsp = << >> /\ res.ntf = << >>
  BY <1>3 DEF EngineSubmit, Engine
<1>4. CASE /\ ~(res.rc # 0 /\ res.rsp = << >> /\ res.ntf = << >>)
           /\ res.rsp # << >> /\ ~HasRoom(out)
  BY <1>2, <1>4 DEF EngineSubmit, Engine
<1>5. CASE /\ ~(res.rc # 0 /\ res.rsp = << >> /\ res.ntf = << >>)
           /\ ~(res.rsp # << >> /\ ~HasRoom(out))
  <2>1. QueueOK(out1) BY <1>1, <1>5, OptPacketAppend
  <2>2. CASE res.ntf # << >> /\ ~HasRoom(out1)
    BY <1>2, <1>5, <2>2 DEF EngineSubmit, Engine
  <2>3. CASE ~(res.ntf # << >> /\ ~HasRoom(out1))
    <3>1. QueueOK(out2)
      <4> HIDE DEF out1
      <4> QED BY <1>1, <2>1, <2>3, OptPacketAppend
    <3>2. EngineOK(f) /\ f.dev.sessions = res.dev.sessions
      <4> HIDE DEF out2
      <4> QED BY <1>1, <3>1, FlushOK
    <3>3. EngineSubmit(res, out, hit) = EngineTick(f.dev, f.out, 0, hit)
      BY <1>5, <2>3 DEF EngineSubmit
    <3> HIDE DEF f
    <3>4. TickLaw(f.dev, EngineTick(f.dev, f.out, 0, hit).dev, 0)
      BY <3>2, EngineTickLaw DEF EngineOK
    <3>5. Allocated(f.dev) = Allocated(res.dev) BY <3>2 DEF Allocated
    <3> QED BY <3>3, <3>4, <3>5, TickAllocated
  <2> QED BY <2>2, <2>3
<1> QED BY <1>3, <1>4, <1>5

(* Submitting a command.                                                   *)
LEMMA SubmitCommandAllocated ==
  ASSUME EngineInv, NEW res, CommandOK(res), SubmitCommand(res)
  PROVE  EngineInv' /\ Allocated(dev') = Allocated(res.dev)
<1>1. EngineInv' BY SubmitCommandInv
<1>2. PICK hit \in BOOLEAN :
        Apply(EngineSubmit(CommandResult(dev, res), outbound, hit))
  BY DEF SubmitCommand
<1> DEFINE r == CommandResult(dev, res)
<1>3. ResultOK(r) BY CommandResultOK DEF CommandOK
<1>4. SameTable(res.dev, r.dev) BY CommandResultTable
<1> HIDE DEF r
<1>5. Allocated(EngineSubmit(r, outbound, hit).dev) = Allocated(r.dev)
  BY <1>3, EngineSubmitAllocated DEF EngineInv
<1>6. dev' = EngineSubmit(r, outbound, hit).dev BY <1>2 DEF Apply, r
<1>7. Allocated(r.dev) = Allocated(res.dev) BY <1>4 DEF SameTable, Allocated
<1> QED BY <1>1, <1>5, <1>6, <1>7

(* Submitting a data message.                                              *)
LEMMA SubmitDataAllocated ==
  ASSUME EngineInv, NEW res, ResultOK(res), SubmitData(res)
  PROVE  Allocated(dev') = Allocated(res.dev)
<1>1. PICK hit \in BOOLEAN :
        Apply(EngineSubmit(DataResult(dev, res), outbound, hit))
  BY DEF SubmitData
<1> DEFINE r == DataResult(dev, res)
<1>2. ResultOK(r) /\ SameTable(res.dev, r.dev)
  BY FinalizeResultOK, FinalizeResultTable DEF DataResult
<1> HIDE DEF r
<1>3. Allocated(EngineSubmit(r, outbound, hit).dev) = Allocated(r.dev)
  BY <1>2, EngineSubmitAllocated DEF EngineInv
<1>4. dev' = EngineSubmit(r, outbound, hit).dev BY <1>1 DEF Apply, r
<1>5. Allocated(r.dev) = Allocated(res.dev) BY <1>2 DEF SameTable, Allocated
<1> QED BY <1>3, <1>4, <1>5

(* A packet that is neither a reset nor the end of a session releases no   *)
(* session.                                                                *)
LEMMA HostPacketGrows ==
  ASSUME EngineInv, HostPacket
  PROVE  Grows(dev, dev')
<1>1. Sound(dev) /\ DeviceOK(dev) BY DEF EngineInv, Sound
<1>2. ASSUME NEW s \in Sid, SessionStart(s) PROVE Grows(dev, dev')
  <2>1. PICK verdict \in StartVerdicts : SubmitCommand(HandleSessionStart(dev, s, verdict))
    BY <1>2 DEF SessionStart
  <2>2. verdict \in Verdicts BY InputAssumption
  <2> QED BY <1>1, <2>1, <2>2, SessionStartOK, SessionStartLaw, SubmitCommandAllocated DEF Grows
<1>3. ASSUME NEW s \in Sid, SessionStop(s) PROVE Grows(dev, dev')
  BY <1>1, <1>3, SessionStopOK, SessionStopLaw, SubmitCommandAllocated DEF SessionStop, Grows
<1>4. ASSUME NEW s \in Sid, Query(s) PROVE Grows(dev, dev')
  <2>1. Grows(dev, HandleQuery(dev, s).dev) BY <1>1, RejectLaw DEF HandleQuery
  <2> QED BY <1>1, <1>4, <2>1, QueryOK, SubmitCommandAllocated DEF Query, Grows
<1>5. ASSUME NEW s \in Sid, NEW t \in Tlvs, NEW bad \in BOOLEAN, SetAppConfig(s, t, bad)
      PROVE  Grows(dev, dev')
  BY <1>1, <1>5, SetAppConfigOK, SetAppConfigLaw, SubmitCommandAllocated DEF SetAppConfig, Grows
<1>6. ASSUME NEW code \in RefusalCodes, RefusedCommand(code) PROVE Grows(dev, dev')
  <2>1. code \in Codes BY InputAssumption
  <2>2. CommandOK(HandleRefused(dev, code)) BY <1>1, <2>1, RefuseOK DEF HandleRefused
  <2>3. Grows(dev, HandleRefused(dev, code).dev) BY <1>1, RejectLaw DEF HandleRefused
  <2> QED BY <1>6, <2>2, <2>3, SubmitCommandAllocated DEF RefusedCommand, Grows
<1>7. ASSUME NEW s \in Sid, NEW m \in Msg, DataMessageSend(s, m) PROVE Grows(dev, dev')
  BY <1>1, <1>7, DataMessageSendOK, DataMessageSendLaw, SubmitDataAllocated
     DEF DataMessageSend, Grows
<1>8. ASSUME NEW s \in Sid, NEW m \in BadMsg, BadDataLength(s, m) PROVE Grows(dev, dev')
  <2>1. ResultOK(HandleBadDataLength(dev, s, m))
    BY <1>1, RefuseDataOK DEF BadMsg, HandleBadDataLength, Codes
  <2>2. HandleBadDataLength(dev, s, m).dev = dev
    BY DEF HandleBadDataLength, RefuseData, Result
  <2> QED BY <1>8, <2>1, <2>2, SubmitDataAllocated DEF BadDataLength, Grows
<1>9. CASE MalformedData
  <2>1. << >> \in OptPacket BY DEF OptPacket
  <2>2. ResultOK(HandleMalformedData(dev))
    BY <1>1, <2>1, DataResultTyped DEF HandleMalformedData
  <2>3. HandleMalformedData(dev).dev = dev BY DEF HandleMalformedData, Result
  <2> QED BY <1>9, <2>2, <2>3, SubmitDataAllocated DEF MalformedData, Grows
<1> QED BY <1>2, <1>3, <1>4, <1>5, <1>6, <1>7, <1>8, <1>9, CommandAssumption DEF HostPacket

-----------------------------------------------------------------------------
(* The multicast list.                                                     *)

Answer == [controlee : Controlees, status : EntryStatuses]
Listings == [list : SUBSET Controlees, entries : Seq(Answer)]

LEMMA UpdateEntryTyped ==
  ASSUME NEW a \in MulticastActions, NEW acc \in Listings, NEW c \in Controlees
  PROVE  UpdateEntry(a, acc, c) \in Listings
<1> DEFINE st == EntryStatus(acc.list, a, c)
<1>1. st \in EntryStatuses BY DEF EntryStatus, EntryStatuses
<1> HIDE DEF st
<1> DEFINE l == IF st # "OK" THEN acc.list
                ELSE IF a = "REMOVE" THEN acc.list \ {c} ELSE acc.list \cup {c}
<1> DEFINE x == [controlee |-> c, status |-> st]
<1>2. l \in SUBSET Controlees BY DEF Listings
<1>3. x \in Answer BY <1>1 DEF Answer
<1>4. UpdateEntry(a, acc, c) = [list |-> l, entries |-> Append(acc.entries, x)]
  BY DEF UpdateEntry, Listing, st
<1> HIDE DEF l, x
<1>5. Append(acc.entries, x) \in Seq(Answer) BY <1>3, AppendProperties DEF Listings
<1> QED BY <1>2, <1>4, <1>5 DEF Listings

(* An update is the chain of its entries' updates.                         *)
LEMMA UpdateListChain ==
  ASSUME NEW list \in SUBSET Controlees, NEW a \in MulticastActions,
         NEW entries \in Seq(Controlees)
  PROVE  \E h : /\ h[0] = Listing(list, << >>)
                /\ \A k \in 1 .. Len(entries) :
                     h[k] = UpdateEntry(a, h[k - 1], entries[k])
                /\ UpdateList(list, a, entries) = h[Len(entries)]
<1> DEFINE n == Len(entries)
<1> DEFINE base == Listing(list, << >>)
<1> DEFINE D == SUBSET (1 .. n)
<1> DEFINE F == [x \in Listings \X Controlees |-> UpdateEntry(a, x[1], x[2])]
<1> DEFINE Eq(g) == g = [s \in D |-> IF s = {} THEN base
                           ELSE UpdateEntry(a, g[s \ {Max(s)}], entries[Max(s)])]
<1> DEFINE It == CHOOSE g : Eq(g)
<1>1. n \in Nat /\ DOMAIN entries = 1 .. n /\ \A k \in 1 .. n : entries[k] \in Controlees
  BY LenProperties, ElementOfSeq
<1>2. base \in Listings BY EmptySeq DEF Listings, Listing
<1>3. F \in [Listings \X Controlees -> Listings] BY UpdateEntryTyped
<1>4. PICK g : Folding(g, Listings, F, base, entries)
  <2> HIDE DEF F, base
  <2> QED BY <1>2, <1>3, FoldExists
<1>5. \A s \in D : s # {} =>
        F[<<g[s \ {Max(s)}], entries[Max(s)]>>]
          = UpdateEntry(a, g[s \ {Max(s)}], entries[Max(s)])
  <2> SUFFICES ASSUME NEW s \in D, s # {}
               PROVE  F[<<g[s \ {Max(s)}], entries[Max(s)]>>]
                        = UpdateEntry(a, g[s \ {Max(s)}], entries[Max(s)])
    OBVIOUS
  <2>1. Max(s) \in s
    <3> HIDE DEF n
    <3> QED BY <1>1, MaxOf
  <2>2. entries[Max(s)] \in Controlees BY <1>1, <2>1
  <2>3. g[s \ {Max(s)}] \in Listings BY <1>4 DEF Folding
  <2> QED BY <2>2, <2>3
<1>6. Eq(g)
  <2>1. /\ g \in [D -> Listings]
        /\ \A s \in D : g[s] = IF s = {} THEN base
                               ELSE F[<<g[s \ {Max(s)}], entries[Max(s)]>>]
    BY <1>4 DEF Folding
  <2> HIDE DEF F, n, base
  <2> QED BY <1>5, <2>1
<1>7. Eq(It)
  <2> HIDE DEF Eq
  <2> QED BY <1>6
<1>8. UpdateList(list, a, entries) = It[1 .. n]
  BY <1>1 DEF UpdateList, FoldLeft, MapThenFoldSet
<1> HIDE DEF It, F, n, base
<1> DEFINE h == [k \in 0 .. n |-> It[1 .. k]]
<1>9. h[0] = base
  <2>1. 1 .. 0 = {} /\ {} \in D /\ 0 \in 0 .. n BY <1>1
  <2> QED BY <1>7, <2>1
<1>10. ASSUME NEW k \in 1 .. n PROVE h[k] = UpdateEntry(a, h[k - 1], entries[k])
  <2>1. 1 .. k \in D /\ 1 .. k # {} /\ (1 .. k) \ {k} = 1 .. k - 1
    BY <1>1, PrefixIntervals
  <2>2. Max(1 .. k) = k BY <1>1, MaxInterval
  <2>3. It[1 .. k] = UpdateEntry(a, It[1 .. k - 1], entries[k])
    BY <1>7, <2>1, <2>2
  <2>4. k \in 0 .. n /\ k - 1 \in 0 .. n BY <1>1
  <2> QED BY <2>3, <2>4
<1>11. h[n] = It[1 .. n] BY <1>1
<1> HIDE DEF h
<1> QED BY <1>8, <1>9, <1>10, <1>11 DEF n, base

Within(list) == IsFiniteSet(list) /\ Cardinality(list) <= MAX_MULTICAST_ENTRIES
Reply(list, a, c) == [controlee |-> c, status |-> EntryStatus(list, a, c)]
Applied(list, a, e) ==
  IF e.status # "OK" THEN list
  ELSE IF a = "ADD" THEN list \cup {e.controlee} ELSE list \ {e.controlee}

(* One entry: what is reported is what was done, and the list never has    *)
(* more entries than the array.                                            *)
LEMMA UpdateEntryLaw ==
  ASSUME NEW a \in MulticastActions, NEW acc \in Listings, NEW c \in Controlees,
         Within(acc.list)
  PROVE  LET u == UpdateEntry(a, acc, c)
         IN  /\ Within(u.list)
             /\ u.entries = Append(acc.entries, Reply(acc.list, a, c))
             /\ u.list = Applied(acc.list, a, Reply(acc.list, a, c))
<1> DEFINE l == acc.list
<1> DEFINE x == Reply(l, a, c)
<1> DEFINE u == UpdateEntry(a, acc, c)
<1>1. u.entries = Append(acc.entries, x) BY DEF UpdateEntry, Listing, Reply
<1>2. u.list = Applied(l, a, x)
  BY DEF UpdateEntry, Listing, Reply, Applied, MulticastActions
<1>3. Within(Applied(l, a, x))
  <2>1. IsFiniteSet(l) /\ Cardinality(l) \in Nat /\ MAX_MULTICAST_ENTRIES \in Nat
        /\ Cardinality(l) <= MAX_MULTICAST_ENTRIES
    BY FS_CardinalityType, ResourceAssumption DEF Within
  <2>2. CASE x.status # "OK" BY <2>2 DEF Applied
  <2>3. CASE x.status = "OK" /\ a = "ADD"
    <3>1. c \notin l /\ ~(Cardinality(l) >= MAX_MULTICAST_ENTRIES)
      BY <2>3 DEF Reply, EntryStatus
    <3>2. IsFiniteSet(l \cup {c}) /\ Cardinality(l \cup {c}) = Cardinality(l) + 1
      BY <2>1, <3>1, FS_AddElement
    <3>3. Within(l \cup {c}) BY <2>1, <3>1, <3>2 DEF Within
    <3> QED BY <2>3, <3>3 DEF Applied, Reply
  <2>4. CASE x.status = "OK" /\ a # "ADD"
    <3>1. IsFiniteSet(l \ {c}) BY <2>1, FS_RemoveElement
    <3>2. Cardinality(l \ {c}) <= Cardinality(l) /\ Cardinality(l \ {c}) \in Nat
      BY <2>1, <3>1, FS_Subset, FS_CardinalityType
    <3>3. Within(l \ {c}) BY <2>1, <3>1, <3>2 DEF Within
    <3> QED BY <2>4, <3>3 DEF Applied, Reply
  <2> QED BY <2>2, <2>3, <2>4
<1> QED BY <1>1, <1>2, <1>3

(* The host's replay of an answer is a chain as well.                      *)
Replaying(h, list, a, entries, s) ==
  /\ h[0] = list
  /\ \A k \in 1 .. Len(entries) : h[k] = Applied(h[k - 1], a, entries[k])
  /\ Replay(list, [sid |-> s, action |-> a, entries |-> entries]) = h[Len(entries)]
LEMMA ReplayChain ==
  ASSUME NEW list \in SUBSET Controlees, NEW a, NEW entries \in Seq(Answer), NEW s
  PROVE  \E h : Replaying(h, list, a, entries, s)
<1> DEFINE n == Len(entries)
<1> DEFINE D == SUBSET (1 .. n)
<1> DEFINE A == SUBSET Controlees
<1> DEFINE F == [x \in A \X Answer |-> Applied(x[1], a, x[2])]
<1> DEFINE Eq(g) == g = [q \in D |-> IF q = {} THEN list
                           ELSE Applied(g[q \ {Max(q)}], a, entries[Max(q)])]
<1> DEFINE It == CHOOSE g : Eq(g)
<1>1. n \in Nat /\ DOMAIN entries = 1 .. n /\ \A k \in 1 .. n : entries[k] \in Answer
  BY LenProperties, ElementOfSeq
<1>3. F \in [A \X Answer -> A] BY DEF Applied, Answer
<1>4. PICK g : Folding(g, A, F, list, entries)
  <2>1. list \in A OBVIOUS
  <2> HIDE DEF F, A
  <2> QED BY <1>3, <2>1, FoldExists
<1>5. \A q \in D : q # {} =>
        F[<<g[q \ {Max(q)}], entries[Max(q)]>>]
          = Applied(g[q \ {Max(q)}], a, entries[Max(q)])
  <2> SUFFICES ASSUME NEW q \in D, q # {}
               PROVE  F[<<g[q \ {Max(q)}], entries[Max(q)]>>]
                        = Applied(g[q \ {Max(q)}], a, entries[Max(q)])
    OBVIOUS
  <2>1. Max(q) \in q
    <3> HIDE DEF n
    <3> QED BY <1>1, MaxOf
  <2>2. entries[Max(q)] \in Answer BY <1>1, <2>1
  <2>3. g[q \ {Max(q)}] \in A
    <3> HIDE DEF A
    <3> QED BY <1>4 DEF Folding
  <2> HIDE DEF A
  <2> QED BY <2>2, <2>3
<1>6. Eq(g)
  <2>1. /\ g \in [D -> A]
        /\ \A q \in D : g[q] = IF q = {} THEN list
                               ELSE F[<<g[q \ {Max(q)}], entries[Max(q)]>>]
    <3> HIDE DEF A, F
    <3> QED BY <1>4 DEF Folding
  <2> HIDE DEF F, n, A
  <2> QED BY <1>5, <2>1
<1>7. Eq(It)
  <2> HIDE DEF Eq
  <2> QED BY <1>6
<1>8. Replay(list, [sid |-> s, action |-> a, entries |-> entries]) = It[1 .. n]
  BY <1>1 DEF Replay, FoldLeft, MapThenFoldSet, Applied
<1> HIDE DEF It, F, n, A
<1> DEFINE h == [k \in 0 .. n |-> It[1 .. k]]
<1>9. h[0] = list
  <2>1. 1 .. 0 = {} /\ {} \in D /\ 0 \in 0 .. n BY <1>1
  <2> QED BY <1>7, <2>1
<1>10. ASSUME NEW k \in 1 .. n PROVE h[k] = Applied(h[k - 1], a, entries[k])
  <2>1. 1 .. k \in D /\ 1 .. k # {} /\ (1 .. k) \ {k} = 1 .. k - 1
    BY <1>1, PrefixIntervals
  <2>2. Max(1 .. k) = k BY <1>1, MaxInterval
  <2>3. It[1 .. k] = Applied(It[1 .. k - 1], a, entries[k])
    BY <1>7, <2>1, <2>2
  <2>4. k \in 0 .. n /\ k - 1 \in 0 .. n BY <1>1
  <2> QED BY <2>3, <2>4
<1>11. h[n] = It[1 .. n] BY <1>1
<1> HIDE DEF h
<1>12. Replaying(h, list, a, entries, s)
  BY <1>8, <1>9, <1>10, <1>11 DEF n, Replaying
<1> QED BY <1>12

(* A whole update: as many answers as entries, the capacity kept, and the  *)
(* answers tell the host the list that results.                            *)
LEMMA UpdateListLaw ==
  ASSUME NEW list \in SUBSET Controlees, NEW a \in MulticastActions,
         NEW entries \in Seq(Controlees), Within(list), NEW s
  PROVE  LET u == UpdateList(list, a, entries)
         IN  /\ u \in Listings /\ Within(u.list) /\ Len(u.entries) = Len(entries)
             /\ Replay(list, [sid |-> s, action |-> a, entries |-> u.entries]) = u.list
<1> DEFINE n == Len(entries)
<1> DEFINE u == UpdateList(list, a, entries)
<1>1. n \in Nat /\ \A k \in 1 .. n : entries[k] \in Controlees
  BY LenProperties, ElementOfSeq
<1>2. PICK h : /\ h[0] = Listing(list, << >>)
               /\ \A k \in 1 .. n : h[k] = UpdateEntry(a, h[k - 1], entries[k])
               /\ u = h[n]
  <2> HIDE DEF u
  <2> QED BY UpdateListChain DEF u
<1> HIDE DEF n, u
<1> DEFINE X(i) == Reply(h[i - 1].list, a, entries[i])
<1> DEFINE Good(k) ==
      /\ h[k] \in Listings /\ Within(h[k].list) /\ Len(h[k].entries) = k
      /\ \A i \in 1 .. k : h[k].entries[i] = X(i)
      /\ k > 0 => h[k].list = Applied(h[k - 1].list, a, X(k))
<1> DEFINE S == {k \in 0 .. n : Good(k)}
<1>3. 0 \in S
  <2>1. h[0] \in Listings /\ h[0].list = list /\ h[0].entries = << >>
    BY <1>2, EmptySeq DEF Listings, Listing
  <2>2. Len(<< >>) = 0 /\ \A i \in 1 .. 0 : FALSE BY EmptySeq
  <2> QED BY <1>1, <2>1, <2>2
<1>4. ASSUME NEW k \in 1 .. n, k - 1 \in S PROVE k \in S
  <2> DEFINE p == h[k - 1]
  <2> DEFINE q == h[k]
  <2>1. /\ p \in Listings /\ Within(p.list) /\ Len(p.entries) = k - 1
        /\ \A i \in 1 .. k - 1 : p.entries[i] = X(i)
    BY <1>4
  <2>2. q = UpdateEntry(a, p, entries[k]) /\ entries[k] \in Controlees BY <1>1, <1>2
  <2>3. X(k) = Reply(p.list, a, entries[k]) OBVIOUS
  <2> HIDE DEF p, q, X
  <2>4. q \in Listings BY <2>1, <2>2, UpdateEntryTyped
  <2>5. /\ Within(q.list) /\ q.entries = Append(p.entries, X(k))
        /\ q.list = Applied(p.list, a, X(k))
    BY <2>1, <2>2, <2>3, UpdateEntryLaw
  <2>6. p.entries \in Seq(Answer) /\ q.entries \in Seq(Answer) BY <2>1, <2>4 DEF Listings
  <2>7. X(k) \in Answer
    BY <2>2, <2>3 DEF Reply, Answer, EntryStatus, EntryStatuses
  <2>8. /\ Len(q.entries) = Len(p.entries) + 1
        /\ \A i \in 1 .. Len(p.entries) : q.entries[i] = p.entries[i]
        /\ q.entries[Len(p.entries) + 1] = X(k)
    <3> DEFINE e == p.entries
    <3> HIDE DEF e
    <3>1. e \in Seq(Answer) BY <2>6 DEF e
    <3>2. /\ Len(Append(e, X(k))) = Len(e) + 1
          /\ \A i \in 1 .. Len(e) : Append(e, X(k))[i] = e[i]
          /\ Append(e, X(k))[Len(e) + 1] = X(k)
      BY <2>7, <3>1, AppendProperties
    <3> QED BY <2>5, <3>2 DEF e
  <2>9. Len(q.entries) = k /\ q.entries[k] = X(k)
        /\ \A i \in 1 .. k - 1 : q.entries[i] = X(i)
    BY <1>1, <2>1, <2>8
  <2>10. \A i \in 1 .. k : q.entries[i] = X(i)
    <3>1. \A i \in 1 .. k : i = k \/ i \in 1 .. k - 1 BY <1>1
    <3> QED BY <2>9, <3>1
  <2>11. k \in 0 .. n BY <1>1
  <2> QED BY <2>4, <2>5, <2>9, <2>10, <2>11 DEF p, q
<1>5. \A k \in 0 .. n : k \in S
  <2> HIDE DEF S
  <2> QED BY <1>1, <1>3, <1>4, Climb
<1>6. \A k \in 0 .. n : Good(k)
  <2> HIDE DEF Good
  <2> QED BY <1>5
<1>7. /\ u \in Listings /\ Within(u.list) /\ Len(u.entries) = n
      /\ \A i \in 1 .. n : u.entries[i] = X(i)
  BY <1>1, <1>2, <1>6
<1>8. u.entries \in Seq(Answer) BY <1>7 DEF Listings
<1> DEFINE R == Replay(list, [sid |-> s, action |-> a, entries |-> u.entries])
<1>9. PICK r : /\ r[0] = list
               /\ \A k \in 1 .. n : r[k] = Applied(r[k - 1], a, u.entries[k])
               /\ R = r[n]
  <2> DEFINE E == u.entries
  <2>1. E \in Seq(Answer) /\ Len(E) = n BY <1>7, <1>8
  <2> HIDE DEF E
  <2>2. PICK r : Replaying(r, list, a, E, s) BY <2>1, ReplayChain
  <2>3. /\ r[0] = list
        /\ \A k \in 1 .. n : r[k] = Applied(r[k - 1], a, u.entries[k])
        /\ R = r[n]
    BY <2>1, <2>2 DEF E, Replaying
  <2> HIDE DEF R
  <2> QED BY <2>3
<1> HIDE DEF R
<1> DEFINE T == {k \in 0 .. n : r[k] = h[k].list}
<1>10. 0 \in T BY <1>1, <1>2, <1>9 DEF Listing
<1>11. ASSUME NEW k \in 1 .. n, k - 1 \in T PROVE k \in T
  <2>1. r[k] = Applied(h[k - 1].list, a, u.entries[k]) BY <1>9, <1>11
  <2>2. u.entries[k] = X(k) BY <1>7
  <2>3. k \in 0 .. n /\ k > 0 BY <1>1
  <2>4. h[k].list = Applied(h[k - 1].list, a, X(k)) BY <1>6, <2>3
  <2> HIDE DEF X
  <2> QED BY <2>1, <2>2, <2>3, <2>4
<1>12. \A k \in 0 .. n : k \in T
  <2> HIDE DEF T
  <2> QED BY <1>1, <1>10, <1>11, Climb
<1>13. R = u.list BY <1>1, <1>2, <1>9, <1>12
<1> QED BY <1>7, <1>13 DEF n, u, R

-----------------------------------------------------------------------------
(* The invariant of the resources.                                         *)

Answers == [sid : Sid \cup {NoSid}, action : MulticastActions, entries : Seq(Answer)]

(* What one session owns, within the capacity of its arrays.               *)
Owned(r) ==
  /\ r \in Resources
  /\ NoneTwice(r.links) /\ Len(r.links) <= MAX_LOGICAL_LINKS
  /\ Within(r.multicast)
  /\ Len(r.anchor) <= MAX_DT_ROUNDS /\ Len(r.tag) <= MAX_DT_ROUNDS
  /\ r.phase <= DTP_CAPACITY

ResourceInv ==
  /\ EngineInv
  /\ resources \in [Sid -> Resources]
  /\ \A s \in Sid : Owned(resources[s])
  /\ FreedOwnsNothing
  /\ answer \in Answers
  /\ seen \in [Sid -> SUBSET (0 .. 255)]

(* The body of AnswerTellsAll.                                             *)
Tells ==
  \A s \in Allocated(dev) \cap Allocated(dev') :
    resources'[s].multicast =
      IF answer'.sid = s THEN Replay(resources[s].multicast, answer')
                         ELSE resources[s].multicast

LEMMA OwnsNothing == Owned(NoResources)
<1>1. << >> \in Seq(0 .. 255) /\ Len(<< >>) = 0 BY EmptySeq
<1>2. NoneTwice(<< >>) BY DEF NoneTwice
<1>3. Within({}) BY FS_EmptySet, ResourceAssumption DEF Within
<1>4. NoResources \in Resources BY <1>1 DEF NoResources, Resources
<1> QED BY <1>1, <1>2, <1>3, <1>4, ResourceAssumption DEF Owned, NoResources

LEMMA NoAnswerTyped == NoAnswer \in Answers /\ NoAnswer.sid \notin Sid
BY EmptySeq, IdsAssumption DEF NoAnswer, Answers, MulticastActions

(* A step that leaves the resources alone and releases no session.         *)
LEMMA KeepInv ==
  ASSUME ResourceInv, EngineInv', Grows(dev, dev'), Keep
  PROVE  ResourceInv' /\ Tells
<1>1. resources' = resources /\ answer' = NoAnswer /\ seen' = seen
  BY DEF Keep, NotMulticast
<1>2. FreedOwnsNothing' BY <1>1 DEF ResourceInv, FreedOwnsNothing, Grows
<1>3. ResourceInv' BY <1>1, <1>2, NoAnswerTyped DEF ResourceInv
<1>4. Tells BY <1>1, NoAnswerTyped DEF Tells, Allocated
<1> QED BY <1>3, <1>4

(* A step that gives a live session r, and releases none.                  *)
LEMMA OwnInv ==
  ASSUME ResourceInv, EngineInv', Grows(dev, dev'), NEW s \in Sid, s \in Allocated(dev),
         NEW r, Owned(r), Own(s, r), seen' = seen, answer' \in Answers
  PROVE  ResourceInv'
<1>1. /\ resources \in [Sid -> Resources] /\ resources' = [resources EXCEPT ![s] = r]
      /\ r \in Resources
  BY DEF ResourceInv, Own, Owned
<1>2. /\ resources' \in [Sid -> Resources]
      /\ \A x \in Sid : resources'[x] = IF x = s THEN r ELSE resources[x]
  BY <1>1
<1>3. FreedOwnsNothing' BY <1>2 DEF ResourceInv, FreedOwnsNothing, Grows
<1> QED BY <1>2, <1>3 DEF ResourceInv

(* The same, when the multicast list stays.                                *)
LEMMA OwnSameList ==
  ASSUME ResourceInv, EngineInv', Grows(dev, dev'), NEW s \in Sid, s \in Allocated(dev),
         NEW r, Owned(r), Own(s, r), NotMulticast, r.multicast = resources[s].multicast
  PROVE  ResourceInv' /\ Tells
<1>1. ResourceInv' BY NoAnswerTyped, OwnInv DEF NotMulticast
<1>2. \A x \in Sid : resources'[x].multicast = resources[x].multicast
  BY DEF Own, ResourceInv
<1>3. Tells BY <1>2, NoAnswerTyped DEF Tells, NotMulticast, Allocated
<1> QED BY <1>1, <1>3

(* The commands of this module answer, or answer and announce, and leave   *)
(* the session table alone.                                                *)
LEMMA RefuseGrows ==
  ASSUME EngineInv, NEW code \in Codes,
         \/ SubmitCommand(Reject(dev, code))
         \/ SubmitCommand(Respond(dev, code))
  PROVE  EngineInv' /\ Grows(dev, dev')
<1>1. CommandOK(Reject(dev, code)) /\ CommandOK(Respond(dev, code))
  BY RespondOK DEF EngineInv, CommandOK
<1>2. Reject(dev, code).dev = dev /\ Respond(dev, code).dev = dev
  BY DEF Reject, Respond, Result
<1> QED BY <1>1, <1>2, SubmitCommandAllocated DEF Grows

LEMMA AnnounceGrows ==
  ASSUME EngineInv, NEW kind \in LinkKinds, NEW s \in Sid, NEW id \in 0 .. 255,
         Announce(kind, s, id)
  PROVE  EngineInv' /\ Grows(dev, dev')
<1> DEFINE n == LinkNtf(kind, s, id)
<1> DEFINE res == DeliverNotification(Respond(dev, "OK"), n)
<1>1. n \in Packet
  <2>1. kind \in Kinds /\ "NONE" \in Codes BY DEF LinkKinds, Kinds, Codes
  <2> QED BY <2>1, MakePacketTyped DEF LinkNtf
<1>2. SubmitCommand(res) BY DEF Announce
<1> HIDE DEF n
<1>3. CommandOK(res) /\ res.dev.sessions = dev.sessions BY <1>1, AnnounceOK DEF EngineInv
<1> HIDE DEF res
<1>4. Allocated(res.dev) = Allocated(dev) BY <1>3 DEF Allocated
<1> QED BY <1>2, <1>3, <1>4, SubmitCommandAllocated DEF Grows

(* One lemma per command.                                                  *)

LEMMA RefusalInv ==
  ASSUME ResourceInv, NEW code \in Codes, Refuse(code)
  PROVE  ResourceInv' /\ Tells
BY RefuseGrows, KeepInv DEF Refuse, ResourceInv

LEMMA LinkCreateInv ==
  ASSUME ResourceInv, NEW s \in Sid, NEW id \in LinkIds, LogicalLinkCreate(s, id)
  PROVE  ResourceInv' /\ Tells
<1> DEFINE r == resources[s]
<1> DEFINE status == LinkCreateStatus(r.links, id)
<1> DEFINE new == AssignedId(r.links, id)
<1> DEFINE r2 == [r EXCEPT !.links = Append(@, new)]
<1>1. "INVALID_PARAM" \in Codes /\ status \in Codes BY DEF Codes, LinkCreateStatus
<1>2. CASE \/ s \notin Allocated(dev) /\ Refuse("INVALID_PARAM")
           \/ s \in Allocated(dev) /\ status # "OK" /\ Refuse(status)
  <2> HIDE DEF status
  <2> QED BY <1>1, <1>2, RefusalInv
<1>3. CASE /\ s \in Allocated(dev) /\ status = "OK"
           /\ Announce("LINK_CREATE", s, new) /\ Own(s, r2) /\ NotMulticast
  <2>1. Owned(r) /\ r \in Resources /\ r.links \in Seq(0 .. 255) /\ NoneTwice(r.links)
    BY DEF ResourceInv, Owned, Resources
  <2>2. new \in 0 .. 255 /\ ~HasLink(r.links, new)
    <3> HIDE DEF r
    <3> QED BY <1>3, <2>1, AssignedIdFree
  <2> DEFINE q == Append(r.links, new)
  <2>3. q \in Seq(0 .. 255) /\ NoneTwice(q) /\ Len(q) <= MAX_LOGICAL_LINKS
    <3> DEFINE l == r.links
    <3>1. Len(l) < MAX_LOGICAL_LINKS /\ MAX_LOGICAL_LINKS \in Nat /\ Len(l) \in Nat
      <4>1. MAX_LOGICAL_LINKS \in Nat BY ResourceAssumption
      <4>2. Len(l) \in Nat BY <2>1, LenProperties
      <4>3. ~(Len(l) >= MAX_LOGICAL_LINKS) BY <1>3 DEF LinkCreateStatus
      <4> QED BY <4>1, <4>2, <4>3
    <3> HIDE DEF new, l
    <3>2. l \in Seq(0 .. 255) /\ NoneTwice(l) /\ ~HasLink(l, new) BY <2>1, <2>2 DEF l
    <3>3. Append(l, new) \in Seq(0 .. 255) /\ NoneTwice(Append(l, new))
          /\ Len(Append(l, new)) = Len(l) + 1
      BY <2>2, <3>2, AppendDistinct, AppendProperties
    <3>4. Len(Append(l, new)) <= MAX_LOGICAL_LINKS BY <3>1, <3>3
    <3> QED BY <3>3, <3>4 DEF l
  <2>4. EngineInv' /\ Grows(dev, dev')
    <3>1. "LINK_CREATE" \in LinkKinds BY DEF LinkKinds
    <3> HIDE DEF new
    <3> QED BY <1>3, <2>2, <3>1, AnnounceGrows DEF ResourceInv
  <2>5. Owned(r2) /\ r2.multicast = r.multicast
    <3> HIDE DEF q, r
    <3>1. r2 = [r EXCEPT !.links = q] BY DEF q
    <3>2. /\ r2 \in Resources /\ r2.links = q /\ r2.multicast = r.multicast
          /\ r2.anchor = r.anchor /\ r2.tag = r.tag /\ r2.phase = r.phase
      BY <2>1, <2>3, <3>1 DEF Resources
    <3> HIDE DEF r2
    <3> QED BY <2>1, <2>3, <3>2 DEF Owned
  <2> HIDE DEF r2
  <2> QED BY <1>3, <2>4, <2>5, OwnSameList
<1> QED BY <1>2, <1>3 DEF LogicalLinkCreate

LEMMA LinkCloseInv ==
  ASSUME ResourceInv, NEW s \in Sid, NEW id \in LinkIds, LogicalLinkClose(s, id)
  PROVE  ResourceInv' /\ Tells
<1> DEFINE r == resources[s]
<1> DEFINE r2 == [r EXCEPT !.links = RemoveLink(@, id)]
<1>1. "INVALID_PARAM" \in Codes BY DEF Codes
<1>2. CASE Refuse("INVALID_PARAM") BY <1>1, <1>2, RefusalInv
<1>3. CASE /\ s \in Allocated(dev) /\ HasLink(r.links, id)
           /\ Announce("LINK_CLOSE", s, id) /\ Own(s, r2) /\ NotMulticast
  <2>1. /\ Owned(r) /\ r \in Resources /\ r.links \in Seq(0 .. 255) /\ NoneTwice(r.links)
        /\ Len(r.links) <= MAX_LOGICAL_LINKS
    BY DEF ResourceInv, Owned, Resources
  <2> DEFINE q == RemoveLink(r.links, id)
  <2>3. q \in Seq(0 .. 255) /\ NoneTwice(q) /\ Len(q) <= MAX_LOGICAL_LINKS
    <3> DEFINE l == r.links
    <3>1. l \in Seq(0 .. 255) /\ NoneTwice(l) /\ HasLink(l, id)
          /\ Len(l) <= MAX_LOGICAL_LINKS
      BY <1>3, <2>1
    <3> HIDE DEF l
    <3>2. RemoveLink(l, id) \in Seq(0 .. 255) /\ NoneTwice(RemoveLink(l, id))
          /\ Len(RemoveLink(l, id)) <= Len(l)
      BY <3>1, RemoveDistinct
    <3>3. Len(l) \in Nat /\ Len(RemoveLink(l, id)) \in Nat BY <3>1, <3>2, LenProperties
    <3>4. Len(RemoveLink(l, id)) <= MAX_LOGICAL_LINKS
      BY <3>1, <3>2, <3>3, ResourceAssumption
    <3> QED BY <3>2, <3>4 DEF l
  <2>4. EngineInv' /\ Grows(dev, dev')
    <3>1. "LINK_CLOSE" \in LinkKinds /\ id \in 0 .. 255
      BY ResourceAssumption DEF LinkKinds
    <3> QED BY <1>3, <3>1, AnnounceGrows DEF ResourceInv
  <2>5. Owned(r2) /\ r2.multicast = r.multicast
    <3> HIDE DEF q, r
    <3>1. r2 = [r EXCEPT !.links = q] BY DEF q
    <3>2. /\ r2 \in Resources /\ r2.links = q /\ r2.multicast = r.multicast
          /\ r2.anchor = r.anchor /\ r2.tag = r.tag /\ r2.phase = r.phase
      BY <2>1, <2>3, <3>1 DEF Resources
    <3> HIDE DEF r2
    <3> QED BY <2>1, <2>3, <3>2 DEF Owned
  <2> HIDE DEF r2
  <2> QED BY <1>3, <2>4, <2>5, OwnSameList
<1> QED BY <1>2, <1>3 DEF LogicalLinkClose

LEMMA MulticastInv ==
  ASSUME ResourceInv, NEW s \in Sid, NEW a \in MulticastActions, NEW l \in MulticastLists,
         NEW count \in 0 .. Len(l) + 1, UpdateMulticastList(s, a, l, count)
  PROVE  ResourceInv' /\ Tells
<1> DEFINE r == resources[s]
<1> DEFINE n == IF count < Len(l) THEN count ELSE Len(l)
<1> DEFINE cut == SubSeq(l, 1, n)
<1> DEFINE u == UpdateList(r.multicast, a, cut)
<1> DEFINE status == OverallStatus(u.entries, count)
<1> DEFINE r2 == [r EXCEPT !.multicast = u.list]
<1>1. "INVALID_PARAM" \in Codes /\ "OK" \in Codes /\ status \in Codes
  BY DEF Codes, OverallStatus
<1>2. CASE Refuse("INVALID_PARAM") BY <1>1, <1>2, RefusalInv
<1>3. CASE /\ s \in Allocated(dev)
           /\ SubmitCommand(IF status = "OK" THEN Respond(dev, "OK") ELSE Reject(dev, status))
           /\ Own(s, r2)
           /\ answer' = [sid |-> s, action |-> a, entries |-> u.entries]
           /\ UNCHANGED seen
  <2>1. Owned(r) /\ r \in Resources /\ r.multicast \in SUBSET Controlees
        /\ Within(r.multicast)
    BY DEF ResourceInv, Owned, Resources
  <2>2. cut \in Seq(Controlees)
    <3>1. l \in Seq(Controlees) /\ Len(l) \in Nat BY LenProperties, ResourceAssumption
    <3>2. 1 \in Int /\ n \in Int /\ \A i \in 1 .. n : i \in 1 .. Len(l) BY <3>1
    <3>3. \A i \in 1 .. n : l[i] \in Controlees BY <3>1, <3>2, ElementOfSeq
    <3> HIDE DEF n
    <3> QED BY <3>1, <3>2, <3>3, SubSeqProperties
  <2> HIDE DEF cut
  <2>3. /\ u \in Listings /\ Within(u.list)
        /\ Replay(r.multicast, [sid |-> s, action |-> a, entries |-> u.entries]) = u.list
    <3> DEFINE m == r.multicast
    <3>1. m \in SUBSET Controlees /\ Within(m) BY <2>1
    <3> HIDE DEF m
    <3>2. LET v == UpdateList(m, a, cut)
          IN  /\ v \in Listings /\ Within(v.list)
              /\ Replay(m, [sid |-> s, action |-> a, entries |-> v.entries]) = v.list
      BY <2>2, <3>1, UpdateListLaw
    <3> QED BY <3>2 DEF m
  <2>4. EngineInv' /\ Grows(dev, dev')
    <3> HIDE DEF status
    <3> QED BY <1>1, <1>3, RefuseGrows DEF ResourceInv
  <2> HIDE DEF u
  <2>5. Owned(r2) /\ r2.multicast = u.list
    <3> HIDE DEF r
    <3>1. /\ r2 \in Resources /\ r2.links = r.links /\ r2.multicast = u.list
          /\ r2.anchor = r.anchor /\ r2.tag = r.tag /\ r2.phase = r.phase
      BY <2>1, <2>3 DEF Resources, Listings
    <3> HIDE DEF r2
    <3> QED BY <2>1, <2>3, <3>1 DEF Owned
  <2>6. answer' \in Answers
    <3>1. u.entries \in Seq(Answer) BY <2>3 DEF Listings
    <3> QED BY <1>3, <3>1 DEF Answers
  <2> HIDE DEF r2, status
  <2>7. ResourceInv' BY <1>3, <2>4, <2>5, <2>6, OwnInv
  <2>8. \A x \in Sid : resources'[x] = IF x = s THEN r2 ELSE resources[x]
    BY <1>3 DEF Own, ResourceInv
  <2>9. Tells
    <3>1. answer'.sid = s /\ Replay(r.multicast, answer') = u.list BY <1>3, <2>3
    <3> QED BY <2>5, <2>8, <3>1 DEF Tells, Allocated
  <2> QED BY <2>7, <2>9
<1> QED BY <1>2, <1>3 DEF UpdateMulticastList

LEMMA DtRoundsInv ==
  ASSUME ResourceInv, NEW s \in Sid, NEW useAnchor \in BOOLEAN, NEW rounds \in RoundLists,
         NEW short \in BOOLEAN, UpdateDtRounds(s, useAnchor, rounds, short)
  PROVE  ResourceInv' /\ Tells
<1> DEFINE r == resources[s]
<1> DEFINE r2 == IF useAnchor THEN [r EXCEPT !.anchor = rounds]
                              ELSE [r EXCEPT !.tag = rounds]
<1>1. "INVALID_PARAM" \in Codes /\ "OK" \in Codes BY DEF Codes
<1>2. CASE Refuse("INVALID_PARAM") BY <1>1, <1>2, RefusalInv
<1>3. CASE /\ Len(rounds) <= MAX_DT_ROUNDS /\ s \in Allocated(dev)
           /\ SubmitCommand(Respond(dev, "OK")) /\ Own(s, r2) /\ NotMulticast
  <2>1. EngineInv' /\ Grows(dev, dev') BY <1>1, <1>3, RefuseGrows DEF ResourceInv
  <2>2. Owned(r) /\ r \in Resources BY DEF ResourceInv, Owned
  <2>3. Owned(r2) /\ r2.multicast = r.multicast
    <3> HIDE DEF r
    <3>1. rounds \in Seq(0 .. 255) BY ResourceAssumption
    <3>2. /\ r2 \in Resources /\ r2.links = r.links /\ r2.multicast = r.multicast
          /\ r2.anchor \in {r.anchor, rounds} /\ r2.tag \in {r.tag, rounds}
          /\ r2.phase = r.phase
      <4>1. CASE useAnchor BY <2>2, <3>1, <4>1 DEF Resources
      <4>2. CASE ~useAnchor BY <2>2, <3>1, <4>2 DEF Resources
      <4> QED BY <4>1, <4>2
    <3> HIDE DEF r2
    <3> QED BY <1>3, <2>2, <3>2 DEF Owned
  <2> HIDE DEF r2
  <2> QED BY <1>3, <2>1, <2>3, OwnSameList
<1> QED BY <1>2, <1>3 DEF UpdateDtRounds

LEMMA PhaseConfigInv ==
  ASSUME ResourceInv, NEW s \in Sid, NEW size \in PhaseSizes, NEW len \in PhaseSizes,
         DataTransferPhaseConfig(s, size, len)
  PROVE  ResourceInv' /\ Tells
<1> DEFINE r == resources[s]
<1> DEFINE r2 == [r EXCEPT !.phase = len % 256]
<1>1. {"INVALID_PARAM", "INVALID_MSG_SIZE", "OK"} \subseteq Codes BY DEF Codes
<1>2. CASE Refuse("INVALID_PARAM") \/ Refuse("INVALID_MSG_SIZE") BY <1>1, <1>2, RefusalInv
<1>3. CASE /\ size <= DTP_CAPACITY /\ len % 256 = size /\ s \in Allocated(dev)
           /\ SubmitCommand(Respond(dev, "OK")) /\ Own(s, r2) /\ NotMulticast
  <2>1. EngineInv' /\ Grows(dev, dev') BY <1>1, <1>3, RefuseGrows DEF ResourceInv
  <2>2. Owned(r) /\ r \in Resources BY DEF ResourceInv, Owned
  <2>3. Owned(r2) /\ r2.multicast = r.multicast
    <3> HIDE DEF r
    <3>1. len % 256 \in 0 .. 255 /\ len % 256 <= DTP_CAPACITY
      BY <1>3, ResourceAssumption
    <3>2. /\ r2 \in Resources /\ r2.links = r.links /\ r2.multicast = r.multicast
          /\ r2.anchor = r.anchor /\ r2.tag = r.tag /\ r2.phase = len % 256
      BY <2>2, <3>1 DEF Resources
    <3> HIDE DEF r2
    <3> QED BY <2>2, <3>1, <3>2 DEF Owned
  <2> HIDE DEF r2
  <2> QED BY <1>3, <2>1, <2>3, OwnSameList
<1> QED BY <1>2, <1>3 DEF DataTransferPhaseConfig

(* SESSION_DEINIT clears the slot it releases.                             *)
LEMMA DeinitSessionInv ==
  ASSUME ResourceInv, NEW s \in Sid, DeinitSession(s)
  PROVE  ResourceInv' /\ Tells
<1> DEFINE r == IF s \in Allocated(dev) THEN NoResources ELSE resources[s]
<1>1. Sound(dev) /\ EngineInv BY DEF ResourceInv, EngineInv
<1>2. EngineInv' /\ Allocated(dev') = Allocated(HandleSessionDeinit(dev, s).dev)
  BY <1>1, SessionDeinitOK, SubmitCommandAllocated DEF DeinitSession, SessionDeinit
<1>3. Allocated(dev) \ {s} \subseteq Allocated(dev') /\ s \notin Allocated(dev')
  BY <1>1, <1>2, SessionDeinitLaw
<1>4. resources \in [Sid -> Resources] /\ FreedOwnsNothing BY DEF ResourceInv
<1>5. Owned(r) /\ r = NoResources /\ r \in Resources
  BY <1>4, OwnsNothing DEF FreedOwnsNothing, Owned
<1>6. resources' = [resources EXCEPT ![s] = r] BY DEF DeinitSession, Own
<1>7. answer' = NoAnswer /\ seen' = seen BY DEF DeinitSession, NotMulticast
<1> HIDE DEF r
<1>8. /\ resources' \in [Sid -> Resources]
      /\ \A x \in Sid : resources'[x] = IF x = s THEN r ELSE resources[x]
  BY <1>4, <1>5, <1>6
<1>9. FreedOwnsNothing' BY <1>3, <1>4, <1>5, <1>8 DEF FreedOwnsNothing
<1>10. ResourceInv' BY <1>2, <1>5, <1>7, <1>8, <1>9, NoAnswerTyped DEF ResourceInv
<1>11. Tells BY <1>3, <1>7, <1>8, NoAnswerTyped DEF Tells, Allocated
<1> QED BY <1>10, <1>11

(* A reset clears every slot.                                              *)
LEMMA ResetDeviceInv ==
  ASSUME ResourceInv, ResetDevice
  PROVE  ResourceInv' /\ Tells
<1>1. Sound(dev) /\ EngineInv BY DEF ResourceInv, EngineInv
<1>2. EngineInv' /\ Allocated(dev') = {}
  BY <1>1, DeviceResetOK, DeviceResetLaw, SubmitCommandAllocated DEF ResetDevice, DeviceReset
<1>3. resources' = [x \in Sid |-> NoResources] /\ answer' = NoAnswer /\ seen' = seen
  BY DEF ResetDevice, NotMulticast
<1>4. ResourceInv'
  BY <1>2, <1>3, NoAnswerTyped, OwnsNothing DEF ResourceInv, FreedOwnsNothing, Owned
<1> QED BY <1>2, <1>4 DEF Tells

(* What the host hears keeps its type.                                     *)
Views == [Sid -> SUBSET (0 .. 255)]
LEMMA HearLinksTyped ==
  ASSUME NEW v \in Views, NEW p \in Packet
  PROVE  HearLinks(v, p) \in Views
<1>1. p.kind \in LinkKinds => p.num \in 0 .. 255 BY DEF Packet
<1>2. CASE p.kind = "LINK_CREATE" BY <1>1, <1>2 DEF Views, HearLinks, LinkKinds
<1>3. CASE p.kind = "LINK_CLOSE" BY <1>3 DEF Views, HearLinks
<1>4. CASE p.kind = "SESSION_STATUS" BY <1>4 DEF Views, HearLinks
<1>5. CASE p.kind = "DEVICE_STATUS" BY <1>5 DEF Views, HearLinks
<1>6. CASE p.kind \notin {"LINK_CREATE", "LINK_CLOSE", "SESSION_STATUS", "DEVICE_STATUS"}
  BY <1>6 DEF Views, HearLinks
<1> QED BY <1>2, <1>3, <1>4, <1>5, <1>6

LEMMA ResourceInitInv == ResourceInit => ResourceInv
<1> SUFFICES ASSUME ResourceInit PROVE ResourceInv OBVIOUS
<1>1. EngineInv BY InitInv DEF ResourceInit
<1>2. resources = [s \in Sid |-> NoResources] /\ answer = NoAnswer /\ seen = [s \in Sid |-> {}]
  BY DEF ResourceInit
<1> QED BY <1>1, <1>2, NoAnswerTyped, OwnsNothing DEF ResourceInv, FreedOwnsNothing, Owned

LEMMA ResourceNextInv ==
  ASSUME ResourceInv, [ResourceNext]_resourceVars
  PROVE  ResourceInv' /\ (Tells \/ UNCHANGED resourceVars)
<1>1. EngineInv /\ Sound(dev) BY DEF ResourceInv, EngineInv
<1>2. ASSUME NEW s \in Sid, InitSession(s) PROVE ResourceInv' /\ Tells
  <2>1. EngineInv' /\ Allocated(dev') = Allocated(HandleSessionInit(dev, s).dev)
    BY <1>1, <1>2, SessionInitOK, SubmitCommandAllocated DEF InitSession, SessionInit
  <2>2. Grows(dev, dev') BY <1>1, <2>1, SessionInitLaw DEF Grows
  <2> QED BY <1>2, <2>1, <2>2, KeepInv DEF InitSession
<1>3. ASSUME NEW s \in Sid, NEW id \in LinkIds, LogicalLinkGetParam(s, id)
      PROVE  ResourceInv' /\ Tells
  <2>1. "OK" \in Codes /\ "INVALID_PARAM" \in Codes BY DEF Codes
  <2>2. EngineInv' /\ Grows(dev, dev')
    BY <1>1, <1>3, <2>1, RefuseGrows DEF LogicalLinkGetParam
  <2> QED BY <1>3, <2>2, KeepInv DEF LogicalLinkGetParam
<1>4. CASE OtherPacket
  BY <1>1, <1>4, HostPacketInv, HostPacketGrows, KeepInv DEF OtherPacket
<1>5. CASE ResourceTick
  <2>1. PICK ms \in Elapsed, hit \in BOOLEAN : Apply(EngineTick(dev, outbound, ms, hit))
    BY <1>5 DEF ResourceTick, Tick
  <2>2. ms \in Nat /\ QueueOK(outbound) BY <1>1, InputAssumption DEF EngineInv
  <2>3. EngineOK(EngineTick(dev, outbound, ms, hit)) BY <1>1, <2>2, EngineTickOK
  <2>4. TickLaw(dev, EngineTick(dev, outbound, ms, hit).dev, ms)
    BY <1>1, <2>2, EngineTickLaw
  <2>5. EngineInv' BY <2>1, <2>3 DEF Apply, EngineOK, EngineInv
  <2>6. Grows(dev, dev')
    BY <2>1, <2>4, TickAllocated DEF Apply, Grows
  <2> QED BY <1>5, <2>5, <2>6, KeepInv DEF ResourceTick
<1>6. CASE HostReads
  <2>1. /\ dev' = dev /\ resources' = resources /\ answer' = NoAnswer
        /\ seen' = HearLinks(seen, Head(outbound)) /\ Next
    BY <1>6 DEF HostReads, DequeueOutbound, Next
  <2>2. EngineInv' BY <1>1, <2>1, NextInv
  <2>3. Head(outbound) \in Packet
    BY <1>1, <1>6, HeadTailProperties DEF EngineInv, QueueOK, HostReads, DequeueOutbound
  <2>4. seen' \in [Sid -> SUBSET (0 .. 255)]
    BY <2>1, <2>3, HearLinksTyped DEF ResourceInv, Views
  <2>5. ResourceInv'
    BY <2>1, <2>2, <2>4, NoAnswerTyped DEF ResourceInv, FreedOwnsNothing
  <2>6. Tells BY <2>1, NoAnswerTyped DEF Tells, Allocated
  <2> QED BY <2>5, <2>6
<1>7. CASE UNCHANGED resourceVars
  BY <1>7 DEF resourceVars, ResourceInv, EngineInv, FreedOwnsNothing
<1> QED BY <1>2, <1>3, <1>4, <1>5, <1>6, <1>7, DeinitSessionInv, ResetDeviceInv,
           LinkCreateInv, LinkCloseInv, MulticastInv, DtRoundsInv, PhaseConfigInv
        DEF ResourceNext

THEOREM ResourceInvHolds == ResourceSpec => []ResourceInv
BY ResourceInitInv, ResourceNextInv, PTL DEF ResourceSpec

(* Whatever the host sends and in whatever order, the links, the multicast *)
(* entries, the rounds and the phase payload of a session stay within the  *)
(* arrays of uci_sim_session_t, for every capacity of them.                *)
THEOREM ResourcesTyped == ResourceSpec => []ResourceTypeOK
<1>1. ResourceInv => ResourceTypeOK
  BY DEF ResourceInv, ResourceTypeOK, Owned, Within, Answers, Answer, EngineInv, Sound, TypeOK
<1> QED BY <1>1, ResourceInvHolds, PTL

(* The device never gives two open links of a session the same identifier, *)
(* whatever mix of chosen and requested identifiers came before.           *)
THEOREM LinksDistinct == ResourceSpec => []LinkIdsUnique
<1>1. ResourceInv => LinkIdsUnique BY DEF ResourceInv, LinkIdsUnique, Owned, NoneTwice
<1> QED BY <1>1, ResourceInvHolds, PTL

(* A session that is not allocated owns nothing: SESSION_DEINIT, a reset   *)
(* and the refusals leave nothing behind for alloc_session to inherit.     *)
THEOREM SlotsCleared == ResourceSpec => []FreedOwnsNothing
<1>1. ResourceInv => FreedOwnsNothing BY DEF ResourceInv
<1> QED BY <1>1, ResourceInvHolds, PTL

(* The answer to a multicast update tells the host the list that results,  *)
(* for every list, every update and every capacity, also when the update   *)
(* fails half-way or is cut short.                                         *)
THEOREM AnswersTell == ResourceSpec => AnswerTellsAll
<1>1. ASSUME ResourceInv, [ResourceNext]_resourceVars
      PROVE  [\A s \in Allocated(dev) \cap Allocated(dev') :
                resources'[s].multicast =
                  IF answer'.sid = s THEN Replay(resources[s].multicast, answer')
                                     ELSE resources[s].multicast]_resourceVars
  BY <1>1, ResourceNextInv DEF Tells
<1> QED BY <1>1, ResourceInvHolds, PTL DEF ResourceSpec, AnswerTellsAll

-----------------------------------------------------------------------------
(* What the host makes of a sequence of packets.                           *)

After(v, q) == FoldLeft(HearLinks, v, q)
Hearing(h, v, q) ==
  /\ h[0] = v
  /\ \A k \in 1 .. Len(q) : h[k] = HearLinks(h[k - 1], q[k])

LEMMA AfterChain ==
  ASSUME NEW v \in Views, NEW q \in Seq(Packet)
  PROVE  \E h : Hearing(h, v, q) /\ After(v, q) = h[Len(q)]
<1> DEFINE n == Len(q)
<1> DEFINE D == SUBSET (1 .. n)
<1> DEFINE F == [x \in Views \X Packet |-> HearLinks(x[1], x[2])]
<1> DEFINE Eq(g) == g = [s \in D |-> IF s = {} THEN v
                           ELSE HearLinks(g[s \ {Max(s)}], q[Max(s)])]
<1> DEFINE It == CHOOSE g : Eq(g)
<1>1. n \in Nat /\ DOMAIN q = 1 .. n /\ \A k \in 1 .. n : q[k] \in Packet
  BY LenProperties, ElementOfSeq
<1>3. F \in [Views \X Packet -> Views] BY HearLinksTyped
<1>4. PICK g : Folding(g, Views, F, v, q)
  <2> HIDE DEF F
  <2> QED BY <1>3, FoldExists
<1>5. \A s \in D : s # {} =>
        F[<<g[s \ {Max(s)}], q[Max(s)]>>] = HearLinks(g[s \ {Max(s)}], q[Max(s)])
  <2> SUFFICES ASSUME NEW s \in D, s # {}
               PROVE  F[<<g[s \ {Max(s)}], q[Max(s)]>>]
                        = HearLinks(g[s \ {Max(s)}], q[Max(s)])
    OBVIOUS
  <2>1. Max(s) \in s
    <3> HIDE DEF n
    <3> QED BY <1>1, MaxOf
  <2>2. q[Max(s)] \in Packet BY <1>1, <2>1
  <2>3. g[s \ {Max(s)}] \in Views BY <1>4 DEF Folding
  <2> QED BY <2>2, <2>3
<1>6. Eq(g)
  <2>1. /\ g \in [D -> Views]
        /\ \A s \in D : g[s] = IF s = {} THEN v
                               ELSE F[<<g[s \ {Max(s)}], q[Max(s)]>>]
    <3> HIDE DEF F
    <3> QED BY <1>4 DEF Folding
  <2> HIDE DEF F, n
  <2> QED BY <1>5, <2>1
<1>7. Eq(It)
  <2> HIDE DEF Eq
  <2> QED BY <1>6
<1>8. After(v, q) = It[1 .. n] BY <1>1 DEF After, FoldLeft, MapThenFoldSet
<1> HIDE DEF It, F, n
<1> DEFINE h == [k \in 0 .. n |-> It[1 .. k]]
<1>9. h[0] = v
  <2>1. 1 .. 0 = {} /\ {} \in D /\ 0 \in 0 .. n BY <1>1
  <2> QED BY <1>7, <2>1
<1>10. ASSUME NEW k \in 1 .. n PROVE h[k] = HearLinks(h[k - 1], q[k])
  <2>1. 1 .. k \in D /\ 1 .. k # {} /\ (1 .. k) \ {k} = 1 .. k - 1
    BY <1>1, PrefixIntervals
  <2>2. Max(1 .. k) = k BY <1>1, MaxInterval
  <2>3. It[1 .. k] = HearLinks(It[1 .. k - 1], q[k]) BY <1>7, <2>1, <2>2
  <2>4. k \in 0 .. n /\ k - 1 \in 0 .. n BY <1>1
  <2> QED BY <2>3, <2>4
<1>11. h[n] = It[1 .. n] BY <1>1
<1> HIDE DEF h
<1> QED BY <1>8, <1>9, <1>10, <1>11 DEF n, Hearing

(* Any chain along q ends there.                                           *)
LEMMA AfterUnique ==
  ASSUME NEW v \in Views, NEW q \in Seq(Packet), NEW g, Hearing(g, v, q)
  PROVE  After(v, q) = g[Len(q)] /\ After(v, q) \in Views
<1>1. PICK h : Hearing(h, v, q) /\ After(v, q) = h[Len(q)] BY AfterChain
<1> DEFINE n == Len(q)
<1> DEFINE S == {k \in 0 .. n : h[k] = g[k] /\ h[k] \in Views}
<1>2. n \in Nat /\ \A k \in 1 .. n : q[k] \in Packet BY LenProperties, ElementOfSeq
<1>3. 0 \in S BY <1>1, <1>2 DEF Hearing
<1>4. ASSUME NEW k \in 1 .. n, k - 1 \in S PROVE k \in S
  <2>1. h[k] = HearLinks(h[k - 1], q[k]) /\ g[k] = HearLinks(g[k - 1], q[k])
    BY <1>1 DEF Hearing
  <2>2. h[k - 1] = g[k - 1] /\ h[k - 1] \in Views /\ q[k] \in Packet BY <1>2, <1>4
  <2>3. h[k] \in Views BY <2>1, <2>2, HearLinksTyped
  <2>4. k \in 0 .. n BY <1>2
  <2> QED BY <2>1, <2>2, <2>3, <2>4
<1>5. \A k \in 0 .. n : k \in S
  <2> HIDE DEF S, n
  <2> QED BY <1>2, <1>3, <1>4, Climb
<1>6. n \in 0 .. n BY <1>2
<1> QED BY <1>1, <1>5, <1>6

LEMMA AfterTyped ==
  ASSUME NEW v \in Views, NEW q \in Seq(Packet)
  PROVE  After(v, q) \in Views
BY AfterChain, AfterUnique

(* The packets of b after those of a.                                      *)
LEMMA AfterConcat ==
  ASSUME NEW v \in Views, NEW a \in Seq(Packet), NEW b \in Seq(Packet)
  PROVE  After(v, a \o b) = After(After(v, a), b)
<1> DEFINE m == Len(a)
<1> DEFINE n == Len(b)
<1> DEFINE c == a \o b
<1> DEFINE w == After(v, a)
<1>1. m \in Nat /\ n \in Nat BY LenProperties
<1>2. /\ c \in Seq(Packet) /\ Len(c) = m + n
      /\ \A i \in 1 .. m + n : c[i] = IF i <= m THEN a[i] ELSE b[i - m]
  BY ConcatProperties
<1>3. w \in Views BY AfterTyped
<1>4. PICK f : Hearing(f, v, a) /\ w = f[m] BY AfterChain
<1> HIDE DEF w, c
<1>5. PICK h : Hearing(h, w, b) /\ After(w, b) = h[n] BY <1>3, AfterChain
<1> DEFINE g == [k \in 0 .. m + n |-> IF k <= m THEN f[k] ELSE h[k - m]]
<1>6. Hearing(g, v, c)
  <2>1. g[0] = v BY <1>1, <1>4 DEF Hearing
  <2>2. ASSUME NEW k \in 1 .. m + n PROVE g[k] = HearLinks(g[k - 1], c[k])
    <3>1. k \in 0 .. m + n /\ k - 1 \in 0 .. m + n BY <1>1
    <3>2. CASE k <= m
      <4>1. k \in 1 .. m /\ k - 1 <= m BY <1>1, <3>2
      <4>2. f[k] = HearLinks(f[k - 1], a[k]) BY <1>4, <4>1 DEF Hearing
      <4> QED BY <1>2, <3>1, <3>2, <4>1, <4>2
    <3>3. CASE k = m + 1
      <4>1. 1 \in 1 .. n /\ ~(k <= m) /\ k - 1 <= m /\ k - m = 1 /\ k - 1 = m BY <1>1, <3>3
      <4>2. h[1] = HearLinks(h[1 - 1], b[1]) /\ h[0] = w /\ 1 - 1 = 0
        BY <1>5, <4>1 DEF Hearing
      <4>3. g[k] = h[1] /\ g[k - 1] = f[m] /\ c[k] = b[1] BY <1>2, <3>1, <4>1
      <4> QED BY <1>4, <4>2, <4>3
    <3>4. CASE k > m + 1
      <4>1. k - m \in 1 .. n /\ ~(k <= m) /\ ~(k - 1 <= m) /\ k - 1 - m = k - m - 1
        BY <1>1, <3>4
      <4>2. h[k - m] = HearLinks(h[k - m - 1], b[k - m]) BY <1>5, <4>1 DEF Hearing
      <4>3. g[k] = h[k - m] /\ g[k - 1] = h[k - 1 - m] /\ c[k] = b[k - m]
        BY <1>2, <3>1, <4>1
      <4> QED BY <4>1, <4>2, <4>3
    <3>5. k <= m \/ k = m + 1 \/ k > m + 1
      <4> HIDE DEF m, n
      <4> QED BY <1>1
    <3> QED BY <3>2, <3>3, <3>4, <3>5
  <2> HIDE DEF g
  <2> QED BY <1>2, <2>1, <2>2 DEF Hearing
<1>7. g[m + n] = h[n]
  <2>1. m + n \in 0 .. m + n BY <1>1
  <2>2. CASE n = 0
    <3>1. m + n = m /\ m + n <= m BY <1>1, <2>2
    <3> QED BY <1>4, <1>5, <2>1, <2>2, <3>1 DEF Hearing
  <2>3. CASE n > 0
    <3>1. ~(m + n <= m) /\ m + n - m = n BY <1>1, <2>3
    <3> QED BY <2>1, <3>1
  <2> QED BY <1>1, <2>2, <2>3
<1> HIDE DEF g, m, n
<1>8. After(v, c) = g[m + n] BY <1>2, <1>6, AfterUnique
<1> QED BY <1>5, <1>7, <1>8 DEF c, w

LEMMA AfterNone ==
  ASSUME NEW v \in Views
  PROVE  After(v, << >>) = v
<1>1. << >> \in Seq(Packet) /\ Len(<< >>) = 0 BY EmptySeq
<1>2. PICK h : Hearing(h, v, << >>) /\ After(v, << >>) = h[Len(<< >>)]
  BY <1>1, AfterChain
<1> QED BY <1>1, <1>2 DEF Hearing

LEMMA AfterOne ==
  ASSUME NEW v \in Views, NEW p \in Packet
  PROVE  After(v, <<p>>) = HearLinks(v, p)
<1> DEFINE q == <<p>>
<1>1. q \in Seq(Packet) /\ Len(q) = 1 /\ q[1] = p OBVIOUS
<1> HIDE DEF q
<1>2. PICK h : Hearing(h, v, q) /\ After(v, q) = h[Len(q)] BY <1>1, AfterChain
<1>3. h[1] = HearLinks(h[1 - 1], q[1]) /\ h[0] = v /\ 1 - 1 = 0 BY <1>1, <1>2 DEF Hearing
<1> QED BY <1>1, <1>2, <1>3 DEF q

-----------------------------------------------------------------------------
(* Queuing packets that say nothing about links.  Hush(d, r): the device r *)
(* has lost a packet, or the host will hear of links from its pending      *)
(* queue what it would hear from that of d; and the head of the queue      *)
(* keeps its place.                                                        *)

Hushed(p) == \A v \in Views : HearLinks(v, p) = v

HeadKept(d, r) ==
  d.pending # << >> => r.pending # << >> /\ Head(r.pending) = Head(d.pending)
Hush(d, r) ==
  /\ \/ r.lost
     \/ ~d.lost /\ \A v \in Views : After(v, r.pending) = After(v, d.pending)
  /\ HeadKept(d, r)

LEMMA HushedKinds ==
  ASSUME NEW p,
         \/ p.kind \notin {"LINK_CREATE", "LINK_CLOSE", "DEVICE_STATUS", "SESSION_STATUS"}
         \/ p.kind = "SESSION_STATUS" /\ p.code # "DEINIT"
  PROVE  Hushed(p)
BY DEF Hushed, HearLinks

LEMMA HushSame ==
  ASSUME NEW d, NEW r, SameQueue(d, r)
  PROVE  Hush(d, r)
BY DEF Hush, HeadKept, SameQueue

LEMMA HushTrans ==
  ASSUME NEW d, NEW m, NEW r, Hush(d, m), Hush(m, r)
  PROVE  Hush(d, r)
BY DEF Hush, HeadKept

LEMMA QueueHush ==
  ASSUME NEW d, DeviceOK(d), NEW n \in Packet, Hushed(n)
  PROVE  LET r == QueueNotification(d, n)
         IN  Hush(d, r) /\ (CanQueue(d) \/ r.lost)
<1> DEFINE r == QueueNotification(d, n)
<1> DEFINE p == d.pending
<1>1. d \in DeviceState /\ p \in Seq(Packet) BY DEF DeviceOK, DeviceState
<1>2. CASE CanQueue(d)
  <2>1. r.pending = Append(p, n) /\ r.lost = d.lost
    BY <1>1, <1>2 DEF QueueNotification, DeviceState
  <2> HIDE DEF p, r
  <2>2. Append(p, n) = p \o <<n>> /\ <<n>> \in Seq(Packet) BY <1>1, AppendIsConcat
  <2>3. \A v \in Views : After(v, r.pending) = After(v, p)
    <3> SUFFICES ASSUME NEW v \in Views PROVE After(v, r.pending) = After(v, p) OBVIOUS
    <3>1. After(v, p) \in Views BY <1>1, AfterTyped
    <3>2. After(v, p \o <<n>>) = After(After(v, p), <<n>>) BY <1>1, <2>2, AfterConcat
    <3>3. After(After(v, p), <<n>>) = After(v, p) BY <3>1, AfterOne DEF Hushed
    <3> QED BY <2>1, <2>2, <3>2, <3>3
  <2>4. p # << >> => Append(p, n) # << >> /\ Head(Append(p, n)) = Head(p)
    BY <1>1
  <2>5. Hush(d, r) BY <2>1, <2>3, <2>4 DEF Hush, HeadKept, p
  <2> QED BY <1>2, <2>5 DEF r
<1>3. CASE ~CanQueue(d)
  <2>1. r.lost /\ r.pending = p BY <1>1, <1>3 DEF QueueNotification, DeviceState
  <2> HIDE DEF r
  <2> QED BY <2>1 DEF Hush, HeadKept, r
<1> QED BY <1>2, <1>3

(* The notifications of the events.                                        *)
LEMMA EventPacketsHushed ==
  /\ \A s : Hushed(SessionStatusNtf(s, "IDLE_MAX_REACHED"))
  /\ \A s, n : Hushed(RangeDataNtf(s, n))
  /\ \A s : Hushed(DataCreditNtf(s))
  /\ \A s, m, code, tx : Hushed(DataStatusNtf(s, m, code, tx))
BY HushedKinds DEF SessionStatusNtf, RangeDataNtf, DataCreditNtf, DataStatusNtf, MakePacket

LEMMA StopAtBudgetHush ==
  ASSUME NEW d, Sound(d), NEW s \in Sid, s \in Allocated(d)
  PROVE  LET o == StopAtBudget(d, s) IN Hush(d, o.dev) /\ (o.ok \/ o.dev.lost)
<1> DEFINE v == d.sessions[s]
<1> DEFINE w == [v EXCEPT !.state = "IDLE", !.stream_remaining = 0]
<1> DEFINE idle == SetSession(d, s, w)
<1> DEFINE quiet == CancelSessionEvents(idle, s)
<1> DEFINE n == SessionStatusNtf(s, "IDLE_MAX_REACHED")
<1> DEFINE r == QueueNotification(quiet, n)
<1>1. DeviceOK(d) /\ v \in Session BY SessionOf DEF Allocated, Sound
<1>2. w \in Session BY <1>1 DEF Session, SessionStates
<1>3. DeviceOK(idle) /\ SameQueue(d, idle) /\ DenseSet(idle.events)
  <2> HIDE DEF w
  <2> QED BY <1>1, <1>2, SetSessionType, SameQueues DEF DeviceOK, Sound
<1>4. DeviceOK(quiet) /\ SameQueue(idle, quiet)
  <2> HIDE DEF idle
  <2> QED BY <1>1, <1>3, CancelSessionEventsType, SameQueues DEF DeviceOK
<1>5. n \in Packet /\ Hushed(n) BY PacketTypes, EventPacketsHushed DEF Codes
<1>6. StopAtBudget(d, s).dev = r /\ StopAtBudget(d, s).ok = CanQueue(quiet)
  BY DEF StopAtBudget, Outcome
<1> HIDE DEF n, quiet, idle
<1>7. Hush(quiet, r) /\ (CanQueue(quiet) \/ r.lost) BY <1>4, <1>5, QueueHush
<1> HIDE DEF r
<1>8. Hush(d, idle) /\ Hush(idle, quiet) BY <1>3, <1>4, HushSame
<1>9. Hush(d, quiet) BY <1>8, HushTrans
<1>10. Hush(d, r) BY <1>7, <1>9, HushTrans
<1> QED BY <1>6, <1>7, <1>10

LEMMA EmitRangingStreamHush ==
  ASSUME NEW d, Sound(d), NEW s \in Sid, s \in Allocated(d), NEW hit \in BOOLEAN
  PROVE  LET o == EmitRangingStream(d, s, hit) IN Hush(d, o.dev) /\ (o.ok \/ o.dev.lost)
<1> DEFINE v == d.sessions[s]
<1> DEFINE numbered == [d EXCEPT !.next_seq = @ + 1]
<1> DEFINE n == RangeDataNtf(s, d.next_seq)
<1> DEFINE sent == IF ShouldEmit(v, hit) THEN QueueNotification(numbered, n) ELSE d
<1> DEFINE count == v.ranging_count + 1
<1> DEFINE left == v.stream_remaining - 1
<1> DEFINE w == [v EXCEPT !.ranging_count = count, !.stream_remaining = left]
<1> DEFINE counted == SetSession(sent, s, w)
<1>0. DeviceOK(d) /\ v \in Session /\ d.next_seq \in Nat
      /\ d.sessions \in [Sid -> Session]
  BY SessionOf DEF Allocated, Sound, DeviceOK, DeviceState
<1>1. Hush(d, d) BY DEF Hush, HeadKept
<1> SUFFICES ASSUME ~(Scenario # "ranging_stream" \/ v.stream_remaining = 0
                       \/ v.state # "ACTIVE")
             PROVE  LET o == EmitRangingStream(d, s, hit)
                    IN  Hush(d, o.dev) /\ (o.ok \/ o.dev.lost)
  BY <1>1 DEF EmitRangingStream, Outcome
<1>3. n \in Packet /\ Hushed(n) BY <1>0, PacketTypes, EventPacketsHushed
<1>4. /\ Sound(numbered) /\ numbered.sessions = d.sessions
      /\ numbered.pending = d.pending /\ numbered.lost = d.lost
  BY DEF Sound, DeviceOK, DeviceState, QuietWhenIdle, Allocated
<1>5. LET r == QueueNotification(numbered, n)
      IN  /\ Sound(r) /\ r.sessions = d.sessions /\ Hush(d, r)
          /\ CanQueue(d) \/ r.lost
  <2> HIDE DEF numbered, n
  <2>1. Hush(numbered, QueueNotification(numbered, n))
        /\ (CanQueue(numbered) \/ QueueNotification(numbered, n).lost)
    BY <1>3, <1>4, QueueHush DEF Sound
  <2>2. CanQueue(numbered) = CanQueue(d) BY <1>4 DEF CanQueue
  <2>3. Hush(d, QueueNotification(numbered, n)) BY <1>4, <2>1 DEF Hush, HeadKept
  <2> QED BY <1>3, <1>4, <2>1, <2>2, <2>3, QueueNotificationSound, QueueNotificationType
         DEF Sound
<1>6. /\ Sound(sent) /\ sent.sessions = d.sessions /\ s \in Allocated(sent) /\ Hush(d, sent)
      /\ ShouldEmit(v, hit) /\ ~CanQueue(d) => sent.lost
  <2>1. Sound(sent) /\ sent.sessions = d.sessions /\ Hush(d, sent)
        /\ (ShouldEmit(v, hit) /\ ~CanQueue(d) => sent.lost)
    BY <1>1, <1>5
  <2> HIDE DEF sent
  <2> QED BY <1>0, <2>1 DEF Allocated
<1>7. w \in Session /\ w.state = "ACTIVE"
  <2>1. count \in Nat /\ left \in Nat BY <1>0 DEF Session
  <2> HIDE DEF count, left
  <2> QED BY <1>0, <2>1 DEF Session
<1>8. Sound(counted) /\ SameQueue(sent, counted) /\ s \in Allocated(counted)
  <2> HIDE DEF sent, w
  <2>1. /\ Sound(counted) /\ SameQueue(sent, counted)
        /\ counted.sessions = [d.sessions EXCEPT ![s] = w]
    BY <1>0, <1>6, <1>7, SetSessionSound, SetSessionType, SameQueues DEF Sound, DeviceOK
  <2> HIDE DEF counted
  <2> QED BY <1>0, <1>7, <2>1 DEF Allocated
<1>9. Hush(d, counted)
  <2> HIDE DEF sent, counted
  <2>1. Hush(sent, counted) BY <1>8, HushSame
  <2> QED BY <1>6, <2>1, HushTrans
<1>10. EmitRangingStream(d, s, hit) =
         IF BudgetReached(v) THEN StopAtBudget(d, s)
         ELSE IF ShouldEmit(v, hit) /\ ~CanQueue(d) THEN Outcome(sent, FALSE)
         ELSE IF BudgetReached(counted.sessions[s]) THEN StopAtBudget(counted, s)
         ELSE Outcome(counted, TRUE)
  <2>1. CountMeasurement(sent, s) = counted
    <3> HIDE DEF sent
    <3> QED BY <1>6 DEF CountMeasurement
  <2>2. sent = IF ShouldEmit(v, hit)
               THEN QueueNotification(IF ShouldEmit(v, hit) THEN numbered ELSE d, n)
               ELSE d
    OBVIOUS
  <2> HIDE DEF sent, counted
  <2> QED BY <2>1, <2>2 DEF EmitRangingStream
<1>11. LET o == StopAtBudget(counted, s) IN Hush(d, o.dev) /\ (o.ok \/ o.dev.lost)
  <2> HIDE DEF counted
  <2>1. LET o == StopAtBudget(counted, s) IN Hush(counted, o.dev) /\ (o.ok \/ o.dev.lost)
    BY <1>8, StopAtBudgetHush
  <2> QED BY <1>9, <2>1, HushTrans
<1>12. LET o == StopAtBudget(d, s) IN Hush(d, o.dev) /\ (o.ok \/ o.dev.lost)
  BY StopAtBudgetHush
<1> HIDE DEF sent, counted, v
<1> QED BY <1>6, <1>9, <1>10, <1>11, <1>12 DEF Outcome

LEMMA ProgressDataTransferHush ==
  ASSUME NEW d, Sound(d), NEW s \in Sid, Active(d, s)
  PROVE  LET o == ProgressDataTransfer(d, s) IN Hush(d, o.dev) /\ (o.ok \/ o.dev.lost)
<1> DEFINE v == d.sessions[s]
<1> DEFINE tx == (v.tx_count + 1) % TxModulus
<1> DEFINE left == v.reps_remaining - 1
<1> DEFINE a == [v EXCEPT !.tx_count = tx, !.reps_remaining = left]
<1> DEFINE f == [v EXCEPT !.tx_count = tx, !.in_progress = FALSE]
<1> DEFINE again == SetSession(d, s, a)
<1> DEFINE final == SetSession(d, s, f)
<1> DEFINE status(code) == DataStatusNtf(s, v.last_data, code, tx)
<1> DEFINE credit == DataCreditNtf(s)
<1> DEFINE credited == QueueNotification(final, credit)
<1> DEFINE ended == QueueNotification(credited, status("OK"))
<1> DEFINE repeated == QueueNotification(again, status("REPETITION_OK"))
<1>1. DeviceOK(d) /\ v \in Session /\ v.state = "ACTIVE" /\ s \in Allocated(d)
  BY SessionOf DEF Sound, Active, Allocated
<1>2. tx \in Nat BY <1>1, SizesAssumption DEF Session
<1>3. /\ status("OK") \in Packet /\ status("REPETITION_OK") \in Packet /\ credit \in Packet
      /\ Hushed(status("OK")) /\ Hushed(status("REPETITION_OK")) /\ Hushed(credit)
  <2>1. v.last_data \in Msg \cup {NoMsg} BY <1>1 DEF Session
  <2> HIDE DEF v, tx
  <2> QED BY <1>2, <2>1, PacketTypes, EventPacketsHushed DEF Codes
<1>5. ASSUME NEW x \in Session, x.state = v.state
      PROVE  LET r == SetSession(d, s, x) IN DeviceOK(r) /\ Hush(d, r)
  <2> DEFINE r == SetSession(d, s, x)
  <2>1. DeviceOK(r) /\ SameQueue(d, r)
    BY <1>1, <1>5, SetSessionType, SameQueues DEF DeviceOK
  <2> HIDE DEF r
  <2> QED BY <2>1, HushSame DEF r
<1>6. f \in Session /\ f.state = v.state
  <2> HIDE DEF tx
  <2> QED BY <1>1, <1>2 DEF Session
<1>7. v.reps_remaining > 0 => a \in Session /\ a.state = v.state
  <2>1. v.reps_remaining > 0 => left \in Nat BY <1>1 DEF Session
  <2> HIDE DEF tx, left, v
  <2> QED BY <1>1, <1>2, <2>1 DEF Session
<1>8. DeviceOK(final) /\ Hush(d, final)
  <2> HIDE DEF f, v
  <2> QED BY <1>5, <1>6
<1>9. v.reps_remaining > 0 => DeviceOK(again) /\ Hush(d, again)
  <2> HIDE DEF a, v
  <2> QED BY <1>5, <1>7
<1>10. v.reps_remaining > 0 => Hush(d, repeated) /\ (CanQueue(again) \/ repeated.lost)
  <2> HIDE DEF again, status, v
  <2> QED BY <1>3, <1>9, QueueHush, HushTrans
<1>11. DeviceOK(credited) /\ Hush(d, credited) /\ (CanQueue(final) \/ credited.lost)
  <2> HIDE DEF final, credit
  <2> QED BY <1>3, <1>8, QueueHush, HushTrans, QueueNotificationType
<1>12. Hush(d, ended) /\ (CanQueue(credited) \/ ended.lost)
  <2> HIDE DEF credited, status
  <2> QED BY <1>3, <1>11, QueueHush, HushTrans
<1>13. ProgressDataTransfer(d, s) =
         IF v.reps_remaining > 0 THEN Outcome(repeated, CanQueue(again))
         ELSE IF ~CanQueue(final) THEN Outcome(credited, FALSE)
         ELSE Outcome(ended, CanQueue(credited))
  BY DEF ProgressDataTransfer
<1> HIDE DEF v, again, final, credited, ended, repeated
<1> QED BY <1>10, <1>11, <1>12, <1>13 DEF Outcome

(* The engine left device d and queue out for g: it has lost a packet, or  *)
(* the host hears of links what it would have heard; nothing waits unless  *)
(* the scenario defers, and then nothing left.                             *)
Drained(d) == ShouldDefer \/ d.lost \/ d.pending = << >>
Heard(d, out, g) ==
  \/ g.dev.lost
  \/ /\ ~d.lost
     /\ \A v \in Views :
          After(After(v, g.out), g.dev.pending) = After(After(v, out), d.pending)
Kept(d, out, g) ==
  Heard(d, out, g) /\ Drained(g.dev) /\ (ShouldDefer => g.out = out)

LEMMA KeptOnDevice ==
  ASSUME NEW d, NEW m, NEW out \in Seq(Packet), NEW rc, Hush(d, m), Drained(m)
  PROVE  Kept(d, out, Engine(m, out, rc))
<1>1. \A v \in Views : After(v, out) \in Views BY AfterTyped
<1> QED BY <1>1 DEF Kept, Heard, Hush, Engine

LEMMA KeptAfter ==
  ASSUME NEW d, NEW m, NEW out \in Seq(Packet), NEW g, Hush(d, m), Kept(m, out, g)
  PROVE  Kept(d, out, g)
<1>1. \A v \in Views : After(v, out) \in Views BY AfterTyped
<1> QED BY <1>1 DEF Kept, Heard, Hush

LEMMA FlushKept ==
  ASSUME NEW d, Sound(d), NEW out, QueueOK(out)
  PROVE  Kept(d, out, FlushDeviceNotifications(d, out))
<1> DEFINE room == MAX_OUTBOUND_PACKETS - Len(out)
<1> DEFINE q == d.pending
<1> DEFINE n == Len(q)
<1>1. d \in DeviceState /\ q \in Seq(Packet) /\ out \in Seq(Packet)
  BY DEF Sound, DeviceOK, DeviceState, QueueOK
<1>2. CASE ShouldDefer
  BY <1>2 DEF FlushDeviceNotifications, Engine, Kept, Heard, Drained
<1>3. CASE ~ShouldDefer /\ n <= room
  <2> DEFINE d2 == [d EXCEPT !.pending = << >>]
  <2>1. FlushDeviceNotifications(d, out) = Engine(d2, out \o q, 0)
    BY <1>3 DEF FlushDeviceNotifications
  <2>2. d2.pending = << >> /\ d2.lost = d.lost BY <1>1 DEF DeviceState
  <2>3. \A v \in Views : After(After(v, out \o q), << >>) = After(After(v, out), q)
    <3> TAKE v \in Views
    <3>1. out \o q \in Seq(Packet) BY <1>1, ConcatProperties
    <3>2. After(v, out \o q) \in Views BY <3>1, AfterTyped
    <3> QED BY <1>1, <3>2, AfterNone, AfterConcat
  <2> HIDE DEF d2, q
  <2> QED BY <1>3, <2>1, <2>2, <2>3 DEF Kept, Heard, Drained, Engine, q
<1>4. CASE ~ShouldDefer /\ ~(n <= room)
  <2> DEFINE d2 == [d EXCEPT !.pending = SubSeq(@, room + 2, n), !.lost = TRUE]
  <2>1. FlushDeviceNotifications(d, out) = Engine(d2, out \o SubSeq(q, 1, room), 0)
    BY <1>4 DEF FlushDeviceNotifications
  <2>2. d2.lost BY <1>1 DEF DeviceState
  <2> HIDE DEF d2
  <2> QED BY <1>4, <2>1, <2>2 DEF Kept, Heard, Drained, Engine
<1> QED BY <1>2, <1>3, <1>4

LEMMA ContinueKept ==
  ASSUME NEW d, Sound(d), NEW out, QueueOK(out), NEW type, NEW s \in Sid, NEW goesOn \in BOOLEAN
  PROVE  Kept(d, out, Continue(d, out, type, s, goesOn))
<1> DEFINE f == FlushDeviceNotifications(d, out)
<1> DEFINE ms == d.sessions[s].interval
<1> DEFINE g == Continue(d, out, type, s, goesOn)
<1> DEFINE r == ScheduleEvent(f.dev, type, s, ms)
<1>1. Kept(d, out, f) /\ f.dev \in DeviceState
  BY FlushKept, FlushOK DEF EngineOK, Sound, DeviceOK
<1>2. SameQueue(f.dev, r)
  <2> HIDE DEF f, ms
  <2> QED BY <1>1, SameQueues
<1>3. g.out = f.out /\ (g.dev = f.dev \/ g.dev = r)
  <2> HIDE DEF f
  <2> QED BY DEF Continue, Engine, f
<1> HIDE DEF f, r, g
<1>4. Kept(d, out, g) BY <1>1, <1>2, <1>3 DEF Kept, Heard, Drained, SameQueue
<1> QED BY <1>4 DEF g

LEMMA ProcessReadyEventKept ==
  ASSUME NEW d, Sound(d), Drained(d), NEW out, QueueOK(out), NEW e, e.sid \in Sid,
         NEW hit \in BOOLEAN
  PROVE  Kept(d, out, ProcessReadyEvent(d, out, e, hit))
<1> DEFINE s == e.sid
<1>q. out \in Seq(Packet) BY DEF QueueOK
<1>0. Kept(d, out, Engine(d, out, 0))
  <2>1. Hush(d, d) BY DEF Hush, HeadKept
  <2> QED BY <1>q, <2>1, KeptOnDevice
<1>1. Kept(d, out, ProcessRangeData(d, out, s, hit))
  <2> DEFINE o == EmitRangingStream(d, s, hit)
  <2> DEFINE v == o.dev.sessions[s]
  <2> DEFINE goesOn == v.stream_remaining > 0 /\ v.state = "ACTIVE"
  <2>1. CASE s \notin Allocated(d) BY <1>0, <2>1 DEF ProcessRangeData
  <2>2. CASE s \in Allocated(d)
    <3>1. Sound(o.dev) /\ Hush(d, o.dev) /\ (o.ok \/ o.dev.lost)
      BY <2>2, EmitRangingStreamSound, EmitRangingStreamHush
    <3>2. goesOn \in BOOLEAN OBVIOUS
    <3>3. ProcessRangeData(d, out, s, hit) =
            IF ~o.ok THEN Engine(o.dev, out, -1)
            ELSE Continue(o.dev, out, "RANGE_DATA", s, goesOn)
      BY <2>2 DEF ProcessRangeData
    <3> DEFINE m == o.dev
    <3>4. Sound(m) /\ Hush(d, m) /\ (o.ok \/ m.lost) BY <3>1
    <3> HIDE DEF goesOn, m
    <3>5. Kept(d, out, Continue(m, out, "RANGE_DATA", s, goesOn))
      BY <1>q, <3>2, <3>4, ContinueKept, KeptAfter
    <3>6. ~o.ok => Kept(d, out, Engine(m, out, -1))
      BY <1>q, <3>4, KeptOnDevice DEF Drained
    <3> QED BY <3>3, <3>5, <3>6 DEF m
  <2> QED BY <2>1, <2>2
<1>2. Kept(d, out, ProcessDataTransfer(d, out, s))
  <2> DEFINE o == ProgressDataTransfer(d, s)
  <2> DEFINE goesOn == o.dev.sessions[s].in_progress
  <2>1. CASE ~Active(d, s) \/ ~d.sessions[s].in_progress
    BY <1>0, <2>1 DEF ProcessDataTransfer
  <2>2. CASE ~(~Active(d, s) \/ ~d.sessions[s].in_progress)
    <3>1. Sound(o.dev) /\ Hush(d, o.dev) /\ (o.ok \/ o.dev.lost)
      BY <2>2, ProgressDataTransferSound, ProgressDataTransferHush
    <3> DEFINE m == o.dev
    <3>2. goesOn \in BOOLEAN
      <4>1. m.sessions[s] \in Session
        <5> HIDE DEF o
        <5> QED BY <3>1, SessionOf DEF Sound
      <4> HIDE DEF o
      <4> QED BY <4>1 DEF Session
    <3>3. ProcessDataTransfer(d, out, s) =
            IF ~o.ok THEN Engine(o.dev, out, -1)
            ELSE Continue(o.dev, out, "DATA_TRANSFER", s, goesOn)
      BY <2>2 DEF ProcessDataTransfer
    <3>4. Sound(m) /\ Hush(d, m) /\ (o.ok \/ m.lost) BY <3>1
    <3> HIDE DEF goesOn, m
    <3>5. Kept(d, out, Continue(m, out, "DATA_TRANSFER", s, goesOn))
      BY <1>q, <3>2, <3>4, ContinueKept, KeptAfter
    <3>6. ~o.ok => Kept(d, out, Engine(m, out, -1))
      BY <1>q, <3>4, KeptOnDevice DEF Drained
    <3> QED BY <3>3, <3>5, <3>6 DEF m
  <2> QED BY <2>1, <2>2
<1> QED BY <1>1, <1>2 DEF ProcessReadyEvent

LEMMA EngineTickKept ==
  ASSUME NEW d, Sound(d), Drained(d), NEW out, QueueOK(out), NEW ms \in Nat,
         NEW hit \in BOOLEAN
  PROVE  Kept(d, out, EngineTick(d, out, ms, hit))
<1> DEFINE t == TickEvents(d, ms)
<1> DEFINE R == ReadyEvents(t)
<1> DEFINE e == FirstReadyEvent(t)
<1>1. /\ DeviceOK(t) /\ t.sessions = d.sessions /\ EventsFrom(t, d)
      /\ DenseSet(t.events) /\ SameQueue(d, t)
  BY TickEventsType, SameQueues DEF Sound, DeviceOK
<1>2. Sound(t)
  <2> HIDE DEF t
  <2> QED BY <1>1, QuietFrame DEF Sound
<1>3. Hush(d, t) /\ Drained(t) BY <1>1, HushSame DEF SameQueue, Drained
<1>4. CASE R = {}
  <2>1. EngineTick(d, out, ms, hit) = Engine(t, out, 0) BY <1>4, EngineTickIs
  <2> QED BY <1>3, <2>1, KeptOnDevice DEF QueueOK
<1>5. CASE R # {}
  <2>1. e \in t.events /\ e \in Event BY <1>5, EngineTickIs
  <2>3. e.sid \in Sid BY <2>1 DEF Event
  <2> DEFINE m == RemoveEvent(t, e)
  <2>9. EngineTick(d, out, ms, hit) = ProcessReadyEvent(m, out, e, hit)
    BY <1>5, EngineTickIs
  <2> HIDE DEF t, e
  <2>4. /\ DeviceOK(m) /\ m.sessions = t.sessions /\ EventsFrom(m, t)
        /\ DenseSet(m.events) /\ SameQueue(t, m)
    BY <1>1, <2>1, RemoveEventType, SameQueues DEF DeviceOK
  <2>5. Sound(m)
    <3> HIDE DEF m
    <3> QED BY <1>2, <2>4, QuietFrame DEF Sound
  <2> HIDE DEF m
  <2>6. Hush(t, m) /\ Drained(m) BY <1>3, <2>4, HushSame DEF SameQueue, Drained
  <2>7. Hush(d, m) BY <1>3, <2>6, HushTrans
  <2>8. Kept(m, out, ProcessReadyEvent(m, out, e, hit))
    BY <2>3, <2>5, <2>6, ProcessReadyEventKept
  <2> QED BY <2>7, <2>8, <2>9, KeptAfter DEF QueueOK
<1> QED BY <1>4, <1>5

-----------------------------------------------------------------------------
(* What a handler says.  Speaks(d, res, L): on device d the handler gave   *)
(* the result res.  Its response says nothing of links; unless a packet is *)
(* lost, its notification and the pending queue say what the queue of d    *)
(* said, and then L; and when the scenario defers, it hands over no        *)
(* session status, and what waited first still does, unless a reset        *)
(* dropped it.                                                             *)

NotStatus(q) == \A i \in DOMAIN q : q[i].kind # "SESSION_STATUS"
Plain(q) == \A i \in DOMAIN q : q[i].kind = "RSP"
WaitsOn(d, r) ==
  d.pending # << >> =>
    /\ r.pending # << >>
    /\ Head(r.pending) = Head(d.pending) \/ Head(r.pending).kind # "SESSION_STATUS"
Tell(v, res) == After(After(v, res.ntf), res.dev.pending)
Speaks(d, res, L) ==
  /\ Plain(res.rsp)
  /\ \/ res.dev.lost
     \/ ~d.lost /\ \A v \in Views : Tell(v, res) = After(After(v, d.pending), L)
  /\ ShouldDefer => NotStatus(res.ntf) /\ WaitsOn(d, res.dev)

(* One more notification in the pending queue.                             *)
LEMMA QueueSays ==
  ASSUME NEW d, DeviceOK(d), NEW n \in Packet
  PROVE  LET r == QueueNotification(d, n)
         IN  /\ \/ r.lost
                \/ ~d.lost /\ \A v \in Views :
                                After(v, r.pending) = After(After(v, d.pending), <<n>>)
             /\ HeadKept(d, r)
<1> DEFINE r == QueueNotification(d, n)
<1> DEFINE p == d.pending
<1>1. d \in DeviceState /\ p \in Seq(Packet) /\ d.lost \in BOOLEAN BY DEF DeviceOK, DeviceState
<1>2. CASE CanQueue(d)
  <2>1. r.pending = Append(p, n) /\ r.lost = d.lost
    BY <1>1, <1>2 DEF QueueNotification, DeviceState
  <2> HIDE DEF p, r
  <2>2. Append(p, n) = p \o <<n>> /\ <<n>> \in Seq(Packet) BY <1>1, AppendIsConcat
  <2>3. \A v \in Views : After(v, r.pending) = After(After(v, p), <<n>>)
    <3> TAKE v \in Views
    <3>1. After(v, p \o <<n>>) = After(After(v, p), <<n>>) BY <1>1, <2>2, AfterConcat
    <3> QED BY <2>1, <2>2, <3>1
  <2>4. p # << >> => Append(p, n) # << >> /\ Head(Append(p, n)) = Head(p)
    BY <1>1
  <2> QED BY <1>1, <2>1, <2>3, <2>4 DEF HeadKept, p, r
<1>3. CASE ~CanQueue(d)
  <2>1. r.lost /\ r.pending = p BY <1>1, <1>3 DEF QueueNotification, DeviceState
  <2> HIDE DEF r
  <2> QED BY <2>1 DEF HeadKept, r
<1> QED BY <1>2, <1>3

LEMMA OptPacketSeq ==
  ASSUME NEW x \in OptPacket
  PROVE  x \in Seq(Packet)
<1>1. CASE x = << >> BY <1>1, EmptySeq
<1>2. CASE x # << >>
  <2>1. PICK p \in Packet : x = <<p>> BY <1>2 DEF OptPacket
  <2>2. <<p>> \in Seq(Packet) OBVIOUS
  <2> QED BY <2>1, <2>2
<1> QED BY <1>1, <1>2

LEMMA AfterHushed ==
  ASSUME NEW v \in Views, NEW n \in Packet, Hushed(n)
  PROVE  After(v, <<n>>) = v
BY AfterOne DEF Hushed

(* What a hushed packet adds may be left out.                              *)
LEMMA SpeaksHushed ==
  ASSUME NEW d, DeviceOK(d), NEW res, NEW n \in Packet, Hushed(n), Speaks(d, res, <<n>>)
  PROVE  Speaks(d, res, << >>)
<1>1. d.pending \in Seq(Packet) BY DEF DeviceOK, DeviceState
<1>2. ASSUME NEW v \in Views
      PROVE  After(After(v, d.pending), <<n>>) = After(After(v, d.pending), << >>)
  BY <1>1, AfterTyped, AfterHushed, AfterNone
<1> QED BY <1>2 DEF Speaks

(* The device of a result is replaced by one with the same queue.          *)
LEMMA SpeaksOn ==
  ASSUME NEW d, NEW res, ResultTyped(res), NEW L, Speaks(d, res, L),
         NEW r, SameQueue(res.dev, r)
  PROVE  Speaks(d, [res EXCEPT !.dev = r], L)
<1> DEFINE r2 == [res EXCEPT !.dev = r]
<1>1. r2.dev = r /\ r2.rsp = res.rsp /\ r2.ntf = res.ntf
  BY DEF ResultTyped, ResultType
<1> HIDE DEF r2
<1>2. Speaks(d, r2, L) BY <1>1 DEF Speaks, Tell, WaitsOn, SameQueue
<1> QED BY <1>2 DEF r2

LEMMA Responses ==
  ASSUME NEW code
  PROVE  Plain(<<MakeStatusResponse(code)>>) /\ Plain(<< >>) /\ NotStatus(<< >>)
BY DEF Plain, NotStatus, MakeStatusResponse, MakePacket

(* A response, and a device whose queue says the same.                     *)
LEMMA RespondSpeaks ==
  ASSUME NEW d, DeviceOK(d), NEW r, Hush(d, r), NEW code
  PROVE  Speaks(d, Respond(r, code), << >>) /\ Speaks(d, Reject(r, code), << >>)
<1>1. d.pending \in Seq(Packet) BY DEF DeviceOK, DeviceState
<1>2. ASSUME NEW v \in Views
      PROVE  After(v, << >>) = v /\ After(After(v, d.pending), << >>) = After(v, d.pending)
  BY <1>1, AfterTyped, AfterNone
<1>3. ASSUME NEW rsp, Plain(rsp), NEW rc
      PROVE  Speaks(d, Result(r, rsp, << >>, rc), << >>)
  <2> DEFINE res == Result(r, rsp, << >>, rc)
  <2>1. res.dev = r /\ res.rsp = rsp /\ res.ntf = << >> BY DEF Result
  <2> HIDE DEF res
  <2>2. Speaks(d, res, << >>)
    BY <1>2, <1>3, <2>1, Responses DEF Speaks, Tell, Hush, HeadKept, WaitsOn
  <2> QED BY <2>2 DEF res
<1> QED BY <1>3, Responses DEF Respond, Reject

(* The same without a response.                                            *)
LEMMA SilentSpeaks ==
  ASSUME NEW d, DeviceOK(d), NEW r, Hush(d, r), NEW rc
  PROVE  Speaks(d, Result(r, << >>, << >>, rc), << >>)
<1>1. d.pending \in Seq(Packet) BY DEF DeviceOK, DeviceState
<1>2. ASSUME NEW v \in Views
      PROVE  After(v, << >>) = v /\ After(After(v, d.pending), << >>) = After(v, d.pending)
  BY <1>1, AfterTyped, AfterNone
<1> DEFINE res == Result(r, << >>, << >>, rc)
<1>3. res.dev = r /\ res.rsp = << >> /\ res.ntf = << >> BY DEF Result
<1> HIDE DEF res
<1>4. Speaks(d, res, << >>)
  BY <1>2, <1>3, Responses DEF Speaks, Tell, Hush, HeadKept, WaitsOn
<1> QED BY <1>4 DEF res

(* A response and a notification, at once or deferred.                     *)
LEMMA AnnounceSpeaks ==
  ASSUME NEW d, DeviceOK(d), Drained(d), NEW d1, DeviceOK(d1), SameQueue(d, d1),
         NEW n \in Packet
  PROVE  Speaks(d, DeliverNotification(Respond(d1, "OK"), n), <<n>>)
<1> DEFINE r == Respond(d1, "OK")
<1> DEFINE res == DeliverNotification(r, n)
<1>1. d.pending \in Seq(Packet) /\ d.lost \in BOOLEAN BY DEF DeviceOK, DeviceState
<1>2. r \in ResultType /\ r.dev = d1 /\ r.ntf = << >> /\ Plain(r.rsp)
  <2>1. ResultTyped(r) BY RespondTyped DEF Codes
  <2>2. r.dev = d1 /\ r.ntf = << >> /\ r.rsp = <<MakeStatusResponse("OK")>>
    BY DEF Respond, Result
  <2> QED BY <2>1, <2>2, Responses DEF ResultTyped
<1>3. CASE ~ShouldDefer
  <2>1. res = [r EXCEPT !.ntf = <<n>>] BY <1>2, <1>3 DEF DeliverNotification
  <2> HIDE DEF r, res
  <2>2. res.dev = d1 /\ res.ntf = <<n>> /\ res.rsp = r.rsp BY <1>2, <2>1 DEF ResultType
  <2>3. d1.pending = d.pending /\ d1.lost = d.lost BY DEF SameQueue
  <2>4. <<n>> \in Seq(Packet) OBVIOUS
  <2>5. ~d.lost => \A v \in Views : Tell(v, res) = After(After(v, d.pending), <<n>>)
    <3> SUFFICES ASSUME ~d.lost, NEW v \in Views
                 PROVE  Tell(v, res) = After(After(v, d.pending), <<n>>)
      OBVIOUS
    <3>1. d.pending = << >> BY <1>3 DEF Drained
    <3>2. After(v, <<n>>) \in Views BY <2>4, AfterTyped
    <3>3. Tell(v, res) = After(v, <<n>>) BY <2>2, <2>3, <3>1, <3>2, AfterNone DEF Tell
    <3> QED BY <3>1, <3>3, AfterNone
  <2>6. Speaks(d, res, <<n>>) BY <1>1, <1>2, <1>3, <2>2, <2>3, <2>5 DEF Speaks
  <2> QED BY <2>6 DEF res, r
<1>4. CASE ShouldDefer
  <2> DEFINE m == QueueNotification(d1, n)
  <2>1. res = [r EXCEPT !.dev = m] BY <1>2, <1>4 DEF DeliverNotification
  <2>2. /\ \/ m.lost
           \/ ~d1.lost /\ \A v \in Views :
                            After(v, m.pending) = After(After(v, d1.pending), <<n>>)
        /\ HeadKept(d1, m)
    BY QueueSays
  <2> HIDE DEF r, res, m
  <2>3. res.dev = m /\ res.ntf = << >> /\ res.rsp = r.rsp BY <1>2, <2>1 DEF ResultType
  <2>4. d1.pending = d.pending /\ d1.lost = d.lost BY DEF SameQueue
  <2>5. \A v \in Views : Tell(v, res) = After(v, m.pending) BY <2>3, AfterNone DEF Tell
  <2>6. NotStatus(res.ntf) BY <2>3, Responses
  <2>7. WaitsOn(d, res.dev) BY <2>2, <2>3, <2>4 DEF HeadKept, WaitsOn
  <2>8. Speaks(d, res, <<n>>) BY <1>2, <2>2, <2>3, <2>4, <2>5, <2>6, <2>7 DEF Speaks
  <2> QED BY <2>8 DEF res, r
<1> QED BY <1>3, <1>4

(* CORE_DEVICE_RESET drops what was pending; its notification tells the    *)
(* host to forget all links.                                               *)
LEMMA DeviceResetSpeaks ==
  ASSUME NEW d, Sound(d)
  PROVE  Speaks(d, HandleDeviceReset(d), <<DeviceStatusNtf>>)
<1> DEFINE n == DeviceStatusNtf
<1> DEFINE d0 == [InitDevice EXCEPT !.lost = d.lost]
<1> DEFINE r == Respond(d0, "OK")
<1> DEFINE res == DeliverNotification(r, n)
<1> DEFINE none == [s \in Sid |-> {}]
<1>1. d.pending \in Seq(Packet) /\ d.lost \in BOOLEAN BY DEF Sound, DeviceOK, DeviceState
<1>2. d0.pending = << >> /\ d0.lost = d.lost /\ DeviceOK(d0)
  <2>1. d0.pending = << >> /\ d0.lost = d.lost BY DEF InitDevice
  <2> QED BY <1>1, <2>1, InitDeviceSound DEF Sound
<1> HIDE DEF d0
<1>3. r \in ResultType /\ r.dev = d0 /\ r.ntf = << >> /\ Plain(r.rsp)
  <2>1. ResultTyped(r) BY <1>2, RespondTyped DEF Codes
  <2>2. r.dev = d0 /\ r.ntf = << >> /\ r.rsp = <<MakeStatusResponse("OK")>>
    BY DEF Respond, Result
  <2> QED BY <2>1, <2>2, Responses DEF ResultTyped
<1>4. n \in Packet /\ n.kind = "DEVICE_STATUS" BY PacketTypes DEF DeviceStatusNtf, MakePacket
<1> HIDE DEF n, r
<1>5. <<n>> \in Seq(Packet) BY <1>4
<1>6. \A v \in Views : After(v, <<n>>) = none /\ After(v, <<n>>) \in Views
  BY <1>4, <1>5, AfterOne, AfterTyped DEF HearLinks
<1>7. \A v \in Views : After(After(v, d.pending), <<n>>) = none BY <1>1, <1>6, AfterTyped
<1>8. CASE ~ShouldDefer
  <2>1. res = [r EXCEPT !.ntf = <<n>>] BY <1>3, <1>8 DEF DeliverNotification
  <2>2. res.dev = d0 /\ res.ntf = <<n>> /\ res.rsp = r.rsp BY <1>3, <2>1 DEF ResultType
  <2> HIDE DEF res
  <2>3. \A v \in Views : Tell(v, res) = After(v, <<n>>) BY <1>2, <1>6, <2>2, AfterNone DEF Tell
  <2> QED BY <1>1, <1>2, <1>3, <1>6, <1>7, <1>8, <2>2, <2>3
          DEF Speaks, HandleDeviceReset, res, r, d0, n
<1>9. CASE ShouldDefer
  <2> DEFINE m == QueueNotification(d0, n)
  <2>1. res = [r EXCEPT !.dev = m] BY <1>3, <1>9 DEF DeliverNotification
  <2>2. m.pending = <<n>> /\ m.lost = d.lost
    <3>1. CanQueue(d0)
      <4>1. Len(d0.pending) = 0 BY <1>2, EmptySeq
      <4> QED BY <4>1, SizesAssumption DEF CanQueue
    <3> QED BY <1>2, <3>1 DEF QueueNotification, DeviceOK, DeviceState
  <2> HIDE DEF m
  <2>3. res.dev = m /\ res.ntf = << >> /\ res.rsp = r.rsp BY <1>3, <2>1 DEF ResultType
  <2> HIDE DEF res
  <2>4. \A v \in Views : Tell(v, res) = After(v, <<n>>) BY <2>2, <2>3, AfterNone DEF Tell
  <2>5. NotStatus(res.ntf) BY <2>3, Responses
  <2>6. WaitsOn(d, res.dev)
    <3>1. <<n>> # << >> /\ Head(<<n>>) = n OBVIOUS
    <3> QED BY <1>4, <2>2, <2>3, <3>1 DEF WaitsOn
  <2> QED BY <1>1, <1>3, <1>6, <1>7, <2>2, <2>3, <2>4, <2>5, <2>6
          DEF Speaks, HandleDeviceReset, res, r, d0, n
<1> QED BY <1>8, <1>9

(* A generic error says nothing of links.                                  *)
LEMMA ErrorSpeaks ==
  ASSUME NEW d, NEW res, ResultTyped(res), NEW L, Speaks(d, res, L),
         NEW n \in Packet, n.kind = "GENERIC_ERROR"
  PROVE  Speaks(d, DeliverNotification(res, n), L)
<1> DEFINE r2 == DeliverNotification(res, n)
<1> DEFINE q == res.dev.pending
<1>1. /\ res \in ResultType /\ DeviceOK(res.dev) /\ q \in Seq(Packet)
      /\ res.ntf \in Seq(Packet)
  BY OptPacketSeq DEF ResultTyped, ResultType, DeviceOK, DeviceState
<1>2. Hushed(n) BY HushedKinds
<1>3. CASE ~ShouldDefer /\ res.ntf = << >>
  <2>1. r2 = [res EXCEPT !.ntf = <<n>>] BY <1>3 DEF DeliverNotification
  <2>2. r2.dev = res.dev /\ r2.ntf = <<n>> /\ r2.rsp = res.rsp BY <1>1, <2>1 DEF ResultType
  <2> HIDE DEF r2
  <2>3. \A v \in Views : Tell(v, r2) = Tell(v, res)
    BY <1>2, <1>3, <2>2, AfterHushed, AfterNone DEF Tell
  <2> QED BY <1>3, <2>2, <2>3 DEF Speaks, r2
<1>4. CASE ~(~ShouldDefer /\ res.ntf = << >>)
  <2> DEFINE m == QueueNotification(res.dev, n)
  <2>1. r2 = [res EXCEPT !.dev = m] BY <1>4 DEF DeliverNotification
  <2>2. Hush(res.dev, m) BY <1>1, <1>2, QueueHush
  <2> HIDE DEF m
  <2>3. r2.dev = m /\ r2.ntf = res.ntf /\ r2.rsp = res.rsp BY <1>1, <2>1 DEF ResultType
  <2> HIDE DEF r2
  <2>4. \A v \in Views : After(v, res.ntf) \in Views BY <1>1, AfterTyped
  <2>5. m.lost \/ (~res.dev.lost /\ \A v \in Views : Tell(v, r2) = Tell(v, res))
    BY <2>2, <2>3, <2>4 DEF Hush, Tell
  <2>6. WaitsOn(d, res.dev) => WaitsOn(d, m) BY <2>2 DEF WaitsOn, Hush, HeadKept
  <2> QED BY <2>3, <2>5, <2>6 DEF Speaks, r2
<1> QED BY <1>3, <1>4

(* Handing over the first pending notification keeps the order.  What it   *)
(* hands over when the scenario defers is what waited first before the     *)
(* command.                                                                *)
HandsOver(d, ntf) ==
  \A i \in DOMAIN ntf : ntf[i].kind = "SESSION_STATUS" =>
    d.pending # << >> /\ ntf[i] = Head(d.pending)
Submits(d, res, L) ==
  /\ Plain(res.rsp)
  /\ \/ res.dev.lost
     \/ ~d.lost /\ \A v \in Views : Tell(v, res) = After(After(v, d.pending), L)
  /\ ShouldDefer => HandsOver(d, res.ntf)
  /\ res.ntf = << >> => Drained(res.dev)

LEMMA FinalizeSubmits ==
  ASSUME NEW d, DeviceOK(d), NEW res, ResultTyped(res), NEW L, Speaks(d, res, L)
  PROVE  Submits(d, FinalizeResult(res, Len(d.pending)), L)
<1> DEFINE r2 == FinalizeResult(res, Len(d.pending))
<1> DEFINE q == res.dev.pending
<1>1. /\ res \in ResultType /\ q \in Seq(Packet) /\ res.ntf \in Seq(Packet)
      /\ d.pending \in Seq(Packet) /\ res.dev \in DeviceState
  BY OptPacketSeq DEF ResultTyped, ResultType, DeviceOK, DeviceState
<1>2. CASE res.ntf # << >> \/ (ShouldDefer /\ Len(d.pending) = 0) \/ q = << >>
  <2>1. r2 = res BY <1>2 DEF FinalizeResult
  <2>2. ShouldDefer => HandsOver(d, res.ntf) BY DEF Speaks, HandsOver, NotStatus
  <2>3. res.ntf = << >> => Drained(res.dev) BY <1>2 DEF Drained
  <2> QED BY <2>1, <2>2, <2>3 DEF Speaks, Submits
<1>3. CASE ~(res.ntf # << >> \/ (ShouldDefer /\ Len(d.pending) = 0) \/ q = << >>)
  <2> DEFINE h == Head(q)
  <2> DEFINE t == Tail(q)
  <2> DEFINE d2 == [res.dev EXCEPT !.pending = t]
  <2>1. r2 = [res EXCEPT !.ntf = <<h>>, !.dev.pending = t] BY <1>3 DEF FinalizeResult
  <2>2. h \in Packet /\ t \in Seq(Packet) /\ q = <<h>> \o t
    <3>1. q # << >> BY <1>3
    <3> HIDE DEF q
    <3> QED BY <1>1, <3>1
  <2>3. d2.pending = t /\ d2.lost = res.dev.lost BY <1>1 DEF DeviceState
  <2>4. r2.dev = d2 /\ r2.ntf = <<h>> /\ r2.rsp = res.rsp
    <3>1. d2 = [res.dev EXCEPT !.pending = t] OBVIOUS
    <3> HIDE DEF d2, h, t
    <3>2. r2 = [res EXCEPT !.ntf = <<h>>, !.dev = d2] BY <1>1, <2>1, <3>1 DEF ResultType
    <3> HIDE DEF r2
    <3> QED BY <1>1, <3>2 DEF ResultType
  <2> HIDE DEF r2, d2, h, t
  <2>5. \A v \in Views : Tell(v, r2) = Tell(v, res)
    <3> TAKE v \in Views
    <3>1. <<h>> \in Seq(Packet) BY <2>2
    <3>2. After(v, <<h>> \o t) = After(After(v, <<h>>), t) BY <2>2, <3>1, AfterConcat
    <3>3. Tell(v, res) = After(v, q) BY <1>3, AfterNone DEF Tell
    <3> QED BY <2>2, <2>3, <2>4, <3>2, <3>3 DEF Tell
  <2>6. ShouldDefer => HandsOver(d, <<h>>)
    <3> SUFFICES ASSUME ShouldDefer PROVE HandsOver(d, <<h>>) OBVIOUS
    <3>1. d.pending # << >> BY <1>1, <1>3, EmptySeq
    <3>2. h = Head(d.pending) \/ h.kind # "SESSION_STATUS"
      BY <3>1 DEF Speaks, WaitsOn, h
    <3>3. \A i \in DOMAIN <<h>> : <<h>>[i] = h OBVIOUS
    <3> QED BY <3>1, <3>2, <3>3 DEF HandsOver
  <2>7. <<h>> # << >> OBVIOUS
  <2>8. Submits(d, r2, L) BY <2>3, <2>4, <2>5, <2>6, <2>7 DEF Speaks, Submits
  <2> QED BY <2>8 DEF r2
<1> QED BY <1>2, <1>3

(* What the engine call made of it: device d and queue out became g.       *)
Late(d, out, q) ==
  \A i \in Len(out) + 1 .. Len(q) : q[i].kind = "SESSION_STATUS" =>
    d.pending # << >> /\ q[i] = Head(d.pending)
Told(d, out, g, L) ==
  /\ Drained(g.dev)
  /\ \/ g.dev.lost
     \/ /\ ~d.lost
        /\ \A v \in Views : After(After(v, g.out), g.dev.pending)
                              = After(After(After(v, out), d.pending), L)
  /\ ShouldDefer => Late(d, out, g.out)

(* Appending at most one packet to the queue.                              *)
LEMMA LateAppend ==
  ASSUME NEW d, NEW out \in Seq(Packet), NEW q \in Seq(Packet), Late(d, out, q),
         Len(out) <= Len(q), NEW x \in OptPacket, HandsOver(d, x)
  PROVE  Late(d, out, q \o x) /\ Len(out) <= Len(q \o x)
<1>1. x \in Seq(Packet) /\ Len(x) \in Nat /\ Len(q) \in Nat /\ Len(out) \in Nat
      /\ DOMAIN x = 1 .. Len(x)
  BY OptPacketSeq, LenProperties
<1>2. /\ Len(q \o x) = Len(q) + Len(x)
      /\ \A i \in 1 .. Len(q) + Len(x) :
           (q \o x)[i] = IF i <= Len(q) THEN q[i] ELSE x[i - Len(q)]
  BY <1>1, ConcatProperties
<1> DEFINE c == q \o x
<1> DEFINE m == Len(q)
<1> DEFINE n == Len(x)
<1> DEFINE k == Len(out)
<1>3. ASSUME NEW i \in k + 1 .. Len(c), c[i].kind = "SESSION_STATUS"
      PROVE  d.pending # << >> /\ c[i] = Head(d.pending)
  <2> HIDE DEF c, m, n, k
  <2>1. m \in Nat /\ n \in Nat /\ k \in Nat /\ Len(c) = m + n /\ k <= m
    BY <1>1, <1>2 DEF c, m, n, k
  <2>2. i \in 1 .. m + n BY <2>1
  <2>3. c[i] = IF i <= m THEN q[i] ELSE x[i - m] BY <1>2, <2>2 DEF c, m, n
  <2>4. CASE i <= m
    <3>1. i \in k + 1 .. m BY <2>1, <2>2, <2>4
    <3> QED BY <1>3, <2>3, <2>4, <3>1 DEF Late, k, m
  <2>5. CASE ~(i <= m)
    <3>1. i - m \in 1 .. n BY <2>1, <2>2, <2>5
    <3> QED BY <1>1, <1>3, <2>3, <2>5, <3>1 DEF HandsOver, n
  <2> QED BY <2>4, <2>5
<1>4. k <= m + n
  <2> HIDE DEF k, m, n
  <2> QED BY <1>1 DEF k, m, n
<1> QED BY <1>2, <1>3, <1>4 DEF Late

(* Nothing new in the queue.                                               *)
LEMMA LateNone ==
  ASSUME NEW d, NEW out \in Seq(Packet)
  PROVE  Late(d, out, out) /\ Len(out) <= Len(out)
<1>1. Len(out) \in Nat BY LenProperties
<1>2. \A i : i \notin Len(out) + 1 .. Len(out) BY <1>1
<1> QED BY <1>1, <1>2 DEF Late

LEMMA PlainHandsOver ==
  ASSUME NEW d, NEW x, Plain(x)
  PROVE  HandsOver(d, x)
BY DEF Plain, HandsOver

LEMMA PlainSaysNothing ==
  ASSUME NEW x \in OptPacket, Plain(x), NEW v \in Views
  PROVE  After(v, x) = v
<1>1. CASE x = << >> BY <1>1, AfterNone
<1>2. CASE x # << >>
  <2>1. PICK p \in Packet : x = <<p>> BY <1>2 DEF OptPacket
  <2>2. p.kind = "RSP"
    <3>1. 1 \in DOMAIN <<p>> /\ <<p>>[1] = p OBVIOUS
    <3> QED BY <2>1, <3>1 DEF Plain
  <2>3. Hushed(p) BY <2>2, HushedKinds
  <2> QED BY <2>1, <2>3, AfterHushed
<1> QED BY <1>1, <1>2

(* uci_sim_engine_submit_packet, on each of its return paths.              *)
LEMMA EngineSubmitTold ==
  ASSUME NEW d, DeviceOK(d), NEW out, QueueOK(out), NEW res, ResultOK(res),
         NEW L, Submits(d, res, L), NEW hit \in BOOLEAN
  PROVE  Told(d, out, EngineSubmit(res, out, hit), L)
<1> DEFINE out1 == out \o res.rsp
<1> DEFINE out2 == out1 \o res.ntf
<1> DEFINE f == FlushDeviceNotifications(res.dev, out2)
<1> DEFINE g == EngineSubmit(res, out, hit)
<1>0. /\ Sound(res.dev) /\ res.rsp \in OptPacket /\ res.ntf \in OptPacket
      /\ out \in Seq(Packet) /\ d.pending \in Seq(Packet) /\ res.dev \in DeviceState
  BY DEF ResultOK, ResultTyped, ResultType, QueueOK, DeviceOK, DeviceState
<1>1. Lose(res.dev).lost BY <1>0 DEF Lose, DeviceState
<1>2. Late(d, out, out) /\ Len(out) <= Len(out) BY <1>0, LateNone
<1>3. out1 \in Seq(Packet) /\ Late(d, out, out1) /\ Len(out) <= Len(out1)
  <2>1. res.rsp \in Seq(Packet) BY <1>0, OptPacketSeq
  <2>2. HandsOver(d, res.rsp) BY PlainHandsOver DEF Submits
  <2> QED BY <1>0, <1>2, <2>1, <2>2, LateAppend, ConcatProperties
<1> HIDE DEF out1
<1>4. CASE res.rc # 0 /\ res.rsp = << >> /\ res.ntf = << >>
  <2>1. g = Engine(res.dev, out, -1) BY <1>4 DEF EngineSubmit
  <2>2. g.dev = res.dev /\ g.out = out BY <2>1 DEF Engine
  <2> HIDE DEF g
  <2>3. \A v \in Views : Tell(v, res) = After(v, res.dev.pending)
    BY <1>4, AfterNone DEF Tell
  <2>4. \A v \in Views : After(v, out) \in Views BY <1>0, AfterTyped
  <2>5. Told(d, out, g, L) BY <1>2, <1>4, <2>2, <2>3, <2>4 DEF Submits, Told
  <2> QED BY <2>5 DEF g
<1>5. CASE /\ ~(res.rc # 0 /\ res.rsp = << >> /\ res.ntf = << >>)
           /\ res.rsp # << >> /\ ~HasRoom(out)
  <2>1. g = Engine(Lose(res.dev), out, -1) BY <1>5 DEF EngineSubmit
  <2> HIDE DEF g
  <2>2. Told(d, out, g, L) BY <1>1, <1>2, <2>1 DEF Told, Engine, Drained
  <2> QED BY <2>2 DEF g
<1>6. CASE /\ ~(res.rc # 0 /\ res.rsp = << >> /\ res.ntf = << >>)
           /\ ~(res.rsp # << >> /\ ~HasRoom(out))
           /\ res.ntf # << >> /\ ~HasRoom(out1)
  <2>1. g = Engine(Lose(res.dev), out1, -1) BY <1>6 DEF EngineSubmit, out1
  <2> HIDE DEF g
  <2>2. Told(d, out, g, L) BY <1>1, <1>3, <2>1 DEF Told, Engine, Drained
  <2> QED BY <2>2 DEF g
<1>7. CASE /\ ~(res.rc # 0 /\ res.rsp = << >> /\ res.ntf = << >>)
           /\ ~(res.rsp # << >> /\ ~HasRoom(out))
           /\ ~(res.ntf # << >> /\ ~HasRoom(out1))
  <2>1. QueueOK(out1) BY <1>0, <1>7, OptPacketAppend DEF out1
  <2>2. QueueOK(out2) BY <1>0, <1>7, <2>1, OptPacketAppend
  <2>3. EngineOK(f) /\ Kept(res.dev, out2, f)
    <3> HIDE DEF out2
    <3> QED BY <1>0, <2>2, FlushOK, FlushKept
  <2>4. g = EngineTick(f.dev, f.out, 0, hit) BY <1>7 DEF EngineSubmit, out1
  <2>5. ShouldDefer => Late(d, out, out2)
    BY <1>0, <1>3, LateAppend DEF Submits
  <2>6. \A v \in Views : After(After(v, out2), res.dev.pending) = Tell(After(v, out), res)
                         /\ After(v, out) \in Views
    <3> TAKE v \in Views
    <3>1. res.rsp \in Seq(Packet) /\ res.ntf \in Seq(Packet) BY <1>0, OptPacketSeq
    <3>2. After(v, out) \in Views BY <1>0, AfterTyped
    <3>3. After(v, out1) = After(After(v, out), res.rsp) BY <1>0, <3>1, AfterConcat DEF out1
    <3>4. After(v, out1) = After(v, out) BY <1>0, <3>2, <3>3, PlainSaysNothing DEF Submits
    <3>5. After(v, out2) = After(After(v, out1), res.ntf) BY <1>3, <3>1, AfterConcat
    <3> QED BY <3>2, <3>4, <3>5 DEF Tell
  <2> HIDE DEF f, out2, g
  <2> DEFINE fd == f.dev
  <2> DEFINE fo == f.out
  <2>7. Sound(fd) /\ QueueOK(fo) /\ Drained(fd) BY <2>3 DEF EngineOK, Kept
  <2> HIDE DEF fd, fo
  <2>8. Kept(fd, fo, EngineTick(fd, fo, 0, hit)) BY <2>7, EngineTickKept
  <2>9. Kept(fd, fo, g) BY <2>4, <2>8 DEF fd, fo
  <2>10. Heard(res.dev, out2, g)
    BY <2>3, <2>9 DEF Kept, Heard, fd, fo
  <2>11. ShouldDefer => g.out = out2 BY <2>3, <2>9 DEF Kept, fo
  <2>12. \/ g.dev.lost
         \/ /\ ~d.lost
            /\ \A v \in Views : After(After(v, g.out), g.dev.pending)
                                  = After(After(After(v, out), d.pending), L)
    <3> SUFFICES ASSUME ~g.dev.lost
                 PROVE  /\ ~d.lost
                        /\ \A v \in Views : After(After(v, g.out), g.dev.pending)
                                              = After(After(After(v, out), d.pending), L)
      OBVIOUS
    <3>1. /\ ~res.dev.lost
          /\ \A v \in Views : After(After(v, g.out), g.dev.pending)
                                = After(After(v, out2), res.dev.pending)
      BY <2>10 DEF Heard
    <3>2. ~d.lost /\ \A v \in Views : Tell(v, res) = After(After(v, d.pending), L)
      BY <3>1 DEF Submits
    <3> QED BY <2>6, <3>1, <3>2
  <2>13. Told(d, out, g, L) BY <2>5, <2>9, <2>11, <2>12 DEF Told, Kept
  <2> QED BY <2>13 DEF g
<1> QED BY <1>4, <1>5, <1>6, <1>7

Reported(L) == Told(dev, outbound, Engine(dev', outbound', 0), L)

LEMMA SubmitCommandTold ==
  ASSUME EngineInv, NEW res, CommandOK(res), NEW L, Speaks(dev, res, L), SubmitCommand(res)
  PROVE  Reported(L)
<1> DEFINE n == GenericErrorNtf(res.rsp[1].code)
<1> DEFINE r2 == IF res.rc # 0 THEN DeliverNotification(res, n) ELSE res
<1> DEFINE r == CommandResult(dev, res)
<1>1. PICK hit \in BOOLEAN : Apply(EngineSubmit(r, outbound, hit)) BY DEF SubmitCommand
<1>2. ResultOK(r) /\ DeviceOK(dev) /\ QueueOK(outbound)
  BY CommandResultOK DEF CommandOK, EngineInv, Sound
<1>3. ResultTyped(r2) /\ Speaks(dev, r2, L)
  <2>1. CASE res.rc # 0
    <3>1. res.rsp # << >> /\ res.rsp \in OptPacket /\ ResultTyped(res)
      BY <2>1 DEF CommandOK, Answered, ResultOK, ResultTyped, ResultType
    <3>2. PICK p \in Packet : res.rsp = <<p>> BY <3>1 DEF OptPacket
    <3>3. res.rsp[1].code \in Codes BY <3>2 DEF Packet
    <3>4. n \in Packet /\ n.kind = "GENERIC_ERROR"
      BY <3>3, PacketTypes DEF GenericErrorNtf, MakePacket
    <3> HIDE DEF n
    <3>5. ResultTyped(DeliverNotification(res, n)) BY <3>1, <3>4, DeliverNotificationTyped
    <3>6. Speaks(dev, DeliverNotification(res, n), L) BY <3>1, <3>4, ErrorSpeaks
    <3> QED BY <2>1, <3>5, <3>6
  <2>2. CASE res.rc = 0 BY <2>2 DEF CommandOK, ResultOK
  <2> QED BY <2>1, <2>2
<1>4. r = FinalizeResult(r2, Len(dev.pending)) BY DEF CommandResult
<1> HIDE DEF r, r2
<1>5. Submits(dev, r, L) BY <1>2, <1>3, <1>4, FinalizeSubmits
<1>6. Told(dev, outbound, EngineSubmit(r, outbound, hit), L) BY <1>2, <1>5, EngineSubmitTold
<1> QED BY <1>1, <1>6 DEF Reported, Told, Apply, Engine

LEMMA SubmitDataTold ==
  ASSUME EngineInv, NEW res, ResultOK(res), NEW L, Speaks(dev, res, L), SubmitData(res)
  PROVE  Reported(L)
<1> DEFINE r == DataResult(dev, res)
<1>1. PICK hit \in BOOLEAN : Apply(EngineSubmit(r, outbound, hit)) BY DEF SubmitData
<1>2. ResultOK(r) /\ DeviceOK(dev) /\ QueueOK(outbound)
  BY FinalizeResultOK DEF DataResult, EngineInv, Sound
<1>3. Submits(dev, r, L) BY <1>2, FinalizeSubmits DEF DataResult, ResultOK
<1> HIDE DEF r
<1>4. Told(dev, outbound, EngineSubmit(r, outbound, hit), L) BY <1>2, <1>3, EngineSubmitTold
<1> QED BY <1>1, <1>4 DEF Reported, Told, Apply, Engine

-----------------------------------------------------------------------------
(* The handlers, one lemma each.  Only SESSION_DEINIT, a reset and the     *)
(* link commands say something of links.                                   *)

LEMMA SessionInitSpeaks ==
  ASSUME NEW d, Sound(d), Drained(d), NEW s \in Sid
  PROVE  Speaks(d, HandleSessionInit(d, s), << >>)
<1>0. DeviceOK(d) /\ d \in DeviceState BY DEF Sound, DeviceOK
<1>1. ASSUME NEW d1, DeviceOK(d1), SameQueue(d, d1), d1.sessions[s].state # "DEINIT"
      PROVE  Speaks(d, DeliverNotification(Respond(d1, "OK"),
                                           SessionStatusNtf(s, d1.sessions[s].state)), << >>)
  <2> DEFINE n == SessionStatusNtf(s, d1.sessions[s].state)
  <2>1. d1.sessions[s].state \in Codes
    <3>1. d1.sessions[s] \in Session BY <1>1, SessionOf
    <3> QED BY <3>1 DEF Session, SessionStates, Codes
  <2>2. n \in Packet BY <2>1, PacketTypes
  <2>3. Hushed(n) BY <1>1, HushedKinds DEF SessionStatusNtf, MakePacket
  <2> HIDE DEF n
  <2>4. Speaks(d, DeliverNotification(Respond(d1, "OK"), n), <<n>>)
    BY <1>0, <1>1, <2>2, AnnounceSpeaks
  <2> QED BY <1>0, <2>2, <2>3, <2>4, SpeaksHushed DEF n
<1>2. \A v \in Session : v.state # "DEINIT" BY DEF Session, SessionStates
<1>3. CASE s \in Allocated(d)
  <2>1. SameQueue(d, d) BY DEF SameQueue
  <2>2. d.sessions[s].state # "DEINIT" BY <1>0, <1>2, SessionOf
  <2> QED BY <1>0, <1>1, <1>3, <2>1, <2>2 DEF HandleSessionInit
<1>4. CASE s \notin Allocated(d) /\ Cardinality(Allocated(d)) >= MAX_SESSIONS
  <2>1. Hush(d, d) BY DEF Hush, HeadKept
  <2> QED BY <1>0, <1>4, <2>1, RespondSpeaks DEF HandleSessionInit
<1>5. CASE s \notin Allocated(d) /\ ~(Cardinality(Allocated(d)) >= MAX_SESSIONS)
  <2> DEFINE d1 == SetSession(d, s, NewSession)
  <2> DEFINE res == DeliverNotification(Respond(d1, "OK"),
                                        SessionStatusNtf(s, d1.sessions[s].state))
  <2>1. SameQueue(d, d1) BY <1>0, SameQueues
  <2>2. d1.sessions[s] = NewSession BY <1>0 DEF SetSession, DeviceState
  <2>3. HandleSessionInit(d, s) = res BY <1>5 DEF HandleSessionInit
  <2>4. DeviceOK(d1)
    <3>1. /\ d1 \in DeviceState /\ d1.sessions = [d.sessions EXCEPT ![s] = NewSession]
          /\ d1.events = d.events /\ d1.pending = d.pending
      BY <1>0, SessionTypes DEF SetSession, DeviceState
    <3>2. NewSession.state = "INIT" BY DEF NewSession
    <3> HIDE DEF d1
    <3>3. Allocated(d1) = Allocated(d) \cup {s}
      BY <1>0, <3>1, <3>2 DEF Allocated, DeviceState
    <3>4. Cardinality(Allocated(d1)) = Cardinality(Allocated(d)) + 1
      BY <1>5, <3>3, AllocatedFinite, FS_AddElement
    <3>5. Cardinality(Allocated(d1)) <= MAX_SESSIONS
      BY <1>5, <3>4, AllocatedFinite, SizesAssumption
    <3> QED BY <1>0, <3>1, <3>5 DEF DeviceOK
  <2>5. NewSession.state # "DEINIT" BY DEF NewSession
  <2> HIDE DEF d1
  <2>6. Speaks(d, res, << >>) BY <1>1, <2>1, <2>2, <2>4, <2>5
  <2> QED BY <2>3, <2>6
<1> QED BY <1>3, <1>4, <1>5

LEMMA SessionDeinitSpeaks ==
  ASSUME NEW d, Sound(d), Drained(d), NEW s \in Sid
  PROVE  Speaks(d, HandleSessionDeinit(d, s),
                IF s \in Allocated(d) THEN <<SessionStatusNtf(s, "DEINIT")>> ELSE << >>)
<1>0. DeviceOK(d) /\ SameQueue(d, d) /\ Hush(d, d) BY DEF Sound, SameQueue, Hush, HeadKept
<1>1. CASE s \notin Allocated(d) BY <1>0, <1>1, RespondSpeaks DEF HandleSessionDeinit
<1>2. CASE s \in Allocated(d)
  <2> DEFINE n == SessionStatusNtf(s, "DEINIT")
  <2> DEFINE res == DeliverNotification(Respond(d, "OK"), n)
  <2>1. n \in Packet BY PacketTypes DEF Codes
  <2>2. HandleSessionDeinit(d, s) = [res EXCEPT !.dev = SetSession(res.dev, s, FreeSession)]
    BY <1>2 DEF HandleSessionDeinit
  <2> HIDE DEF n
  <2>3. CommandOK(res) /\ Speaks(d, res, <<n>>)
    BY <1>0, <2>1, AnnounceOK, AnnounceSpeaks
  <2> HIDE DEF res
  <2>4. ResultTyped(res) /\ res.dev \in DeviceState
    BY <2>3 DEF CommandOK, ResultOK, ResultTyped, ResultType
  <2>5. SameQueue(res.dev, SetSession(res.dev, s, FreeSession)) BY <2>4, SameQueues
  <2> QED BY <1>2, <2>2, <2>3, <2>4, <2>5, SpeaksOn DEF n
<1> QED BY <1>1, <1>2

LEMMA SessionStartSpeaks ==
  ASSUME NEW d, Sound(d), Drained(d), NEW s \in Sid, NEW verdict
  PROVE  Speaks(d, HandleSessionStart(d, s, verdict), << >>)
<1> DEFINE v == d.sessions[s]
<1> DEFINE st == StartVerdict(v, verdict)
<1>0. DeviceOK(d) /\ d \in DeviceState /\ Hush(d, d) /\ v \in Session
  BY SessionOf DEF Sound, DeviceOK, Hush, HeadKept
<1>1. CASE \/ s \notin Allocated(d) \/ v.state \notin {"INIT", "IDLE"}
           \/ st \notin {"OK", "SURFACED"}
  <2>1. \E code : HandleSessionStart(d, s, verdict) = Reject(d, code)
    BY <1>1 DEF HandleSessionStart
  <2> QED BY <1>0, <2>1, RespondSpeaks
<1>3. CASE s \in Allocated(d) /\ v.state \in {"INIT", "IDLE"} /\ st = "SURFACED"
  <2> DEFINE n == SessionStatusNtf(s, v.state)
  <2>1. n \in Packet /\ Hushed(n)
    BY <1>3, PacketTypes, HushedKinds DEF Codes, SessionStatusNtf, MakePacket
  <2>2. HandleSessionStart(d, s, verdict) = DeliverNotification(Respond(d, "OK"), n)
    BY <1>3 DEF HandleSessionStart
  <2>3. SameQueue(d, d) BY DEF SameQueue
  <2> HIDE DEF n
  <2>4. Speaks(d, HandleSessionStart(d, s, verdict), <<n>>)
    BY <1>0, <2>1, <2>2, <2>3, AnnounceSpeaks
  <2> QED BY <1>0, <2>1, <2>4, SpeaksHushed
<1>2. CASE s \in Allocated(d) /\ v.state \in {"INIT", "IDLE"} /\ st = "OK"
  <2> DEFINE w == [v EXCEPT !.state = "ACTIVE"]
  <2> DEFINE d1 == SetSession(d, s, w)
  <2> DEFINE n == SessionStatusNtf(s, "ACTIVE")
  <2> DEFINE res == DeliverNotification(Respond(d1, "OK"), n)
  <2>1. w \in Session /\ w.state = "ACTIVE" BY <1>0 DEF Session, SessionStates
  <2>2. Sound(d1) /\ SameQueue(d, d1)
    <3> HIDE DEF w
    <3> QED BY <1>0, <1>2, <2>1, SetSessionSound, SameQueues
  <2>3. n \in Packet /\ Hushed(n)
    BY PacketTypes, HushedKinds DEF Codes, SessionStatusNtf, MakePacket
  <2>4. HandleSessionStart(d, s, verdict) = [res EXCEPT !.dev = OnSessionStarted(res.dev, s)]
    BY <1>2 DEF HandleSessionStart
  <2> HIDE DEF n, d1
  <2>5. CommandOK(res) /\ Speaks(d, res, <<n>>)
    BY <1>0, <2>2, <2>3, AnnounceOK, AnnounceSpeaks DEF Sound
  <2> HIDE DEF res
  <2> DEFINE rd == res.dev
  <2>6. ResultTyped(res) /\ rd \in DeviceState
    BY <2>5 DEF CommandOK, ResultOK, ResultTyped, ResultType
  <2>7. SameQueue(rd, OnSessionStarted(rd, s))
    <3> HIDE DEF rd
    <3> DEFINE armed == [rd EXCEPT !.sessions[s].stream_remaining = BurstCount]
    <3>1. SameQueue(rd, armed) /\ armed \in DeviceState
      <4> DEFINE x == [rd.sessions[s] EXCEPT !.stream_remaining = BurstCount]
      <4>1. x \in Session BY <2>6, SizesAssumption DEF DeviceState, Session
      <4>2. armed = SetSession(rd, s, x) BY <2>6 DEF SetSession, DeviceState
      <4> HIDE DEF x, armed
      <4> QED BY <2>6, <4>1, <4>2, SameQueues DEF SetSession, DeviceState
    <3>2. SameQueue(rd, rd) BY DEF SameQueue
    <3>3. OnSessionStarted(rd, s) =
            IF Scenario # "ranging_stream" THEN rd
            ELSE IF BurstCount = 0 THEN armed
            ELSE ScheduleEvent(armed, "RANGE_DATA", s, rd.sessions[s].interval)
      BY DEF OnSessionStarted
    <3> HIDE DEF armed
    <3>4. SameQueue(rd, ScheduleEvent(armed, "RANGE_DATA", s, rd.sessions[s].interval))
      BY <3>1, SameQueues DEF SameQueue
    <3> QED BY <3>1, <3>2, <3>3, <3>4
  <2>8. Speaks(d, [res EXCEPT !.dev = OnSessionStarted(rd, s)], <<n>>)
    BY <2>5, <2>6, <2>7, SpeaksOn
  <2> QED BY <1>0, <2>3, <2>4, <2>8, SpeaksHushed
<1> QED BY <1>1, <1>2, <1>3

LEMMA SessionStopSpeaks ==
  ASSUME NEW d, Sound(d), Drained(d), NEW s \in Sid
  PROVE  Speaks(d, HandleSessionStop(d, s), << >>)
<1> DEFINE v == d.sessions[s]
<1>0. DeviceOK(d) /\ d \in DeviceState /\ Hush(d, d) /\ v \in Session
  BY SessionOf DEF Sound, DeviceOK, Hush, HeadKept
<1>1. CASE s \notin Allocated(d) \/ ~Active(d, s)
  <2>1. \E code : HandleSessionStop(d, s) = Reject(d, code) BY <1>1 DEF HandleSessionStop
  <2> QED BY <1>0, <2>1, RespondSpeaks
<1>2. CASE ~(s \notin Allocated(d) \/ ~Active(d, s))
  <2> DEFINE w == [v EXCEPT !.state = "IDLE"]
  <2> DEFINE d1 == SetSession(d, s, w)
  <2> DEFINE n == SessionStatusNtf(s, "IDLE")
  <2> DEFINE res == DeliverNotification(Respond(d1, "OK"), n)
  <2>1. w \in Session /\ w.state = "IDLE" BY <1>0 DEF Session, SessionStates
  <2>2. DeviceOK(d1) /\ SameQueue(d, d1)
    <3> HIDE DEF w
    <3> QED BY <1>0, <1>2, <2>1, SetSessionType, SameQueues
  <2>3. n \in Packet /\ Hushed(n)
    BY PacketTypes, HushedKinds DEF Codes, SessionStatusNtf, MakePacket
  <2>4. HandleSessionStop(d, s) = [res EXCEPT !.dev = OnSessionStopped(res.dev, s)]
    BY <1>2 DEF HandleSessionStop
  <2> HIDE DEF n, d1
  <2>5. ResultTyped(res) /\ Speaks(d, res, <<n>>)
    <3>1. ResultTyped(Respond(d1, "OK")) BY <2>2, RespondTyped DEF Codes
    <3> QED BY <1>0, <2>2, <2>3, <3>1, DeliverNotificationTyped, AnnounceSpeaks
  <2> HIDE DEF res
  <2> DEFINE rd == res.dev
  <2>6. rd \in DeviceState BY <2>5 DEF ResultTyped, DeviceOK
  <2>7. SameQueue(rd, OnSessionStopped(rd, s))
    <3> HIDE DEF rd
    <3> DEFINE x == [rd.sessions[s] EXCEPT !.stream_remaining = 0, !.in_progress = FALSE,
                                           !.reps_remaining = 0, !.tx_count = 0]
    <3>1. x \in Session BY <2>6 DEF DeviceState, Session
    <3> DEFINE m == SetSession(rd, s, x)
    <3>2. OnSessionStopped(rd, s) = CancelSessionEvents(m, s) BY DEF OnSessionStopped
    <3> HIDE DEF x
    <3>3. SameQueue(rd, m) /\ m \in DeviceState
      BY <2>6, <3>1, SameQueues DEF SetSession, DeviceState
    <3> HIDE DEF m
    <3>4. SameQueue(m, CancelSessionEvents(m, s)) BY <3>3, SameQueues
    <3> QED BY <3>2, <3>3, <3>4 DEF SameQueue
  <2>8. Speaks(d, [res EXCEPT !.dev = OnSessionStopped(rd, s)], <<n>>)
    BY <2>5, <2>7, SpeaksOn
  <2> QED BY <1>0, <2>3, <2>4, <2>8, SpeaksHushed
<1> QED BY <1>1, <1>2

LEMMA SetAppConfigSpeaks ==
  ASSUME NEW d, Sound(d), NEW s \in Sid, NEW t \in Tlvs, NEW bad \in BOOLEAN
  PROVE  Speaks(d, HandleSetAppConfig(d, s, t, bad), << >>)
<1> DEFINE v == StoreConfig(d.sessions[s], t)
<1> DEFINE d1 == SetSession(d, s, v)
<1> DEFINE o == ApplyTlv(d, s, t)
<1>0. DeviceOK(d) /\ d \in DeviceState /\ SameQueue(d, d) BY DEF Sound, DeviceOK, SameQueue
<1>1. SameQueue(d, d1) /\ d1 \in DeviceState
  <2>1. v \in Session BY <1>0, SessionOf, StoreConfigType, TlvAssumption
  <2> HIDE DEF v
  <2> QED BY <1>0, <2>1, SameQueues DEF SetSession, DeviceState
<1>2. SameQueue(d, RescheduleSessionEvent(d1, "RANGE_DATA", s, t.val))
  <2> HIDE DEF d1
  <2> DEFINE m == RemoveEvents(d1, "RANGE_DATA", s)
  <2>1. SameQueue(d1, m) BY <1>1, SameQueues
  <2>2. RescheduleSessionEvent(d1, "RANGE_DATA", s, t.val)
          = ScheduleEvent(m, "RANGE_DATA", s, t.val)
    BY DEF RescheduleSessionEvent
  <2>3. SameQueue(m, ScheduleEvent(m, "RANGE_DATA", s, t.val))
    <3>1. m = [d1 EXCEPT !.events = Compact(d1.events, {<<"RANGE_DATA", s>>})]
      BY <1>1 DEF RemoveEvents, DeviceState
    <3>2. \A E : LET x == [m EXCEPT !.events = E] IN SameQueue(m, x)
      BY <1>1, <3>1 DEF SameQueue, DeviceState
    <3> HIDE DEF m
    <3> QED BY <3>2 DEF ScheduleEvent, SameQueue
  <2> QED BY <1>1, <2>1, <2>2, <2>3 DEF SameQueue
<1>3. SameQueue(d, o.dev)
  <2> HIDE DEF d1
  <2> QED BY <1>0, <1>1, <1>2 DEF ApplyTlv, Outcome, d1
<1>4. Hush(d, o.dev) /\ Hush(d, d) BY <1>0, <1>3, HushSame
<1>5. \E code : \/ HandleSetAppConfig(d, s, t, bad) = Reject(d, code)
                \/ HandleSetAppConfig(d, s, t, bad) = Reject(o.dev, code)
                \/ HandleSetAppConfig(d, s, t, bad) = Respond(o.dev, code)
  <2> HIDE DEF o
  <2> QED BY DEF HandleSetAppConfig, o
<1> HIDE DEF o
<1> QED BY <1>0, <1>4, <1>5, RespondSpeaks

(* A refused data message, which the scenario does not defer.              *)
LEMMA RefuseDataSpeaks ==
  ASSUME NEW d, DeviceOK(d), NEW s \in Sid, NEW m \in Msg, NEW code \in Codes, NEW tx \in Nat
  PROVE  Speaks(d, RefuseData(d, s, m, code, tx), << >>)
<1> DEFINE n == DataStatusNtf(s, m, code, tx)
<1> DEFINE res == RefuseData(d, s, m, code, tx)
<1>1. d.pending \in Seq(Packet) /\ d.lost \in BOOLEAN BY DEF DeviceOK, DeviceState
<1>2. n \in Packet /\ Hushed(n) BY PacketTypes, EventPacketsHushed
<1>3. n.kind = "DATA_STATUS" BY DEF DataStatusNtf, MakePacket
<1>4. res.dev = d /\ res.rsp = << >> /\ res.ntf = <<n>> BY DEF RefuseData, Result
<1> HIDE DEF n, res
<1>5. ASSUME NEW v \in Views PROVE Tell(v, res) = After(After(v, d.pending), << >>)
  <2>1. After(v, d.pending) \in Views BY <1>1, AfterTyped
  <2>2. After(v, <<n>>) = v BY <1>2, AfterHushed
  <2> QED BY <1>4, <2>1, <2>2, AfterNone DEF Tell
<1>6. NotStatus(res.ntf)
  <2>1. \A i \in DOMAIN <<n>> : <<n>>[i] = n OBVIOUS
  <2> QED BY <1>3, <1>4, <2>1 DEF NotStatus
<1>7. WaitsOn(d, d) BY DEF WaitsOn
<1>8. Speaks(d, res, << >>) BY <1>1, <1>4, <1>5, <1>6, <1>7, Responses DEF Speaks
<1> QED BY <1>8 DEF res

LEMMA ReportTransferSpeaks ==
  ASSUME NEW d, DeviceOK(d), NEW d1, Sound(d1), SameQueue(d, d1), NEW s \in Sid,
         NEW m \in Msg, NEW code \in Codes
  PROVE  Speaks(d, ReportTransfer(d1, s, m, code), << >>)
<1> DEFINE c == DataCreditNtf(s)
<1> DEFINE st == DataStatusNtf(s, m, code, 1)
<1> DEFINE credited == QueueNotification(d1, c)
<1> DEFINE reported == QueueNotification(credited, st)
<1>1. c \in Packet /\ Hushed(c) /\ st \in Packet /\ Hushed(st)
  BY PacketTypes, EventPacketsHushed
<1>2. \E r, rc : /\ r = credited \/ r = reported
                 /\ ReportTransfer(d1, s, m, code) = Result(r, << >>, << >>, rc)
  BY DEF ReportTransfer
<1>3. Hush(d, d1) BY HushSame
<1> HIDE DEF c, st
<1>4. DeviceOK(credited) /\ Hush(d, credited)
  BY <1>1, <1>3, QueueHush, HushTrans, QueueNotificationType DEF Sound
<1> HIDE DEF credited
<1>5. Hush(d, reported) BY <1>1, <1>4, QueueHush, HushTrans
<1> HIDE DEF reported
<1> QED BY <1>2, <1>4, <1>5, SilentSpeaks

LEMMA StartTransferSpeaks ==
  ASSUME NEW d, DeviceOK(d), NEW s \in Sid, NEW m \in Msg
  PROVE  Speaks(d, StartTransfer(d, s, m), << >>)
<1> DEFINE v == d.sessions[s]
<1> DEFINE b == [v EXCEPT !.last_data = m, !.in_progress = TRUE,
                          !.reps_remaining = v.repetition, !.tx_count = 0]
<1> DEFINE u == [v EXCEPT !.last_data = m, !.in_progress = FALSE,
                          !.reps_remaining = 0, !.tx_count = 0]
<1> DEFINE busy == SetSession(d, s, b)
<1> DEFINE undone == SetSession(d, s, u)
<1> DEFINE going == ScheduleEvent(busy, "DATA_TRANSFER", s, v.interval)
<1>1. v \in Session /\ d \in DeviceState BY SessionOf DEF DeviceOK
<1>2. b \in Session /\ u \in Session BY <1>1 DEF Session
<1>3. StartTransfer(d, s, m) = IF CanSchedule(d) THEN Result(going, << >>, << >>, 0)
                               ELSE Result(undone, << >>, << >>, -1)
  BY DEF StartTransfer
<1>4. SameQueue(d, busy) /\ busy \in DeviceState /\ SameQueue(d, undone)
  <2> HIDE DEF b, u
  <2> QED BY <1>1, <1>2, SameQueues DEF SetSession, DeviceState
<1> HIDE DEF busy, undone
<1>5. SameQueue(d, going) BY <1>4, SameQueues DEF SameQueue
<1> HIDE DEF going
<1> QED BY <1>3, <1>4, <1>5, HushSame, SilentSpeaks

LEMMA DataMessageSendSpeaks ==
  ASSUME NEW d, Sound(d), NEW s \in Sid, NEW m \in Msg
  PROVE  Speaks(d, HandleDataMessageSend(d, s, m), << >>)
<1> DEFINE v == d.sessions[s]
<1> DEFINE w == [v EXCEPT !.last_data = m]
<1> DEFINE d1 == SetSession(d, s, w)
<1>0. DeviceOK(d) /\ d \in DeviceState /\ SameQueue(d, d) /\ v \in Session
  BY SessionOf DEF Sound, DeviceOK, SameQueue
<1>1. v.tx_count \in Nat /\ w \in Session /\ w.state = v.state BY <1>0 DEF Session
<1>2. v.state = "ACTIVE" => Sound(d1) /\ SameQueue(d, d1)
  <2> HIDE DEF w
  <2> QED BY <1>0, <1>1, SetSessionSound, SameQueues DEF Allocated
<1>3. HandleDataMessageSend(d, s, m) =
        IF v.state # "ACTIVE" THEN RefuseData(d, s, m, "ERROR_REJECTED", 0)
        ELSE IF v.in_progress THEN RefuseData(d, s, m, "ERROR_ONGOING", v.tx_count)
        ELSE IF v.last_data = m THEN ReportTransfer(d, s, m, "REPETITION_OK")
        ELSE IF v.repetition = 0 THEN ReportTransfer(d1, s, m, "OK")
        ELSE StartTransfer(d, s, m)
  BY DEF HandleDataMessageSend
<1>4. {"ERROR_REJECTED", "ERROR_ONGOING", "REPETITION_OK", "OK"} \subseteq Codes BY DEF Codes
<1> HIDE DEF v, d1
<1> QED BY <1>0, <1>1, <1>2, <1>3, <1>4, RefuseDataSpeaks, ReportTransferSpeaks,
           StartTransferSpeaks

-----------------------------------------------------------------------------
(* The invariant of the announcements.                                     *)

Open == [s \in Sid |-> ToSet(resources[s].links)]
LinkInv ==
  /\ ResourceInv
  /\ Drained(dev)
  /\ ~dev.lost => After(After(seen, outbound), dev.pending) = Open

(* The body of StatusDeferred.                                             *)
Deferred == ShouldDefer => Late(dev, outbound, outbound')

(* A packet of the host that says nothing of links.                        *)
LEMMA HostPacketTold ==
  ASSUME EngineInv, Drained(dev), HostPacket
  PROVE  Reported(<< >>)
<1>1. Sound(dev) /\ DeviceOK(dev) /\ Hush(dev, dev) BY DEF EngineInv, Sound, Hush, HeadKept
<1>2. ASSUME NEW s \in Sid, SessionStart(s) PROVE Reported(<< >>)
  <2>1. PICK verdict \in StartVerdicts : SubmitCommand(HandleSessionStart(dev, s, verdict))
    BY <1>2 DEF SessionStart
  <2> DEFINE res == HandleSessionStart(dev, s, verdict)
  <2>2. verdict \in Verdicts BY InputAssumption
  <2>3. CommandOK(res) /\ Speaks(dev, res, << >>)
    BY <1>1, <2>2, SessionStartOK, SessionStartSpeaks
  <2> HIDE DEF res
  <2>4. SubmitCommand(res) BY <2>1 DEF res
  <2> QED BY <2>3, <2>4, SubmitCommandTold
<1>3. ASSUME NEW s \in Sid, SessionStop(s) PROVE Reported(<< >>)
  <2>1. CommandOK(HandleSessionStop(dev, s)) /\ Speaks(dev, HandleSessionStop(dev, s), << >>)
    BY <1>1, SessionStopOK, SessionStopSpeaks
  <2> QED BY <1>3, <2>1, SubmitCommandTold DEF SessionStop
<1>4. ASSUME NEW s \in Sid, Query(s) PROVE Reported(<< >>)
  <2>1. CommandOK(HandleQuery(dev, s)) BY <1>1, QueryOK
  <2>2. Speaks(dev, HandleQuery(dev, s), << >>) BY <1>1, RespondSpeaks DEF HandleQuery
  <2> QED BY <1>4, <2>1, <2>2, SubmitCommandTold DEF Query
<1>5. ASSUME NEW s \in Sid, NEW t \in Tlvs, NEW bad \in BOOLEAN, SetAppConfig(s, t, bad)
      PROVE  Reported(<< >>)
  <2>1. /\ CommandOK(HandleSetAppConfig(dev, s, t, bad))
        /\ Speaks(dev, HandleSetAppConfig(dev, s, t, bad), << >>)
    BY <1>1, SetAppConfigOK, SetAppConfigSpeaks
  <2> QED BY <1>5, <2>1, SubmitCommandTold DEF SetAppConfig
<1>6. ASSUME NEW code \in RefusalCodes, RefusedCommand(code) PROVE Reported(<< >>)
  <2>1. code \in Codes BY InputAssumption
  <2>2. CommandOK(HandleRefused(dev, code)) BY <1>1, <2>1, RefuseOK DEF HandleRefused
  <2>3. Speaks(dev, HandleRefused(dev, code), << >>) BY <1>1, RespondSpeaks DEF HandleRefused
  <2> QED BY <1>6, <2>2, <2>3, SubmitCommandTold DEF RefusedCommand
<1>7. ASSUME NEW s \in Sid, NEW m \in Msg, DataMessageSend(s, m) PROVE Reported(<< >>)
  <2>1. /\ ResultOK(HandleDataMessageSend(dev, s, m))
        /\ Speaks(dev, HandleDataMessageSend(dev, s, m), << >>)
    BY <1>1, DataMessageSendOK, DataMessageSendSpeaks
  <2> QED BY <1>7, <2>1, SubmitDataTold DEF DataMessageSend
<1>8. ASSUME NEW s \in Sid, NEW m \in BadMsg, BadDataLength(s, m) PROVE Reported(<< >>)
  <2>1. m \in Msg /\ "INVALID_FORMAT" \in Codes BY DEF BadMsg, Codes
  <2>2. ResultOK(HandleBadDataLength(dev, s, m)) BY <1>1, <2>1, RefuseDataOK DEF HandleBadDataLength
  <2>3. Speaks(dev, HandleBadDataLength(dev, s, m), << >>)
    BY <1>1, <2>1, RefuseDataSpeaks DEF HandleBadDataLength
  <2> QED BY <1>8, <2>2, <2>3, SubmitDataTold DEF BadDataLength
<1>9. CASE MalformedData
  <2>1. << >> \in OptPacket BY DEF OptPacket
  <2>2. ResultOK(HandleMalformedData(dev))
    BY <1>1, <2>1, DataResultTyped DEF HandleMalformedData
  <2>3. Speaks(dev, HandleMalformedData(dev), << >>)
    BY <1>1, SilentSpeaks DEF HandleMalformedData
  <2> QED BY <1>9, <2>2, <2>3, SubmitDataTold DEF MalformedData
<1> QED BY <1>2, <1>3, <1>4, <1>5, <1>6, <1>7, <1>8, <1>9, CommandAssumption DEF HostPacket

(* The step lemma: what the engine call told is what happened.             *)
LEMMA ToldInv ==
  ASSUME LinkInv, ResourceInv', NEW L \in OptPacket,
         Reported(L),
         seen' = seen, After(Open, L) = Open'
  PROVE  LinkInv' /\ Deferred
<1>1. seen \in Views BY DEF LinkInv, ResourceInv, Views
<1>2. /\ Drained(dev')
      /\ \/ dev'.lost
         \/ /\ ~dev.lost
            /\ \A v \in Views : After(After(v, outbound'), dev'.pending)
                                  = After(After(After(v, outbound), dev.pending), L)
      /\ ShouldDefer => Late(dev, outbound, outbound')
  BY DEF Reported, Told, Engine
<1>3. ~dev'.lost => After(After(seen, outbound'), dev'.pending) = Open'
  BY <1>1, <1>2 DEF LinkInv
<1>4. Drained(dev)' BY <1>2 DEF Drained
<1>5. (~dev.lost => After(After(seen, outbound), dev.pending) = Open)'
  BY <1>3 DEF After, Open
<1> QED BY <1>2, <1>4, <1>5 DEF LinkInv, Deferred

LEMMA OpenTyped ==
  ASSUME ResourceInv
  PROVE  Open \in Views /\ After(Open, << >>) = Open
<1>1. ASSUME NEW s \in Sid PROVE ToSet(resources[s].links) \in SUBSET (0 .. 255)
  <2> DEFINE l == resources[s].links
  <2>1. l \in Seq(0 .. 255) BY DEF ResourceInv, Resources
  <2> HIDE DEF l
  <2>2. DOMAIN l = 1 .. Len(l) BY <2>1, LenProperties
  <2>3. \A i \in DOMAIN l : l[i] \in 0 .. 255 BY <2>1, <2>2, ElementOfSeq
  <2>4. ToSet(l) \in SUBSET (0 .. 255) BY <2>3 DEF ToSet
  <2> QED BY <2>4 DEF l
<1>2. Open \in Views BY <1>1 DEF Open, Views
<1> QED BY <1>2, AfterNone

(* The links stay.                                                         *)
LEMMA SameOpen ==
  ASSUME \A x \in Sid : resources'[x].links = resources[x].links
  PROVE  Open' = Open
BY DEF Open, ToSet

LEMMA ToldNothing ==
  ASSUME LinkInv, ResourceInv', Reported(<< >>),
         seen' = seen, \A x \in Sid : resources'[x].links = resources[x].links
  PROVE  LinkInv' /\ Deferred
<1>1. << >> \in OptPacket BY DEF OptPacket
<1>2. After(Open, << >>) = Open' BY SameOpen, OpenTyped DEF LinkInv
<1> QED BY <1>1, <1>2, ToldInv

(* One packet told, one session's links changed.                           *)
LEMMA ToldOne ==
  ASSUME LinkInv, ResourceInv', NEW p \in Packet, Reported(<<p>>), seen' = seen,
         HearLinks(Open, p) = Open'
  PROVE  LinkInv' /\ Deferred
<1>1. <<p>> \in OptPacket BY DEF OptPacket
<1>2. After(Open, <<p>>) = Open' BY OpenTyped, AfterOne DEF LinkInv
<1> QED BY <1>1, <1>2, ToldInv

LEMMA AnswerTold ==
  ASSUME EngineInv, NEW code \in Codes,
         \/ SubmitCommand(Reject(dev, code))
         \/ SubmitCommand(Respond(dev, code))
  PROVE  Reported(<< >>)
<1>1. CommandOK(Reject(dev, code)) /\ CommandOK(Respond(dev, code))
  BY RespondOK DEF EngineInv, CommandOK
<1>2. DeviceOK(dev) /\ Hush(dev, dev) BY DEF EngineInv, Sound, Hush, HeadKept
<1>3. Speaks(dev, Reject(dev, code), << >>) /\ Speaks(dev, Respond(dev, code), << >>)
  BY <1>2, RespondSpeaks
<1> QED BY <1>1, <1>3, SubmitCommandTold

LEMMA AnnounceTold ==
  ASSUME EngineInv, Drained(dev), NEW kind \in LinkKinds, NEW s \in Sid, NEW id \in 0 .. 255,
         Announce(kind, s, id)
  PROVE  LinkNtf(kind, s, id) \in Packet /\ Reported(<<LinkNtf(kind, s, id)>>)
<1> DEFINE n == LinkNtf(kind, s, id)
<1> DEFINE res == DeliverNotification(Respond(dev, "OK"), n)
<1>1. n \in Packet
  <2>1. kind \in Kinds /\ "NONE" \in Codes BY DEF LinkKinds, Kinds, Codes
  <2> QED BY <2>1, MakePacketTyped DEF LinkNtf
<1>2. SubmitCommand(res) BY DEF Announce
<1> HIDE DEF n
<1>3. DeviceOK(dev) /\ SameQueue(dev, dev) BY DEF EngineInv, Sound, SameQueue
<1>4. CommandOK(res) /\ Speaks(dev, res, <<n>>)
  BY <1>1, <1>3, AnnounceOK, AnnounceSpeaks DEF EngineInv
<1> HIDE DEF res
<1>5. Reported(<<n>>) BY <1>2, <1>4, SubmitCommandTold
<1> QED BY <1>1, <1>5 DEF n

(* One lemma per command, as for ResourceInv.                              *)

LEMMA RefusalTold ==
  ASSUME LinkInv, NEW code \in Codes, Refuse(code)
  PROVE  LinkInv' /\ Deferred
<1>1. EngineInv /\ ResourceInv BY DEF LinkInv, ResourceInv
<1>2. ResourceInv' BY <1>1, RefusalInv
<1>3. Reported(<< >>) BY <1>1, AnswerTold DEF Refuse
<1>4. seen' = seen /\ resources' = resources BY DEF Refuse, Keep, NotMulticast
<1> QED BY <1>2, <1>3, <1>4, ToldNothing

(* A session that keeps its links.                                         *)
LEMMA OwnSameLinks ==
  ASSUME ResourceInv, NEW s \in Sid, NEW r, Own(s, r), r.links = resources[s].links
  PROVE  \A x \in Sid : resources'[x].links = resources[x].links
BY DEF Own, ResourceInv

LEMMA LinkCreateTold ==
  ASSUME LinkInv, NEW s \in Sid, NEW id \in LinkIds, LogicalLinkCreate(s, id)
  PROVE  LinkInv' /\ Deferred
<1> DEFINE r == resources[s]
<1> DEFINE status == LinkCreateStatus(r.links, id)
<1> DEFINE new == AssignedId(r.links, id)
<1> DEFINE r2 == [r EXCEPT !.links = Append(@, new)]
<1>0. EngineInv /\ ResourceInv /\ Drained(dev) BY DEF LinkInv, ResourceInv
<1>1. "INVALID_PARAM" \in Codes /\ status \in Codes BY DEF Codes, LinkCreateStatus
<1>2. CASE \/ s \notin Allocated(dev) /\ Refuse("INVALID_PARAM")
           \/ s \in Allocated(dev) /\ status # "OK" /\ Refuse(status)
  <2> HIDE DEF status
  <2> QED BY <1>1, <1>2, RefusalTold
<1>3. CASE /\ s \in Allocated(dev) /\ status = "OK"
           /\ Announce("LINK_CREATE", s, new) /\ Own(s, r2) /\ NotMulticast
  <2>1. r \in Resources /\ r.links \in Seq(0 .. 255) /\ NoneTwice(r.links)
        /\ Len(r.links) <= MAX_LOGICAL_LINKS
    BY <1>0 DEF ResourceInv, Owned, Resources
  <2>2. new \in 0 .. 255 /\ ~HasLink(r.links, new)
    <3> HIDE DEF r
    <3> QED BY <1>3, <2>1, AssignedIdFree
  <2> DEFINE q == Append(r.links, new)
  <2>3. r2.links = q BY <2>1 DEF Resources
  <2>4. ToSet(q) = ToSet(r.links) \cup {new}
    <3> HIDE DEF r, new
    <3> QED BY <2>1, <2>2, AppendDistinct
  <2>5. ResourceInv' BY <1>0, LinkCreateInv
  <2> HIDE DEF new, q, r2
  <2> DEFINE p == LinkNtf("LINK_CREATE", s, new)
  <2>6. p \in Packet /\ Reported(<<p>>)
    BY <1>0, <1>3, <2>2, AnnounceTold DEF LinkKinds
  <2>7. p.kind = "LINK_CREATE" /\ p.sid = s /\ p.num = new BY DEF LinkNtf, MakePacket
  <2> HIDE DEF p
  <2>8. HearLinks(Open, p) = [Open EXCEPT ![s] = @ \cup {new}] BY <2>7 DEF HearLinks
  <2>9. resources' = [resources EXCEPT ![s] = r2] /\ resources \in [Sid -> Resources]
    BY <1>0, <1>3 DEF Own, ResourceInv
  <2>10. \A x \in Sid : ToSet(resources'[x].links)
                          = IF x = s THEN ToSet(resources[s].links) \cup {new}
                            ELSE ToSet(resources[x].links)
    <3>1. resources'[s] = r2 /\ \A x \in Sid \ {s} : resources'[x] = resources[x] BY <2>9
    <3> QED BY <2>3, <2>4, <3>1
  <2>11. Open' = [x \in Sid |-> ToSet(resources'[x].links)] BY DEF Open, ToSet
  <2>12. HearLinks(Open, p) = Open' BY <2>8, <2>10, <2>11 DEF Open
  <2>13. seen' = seen BY <1>3 DEF NotMulticast
  <2> QED BY <2>5, <2>6, <2>12, <2>13, ToldOne
<1> QED BY <1>2, <1>3 DEF LogicalLinkCreate

LEMMA LinkCloseTold ==
  ASSUME LinkInv, NEW s \in Sid, NEW id \in LinkIds, LogicalLinkClose(s, id)
  PROVE  LinkInv' /\ Deferred
<1> DEFINE r == resources[s]
<1> DEFINE r2 == [r EXCEPT !.links = RemoveLink(@, id)]
<1>0. EngineInv /\ ResourceInv /\ Drained(dev) BY DEF LinkInv, ResourceInv
<1>1. "INVALID_PARAM" \in Codes BY DEF Codes
<1>2. CASE Refuse("INVALID_PARAM") BY <1>1, <1>2, RefusalTold
<1>3. CASE /\ s \in Allocated(dev) /\ HasLink(r.links, id)
           /\ Announce("LINK_CLOSE", s, id) /\ Own(s, r2) /\ NotMulticast
  <2>1. r \in Resources /\ r.links \in Seq(0 .. 255) /\ NoneTwice(r.links)
    BY <1>0 DEF ResourceInv, Owned, Resources
  <2> DEFINE q == RemoveLink(r.links, id)
  <2>3. r2.links = q BY <2>1 DEF Resources
  <2>4. ToSet(q) = ToSet(r.links) \ {id}
    <3> DEFINE l == r.links
    <3>1. l \in Seq(0 .. 255) /\ NoneTwice(l) /\ HasLink(l, id) BY <1>3, <2>1
    <3> HIDE DEF l
    <3>2. ToSet(RemoveLink(l, id)) = ToSet(l) \ {id} BY <3>1, RemoveDistinct
    <3> QED BY <3>2 DEF l
  <2>5. ResourceInv' BY <1>0, LinkCloseInv
  <2> HIDE DEF q, r2
  <2> DEFINE p == LinkNtf("LINK_CLOSE", s, id)
  <2>6. p \in Packet /\ Reported(<<p>>)
    BY <1>0, <1>3, AnnounceTold, ResourceAssumption DEF LinkKinds
  <2>7. p.kind = "LINK_CLOSE" /\ p.sid = s /\ p.num = id BY DEF LinkNtf, MakePacket
  <2> HIDE DEF p
  <2>8. HearLinks(Open, p) = [Open EXCEPT ![s] = @ \ {id}] BY <2>7 DEF HearLinks
  <2>9. resources' = [resources EXCEPT ![s] = r2] /\ resources \in [Sid -> Resources]
    BY <1>0, <1>3 DEF Own, ResourceInv
  <2>10. \A x \in Sid : ToSet(resources'[x].links)
                          = IF x = s THEN ToSet(resources[s].links) \ {id}
                            ELSE ToSet(resources[x].links)
    <3>1. resources'[s] = r2 /\ \A x \in Sid \ {s} : resources'[x] = resources[x] BY <2>9
    <3> QED BY <2>3, <2>4, <3>1
  <2>11. Open' = [x \in Sid |-> ToSet(resources'[x].links)] BY DEF Open, ToSet
  <2>12. HearLinks(Open, p) = Open' BY <2>8, <2>10, <2>11 DEF Open
  <2>13. seen' = seen BY <1>3 DEF NotMulticast
  <2> QED BY <2>5, <2>6, <2>12, <2>13, ToldOne
<1> QED BY <1>2, <1>3 DEF LogicalLinkClose

LEMMA NoLinks == ToSet(NoResources.links) = {}
BY DEF ToSet, NoResources

LEMMA DeinitTold ==
  ASSUME LinkInv, NEW s \in Sid, DeinitSession(s)
  PROVE  LinkInv' /\ Deferred
<1> DEFINE p == SessionStatusNtf(s, "DEINIT")
<1> DEFINE res == HandleSessionDeinit(dev, s)
<1>1. EngineInv /\ ResourceInv /\ Drained(dev) /\ Sound(dev)
  BY DEF LinkInv, ResourceInv, EngineInv
<1>2. ResourceInv' /\ seen' = seen BY <1>1, DeinitSessionInv DEF DeinitSession, NotMulticast
<1>3. CommandOK(res) /\ SubmitCommand(res)
  BY <1>1, SessionDeinitOK DEF DeinitSession, SessionDeinit
<1>4. Speaks(dev, res, IF s \in Allocated(dev) THEN <<p>> ELSE << >>)
  BY <1>1, SessionDeinitSpeaks
<1> HIDE DEF res
<1>5. CASE s \notin Allocated(dev)
  <2>1. Reported(<< >>) BY <1>1, <1>3, <1>4, <1>5, SubmitCommandTold
  <2>2. Own(s, resources[s]) BY <1>5 DEF DeinitSession
  <2>3. \A x \in Sid : resources'[x].links = resources[x].links
    BY <1>1, <2>2, OwnSameLinks
  <2> QED BY <1>2, <2>1, <2>3, ToldNothing
<1>6. CASE s \in Allocated(dev)
  <2>1. p \in Packet /\ p.kind = "SESSION_STATUS" /\ p.code = "DEINIT" /\ p.sid = s
    BY PacketTypes DEF Codes, SessionStatusNtf, MakePacket
  <2> HIDE DEF p
  <2>2. Reported(<<p>>) BY <1>1, <1>3, <1>4, <1>6, SubmitCommandTold
  <2>3. resources' = [resources EXCEPT ![s] = NoResources] /\ resources \in [Sid -> Resources]
    BY <1>1, <1>6 DEF DeinitSession, Own, ResourceInv
  <2>4. HearLinks(Open, p) = [Open EXCEPT ![s] = {}] BY <2>1 DEF HearLinks
  <2>5. \A x \in Sid : ToSet(resources'[x].links)
                         = IF x = s THEN {} ELSE ToSet(resources[x].links)
    BY <2>3, NoLinks
  <2>6. Open' = [x \in Sid |-> ToSet(resources'[x].links)] BY DEF Open, ToSet
  <2>7. HearLinks(Open, p) = Open' BY <2>4, <2>5, <2>6 DEF Open
  <2> QED BY <1>2, <2>1, <2>2, <2>7, ToldOne
<1> QED BY <1>5, <1>6

LEMMA ResetTold ==
  ASSUME LinkInv, ResetDevice
  PROVE  LinkInv' /\ Deferred
<1> DEFINE p == DeviceStatusNtf
<1> DEFINE res == HandleDeviceReset(dev)
<1>1. EngineInv /\ ResourceInv /\ Sound(dev) BY DEF LinkInv, ResourceInv, EngineInv
<1>2. ResourceInv' /\ seen' = seen BY <1>1, ResetDeviceInv DEF ResetDevice, NotMulticast
<1>3. CommandOK(res) /\ SubmitCommand(res) /\ Speaks(dev, res, <<p>>)
  BY <1>1, DeviceResetOK, DeviceResetSpeaks DEF ResetDevice, DeviceReset
<1>4. p \in Packet /\ p.kind = "DEVICE_STATUS" BY PacketTypes DEF DeviceStatusNtf, MakePacket
<1> HIDE DEF res, p
<1>5. Reported(<<p>>) BY <1>1, <1>3, SubmitCommandTold
<1>6. HearLinks(Open, p) = [x \in Sid |-> {}] BY <1>4 DEF HearLinks
<1>7. Open' = [x \in Sid |-> ToSet(resources'[x].links)] BY DEF Open, ToSet
<1>8. resources' = [x \in Sid |-> NoResources] BY DEF ResetDevice
<1>9. HearLinks(Open, p) = Open' BY <1>6, <1>7, <1>8, NoLinks
<1> QED BY <1>2, <1>4, <1>5, <1>9, ToldOne

(* A command that only answers, and leaves the session its links.          *)
LEMMA OwnTold ==
  ASSUME LinkInv, ResourceInv', NEW code \in Codes,
         \/ SubmitCommand(Reject(dev, code))
         \/ SubmitCommand(Respond(dev, code)),
         NEW s \in Sid, NEW r, Own(s, r), r.links = resources[s].links, seen' = seen
  PROVE  LinkInv' /\ Deferred
<1>1. EngineInv /\ ResourceInv BY DEF LinkInv, ResourceInv
<1>2. Reported(<< >>) BY <1>1, AnswerTold
<1>3. \A x \in Sid : resources'[x].links = resources[x].links BY <1>1, OwnSameLinks
<1> QED BY <1>2, <1>3, ToldNothing

LEMMA ListsTold ==
  ASSUME LinkInv, NEW s \in Sid,
         \/ \E a \in MulticastActions, l \in MulticastLists :
              \E n \in 0 .. Len(l) + 1 : UpdateMulticastList(s, a, l, n)
         \/ \E b \in BOOLEAN, l \in RoundLists, short \in BOOLEAN :
              UpdateDtRounds(s, b, l, short)
         \/ \E size \in PhaseSizes, len \in PhaseSizes : DataTransferPhaseConfig(s, size, len)
  PROVE  LinkInv' /\ Deferred
<1> DEFINE r == resources[s]
<1>0. ResourceInv /\ r \in Resources BY DEF LinkInv, ResourceInv
<1>1. {"INVALID_PARAM", "INVALID_MSG_SIZE", "OK", "FAILED"} \subseteq Codes BY DEF Codes
<1>2. CASE \E code \in Codes : Refuse(code) BY <1>2, RefusalTold
<1>3. CASE ~\E code \in Codes : Refuse(code)
  <2>1. ASSUME NEW a \in MulticastActions, NEW l \in MulticastLists,
               NEW count \in 0 .. Len(l) + 1, UpdateMulticastList(s, a, l, count)
        PROVE  LinkInv' /\ Deferred
    <3> DEFINE n == IF count < Len(l) THEN count ELSE Len(l)
    <3> DEFINE u == UpdateList(r.multicast, a, SubSeq(l, 1, n))
    <3> DEFINE status == OverallStatus(u.entries, count)
    <3> DEFINE r2 == [r EXCEPT !.multicast = u.list]
    <3>1. ResourceInv' BY <1>0, <2>1, MulticastInv
    <3>2. ~Refuse("INVALID_PARAM") BY <1>1, <1>3
    <3>3. /\ SubmitCommand(IF status = "OK" THEN Respond(dev, "OK") ELSE Reject(dev, status))
          /\ Own(s, r2) /\ seen' = seen
      BY <2>1, <3>2 DEF UpdateMulticastList
    <3>4. r2.links = r.links BY <1>0 DEF Resources
    <3>5. status \in Codes BY <1>1 DEF OverallStatus
    <3> HIDE DEF status, r2
    <3> QED BY <1>1, <3>1, <3>3, <3>4, <3>5, OwnTold
  <2>2. ASSUME NEW b \in BOOLEAN, NEW l \in RoundLists, NEW short \in BOOLEAN,
               UpdateDtRounds(s, b, l, short)
        PROVE  LinkInv' /\ Deferred
    <3> DEFINE r2 == IF b THEN [r EXCEPT !.anchor = l] ELSE [r EXCEPT !.tag = l]
    <3>1. ResourceInv' BY <1>0, <2>2, DtRoundsInv
    <3>2. ~Refuse("INVALID_PARAM") BY <1>1, <1>3
    <3>3. SubmitCommand(Respond(dev, "OK")) /\ Own(s, r2) /\ seen' = seen
      BY <2>2, <3>2 DEF UpdateDtRounds, NotMulticast
    <3>4. r2.links = r.links BY <1>0 DEF Resources
    <3> HIDE DEF r2
    <3> QED BY <1>1, <3>1, <3>3, <3>4, OwnTold
  <2>3. ASSUME NEW size \in PhaseSizes, NEW len \in PhaseSizes,
               DataTransferPhaseConfig(s, size, len)
        PROVE  LinkInv' /\ Deferred
    <3> DEFINE r2 == [r EXCEPT !.phase = len % 256]
    <3>1. ResourceInv' BY <1>0, <2>3, PhaseConfigInv
    <3>2. ~Refuse("INVALID_PARAM") /\ ~Refuse("INVALID_MSG_SIZE") BY <1>1, <1>3
    <3>3. SubmitCommand(Respond(dev, "OK")) /\ Own(s, r2) /\ seen' = seen
      BY <2>3, <3>2 DEF DataTransferPhaseConfig, NotMulticast
    <3>4. r2.links = r.links BY <1>0 DEF Resources
    <3> HIDE DEF r2
    <3> QED BY <1>1, <3>1, <3>3, <3>4, OwnTold
  <2> QED BY <2>1, <2>2, <2>3
<1> QED BY <1>2, <1>3

(* The host reads the first packet: what is left tells it the rest.        *)
LEMMA HostReadsTold ==
  ASSUME LinkInv, HostReads
  PROVE  LinkInv' /\ Deferred
<1> DEFINE h == Head(outbound)
<1> DEFINE t == Tail(outbound)
<1>1. ResourceInv /\ EngineInv /\ seen \in Views
  BY DEF LinkInv, ResourceInv, Views
<1>2. ResourceInv' BY <1>1, ResourceNextInv DEF ResourceNext
<1>3. outbound \in Seq(Packet) /\ outbound # << >>
  BY <1>1 DEF EngineInv, QueueOK, HostReads, DequeueOutbound
<1>4. h \in Packet /\ t \in Seq(Packet) /\ outbound = <<h>> \o t /\ <<h>> \in Seq(Packet)
  BY <1>3
<1>5. dev' = dev /\ outbound' = t /\ resources' = resources /\ seen' = HearLinks(seen, h)
  BY DEF HostReads, DequeueOutbound
<1>6. Len(outbound) \in Nat /\ Len(t) = Len(outbound) - 1
  BY <1>3, HeadTailProperties, LenProperties
<1> HIDE DEF h, t
<1>7. After(seen, outbound) = After(seen', t)
  <2>1. After(seen, <<h>> \o t) = After(After(seen, <<h>>), t) BY <1>1, <1>4, AfterConcat
  <2>2. After(seen, <<h>>) = seen' BY <1>1, <1>4, <1>5, AfterOne
  <2> QED BY <1>4, <2>1, <2>2
<1>8. Open' = Open BY <1>5, SameOpen
<1>9. (~dev.lost => After(After(seen, outbound), dev.pending) = Open)'
  <2>1. ~dev'.lost => After(After(seen', outbound'), dev'.pending) = Open'
    BY <1>5, <1>7, <1>8 DEF LinkInv
  <2> QED BY <2>1 DEF After, Open
<1>10. Drained(dev)' BY <1>5 DEF LinkInv, Drained
<1>11. Late(dev, outbound, outbound')
  <2>1. \A i : i \notin Len(outbound) + 1 .. Len(t) BY <1>6
  <2> QED BY <1>5, <2>1 DEF Late
<1> QED BY <1>2, <1>9, <1>10, <1>11 DEF LinkInv, Deferred

LEMMA TickTold ==
  ASSUME EngineInv, Drained(dev), ResourceTick
  PROVE  Reported(<< >>)
<1>1. PICK ms \in Elapsed, hit \in BOOLEAN : Apply(EngineTick(dev, outbound, ms, hit))
  BY DEF ResourceTick, Tick
<1> DEFINE g == EngineTick(dev, outbound, ms, hit)
<1>2. ms \in Nat /\ QueueOK(outbound) /\ Sound(dev) BY InputAssumption DEF EngineInv
<1>3. Kept(dev, outbound, g) BY <1>2, EngineTickKept
<1>4. dev' = g.dev /\ outbound' = g.out BY <1>1 DEF Apply
<1> HIDE DEF g
<1>5. outbound \in Seq(Packet) /\ dev.pending \in Seq(Packet)
  BY <1>2 DEF QueueOK, Sound, DeviceOK, DeviceState
<1>6. ASSUME NEW v \in Views
      PROVE  After(After(After(v, outbound), dev.pending), << >>)
               = After(After(v, outbound), dev.pending)
  BY <1>5, AfterTyped, AfterNone
<1>7. ShouldDefer => Late(dev, outbound, outbound') BY <1>3, <1>4, <1>5, LateNone DEF Kept
<1> QED BY <1>3, <1>4, <1>6, <1>7 DEF Reported, Told, Kept, Heard, Engine

LEMMA LinkInitInv == ResourceInit => LinkInv
<1> SUFFICES ASSUME ResourceInit PROVE LinkInv OBVIOUS
<1>1. ResourceInv BY ResourceInitInv
<1>2. /\ dev.pending = << >> /\ outbound = << >> /\ seen = [s \in Sid |-> {}]
      /\ resources = [s \in Sid |-> NoResources]
  BY DEF ResourceInit, Init, InitDevice
<1>3. seen \in Views BY <1>2 DEF Views
<1>4. After(After(seen, outbound), dev.pending) = seen BY <1>2, <1>3, AfterNone
<1>5. Open = [s \in Sid |-> {}] BY <1>2, NoLinks DEF Open
<1> QED BY <1>1, <1>2, <1>4, <1>5 DEF LinkInv, Drained

LEMMA LinkNextInv ==
  ASSUME LinkInv, [ResourceNext]_resourceVars
  PROVE  LinkInv' /\ Deferred
<1>1. ResourceInv /\ EngineInv /\ Sound(dev) /\ Drained(dev)
  BY DEF LinkInv, ResourceInv, EngineInv
<1>2. ResourceInv' BY <1>1, ResourceNextInv
<1>3. ASSUME Keep, Reported(<< >>) PROVE LinkInv' /\ Deferred
  BY <1>2, <1>3, ToldNothing DEF Keep, NotMulticast
<1>4. ASSUME NEW s \in Sid, InitSession(s) PROVE LinkInv' /\ Deferred
  <2> DEFINE res == HandleSessionInit(dev, s)
  <2>1. CommandOK(res) /\ Speaks(dev, res, << >>) /\ SubmitCommand(res)
    BY <1>1, <1>4, SessionInitOK, SessionInitSpeaks DEF InitSession, SessionInit
  <2> HIDE DEF res
  <2>2. Reported(<< >>) BY <1>1, <2>1, SubmitCommandTold
  <2> QED BY <1>3, <1>4, <2>2 DEF InitSession
<1>5. ASSUME NEW s \in Sid, NEW id \in LinkIds, LogicalLinkGetParam(s, id)
      PROVE  LinkInv' /\ Deferred
  <2>1. "OK" \in Codes /\ "INVALID_PARAM" \in Codes BY DEF Codes
  <2>2. Reported(<< >>) BY <1>1, <1>5, <2>1, AnswerTold DEF LogicalLinkGetParam
  <2> QED BY <1>3, <1>5, <2>2 DEF LogicalLinkGetParam
<1>6. CASE OtherPacket BY <1>1, <1>3, <1>6, HostPacketTold DEF OtherPacket
<1>7. CASE ResourceTick
  <2>1. Reported(<< >>) BY <1>1, <1>7, TickTold
  <2> QED BY <1>3, <1>7, <2>1 DEF ResourceTick
<1>8. CASE UNCHANGED resourceVars
  <2>1. /\ dev' = dev /\ outbound' = outbound /\ resources' = resources
        /\ seen' = seen
    BY <1>8 DEF resourceVars
  <2>2. outbound \in Seq(Packet) BY <1>1 DEF EngineInv, QueueOK
  <2>3. Deferred BY <2>1, <2>2, LateNone DEF Deferred
  <2>4. (~dev.lost => After(After(seen, outbound), dev.pending) = Open)'
    BY <2>1 DEF LinkInv, After, Open
  <2>5. Drained(dev)' BY <1>1, <2>1 DEF Drained
  <2> QED BY <1>2, <2>3, <2>4, <2>5 DEF LinkInv
<1> QED BY <1>4, <1>5, <1>6, <1>7, <1>8, DeinitTold, ResetTold, LinkCreateTold,
           LinkCloseTold, ListsTold, HostReadsTold
        DEF ResourceNext

THEOREM LinkInvHolds == ResourceSpec => []LinkInv
BY LinkInitInv, LinkNextInv, PTL DEF ResourceSpec

(* In every scenario and for every capacity of the queues, as long as      *)
(* nothing was discarded, the host that reads on learns exactly the links  *)
(* that are open (emit_logical_link_notification,                          *)
(* flush_device_notifications, uci_sim_device_finalize_result).            *)
THEOREM LinksTold == ResourceSpec => []LinksAnnounced
<1>1. LinkInv => LinksAnnounced
  <2> SUFFICES ASSUME LinkInv, ~dev.lost
               PROVE  After(seen, outbound \o dev.pending) = Open
    BY DEF LinksAnnounced, After, Open
  <2>1. seen \in Views /\ outbound \in Seq(Packet) /\ dev.pending \in Seq(Packet)
    BY DEF LinkInv, ResourceInv, EngineInv, Sound, DeviceOK, DeviceState, QueueOK, Views
  <2> QED BY <2>1, AfterConcat DEF LinkInv
<1> QED BY <1>1, LinkInvHolds, PTL

(* delayed_notifications: a session status never leaves in the exchange    *)
(* that caused it, and those that leave were first in the pending queue,   *)
(* for every capacity of the queues (uci_sim_device_finalize_result).      *)
THEOREM StatusWaits ==
  ASSUME Scenario = "delayed_notifications"
  PROVE  ResourceSpec => StatusDeferred
<1>1. ASSUME LinkInv, [ResourceNext]_resourceVars
      PROVE  [\A i \in New : outbound'[i].kind = "SESSION_STATUS" =>
                dev.pending # << >> /\ outbound'[i] = Head(dev.pending)]_engineVars
  <2>1. ShouldDefer BY DEF ShouldDefer
  <2>2. Deferred BY <1>1, LinkNextInv
  <2> QED BY <2>1, <2>2 DEF Deferred, Late, New
<1> QED BY <1>1, LinkInvHolds, PTL DEF ResourceSpec, StatusDeferred
=============================================================================
