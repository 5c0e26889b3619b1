------------------------- MODULE ConfigurationProofs -------------------------
(***************************************************************************)
(* Proofs about the parameter stores, for every profile and every host.    *)
(***************************************************************************)
EXTENDS Configuration, TLAPS, FiniteSetTheorems, WellFoundedInduction

-----------------------------------------------------------------------------
(* Least and greatest elements.                                            *)

(* Every set of naturals has a least element.                              *)
LEMMA Least ==
  ASSUME NEW S, S \subseteq Nat, S # {}
  PROVE  \E n \in S : \A m \in S : n <= m
<1>1. PICK n \in S : \A m \in S : ~ (<<m, n>> \in OpToRel(<, Nat))
  BY NatLessThanWellFounded, WFMin
<1>2. \A m \in S : ~ (m < n) BY <1>1 DEF OpToRel
<1> QED BY <1>2

(* Min is it.                                                              *)
LEMMA MinIsLeast ==
  ASSUME NEW S, S \subseteq Nat, S # {}
  PROVE  Min(S) \in S /\ \A m \in S : Min(S) <= m
<1>1. PICK n \in S : \A m \in S : n <= m BY Least
<1> QED BY <1>1 DEF Min

(* So a bounded one has a greatest element, and Max is it.                 *)
LEMMA MaxIsGreatest ==
  ASSUME NEW k \in Nat, NEW S, S \subseteq 1 .. k, S # {}
  PROVE  Max(S) \in S /\ \A m \in S : m <= Max(S)
<1> DEFINE T == {k - j : j \in S}
<1>1. T \subseteq Nat /\ T # {}
  <2>1. \A j \in S : k - j \in Nat OBVIOUS
  <2>2. T \subseteq Nat BY <2>1
  <2>3. PICK j \in S : TRUE OBVIOUS
  <2>4. k - j \in T OBVIOUS
  <2> QED BY <2>2, <2>4
<1>2. PICK t \in T : \A u \in T : t <= u
  <2> HIDE DEF T
  <2> QED BY <1>1, Least
<1>3. PICK n \in S : t = k - n BY <1>2
<1>4. \A m \in S : k - m \in T OBVIOUS
<1>5. \A m \in S : t <= k - m
  <2> HIDE DEF T
  <2> QED BY <1>2, <1>4
<1>6. \A m \in S : n >= m BY <1>3, <1>5
<1>7. Max(S) \in S /\ \A m \in S : Max(S) >= m BY <1>6 DEF Max
<1> QED BY <1>7

-----------------------------------------------------------------------------
(* Applying entries one after the other.                                   *)

(* Before its first entry a message has stored nothing.                    *)
LEMMA AppliedNone ==
  ASSUME NEW V, NEW c \in [Params -> V], NEW es
  PROVE  Applied(c, es, 0) = c
<1>1. \A p : Writers(es, 0, p) = {} BY DEF Writers
<1>2. Applied(c, es, 0) = [p \in Params |-> c[p]]
  BY <1>1 DEF Applied
<1> QED BY <1>2

(* Of the first k entries the k-th is stored last.                         *)
LEMMA AppliedStep ==
  ASSUME NEW c, DOMAIN c = Params, NEW es, NEW k \in Nat \ {0}, es[k].id \in Params
  PROVE  Applied(c, es, k) = [Applied(c, es, k - 1) EXCEPT ![es[k].id] = es[k].value]
<1> DEFINE q == es[k].id
<1> HIDE DEF Params
<1>1. k \in Writers(es, k, q) /\ Writers(es, k, q) \subseteq 1 .. k BY DEF Writers
<1>2. Max(Writers(es, k, q)) \in 1 .. k /\ k <= Max(Writers(es, k, q))
  BY <1>1, MaxIsGreatest
<1>3. Max(Writers(es, k, q)) = k BY <1>2
<1>4. ASSUME NEW p \in Params, p # q
      PROVE  Writers(es, k, p) = Writers(es, k - 1, p)
  <2>1. \A j : j \in 1 .. k <=> j \in 1 .. k - 1 \/ j = k OBVIOUS
  <2>2. \A j : j \in Writers(es, k, p) <=> j \in Writers(es, k - 1, p)
    BY <1>4, <2>1 DEF Writers
  <2> QED BY <2>2
<1>5. Applied(c, es, k)[q] = es[k].value BY <1>1, <1>3 DEF Applied
<1>6. \A p \in Params : p # q => Applied(c, es, k)[p] = Applied(c, es, k - 1)[p]
  BY <1>4 DEF Applied
<1>7. /\ Applied(c, es, k) = [p \in Params |-> Applied(c, es, k)[p]]
      /\ Applied(c, es, k - 1) = [p \in Params |-> Applied(c, es, k - 1)[p]]
  BY DEF Applied
<1> QED BY <1>5, <1>6, <1>7

(* The loop stops: there is a last entry before the first bad one, and all *)
(* up to it were accepted.                                                 *)
LEMMA StoredAccepted ==
  ASSUME NEW c, NEW es, Len(es) \in Nat
  PROVE  Stored(c, es) \in 0 .. Len(es) /\ Accepted(c, es, Stored(c, es))
<1> DEFINE B == {k \in 1 .. Len(es) : ~Accepted(c, es, k)}
<1>1. Accepted(c, es, 0) BY DEF Accepted
<1>2. \E k \in 0 .. Len(es) :
        Accepted(c, es, k) /\ (k < Len(es) => ~Accepted(c, es, k + 1))
  <2>1. CASE B = {}
    <3>1. Len(es) = 0 \/ Len(es) \in 1 .. Len(es) OBVIOUS
    <3>2. Accepted(c, es, Len(es)) BY <1>1, <2>1, <3>1
    <3> QED BY <3>2
  <2>2. CASE B # {}
    <3>0. B \subseteq Nat OBVIOUS
    <3>1. PICK b \in B : \A d \in B : b <= d
      <4> HIDE DEF B
      <4> QED BY <2>2, <3>0, Least
    <3>2. b - 1 \in 0 .. Len(es) /\ b - 1 \notin B BY <3>1
    <3>3. Accepted(c, es, b - 1) BY <1>1, <3>2
    <3>4. ~Accepted(c, es, (b - 1) + 1) BY <3>1
    <3> QED BY <3>2, <3>3, <3>4
  <2> QED BY <2>1, <2>2
<1> QED BY <1>2 DEF Stored

-----------------------------------------------------------------------------
(* The checks.                                                             *)

(* A list of checks either passes as a whole or fails by one of its        *)
(* elements.                                                               *)
LEMMA FirstFailureIs ==
  ASSUME NEW ranges, NEW c, NEW checks, DOMAIN checks \subseteq Nat
  PROVE  \/ /\ FirstFailure(ranges, c, checks) = Passed
            /\ \A i \in DOMAIN checks : Holds(ranges, c, checks[i])
         \/ \E i \in DOMAIN checks : FirstFailure(ranges, c, checks) = checks[i]
<1> DEFINE failed == {i \in DOMAIN checks : ~Holds(ranges, c, checks[i])}
<1>1. CASE failed = {} BY <1>1 DEF FirstFailure
<1>2. CASE failed # {}
  <2>1. Min(failed) \in failed BY <1>2, MinIsLeast
  <2>2. FirstFailure(ranges, c, checks) = checks[Min(failed)] BY <1>2 DEF FirstFailure
  <2> QED BY <2>1, <2>2
<1> QED BY <1>1, <1>2

(* The scheduling rules among the checks.                                  *)
LEMMA RuleHolds ==
  ASSUME NEW ranges, NEW c
  PROVE  /\ Holds(ranges, c, "SLOT_TOPOLOGY") => SlotTopology(c)
         /\ Holds(ranges, c, "BLOCK_STRIDE") => BlockStride(ranges, c)
         /\ Holds(ranges, c, "CAP_SIZE") => CapSize(c)
<1>1. Ranged \cap {"SLOT_TOPOLOGY", "BLOCK_STRIDE", "CAP_SIZE"} = {}
  BY DEF Ranged, DefaultRanges
<1>2. /\ Rules(ranges, c)["SLOT_TOPOLOGY"] = SlotTopology(c)
      /\ Rules(ranges, c)["BLOCK_STRIDE"] = BlockStride(ranges, c)
      /\ Rules(ranges, c)["CAP_SIZE"] = CapSize(c)
  BY DEF Rules
<1> QED BY <1>1, <1>2 DEF Holds

-----------------------------------------------------------------------------
(* One entry.                                                              *)

StoredValues == Nat \cup {Malformed, Unset}

(* An entry that is stored fits into the store.                            *)
LEMMA EntryFits ==
  ASSUME NEW c, NEW e, e.value \in Values, EntryCode(c, e) = "OK"
  PROVE  e.id \in Params /\ e.value \in StoredValues /\ Tolerated(e, FailedCheck(c, e))
<1> HIDE DEF Params
<1>1. e.id \in Params /\ Tolerated(e, FailedCheck(c, e)) /\ e.value # Overlong
  BY DEF EntryCode
<1> QED BY <1>1 DEF Values, StoredValues

(* Where no check of the parameter is deferred, an entry that is stored    *)
(* passed all of them.                                                     *)
LEMMA EntryChecked ==
  ASSUME NEW c, NEW e, Tolerated(e, FailedCheck(c, e)), e.id \in Validated,
         e.value \in Values, DOMAIN SetChecks(e.id) \subseteq Nat,
         Owner(e.id) # Passed, Owner(Owner(e.id)) \notin Setup.deferred,
         \A i \in DOMAIN SetChecks(e.id) :
            /\ SetChecks(e.id)[i] # Passed
            /\ Owner(SetChecks(e.id)[i]) \notin Setup.deferred
  PROVE  \A i \in DOMAIN SetChecks(e.id) :
           Holds(Setup.ranges, [ModesRead(c) EXCEPT ![e.id] = e.value], SetChecks(e.id)[i])
<1> DEFINE d == [ModesRead(c) EXCEPT ![e.id] = e.value]
<1>1. e.value \notin {Malformed, Overlong} \/ e.id = "DEVICE_MAC_ADDRESS"
  BY DEF FailedCheck, Tolerated
<1>2. FailedCheck(c, e) = FirstFailure(Setup.ranges, d, SetChecks(e.id))
  BY <1>1 DEF FailedCheck
<1>3. \A i \in DOMAIN SetChecks(e.id) : FailedCheck(c, e) # SetChecks(e.id)[i]
  BY DEF Tolerated
<1> HIDE DEF d
<1>4. \A i \in DOMAIN SetChecks(e.id) : Holds(Setup.ranges, d, SetChecks(e.id)[i])
  BY <1>2, <1>3, FirstFailureIs
<1> QED BY <1>4 DEF d

(* The checks of a scheduling parameter belong to scheduling parameters.   *)
LEMMA ScheduleChecks ==
  ASSUME NEW p \in SchedulingParams
  PROVE  /\ DOMAIN SetChecks(p) \subseteq Nat
         /\ Owner(p) # Passed /\ Owner(Owner(p)) \in SchedulingParams
         /\ \A i \in DOMAIN SetChecks(p) :
              SetChecks(p)[i] # Passed /\ Owner(SetChecks(p)[i]) \in SchedulingParams
<1>1. Owner(p) \in SchedulingParams /\ Owner(Owner(p)) \in SchedulingParams
  BY DEF SchedulingParams, Owner
<1>2. Owner(p) # Passed BY <1>1 DEF SchedulingParams, Passed
<1>3. CASE p = "SLOTS_PER_RR" BY <1>1, <1>2, <1>3 DEF SetChecks, Owner, SchedulingParams, Passed
<1>4. CASE p = "RESPONDER_SLOT_INDEX"
  BY <1>1, <1>2, <1>4 DEF SetChecks, Owner, SchedulingParams, Passed
<1>5. CASE p = "SCHEDULED_MODE"
  BY <1>1, <1>2, <1>5 DEF SetChecks, Owner, SchedulingParams, Passed
<1>6. CASE p = "RANGING_TIME_STRUCT"
  BY <1>1, <1>2, <1>6 DEF SetChecks, Owner, SchedulingParams, Passed
<1>7. CASE p = "BLOCK_STRIDE_LENGTH"
  BY <1>1, <1>2, <1>7 DEF SetChecks, Owner, SchedulingParams, Passed
<1>8. CASE p = "CAP_SIZE_RANGE"
  BY <1>1, <1>2, <1>8 DEF SetChecks, Owner, SchedulingParams, Passed
<1> QED BY <1>3, <1>4, <1>5, <1>6, <1>7, <1>8 DEF SchedulingParams

(* Validating the parameter that is set against the stored others keeps    *)
(* the six scheduling parameters consistent.                               *)
LEMMA EntryKeepsSchedule ==
  ASSUME NEW c \in [Params -> StoredValues], NEW e, e.value \in Values,
         EntryCode(c, e) = "OK", Setup.deferred \cap SchedulingParams = {},
         ScheduleFits(Setup.ranges, c)
  PROVE  ScheduleFits(Setup.ranges, [c EXCEPT ![e.id] = e.value])
<1> DEFINE d == [c EXCEPT ![e.id] = e.value]
           m == [ModesRead(c) EXCEPT ![e.id] = e.value]
           r == Setup.ranges
<1>1. e.id \in Params /\ Tolerated(e, FailedCheck(c, e)) BY EntryFits
<1>2. SchedulingParams \subseteq Params BY DEF SchedulingParams, Params, Defaults
<1>3. \A p \in SchedulingParams : m[p] = d[p]
  <2>1. SchedulingParams \cap {"PRF_MODE", "MAC_ADDRESS_MODE"} = {} BY DEF SchedulingParams
  <2> HIDE DEF Params
  <2> QED BY <1>2, <2>1 DEF ModesRead
<1>4. \A p \in SchedulingParams : p # e.id => d[p] = c[p] BY <1>2
<1>5. SchedulingParams \subseteq Validated
  BY DEF SchedulingParams, Validated, Ranged, DefaultRanges
<1>6. /\ SlotTopology(m) => SlotTopology(d)
      /\ BlockStride(r, m) => BlockStride(r, d)
      /\ CapSize(m) => CapSize(d)
  BY <1>3 DEF SchedulingParams, SlotTopology, BlockStride, CapSize
<1> HIDE DEF d, m, r
<1>7. ASSUME e.id \in SchedulingParams
      PROVE  \A i \in DOMAIN SetChecks(e.id) : Holds(r, m, SetChecks(e.id)[i])
  <2>1. \A k : Owner(k) \in SchedulingParams => Owner(k) \notin Setup.deferred OBVIOUS
  <2> QED BY <1>1, <1>5, <1>7, <2>1, ScheduleChecks, EntryChecked DEF m, r
<1>8. CASE e.id = "SLOTS_PER_RR"
  <2>1. SetChecks(e.id) = <<"SLOTS_PER_RR", "SLOT_TOPOLOGY", "CAP_SIZE">>
    BY <1>8 DEF SetChecks
  <2>2. Holds(r, m, "SLOT_TOPOLOGY") /\ Holds(r, m, "CAP_SIZE")
    BY <1>7, <1>8, <2>1 DEF SchedulingParams
  <2>3. SlotTopology(d) /\ CapSize(d) BY <1>6, <2>2, RuleHolds
  <2>4. BlockStride(r, d) BY <1>4, <1>8 DEF ScheduleFits, BlockStride, SchedulingParams, r
  <2> QED BY <2>3, <2>4 DEF ScheduleFits, d, r
<1>9. CASE e.id = "RESPONDER_SLOT_INDEX"
  <2>1. SetChecks(e.id) = <<"SLOTS_PER_RR", "SLOT_TOPOLOGY">>
    BY <1>9 DEF SetChecks
  <2>2. Holds(r, m, "SLOT_TOPOLOGY") BY <1>7, <1>9, <2>1 DEF SchedulingParams
  <2>3. SlotTopology(d) BY <1>6, <2>2, RuleHolds
  <2>4. BlockStride(r, d) /\ CapSize(d)
    BY <1>4, <1>9 DEF ScheduleFits, BlockStride, CapSize, SchedulingParams, r
  <2> QED BY <2>3, <2>4 DEF ScheduleFits, d, r
<1>10. CASE e.id = "SCHEDULED_MODE"
  <2>1. SetChecks(e.id) = <<"SCHEDULED_MODE", "BLOCK_STRIDE", "CAP_SIZE">>
    BY <1>10 DEF SetChecks
  <2>2. Holds(r, m, "BLOCK_STRIDE") /\ Holds(r, m, "CAP_SIZE")
    BY <1>7, <1>10, <2>1 DEF SchedulingParams
  <2>3. BlockStride(r, d) /\ CapSize(d) BY <1>6, <2>2, RuleHolds
  <2>4. SlotTopology(d) BY <1>4, <1>10 DEF ScheduleFits, SlotTopology, SchedulingParams
  <2> QED BY <2>3, <2>4 DEF ScheduleFits, d, r
<1>11. CASE e.id \in {"RANGING_TIME_STRUCT", "BLOCK_STRIDE_LENGTH"}
  <2>1. SetChecks(e.id) = <<e.id, "BLOCK_STRIDE">> BY <1>11 DEF SetChecks
  <2>2. Holds(r, m, "BLOCK_STRIDE") BY <1>7, <1>11, <2>1 DEF SchedulingParams
  <2>3. BlockStride(r, d) BY <1>6, <2>2, RuleHolds
  <2>4. SlotTopology(d) /\ CapSize(d)
    BY <1>4, <1>11 DEF ScheduleFits, SlotTopology, CapSize, SchedulingParams
  <2> QED BY <2>3, <2>4 DEF ScheduleFits, d, r
<1>12. CASE e.id = "CAP_SIZE_RANGE"
  <2>1. SetChecks(e.id) = <<"CAP_SIZE">> BY <1>12 DEF SetChecks
  <2>2. Holds(r, m, "CAP_SIZE") BY <1>7, <1>12, <2>1 DEF SchedulingParams
  <2>3. CapSize(d) BY <1>6, <2>2, RuleHolds
  <2>4. SlotTopology(d) /\ BlockStride(r, d)
    BY <1>4, <1>12 DEF ScheduleFits, SlotTopology, BlockStride, SchedulingParams, r
  <2> QED BY <2>3, <2>4 DEF ScheduleFits, d, r
<1>13. CASE e.id \notin SchedulingParams
  BY <1>4, <1>13 DEF ScheduleFits, SchedulingParams, SlotTopology, BlockStride, CapSize, d, r
<1> QED BY <1>8, <1>9, <1>10, <1>11, <1>12, <1>13 DEF SchedulingParams, d, r

-----------------------------------------------------------------------------
(* A whole message.                                                        *)

(* What is stored of a message, entry by entry, keeps the store typed and, *)
(* where nothing is deferred, the scheduling parameters consistent.        *)
LEMMA MessageKeeps ==
  ASSUME NEW c \in [Params -> StoredValues],
         NEW es \in Seq(Entries)
  PROVE  LET d == Applied(c, es, Stored(c, es))
         IN  /\ d \in [Params -> StoredValues]
             /\ Setup.deferred \cap SchedulingParams = {} /\ ScheduleFits(Setup.ranges, c) =>
                  ScheduleFits(Setup.ranges, d)
<1> DEFINE k == Stored(c, es)
           Good(d) == /\ d \in [Params -> StoredValues]
                      /\ Setup.deferred \cap SchedulingParams = {}
                           /\ ScheduleFits(Setup.ranges, c) => ScheduleFits(Setup.ranges, d)
           B == {j \in 0 .. k : ~Good(Applied(c, es, j))}
<1>1. Len(es) \in Nat /\ \A j \in 1 .. Len(es) : es[j].value \in Values
  <2>1. Len(es) \in Nat /\ \A j \in 1 .. Len(es) : es[j] \in Entries
    OBVIOUS
  <2> QED BY <2>1 DEF Entries
<1>2. k \in 0 .. Len(es) /\ Accepted(c, es, k) BY <1>1, StoredAccepted
<1> HIDE DEF k
<1>3. Good(Applied(c, es, 0)) BY AppliedNone
<1>4. ASSUME NEW j \in 1 .. k, Good(Applied(c, es, j - 1))
      PROVE  Good(Applied(c, es, j))
  <2> DEFINE f == Applied(c, es, j - 1)
             e == es[j]
  <2>1. EntryCode(f, e) = "OK" BY <1>2 DEF Accepted
  <2>2. e.value \in Values /\ j \in Nat \ {0} BY <1>1, <1>2
  <2>3. e.id \in Params /\ e.value \in StoredValues BY <2>1, <2>2, EntryFits
  <2>4. Applied(c, es, j) = [f EXCEPT ![e.id] = e.value] 
    BY <2>2, <2>3, DOMAIN c = Params, AppliedStep
  <2>5. f \in [Params -> StoredValues] BY <1>4
  <2> HIDE DEF f, e
  <2>6. [f EXCEPT ![e.id] = e.value] \in [Params -> StoredValues] BY <2>3, <2>5
  <2>7. ASSUME Setup.deferred \cap SchedulingParams = {}, ScheduleFits(Setup.ranges, f)
        PROVE  ScheduleFits(Setup.ranges, [f EXCEPT ![e.id] = e.value])
    BY <2>1, <2>2, <2>5, <2>7, EntryKeepsSchedule
  <2> QED BY <1>4, <2>4, <2>6, <2>7 DEF f
<1>5. B = {}
  <2>1. SUFFICES ASSUME B # {} PROVE FALSE OBVIOUS
  <2>2. B \subseteq Nat BY <1>2
  <2>3. PICK b \in B : \A j \in B : b <= j
    <3> HIDE DEF B
    <3> QED BY <2>1, <2>2, Least
  <2> HIDE DEF Good
  <2>4. b # 0 BY <1>3, <2>3
  <2>5. b \in 1 .. k /\ b - 1 \in 0 .. k /\ b - 1 \notin B BY <1>2, <2>3, <2>4
  <2>6. Good(Applied(c, es, b - 1)) BY <2>5
  <2>7. Good(Applied(c, es, b)) BY <1>4, <2>5, <2>6
  <2> QED BY <2>3, <2>7
<1>6. Good(Applied(c, es, k))
  <2> HIDE DEF Good
  <2> QED BY <1>2, <1>5
<1> QED BY <1>6 DEF k

-----------------------------------------------------------------------------
(* The invariant and the steps.                                            *)

(* The device's own store.                                                 *)
LEMMA DeviceStoreTyped ==
  ASSUME NEW c \in [DeviceParams -> Nat \cup {Malformed}], NEW es \in Seq(Entries)
  PROVE  StoreDeviceConfig(c, es) \in [DeviceParams -> Nat \cup {Malformed}]
<1>1. Len(es) \in Nat /\ \A j \in 1 .. Len(es) : es[j].value \in Values
  <2>1. Len(es) \in Nat /\ \A j \in 1 .. Len(es) : es[j] \in Entries OBVIOUS
  <2> QED BY <2>1 DEF Entries
<1>2. ASSUME NEW p \in DeviceParams
      PROVE  LET w == {j \in Writers(es, Len(es), p) : es[j].value # Overlong}
             IN  w # {} => es[Max(w)].value \in Nat \cup {Malformed}
  <2> DEFINE w == {j \in Writers(es, Len(es), p) : es[j].value # Overlong}
  <2>1. SUFFICES ASSUME w # {} PROVE es[Max(w)].value \in Nat \cup {Malformed} OBVIOUS
  <2>2. w \subseteq 1 .. Len(es) BY DEF Writers
  <2>3. Max(w) \in w
    <3> HIDE DEF w
    <3> QED BY <1>1, <2>1, <2>2, MaxIsGreatest
  <2>4. es[Max(w)].value \in Values /\ es[Max(w)].value # Overlong
    <3>1. \A j \in w : es[j].value \in Values /\ es[j].value # Overlong
      BY <1>1 DEF Writers
    <3> HIDE DEF w
    <3> QED BY <2>3, <3>1
  <2> QED BY <2>4 DEF Values
<1> QED BY <1>2 DEF StoreDeviceConfig

(* What is declared of a message is again a sequence of entries.           *)
LEMMA DeclaredEntries ==
  ASSUME NEW m, m.entries \in Seq(Entries), m.count \in Nat
  PROVE  Declared(m) \in Seq(Entries)
<1> DEFINE n == IF m.count < Len(m.entries) THEN m.count ELSE Len(m.entries)
<1>1. Len(m.entries) \in Nat OBVIOUS
<1>2. n \in 0 .. Len(m.entries) BY <1>1
<1> HIDE DEF n
<1>3. SubSeq(m.entries, 1, n) \in Seq(Entries) BY <1>1, <1>2
<1> QED BY <1>3 DEF Declared, n

-----------------------------------------------------------------------------
(* The inductive invariant: besides the two properties, that the slot of   *)
(* no session is clear.                                                    *)

ConfigInv ==
  /\ ConfigTypeOK
  /\ SchedulingRulesHold
  /\ session.state = "NONE" => session = NoSession

(* A cleared slot and a new device are typed.                              *)
LEMMA NoSessionTyped ==
  ASSUME Setup.burst \in Nat
  PROVE  NoSession \in SessionType
BY BoundAssumption DEF NoSession, SessionType

(* The device after a reset.                                               *)
LEMMA NewDeviceTyped == NewDevice \in DeviceType
BY DEF NewDevice, DeviceDefaults, DeviceParams, DeviceType

(* The process starts with no session and the profile's device defaults.   *)
LEMMA InitInv == Init => ConfigInv
<1> SUFFICES ASSUME Init PROVE ConfigInv OBVIOUS
<1>1. session = NoSession /\ device = NewDevice /\ setup \in DOMAIN Setups BY DEF Init
<1>2. Setup.burst \in Nat BY <1>1, SetupAssumption DEF Setup
<1>3. SchedulingRulesHold BY <1>1 DEF NoSession, SchedulingRulesHold
<1> QED BY <1>1, <1>2, <1>3, NoSessionTyped, NewDeviceTyped DEF ConfigInv, ConfigTypeOK

(* The defaults that alloc_session writes make a consistent session, and   *)
(* all of them in a clear slot are the configuration of the profile.       *)
LEMMA AllocateKeeps ==
  ASSUME ConfigInv, session.state = "NONE"
  PROVE  /\ Allocate(session) \in SessionType
         /\ Allocate(session).state = "INIT"
         /\ Allocate(session).config = Defaults
         /\ ScheduleFits(Setup.ranges, Allocate(session).config)
<1>1. session = NoSession /\ session \in SessionType /\ setup \in DOMAIN Setups
  BY DEF ConfigInv, ConfigTypeOK
<1>2. Allocate(session) =
        [state |-> "INIT", config |-> Defaults, proximity |-> "unknown", count |-> 0,
         remaining |-> 0]
  <2>1. session.config = [p \in Params |-> Unset] BY <1>1 DEF NoSession
  <2>2. [p \in Params |-> IF Defaults[p] # Unset THEN Defaults[p] ELSE session.config[p]]
          = [p \in Params |-> Defaults[p]]
    <3> HIDE DEF Params, Defaults, Unset
    <3> QED BY <2>1
  <2>3. [p \in Params |-> Defaults[p]] = Defaults BY DEF Params, Defaults
  <2>4. Allocate(session) = [session EXCEPT !.state = "INIT", !.count = 0,
                               !.proximity = "unknown", !.config = Defaults]
    BY <2>2, <2>3 DEF Allocate
  <2> QED BY <1>1, <2>4 DEF NoSession
<1>3. Defaults \in [Params -> Nat \cup {Malformed, Unset}] BY DEF Params, Defaults
<1>4. ScheduleFits(Setup.ranges, Defaults)
  BY <1>1, DefaultsAssumption DEF ScheduleFits, Setup
<1>5. CountBound \in Nat /\ Setup.burst \in Nat
  BY <1>1, BoundAssumption, SetupAssumption DEF Setup
<1> HIDE DEF Params, Defaults
<1> QED BY <1>2, <1>3, <1>4, <1>5 DEF SessionType

(* SESSION_SET_APP_CONFIG, whatever of the message it stores.              *)
LEMMA SetAppConfigInv ==
  ASSUME ConfigInv, NEW m \in Setup.sets, SetAppConfig(m)
  PROVE  ConfigInv'
<1> DEFINE es == Declared(m)
           k == Stored(session.config, es)
           after == Applied(session.config, es, k)
<1>1. setup \in DOMAIN Setups /\ session \in SessionType /\ device \in DeviceType
  BY DEF ConfigInv, ConfigTypeOK
<1>2. es \in Seq(Entries)
  <2>1. m.entries \in Seq(Entries) /\ m.count \in Nat BY <1>1, SetupAssumption DEF Setup
  <2> QED BY <2>1, DeclaredEntries
<1>3. session.config \in [Params -> StoredValues] BY <1>1 DEF SessionType, StoredValues
<1>4. /\ after \in [Params -> StoredValues]
      /\ Setup.deferred \cap SchedulingParams = {} /\ ScheduleFits(Setup.ranges, session.config) =>
           ScheduleFits(Setup.ranges, after)
  <2> HIDE DEF es
  <2> QED BY <1>2, <1>3, MessageKeeps
<1>5. \E pr \in {"unknown", "in", "out"} :
        session' = [session EXCEPT !.config = after, !.proximity = pr]
  BY <1>1 DEF SetAppConfig, SessionType
<1>6. setup' = setup /\ device' = device /\ Setup' = Setup /\ session.state # "NONE"
  BY DEF SetAppConfig, Setup, SendsToSession
<1> HIDE DEF after
<1>7. /\ session' \in SessionType /\ SessionType' = SessionType
      /\ session'.config = after /\ session'.state = session.state
  BY <1>1, <1>4, <1>5, <1>6 DEF SessionType, StoredValues
<1>8. ConfigTypeOK' BY <1>1, <1>6, <1>7 DEF ConfigTypeOK, DeviceType
<1>9. SchedulingRulesHold' BY <1>4, <1>6, <1>7 DEF ConfigInv, SchedulingRulesHold
<1> QED BY <1>6, <1>7, <1>8, <1>9 DEF ConfigInv

(* Steps that leave the session's parameters alone.                        *)
LEMMA SameConfigInv ==
  ASSUME ConfigInv, setup' = setup, device' \in DeviceType, session' \in SessionType,
         session'.config = session.config,
         session'.state # "NONE", session.state # "NONE"
  PROVE  ConfigInv'
<1>1. Setup' = Setup BY DEF Setup
<1>2. ConfigTypeOK' BY <1>1 DEF ConfigInv, ConfigTypeOK, SessionType, DeviceType
<1>3. SchedulingRulesHold' BY <1>1 DEF ConfigInv, SchedulingRulesHold
<1> QED BY <1>2, <1>3 DEF ConfigInv

(* Steps that only answer, or touch the device's own store.                *)
LEMMA SameSessionInv ==
  ASSUME ConfigInv, setup' = setup, device' \in DeviceType, session' = session
  PROVE  ConfigInv'
<1>1. Setup' = Setup BY DEF Setup
<1>2. ConfigTypeOK' BY <1>1 DEF ConfigInv, ConfigTypeOK, SessionType, DeviceType
<1>3. SchedulingRulesHold' BY <1>1 DEF ConfigInv, SchedulingRulesHold
<1>4. (session.state = "NONE" => session = NoSession)' BY DEF ConfigInv, NoSession
<1> QED BY <1>2, <1>3, <1>4 DEF ConfigInv

(* Steps that clear the slot.                                              *)
LEMMA ClearedInv ==
  ASSUME ConfigInv, setup' = setup, device' \in DeviceType, session' = NoSession
  PROVE  ConfigInv'
<1>1. Setup' = Setup /\ setup \in DOMAIN Setups BY DEF Setup, ConfigInv, ConfigTypeOK
<1>2. Setup.burst \in Nat BY <1>1, SetupAssumption DEF Setup
<1>3. session' \in SessionType' BY <1>1, <1>2, NoSessionTyped DEF SessionType
<1>4. ConfigTypeOK' BY <1>1, <1>3 DEF ConfigInv, ConfigTypeOK, DeviceType
<1>5. SchedulingRulesHold' BY DEF NoSession, SchedulingRulesHold
<1>6. (session.state = "NONE" => session = NoSession)' BY DEF NoSession
<1> QED BY <1>4, <1>5, <1>6 DEF ConfigInv

(* A session with everything but its parameters changed.                   *)
Updated(st, pr, n, rem) ==
  [session EXCEPT !.state = st, !.proximity = pr, !.count = n, !.remaining = rem]

(* It stays typed and keeps its parameters.                                *)
LEMMA SessionUpdate ==
  ASSUME session \in SessionType, NEW st \in {"NONE", "INIT", "ACTIVE", "IDLE"},
         NEW pr \in {"unknown", "in", "out"}, NEW n \in 0 .. CountBound,
         NEW rem \in 0 .. Setup.burst
  PROVE  LET s == Updated(st, pr, n, rem)
         IN  s \in SessionType /\ s.config = session.config /\ s.state = st
BY DEF SessionType, Updated

(* Every handler and every measurement preserves the invariant.            *)
LEMMA StepInv == ConfigInv /\ [Next]_vars => ConfigInv'
<1> SUFFICES ASSUME ConfigInv, [Next]_vars PROVE ConfigInv' OBVIOUS
<1>1. setup \in DOMAIN Setups /\ session \in SessionType /\ device \in DeviceType
  BY DEF ConfigInv, ConfigTypeOK
<1>2. Setup.burst \in Nat /\ CountBound \in Nat
  BY <1>1, SetupAssumption, BoundAssumption DEF Setup
<1>3. CASE UNCHANGED <<setup, session, device>> BY <1>1, <1>3, SameSessionInv
<1>4. CASE DeviceReset BY <1>4, NewDeviceTyped, ClearedInv DEF DeviceReset
<1>5. CASE SessionInit
  <2>1. CASE session.state = "NONE"
    <3>1. session' = Allocate(session) /\ setup' = setup /\ device' = device /\ Setup' = Setup
      BY <1>5, <2>1 DEF SessionInit, Setup
    <3>2. ConfigTypeOK'
      BY <1>1, <2>1, <3>1, AllocateKeeps DEF ConfigTypeOK, SessionType, DeviceType
    <3>3. SchedulingRulesHold' BY <2>1, <3>1, AllocateKeeps DEF SchedulingRulesHold
    <3>4. session'.state # "NONE" BY <2>1, <3>1, AllocateKeeps
    <3> QED BY <3>2, <3>3, <3>4 DEF ConfigInv
  <2>2. CASE session.state # "NONE" BY <1>1, <1>5, <2>2, SameSessionInv DEF SessionInit
  <2> QED BY <2>1, <2>2
<1>6. CASE SessionDeinit BY <1>1, <1>6, ClearedInv DEF SessionDeinit
<1>7. CASE SessionStart
  <2>1. CASE UNCHANGED <<setup, session, device>> BY <1>3, <2>1
  <2>2. CASE /\ session' = [session EXCEPT !.state = "ACTIVE", !.proximity = "unknown",
                                          !.remaining = Setup.burst]
             /\ UNCHANGED <<setup, device>>
    <3>0. session' = Updated("ACTIVE", "unknown", session.count, Setup.burst)
      BY <1>1, <2>2 DEF SessionType, Updated
    <3>1. session' \in SessionType /\ session'.config = session.config
            /\ session'.state # "NONE"
      <4>1. session.count \in 0 .. CountBound BY <1>1 DEF SessionType
      <4>2. 0 \in 0 .. Setup.burst /\ Setup.burst \in 0 .. Setup.burst BY <1>2
      <4> QED BY <1>1, <3>0, <4>1, <4>2, SessionUpdate
    <3>2. session.state # "NONE" BY <1>7 DEF SessionStart, SendsToSession
    <3> QED BY <1>1, <2>2, <3>1, <3>2, SameConfigInv
  <2> QED BY <1>7, <2>1, <2>2 DEF SessionStart, Refuse
<1>8. CASE SessionStop
  <2>1. CASE UNCHANGED <<setup, session, device>> BY <1>3, <2>1
  <2>2. CASE /\ session' = [session EXCEPT !.state = "IDLE", !.proximity = "unknown",
                                          !.remaining = 0]
             /\ UNCHANGED <<setup, device>>
    <3>0. session' = Updated("IDLE", "unknown", session.count, 0)
      BY <1>1, <2>2 DEF SessionType, Updated
    <3>1. session' \in SessionType /\ session'.config = session.config
            /\ session'.state # "NONE"
      <4>1. session.count \in 0 .. CountBound BY <1>1 DEF SessionType
      <4>2. 0 \in 0 .. Setup.burst /\ Setup.burst \in 0 .. Setup.burst BY <1>2
      <4> QED BY <1>1, <3>0, <4>1, <4>2, SessionUpdate
    <3>2. session.state # "NONE" BY <1>8 DEF SessionStop, SendsToSession
    <3> QED BY <1>1, <2>2, <3>1, <3>2, SameConfigInv
  <2> QED BY <1>8, <2>1, <2>2 DEF SessionStop, Refuse
<1>9. CASE \E m \in Setup.sets : SetAppConfig(m) BY <1>9, SetAppConfigInv
<1>10. CASE \E m \in Setup.coreSets : CoreSetConfig(m)
  <2>1. PICK m \in Setup.coreSets : CoreSetConfig(m) BY <1>10
  <2>2. m.entries \in Seq(Entries) /\ m.count \in Nat BY <1>1, SetupAssumption DEF Setup
  <2>3. Declared(m) \in Seq(Entries) BY <2>2, DeclaredEntries
  <2>4. device' = [device EXCEPT !.config = StoreDeviceConfig(@, Declared(m))]
    BY <2>1 DEF CoreSetConfig
  <2>5. StoreDeviceConfig(device.config, Declared(m)) \in [DeviceParams -> Nat \cup {Malformed}]
    BY <1>1, <2>3, DeviceStoreTyped DEF DeviceType
  <2>6. device' \in DeviceType BY <1>1, <2>4, <2>5 DEF DeviceType
  <2>7. session' = session /\ setup' = setup BY <2>1 DEF CoreSetConfig
  <2> QED BY <2>6, <2>7, SameSessionInv
<1>11. CASE QueryTimestamp
  <2>1. device' \in DeviceType BY <1>1, <1>11 DEF QueryTimestamp, DeviceType
  <2> QED BY <1>11, <2>1, SameSessionInv DEF QueryTimestamp
<1>12. CASE Measure
  <2> DEFINE now == Proximity(Effective(session.config), Distance(session.count))
             ended == BudgetSpent(Effective(session.config), session.count + 1)
  <2>1. now \in {"in", "out"} BY DEF Proximity
  <2>2. session.state = "ACTIVE" /\ session.remaining > 0 /\ session.count < CountBound
    BY <1>12 DEF Measure
  <2>3. UNCHANGED <<setup, device>> BY <1>12 DEF Measure
  <2>4. \/ session' = [session EXCEPT !.state = "IDLE", !.remaining = 0]
        \/ session' = [session EXCEPT
                         !.proximity = now, !.count = session.count + 1,
                         !.state = IF ended THEN "IDLE" ELSE @,
                         !.remaining = IF ended THEN 0 ELSE @ - 1]
    BY <1>12 DEF Measure
  <2> HIDE DEF now, ended
  <2>5. session' \in SessionType /\ session'.config = session.config
          /\ session'.state # "NONE"
    <3>1. /\ session.count \in 0 .. CountBound /\ session.count + 1 \in 0 .. CountBound
          /\ session.remaining - 1 \in 0 .. Setup.burst /\ 0 \in 0 .. Setup.burst
          /\ session.proximity \in {"unknown", "in", "out"}
      BY <1>1, <1>2, <2>2 DEF SessionType
    <3>2. CASE session' = [session EXCEPT !.state = "IDLE", !.remaining = 0]
      <4>1. session' = Updated("IDLE", session.proximity, session.count, 0)
        BY <1>1, <3>2 DEF SessionType, Updated
      <4> QED BY <1>1, <3>1, <4>1, SessionUpdate
    <3>3. CASE session' = [session EXCEPT
                             !.proximity = now, !.count = session.count + 1,
                             !.state = IF ended THEN "IDLE" ELSE @,
                             !.remaining = IF ended THEN 0 ELSE @ - 1]
      <4> DEFINE st == IF ended THEN "IDLE" ELSE "ACTIVE"
                 rem == IF ended THEN 0 ELSE session.remaining - 1
      <4>1. st \in {"ACTIVE", "IDLE"} /\ rem \in 0 .. Setup.burst BY <3>1
      <4>2. session' = Updated(st, now, session.count + 1, rem)
        BY <1>1, <2>2, <3>3 DEF SessionType, Updated
      <4> HIDE DEF st, rem
      <4> QED BY <1>1, <2>1, <3>1, <4>1, <4>2, SessionUpdate
    <3> QED BY <2>4, <3>2, <3>3
  <2> QED BY <1>1, <2>2, <2>3, <2>5, SameConfigInv
<1>13. CASE \/ \E ids \in Setup.gets : GetAppConfig(ids)
            \/ \E ids \in Setup.coreGets : CoreGetConfig(ids)
            \/ \E r \in Setup.calibrations : GetCalibrations(r)
  BY <1>3, <1>13 DEF GetAppConfig, CoreGetConfig, GetCalibrations
<1>14. CASE Inform \/ CapsInfo \/ UnknownCommand \/ NoSuchSession \/ ShortMessage
  BY <1>3, <1>14 DEF Inform, CapsInfo, UnknownCommand, NoSuchSession, ShortMessage, Refuse
<1>15. CASE UNCHANGED vars BY <1>3, <1>15 DEF vars
<1> QED BY <1>4, <1>5, <1>6, <1>7, <1>8, <1>9, <1>10, <1>11, <1>12, <1>13, <1>14, <1>15 DEF Next

(* The inductive invariant holds of every run of the program.              *)
THEOREM ConfigInvHolds == Spec => []ConfigInv
<1> QED BY InitInv, StepInv, PTL DEF Spec

(* The stores are typed, for every profile and every host.                 *)
THEOREM ConfigTypeCorrect == Spec => []ConfigTypeOK
<1>1. ConfigInv => ConfigTypeOK BY DEF ConfigInv
<1> QED BY <1>1, ConfigInvHolds, PTL

(* In whatever order and messages a host sets them, the stored scheduling  *)
(* parameters fit together (uci_sim_validate_session_app_config).          *)
THEOREM SchedulingConsistent == Spec => []SchedulingRulesHold
<1>1. ConfigInv => SchedulingRulesHold BY DEF ConfigInv
<1> QED BY <1>1, ConfigInvHolds, PTL

-----------------------------------------------------------------------------
(* How the state of the session changes.                                   *)

Failure == FirstFailure(Setup.ranges, Effective(session.config), StartChecks)

(* Every step keeps the state of the session or makes one of the four      *)
(* changes of the life cycle.                                              *)
LEMMA StateChanges ==
  ASSUME ConfigInv, [Next]_vars
  PROVE  \/ session'.state = session.state
         \/ session.state = "NONE" /\ session' = Allocate(session)
         \/ /\ session.state \in {"INIT", "IDLE"} /\ session'.state = "ACTIVE"
            /\ Failure = Passed /\ session'.config = session.config /\ setup' = setup
         \/ session.state = "ACTIVE" /\ session'.state = "IDLE"
         \/ session'.state = "NONE"
<1>1. session \in SessionType BY DEF ConfigInv, ConfigTypeOK
<1>2. CASE UNCHANGED session BY <1>2
<1>3. CASE DeviceReset \/ SessionDeinit BY <1>3 DEF DeviceReset, SessionDeinit, NoSession
<1>4. CASE SessionInit BY <1>4 DEF SessionInit
<1>5. CASE SessionStart
  <2>1. CASE UNCHANGED session BY <2>1
  <2>2. CASE /\ session.state # "ACTIVE" /\ Failure = Passed
             /\ session' = [session EXCEPT !.state = "ACTIVE", !.proximity = "unknown",
                                          !.remaining = Setup.burst]
             /\ UNCHANGED <<setup, device>>
    <3>1. session'.state = "ACTIVE" /\ session'.config = session.config
      BY <1>1, <2>2 DEF SessionType
    <3>2. session.state \in {"INIT", "IDLE"}
      BY <1>1, <1>5, <2>2 DEF SessionType, SessionStart, SendsToSession
    <3> QED BY <2>2, <3>1, <3>2
  <2> QED BY <1>5, <2>1, <2>2 DEF SessionStart, Refuse, Failure
<1>6. CASE SessionStop BY <1>1, <1>6 DEF SessionStop, Refuse, SessionType
<1>7. CASE \E m \in Setup.sets : SetAppConfig(m) BY <1>1, <1>7 DEF SetAppConfig, SessionType
<1>8. CASE Measure BY <1>1, <1>8 DEF Measure, SessionType
<1>9. CASE \/ \E ids \in Setup.gets : GetAppConfig(ids)
           \/ \E m \in Setup.coreSets : CoreSetConfig(m)
           \/ \E ids \in Setup.coreGets : CoreGetConfig(ids)
           \/ \E r \in Setup.calibrations : GetCalibrations(r)
           \/ QueryTimestamp
  BY <1>2, <1>9 DEF GetAppConfig, CoreSetConfig, CoreGetConfig, GetCalibrations, QueryTimestamp
<1>10. CASE Inform \/ CapsInfo \/ UnknownCommand \/ NoSuchSession \/ ShortMessage
  BY <1>2, <1>10 DEF Inform, CapsInfo, UnknownCommand, NoSuchSession, ShortMessage, Refuse
<1>11. CASE UNCHANGED vars BY <1>2, <1>11 DEF vars
<1> QED BY <1>3, <1>4, <1>5, <1>6, <1>7, <1>8, <1>9, <1>10, <1>11 DEF Next

(* A session is created with the profile's defaults and nothing else.      *)
THEOREM NewSessionDefaults == Spec => NewSessionHasDefaults
<1>1. ConfigInv /\ [Next]_vars =>
        (session.state = "NONE" /\ session'.state # "NONE" => session'.config = Defaults)
  BY StateChanges, AllocateKeeps
<1>2. ConfigInv /\ [Next]_vars =>
        [session.state = "NONE" /\ session'.state # "NONE" => session'.config = Defaults]_vars
  BY <1>1
<1> QED BY <1>2, ConfigInvHolds, PTL DEF Spec, NewSessionHasDefaults

(* The checks of SESSION_START are all the checks there are.               *)
LEMMA StartChecksAll ==
  ASSUME NEW ranges, NEW c, FirstFailure(ranges, c, StartChecks) = Passed
  PROVE  \A k \in Checks : Holds(ranges, c, k)
<1>1. /\ DOMAIN StartChecks \subseteq Nat
      /\ \A i \in DOMAIN StartChecks : StartChecks[i] # Passed
  BY DEF StartChecks, Passed
<1>2. \A i \in DOMAIN StartChecks : Holds(ranges, c, StartChecks[i])
  BY <1>1, FirstFailureIs
<1>3. \A k \in RuleNames \ {"ADDRESS_MODE"} : \E i \in DOMAIN StartChecks : StartChecks[i] = k
  BY DEF RuleNames, StartChecks
<1>4. \A k \in Ranged : \E i \in DOMAIN StartChecks : StartChecks[i] = k
  BY DEF Ranged, DefaultRanges, StartChecks
<1>5. Holds(ranges, c, "ADDRESS_MODE")
  <2>1. "MAC_ADDRESS_MODE" \in Ranged /\ "ADDRESS_MODE" \notin Ranged
    BY DEF Ranged, DefaultRanges
  <2>2. Holds(ranges, c, "MAC_ADDRESS_MODE") BY <1>2, <1>4, <2>1
  <2>3. c.MAC_ADDRESS_MODE \in ranges.MAC_ADDRESS_MODE BY <2>1, <2>2 DEF Holds, InRange
  <2>4. Rules(ranges, c)["ADDRESS_MODE"] =
          (c.MAC_ADDRESS_MODE \in {0, 1} \cup ranges.MAC_ADDRESS_MODE)
    BY DEF Rules
  <2> QED BY <2>1, <2>3, <2>4 DEF Holds
<1> QED BY <1>2, <1>3, <1>4, <1>5 DEF Checks

(* So a session that becomes ACTIVE satisfies every range and every rule,  *)
(* whatever the order of the SETs and whatever the profile defers.         *)
THEOREM StartConsistent == Spec => StartedConsistent
<1> DEFINE A == session.state # "ACTIVE" /\ session'.state = "ACTIVE" =>
                  \A k \in Checks : Holds(Setup.ranges, Effective(session'.config), k)
<1>1. ASSUME ConfigInv, [Next]_vars PROVE A
  <2>1. SUFFICES ASSUME session.state # "ACTIVE", session'.state = "ACTIVE"
                 PROVE  \A k \in Checks : Holds(Setup.ranges, Effective(session'.config), k)
    OBVIOUS
  <2>2. Failure = Passed /\ session'.config = session.config
    BY <1>1, <2>1, StateChanges, AllocateKeeps
  <2>3. \A k \in Checks : Holds(Setup.ranges, Effective(session.config), k)
    BY <2>2, StartChecksAll DEF Failure
  <2> QED BY <2>2, <2>3
<1>2. ConfigInv /\ [Next]_vars => [A]_vars BY <1>1
<1> QED BY <1>2, ConfigInvHolds, PTL DEF Spec, StartedConsistent

-----------------------------------------------------------------------------
(* The session implements the abstract life cycle.                         *)

(* One step of the session is one command of the life cycle.               *)
LEMMA StepIsCommand ==
  ASSUME ConfigInv, [Next]_vars
  PROVE  Lifecycle!Command(SessionView, SessionView')
<1> DEFINE v == session.state
           w == session'.state
<1>1. v \in {"NONE", "INIT", "ACTIVE", "IDLE"} BY DEF ConfigInv, ConfigTypeOK, SessionType
<1>2. SessionView = [s \in {"s"} |-> v] /\ SessionView' = [s \in {"s"} |-> w]
  BY DEF SessionView
<1>3. \A x : [[s \in {"s"} |-> v] EXCEPT !["s"] = x] = [s \in {"s"} |-> x] OBVIOUS
<1> HIDE DEF v, w
<1>4. CASE w = v BY <1>2, <1>4 DEF Lifecycle!Command
<1>5. CASE w = "NONE" BY <1>2, <1>5 DEF Lifecycle!Command, Lifecycle!Reset
<1>6. CASE v = "ACTIVE" /\ w = "IDLE"
  BY <1>2, <1>3, <1>6 DEF Lifecycle!Command, Lifecycle!Stop, Lifecycle!Moves
<1>7. CASE v \in {"INIT", "IDLE"} /\ w = "ACTIVE"
  BY <1>2, <1>3, <1>7 DEF Lifecycle!Command, Lifecycle!Start, Lifecycle!Moves
<1>8. CASE v = "NONE" /\ w = "INIT"
  <2>1. Lifecycle!Existing(SessionView) = {} BY <1>2, <1>8 DEF Lifecycle!Existing
  <2>2. Lifecycle!Cardinality(Lifecycle!Existing(SessionView)) < 1
    <3>1. Cardinality({}) = 0 BY FS_EmptySet
    <3>2. Lifecycle!Cardinality({}) = Cardinality({}) BY DEF Cardinality, Lifecycle!Cardinality
    <3> QED BY <2>1, <3>1, <3>2
  <2>3. Lifecycle!Moves(SessionView, SessionView', "s", {"NONE"}, "INIT")
    BY <1>2, <1>3, <1>8 DEF Lifecycle!Moves
  <2> QED BY <2>2, <2>3 DEF Lifecycle!Command, Lifecycle!Create
<1> QED BY <1>4, <1>5, <1>6, <1>7, <1>8, StateChanges, AllocateKeeps DEF v, w

(* Every step of the handlers and of the stream, with bad parameters,      *)
(* deferred failures and budgets, is a step of the abstract life cycle.    *)
THEOREM ConfigImplementsLifecycle == Spec => ConfigLifecycle
<1>1. Init => Lifecycle!Init BY DEF Init, NoSession, SessionView, Lifecycle!Init
<1>2. ConfigInv /\ [Next]_vars => [Lifecycle!Command(SessionView, SessionView')]_vars
  BY StepIsCommand
<1> QED BY <1>1, <1>2, ConfigInvHolds, PTL DEF Spec, ConfigLifecycle

-----------------------------------------------------------------------------
(* The notification policy.                                                *)

Sample == [distance : Nat, sent : BOOLEAN]
Inside(c, d) ==
  c.RNG_DATA_NTF_PROXIMITY_NEAR <= d /\ d <= c.RNG_DATA_NTF_PROXIMITY_FAR
Due(c, S, i) ==
  CASE c.SESSION_INFO_NTF_CONFIG = 0 -> FALSE
    [] c.SESSION_INFO_NTF_CONFIG = 2 -> Inside(c, S[i].distance)
    [] c.SESSION_INFO_NTF_CONFIG = 5 ->
         i > 1 /\ Inside(c, S[i].distance) # Inside(c, S[i - 1].distance)
    [] OTHER -> TRUE
SamePolicy(b, c) == \A p \in PolicyParams : b[p] = c[p]

(* The samples are those the policy of c names, and pr is the side of the  *)
(* last of them.                                                           *)
SamplesOK(c, pr, S) ==
  /\ S \in Seq(Sample)
  /\ pr = IF S = << >> THEN "unknown" ELSE Proximity(c, S[Len(S)].distance)
  /\ \A i \in 1 .. Len(S) : S[i].sent = Due(c, S, i)

LEMMA NoSamples ==
  ASSUME NEW c
  PROVE  SamplesOK(c, "unknown", << >>)
BY DEF SamplesOK

(* Parameters that are not of the policy do not matter.                    *)
LEMMA SamplesSame ==
  ASSUME NEW b, NEW c, SamePolicy(b, c), NEW pr, NEW S, SamplesOK(c, pr, S)
  PROVE  SamplesOK(b, pr, S)
<1>1. /\ b.RNG_DATA_NTF_PROXIMITY_NEAR = c.RNG_DATA_NTF_PROXIMITY_NEAR
      /\ b.RNG_DATA_NTF_PROXIMITY_FAR = c.RNG_DATA_NTF_PROXIMITY_FAR
      /\ b.SESSION_INFO_NTF_CONFIG = c.SESSION_INFO_NTF_CONFIG
  BY DEF SamePolicy, PolicyParams
<1>2. \A d : Proximity(b, d) = Proximity(c, d) BY <1>1 DEF Proximity
<1>3. \A i : Due(b, S, i) = Due(c, S, i) BY <1>1 DEF Due, Inside
<1> QED BY <1>2, <1>3 DEF SamplesOK

(* The bounds as numbers: the side is "in" exactly inside them, although   *)
(* the code asks first whether they are in order.                          *)
LEMMA SideIs ==
  ASSUME NEW c, c.RNG_DATA_NTF_PROXIMITY_NEAR \in Int, c.RNG_DATA_NTF_PROXIMITY_FAR \in Int,
         NEW d \in Nat
  PROVE  Proximity(c, d) = IF Inside(c, d) THEN "in" ELSE "out"
BY DEF Proximity, Inside

(* One more measurement.                                                   *)
LEMMA SamplesGrow ==
  ASSUME NEW c, c.RNG_DATA_NTF_PROXIMITY_NEAR \in Int, c.RNG_DATA_NTF_PROXIMITY_FAR \in Int,
         NEW pr, NEW S, SamplesOK(c, pr, S), NEW d \in Nat
  PROVE  SamplesOK(c, Proximity(c, d),
                   Append(S, [distance |-> d, sent |-> ShouldEmit(c, pr, Proximity(c, d))]))
<1> DEFINE now == Proximity(c, d)
           x == [distance |-> d, sent |-> ShouldEmit(c, pr, now)]
           T == Append(S, x)
           n == Len(S)
<1>1. S \in Seq(Sample) /\ n \in Nat BY DEF SamplesOK
<1>2. ShouldEmit(c, pr, now) \in BOOLEAN BY DEF ShouldEmit
<1>3. x \in Sample /\ x.distance = d /\ x.sent = ShouldEmit(c, pr, now) BY <1>2 DEF Sample
<1> HIDE DEF x
<1>4. /\ T \in Seq(Sample) /\ Len(T) = n + 1 /\ T # << >>
      /\ \A i \in 1 .. n : T[i] = S[i]
      /\ T[n + 1] = x
  BY <1>1, <1>3
<1> HIDE DEF T
<1>5. ASSUME NEW i \in 1 .. n PROVE T[i].sent = Due(c, T, i)
  <2>1. T[i] = S[i] /\ (i > 1 => T[i - 1] = S[i - 1])
    <3>1. i > 1 => i - 1 \in 1 .. n BY <1>1
    <3> QED BY <1>4, <3>1
  <2>2. Due(c, T, i) = Due(c, S, i) BY <2>1 DEF Due
  <2>3. S[i].sent = Due(c, S, i) BY DEF SamplesOK
  <2> QED BY <2>1, <2>2, <2>3
<1>6. now = IF Inside(c, d) THEN "in" ELSE "out" BY SideIs
<1>7. T[n + 1].sent = Due(c, T, n + 1)
  <2>1. T[n + 1].distance = d /\ T[n + 1].sent = ShouldEmit(c, pr, now) BY <1>3, <1>4
  <2>2. CASE S = << >>
    <3>1. n = 0 /\ pr = "unknown" BY <2>2 DEF SamplesOK
    <3>2. ~(n + 1 > 1) BY <3>1
    <3> HIDE DEF now, n
    <3> QED BY <1>6, <2>1, <3>1, <3>2 DEF Due, ShouldEmit
  <2>3. CASE S # << >>
    <3>1. n \in 1 .. n /\ n + 1 > 1 /\ (n + 1) - 1 = n BY <1>1, <2>3
    <3>2. S[n] \in Sample BY <1>1, <3>1
    <3> DEFINE e == S[n].distance
    <3>3. e \in Nat BY <3>2 DEF Sample
    <3>4. pr = Proximity(c, e) BY <2>3 DEF SamplesOK
    <3>5. T[(n + 1) - 1].distance = e BY <1>4, <3>1
    <3> HIDE DEF e, now, n
    <3>6. pr = IF Inside(c, e) THEN "in" ELSE "out" BY <3>3, <3>4, SideIs
    <3>7. Inside(c, d) \in BOOLEAN /\ Inside(c, e) \in BOOLEAN BY DEF Inside
    <3>8. pr # "unknown" /\ (pr # now <=> Inside(c, d) # Inside(c, e))
      BY <1>6, <3>6, <3>7
    <3>9. Due(c, T, n + 1) =
            CASE c.SESSION_INFO_NTF_CONFIG = 0 -> FALSE
              [] c.SESSION_INFO_NTF_CONFIG = 2 -> Inside(c, d)
              [] c.SESSION_INFO_NTF_CONFIG = 5 -> Inside(c, d) # Inside(c, e)
              [] OTHER -> TRUE
      BY <2>1, <3>1, <3>5 DEF Due
    <3>10. now = "in" <=> Inside(c, d) BY <1>6
    <3> QED BY <2>1, <3>7, <3>8, <3>9, <3>10 DEF ShouldEmit
  <2> QED BY <2>2, <2>3
<1>8. \A i \in 1 .. Len(T) : T[i].sent = Due(c, T, i)
  <2> TAKE i \in 1 .. Len(T)
  <2>1. i \in 1 .. n \/ i = n + 1 BY <1>1, <1>4
  <2> QED BY <1>5, <1>7, <2>1
<1>9. T[Len(T)].distance = d BY <1>3, <1>4
<1>10. SamplesOK(c, now, T)
  <2> HIDE DEF now
  <2>1. now = Proximity(c, T[Len(T)].distance) BY <1>9 DEF now
  <2> QED BY <1>4, <1>8, <2>1 DEF SamplesOK
<1> QED BY <1>10 DEF T, x

(* The samples and the remembered side belong together, and a slot without *)
(* a session has none.                                                     *)
PolicyInv ==
  /\ SamplesOK(Effective(session.config), session.proximity, samples)
  /\ session.state = "NONE" => samples = << >>

(* Entries that set no parameter of the policy leave its effect.           *)
LEMMA AppliedPolicy ==
  ASSUME NEW c, DOMAIN c = Params, NEW es, NEW k, ~ChangesPolicy(es, k)
  PROVE  SamePolicy(Effective(Applied(c, es, k)), Effective(c))
<1>1. PolicyParams \subseteq Params BY DEF PolicyParams, Params, Defaults
<1> HIDE DEF Params
<1>2. ASSUME NEW p \in PolicyParams
      PROVE  Effective(Applied(c, es, k))[p] = Effective(c)[p]
  <2>1. Writers(es, k, p) = {} BY DEF Writers, ChangesPolicy
  <2>2. p \in Params BY <1>1
  <2>3. Applied(c, es, k)[p] = c[p] BY <2>1, <2>2 DEF Applied
  <2> QED BY <2>2, <2>3 DEF Effective
<1> QED BY <1>2 DEF SamePolicy

LEMMA SetAppConfigPolicy ==
  ASSUME ConfigInv, PolicyInv, NEW m \in Setup.sets, SetAppConfig(m)
  PROVE  PolicyInv'
<1> DEFINE es == Declared(m)
           k == Stored(session.config, es)
           after == Applied(session.config, es, k)
<1>1. session \in SessionType /\ session.state # "NONE"
  BY DEF ConfigInv, ConfigTypeOK, SetAppConfig, SendsToSession
<1>2. DOMAIN session.config = Params BY <1>1 DEF SessionType
<1>3. /\ session' = [session EXCEPT
                       !.config = after,
                       !.proximity = IF ForgetsSide(es, k) THEN "unknown" ELSE @]
      /\ samples' = IF ChangesPolicy(es, k) THEN << >> ELSE samples
  BY DEF SetAppConfig
<1>4. ForgetsSide(es, k) <=> ChangesPolicy(es, k) BY DEF ForgetsSide
<1> HIDE DEF es, k
<1>5. CASE ChangesPolicy(es, k)
  <2>1. session'.proximity = "unknown" /\ samples' = << >> BY <1>1, <1>3, <1>4, <1>5 DEF SessionType
  <2> QED BY <2>1, NoSamples DEF PolicyInv
<1>6. CASE ~ChangesPolicy(es, k)
  <2>1. SamePolicy(Effective(after), Effective(session.config))
    BY <1>2, <1>6, AppliedPolicy
  <2> HIDE DEF after
  <2>2. /\ session'.proximity = session.proximity /\ samples' = samples
        /\ session'.config = after /\ session'.state = session.state
    BY <1>1, <1>3, <1>4, <1>6 DEF SessionType
  <2>3. SamplesOK(Effective(after), session.proximity, samples)
    BY <2>1, SamplesSame DEF PolicyInv
  <2> QED BY <1>1, <2>2, <2>3 DEF PolicyInv
<1> QED BY <1>5, <1>6

LEMMA MeasurePolicy ==
  ASSUME ConfigInv, PolicyInv, Measure
  PROVE  PolicyInv'
<1> DEFINE c == Effective(session.config)
           d == Distance(session.count)
           now == Proximity(c, d)
<1>1. session \in SessionType /\ session.state = "ACTIVE"
  BY DEF ConfigInv, ConfigTypeOK, Measure
<1>2. CASE samples' = samples
  <2>1. session'.proximity = session.proximity /\ session'.config = session.config
          /\ session'.state # "NONE"
    <3>1. samples \in Seq(Sample) BY DEF PolicyInv, SamplesOK
    <3>2. \A x : Append(samples, x) # samples
      <4>1. Len(samples) \in Nat BY <3>1
      <4>2. \A x : Len(Append(samples, x)) = Len(samples) + 1 BY <3>1
      <4>3. Len(samples) + 1 # Len(samples) BY <4>1
      <4> QED BY <4>2, <4>3
    <3>3. BudgetSpent(c, session.count) BY <1>2, <3>2 DEF Measure
    <3>4. session' = [session EXCEPT !.state = "IDLE", !.remaining = 0]
      BY <3>3 DEF Measure
    <3> QED BY <1>1, <3>4 DEF SessionType
  <2> QED BY <1>2, <2>1 DEF PolicyInv
<1>3. CASE samples' # samples
  <2>1. ~BudgetSpent(c, session.count) BY <1>3 DEF Measure
  <2>2. /\ samples' = Append(samples, [distance |-> d,
                                       sent |-> ShouldEmit(c, session.proximity, now)])
        /\ session'.proximity = now /\ session'.config = session.config
        /\ session'.state # "NONE"
    <3> DEFINE ended == BudgetSpent(c, session.count + 1)
    <3>1. /\ samples' = Append(samples, [distance |-> d,
                                         sent |-> ShouldEmit(c, session.proximity, now)])
          /\ session' = [session EXCEPT
                           !.proximity = now, !.count = session.count + 1,
                           !.state = IF ended THEN "IDLE" ELSE @,
                           !.remaining = IF ended THEN 0 ELSE @ - 1]
      BY <2>1 DEF Measure
    <3> HIDE DEF now, ended
    <3> QED BY <1>1, <3>1 DEF SessionType
  <2>3. d \in Nat
    <3>1. session.count \in Nat BY <1>1, BoundAssumption DEF SessionType
    <3> DEFINE y == session.count * DistanceStep
    <3>2. y \in Nat BY <3>1, BoundAssumption
    <3> HIDE DEF y
    <3>3. (DistanceBase + y) % DIST_MODULUS \in Nat BY <3>2, BoundAssumption
    <3> QED BY <3>3 DEF Distance, y
  <2>4. c.RNG_DATA_NTF_PROXIMITY_NEAR \in Int /\ c.RNG_DATA_NTF_PROXIMITY_FAR \in Int
    <3>1. PolicyParams \subseteq Params BY DEF PolicyParams, Params, Defaults
    <3> HIDE DEF Params
    <3>2. session.config \in [Params -> Int]
      BY <1>1 DEF SessionType, Malformed, Unset
    <3>3. \A p \in PolicyParams : c[p] = session.config[p] \/ c[p] = Fallback[p]
      BY <3>1 DEF Effective
    <3>4. /\ Fallback["RNG_DATA_NTF_PROXIMITY_NEAR"] = 0
          /\ Fallback["RNG_DATA_NTF_PROXIMITY_FAR"] = 65535
      BY DEF Fallback
    <3>5. /\ "RNG_DATA_NTF_PROXIMITY_NEAR" \in PolicyParams
          /\ "RNG_DATA_NTF_PROXIMITY_FAR" \in PolicyParams
      BY DEF PolicyParams
    <3> HIDE DEF c, PolicyParams
    <3> QED BY <3>1, <3>2, <3>3, <3>4, <3>5
  <2> HIDE DEF c, d
  <2>5. SamplesOK(c, session.proximity, samples) BY DEF PolicyInv, c
  <2>6. SamplesOK(c, now, samples') BY <2>2, <2>3, <2>4, <2>5, SamplesGrow
  <2> QED BY <2>2, <2>6 DEF PolicyInv, c
<1> QED BY <1>2, <1>3

LEMMA PolicyStep == ConfigInv /\ PolicyInv /\ [Next]_vars => PolicyInv'
<1> SUFFICES ASSUME ConfigInv, PolicyInv, [Next]_vars PROVE PolicyInv' OBVIOUS
<1>1. session \in SessionType BY DEF ConfigInv, ConfigTypeOK
<1>2. CASE UNCHANGED <<session, samples>> BY <1>2 DEF PolicyInv
<1>3. ASSUME session'.proximity = "unknown", samples' = << >> PROVE PolicyInv'
  BY <1>3, NoSamples DEF PolicyInv
<1>4. CASE DeviceReset \/ SessionDeinit
  BY <1>3, <1>4 DEF DeviceReset, SessionDeinit, NoSession
<1>5. CASE SessionInit
  <2>1. CASE session.state = "NONE"
    <3>1. session' = Allocate(session) /\ samples' = samples BY <1>5, <2>1 DEF SessionInit
    <3>2. Allocate(session).proximity = "unknown" BY <1>1 DEF Allocate, SessionType
    <3> QED BY <1>3, <2>1, <3>1, <3>2 DEF PolicyInv
  <2>2. CASE session.state # "NONE" BY <1>2, <1>5, <2>2 DEF SessionInit
  <2> QED BY <2>1, <2>2
<1>6. CASE SessionStart
  <2>1. \/ UNCHANGED <<session, samples>>
        \/ /\ session' = [session EXCEPT !.state = "ACTIVE", !.proximity = "unknown",
                                         !.remaining = Setup.burst]
           /\ samples' = << >>
    BY <1>6 DEF SessionStart, Refuse
  <2>2. CASE /\ session' = [session EXCEPT !.state = "ACTIVE", !.proximity = "unknown",
                                           !.remaining = Setup.burst]
             /\ samples' = << >>
    BY <1>1, <1>3, <2>2 DEF SessionType
  <2> QED BY <1>2, <2>1, <2>2
<1>7. CASE SessionStop
  <2>1. \/ UNCHANGED <<session, samples>>
        \/ /\ session' = [session EXCEPT !.state = "IDLE", !.proximity = "unknown",
                                         !.remaining = 0]
           /\ samples' = << >>
    BY <1>7 DEF SessionStop, Refuse
  <2>2. CASE /\ session' = [session EXCEPT !.state = "IDLE", !.proximity = "unknown",
                                           !.remaining = 0]
             /\ samples' = << >>
    BY <1>1, <1>3, <2>2 DEF SessionType
  <2> QED BY <1>2, <2>1, <2>2
<1>8. CASE \E m \in Setup.sets : SetAppConfig(m) BY <1>8, SetAppConfigPolicy
<1>9. CASE Measure BY <1>9, MeasurePolicy
<1>10. CASE \/ \E ids \in Setup.gets : GetAppConfig(ids)
            \/ \E m \in Setup.coreSets : CoreSetConfig(m)
            \/ \E ids \in Setup.coreGets : CoreGetConfig(ids)
            \/ \E r \in Setup.calibrations : GetCalibrations(r)
            \/ QueryTimestamp
  BY <1>2, <1>10 DEF GetAppConfig, CoreSetConfig, CoreGetConfig, GetCalibrations, QueryTimestamp
<1>11. CASE Inform \/ CapsInfo \/ UnknownCommand \/ NoSuchSession \/ ShortMessage
  BY <1>2, <1>11 DEF Inform, CapsInfo, UnknownCommand, NoSuchSession, ShortMessage, Refuse
<1>12. CASE UNCHANGED vars BY <1>2, <1>12 DEF vars
<1> QED BY <1>4, <1>5, <1>6, <1>7, <1>8, <1>9, <1>10, <1>11, <1>12 DEF Next

(* Range data are sent exactly when the policy says so, over every change  *)
(* of the bounds, of the mode and of the session's life, for any distances *)
(* (uci_sim_measurement.c, uci_sim_device_emit_ranging_stream).            *)
THEOREM PolicyExact == Spec => []ProximityTransitions
<1>1. Init => PolicyInv
  <2> SUFFICES ASSUME Init PROVE PolicyInv OBVIOUS
  <2>1. session.proximity = "unknown" /\ samples = << >> BY DEF Init, NoSession
  <2> QED BY <2>1, NoSamples DEF PolicyInv
<1>2. PolicyInv => ProximityTransitions
  <2> SUFFICES ASSUME PolicyInv PROVE ProximityTransitions OBVIOUS
  <2>1. /\ \A i \in 1 .. Len(samples) :
             samples[i].sent = Due(Effective(session.config), samples, i)
        /\ DOMAIN samples = 1 .. Len(samples)
    BY DEF PolicyInv, SamplesOK
  <2> QED BY <2>1 DEF ProximityTransitions, Due, Inside
<1> QED BY <1>1, <1>2, PolicyStep, ConfigInvHolds, PTL DEF Spec

-----------------------------------------------------------------------------
(* The answer to CORE_SET_CONFIG.                                          *)

LEMMA CoreAnswer ==
  ASSUME ConfigInv, NEW m \in Setup.coreSets, CoreSetConfig(m), NEW p \in DeviceParams
  PROVE  LET told == {j \in DOMAIN answer'.listed :
                        answer'.listed[j] = "OK" /\ m.entries[j].id = p}
         IN  IF told = {} THEN device'.config[p] = device.config[p]
             ELSE device'.config[p] = m.entries[Max(told)].value
<1> DEFINE es == Declared(m)
           codes == [j \in DOMAIN es |-> DeviceEntryCode(es[j])]
           told == {j \in DOMAIN answer'.listed :
                      answer'.listed[j] = "OK" /\ m.entries[j].id = p}
           w == {j \in Writers(es, Len(es), p) : es[j].value # Overlong}
<1>1. setup \in DOMAIN Setups /\ device \in DeviceType BY DEF ConfigInv, ConfigTypeOK
<1>2. m.entries \in Seq(Entries) /\ m.count \in Nat BY <1>1, SetupAssumption DEF Setup
<1>3. es \in Seq(Entries) /\ DOMAIN es = 1 .. Len(es) /\ Len(es) \in Nat
  BY <1>2, DeclaredEntries
<1>4. \A j \in 1 .. Len(es) : es[j] = m.entries[j]
  <2> DEFINE n == IF m.count < Len(m.entries) THEN m.count ELSE Len(m.entries)
  <2>1. Len(m.entries) \in Nat BY <1>2
  <2>2. n \in 0 .. Len(m.entries) BY <1>2, <2>1
  <2>3. es = SubSeq(m.entries, 1, n) BY DEF Declared
  <2> HIDE DEF n, es
  <2> QED BY <1>2, <2>1, <2>2, <2>3
<1>5. answer'.listed = codes BY DEF CoreSetConfig, Answer
<1>6. device'.config[p] = IF w = {} THEN device.config[p] ELSE es[Max(w)].value
  <2>1. device' = [device EXCEPT !.config = StoreDeviceConfig(@, es)] BY DEF CoreSetConfig
  <2>2. device'.config = StoreDeviceConfig(device.config, es)
    <3> HIDE DEF es
    <3> QED BY <1>1, <2>1 DEF DeviceType
  <2> QED BY <2>2 DEF StoreDeviceConfig
<1>7. DOMAIN codes = 1 .. Len(es) /\ \A j \in 1 .. Len(es) : codes[j] = DeviceEntryCode(es[j])
  BY <1>3
<1> HIDE DEF es, codes
<1>8. told = w
  <2>1. ASSUME NEW j \in 1 .. Len(es), es[j].id = p
        PROVE  codes[j] = "OK" <=> es[j].value # Overlong
    BY <1>7, <2>1 DEF DeviceEntryCode
  <2>2. \A j : j \in told <=> j \in w BY <1>4, <1>5, <1>7, <2>1 DEF Writers
  <2> QED BY <2>2
<1>9. w # {} => es[Max(w)] = m.entries[Max(w)]
  <2>1. w \subseteq 1 .. Len(es) BY DEF Writers
  <2> HIDE DEF w
  <2> QED BY <1>3, <1>4, <2>1, MaxIsGreatest
<1> HIDE DEF told, w
<1>10. IF told = {} THEN device'.config[p] = device.config[p]
       ELSE device'.config[p] = m.entries[Max(told)].value
  BY <1>6, <1>8, <1>9
<1> QED BY <1>10 DEF told

(* A host that replays the entries answered OK has the device's parameters *)
(* after every CORE_SET_CONFIG, for messages of any length with any bad    *)
(* entries among the good ones.                                            *)
THEOREM CoreAnswersTell == Spec => CoreAnswerTellsAll
<1> DEFINE Tells ==
      \A m \in Setup.coreSets : CoreSetConfig(m) =>
        \A p \in DeviceParams :
          LET told == {j \in DOMAIN answer'.listed :
                         answer'.listed[j] = "OK" /\ m.entries[j].id = p}
          IN  IF told = {} THEN device'.config[p] = device.config[p]
              ELSE device'.config[p] = m.entries[Max(told)].value
<1>1. ConfigInv => Tells BY CoreAnswer
<1>2. ConfigInv /\ [Next]_vars => [Tells]_vars BY <1>1
<1> QED BY <1>2, ConfigInvHolds, PTL DEF Spec, CoreAnswerTellsAll
=============================================================================
