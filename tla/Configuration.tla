---------------------------- MODULE Configuration ----------------------------
(***************************************************************************)
(* The parameter stores of the device and of a session, the commands that  *)
(* set, read and use them (src/src/handlers/uci_sim_handlers.c), and the   *)
(* measurement policy that runs on them                                    *)
(* (src/src/core/uci_sim_measurement.c).  Handlers reach a session only    *)
(* through its identifier, so one session is enough; queues and scheduled  *)
(* events are the matter of UciEngine, here a measurement just happens     *)
(* while the stream runs and its notification is queued.                   *)
(*                                                                         *)
(* Setups[setup] is what the process was started with and the host it      *)
(* serves: the profile's value ranges and the parameters whose bad values  *)
(* it reports at SESSION_START only (deferred), and the commands the host  *)
(* uses.  It is chosen once.  burst is the profile's                       *)
(* ranging_stream_burst_count in the scenario ranging_stream and 0 in the  *)
(* others.  A SET message carries entries, the number of entries it        *)
(* declares, and possibly one more entry that is cut short.                *)
(***************************************************************************)
EXTENDS ConfigRules

CONSTANTS
  Setups,              \* per name, a profile and a host
  DistanceBase, DistanceStep, DIST_MODULUS,  \* 100, 5 and 2^16 in the code
  REPORT_LIMIT,        \* parameters a response has room for
  CONTROL_PAYLOAD_LIMIT,  \* 255 in the code
  CountBound,          \* bound on ranging_count
  TimestampBound       \* bound on the timestamps asked for

Unsupported == "UNSUPPORTED"
DeviceDefaults == [LOW_POWER_MODE |-> 0, DEVICE_PAN_ID |-> 0]
DeviceParams == DOMAIN DeviceDefaults
ReadOnly == "DEVICE_STATE"
Operations == {"RESET", "INIT", "DEINIT", "START", "STOP", "SET", "GET", "CORE_SET",
               "CORE_GET", "TIMESTAMP", "SHORT", "INFO", "CAPS", "UNKNOWN", "CALIBRATIONS"}

ASSUME SetupAssumption ==
  \A n \in DOMAIN Setups : LET u == Setups[n] IN
    /\ Ranged \subseteq DOMAIN u.ranges
    /\ u.deferred \subseteq Params \ {"DEVICE_ROLE", "MAX_RR_RETRY"}
    /\ u.ops \subseteq Operations /\ u.burst \in Nat /\ u.caps \in BOOLEAN
    /\ \A m \in u.sets \cup u.coreSets :
         m.entries \in Seq(Entries) /\ m.count \in Nat /\ m.cut \in BOOLEAN
    /\ u.gets \cup u.coreGets \subseteq Seq(STRING)
    /\ u.calibrations \subseteq [keys : Seq(Nat), count : Nat, extra : Nat]

ASSUME BoundAssumption ==
  /\ CountBound \in Nat /\ TimestampBound \in Nat
  /\ DistanceBase \in Nat /\ DistanceStep \in Nat
  /\ DIST_MODULUS \in Nat \ {0} /\ REPORT_LIMIT \in Nat
  /\ CONTROL_PAYLOAD_LIMIT \in Nat /\ CONTROL_PAYLOAD_LIMIT >= 3

(* The defaults satisfy the rules that the handlers keep.                  *)
ASSUME DefaultsAssumption ==
  \A n \in DOMAIN Setups : LET u == Setups[n] IN
    SlotTopology(Defaults) /\ BlockStride(u.ranges, Defaults) /\ CapSize(Defaults)

VARIABLES
  setup,       \* a name
  session,     \* state, config, last proximity, ranging_count, stream remaining
  device,      \* the device's own parameters and its timestamp counter
  answer,      \* the last response: status, and the entries it lists
  samples      \* history: the measurements since the policy last changed

vars == <<setup, session, device, answer, samples>>

Setup == Setups[setup]

(* A slot that is not allocated has been cleared by memset.                *)
NoSession ==
  [state |-> "NONE", config |-> [p \in Params |-> Unset], proximity |-> "unknown",
   count |-> 0, remaining |-> 0]

(* alloc_session: what has no default keeps what the slot holds.           *)
Allocate(slot) ==
  [slot EXCEPT !.state = "INIT", !.count = 0, !.proximity = "unknown",
               !.config = [p \in Params |-> IF Defaults[p] # Unset THEN Defaults[p]
                                           ELSE slot.config[p]]]
NewDevice == [config |-> DeviceDefaults, timestamp |-> 0]

Answer(code, listed) == answer' = [code |-> code, listed |-> listed]
Refuse(code) == Answer(code, << >>) /\ UNCHANGED <<setup, session, device, samples>>

Sends(op) == op \in Setup.ops
SendsToSession(op) == Sends(op) /\ session.state # "NONE"

-----------------------------------------------------------------------------
(* Applying the first k entries of a message: the last one for a           *)
(* parameter counts.                                                       *)
Writers(es, k, p) == {j \in 1 .. k : es[j].id = p}
Applied(c, es, k) ==
  [p \in DOMAIN c |->
     IF Writers(es, k, p) = {} THEN c[p] ELSE es[Max(Writers(es, k, p))].value]

Declared(m) == SubSeq(m.entries, 1, IF m.count < Len(m.entries) THEN m.count ELSE Len(m.entries))
CutShort(m) == m.cut /\ m.count > Len(m.entries)

(* The check that an entry fails: a value of the wrong length fails its    *)
(* parameter's own.  An address is judged by the address mode first.       *)
FailedCheck(c, e) ==
  CASE e.id \notin Validated -> Passed
    [] e.id \in Validated \ {"DEVICE_MAC_ADDRESS"} /\ e.value \in {Malformed, Overlong} ->
         Owner(e.id)
    [] OTHER -> FirstFailure(Setup.ranges, [ModesRead(c) EXCEPT ![e.id] = e.value],
                             SetChecks(e.id))

(* A deferred failure is stored all the same; the length of these two is   *)
(* always checked at once.                                                 *)
Tolerated(e, k) ==
  \/ k = Passed
  \/ /\ Owner(k) \in Setup.deferred
     /\ ~(e.value < 0 /\ e.id \in {"RANGING_INTERVAL", "RESULT_REPORT_CONFIG"})

(* What cannot be stored for its length is rejected.                       *)
EntryCode(c, e) ==
  CASE e.id \notin Params -> "INVALID_PARAM"
    [] e.id \in Params /\ ~Tolerated(e, FailedCheck(c, e)) ->
         IF e.id = "RANGING_INTERVAL" /\ e.value >= 0 THEN "INVALID_RANGE" ELSE "INVALID_PARAM"
    [] OTHER -> IF e.value = Overlong THEN "REJECTED" ELSE "OK"

Accepted(c, es, k) == \A j \in 1 .. k : EntryCode(Applied(c, es, j - 1), es[j]) = "OK"

(* How many entries are stored before the first bad one.                   *)
Stored(c, es) ==
  CHOOSE k \in 0 .. Len(es) :
    Accepted(c, es, k) /\ (k < Len(es) => ~Accepted(c, es, k + 1))

(* The message touches the notification policy: the session forgets on     *)
(* which side of the bounds its last measurement was.                      *)
PolicyParams == {"SESSION_INFO_NTF_CONFIG", "RNG_DATA_NTF_PROXIMITY_NEAR",
                 "RNG_DATA_NTF_PROXIMITY_FAR"}
ChangesPolicy(es, k) == \E j \in 1 .. k : es[j].id \in PolicyParams

(* Mutant of ForgetsSide: new bounds keep the side found by the old ones.  *)
ForgetsSideOnModeOnly(es, k) == \E j \in 1 .. k : es[j].id = "SESSION_INFO_NTF_CONFIG"
ForgetsSide(es, k) == ChangesPolicy(es, k)

SetAppConfig(m) ==
  LET es == Declared(m)
      k == Stored(session.config, es)
      after == Applied(session.config, es, k)
      code == IF k < Len(es) THEN EntryCode(after, es[k + 1])
              ELSE IF CutShort(m) THEN "INVALID_PARAM" ELSE "OK"
  IN  /\ SendsToSession("SET")
      /\ session' = [session EXCEPT
                       !.config = after,
                       !.proximity = IF ForgetsSide(es, k) THEN "unknown" ELSE @]
      /\ samples' = IF ChangesPolicy(es, k) THEN << >> ELSE samples
      /\ Answer(code, << >>)
      /\ UNCHANGED <<setup, device>>

(* ids = << >> asks for every stored parameter; their order in the         *)
(* response does not matter here.                                          *)
Held(c) == {p \in Params : c[p] # Unset}
Reportable(c, ids, k) == \A j \in 1 .. k : ids[j] \in Held(c) /\ j <= REPORT_LIMIT
Reported(c, ids) ==
  CHOOSE k \in 0 .. Len(ids) :
    Reportable(c, ids, k) /\ (k < Len(ids) => ~Reportable(c, ids, k + 1))

GetAppConfig(ids) ==
  LET k == Reported(session.config, ids)
      room == Cardinality(Held(session.config)) <= REPORT_LIMIT
  IN  /\ SendsToSession("GET")
      /\ IF ids = << >>
         THEN Answer(IF room THEN "OK" ELSE "INVALID_PARAM", << >>)
         ELSE Answer(IF k = Len(ids) THEN "OK" ELSE "INVALID_PARAM", SubSeq(ids, 1, k))
      /\ UNCHANGED <<setup, session, device, samples>>

-----------------------------------------------------------------------------
(* The device's own parameters: every entry is answered, the good ones are *)
(* stored whatever the others are.                                         *)

(* Mutant of DeviceEntryCode: the result of the store is ignored.          *)
DeviceEntryCodeUnchecked(e) == IF e.id \in DeviceParams THEN "OK" ELSE "INVALID_PARAM"

DeviceEntryCode(e) ==
  CASE e.id \notin DeviceParams -> "INVALID_PARAM"
    [] e.id \in DeviceParams /\ e.value = Overlong -> "FAILED"
    [] OTHER -> "OK"

(* Mutant of StoreDeviceConfig: a value is stored whatever its length.     *)
StoreDeviceConfigUnchecked(c, es) == Applied(c, es, Len(es))

StoreDeviceConfig(c, es) ==
  [p \in DeviceParams |->
     LET w == {j \in Writers(es, Len(es), p) : es[j].value # Overlong}
     IN  IF w = {} THEN c[p] ELSE es[Max(w)].value]

CoreSetConfig(m) ==
  LET es == Declared(m)
      codes == [j \in DOMAIN es |-> DeviceEntryCode(es[j])]
      good == m.count <= Len(m.entries) /\ \A j \in DOMAIN es : codes[j] = "OK"
  IN  /\ Sends("CORE_SET")
      /\ device' = [device EXCEPT !.config = StoreDeviceConfig(@, es)]
      /\ Answer(IF good THEN "OK" ELSE "INVALID_PARAM", codes)
      /\ UNCHANGED <<setup, session, samples>>

(* The device state can be read but has no entry of its own.               *)
CoreGetConfig(ids) ==
  LET known == DeviceParams \cup {ReadOnly}
      bad == {j \in DOMAIN ids : ids[j] \notin known}
      k == IF bad = {} THEN Len(ids) ELSE Min(bad) - 1
  IN  /\ Sends("CORE_GET")
      /\ Answer(IF k = Len(ids) /\ k > 0 THEN "OK" ELSE "INVALID_PARAM", SubSeq(ids, 1, k))
      /\ UNCHANGED <<setup, session, device, samples>>

QueryTimestamp ==
  /\ Sends("TIMESTAMP")
  /\ device.timestamp < TimestampBound
  /\ device' = [device EXCEPT !.timestamp = @ + 1]
  /\ Answer("OK", << >>)
  /\ UNCHANGED <<setup, session, samples>>

(* CORE_DEVICE_INFO, the Qorvo device statistics, and calibrations set,    *)
(* which are acknowledged but not stored.                                  *)
Inform == Sends("INFO") /\ Refuse("OK")
CapsInfo == Sends("CAPS") /\ Refuse(IF Setup.caps THEN "OK" ELSE "FAILED")
UnknownCommand == Sends("UNKNOWN") /\ Refuse("UNKNOWN_OID")

(* The calibrations of the keys r.keys, given by their lengths; the        *)
(* request declares r.count of them and r.extra further bytes follow.  A   *)
(* key whose entry does not fit into a control packet is skipped.          *)
CalibrationHeader == 3
EntrySize(key) == key + 4

(* Mutant of CalibrationEnds: no key is answered after one that does not   *)
(* fit.                                                                    *)
CalibrationEndsAtFirst(keys) ==
  LET end[i \in 0 .. Len(keys)] ==
        IF i = 0 THEN CalibrationHeader
        ELSE IF end[i - 1] + EntrySize(keys[i]) > CONTROL_PAYLOAD_LIMIT
                \/ (i > 1 /\ end[i - 1] = end[i - 2])
             THEN end[i - 1] ELSE end[i - 1] + EntrySize(keys[i])
  IN  end

(* Where the response ends after each key.                                 *)
CalibrationEnds(keys) ==
  LET end[i \in 0 .. Len(keys)] ==
        IF i = 0 THEN CalibrationHeader
        ELSE IF end[i - 1] + EntrySize(keys[i]) > CONTROL_PAYLOAD_LIMIT
             THEN end[i - 1] ELSE end[i - 1] + EntrySize(keys[i])
  IN  end

GetCalibrations(r) ==
  LET end == CalibrationEnds(r.keys)
      whole == r.count = Len(r.keys) /\ r.extra = 0
  IN  /\ Sends("CALIBRATIONS")
      /\ IF whole
         THEN Answer("OK", [i \in DOMAIN r.keys |->
                              IF end[i] # end[i - 1] THEN "OK" ELSE "SKIPPED"])
         ELSE Answer("INVALID_MSG_SIZE", << >>)
      /\ UNCHANGED <<setup, session, device, samples>>

-----------------------------------------------------------------------------
(* The life of the session, as far as it concerns the parameters.          *)

(* find_session knows no such session, or the message is too short for its *)
(* fixed part.                                                             *)
NoSuchSession ==
  /\ \E op \in {"DEINIT", "START", "STOP", "SET", "GET"} : Sends(op)
  /\ session.state = "NONE"
  /\ Refuse("INVALID_PARAM")
ShortMessage ==
  /\ Sends("SHORT")
  /\ \E code \in {"INVALID_MSG_SIZE", "INVALID_PARAM"} : Refuse(code)

DeviceReset ==
  /\ Sends("RESET")
  /\ session' = NoSession
  /\ device' = NewDevice
  /\ samples' = << >>
  /\ Answer("OK", << >>)
  /\ UNCHANGED setup

(* Of a session that exists, SESSION_INIT changes nothing.                 *)
SessionInit ==
  /\ Sends("INIT")
  /\ session' = IF session.state = "NONE" THEN Allocate(session) ELSE session
  /\ Answer("OK", << >>)
  /\ UNCHANGED <<setup, device, samples>>

(* Mutant of SessionDeinit: the slot is released but not cleared.          *)
SessionDeinitWithoutClear ==
  /\ SendsToSession("DEINIT")
  /\ session' = [session EXCEPT !.state = "NONE"]
  /\ samples' = << >>
  /\ Answer("OK", << >>)
  /\ UNCHANGED <<setup, device>>

SessionDeinit ==
  /\ SendsToSession("DEINIT")
  /\ session' = NoSession
  /\ samples' = << >>
  /\ Answer("OK", << >>)
  /\ UNCHANGED <<setup, device>>

(* A failure the profile defers is answered OK and told by a session       *)
(* status with its reason (listed here); the session stays as it is.       *)
SessionStart ==
  LET k == FirstFailure(Setup.ranges, Effective(session.config), StartChecks)
      code == IF k = "RANGING_INTERVAL" THEN "INVALID_RANGE" ELSE "INVALID_PARAM"
  IN  /\ SendsToSession("START")
      /\ \/ session.state = "ACTIVE" /\ Refuse("REJECTED")
         \/ /\ session.state # "ACTIVE" /\ k # Passed
            /\ IF Owner(k) \in Setup.deferred
               THEN Answer("OK", <<Owner(k)>>) ELSE Answer(code, << >>)
            /\ UNCHANGED <<setup, session, device, samples>>
         \/ /\ session.state # "ACTIVE" /\ k = Passed
            /\ session' = [session EXCEPT !.state = "ACTIVE", !.proximity = "unknown",
                                          !.remaining = Setup.burst]
            /\ samples' = << >>
            /\ Answer("OK", << >>)
            /\ UNCHANGED <<setup, device>>

(* Mutant of SessionStop: it stops a session in any state.                 *)
SessionStopAnyState ==
  /\ SendsToSession("STOP")
  /\ session' = [session EXCEPT !.state = "IDLE", !.proximity = "unknown", !.remaining = 0]
  /\ samples' = << >>
  /\ Answer("OK", << >>)
  /\ UNCHANGED <<setup, device>>

SessionStop ==
  /\ SendsToSession("STOP")
  /\ \/ session.state # "ACTIVE" /\ Refuse("REJECTED")
     \/ /\ session.state = "ACTIVE"
        /\ session' = [session EXCEPT !.state = "IDLE", !.proximity = "unknown", !.remaining = 0]
        /\ samples' = << >>
        /\ Answer("OK", << >>)
        /\ UNCHANGED <<setup, device>>

-----------------------------------------------------------------------------
(* uci_sim_device_emit_ranging_stream: one measurement of the stream.      *)

Distance(count) == (DistanceBase + count * DistanceStep) % DIST_MODULUS

Proximity(c, d) ==
  IF /\ c.RNG_DATA_NTF_PROXIMITY_NEAR <= c.RNG_DATA_NTF_PROXIMITY_FAR
     /\ c.RNG_DATA_NTF_PROXIMITY_NEAR <= d
     /\ d <= c.RNG_DATA_NTF_PROXIMITY_FAR
  THEN "in" ELSE "out"

ShouldEmit(c, last, now) ==
  CASE c.SESSION_INFO_NTF_CONFIG = 0 -> FALSE
    [] c.SESSION_INFO_NTF_CONFIG = 2 -> now = "in"
    [] c.SESSION_INFO_NTF_CONFIG = 5 -> last # "unknown" /\ last # now
    [] OTHER -> TRUE

BudgetSpent(c, count) ==
  c.MAX_NUMBER_OF_MEASUREMENTS # 0 /\ count >= c.MAX_NUMBER_OF_MEASUREMENTS

(* A spent budget ends the stream before and after a measurement.          *)
Measure ==
  LET c == Effective(session.config)
      d == Distance(session.count)
      now == Proximity(c, d)
      next == session.count + 1
      ended == BudgetSpent(c, next)
  IN  /\ session.state = "ACTIVE" /\ session.remaining > 0
      /\ session.count < CountBound
      /\ IF BudgetSpent(c, session.count)
         THEN /\ session' = [session EXCEPT !.state = "IDLE", !.remaining = 0]
              /\ UNCHANGED samples
         ELSE /\ session' = [session EXCEPT
                               !.proximity = now, !.count = next,
                               !.state = IF ended THEN "IDLE" ELSE @,
                               !.remaining = IF ended THEN 0 ELSE @ - 1]
              /\ samples' = Append(samples, [distance |-> d,
                                            sent |-> ShouldEmit(c, session.proximity, now)])
      /\ Answer("NONE", << >>)
      /\ UNCHANGED <<setup, device>>

-----------------------------------------------------------------------------
Init ==
  /\ setup \in DOMAIN Setups
  /\ session = NoSession
  /\ device = NewDevice
  /\ answer = [code |-> "NONE", listed |-> << >>]
  /\ samples = << >>

Next ==
  \/ DeviceReset
  \/ SessionInit
  \/ SessionDeinit
  \/ SessionStart
  \/ SessionStop
  \/ \E m \in Setup.sets : SetAppConfig(m)
  \/ \E ids \in Setup.gets : GetAppConfig(ids)
  \/ \E m \in Setup.coreSets : CoreSetConfig(m)
  \/ \E ids \in Setup.coreGets : CoreGetConfig(ids)
  \/ QueryTimestamp
  \/ Inform
  \/ CapsInfo
  \/ UnknownCommand
  \/ \E r \in Setup.calibrations : GetCalibrations(r)
  \/ NoSuchSession
  \/ ShortMessage
  \/ Measure

Spec == Init /\ [][Next]_vars

-----------------------------------------------------------------------------
(* Properties.                                                             *)

SessionType ==
  [state : {"NONE", "INIT", "ACTIVE", "IDLE"}, config : [Params -> Nat \cup {Malformed, Unset}],
   proximity : {"unknown", "in", "out"}, count : 0 .. CountBound, remaining : 0 .. Setup.burst]
DeviceType == [config : [DeviceParams -> Nat \cup {Malformed}], timestamp : Nat]

(* The stores are typed: a parameter holds a number or a value of the      *)
(* wrong length, never more bytes than an entry has                        *)
(* (uci_sim_session_store_config, uci_sim_device_store_config), and no     *)
(* more measurements remain than a burst has.                              *)
ConfigTypeOK == setup \in DOMAIN Setups /\ session \in SessionType /\ device \in DeviceType

SchedulingParams == {"SLOTS_PER_RR", "RESPONDER_SLOT_INDEX", "CAP_SIZE_RANGE",
                     "BLOCK_STRIDE_LENGTH", "RANGING_TIME_STRUCT", "SCHEDULED_MODE"}
ScheduleFits(ranges, c) == SlotTopology(c) /\ BlockStride(ranges, c) /\ CapSize(c)

(* In whatever order the host sets the six scheduling parameters, in one   *)
(* message or in many, and whichever entry of a message is refused, the    *)
(* stored ones fit together: the responder's slot exists, a block stride   *)
(* has the structure it needs, the contention period is ordered and leaves *)
(* a slot.  Every SET validates only the parameter it sets, against the    *)
(* stored others (uci_sim_validate_session_app_config).  A profile that    *)
(* defers one of these checks gives the promise up.                        *)
SchedulingRulesHold ==
  session.state # "NONE" /\ Setup.deferred \cap SchedulingParams = {} =>
    ScheduleFits(Setup.ranges, session.config)

(* Whatever was stored, deferred or left over, a session that becomes      *)
(* ACTIVE satisfies every range and every rule at once: SESSION_START      *)
(* validates the stored configuration again, since a SET may invalidate    *)
(* what an earlier SET was checked against (the PRF mode under a preamble  *)
(* code, the address mode under an address, key material under STS).       *)
StartedConsistent ==
  [][session.state # "ACTIVE" /\ session'.state = "ACTIVE" =>
       \A k \in Checks : Holds(Setup.ranges, Effective(session'.config), k)]_vars

(* A new session has the profile's defaults and nothing of the session     *)
(* that had its slot before, although alloc_session writes only the        *)
(* parameters that have a default.                                         *)
NewSessionHasDefaults ==
  [][session.state = "NONE" /\ session'.state # "NONE" => session'.config = Defaults]_vars

(* The range data sent since the policy was last touched are those the     *)
(* policy names, in terms of the measured distances and the bounds the     *)
(* host set: on a change of side the first measurement is never sent and   *)
(* each later one is sent exactly when it lies on the other side than the  *)
(* one before.                                                             *)
ProximityTransitions ==
  LET c == Effective(session.config)
      inside(i) == /\ c.RNG_DATA_NTF_PROXIMITY_NEAR <= samples[i].distance
                   /\ samples[i].distance <= c.RNG_DATA_NTF_PROXIMITY_FAR
      due(i) == CASE c.SESSION_INFO_NTF_CONFIG = 0 -> FALSE
                  [] c.SESSION_INFO_NTF_CONFIG = 2 -> inside(i)
                  [] c.SESSION_INFO_NTF_CONFIG = 5 -> i > 1 /\ inside(i) # inside(i - 1)
                  [] OTHER -> TRUE
  IN  \A i \in DOMAIN samples : samples[i].sent = due(i)

(* CORE_SET_CONFIG stores the good entries of a message and skips the bad  *)
(* ones: replaying the entries it answers OK gives the device's            *)
(* parameters, so the host knows them in spite of the failures.            *)
CoreAnswerTellsAll ==
  [][\A m \in Setup.coreSets : CoreSetConfig(m) =>
       \A p \in DeviceParams :
         LET told == {j \in DOMAIN answer'.listed :
                        answer'.listed[j] = "OK" /\ m.entries[j].id = p}
         IN  IF told = {} THEN device'.config[p] = device.config[p]
             ELSE device'.config[p] = m.entries[Max(told)].value]_vars

(* The size of an answer with the entries of the keys at S.                *)
SumEntries(keys, S) == CalibrationHeader + MapThenSumSet(LAMBDA i : EntrySize(keys[i]), S)

(* An answer to GET_CALIBRATIONS fits into one control packet and leaves   *)
(* out no key that it still had room for, whichever keys before it were    *)
(* too long.                                                               *)
CalibrationsFill ==
  [][\A r \in Setup.calibrations : GetCalibrations(r) /\ answer'.code = "OK" =>
       LET size(S) == SumEntries(r.keys, S)
           answered == {i \in DOMAIN r.keys : answer'.listed[i] = "OK"}
       IN  /\ size(answered) <= CONTROL_PAYLOAD_LIMIT
           /\ \A i \in DOMAIN r.keys \ answered :
                size(answered \cup {i}) > CONTROL_PAYLOAD_LIMIT]_vars

(* With bad configurations, deferred failures and budgets in play, every   *)
(* step is one command of the abstract life cycle (session_transitions);   *)
(* the end of the budget is its Stop.                                      *)
SessionView == [s \in {"s"} |-> session.state]
Lifecycle == INSTANCE SessionLifecycle WITH Sid <- {"s"}, Capacity <- 1, view <- SessionView
ConfigLifecycle ==
  Lifecycle!Init /\ [][Lifecycle!Command(SessionView, SessionView')]_vars

(* KEY_ROTATION_RATE is stored only in the range 0 to 15.  The code        *)
(* compares the first of its two bytes.                                    *)
KeyRateDocumented ==
  session.state # "NONE" => session.config.KEY_ROTATION_RATE \in 0 .. 15
=============================================================================
