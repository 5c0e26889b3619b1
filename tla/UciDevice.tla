------------------------------ MODULE UciDevice ------------------------------
(***************************************************************************)
(* The device model of the simulator: the session table, the scheduled     *)
(* events, the pending notifications, and the handlers that change them    *)
(* (src/src/model/uci_sim_device.c, src/src/spec/uci_sim_scenario.c and    *)
(* the session handlers of src/src/handlers/uci_sim_handlers.c).           *)
(*                                                                         *)
(* The code is single-threaded: one call of the engine API runs a handler, *)
(* moves notifications between two queues and may process one scheduled    *)
(* event before it returns.  The functions below are therefore operators   *)
(* on a device value d; module UciEngine turns each API call into one      *)
(* action.  Payload bytes are abstracted: a packet keeps its kind, the     *)
(* session, one code (a status, a state or a reason), one number and, for  *)
(* data transfers, the message it is about.                                *)
(***************************************************************************)
EXTENDS Integers, Sequences, FiniteSets

CONSTANTS
  Sid,              \* session identifiers the host uses
  NoSid,            \* in a packet that carries no session identifier
  Msg,              \* data messages: a (sequence number, length) pair
  NoMsg,            \* no data message
  Tlvs,             \* the SESSION_SET_APP_CONFIG entries the host may send
  Scenario,         \* "default", "delayed_notifications", "ranging_stream"
  MAX_SESSIONS, MAX_SCENARIO_EVENTS, MAX_PENDING_NOTIFICATIONS,
  BurstCount,       \* profile->ranging_stream_burst_count
  DefaultInterval,  \* the session default of RANGING_INTERVAL
  DefaultMeasurements, \* that of MAX_NUMBER_OF_MEASUREMENTS
  MinInterval,      \* profile->min_ranging_interval_ms
  TxModulus         \* data_transfer_tx_count is a uint8_t: 256

Scenarios == {"default", "delayed_notifications", "ranging_stream"}
ConfigIds == {"RANGING_INTERVAL", "MAX_NUMBER_OF_MEASUREMENTS",
              "SESSION_INFO_NTF_CONFIG", "DATA_REPETITION_COUNT"}

ASSUME ScenarioAssumption == Scenario \in Scenarios
ASSUME IdsAssumption == IsFiniteSet(Sid) /\ NoSid \notin Sid /\ NoMsg \notin Msg
ASSUME TlvAssumption == Tlvs \subseteq [id : ConfigIds, val : Nat]
ASSUME SizesAssumption ==
  /\ MAX_SESSIONS \in Nat \ {0}
  /\ MAX_SCENARIO_EVENTS \in Nat \ {0}
  /\ MAX_PENDING_NOTIFICATIONS \in Nat \ {0}
  /\ BurstCount \in Nat
  /\ DefaultMeasurements \in Nat
  /\ TxModulus \in Nat \ {0}
ASSUME IntervalAssumption ==
  /\ MinInterval \in Nat \ {0}
  /\ DefaultInterval \in Nat
  /\ DefaultInterval >= MinInterval

-----------------------------------------------------------------------------
(* Packets.                                                                *)

Kinds == {"RSP", "DEVICE_STATUS", "GENERIC_ERROR", "SESSION_STATUS",
          "RANGE_DATA", "DATA_CREDIT", "DATA_STATUS",
          "LINK_CREATE", "LINK_CLOSE"}
Codes == {"OK", "REJECTED", "INVALID_PARAM", "INVALID_RANGE",
          "INVALID_MSG_SIZE", "UNKNOWN", "READY", "NONE",
          "INIT", "DEINIT", "ACTIVE", "IDLE", "IDLE_MAX_REACHED",
          "REPETITION_OK", "ERROR_REJECTED", "ERROR_ONGOING",
          "INVALID_FORMAT", "FAILED", "LIST_FULL"}
LinkKinds == {"LINK_CREATE", "LINK_CLOSE"}
Packet ==          \* a link identifier is one byte
  {p \in [kind : Kinds, sid : Sid \cup {NoSid}, code : Codes, num : Nat,
          msg : Msg \cup {NoMsg}] : p.kind \in LinkKinds => p.num \in 0 .. 255}

MakePacket(kind, s, code, num, m) ==
  [kind |-> kind, sid |-> s, code |-> code, num |-> num, msg |-> m]

MakeStatusResponse(status) == MakePacket("RSP", NoSid, status, 0, NoMsg)
GenericErrorNtf(status) == MakePacket("GENERIC_ERROR", NoSid, status, 0, NoMsg)
DeviceStatusNtf == MakePacket("DEVICE_STATUS", NoSid, "READY", 0, NoMsg)
SessionStatusNtf(s, state) == MakePacket("SESSION_STATUS", s, state, 0, NoMsg)
DataCreditNtf(s) == MakePacket("DATA_CREDIT", s, "NONE", 1, NoMsg)
DataStatusNtf(s, m, status, tx) == MakePacket("DATA_STATUS", s, status, tx, m)
RangeDataNtf(s, n) == MakePacket("RANGE_DATA", s, "NONE", n, NoMsg)

-----------------------------------------------------------------------------
(* The device state.  A session that is not allocated has state "NONE";    *)
(* which of the MAX_SESSIONS slots holds a session is immaterial, as every *)
(* lookup is by identifier.                                                *)

SessionStates == {"NONE", "INIT", "ACTIVE", "IDLE"}
Session ==
  [state : SessionStates,
   ranging_count : Nat,
   stream_remaining : Nat,
   interval : Nat,           \* RANGING_INTERVAL
   max_meas : Nat,           \* MAX_NUMBER_OF_MEASUREMENTS, 0: unlimited
   ntf_config : Nat,         \* SESSION_INFO_NTF_CONFIG
   repetition : Nat,         \* DATA_REPETITION_COUNT
   in_progress : BOOLEAN,    \* data_transfer_in_progress
   reps_remaining : Nat,     \* data_transfer_repetitions_remaining
   tx_count : Nat,           \* data_transfer_tx_count
   last_data : Msg \cup {NoMsg}]

NewSession ==
  [state |-> "INIT", ranging_count |-> 0, stream_remaining |-> 0,
   interval |-> DefaultInterval, max_meas |-> DefaultMeasurements,
   ntf_config |-> 1, repetition |-> 0, in_progress |-> FALSE,
   reps_remaining |-> 0, tx_count |-> 0, last_data |-> NoMsg]
FreeSession == [NewSession EXCEPT !.state = "NONE"]

EventTypes == {"RANGE_DATA", "DATA_TRANSFER"}
Event == [type : EventTypes, sid : Sid, delay : Nat, pos : Nat]

(* scheduled_events[] is the set of its used entries, each with its index. *)
(* lost is a history field: some packet was discarded for want of room.    *)
DeviceState ==
  [sessions : [Sid -> Session],
   events : SUBSET Event,
   pending : Seq(Packet),
   next_seq : Nat,
   lost : BOOLEAN]

InitDevice ==
  [sessions |-> [s \in Sid |-> FreeSession], events |-> {},
   pending |-> << >>, next_seq |-> 1, lost |-> FALSE]

Allocated(d) == {s \in Sid : d.sessions[s].state # "NONE"}
Active(d, s) == d.sessions[s].state = "ACTIVE"
SetSession(d, s, v) == [d EXCEPT !.sessions[s] = v]

(* The device value is well-typed and its three arrays are within bounds.  *)
DeviceOK(d) ==
  /\ d \in DeviceState
  /\ Len(d.pending) <= MAX_PENDING_NOTIFICATIONS
  /\ IsFiniteSet(d.events)
  /\ Cardinality(d.events) <= MAX_SCENARIO_EVENTS
  /\ Cardinality(Allocated(d)) <= MAX_SESSIONS

(* A session in IDLE has nothing scheduled.                                *)
QuietWhenIdle(d) ==
  \A s \in Sid : d.sessions[s].state = "IDLE" => \A e \in d.events : e.sid # s

-----------------------------------------------------------------------------
(* Pending notifications: a bounded FIFO.                                  *)

(* Mutant of CanQueue: the last slot is never used.                        *)
CanQueueOneEarly(d) == Len(d.pending) < MAX_PENDING_NOTIFICATIONS - 1

CanQueue(d) == Len(d.pending) < MAX_PENDING_NOTIFICATIONS

(* A caller that ignores the return code loses the notification silently;  *)
(* callers that look at it test CanQueue first.                            *)
QueueNotification(d, n) ==
  IF CanQueue(d) THEN [d EXCEPT !.pending = Append(@, n)]
                 ELSE [d EXCEPT !.lost = TRUE]

-----------------------------------------------------------------------------
(* Scheduled events: a bounded array, compacted in place.                  *)

(* Mutant of CanSchedule: off by one.                                      *)
CanScheduleOneMore(d) == Cardinality(d.events) <= MAX_SCENARIO_EVENTS

CanSchedule(d) == Cardinality(d.events) < MAX_SCENARIO_EVENTS

(* scheduled_events[i], and its assignment.                                *)
EntryAt(E, i) == CHOOSE e \in E : e.pos = i
Put(E, i, e) == {f \in E : f.pos # i} \cup {[e EXCEPT !.pos = i]}
Truncate(E, count) == {e \in E : e.pos <= count}

(* The loop that drops the entries of some types and sessions: i reads,    *)
(* out writes, and what was read is copied down unless it is dropped.      *)
Compact(E, dropped) ==
  LET n == Cardinality(E)
      loop[i \in 0 .. n] ==
        IF i = 0 THEN [array |-> E, out |-> 0]
        ELSE LET last == loop[i - 1]
                 e == EntryAt(last.array, i)
             IN  IF <<e.type, e.sid>> \in dropped THEN last
                 ELSE [array |-> Put(last.array, last.out + 1, e),
                       out |-> last.out + 1]
  IN  Truncate(loop[n].array, loop[n].out)

ScheduleEvent(d, type, s, ms) ==
  IF CanSchedule(d)
  THEN [d EXCEPT !.events = @ \cup
          {[type |-> type, sid |-> s, delay |-> ms, pos |-> Cardinality(@) + 1]}]
  ELSE d

IsEventOf(e, type, s) == e.type = type /\ e.sid = s

RemoveEvents(d, type, s) ==
  [d EXCEPT !.events = Compact(@, {<<type, s>>})]

RescheduleSessionEvent(d, type, s, ms) ==
  ScheduleEvent(RemoveEvents(d, type, s), type, s, ms)

CancelSessionEvents(d, s) ==
  [d EXCEPT !.events = Compact(@, EventTypes \X {s})]

Age(e, ms) == [e EXCEPT !.delay = IF @ > ms THEN @ - ms ELSE 0]

TickEvents(d, ms) == [d EXCEPT !.events = {Age(e, ms) : e \in @}]

ReadyEvents(d) == {e \in d.events : e.delay = 0}

FirstReadyEvent(d) ==
  CHOOSE e \in ReadyEvents(d) : \A f \in ReadyEvents(d) : e.pos <= f.pos

(* The array after the k-th of the moves that close the gap of an entry    *)
(* at index p.                                                             *)
Shifted(E, p, moves) ==
  LET move[k \in 0 .. moves] ==
        IF k = 0 THEN E
        ELSE Put(move[k - 1], p + k - 1, EntryAt(move[k - 1], p + k))
  IN  move[moves]

(* Mutant of RemoveEvent: the last move is left out.                       *)
RemoveEventShiftingShort(d, e) ==
  LET n == Cardinality(d.events)
      moves == IF e.pos < n THEN n - e.pos - 1 ELSE 0
  IN  [d EXCEPT !.events = Truncate(Shifted(@, e.pos, moves), n - 1)]

(* The entries behind a dequeued one move up by one.                       *)
RemoveEvent(d, e) ==
  LET n == Cardinality(d.events)
  IN  [d EXCEPT !.events = Truncate(Shifted(@, e.pos, n - e.pos), n - 1)]

-----------------------------------------------------------------------------
(* What a scheduled event does.  Each operator yields the device and TRUE  *)
(* when the C function returns 0.                                          *)

Outcome(d, ok) == [dev |-> d, ok |-> ok]

(* The notification policy.  hit stands for the proximity comparison of    *)
(* the sample, which only SESSION_INFO_NTF_CONFIG 2 and 5 consult.         *)
ShouldEmit(v, hit) ==
  CASE v.ntf_config = 0 -> FALSE
    [] v.ntf_config \in {2, 5} -> hit
    [] OTHER -> TRUE

(* Mutant of BudgetReached: off by one.                                    *)
BudgetExceeded(v) == v.max_meas # 0 /\ v.ranging_count > v.max_meas

BudgetReached(v) == v.max_meas # 0 /\ v.ranging_count >= v.max_meas

(* The session goes back to IDLE because its measurement budget is spent.  *)
StopAtBudget(d, s) ==
  LET idle == SetSession(d, s, [d.sessions[s] EXCEPT !.state = "IDLE",
                                                     !.stream_remaining = 0])
      quiet == CancelSessionEvents(idle, s)
  IN  Outcome(QueueNotification(quiet, SessionStatusNtf(s, "IDLE_MAX_REACHED")),
              CanQueue(quiet))

CountMeasurement(d, s) ==
  SetSession(d, s, [d.sessions[s] EXCEPT !.ranging_count = @ + 1,
                                         !.stream_remaining = @ - 1])

(* Mutant of EmitRangingStream: the measurement is counted, and the budget *)
(* checked, before its notification is queued.                             *)
EmitRangingStreamLate(d, s, hit) ==
  LET v == d.sessions[s]
      emit == ShouldEmit(v, hit)
      counted == CountMeasurement(d, s)
      o == IF BudgetReached(counted.sessions[s]) THEN StopAtBudget(counted, s)
           ELSE Outcome(counted, TRUE)
      numbered == [o.dev EXCEPT !.next_seq = @ + 1]
  IN  IF Scenario # "ranging_stream" \/ v.stream_remaining = 0 \/ v.state # "ACTIVE"
      THEN Outcome(d, TRUE)
      ELSE IF BudgetReached(v) THEN StopAtBudget(d, s)
      ELSE IF ~emit THEN o
      ELSE Outcome(QueueNotification(numbered, RangeDataNtf(s, d.next_seq)),
                   CanQueue(numbered))

EmitRangingStream(d, s, hit) ==
  LET v == d.sessions[s]
      emit == ShouldEmit(v, hit)
      numbered == IF emit THEN [d EXCEPT !.next_seq = @ + 1] ELSE d
      sent == IF emit THEN QueueNotification(numbered, RangeDataNtf(s, d.next_seq))
                      ELSE d
      counted == CountMeasurement(sent, s)
  IN  IF Scenario # "ranging_stream" \/ v.stream_remaining = 0 \/ v.state # "ACTIVE"
      THEN Outcome(d, TRUE)
      ELSE IF BudgetReached(v) THEN StopAtBudget(d, s)
      ELSE IF emit /\ ~CanQueue(d) THEN Outcome(sent, FALSE)
      ELSE IF BudgetReached(counted.sessions[s]) THEN StopAtBudget(counted, s)
      ELSE Outcome(counted, TRUE)

(* Mutant of ProgressDataTransfer: the end of a transfer returns no credit. *)
ProgressDataTransferNoCredit(d, s) ==
  LET v == d.sessions[s]
      tx == (v.tx_count + 1) % TxModulus
      again == SetSession(d, s, [v EXCEPT !.tx_count = tx,
                                          !.reps_remaining = @ - 1])
      final == SetSession(d, s, [v EXCEPT !.tx_count = tx,
                                          !.in_progress = FALSE])
      next == IF v.reps_remaining > 0 THEN again ELSE final
      code == IF v.reps_remaining > 0 THEN "REPETITION_OK" ELSE "OK"
  IN  Outcome(QueueNotification(next, DataStatusNtf(s, v.last_data, code, tx)),
              CanQueue(next))

(* One transmission of the message in progress: a repetition, or the last  *)
(* one, which ends the transfer and returns the credit.                    *)
ProgressDataTransfer(d, s) ==
  LET v == d.sessions[s]
      tx == (v.tx_count + 1) % TxModulus
      again == SetSession(d, s, [v EXCEPT !.tx_count = tx,
                                          !.reps_remaining = @ - 1])
      final == SetSession(d, s, [v EXCEPT !.tx_count = tx,
                                          !.in_progress = FALSE])
      credited == QueueNotification(final, DataCreditNtf(s))
      status(code) == DataStatusNtf(s, v.last_data, code, tx)
  IN  IF v.reps_remaining > 0
      THEN Outcome(QueueNotification(again, status("REPETITION_OK")), CanQueue(again))
      ELSE IF ~CanQueue(final) THEN Outcome(credited, FALSE)
      ELSE Outcome(QueueNotification(credited, status("OK")), CanQueue(credited))

-----------------------------------------------------------------------------
(* Handlers.  uci_sim_result_t holds at most one response and at most one  *)
(* notification; further notifications wait in the pending queue.          *)

Result(d, rsp, ntf, rc) == [dev |-> d, rsp |-> rsp, ntf |-> ntf, rc |-> rc]
Respond(d, status) == Result(d, <<MakeStatusResponse(status)>>, << >>, 0)
Reject(d, status) == Result(d, <<MakeStatusResponse(status)>>, << >>, -1)

ShouldDefer == Scenario = "delayed_notifications"

DeliverNotification(res, n) ==
  IF ~ShouldDefer /\ res.ntf = << >>
  THEN [res EXCEPT !.ntf = <<n>>]
  ELSE [res EXCEPT !.dev = QueueNotification(@, n)]

(* Mutant of FinalizeResult: what the command itself queued is delivered.  *)
FinalizeResultAtOnce(res, pendingBefore) ==
  IF res.ntf # << >> \/ res.dev.pending = << >> THEN res
  ELSE [res EXCEPT !.ntf = <<Head(res.dev.pending)>>,
                   !.dev.pending = Tail(@)]

(* In the delayed scenario a pending notification is handed over only when *)
(* one was already waiting before the command.                             *)
FinalizeResult(res, pendingBefore) ==
  IF \/ res.ntf # << >>
     \/ ShouldDefer /\ pendingBefore = 0
     \/ res.dev.pending = << >>
  THEN res
  ELSE [res EXCEPT !.ntf = <<Head(res.dev.pending)>>,
                   !.dev.pending = Tail(@)]

(* uci_sim_device_handle_packet, once the handler has run on device d.     *)
CommandResult(d, res) ==
  FinalizeResult(IF res.rc # 0
                 THEN DeliverNotification(res, GenericErrorNtf(res.rsp[1].code))
                 ELSE res,
                 Len(d.pending))
DataResult(d, res) == FinalizeResult(res, Len(d.pending))

(* The scenario hooks.  The handler ignores a failure to schedule.         *)
OnSessionStarted(d, s) ==
  IF Scenario # "ranging_stream" THEN d
  ELSE LET armed == [d EXCEPT !.sessions[s].stream_remaining = BurstCount]
       IN  IF BurstCount = 0 THEN armed
           ELSE ScheduleEvent(armed, "RANGE_DATA", s, d.sessions[s].interval)

(* Mutants of OnSessionStopped: the events, or the transfer, survive.      *)
OnSessionStoppedKeepingEvents(d, s) ==
  SetSession(d, s, [d.sessions[s] EXCEPT !.stream_remaining = 0,
                                         !.in_progress = FALSE,
                                         !.reps_remaining = 0,
                                         !.tx_count = 0])
OnSessionStoppedKeepingTransfer(d, s) ==
  CancelSessionEvents(
    SetSession(d, s, [d.sessions[s] EXCEPT !.stream_remaining = 0]), s)

OnSessionStopped(d, s) ==
  CancelSessionEvents(
    SetSession(d, s, [d.sessions[s] EXCEPT !.stream_remaining = 0,
                                           !.in_progress = FALSE,
                                           !.reps_remaining = 0,
                                           !.tx_count = 0]), s)

(* Mutant of HandleDeviceReset: the numbering goes on.                     *)
HandleDeviceResetKeepingSequence(d) ==
  DeliverNotification(Respond([InitDevice EXCEPT !.lost = d.lost,
                                                 !.next_seq = d.next_seq], "OK"),
                      DeviceStatusNtf)

HandleDeviceReset(d) ==
  DeliverNotification(Respond([InitDevice EXCEPT !.lost = d.lost], "OK"),
                      DeviceStatusNtf)

(* Mutant of HandleSessionInit: INIT is announced whatever the state is.   *)
HandleSessionInitAnnouncingInit(d, s) ==
  LET known == s \in Allocated(d)
      d1 == IF known THEN d ELSE SetSession(d, s, NewSession)
  IN  IF ~known /\ Cardinality(Allocated(d)) >= MAX_SESSIONS
      THEN Reject(d, "REJECTED")
      ELSE DeliverNotification(Respond(d1, "OK"), SessionStatusNtf(s, "INIT"))

(* SESSION_INIT of a known session only reports its state again.           *)
HandleSessionInit(d, s) ==
  LET known == s \in Allocated(d)
      d1 == IF known THEN d ELSE SetSession(d, s, NewSession)
  IN  IF ~known /\ Cardinality(Allocated(d)) >= MAX_SESSIONS
      THEN Reject(d, "REJECTED")
      ELSE DeliverNotification(Respond(d1, "OK"),
                               SessionStatusNtf(s, d1.sessions[s].state))

HandleSessionDeinit(d, s) ==
  IF s \notin Allocated(d) THEN Reject(d, "INVALID_PARAM")
  ELSE LET res == DeliverNotification(Respond(d, "OK"), SessionStatusNtf(s, "DEINIT"))
       IN  [res EXCEPT !.dev = SetSession(@, s, FreeSession)]

(* uci_sim_validate_session_start.  The interval is checked here; verdict  *)
(* is that of the parameters which module Configuration has: a status to   *)
(* refuse with, or SURFACED for a failure that is answered OK and reported *)
(* in a session status.                                                    *)
Verdicts == {"OK", "INVALID_PARAM", "INVALID_RANGE", "SURFACED"}
StartVerdict(v, verdict) ==
  IF v.interval < MinInterval THEN "INVALID_RANGE" ELSE verdict

HandleSessionStart(d, s, verdict) ==
  LET v == d.sessions[s]
      outcome == StartVerdict(v, verdict)
      d1 == SetSession(d, s, [v EXCEPT !.state = "ACTIVE"])
      res == DeliverNotification(Respond(d1, "OK"), SessionStatusNtf(s, "ACTIVE"))
  IN  IF s \notin Allocated(d) THEN Reject(d, "INVALID_PARAM")
      ELSE IF v.state \notin {"INIT", "IDLE"} THEN Reject(d, "REJECTED")
      ELSE IF outcome = "SURFACED"
           THEN DeliverNotification(Respond(d, "OK"), SessionStatusNtf(s, v.state))
      ELSE IF outcome # "OK" THEN Reject(d, outcome)
      ELSE [res EXCEPT !.dev = OnSessionStarted(@, s)]

(* Mutant of HandleSessionStop: allowed in every state.                    *)
HandleSessionStopAnyState(d, s) ==
  LET d1 == SetSession(d, s, [d.sessions[s] EXCEPT !.state = "IDLE"])
      res == DeliverNotification(Respond(d1, "OK"), SessionStatusNtf(s, "IDLE"))
  IN  IF s \notin Allocated(d) THEN Reject(d, "INVALID_PARAM")
      ELSE [res EXCEPT !.dev = OnSessionStopped(@, s)]

HandleSessionStop(d, s) ==
  LET d1 == SetSession(d, s, [d.sessions[s] EXCEPT !.state = "IDLE"])
      res == DeliverNotification(Respond(d1, "OK"), SessionStatusNtf(s, "IDLE"))
  IN  IF s \notin Allocated(d) THEN Reject(d, "INVALID_PARAM")
      ELSE IF ~Active(d, s) THEN Reject(d, "REJECTED")
      ELSE [res EXCEPT !.dev = OnSessionStopped(@, s)]

StoreConfig(v, t) ==
  CASE t.id = "RANGING_INTERVAL" -> [v EXCEPT !.interval = t.val]
    [] t.id = "MAX_NUMBER_OF_MEASUREMENTS" -> [v EXCEPT !.max_meas = t.val]
    [] t.id = "SESSION_INFO_NTF_CONFIG" -> [v EXCEPT !.ntf_config = t.val]
    [] OTHER -> [v EXCEPT !.repetition = t.val]

(* One entry of SESSION_SET_APP_CONFIG: validated, stored and, for the     *)
(* interval of a running stream, applied to the scheduled event.           *)
ApplyTlv(d, s, t) ==
  LET d1 == SetSession(d, s, StoreConfig(d.sessions[s], t))
      streaming == Active(d, s) /\ d.sessions[s].stream_remaining > 0
  IN  IF t.id # "RANGING_INTERVAL" THEN Outcome(d1, "OK")
      ELSE IF t.val < MinInterval THEN Outcome(d, "INVALID_RANGE")
      ELSE IF ~streaming THEN Outcome(d1, "OK")
      ELSE Outcome(RescheduleSessionEvent(d1, "RANGE_DATA", s, t.val),
                   IF CanSchedule(RemoveEvents(d1, "RANGE_DATA", s))
                   THEN "OK" ELSE "REJECTED")

(* The entries are applied in order up to the first bad one, and what was  *)
(* applied stays; bad says that an unsupported entry follows t.            *)
HandleSetAppConfig(d, s, t, bad) ==
  LET first == ApplyTlv(d, s, t)
  IN  IF s \notin Allocated(d) THEN Reject(d, "INVALID_PARAM")
      ELSE IF first.ok # "OK" THEN Reject(first.dev, first.ok)
      ELSE IF bad THEN Reject(first.dev, "INVALID_PARAM")
      ELSE Respond(first.dev, "OK")

(* Commands that read the model: they answer and change nothing here.      *)
HandleQuery(d, s) ==
  IF s \in Allocated(d) THEN Respond(d, "OK") ELSE Reject(d, "INVALID_PARAM")

(* Commands refused before any session is looked at.                       *)
HandleRefused(d, status) == Reject(d, status)

(* DATA_MESSAGE_SND.  The refusals write the result's notification         *)
(* directly, so the delayed scenario does not defer them.                  *)
RefuseData(d, s, m, code, tx) ==
  Result(d, << >>, <<DataStatusNtf(s, m, code, tx)>>, -1)

ReportTransfer(d, s, m, code) ==
  LET credited == QueueNotification(d, DataCreditNtf(s))
      reported == QueueNotification(credited, DataStatusNtf(s, m, code, 1))
  IN  IF ~CanQueue(d) THEN Result(credited, << >>, << >>, -1)
      ELSE Result(reported, << >>, << >>, IF CanQueue(credited) THEN 0 ELSE -1)

StartTransfer(d, s, m) ==
  LET v == d.sessions[s]
      busy == SetSession(d, s, [v EXCEPT !.last_data = m, !.in_progress = TRUE,
                                         !.reps_remaining = v.repetition,
                                         !.tx_count = 0])
      undone == SetSession(d, s, [v EXCEPT !.last_data = m, !.in_progress = FALSE,
                                           !.reps_remaining = 0, !.tx_count = 0])
  IN  IF CanSchedule(d)
      THEN Result(ScheduleEvent(busy, "DATA_TRANSFER", s, v.interval), << >>, << >>, 0)
      ELSE Result(undone, << >>, << >>, -1)

HandleDataMessageSend(d, s, m) ==
  LET v == d.sessions[s]
  IN  IF v.state # "ACTIVE" THEN RefuseData(d, s, m, "ERROR_REJECTED", 0)
      ELSE IF v.in_progress THEN RefuseData(d, s, m, "ERROR_ONGOING", v.tx_count)
      ELSE IF v.last_data = m THEN ReportTransfer(d, s, m, "REPETITION_OK")
      ELSE IF v.repetition = 0
           THEN ReportTransfer(SetSession(d, s, [v EXCEPT !.last_data = m]), s, m, "OK")
      ELSE StartTransfer(d, s, m)

(* A data packet whose declared length exceeds its payload, and a packet   *)
(* too short to name a session.                                            *)
HandleBadDataLength(d, s, m) == RefuseData(d, s, m, "INVALID_FORMAT", 0)
HandleMalformedData(d) == Result(d, << >>, << >>, -1)
=============================================================================
