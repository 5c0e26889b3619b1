--------------------------- MODULE TransferProofs ---------------------------
(***************************************************************************)
(* Proofs about the data transfers of the TCP server: a transfer in        *)
(* progress always has an event that will move it on, and one that ends    *)
(* tells the client so.  As for the sessions, a handler and a served event *)
(* each have a law; one iteration of the loop is made of these two.        *)
(***************************************************************************)
EXTENDS TcpServerProofs

Sending(d, s) == d.sessions[s].in_progress
HasTransfer(d, s) == \E e \in d.events : IsEventOf(e, "DATA_TRANSFER", s)
DrivenAt(d, s) == Sending(d, s) => Active(d, s) /\ HasTransfer(d, s)

(* The invariant, on a device.                                             *)
Driven(d) == \A s \in Sid : DrivenAt(d, s)

(* What happens to the transfer of session s from d to r: a handler may    *)
(* end it only together with the activity of the session, and leaves an    *)
(* event for it.                                                           *)
Handles(d, r, s) ==
  /\ Sending(d, s) => \/ ~Active(r, s)
                      \/ /\ Sending(r, s)
                         /\ r.sessions[s].last_data = d.sessions[s].last_data
  /\ DrivenAt(d, s) => DrivenAt(r, s)
HandlerLaw(d, r) == \A s \in Sid : Handles(d, r, s)

-----------------------------------------------------------------------------
(* The array of scheduled events keeps the events of the transfers.        *)

KeepsTransfer(d, r, s) == HasTransfer(d, s) => HasTransfer(r, s)

LEMMA InOrderTransfer ==
  ASSUME NEW d, d \in DeviceState, NEW E \in SUBSET d.events, NEW s,
         \A e \in d.events : IsEventOf(e, "DATA_TRANSFER", s) => e \in E
  PROVE  KeepsTransfer(d, [d EXCEPT !.events = InOrder(E)], s)
<1> SUFFICES ASSUME NEW e \in d.events, IsEventOf(e, "DATA_TRANSFER", s)
             PROVE  \E c \in InOrder(E) : IsEventOf(c, "DATA_TRANSFER", s)
  BY DEF KeepsTransfer, HasTransfer, DeviceState
<1>1. e \in E /\ e \in Event BY DEF DeviceState
<1> DEFINE c == [e EXCEPT !.pos = Cardinality({f \in E : f.pos <= e.pos})]
<1>2. c \in InOrder(E) BY <1>1 DEF InOrder
<1>3. c.type = e.type /\ c.sid = e.sid BY <1>1 DEF Event
<1> QED BY <1>2, <1>3 DEF IsEventOf

LEMMA ScheduleTransfer ==
  ASSUME NEW d, d \in DeviceState, NEW type, NEW s, NEW ms
  PROVE  LET r == ScheduleEvent(d, type, s, ms)
         IN  /\ \A u : KeepsTransfer(d, r, u)
             /\ CanSchedule(d) /\ type = "DATA_TRANSFER" => HasTransfer(r, s)
<1> DEFINE x == [type |-> type, sid |-> s, delay |-> ms, pos |-> Cardinality(d.events) + 1]
<1>1. ScheduleEvent(d, type, s, ms).events =
        IF CanSchedule(d) THEN d.events \cup {x} ELSE d.events
  BY DEF ScheduleEvent, DeviceState
<1>2. x.type = type /\ x.sid = s OBVIOUS
<1> HIDE DEF x
<1> QED BY <1>1, <1>2 DEF KeepsTransfer, HasTransfer, IsEventOf

LEMMA RemoveRangeTransfer ==
  ASSUME NEW d, DeviceOK(d), DenseSet(d.events), NEW type, NEW s, NEW u,
         type # "DATA_TRANSFER"
  PROVE  KeepsTransfer(d, RemoveEvents(d, type, s), u)
<1> DEFINE E == {e \in d.events : ~IsEventOf(e, type, s)}
<1>1. RemoveEvents(d, type, s) = [d EXCEPT !.events = InOrder(E)]
  BY LoopsAre
<1>2. E \in SUBSET d.events OBVIOUS
<1>3. \A e \in d.events : IsEventOf(e, "DATA_TRANSFER", u) => e \in E BY DEF IsEventOf
<1> HIDE DEF E
<1>4. KeepsTransfer(d, [d EXCEPT !.events = InOrder(E)], u)
  BY <1>2, <1>3, InOrderTransfer DEF DeviceOK
<1> QED BY <1>1, <1>4

LEMMA CancelTransfer ==
  ASSUME NEW d, DeviceOK(d), DenseSet(d.events), NEW s, NEW u, u # s
  PROVE  KeepsTransfer(d, CancelSessionEvents(d, s), u)
<1> DEFINE E == {e \in d.events : e.sid # s}
<1>1. CancelSessionEvents(d, s) = [d EXCEPT !.events = InOrder(E)]
  BY LoopsAre
<1>2. E \in SUBSET d.events OBVIOUS
<1>3. \A e \in d.events : IsEventOf(e, "DATA_TRANSFER", u) => e \in E BY DEF IsEventOf
<1> HIDE DEF E
<1>4. KeepsTransfer(d, [d EXCEPT !.events = InOrder(E)], u)
  BY <1>2, <1>3, InOrderTransfer DEF DeviceOK
<1> QED BY <1>1, <1>4

(* Dequeuing an event of another session, or of the ranging stream.        *)
LEMMA DequeueTransfer ==
  ASSUME NEW d, DeviceOK(d), DenseSet(d.events), NEW x \in d.events, NEW u,
         ~IsEventOf(x, "DATA_TRANSFER", u)
  PROVE  KeepsTransfer(d, RemoveEvent(d, x), u)
<1> DEFINE E == d.events \ {x}
<1>1. RemoveEvent(d, x) = [d EXCEPT !.events = InOrder(E)] BY LoopsAre
<1>2. E \in SUBSET d.events OBVIOUS
<1>3. \A e \in d.events : IsEventOf(e, "DATA_TRANSFER", u) => e \in E OBVIOUS
<1> HIDE DEF E
<1>4. KeepsTransfer(d, [d EXCEPT !.events = InOrder(E)], u)
  BY <1>2, <1>3, InOrderTransfer DEF DeviceOK
<1> QED BY <1>1, <1>4

LEMMA TickTransfer ==
  ASSUME NEW d, d \in DeviceState, NEW ms, NEW u
  PROVE  KeepsTransfer(d, TickEvents(d, ms), u)
<1> SUFFICES ASSUME NEW e \in d.events, IsEventOf(e, "DATA_TRANSFER", u)
             PROVE  \E c \in TickEvents(d, ms).events : IsEventOf(c, "DATA_TRANSFER", u)
  BY DEF KeepsTransfer, HasTransfer
<1> DEFINE c == Age(e, ms)
<1>1. e \in Event BY DEF DeviceState
<1>2. c \in TickEvents(d, ms).events BY DEF TickEvents, DeviceState
<1>3. c.type = e.type /\ c.sid = e.sid BY <1>1 DEF Event, Age
<1> QED BY <1>2, <1>3 DEF IsEventOf

-----------------------------------------------------------------------------
(* The law of the handlers.                                                *)

(* Nothing of the transfer changes.                                        *)
LEMMA HandlesSame ==
  ASSUME NEW d, NEW r, NEW s, KeepsTransfer(d, r, s),
         Sending(r, s) = Sending(d, s), Active(r, s) = Active(d, s),
         r.sessions[s].last_data = d.sessions[s].last_data
  PROVE  Handles(d, r, s)
BY DEF Handles, DrivenAt, KeepsTransfer

LEMMA HandlesNothing ==
  ASSUME NEW d
  PROVE  HandlerLaw(d, d)
BY DEF HandlerLaw, Handles, DrivenAt

(* The law looks at the sessions and the events only.                      *)
LEMMA HandlerTable ==
  ASSUME NEW d, NEW r, NEW r2, HandlerLaw(d, r), SameTable(r, r2)
  PROVE  HandlerLaw(d, r2)
BY DEF HandlerLaw, Handles, DrivenAt, Sending, Active, HasTransfer, SameTable

(* One session changes, and the events of the others are kept.             *)
LEMMA HandlesOne ==
  ASSUME NEW d, d \in DeviceState, NEW r, NEW s \in Sid, NEW w,
         r.sessions = [d.sessions EXCEPT ![s] = w],
         \A u \in Sid \ {s} : KeepsTransfer(d, r, u), Handles(d, r, s)
  PROVE  HandlerLaw(d, r)
<1> SUFFICES ASSUME NEW u \in Sid \ {s} PROVE Handles(d, r, u)
  BY DEF HandlerLaw
<1>1. r.sessions[u] = d.sessions[u] BY DEF DeviceState
<1>2. KeepsTransfer(d, r, u) OBVIOUS
<1> QED BY <1>1, <1>2, HandlesSame DEF Sending, Active

(* The device of a command's result, when nothing is deferred.             *)
LEMMA AnnounceDevice ==
  ASSUME Roomy, NEW d, NEW n
  PROVE  LET res == DeliverNotification(Respond(d, "OK"), n)
         IN  res.dev = d /\ \A r : [res EXCEPT !.dev = r].dev = r
<1>1. DeliverNotification(Respond(d, "OK"), n) =
        [dev |-> d, rsp |-> <<MakeStatusResponse("OK")>>, ntf |-> <<n>>, rc |-> 0]
  BY DEF DeliverNotification, Respond, Result, Roomy
<1> QED BY <1>1

LEMMA RejectHandles ==
  ASSUME NEW d, NEW code
  PROVE  HandlerLaw(d, Reject(d, code).dev) /\ HandlerLaw(d, Respond(d, code).dev)
BY HandlesNothing DEF Reject, Respond, Result

(* CORE_DEVICE_RESET.                                                      *)
LEMMA DeviceResetHandles ==
  ASSUME Roomy, NEW d
  PROVE  HandlerLaw(d, HandleDeviceReset(d).dev)
<1> DEFINE r == [InitDevice EXCEPT !.lost = d.lost]
<1>1. HandleDeviceReset(d).dev = r BY AnnounceDevice DEF HandleDeviceReset
<1>2. \A s \in Sid : r.sessions[s] = FreeSession BY DEF InitDevice
<1>3. FreeSession.state = "NONE" /\ FreeSession.in_progress = FALSE
  BY SessionTypes DEF FreeSession, Session, NewSession
<1> HIDE DEF r
<1> QED BY <1>1, <1>2, <1>3 DEF HandlerLaw, Handles, DrivenAt, Sending, Active

(* SESSION_INIT.                                                           *)
LEMMA SessionInitHandles ==
  ASSUME Roomy, NEW d, Sound(d), NEW s \in Sid
  PROVE  HandlerLaw(d, HandleSessionInit(d, s).dev)
<1> DEFINE r == SetSession(d, s, NewSession)
<1>1. d \in DeviceState BY DEF Sound, DeviceOK
<1>2. HandleSessionInit(d, s).dev = d \/ HandleSessionInit(d, s).dev = r
  BY AnnounceDevice DEF HandleSessionInit, Reject, Result
<1>3. r.sessions = [d.sessions EXCEPT ![s] = NewSession] /\ r.events = d.events
  BY <1>1 DEF SetSession, DeviceState
<1>4. NewSession.state = "INIT" /\ NewSession.in_progress = FALSE BY DEF NewSession
<1> HIDE DEF r
<1>5. Handles(d, r, s)
  BY <1>1, <1>3, <1>4 DEF Handles, DrivenAt, Sending, Active, DeviceState
<1>6. \A u : KeepsTransfer(d, r, u) BY <1>3 DEF KeepsTransfer, HasTransfer
<1>7. HandlerLaw(d, r) BY <1>1, <1>3, <1>5, <1>6, HandlesOne
<1> QED BY <1>2, <1>7, HandlesNothing

(* SESSION_DEINIT.                                                         *)
LEMMA SessionDeinitHandles ==
  ASSUME Roomy, NEW d, Sound(d), NEW s \in Sid
  PROVE  HandlerLaw(d, HandleSessionDeinit(d, s).dev)
<1> DEFINE r == SetSession(d, s, FreeSession)
<1>1. d \in DeviceState BY DEF Sound, DeviceOK
<1>2. HandleSessionDeinit(d, s).dev = d \/ HandleSessionDeinit(d, s).dev = r
  BY AnnounceDevice DEF HandleSessionDeinit, Reject, Result
<1>3. r.sessions = [d.sessions EXCEPT ![s] = FreeSession] /\ r.events = d.events
  BY <1>1 DEF SetSession, DeviceState
<1>4. FreeSession.state = "NONE" /\ FreeSession.in_progress = FALSE
  BY SessionTypes DEF FreeSession, Session, NewSession
<1> HIDE DEF r
<1>5. Handles(d, r, s)
  BY <1>1, <1>3, <1>4 DEF Handles, DrivenAt, Sending, Active, DeviceState
<1>6. \A u : KeepsTransfer(d, r, u) BY <1>3 DEF KeepsTransfer, HasTransfer
<1>7. HandlerLaw(d, r) BY <1>1, <1>3, <1>5, <1>6, HandlesOne
<1> QED BY <1>2, <1>7, HandlesNothing

(* SESSION_START: a session that is not active is not sending.             *)
LEMMA SessionStartHandles ==
  ASSUME Roomy, NEW d, Sound(d), NEW s \in Sid, NEW verdict
  PROVE  HandlerLaw(d, HandleSessionStart(d, s, verdict).dev)
<1> DEFINE v == d.sessions[s]
<1> DEFINE w == [v EXCEPT !.state = "ACTIVE"]
<1> DEFINE z == [w EXCEPT !.stream_remaining = BurstCount]
<1> DEFINE d1 == SetSession(d, s, w)
<1> DEFINE armed == [d1 EXCEPT !.sessions[s].stream_remaining = BurstCount]
<1> DEFINE ms == d1.sessions[s].interval
<1> DEFINE x == ScheduleEvent(armed, "RANGE_DATA", s, ms)
<1> DEFINE st == StartVerdict(v, verdict)
<1> DEFINE r == HandleSessionStart(d, s, verdict).dev
<1>0. d \in DeviceState /\ v \in Session BY DEF Sound, DeviceOK, DeviceState
<1>1. /\ w \in Session /\ z \in Session
      /\ \A y \in {w, z} : /\ y.state = "ACTIVE" /\ y.in_progress = v.in_progress
                           /\ y.last_data = v.last_data
  BY <1>0, SizesAssumption DEF Session, SessionStates
<1>2. d1.sessions = [d.sessions EXCEPT ![s] = w] /\ d1.events = d.events
      /\ d1 \in DeviceState
  BY <1>0, <1>1 DEF SetSession, DeviceState
<1>3. /\ armed.sessions = [d.sessions EXCEPT ![s] = z] /\ armed.events = d.events
      /\ armed \in DeviceState
  <2>1. armed.sessions = [d1.sessions EXCEPT ![s] = z]
    <3>1. d1.sessions[s] = w BY <1>0, <1>2 DEF DeviceState
    <3> HIDE DEF d1, w
    <3> QED BY <1>2, <3>1 DEF DeviceState
  <2>2. armed.sessions = [d.sessions EXCEPT ![s] = z]
    <3> HIDE DEF d1, w, armed, z
    <3> QED BY <1>0, <1>2, <2>1 DEF DeviceState
  <2>3. armed.events = d1.events /\ armed \in DeviceState
    <3> HIDE DEF d1
    <3>1. [d1.sessions EXCEPT ![s] = z] \in [Sid -> Session]
      <4> HIDE DEF z
      <4> QED BY <1>1, <1>2 DEF DeviceState
    <3>2. armed = [d1 EXCEPT !.sessions = [d1.sessions EXCEPT ![s] = z]]
      <4>1. d1.sessions[s] = w BY <1>0, <1>2 DEF DeviceState
      <4> HIDE DEF w
      <4> QED BY <1>2, <4>1 DEF DeviceState
    <3> HIDE DEF z, armed
    <3> QED BY <1>2, <3>1, <3>2 DEF DeviceState
  <2> QED BY <1>2, <2>2, <2>3
<1>4. x.sessions = armed.sessions /\ \A u : KeepsTransfer(armed, x, u)
  <2> HIDE DEF armed, ms
  <2>1. x.sessions = armed.sessions BY <1>3 DEF ScheduleEvent, DeviceState
  <2> QED BY <1>3, <2>1, ScheduleTransfer
<1>5. r = d \/ (v.state \in {"INIT", "IDLE"} /\ r \in {d1, armed, x})
  <2>1. CASE s \notin Allocated(d) \/ v.state \notin {"INIT", "IDLE"}
                                   \/ st \notin {"OK", "SURFACED"}
    BY <2>1 DEF HandleSessionStart, Reject, Result
  <2>2. CASE /\ s \in Allocated(d) /\ v.state \in {"INIT", "IDLE"}
             /\ st = "OK"
    <3>1. r = OnSessionStarted(d1, s)
      <4> HIDE DEF w
      <4> QED BY <2>2, AnnounceDevice DEF HandleSessionStart, w
    <3> HIDE DEF d1, r
    <3> QED BY <2>2, <3>1 DEF OnSessionStarted
  <2>3. CASE s \in Allocated(d) /\ v.state \in {"INIT", "IDLE"} /\ st = "SURFACED"
    BY <2>3, AnnounceDevice DEF HandleSessionStart
  <2> QED BY <2>1, <2>2, <2>3
<1> HIDE DEF r, x, armed, d1, w, z
<1>6. CASE r = d BY <1>6, HandlesNothing DEF r
<1>7. CASE v.state \in {"INIT", "IDLE"} /\ r \in {d1, armed, x}
  <2>1. PICK y \in {w, z} : r.sessions = [d.sessions EXCEPT ![s] = y]
    BY <1>2, <1>3, <1>4, <1>7
  <2>2. \A u : KeepsTransfer(d, r, u)
    BY <1>2, <1>3, <1>4, <1>7 DEF KeepsTransfer, HasTransfer
  <2>3. r.sessions[s] = y BY <1>0, <2>1 DEF DeviceState
  <2>4. Handles(d, r, s)
    BY <1>1, <1>7, <2>3 DEF Handles, DrivenAt, Sending, Active
  <2>5. HandlerLaw(d, r) BY <1>0, <2>1, <2>2, <2>4, HandlesOne
  <2> QED BY <2>5 DEF r
<1> QED BY <1>5, <1>6, <1>7

(* SESSION_STOP ends the transfer and cancels its event.                   *)
LEMMA SessionStopHandles ==
  ASSUME Roomy, NEW d, Sound(d), NEW s \in Sid
  PROVE  HandlerLaw(d, HandleSessionStop(d, s).dev)
<1> DEFINE v == d.sessions[s]
<1> DEFINE w == [v EXCEPT !.state = "IDLE"]
<1> DEFINE d1 == SetSession(d, s, w)
<1> DEFINE z == [d1.sessions[s] EXCEPT !.stream_remaining = 0, !.in_progress = FALSE,
                                       !.reps_remaining = 0, !.tx_count = 0]
<1> DEFINE d2 == SetSession(d1, s, z)
<1> DEFINE x == CancelSessionEvents(d2, s)
<1> DEFINE r == HandleSessionStop(d, s).dev
<1>0. d \in DeviceState /\ v \in Session BY DEF Sound, DeviceOK, DeviceState
<1>1. w \in Session BY <1>0 DEF Session, SessionStates
<1>2. /\ d1.sessions = [d.sessions EXCEPT ![s] = w] /\ d1.events = d.events
      /\ d1 \in DeviceState /\ d1.sessions[s] = w
  <2> HIDE DEF w
  <2> QED BY <1>0, <1>1 DEF SetSession, DeviceState
<1>3. z \in Session /\ z.state = "IDLE" /\ z.in_progress = FALSE
  <2>1. w.state = "IDLE" BY <1>0 DEF Session
  <2> HIDE DEF w, d1
  <2> QED BY <1>1, <1>2, <2>1 DEF Session
<1>4. /\ d2.sessions = [d.sessions EXCEPT ![s] = z] /\ d2.events = d.events
      /\ d2 \in DeviceState
  <2> HIDE DEF w, d1, z
  <2>1. /\ d2.sessions = [d1.sessions EXCEPT ![s] = z] /\ d2.events = d1.events
        /\ d2 \in DeviceState
    BY <1>2, <1>3 DEF SetSession, DeviceState
  <2> HIDE DEF d2
  <2> QED BY <1>0, <1>2, <2>1 DEF DeviceState
<1>5. ASSUME s \in Allocated(d)
      PROVE  x.sessions = d2.sessions /\ \A u \in Sid \ {s} : KeepsTransfer(d2, x, u)
  <2>1. DenseSet(d2.events) BY <1>4 DEF Sound
  <2>2. DeviceOK(d2)
    <3>1. DeviceOK(d1)
      <4> HIDE DEF w
      <4> QED BY <1>1, <1>5, SetSessionType DEF Sound
    <3>2. s \in Allocated(d1)
      <4>1. w.state = "IDLE" BY <1>0 DEF Session
      <4> HIDE DEF w, d1
      <4> QED BY <1>2, <4>1 DEF Allocated
    <3> HIDE DEF d1, z
    <3> QED BY <1>3, <3>1, <3>2, SetSessionType
  <2> HIDE DEF d2
  <2>3. x.sessions = d2.sessions BY <2>1, <2>2, CancelSessionEventsType
  <2> QED BY <2>1, <2>2, <2>3, CancelTransfer
<1>6. r = d \/ (s \in Allocated(d) /\ r = x)
  <2>1. CASE s \notin Allocated(d) \/ ~Active(d, s)
    BY <2>1 DEF HandleSessionStop, Reject, Result
  <2>2. CASE s \in Allocated(d) /\ Active(d, s)
    <3>1. r = OnSessionStopped(d1, s)
      <4> HIDE DEF w
      <4> QED BY <2>2, AnnounceDevice DEF HandleSessionStop, w
    <3> HIDE DEF d1, r
    <3> QED BY <2>2, <3>1 DEF OnSessionStopped
  <2> QED BY <2>1, <2>2
<1> HIDE DEF x, d2, d1, z, w, r
<1>12. CASE r = d BY <1>12, HandlesNothing DEF r
<1>13. CASE s \in Allocated(d) /\ r = x
  <2>0. x.sessions = d2.sessions /\ \A u \in Sid \ {s} : KeepsTransfer(d2, x, u)
    BY <1>5, <1>13
  <2>1. \A u \in Sid \ {s} : KeepsTransfer(d, x, u)
    BY <1>4, <2>0 DEF KeepsTransfer, HasTransfer
  <2>2. x.sessions[s] = z BY <1>0, <1>4, <2>0 DEF DeviceState
  <2>3. Handles(d, x, s) BY <1>3, <2>2 DEF Handles, DrivenAt, Sending, Active
  <2>4. x.sessions = [d.sessions EXCEPT ![s] = z] BY <1>4, <2>0
  <2>5. HandlerLaw(d, x) BY <1>0, <2>1, <2>3, <2>4, HandlesOne
  <2> QED BY <1>13, <2>5 DEF r
<1> QED BY <1>6, <1>12, <1>13

(* SESSION_SET_APP_CONFIG stores no part of a transfer.                    *)
LEMMA StoreConfigTransfer ==
  ASSUME NEW v \in Session, NEW t
  PROVE  LET w == StoreConfig(v, t)
         IN  w.in_progress = v.in_progress /\ w.last_data = v.last_data
<1> DEFINE val == t.val
<1>1. StoreConfig(v, t) \in {[v EXCEPT !.interval = val], [v EXCEPT !.max_meas = val],
                             [v EXCEPT !.ntf_config = val], [v EXCEPT !.repetition = val]}
  BY DEF StoreConfig
<1> HIDE DEF val
<1> QED BY <1>1 DEF Session

LEMMA SetAppConfigHandles ==
  ASSUME NEW d, Sound(d), NEW s \in Sid, NEW t \in Tlvs, NEW bad \in BOOLEAN
  PROVE  HandlerLaw(d, HandleSetAppConfig(d, s, t, bad).dev)
<1> DEFINE v == d.sessions[s]
<1> DEFINE w == StoreConfig(v, t)
<1> DEFINE d1 == SetSession(d, s, w)
<1> DEFINE cut == RemoveEvents(d1, "RANGE_DATA", s)
<1> DEFINE d2 == ScheduleEvent(cut, "RANGE_DATA", s, t.val)
<1> DEFINE first == ApplyTlv(d, s, t)
<1> DEFINE r == HandleSetAppConfig(d, s, t, bad).dev
<1>0. d \in DeviceState /\ v \in Session /\ DeviceOK(d) BY DEF Sound, DeviceOK, DeviceState
<1>1. /\ w \in Session /\ w.state = v.state /\ w.in_progress = v.in_progress
      /\ w.last_data = v.last_data
  BY <1>0, StoreConfigType, StoreConfigTransfer
<1>2. r = d \/ (s \in Allocated(d) /\ r \in {d1, d2})
  <2>1. first.dev \in {d, d1, d2}
    <3> HIDE DEF d1, d2
    <3> QED BY DEF ApplyTlv, Outcome, RescheduleSessionEvent, d1, d2
  <2>2. r = d \/ (s \in Allocated(d) /\ r = first.dev)
    <3> HIDE DEF first
    <3> QED BY DEF HandleSetAppConfig, Reject, Respond, Result, first
  <2> HIDE DEF d1, d2, first, r
  <2> QED BY <2>1, <2>2
<1>3. CASE s \in Allocated(d) /\ r \in {d1, d2}
  <2>1. DeviceOK(d1) /\ d1.sessions = [d.sessions EXCEPT ![s] = w] /\ d1.events = d.events
    <3> HIDE DEF w
    <3> QED BY <1>0, <1>1, <1>3, SetSessionType
  <2>2. DeviceOK(cut) /\ cut.sessions = d1.sessions /\ \A u : KeepsTransfer(d1, cut, u)
    <3>1. DenseSet(d1.events) BY <2>1 DEF Sound
    <3> HIDE DEF d1
    <3> QED BY <2>1, <3>1, RemoveEventsType, RemoveRangeTransfer
  <2>3. d2.sessions = cut.sessions /\ \A u : KeepsTransfer(cut, d2, u)
    <3> HIDE DEF cut
    <3>1. d2.sessions = cut.sessions BY <2>2 DEF ScheduleEvent, DeviceOK, DeviceState
    <3> QED BY <2>2, <3>1, ScheduleTransfer DEF DeviceOK
  <2> HIDE DEF d1, d2, cut, w, r
  <2>4. r.sessions = [d.sessions EXCEPT ![s] = w] /\ \A u : KeepsTransfer(d, r, u)
    BY <1>3, <2>1, <2>2, <2>3 DEF KeepsTransfer, HasTransfer
  <2>5. r.sessions[s] = w BY <1>0, <2>4 DEF DeviceState
  <2>6. Handles(d, r, s) BY <1>1, <2>4, <2>5, HandlesSame DEF Sending, Active
  <2>7. HandlerLaw(d, r) BY <1>0, <2>4, <2>6, HandlesOne
  <2> QED BY <2>7 DEF r
<1>4. CASE r = d BY <1>4, HandlesNothing
<1> HIDE DEF r, d1, d2
<1> QED BY <1>2, <1>3, <1>4

(* A notification touches neither the sessions nor the events.             *)
LEMMA QueueTable ==
  ASSUME NEW d, d \in DeviceState, NEW n \in Packet
  PROVE  /\ QueueNotification(d, n) \in DeviceState
         /\ SameTable(d, QueueNotification(d, n))
<1>1. Append(d.pending, n) \in Seq(Packet) BY DEF DeviceState
<1> QED BY <1>1 DEF QueueNotification, SameTable, DeviceState

LEMMA ReportTable ==
  ASSUME NEW d, d \in DeviceState, NEW s \in Sid, NEW m \in Msg, NEW code \in Codes
  PROVE  SameTable(d, ReportTransfer(d, s, m, code).dev)
<1> DEFINE c == QueueNotification(d, DataCreditNtf(s))
<1> DEFINE r == QueueNotification(c, DataStatusNtf(s, m, code, 1))
<1>1. DataCreditNtf(s) \in Packet /\ DataStatusNtf(s, m, code, 1) \in Packet
  BY PacketTypes
<1>2. c \in DeviceState /\ SameTable(d, c) BY <1>1, QueueTable
<1>3. SameTable(c, r)
  <2> HIDE DEF c
  <2> QED BY <1>1, <1>2, QueueTable
<1>4. ReportTransfer(d, s, m, code).dev \in {c, r} BY DEF ReportTransfer, Result
<1> HIDE DEF c, r
<1> QED BY <1>2, <1>3, <1>4 DEF SameTable

(* DATA_MESSAGE_SND: a transfer starts with its event or not at all.       *)
LEMMA StartTransferHandles ==
  ASSUME NEW d, d \in DeviceState, NEW s \in Sid, Active(d, s), ~Sending(d, s),
         NEW m \in Msg
  PROVE  HandlerLaw(d, StartTransfer(d, s, m).dev)
<1> DEFINE v == d.sessions[s]
<1> DEFINE w == [v EXCEPT !.last_data = m, !.in_progress = TRUE,
                          !.reps_remaining = v.repetition, !.tx_count = 0]
<1> DEFINE y == [v EXCEPT !.last_data = m, !.in_progress = FALSE,
                          !.reps_remaining = 0, !.tx_count = 0]
<1> DEFINE busy == SetSession(d, s, w)
<1> DEFINE undone == SetSession(d, s, y)
<1> DEFINE going == ScheduleEvent(busy, "DATA_TRANSFER", s, v.interval)
<1> DEFINE r == StartTransfer(d, s, m).dev
<1>1. v \in Session BY DEF DeviceState
<1>2. /\ w \in Session /\ w.state = "ACTIVE"
      /\ y \in Session /\ y.in_progress = FALSE
  BY <1>1 DEF Session, Active
<1>3. /\ busy \in DeviceState /\ busy.sessions = [d.sessions EXCEPT ![s] = w]
      /\ busy.events = d.events
      /\ undone.sessions = [d.sessions EXCEPT ![s] = y] /\ undone.events = d.events
  <2> HIDE DEF w, y
  <2> QED BY <1>2 DEF SetSession, DeviceState
<1>4. /\ going.sessions = busy.sessions /\ \A u : KeepsTransfer(busy, going, u)
      /\ CanSchedule(d) => HasTransfer(going, s)
  <2>1. CanSchedule(d) = CanSchedule(busy)
    <3> HIDE DEF busy
    <3> QED BY <1>3 DEF CanSchedule
  <2> HIDE DEF busy
  <2>2. going.sessions = busy.sessions BY <1>3 DEF ScheduleEvent, DeviceState
  <2> QED BY <1>3, <2>1, <2>2, ScheduleTransfer
<1>5. r = IF CanSchedule(d) THEN going ELSE undone BY DEF StartTransfer, Result
<1> HIDE DEF going, busy, undone, w, y, r
<1>6. CASE CanSchedule(d)
  <2>1. /\ r.sessions = [d.sessions EXCEPT ![s] = w] /\ HasTransfer(r, s)
        /\ \A u : KeepsTransfer(d, r, u)
    BY <1>3, <1>4, <1>5, <1>6 DEF KeepsTransfer, HasTransfer
  <2>2. r.sessions[s] = w BY <2>1 DEF DeviceState
  <2>3. Handles(d, r, s) BY <1>2, <2>1, <2>2 DEF Handles, DrivenAt, Active
  <2>4. HandlerLaw(d, r) BY <2>1, <2>3, HandlesOne
  <2> QED BY <2>4 DEF r
<1>7. CASE ~CanSchedule(d)
  <2>1. r.sessions = [d.sessions EXCEPT ![s] = y] /\ r.events = d.events
    BY <1>3, <1>5, <1>7
  <2>2. r.sessions[s] = y BY <2>1 DEF DeviceState
  <2>3. Handles(d, r, s) BY <1>2, <2>2 DEF Handles, DrivenAt, Sending
  <2>4. \A u : KeepsTransfer(d, r, u) BY <2>1 DEF KeepsTransfer, HasTransfer
  <2>5. HandlerLaw(d, r) BY <2>1, <2>3, <2>4, HandlesOne
  <2> QED BY <2>5 DEF r
<1> QED BY <1>6, <1>7

LEMMA DataMessageSendHandles ==
  ASSUME NEW d, Sound(d), NEW s \in Sid, NEW m \in Msg
  PROVE  HandlerLaw(d, HandleDataMessageSend(d, s, m).dev)
<1> DEFINE v == d.sessions[s]
<1> DEFINE w == [v EXCEPT !.last_data = m]
<1> DEFINE d1 == SetSession(d, s, w)
<1> DEFINE r == HandleDataMessageSend(d, s, m).dev
<1>0. d \in DeviceState /\ v \in Session BY DEF Sound, DeviceOK, DeviceState
<1>1. w \in Session /\ w.state = v.state /\ w.in_progress = v.in_progress
  BY <1>0 DEF Session
<1>2. /\ d1 \in DeviceState /\ d1.sessions = [d.sessions EXCEPT ![s] = w]
      /\ d1.events = d.events
  <2> HIDE DEF w
  <2> QED BY <1>0, <1>1 DEF SetSession, DeviceState
<1> HIDE DEF d1, w
<1>3. CASE v.state # "ACTIVE" \/ v.in_progress
  <2>1. r = d BY <1>3 DEF HandleDataMessageSend, RefuseData, Result
  <2> QED BY <2>1, HandlesNothing
<1>4. CASE v.state = "ACTIVE" /\ ~v.in_progress
  <2>1. HandlerLaw(d, ReportTransfer(d, s, m, "REPETITION_OK").dev)
    BY <1>0, ReportTable, HandlerTable, HandlesNothing DEF Codes
  <2>2. HandlerLaw(d, d1)
    <3>1. d1.sessions[s] = w BY <1>0, <1>2 DEF DeviceState
    <3>2. Handles(d, d1, s) BY <1>1, <1>4, <3>1 DEF Handles, DrivenAt, Sending
    <3>3. \A u : KeepsTransfer(d, d1, u) BY <1>2 DEF KeepsTransfer, HasTransfer
    <3> QED BY <1>0, <1>2, <3>2, <3>3, HandlesOne
  <2>3. HandlerLaw(d, ReportTransfer(d1, s, m, "OK").dev)
    <3>1. "OK" \in Codes BY DEF Codes
    <3> QED BY <1>2, <2>2, <3>1, ReportTable, HandlerTable
  <2>4. HandlerLaw(d, StartTransfer(d, s, m).dev)
    BY <1>0, <1>4, StartTransferHandles DEF Sending, Active
  <2>5. HandleDataMessageSend(d, s, m) \in
          {ReportTransfer(d, s, m, "REPETITION_OK"), ReportTransfer(d1, s, m, "OK"),
           StartTransfer(d, s, m)}
    BY <1>4 DEF HandleDataMessageSend, d1, w
  <2> QED BY <2>1, <2>3, <2>4, <2>5
<1> QED BY <1>0, <1>3, <1>4 DEF Session

-----------------------------------------------------------------------------
(* The law of a served event.                                              *)

(* What the client is sent when the transfer of session s ends.            *)
EndOfTransfer(d, r, s) ==
  <<DataCreditNtf(s),
    DataStatusNtf(s, d.sessions[s].last_data, "OK", r.sessions[s].tx_count)>>
Ends(d, r, s) == Sending(d, s) /\ ~Sending(r, s)
SameSending(d, r) == \A s \in Sid : Sending(r, s) = Sending(d, s)

(* No event of the ranging stream touches a transfer.                      *)
LEMMA StopAtBudgetSending ==
  ASSUME NEW d, Sound(d), NEW s \in Allocated(d)
  PROVE  SameSending(d, StopAtBudget(d, s).dev)
<1> DEFINE v == d.sessions[s]
<1> DEFINE w == [v EXCEPT !.state = "IDLE", !.stream_remaining = 0]
<1> DEFINE idle == SetSession(d, s, w)
<1> DEFINE quiet == CancelSessionEvents(idle, s)
<1> DEFINE n == SessionStatusNtf(s, "IDLE_MAX_REACHED")
<1> DEFINE r == QueueNotification(quiet, n)
<1>1. s \in Sid /\ DeviceOK(d) /\ d \in DeviceState /\ v \in Session
  BY SessionOf DEF Allocated, Sound, DeviceOK
<1>2. w \in Session /\ w.in_progress = v.in_progress
  BY <1>1 DEF Session, SessionStates
<1>3. DeviceOK(idle) /\ idle.sessions = [d.sessions EXCEPT ![s] = w]
      /\ DenseSet(idle.events)
  <2> HIDE DEF w
  <2> QED BY <1>1, <1>2, SetSessionType DEF Sound
<1>4. DeviceOK(quiet) /\ quiet.sessions = idle.sessions
  <2> HIDE DEF idle
  <2> QED BY <1>1, <1>3, CancelSessionEventsType
<1>5. r.sessions = quiet.sessions
  <2>1. n \in Packet BY <1>1, PacketTypes DEF Codes
  <2> HIDE DEF quiet, n
  <2> QED BY <1>4, <2>1, QueueNotificationType
<1>6. StopAtBudget(d, s).dev = r BY DEF StopAtBudget, Outcome
<1> HIDE DEF r, quiet, idle, w
<1> QED BY <1>1, <1>2, <1>3, <1>4, <1>5, <1>6 DEF SameSending, Sending, DeviceState

LEMMA EmitRangingStreamSending ==
  ASSUME NEW d, Sound(d), NEW s \in Allocated(d), NEW hit \in BOOLEAN
  PROVE  LET r == EmitRangingStream(d, s, hit).dev
         IN  SameSending(d, r) /\ (Scenario # "ranging_stream" => r = d)
<1> DEFINE v == d.sessions[s]
<1> DEFINE numbered == [d EXCEPT !.next_seq = @ + 1]
<1> DEFINE n == RangeDataNtf(s, d.next_seq)
<1> DEFINE sent == IF ShouldEmit(v, hit) THEN QueueNotification(numbered, n) ELSE d
<1> DEFINE count == v.ranging_count + 1
<1> DEFINE left == v.stream_remaining - 1
<1> DEFINE w == [v EXCEPT !.ranging_count = count, !.stream_remaining = left]
<1> DEFINE counted == SetSession(sent, s, w)
<1>0. s \in Sid /\ DeviceOK(d) /\ v \in Session /\ d \in DeviceState
  BY SessionOf DEF Allocated, Sound, DeviceOK
<1>1. CASE Scenario # "ranging_stream" \/ v.stream_remaining = 0 \/ v.state # "ACTIVE"
  BY <1>1 DEF EmitRangingStream, Outcome, SameSending
<1>2. CASE ~(Scenario # "ranging_stream" \/ v.stream_remaining = 0 \/ v.state # "ACTIVE")
  <2>1. count \in Nat /\ left \in Nat BY <1>0, <1>2 DEF Session
  <2>2. Sound(numbered) /\ numbered.sessions = d.sessions /\ d.next_seq \in Nat
    BY DEF Sound, DeviceOK, DeviceState, QuietWhenIdle, Allocated
  <2>3. /\ Sound(QueueNotification(numbered, n))
        /\ QueueNotification(numbered, n).sessions = d.sessions
    <3>1. n \in Packet BY <1>0, <2>2, PacketTypes DEF Codes
    <3> HIDE DEF numbered, n
    <3> QED BY <2>2, <3>1, QueueNotificationSound, QueueNotificationType DEF Sound
  <2>4. Sound(sent) /\ sent.sessions = d.sessions BY <2>3
  <2>5. /\ w \in Session /\ w.state = "ACTIVE" /\ w.in_progress = v.in_progress
    <3> HIDE DEF count, left
    <3> QED BY <1>0, <1>2, <2>1 DEF Session
  <2>6. s \in Allocated(sent)
    <3> HIDE DEF sent
    <3> QED BY <1>0, <2>4 DEF Allocated
  <2>7. Sound(counted) /\ counted.sessions = [d.sessions EXCEPT ![s] = w]
    <3> HIDE DEF sent, w
    <3> QED BY <1>0, <2>4, <2>5, <2>6, SetSessionSound, SetSessionType DEF Sound
  <2>8. s \in Allocated(counted) /\ SameSending(d, counted) /\ SameSending(d, sent)
    <3> HIDE DEF counted, w, sent
    <3> QED BY <1>0, <2>4, <2>5, <2>7 DEF Allocated, SameSending, Sending, DeviceState
  <2>9. EmitRangingStream(d, s, hit).dev \in
          {sent, counted, StopAtBudget(d, s).dev, StopAtBudget(counted, s).dev}
    <3>1. CountMeasurement(sent, s) = counted
      <4> HIDE DEF sent
      <4> QED BY <2>4 DEF CountMeasurement
    <3>2. sent = IF ShouldEmit(v, hit)
                 THEN QueueNotification(IF ShouldEmit(v, hit) THEN numbered ELSE d, n)
                 ELSE d
      OBVIOUS
    <3> HIDE DEF sent, counted
    <3> QED BY <1>2, <3>1, <3>2 DEF EmitRangingStream, Outcome
  <2> HIDE DEF sent, counted
  <2>10. SameSending(d, StopAtBudget(d, s).dev) BY StopAtBudgetSending
  <2>11. SameSending(d, StopAtBudget(counted, s).dev)
    <3>1. SameSending(counted, StopAtBudget(counted, s).dev)
      BY <2>7, <2>8, StopAtBudgetSending
    <3> QED BY <2>8, <3>1 DEF SameSending
  <2> QED BY <1>2, <2>8, <2>9, <2>10, <2>11
<1> QED BY <1>1, <1>2

(* One transmission: another will follow, or the transfer ends and the     *)
(* client is told.                                                         *)
LEMMA ProgressDataTransferEnds ==
  ASSUME Roomy, NEW d, Sound(d), Settled(d), NEW s \in Sid, Active(d, s), Sending(d, s)
  PROVE  LET r == ProgressDataTransfer(d, s).dev
         IN  /\ Sending(r, s) \/ (~Sending(r, s) /\ r.pending = EndOfTransfer(d, r, s))
             /\ \A u \in Sid \ {s} : r.sessions[u] = d.sessions[u]
             /\ r.events = d.events
<1> DEFINE v == d.sessions[s]
<1> DEFINE tx == (v.tx_count + 1) % TxModulus
<1> DEFINE left == v.reps_remaining - 1
<1> DEFINE a == [v EXCEPT !.tx_count = tx, !.reps_remaining = left]
<1> DEFINE f == [v EXCEPT !.tx_count = tx, !.in_progress = FALSE]
<1> DEFINE again == SetSession(d, s, a)
<1> DEFINE final == SetSession(d, s, f)
<1> DEFINE status(code) == DataStatusNtf(s, v.last_data, code, tx)
<1> DEFINE credit == DataCreditNtf(s)
<1> DEFINE credited == QueueNotification(final, credit)
<1> DEFINE ended == QueueNotification(credited, status("OK"))
<1> DEFINE repeated == QueueNotification(again, status("REPETITION_OK"))
<1> DEFINE r == ProgressDataTransfer(d, s).dev
<1>1. DeviceOK(d) /\ v \in Session /\ v.state = "ACTIVE" /\ s \in Allocated(d)
      /\ d.sessions \in [Sid -> Session] /\ d \in DeviceState
  BY SessionOf DEF Sound, Active, Allocated, DeviceOK, DeviceState
<1>2. tx \in Nat BY <1>1, SizesAssumption DEF Session
<1>3. status("OK") \in Packet /\ status("REPETITION_OK") \in Packet /\ credit \in Packet
  <2>1. v.last_data \in Msg \cup {NoMsg} BY <1>1 DEF Session
  <2> HIDE DEF v, tx
  <2> QED BY <1>2, <2>1, PacketTypes DEF Codes
<1>4. f \in Session /\ f.state = v.state /\ f.in_progress = FALSE /\ f.tx_count = tx
  <2> HIDE DEF tx
  <2> QED BY <1>1, <1>2 DEF Session
<1>5. v.reps_remaining > 0 => a \in Session /\ a.state = v.state /\ a.in_progress = TRUE
  <2>1. v.reps_remaining > 0 => left \in Nat BY <1>1 DEF Session
  <2>2. v.in_progress = TRUE BY <1>1 DEF Sending, Session
  <2> HIDE DEF tx, left, v
  <2> QED BY <1>1, <1>2, <2>1, <2>2 DEF Session
<1>6. /\ DeviceOK(final) /\ final.sessions = [d.sessions EXCEPT ![s] = f]
      /\ final.events = d.events /\ final.pending = << >>
  <2>1. SameQueue(d, final) BY <1>1, SameQueues
  <2> HIDE DEF f
  <2> QED BY <1>1, <1>4, <2>1, SetSessionType DEF SameQueue, Settled
<1>7. v.reps_remaining > 0 =>
        /\ DeviceOK(again) /\ again.sessions = [d.sessions EXCEPT ![s] = a]
        /\ again.events = d.events /\ again.pending = << >>
  <2>1. SameQueue(d, again) BY <1>1, SameQueues
  <2> HIDE DEF a
  <2> QED BY <1>1, <1>5, <2>1, SetSessionType DEF SameQueue, Settled
<1>8. Len(<< >>) = 0 /\ \A p \in Packet : Append(<< >>, p) = <<p>> /\ Len(<<p>>) = 1
  OBVIOUS
<1>9. v.reps_remaining > 0 =>
        repeated.sessions = again.sessions /\ repeated.events = again.events
  <2> HIDE DEF again, status, v
  <2> QED BY <1>3, <1>7, QueueNotificationType
<1>10. /\ CanQueue(final) /\ credited.pending = <<credit>> /\ DeviceOK(credited)
       /\ credited.sessions = final.sessions /\ credited.events = final.events
  <2> HIDE DEF final, credit
  <2>1. Len(final.pending) <= 1 BY <1>6, <1>8
  <2>2. Append(final.pending, credit) = <<credit>> BY <1>3, <1>6, <1>8
  <2> QED BY <1>3, <1>6, <2>1, <2>2, QueueOne, QueueNotificationType
<1>11. /\ ended.pending = Append(<<credit>>, status("OK"))
       /\ ended.sessions = credited.sessions /\ ended.events = credited.events
  <2> HIDE DEF credited, status, credit
  <2>1. Len(credited.pending) <= 1 BY <1>3, <1>8, <1>10
  <2>2. ended.sessions = credited.sessions /\ ended.events = credited.events
    BY <1>3, <1>10, QueueNotificationType
  <2>3. ended.pending = Append(credited.pending, status("OK"))
    BY <1>10, <2>1, QueueOne
  <2> HIDE DEF ended
  <2> QED BY <1>10, <2>2, <2>3
<1>12. r = IF v.reps_remaining > 0 THEN repeated
           ELSE IF ~CanQueue(final) THEN credited ELSE ended
  BY DEF ProgressDataTransfer, Outcome
<1>13. CASE v.reps_remaining > 0
  <2> HIDE DEF v, again, a, repeated, r
  <2>1. r.sessions = [d.sessions EXCEPT ![s] = a] /\ r.events = d.events
    BY <1>7, <1>9, <1>12, <1>13
  <2>2. Sending(r, s) BY <1>1, <1>5, <1>13, <2>1 DEF Sending
  <2> QED BY <1>1, <2>1, <2>2 DEF r
<1>14. CASE ~(v.reps_remaining > 0)
  <2> HIDE DEF ended, credited, final, f, r, credit
  <2>1. r.sessions = [d.sessions EXCEPT ![s] = f] /\ r.events = d.events
    BY <1>6, <1>10, <1>11, <1>12, <1>14
  <2>2. r.sessions[s] = f BY <1>1, <2>1
  <2>3. ~Sending(r, s) BY <1>4, <2>2 DEF Sending
  <2>4. r.pending = Append(<<credit>>, status("OK")) BY <1>10, <1>11, <1>12, <1>14
  <2>5. EndOfTransfer(d, r, s) = <<credit, status("OK")>>
    BY <1>4, <2>2 DEF EndOfTransfer, credit
  <2>6. ASSUME NEW p \in Packet, NEW q \in Packet PROVE Append(<<p>>, q) = <<p, q>>
    <3> DEFINE x == Append(<<p>>, q)
    <3> DEFINE y == <<p, q>>
    <3>1. <<p>> \in Seq(Packet) /\ Len(<<p>>) = 1 /\ <<p>>[1] = p OBVIOUS
    <3>2. x \in Seq(Packet) /\ Len(x) = 2 /\ x[1] = p /\ x[2] = q
      BY <3>1, AppendProperties
    <3>3. y \in Seq(Packet) /\ Len(y) = 2 /\ y[1] = p /\ y[2] = q OBVIOUS
    <3> HIDE DEF x, y
    <3>4. \A i \in 1 .. 2 : x[i] = y[i] BY <3>2, <3>3
    <3>5. x = y BY <3>2, <3>3, <3>4, SeqEqual
    <3> QED BY <3>5 DEF x, y
  <2>7. r.pending = EndOfTransfer(d, r, s)
    <3> HIDE DEF status
    <3> QED BY <1>3, <2>4, <2>5, <2>6
  <2> QED BY <1>1, <2>1, <2>3, <2>7 DEF r
<1> QED BY <1>13, <1>14

(* What serving an event does to the transfers: the client is told when    *)
(* one ends, and one that goes on has its next event.  Only the end of the *)
(* budget of a ranging stream can leave one without.                       *)
ServeTransfers(d, out, g) ==
  /\ \A s \in Sid : Ends(d, g.dev, s) => g.out = out \o EndOfTransfer(d, g.dev, s)
  /\ Scenario # "ranging_stream" /\ Driven(d) => Driven(g.dev)

(* The transfers look at the sessions and the events only.                 *)
LEMMA ServeKept ==
  ASSUME NEW d, NEW r, NEW out, NEW rc, r.sessions = d.sessions,
         \A s \in Sid : KeepsTransfer(d, r, s)
  PROVE  ServeTransfers(d, out, Engine(r, out, rc))
BY DEF ServeTransfers, Engine, Ends, Sending, Driven, DrivenAt, Active, KeepsTransfer

(* Flushing and scheduling: nothing of the transfers changes but a new     *)
(* event.                                                                  *)
LEMMA ContinueTransfers ==
  ASSUME Roomy, NEW d, Sound(d), NEW out, QueueOK(out), Len(d.pending) <= 2,
         Len(out) + 2 <= MAX_OUTBOUND_PACKETS,
         NEW type \in EventTypes, NEW s \in Sid, NEW goesOn \in BOOLEAN
  PROVE  LET g == Continue(d, out, type, s, goesOn)
         IN  /\ g.out = out \o d.pending /\ g.dev.sessions = d.sessions
             /\ \A u : KeepsTransfer(d, g.dev, u)
             /\ goesOn /\ CanSchedule(d) /\ type = "DATA_TRANSFER" => HasTransfer(g.dev, s)
<1> DEFINE f == FlushDeviceNotifications(d, out)
<1> DEFINE ms == d.sessions[s].interval
<1> DEFINE g == Continue(d, out, type, s, goesOn)
<1> DEFINE r == ScheduleEvent(f.dev, type, s, ms)
<1>1. /\ f.out = out \o d.pending /\ f.dev.sessions = d.sessions
      /\ f.dev.events = d.events /\ f.dev \in DeviceState
  BY FlushAll, FlushOK DEF EngineOK, Sound, DeviceOK
<1>2. /\ r.sessions = d.sessions /\ \A u : KeepsTransfer(f.dev, r, u)
      /\ CanSchedule(f.dev) /\ type = "DATA_TRANSFER" => HasTransfer(r, s)
  <2> HIDE DEF f, ms
  <2>1. r.sessions = f.dev.sessions BY <1>1 DEF ScheduleEvent, DeviceState
  <2> QED BY <1>1, <2>1, ScheduleTransfer
<1>3. g.out = f.out /\ g.dev = IF goesOn THEN r ELSE f.dev
  <2> HIDE DEF f
  <2> QED BY DEF Continue, Engine, f
<1> HIDE DEF f, r, g
<1>4. CanSchedule(f.dev) = CanSchedule(d) BY <1>1 DEF CanSchedule
<1>5. /\ g.out = out \o d.pending /\ g.dev.sessions = d.sessions
      /\ \A u : KeepsTransfer(d, g.dev, u)
      /\ goesOn /\ CanSchedule(d) /\ type = "DATA_TRANSFER" => HasTransfer(g.dev, s)
  BY <1>1, <1>2, <1>3, <1>4 DEF KeepsTransfer, HasTransfer
<1> QED BY <1>5 DEF g

(* A ready event of the ranging stream.                                    *)
LEMMA ProcessRangeDataTransfers ==
  ASSUME Roomy, NEW d, Sound(d), Settled(d), NEW out, QueueOK(out),
         Len(out) + 2 <= MAX_OUTBOUND_PACKETS, NEW s \in Sid, NEW hit \in BOOLEAN
  PROVE  ServeTransfers(d, out, ProcessRangeData(d, out, s, hit))
<1> DEFINE o == EmitRangingStream(d, s, hit)
<1> DEFINE v == o.dev.sessions[s]
<1> DEFINE goesOn == v.stream_remaining > 0 /\ v.state = "ACTIVE"
<1> DEFINE g == Continue(o.dev, out, "RANGE_DATA", s, goesOn)
<1>1. CASE s \notin Allocated(d)
  <2>1. ProcessRangeData(d, out, s, hit) = Engine(d, out, 0)
    BY <1>1 DEF ProcessRangeData
  <2> QED BY <2>1, ServeKept DEF KeepsTransfer
<1>2. CASE s \in Allocated(d)
  <2>1. /\ Sound(o.dev) /\ o.ok /\ Len(o.dev.pending) <= 2
        /\ SameSending(d, o.dev) /\ (Scenario # "ranging_stream" => o.dev = d)
    BY <1>2, EmitRangingStreamSound, EmitRangingStreamWire, EmitRangingStreamSending
       DEF Burst
  <2>2. goesOn \in BOOLEAN /\ "RANGE_DATA" \in EventTypes BY DEF EventTypes
  <2>3. g.dev.sessions = o.dev.sessions /\ \A u : KeepsTransfer(o.dev, g.dev, u)
    <3> DEFINE x == o.dev
    <3>1. Sound(x) /\ Len(x.pending) <= 2 BY <2>1
    <3> HIDE DEF x, goesOn
    <3>2. LET c == Continue(x, out, "RANGE_DATA", s, goesOn)
          IN  c.dev.sessions = x.sessions /\ \A u : KeepsTransfer(x, c.dev, u)
      BY <2>2, <3>1, ContinueTransfers
    <3> QED BY <3>2 DEF x
  <2>4. ProcessRangeData(d, out, s, hit) = g
    BY <1>2, <2>1 DEF ProcessRangeData
  <2> HIDE DEF g, o, goesOn
  <2>5. \A u \in Sid : ~Ends(d, g.dev, u)
    BY <2>1, <2>3 DEF Ends, SameSending, Sending
  <2>6. Scenario # "ranging_stream" /\ Driven(d) => Driven(g.dev)
    BY <2>1, <2>3 DEF Driven, DrivenAt, Sending, Active, KeepsTransfer
  <2> QED BY <2>4, <2>5, <2>6 DEF ServeTransfers
<1> QED BY <1>1, <1>2

(* A ready event of a transfer, taken from a device d0 whose array had it. *)
LEMMA ProcessDataTransferTransfers ==
  ASSUME Roomy, NEW d0, NEW d, Sound(d), Settled(d), NEW out, QueueOK(out),
         Len(out) + 2 <= MAX_OUTBOUND_PACKETS, NEW s \in Sid, CanSchedule(d),
         d.sessions = d0.sessions, \A u \in Sid \ {s} : KeepsTransfer(d0, d, u)
  PROVE  ServeTransfers(d0, out, ProcessDataTransfer(d, out, s))
<1> DEFINE o == ProgressDataTransfer(d, s)
<1> DEFINE goesOn == o.dev.sessions[s].in_progress
<1> DEFINE g == Continue(o.dev, out, "DATA_TRANSFER", s, goesOn)
<1>1. CASE ~Active(d, s) \/ ~d.sessions[s].in_progress
  <2>1. ProcessDataTransfer(d, out, s) = Engine(d, out, 0)
    BY <1>1 DEF ProcessDataTransfer
  <2>2. Driven(d0) => Driven(d)
    BY <1>1 DEF Driven, DrivenAt, Sending, Active, KeepsTransfer
  <2>3. \A u \in Sid : ~Ends(d0, d, u) BY DEF Ends, Sending
  <2> QED BY <2>1, <2>2, <2>3 DEF ServeTransfers, Engine
<1>2. CASE Active(d, s) /\ d.sessions[s].in_progress
  <2>1. /\ Sound(o.dev) /\ o.ok /\ Len(o.dev.pending) <= 2 /\ Active(o.dev, s)
    BY <1>2, ProgressDataTransferSound, ProgressDataTransferWire DEF Burst
  <2>2. /\ Sending(o.dev, s) \/ (~Sending(o.dev, s) /\ o.dev.pending = EndOfTransfer(d, o.dev, s))
        /\ \A u \in Sid \ {s} : o.dev.sessions[u] = d.sessions[u]
        /\ o.dev.events = d.events
    BY <1>2, ProgressDataTransferEnds DEF Sending
  <2>3. goesOn \in BOOLEAN /\ "DATA_TRANSFER" \in EventTypes
    <3>1. o.dev.sessions[s] \in Session
      <4> HIDE DEF o
      <4> QED BY <2>1, SessionOf DEF Sound
    <3> QED BY <3>1 DEF Session, EventTypes
  <2>4. CanSchedule(o.dev)
    <3> HIDE DEF o
    <3> QED BY <2>2 DEF CanSchedule
  <2>5. /\ g.out = out \o o.dev.pending /\ g.dev.sessions = o.dev.sessions
        /\ \A u : KeepsTransfer(o.dev, g.dev, u)
        /\ goesOn => HasTransfer(g.dev, s)
    <3> DEFINE x == o.dev
    <3>1. Sound(x) /\ Len(x.pending) <= 2 /\ CanSchedule(x) BY <2>1, <2>4
    <3> HIDE DEF x, goesOn
    <3>2. LET c == Continue(x, out, "DATA_TRANSFER", s, goesOn)
          IN  /\ c.out = out \o x.pending /\ c.dev.sessions = x.sessions
              /\ \A u : KeepsTransfer(x, c.dev, u)
              /\ goesOn => HasTransfer(c.dev, s)
      BY <2>3, <3>1, ContinueTransfers
    <3> QED BY <3>2 DEF x
  <2>6. ProcessDataTransfer(d, out, s) = g BY <1>2, <2>1 DEF ProcessDataTransfer
  <2>7. goesOn = Sending(o.dev, s) BY DEF Sending
  <2> HIDE DEF g, o, goesOn
  <2>8. \A u \in Sid \ {s} : ~Ends(d0, g.dev, u)
    BY <2>2, <2>5 DEF Ends, Sending
  <2>9. Ends(d0, g.dev, s) => g.out = out \o EndOfTransfer(d0, g.dev, s)
    BY <2>2, <2>5 DEF Ends, Sending, EndOfTransfer
  <2>10. Driven(d0) => Driven(g.dev)
    <3> SUFFICES ASSUME Driven(d0), NEW u \in Sid PROVE DrivenAt(g.dev, u) BY DEF Driven
    <3>1. CASE u = s
      BY <2>1, <2>5, <2>7, <3>1 DEF DrivenAt, Sending, Active
    <3>2. CASE u # s
      <4>1. DrivenAt(d0, u) /\ KeepsTransfer(d0, d, u) BY <3>2 DEF Driven
      <4>2. g.dev.sessions[u] = d0.sessions[u] BY <2>2, <2>5, <3>2
      <4>3. KeepsTransfer(d, g.dev, u) BY <2>2, <2>5 DEF KeepsTransfer, HasTransfer
      <4> QED BY <4>1, <4>2, <4>3 DEF DrivenAt, Sending, Active, KeepsTransfer
    <3> QED BY <3>1, <3>2
  <2>11. \A u \in Sid : Ends(d0, g.dev, u) => g.out = out \o EndOfTransfer(d0, g.dev, u)
    BY <2>8, <2>9
  <2> QED BY <2>6, <2>10, <2>11 DEF ServeTransfers
<1>3. d.sessions[s].in_progress \in BOOLEAN
  <2>1. d.sessions[s] \in Session BY SessionOf DEF Sound
  <2> QED BY <2>1 DEF Session
<1> QED BY <1>1, <1>2, <1>3

(* uci_sim_engine_tick.                                                    *)
LEMMA EngineTickTransfers ==
  ASSUME Roomy, NEW d, Sound(d), Settled(d), NEW out, QueueOK(out),
         Len(out) + 2 <= MAX_OUTBOUND_PACKETS, NEW ms \in Nat, NEW hit \in BOOLEAN
  PROVE  ServeTransfers(d, out, EngineTick(d, out, ms, hit))
<1> DEFINE t == TickEvents(d, ms)
<1> DEFINE R == ReadyEvents(t)
<1> DEFINE e == FirstReadyEvent(t)
<1>1. /\ DeviceOK(t) /\ t.sessions = d.sessions /\ EventsFrom(t, d)
      /\ DenseSet(t.events) /\ SameQueue(d, t)
      /\ \A u : KeepsTransfer(d, t, u)
  BY TickEventsType, TickTransfer, SameQueues DEF Sound, DeviceOK
<1>2. Sound(t) /\ Settled(t)
  <2> HIDE DEF t
  <2> QED BY <1>1, QuietFrame DEF Sound, Settled, SameQueue
<1> HIDE DEF t
<1>3. CASE R = {}
  <2>1. EngineTick(d, out, ms, hit) = Engine(t, out, 0) BY <1>3, EngineTickIs DEF t
  <2> QED BY <1>1, <2>1, ServeKept
<1>4. CASE R # {}
  <2>2. e \in t.events /\ e \in Event BY <1>4, EngineTickIs DEF t
  <2>8. EngineTick(d, out, ms, hit) = ProcessReadyEvent(RemoveEvent(t, e), out, e, hit)
    BY <1>4, EngineTickIs DEF t
  <2>3. e.sid \in Sid /\ e.type \in EventTypes /\ e \in t.events BY <2>2 DEF Event
  <2> HIDE DEF e, R
  <2> DEFINE m == RemoveEvent(t, e)
  <2>4. /\ DeviceOK(m) /\ m.sessions = t.sessions /\ EventsFrom(m, t)
        /\ DenseSet(m.events) /\ SameQueue(t, m)
    BY <1>1, <2>3, RemoveEventType, SameQueues DEF DeviceOK
  <2>5. Sound(m) /\ Settled(m)
    <3> HIDE DEF m
    <3> QED BY <1>2, <2>4, QuietFrame DEF Sound, Settled, SameQueue
  <2>6. CanSchedule(m)
    <3> DEFINE E == t.events \ {e}
    <3>1. /\ IsFiniteSet(E) /\ Cardinality(E) = Cardinality(t.events) - 1
          /\ Cardinality(t.events) \in Nat /\ Cardinality(t.events) <= MAX_SCENARIO_EVENTS
      BY <1>1, <2>3, FS_RemoveElement, FS_CardinalityType DEF DeviceOK
    <3>2. E \subseteq Event BY <1>1 DEF DeviceOK, DeviceState
    <3>3. m.events = InOrder(E) BY <1>1, <2>3, LoopsAre DEF DeviceOK, DeviceState
    <3> HIDE DEF E, m
    <3>4. IsFiniteSet(InOrder(E)) /\ Cardinality(InOrder(E)) <= Cardinality(E)
      BY <3>1, <3>2, InOrderType
    <3>5. Cardinality(InOrder(E)) \in Nat BY <3>4, FS_CardinalityType
    <3> QED BY <3>1, <3>3, <3>4, <3>5, SizesAssumption DEF CanSchedule
  <2>7. \A u : ~IsEventOf(e, "DATA_TRANSFER", u) => KeepsTransfer(d, m, u)
    <3>1. \A u : ~IsEventOf(e, "DATA_TRANSFER", u) => KeepsTransfer(t, m, u)
      BY <1>1, <2>3, DequeueTransfer
    <3> HIDE DEF m
    <3> QED BY <1>1, <3>1 DEF KeepsTransfer
  <2> HIDE DEF m
  <2>9. CASE e.type = "RANGE_DATA"
    <3> DEFINE g == ProcessRangeData(m, out, e.sid, hit)
    <3>1. ServeTransfers(m, out, g) BY <2>3, <2>5, ProcessRangeDataTransfers
    <3>2. \A u : KeepsTransfer(d, m, u) BY <2>7, <2>9 DEF IsEventOf
    <3>3. m.sessions = d.sessions BY <1>1, <2>4
    <3> HIDE DEF g
    <3>4. Driven(d) => Driven(m)
      BY <3>2, <3>3 DEF Driven, DrivenAt, Sending, Active, KeepsTransfer
    <3>5. \A u \in Sid : Ends(d, g.dev, u) => g.out = out \o EndOfTransfer(d, g.dev, u)
      BY <3>1, <3>3 DEF ServeTransfers, Ends, Sending, EndOfTransfer
    <3>6. ServeTransfers(d, out, g) BY <3>1, <3>4, <3>5 DEF ServeTransfers
    <3> QED BY <2>8, <2>9, <3>6 DEF ProcessReadyEvent, g, m
  <2>10. CASE e.type # "RANGE_DATA"
    <3>1. \A u \in Sid \ {e.sid} : KeepsTransfer(d, m, u) BY <2>7 DEF IsEventOf
    <3>2. m.sessions = d.sessions BY <1>1, <2>4
    <3>3. ServeTransfers(d, out, ProcessDataTransfer(m, out, e.sid))
      BY <2>3, <2>5, <2>6, <3>1, <3>2, ProcessDataTransferTransfers
    <3> QED BY <2>8, <2>10, <3>3 DEF ProcessReadyEvent, m
  <2> QED BY <2>9, <2>10
<1> QED BY <1>3, <1>4

-----------------------------------------------------------------------------
(* One iteration of the loop: a handler, then at most two served events.   *)

(* The law of a step: the client is told when a transfer ends in a session *)
(* that stays active, after whatever else the step sends.                  *)
TransferLaw(d, out, r, out2) ==
  /\ \A s \in Sid : Ends(d, r, s) /\ Active(r, s) =>
       \E S \in Seq(Packet) : out2 = (out \o S) \o EndOfTransfer(d, r, s)
  /\ Scenario # "ranging_stream" /\ Driven(d) => Driven(r)

(* A served event never makes a session active.                            *)
LEMMA TickActivatesNone ==
  ASSUME NEW d, NEW r, NEW ms, TickLaw(d, r, ms), NEW s \in Sid, Active(r, s)
  PROVE  Active(d, s)
<1>1. View(r)[s] = "ACTIVE" BY DEF View, Active
<1>2. CASE View(r) = View(d) BY <1>1, <1>2 DEF View, Active
<1>3. CASE Lifecycle!Stop(View(d), View(r))
  <2>1. PICK t \in Sid : View(r) = [View(d) EXCEPT ![t] = "IDLE"]
    BY <1>3 DEF Lifecycle!Stop, Lifecycle!Moves
  <2>2. View(d)[s] = "ACTIVE" BY <1>1, <2>1 DEF View
  <2> QED BY <2>2 DEF View, Active
<1> QED BY <1>2, <1>3 DEF TickLaw, Lifecycle!BudgetEnd

(* uci_sim_engine_submit_packet.                                           *)
LEMMA EngineSubmitTransfers ==
  ASSUME Roomy, NEW d, NEW res, ResultOK(res), Delivers(d, res), HandlerLaw(d, res.dev),
         NEW out, QueueOK(out), Len(out) + 4 <= MAX_OUTBOUND_PACKETS, NEW hit \in BOOLEAN
  PROVE  LET g == EngineSubmit(res, out, hit) IN TransferLaw(d, out, g.dev, g.out)
<1> DEFINE g == EngineSubmit(res, out, hit)
<1>1. CASE res.rc # 0 /\ res.rsp = << >> /\ res.ntf = << >>
  <2>1. g.dev = res.dev BY <1>1 DEF EngineSubmit, Engine
  <2> HIDE DEF g
  <2>2. TransferLaw(d, out, g.dev, g.out)
    BY <2>1 DEF TransferLaw, HandlerLaw, Handles, Ends, Driven
  <2> QED BY <2>2 DEF g
<1>2. CASE ~(res.rc # 0 /\ res.rsp = << >> /\ res.ntf = << >>)
  <2>1. PICK f : /\ g = EngineTick(f.dev, f.out, 0, hit)
                 /\ f.out = out \o Sent(res) /\ QueueOK(f.out)
                 /\ Sound(f.dev) /\ Settled(f.dev)
                 /\ f.dev.sessions = res.dev.sessions /\ f.dev.events = res.dev.events
    BY <1>2, SubmitFlushes
  <2> DEFINE S == Sent(res)
  <2>2. S \in Seq(Packet) /\ Len(S) <= 2 BY DEF Delivers
  <2> HIDE DEF S, g
  <2>3. f.out = out \o S BY <2>1 DEF S
  <2>4. Len(f.out) + 2 <= MAX_OUTBOUND_PACKETS
    <3> DEFINE i == Len(out)
    <3> DEFINE j == Len(S)
    <3>1. i \in Nat /\ j \in Nat /\ Len(f.out) = i + j /\ j <= 2
      BY <2>2, <2>3, ConcatProperties, LenProperties DEF QueueOK
    <3> HIDE DEF i, j
    <3>2. i + 4 <= MAX_OUTBOUND_PACKETS BY DEF i
    <3> QED BY <3>1, <3>2, OutboundAssumption
  <2>5. ServeTransfers(f.dev, f.out, g) /\ TickLaw(f.dev, g.dev, 0)
    <3>1. 0 \in Nat OBVIOUS
    <3> QED BY <2>1, <2>4, <3>1, EngineTickTransfers, EngineTickLaw
  <2>6. SameTable(res.dev, f.dev) BY <2>1 DEF SameTable
  <2>7. HandlerLaw(d, f.dev) BY <2>6, HandlerTable
  <2>8. ASSUME NEW s \in Sid, Ends(d, g.dev, s), Active(g.dev, s)
        PROVE  g.out = (out \o S) \o EndOfTransfer(d, g.dev, s)
    <3>1. Active(f.dev, s) BY <2>5, <2>8, TickActivatesNone
    <3>2. Sending(f.dev, s) /\ f.dev.sessions[s].last_data = d.sessions[s].last_data
      BY <2>7, <2>8, <3>1 DEF HandlerLaw, Handles, Ends
    <3>3. EndOfTransfer(f.dev, g.dev, s) = EndOfTransfer(d, g.dev, s)
      BY <3>2 DEF EndOfTransfer
    <3>4. Ends(f.dev, g.dev, s) BY <2>8, <3>2 DEF Ends
    <3> QED BY <2>3, <2>5, <3>3, <3>4 DEF ServeTransfers
  <2>9. Scenario # "ranging_stream" /\ Driven(d) => Driven(g.dev)
    BY <2>5, <2>7 DEF ServeTransfers, HandlerLaw, Handles, Driven
  <2>10. TransferLaw(d, out, g.dev, g.out) BY <2>2, <2>8, <2>9 DEF TransferLaw
  <2> QED BY <2>10 DEF g
<1> QED BY <1>1, <1>2

TransferStep == TransferLaw(dev, outbound, dev', outbound')

(* Submitting a command.                                                   *)
LEMMA SubmitCommandTransfers ==
  ASSUME Roomy, Ready, NEW res, CommandOK(res), Answers(dev, res) \/ Announces(dev, res),
         HandlerLaw(dev, res.dev), SubmitCommand(res)
  PROVE  TransferStep
<1>1. PICK hit \in BOOLEAN :
        Apply(EngineSubmit(CommandResult(dev, res), outbound, hit))
  BY DEF SubmitCommand
<1> DEFINE r == CommandResult(dev, res)
<1>2. ResultOK(r) BY CommandResultOK DEF CommandOK
<1>3. Delivers(dev, r)
  BY CommandDelivers DEF CommandOK, ResultOK, ResultTyped
<1>4. HandlerLaw(dev, r.dev) BY CommandResultTable, HandlerTable
<1> HIDE DEF r
<1>5. Apply(EngineSubmit(r, outbound, hit)) BY <1>1 DEF r
<1>6. QueueOK(outbound) /\ Len(outbound) + 4 <= MAX_OUTBOUND_PACKETS
  BY DEF Ready, EngineInv
<1> DEFINE g == EngineSubmit(r, outbound, hit)
<1>7. TransferLaw(dev, outbound, g.dev, g.out)
  BY <1>2, <1>3, <1>4, <1>6, EngineSubmitTransfers
<1> HIDE DEF g
<1>8. dev' = g.dev /\ outbound' = g.out BY <1>5 DEF Apply, g
<1> QED BY <1>7, <1>8 DEF TransferStep

(* Submitting a data message.                                              *)
LEMMA SubmitDataTransfers ==
  ASSUME Roomy, Ready, NEW res, ResultOK(res), Delivers(dev, DataResult(dev, res)),
         HandlerLaw(dev, res.dev), SubmitData(res)
  PROVE  TransferStep
<1>1. PICK hit \in BOOLEAN :
        Apply(EngineSubmit(DataResult(dev, res), outbound, hit))
  BY DEF SubmitData
<1> DEFINE r == DataResult(dev, res)
<1>2. ResultOK(r) /\ Delivers(dev, r) BY FinalizeResultOK DEF DataResult
<1>3. HandlerLaw(dev, r.dev) BY FinalizeResultTable, HandlerTable DEF DataResult
<1> HIDE DEF r
<1>4. Apply(EngineSubmit(r, outbound, hit)) BY <1>1 DEF r
<1>5. QueueOK(outbound) /\ Len(outbound) + 4 <= MAX_OUTBOUND_PACKETS
  BY DEF Ready, EngineInv
<1> DEFINE g == EngineSubmit(r, outbound, hit)
<1>6. TransferLaw(dev, outbound, g.dev, g.out)
  BY <1>2, <1>3, <1>5, EngineSubmitTransfers
<1> HIDE DEF g
<1>7. dev' = g.dev /\ outbound' = g.out BY <1>4 DEF Apply, g
<1> QED BY <1>6, <1>7 DEF TransferStep

(* Every packet the host may send.                                         *)
LEMMA HostPacketTransfers ==
  ASSUME Roomy, Ready, HostPacket
  PROVE  TransferStep
<1>1. Sound(dev) /\ Settled(dev) BY DEF Ready, EngineInv
<1>2. CASE DeviceReset
  BY <1>1, <1>2, DeviceResetOK, DeviceResetWire, DeviceResetHandles, SubmitCommandTransfers
     DEF DeviceReset
<1>3. ASSUME NEW s \in Sid, SessionInit(s) PROVE TransferStep
  BY <1>1, <1>3, SessionInitOK, SessionInitWire, SessionInitHandles, SubmitCommandTransfers
     DEF SessionInit
<1>4. ASSUME NEW s \in Sid, SessionDeinit(s) PROVE TransferStep
  BY <1>1, <1>4, SessionDeinitOK, SessionDeinitWire, SessionDeinitHandles,
     SubmitCommandTransfers DEF SessionDeinit
<1>5. ASSUME NEW s \in Sid, SessionStart(s) PROVE TransferStep
  <2>1. PICK verdict \in StartVerdicts : SubmitCommand(HandleSessionStart(dev, s, verdict))
    BY <1>5 DEF SessionStart
  <2>2. verdict \in Verdicts BY InputAssumption
  <2> QED BY <1>1, <2>1, <2>2, SessionStartOK, SessionStartWire, SessionStartHandles,
             SubmitCommandTransfers
<1>6. ASSUME NEW s \in Sid, SessionStop(s) PROVE TransferStep
  BY <1>1, <1>6, SessionStopOK, SessionStopWire, SessionStopHandles,
     SubmitCommandTransfers DEF SessionStop
<1>7. ASSUME NEW s \in Sid, Query(s) PROVE TransferStep
  <2>1. "OK" \in Codes /\ "INVALID_PARAM" \in Codes BY DEF Codes
  <2>2. Answers(dev, HandleQuery(dev, s)) BY <1>1, <2>1, RejectWire DEF HandleQuery
  <2>3. HandlerLaw(dev, HandleQuery(dev, s).dev) BY RejectHandles DEF HandleQuery
  <2> QED BY <1>1, <1>7, <2>2, <2>3, QueryOK, SubmitCommandTransfers DEF Query
<1>8. ASSUME NEW s \in Sid, NEW t \in Tlvs, NEW bad \in BOOLEAN, SetAppConfig(s, t, bad)
      PROVE  TransferStep
  BY <1>1, <1>8, SetAppConfigOK, SetAppConfigWire, SetAppConfigHandles,
     SubmitCommandTransfers DEF SetAppConfig
<1>9. ASSUME NEW code \in RefusalCodes, RefusedCommand(code) PROVE TransferStep
  <2>1. code \in Codes BY InputAssumption
  <2>2. CommandOK(HandleRefused(dev, code)) BY <1>1, <2>1, RefuseOK DEF HandleRefused
  <2>3. Answers(dev, HandleRefused(dev, code)) BY <1>1, <2>1, RejectWire DEF HandleRefused
  <2>4. HandlerLaw(dev, HandleRefused(dev, code).dev) BY RejectHandles DEF HandleRefused
  <2> QED BY <1>9, <2>2, <2>3, <2>4, SubmitCommandTransfers DEF RefusedCommand
<1>10. ASSUME NEW s \in Sid, NEW m \in Msg, DataMessageSend(s, m) PROVE TransferStep
  BY <1>1, <1>10, DataMessageSendOK, DataMessageSendWire, DataMessageSendHandles,
     SubmitDataTransfers DEF DataMessageSend
<1>11. ASSUME NEW s \in Sid, NEW m \in BadMsg, BadDataLength(s, m) PROVE TransferStep
  <2>1. ResultOK(HandleBadDataLength(dev, s, m))
    BY <1>1, RefuseDataOK DEF BadMsg, HandleBadDataLength, Codes
  <2>2. Delivers(dev, DataResult(dev, HandleBadDataLength(dev, s, m)))
    BY <1>1, RefuseDataWire DEF BadMsg, HandleBadDataLength, Codes
  <2>3. HandleBadDataLength(dev, s, m).dev = dev
    BY DEF HandleBadDataLength, RefuseData, Result
  <2> QED BY <1>11, <2>1, <2>2, <2>3, HandlesNothing, SubmitDataTransfers DEF BadDataLength
<1>12. CASE MalformedData
  <2>1. << >> \in OptPacket BY DEF OptPacket
  <2>2. ResultOK(HandleMalformedData(dev))
    BY <1>1, <2>1, DataResultTyped DEF HandleMalformedData
  <2> DEFINE res == HandleMalformedData(dev)
  <2>3. res.dev = dev /\ res.rsp = << >> /\ res.ntf = << >>
    BY DEF HandleMalformedData, Result
  <2>4. SameTold(dev, res.dev) /\ Settled(res.dev) BY <1>1, <2>3 DEF SameTold
  <2> HIDE DEF res
  <2>5. Delivers(dev, DataResult(dev, res)) BY <2>3, <2>4, DataSettled
  <2>6. HandlerLaw(dev, res.dev) BY <2>3, HandlesNothing
  <2> QED BY <1>12, <2>2, <2>5, <2>6, SubmitDataTransfers DEF MalformedData, res
<1> QED BY <1>2, <1>3, <1>4, <1>5, <1>6, <1>7, <1>8, <1>9, <1>10, <1>11, <1>12
       DEF HostPacket

(* Every step of the loop.                                                 *)
LEMMA TcpNextTransfers ==
  ASSUME Roomy, TcpInv, [TcpNext]_tcpVars
  PROVE  TransferStep
<1>1. /\ EngineInv /\ Len(outbound) \in Nat
      /\ MAX_OUTBOUND_PACKETS \in Nat /\ MAX_OUTBOUND_PACKETS >= 6
  BY LenProperties, OutboundAssumption DEF TcpInv, EngineInv, QueueOK, Roomy
<1>2. CASE PollPacket
  <2>1. outbound = << >> /\ Settled(dev) BY <1>2 DEF PollPacket, TcpInv, Open, Settled
  <2>2. Len(<< >>) = 0 OBVIOUS
  <2>3. Ready BY <1>1, <2>1, <2>2 DEF Ready
  <2> QED BY <1>2, <2>3, HostPacketTransfers DEF PollPacket
<1>3. CASE LoopTick
  <2>1. Len(outbound) <= 4 /\ Settled(dev)
    BY <1>3 DEF LoopTick, TcpInv, Open, Settled
  <2>2. PICK ms \in Elapsed, hit \in BOOLEAN : Apply(EngineTick(dev, outbound, ms, hit))
    BY <1>3 DEF LoopTick, Tick
  <2> DEFINE g == EngineTick(dev, outbound, ms, hit)
  <2>3. ms \in Nat /\ Len(outbound) + 2 <= MAX_OUTBOUND_PACKETS
    BY <1>1, <2>1, InputAssumption
  <2>4. ServeTransfers(dev, outbound, g)
    BY <1>1, <2>1, <2>3, EngineTickTransfers DEF EngineInv
  <2>5. dev' = g.dev /\ outbound' = g.out BY <2>2 DEF Apply
  <2>6. << >> \in Seq(Packet) /\ outbound \o << >> = outbound
    BY ConcatEmptySeq DEF TcpInv, EngineInv, QueueOK
  <2> HIDE DEF g
  <2> QED BY <2>4, <2>5, <2>6 DEF ServeTransfers, TransferStep, TransferLaw
<1>4. CASE dev' = dev
  BY <1>4 DEF TransferStep, TransferLaw, Ends
<1> QED BY <1>2, <1>3, <1>4
       DEF TcpNext, PollIdle, LoopNoTick, FlushToClient, Close, Closed, tcpVars

-----------------------------------------------------------------------------
(* The theorems.                                                           *)

(* No transfer is ever left without the event that moves it on: starting   *)
(* one schedules its first event or undoes the start, serving one          *)
(* schedules the next, and every command that withdraws the events of a    *)
(* session also ends its transfer.  The end of the measurement budget of   *)
(* ranging_stream withdraws the events and does not end the transfer, and  *)
(* is excluded.                                                            *)
THEOREM TransfersDriven ==
  ASSUME Roomy, Scenario # "ranging_stream"
  PROVE  TcpSpec => []TransferHasEvent
<1>1. TcpInit => Driven(dev)
  <2>1. FreeSession.in_progress = FALSE BY DEF FreeSession, NewSession
  <2>2. TcpInit => \A s \in Sid : dev.sessions[s] = FreeSession
    BY DEF TcpInit, Init, InitDevice
  <2> QED BY <2>1, <2>2 DEF Driven, DrivenAt, Sending
<1>2. TcpInv /\ Driven(dev) /\ [TcpNext]_tcpVars => Driven(dev)'
  <2> SUFFICES ASSUME TcpInv, Driven(dev), [TcpNext]_tcpVars PROVE Driven(dev)'
    OBVIOUS
  <2>1. TransferStep BY TcpNextTransfers
  <2>2. Driven(dev') BY <2>1 DEF TransferStep, TransferLaw
  <2> QED BY <2>2
<1>3. Driven(dev) => TransferHasEvent
  BY DEF Driven, DrivenAt, Sending, HasTransfer, TransferHasEvent, InProgress
<1> QED BY <1>1, <1>2, <1>3, TcpInvHolds, PTL DEF TcpSpec

(* Where the last two packets of a step are.                               *)
LEMMA PairAtEnd ==
  ASSUME NEW out \in Seq(Packet), NEW S \in Seq(Packet), NEW E \in Seq(Packet), Len(E) = 2
  PROVE  LET w == (out \o S) \o E
         IN  \E k \in Nat : /\ Len(out) <= k /\ Len(w) = k + 2
                            /\ w[k + 1] = E[1] /\ w[k + 2] = E[2]
<1> DEFINE c == out \o S
<1> DEFINE w == c \o E
<1>1. /\ c \in Seq(Packet) /\ Len(c) = Len(out) + Len(S)
      /\ Len(out) \in Nat /\ Len(S) \in Nat /\ Len(c) \in Nat
  BY ConcatProperties, LenProperties
<1> HIDE DEF c
<1>2. w = c \o E OBVIOUS
<1> HIDE DEF w
<1>3. /\ Len(w) = Len(c) + Len(E)
      /\ \A i \in 1 .. Len(c) + Len(E) : w[i] = IF i <= Len(c) THEN c[i] ELSE E[i - Len(c)]
  <2>1. ASSUME NEW a \in Seq(Packet), NEW b \in Seq(Packet)
        PROVE  /\ Len(a \o b) = Len(a) + Len(b)
               /\ \A i \in 1 .. Len(a) + Len(b) :
                    (a \o b)[i] = IF i <= Len(a) THEN a[i] ELSE b[i - Len(a)]
    BY ConcatProperties
  <2> QED BY <1>1, <1>2, <2>1
<1> DEFINE k == Len(c)
<1>4. k \in Nat /\ Len(out) <= k
  <2> DEFINE i == Len(out)
  <2> DEFINE j == Len(S)
  <2>1. i \in Nat /\ j \in Nat /\ k = i + j BY <1>1
  <2> HIDE DEF i, j, k
  <2>2. i <= k BY <2>1
  <2> QED BY <2>1, <2>2 DEF i
<1>5. Len(w) = k + 2 /\ \A i \in 1 .. k + 2 : w[i] = IF i <= k THEN c[i] ELSE E[i - k]
  BY <1>3
<1> HIDE DEF k
<1>6. /\ k + 1 \in 1 .. k + 2 /\ k + 2 \in 1 .. k + 2 /\ ~(k + 1 <= k) /\ ~(k + 2 <= k)
      /\ (k + 1) - k = 1 /\ (k + 2) - k = 2
  BY <1>4
<1>7. w[k + 1] = E[1] /\ w[k + 2] = E[2] BY <1>5, <1>6
<1> QED BY <1>4, <1>5, <1>7 DEF w, c

(* The client always learns of the end of its transfer.                    *)
THEOREM TransferEndIsTold ==
  ASSUME Roomy
  PROVE  TcpSpec => TransferEndsWithCredit
<1> DEFINE Told2(s) ==
       \E i \in New :
         /\ i + 1 \in New
         /\ outbound'[i] = DataCreditNtf(s)
         /\ outbound'[i + 1] = DataStatusNtf(s, dev.sessions[s].last_data, "OK",
                                             dev'.sessions[s].tx_count)
<1> DEFINE Step == \A s \in Sid : InProgress(s) /\ ~InProgress(s)' /\ Active(dev', s) => Told2(s)
<1>1. TcpInv /\ TcpInv' /\ [TcpNext]_tcpVars => Step
  <2> SUFFICES ASSUME TcpInv, TcpInv', [TcpNext]_tcpVars, NEW s \in Sid,
                      InProgress(s), ~InProgress(s)', Active(dev', s)
               PROVE  Told2(s)
    OBVIOUS
  <2>1. TransferStep BY TcpNextTransfers
  <2> DEFINE E == EndOfTransfer(dev, dev', s)
  <2>2. PICK S \in Seq(Packet) : outbound' = (outbound \o S) \o E
    BY <2>1 DEF TransferStep, TransferLaw, Ends, Sending, InProgress
  <2>3. outbound \in Seq(Packet) BY DEF TcpInv, EngineInv, QueueOK
  <2> DEFINE p == DataCreditNtf(s)
  <2> DEFINE q == DataStatusNtf(s, dev.sessions[s].last_data, "OK", dev'.sessions[s].tx_count)
  <2>4. p \in Packet /\ q \in Packet
    <3>1. dev.sessions[s] \in Session /\ dev'.sessions[s] \in Session
      BY SessionOf DEF TcpInv, EngineInv, Sound
    <3>2. /\ dev.sessions[s].last_data \in Msg \cup {NoMsg}
          /\ dev'.sessions[s].tx_count \in Nat /\ "OK" \in Codes
      BY <3>1 DEF Session, Codes
    <3> QED BY <3>2, PacketTypes
  <2>5. E = <<p, q>> BY DEF EndOfTransfer
  <2> HIDE DEF p, q, E
  <2>6. PICK k \in Nat : /\ Len(outbound) <= k /\ Len(outbound') = k + 2
                         /\ outbound'[k + 1] = p /\ outbound'[k + 2] = q
    <3>1. E \in Seq(Packet) /\ Len(E) = 2 /\ E[1] = p /\ E[2] = q BY <2>4, <2>5
    <3>2. \E k \in Nat : /\ Len(outbound) <= k /\ Len(outbound') = k + 2
                         /\ outbound'[k + 1] = E[1] /\ outbound'[k + 2] = E[2]
      BY <2>2, <2>3, <3>1, PairAtEnd
    <3> QED BY <3>1, <3>2
  <2>7. k + 1 \in New /\ (k + 1) + 1 \in New /\ (k + 1) + 1 = k + 2
    <3> DEFINE n == Len(outbound)
    <3>1. n \in Nat /\ n <= k BY <2>3, <2>6, LenProperties
    <3> HIDE DEF n
    <3>2. k + 1 \in n + 1 .. k + 2 /\ k + 2 \in n + 1 .. k + 2 /\ (k + 1) + 1 = k + 2
      BY <3>1
    <3> QED BY <2>6, <3>2 DEF New, n
  <2> QED BY <2>6, <2>7 DEF p, q
<1>2. TcpInv /\ TcpInv' /\ [TcpNext]_tcpVars => [Step]_tcpVars BY <1>1
<1> QED BY <1>2, TcpInvHolds, PTL DEF TcpSpec, TransferEndsWithCredit
=============================================================================
