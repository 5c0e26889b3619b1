------------------------------ MODULE UciEngine ------------------------------
(***************************************************************************)
(* The device engine (src/src/core/uci_sim_engine.c): the bounded outbound *)
(* queue, the submit, tick and dequeue entry points, and the host commands *)
(* that enter through submit.  A transport calls these from one thread, so *)
(* a call is one atomic step; the engine promises nothing about how the    *)
(* calls are ordered, and Next allows every order.                         *)
(***************************************************************************)
EXTENDS UciDevice

CONSTANTS
  MAX_OUTBOUND_PACKETS,
  HostCommands,     \* the commands the host uses
  RefusalCodes,     \* statuses of commands refused before any lookup
  StartVerdicts,    \* what SESSION_START finds of the other parameters
  Elapsed,          \* the elapsed times a tick may report
  SeqBound,         \* bound: no SESSION_START once next_seq exceeds it
  CountBound        \* bound: no SESSION_START once ranging_count exceeds it

ASSUME OutboundAssumption == MAX_OUTBOUND_PACKETS \in Nat \ {0}
ASSUME InputAssumption ==
  /\ RefusalCodes \subseteq Codes
  /\ StartVerdicts \subseteq Verdicts
  /\ Elapsed \subseteq Nat

VARIABLES
  dev,              \* engine->device
  outbound          \* engine->outbound_packets[0 .. outbound_count - 1]

engineVars == <<dev, outbound>>

-----------------------------------------------------------------------------
(* The engine functions, on a device d and an outbound queue out.  rc is   *)
(* the value the C function returns.                                       *)

Engine(d, out, rc) == [dev |-> d, out |-> out, rc |-> rc]

(* Mutant of HasRoom: off by one.                                          *)
HasRoomOneMore(out) == Len(out) <= MAX_OUTBOUND_PACKETS

HasRoom(out) == Len(out) < MAX_OUTBOUND_PACKETS

(* The pending notifications move to the outbound queue; when it fills,    *)
(* the notification already taken from the pending queue is lost.          *)
FlushDeviceNotifications(d, out) ==
  LET room == MAX_OUTBOUND_PACKETS - Len(out)
      n == Len(d.pending)
  IN  IF ShouldDefer THEN Engine(d, out, 0)
      ELSE IF n <= room
      THEN Engine([d EXCEPT !.pending = << >>], out \o d.pending, 0)
      ELSE Engine([d EXCEPT !.pending = SubSeq(@, room + 2, n), !.lost = TRUE],
                  out \o SubSeq(d.pending, 1, room), 0)

(* Mutant of Continue: nothing is scheduled after the first event.         *)
ContinueOnce(d, out, type, s, goesOn) == FlushDeviceNotifications(d, out)

(* The event went through: flush, and schedule the next one while the      *)
(* stream or the transfer goes on.                                         *)
Continue(d, out, type, s, goesOn) ==
  LET f == FlushDeviceNotifications(d, out)
  IN  IF ~goesOn THEN f
      ELSE Engine(ScheduleEvent(f.dev, type, s, d.sessions[s].interval), f.out,
                  IF CanSchedule(f.dev) THEN 0 ELSE -1)

ProcessRangeData(d, out, s, hit) ==
  LET o == EmitRangingStream(d, s, hit)
      v == o.dev.sessions[s]
  IN  IF s \notin Allocated(d) THEN Engine(d, out, 0)
      ELSE IF ~o.ok THEN Engine(o.dev, out, -1)
      ELSE Continue(o.dev, out, "RANGE_DATA", s,
                    v.stream_remaining > 0 /\ v.state = "ACTIVE")

ProcessDataTransfer(d, out, s) ==
  LET o == ProgressDataTransfer(d, s)
  IN  IF ~Active(d, s) \/ ~d.sessions[s].in_progress THEN Engine(d, out, 0)
      ELSE IF ~o.ok THEN Engine(o.dev, out, -1)
      ELSE Continue(o.dev, out, "DATA_TRANSFER", s, o.dev.sessions[s].in_progress)

ProcessReadyEvent(d, out, e, hit) ==
  IF e.type = "RANGE_DATA" THEN ProcessRangeData(d, out, e.sid, hit)
                           ELSE ProcessDataTransfer(d, out, e.sid)

(* Time passes for every event; at most one of the ready ones is served.   *)
EngineTick(d, out, ms, hit) ==
  LET t == TickEvents(d, ms)
      serve == [e \in ReadyEvents(t) |->
                  ProcessReadyEvent(RemoveEvent(t, e), out, e, hit)]
  IN  IF ReadyEvents(t) = {} THEN Engine(t, out, 0) ELSE serve[FirstReadyEvent(t)]

Lose(d) == [d EXCEPT !.lost = TRUE]

(* What submit does with the handler's result.                             *)
EngineSubmit(res, out, hit) ==
  LET out1 == out \o res.rsp
      out2 == out1 \o res.ntf
      f == FlushDeviceNotifications(res.dev, out2)
  IN  IF res.rc # 0 /\ res.rsp = << >> /\ res.ntf = << >>
      THEN Engine(res.dev, out, -1)
      ELSE IF res.rsp # << >> /\ ~HasRoom(out) THEN Engine(Lose(res.dev), out, -1)
      ELSE IF res.ntf # << >> /\ ~HasRoom(out1) THEN Engine(Lose(res.dev), out1, -1)
      ELSE EngineTick(f.dev, f.out, 0, hit)

-----------------------------------------------------------------------------
Apply(g) == dev' = g.dev /\ outbound' = g.out

SubmitCommand(res) ==
  \E hit \in BOOLEAN : Apply(EngineSubmit(CommandResult(dev, res), outbound, hit))
SubmitData(res) ==
  \E hit \in BOOLEAN : Apply(EngineSubmit(DataResult(dev, res), outbound, hit))

Init ==
  /\ dev = InitDevice
  /\ outbound = << >>

DeviceReset == SubmitCommand(HandleDeviceReset(dev))
SessionInit(s) == SubmitCommand(HandleSessionInit(dev, s))
SessionDeinit(s) == SubmitCommand(HandleSessionDeinit(dev, s))

(* The bounds keep the measurement counters finite.                        *)
SessionStart(s) ==
  /\ dev.next_seq <= SeqBound
  /\ dev.sessions[s].ranging_count <= CountBound
  /\ \E verdict \in StartVerdicts : SubmitCommand(HandleSessionStart(dev, s, verdict))

SessionStop(s) == SubmitCommand(HandleSessionStop(dev, s))
SetAppConfig(s, t, bad) == SubmitCommand(HandleSetAppConfig(dev, s, t, bad))
Query(s) == SubmitCommand(HandleQuery(dev, s))
RefusedCommand(status) == SubmitCommand(HandleRefused(dev, status))
DataMessageSend(s, m) == SubmitData(HandleDataMessageSend(dev, s, m))
BadDataLength(s, m) == SubmitData(HandleBadDataLength(dev, s, m))
MalformedData == SubmitData(HandleMalformedData(dev))

Tick(ms) == \E hit \in BOOLEAN : Apply(EngineTick(dev, outbound, ms, hit))

DequeueOutbound ==
  /\ outbound # << >>
  /\ outbound' = Tail(outbound)
  /\ UNCHANGED dev

(* The data messages the host also sends with a wrong length.              *)
BadMsg == IF "BAD_DATA" \in HostCommands THEN Msg ELSE {}

(* What the host may send.  A packet that is neither a command nor data    *)
(* changes nothing and is left out.                                        *)
HostPacket ==
  \/ "RESET" \in HostCommands /\ DeviceReset
  \/ "INIT" \in HostCommands /\ \E s \in Sid : SessionInit(s)
  \/ "DEINIT" \in HostCommands /\ \E s \in Sid : SessionDeinit(s)
  \/ "START" \in HostCommands /\ \E s \in Sid : SessionStart(s)
  \/ "STOP" \in HostCommands /\ \E s \in Sid : SessionStop(s)
  \/ "QUERY" \in HostCommands /\ \E s \in Sid : Query(s)
  \/ \E s \in Sid, t \in Tlvs, bad \in BOOLEAN : SetAppConfig(s, t, bad)
  \/ \E status \in RefusalCodes : RefusedCommand(status)
  \/ \E s \in Sid, m \in Msg : DataMessageSend(s, m)
  \/ \E s \in Sid, m \in BadMsg : BadDataLength(s, m)
  \/ MalformedData

Next ==
  \/ HostPacket
  \/ \E ms \in Elapsed : Tick(ms)
  \/ DequeueOutbound

Spec == Init /\ [][Next]_engineVars

-----------------------------------------------------------------------------
(* Types and queue bounds: the four arrays of the device and the engine    *)
(* are never filled beyond their capacity, whatever the caller does.       *)
QueueOK(out) == out \in Seq(Packet) /\ Len(out) <= MAX_OUTBOUND_PACKETS
TypeOK == DeviceOK(dev) /\ QueueOK(outbound)

(* SESSION_STOP and the end of the measurement budget both withdraw every  *)
(* event scheduled for the session (uci_sim_device_cancel_session_events), *)
(* so a session in IDLE has nothing left that could fire.                  *)
IdleHasNoEvents == QuietWhenIdle(dev)

(* A part of the array, closed up in its order.                            *)
InOrder(E) ==
  {[e EXCEPT !.pos = Cardinality({f \in E : f.pos <= e.pos})] : e \in E}

(* Why an entry may leave the array: its session stopped or the device was *)
(* reset, it was rescheduled, or it is the one that was served.            *)
Withdrawn(e) == \/ dev'.sessions[e.sid].state = "IDLE"
                \/ Allocated(dev') = {} /\ dev'.events = {}
Replaced(e, kept, added) ==
  /\ \A k \in kept : ~IsEventOf(k, e.type, e.sid)
  /\ \E c \in added : IsEventOf(c, e.type, e.sid)
FirstDue(e, kept, ms) ==
  /\ Age(e, ms).delay = 0
  /\ \A k \in kept : k.pos < e.pos => Age(k, ms).delay > 0

(* No call loses, repeats or reorders an event, whatever the loops of      *)
(* reschedule, cancel and dequeue have to move: the array is the entries   *)
(* that were kept, in their order and aged by the elapsed time, and behind *)
(* them new ones that wait one interval.  Every entry that left was        *)
(* withdrawn, replaced, or served, and at most one was served: the first   *)
(* due.  A measurement is only counted for a due event that left.          *)
EventsAccounted ==
  [][\E ms \in Elapsed \cup {0}, kept \in SUBSET dev.events :
       LET stayed == InOrder({Age(e, ms) : e \in kept})
           added == dev'.events \ stayed
           gone == dev.events \ kept
           served == {e \in gone : ~Withdrawn(e) /\ ~Replaced(e, kept, added)}
       IN  /\ stayed \subseteq dev'.events
           /\ {e.pos : e \in dev'.events} = 1 .. Cardinality(dev'.events)
           /\ \A c \in added : c.delay = dev'.sessions[c.sid].interval
           /\ \A e, f \in served : e = f /\ FirstDue(e, kept, ms)
           /\ \A s \in Sid :
                dev'.sessions[s].ranging_count > dev.sessions[s].ranging_count =>
                  \E e \in gone :
                    IsEventOf(e, "RANGE_DATA", s) /\ Age(e, ms).delay = 0]_dev

(* The measurement budget of uci_sim_device_emit_ranging_stream: a         *)
(* measurement is only ever counted while the budget allows it, even when  *)
(* the host lowers MAX_NUMBER_OF_MEASUREMENTS in mid-stream or restarts a  *)
(* session whose count was kept.                                           *)
BudgetRespected ==
  [][\A s \in Sid :
       dev'.sessions[s].ranging_count > dev.sessions[s].ranging_count =>
         \/ dev'.sessions[s].max_meas = 0
         \/ dev'.sessions[s].ranging_count <= dev'.sessions[s].max_meas]_engineVars

(* A stopped session that is started again waits one full interval before  *)
(* its first range data: nothing scheduled before the stop survives it.    *)
RestartWaitsOneInterval ==
  [][\A s \in Sid :
       dev.sessions[s].state = "IDLE" /\ Active(dev', s) =>
         \A e \in dev'.events :
           e.sid = s => e.delay = dev'.sessions[s].interval]_engineVars

(* The sessions follow the life cycle of the profile: the engine           *)
(* implements the abstract specification SessionLifecycle.                 *)
Lifecycle == INSTANCE SessionLifecycle
  WITH view <- [s \in Sid |-> dev.sessions[s].state], Capacity <- MAX_SESSIONS
LifecycleImplemented == Lifecycle!Spec

(* The packets a step adds to the outbound queue.                          *)
New == Len(outbound) + 1 .. Len(outbound')

(* delayed_notifications (uci_sim_scenario_should_defer_notification and   *)
(* uci_sim_device_finalize_result): a session status never leaves in the   *)
(* exchange that caused it.  Every one that leaves was waiting before the  *)
(* step, at the head of the pending queue, so their order is kept too.     *)
StatusDeferred ==
  [][\A i \in New : outbound'[i].kind = "SESSION_STATUS" =>
       dev.pending # << >> /\ outbound'[i] = Head(dev.pending)]_engineVars

(* What README.md says of ranging_stream: the first range data of a        *)
(* started session "waits one configured interval".                        *)
FirstRangeWaitsOneInterval ==
  [][\A s \in Sid :
       ~Active(dev, s) /\ Active(dev', s) =>
         \A e \in dev'.events :
           IsEventOf(e, "RANGE_DATA", s) => e.delay = dev'.sessions[s].interval]_engineVars
=============================================================================
