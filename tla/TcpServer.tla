------------------------------ MODULE TcpServer ------------------------------
(***************************************************************************)
(* The TCP transport (src/src/transport/tcp/uci_sim_tcp_server.c) driving  *)
(* the engine.  One iteration of the event loop polls, submits at most one *)
(* packet, ticks the engine at most once with the elapsed time clipped to  *)
(* ENGINE_TICK_MS, and flushes the outbound queue to the client.  The loop *)
(* ignores what submit and tick return.  phase is the loop's position.     *)
(*                                                                         *)
(* heard is what the client was last told of each session and seen the     *)
(* number of the last range-data notification it received; both are        *)
(* history variables, updated where the packets are written to the socket. *)
(***************************************************************************)
EXTENDS UciEngine, FiniteSetsExt

VARIABLES phase, heard, seen

tcpVars == <<dev, outbound, phase, heard, seen>>

Phases == {"poll", "tick", "flush", "closed"}

TcpInit ==
  /\ Init
  /\ phase = "poll"
  /\ heard = [s \in Sid |-> "NONE"]
  /\ seen = 0

-----------------------------------------------------------------------------
(* The client's view after it has read the packets q.                      *)

Concerns(p, s) ==
  \/ p.kind = "DEVICE_STATUS"
  \/ p.kind = "SESSION_STATUS" /\ p.sid = s

Told(p) == CASE p.kind = "DEVICE_STATUS" -> "NONE"
             [] p.code = "DEINIT" -> "NONE"
             [] p.code = "IDLE_MAX_REACHED" -> "IDLE"
             [] OTHER -> p.code

Hear(q, s) ==
  LET about == {i \in DOMAIN q : Concerns(q[i], s)}
  IN  IF about = {} THEN heard[s] ELSE Told(q[Max(about)])

(* A reset restarts the numbering of the range data.                       *)
See(q) ==
  LET marks == {i \in DOMAIN q : q[i].kind \in {"RANGE_DATA", "DEVICE_STATUS"}}
  IN  IF marks = {} THEN seen ELSE q[Max(marks)].num

-----------------------------------------------------------------------------
(* poll() timed out, only the listening socket was ready (the second       *)
(* client is accepted and closed), or the packet read is no host packet.   *)
PollIdle ==
  /\ phase = "poll"
  /\ phase' = "tick"
  /\ UNCHANGED <<dev, outbound, heard, seen>>

PollPacket ==
  /\ phase = "poll"
  /\ HostPacket
  /\ phase' = "tick"
  /\ UNCHANGED <<heard, seen>>

(* The monotonic clock advanced since the last tick.                       *)
LoopTick ==
  /\ phase = "tick"
  /\ \E ms \in Elapsed \ {0} : Tick(ms)
  /\ phase' = "flush"
  /\ UNCHANGED <<heard, seen>>

(* The clock still shows the same millisecond: no tick.                    *)
LoopNoTick ==
  /\ phase = "tick"
  /\ phase' = "flush"
  /\ UNCHANGED <<dev, outbound, heard, seen>>

FlushToClient ==
  /\ phase = "flush"
  /\ outbound' = << >>
  /\ heard' = [s \in Sid |-> Hear(outbound, s)]
  /\ seen' = See(outbound)
  /\ phase' = "poll"
  /\ UNCHANGED dev

(* The client disconnects, an I/O error or SIGTERM ends the loop; a flush  *)
(* that fails has already taken some packets from the queue.               *)
Close ==
  /\ phase # "closed"
  /\ phase' = "closed"
  /\ outbound' \in IF phase = "flush"
                   THEN {SubSeq(outbound, i, Len(outbound)) : i \in 1 .. Len(outbound) + 1}
                   ELSE {outbound}
  /\ UNCHANGED <<dev, heard, seen>>

Closed == phase = "closed" /\ UNCHANGED tcpVars

TcpNext ==
  \/ PollIdle \/ PollPacket
  \/ LoopTick \/ LoopNoTick
  \/ FlushToClient
  \/ Close \/ Closed

TcpSpec == TcpInit /\ [][TcpNext]_tcpVars

(* The loop always comes round; the monotonic clock it reads is eventually *)
(* seen to advance, so the ticking branch is not avoided for ever.         *)
LoopStep == PollIdle \/ PollPacket \/ LoopTick \/ LoopNoTick \/ FlushToClient
TcpFairness == WF_tcpVars(LoopStep) /\ SF_tcpVars(LoopTick)
TcpFairSpec == TcpSpec /\ TcpFairness

-----------------------------------------------------------------------------
(* One iteration of the loop submits at most one packet and ticks at most  *)
(* once, so neither queue ever overflows: no response or notification is   *)
(* dropped (uci_sim_engine_submit_packet, flush_device_notifications and   *)
(* uci_sim_device_queue_notification all have a path that drops one).      *)
NothingLost == dev.lost = FALSE

Open == phase # "closed"

(* Once it has read what is queued, the client knows the state of every    *)
(* session: each change of a session's state, whether a command, a reset   *)
(* or the measurement budget made it, is announced, and in the order in    *)
(* which the changes happened.                                             *)
HostViewCurrent ==
  Open => \A s \in Sid : Hear(outbound, s) = dev.sessions[s].state

(* The range data reaches the client numbered without a gap, a repetition  *)
(* or a reordering, over all sessions together; a reset starts again at 1. *)
RangeNumbersConsecutive ==
  Open => /\ \A i \in DOMAIN outbound :
               outbound[i].kind = "RANGE_DATA" =>
                 outbound[i].num = See(SubSeq(outbound, 1, i - 1)) + 1
          /\ dev.next_seq = See(outbound) + 1

(* Range data reaches the client only for a session that the client has    *)
(* been told is ACTIVE: none precedes the status of SESSION_START, none    *)
(* follows the status of SESSION_STOP or of the end of the budget.         *)
RangeDataOnlyWhileActive ==
  Open => \A i \in DOMAIN outbound :
    outbound[i].kind = "RANGE_DATA" =>
      Hear(SubSeq(outbound, 1, i - 1), outbound[i].sid) = "ACTIVE"

InProgress(s) == dev.sessions[s].in_progress

(* A data transfer in progress is always driven: its session is active and *)
(* an event that will move it on is scheduled (handle_data_message_send    *)
(* undoes the start when the event cannot be scheduled).                   *)
TransferHasEvent ==
  \A s \in Sid : InProgress(s) =>
    /\ Active(dev, s)
    /\ \E e \in dev.events : IsEventOf(e, "DATA_TRANSFER", s)

(* A transfer that ends while its session stays active has returned the    *)
(* credit and then reported OK for the message that was being sent, in the *)
(* packets of that very step (uci_sim_device_progress_data_transfer).      *)
TransferEndsWithCredit ==
  [][\A s \in Sid : InProgress(s) /\ ~InProgress(s)' /\ Active(dev', s) =>
       \E i \in New :
         /\ i + 1 \in New
         /\ outbound'[i] = DataCreditNtf(s)
         /\ outbound'[i + 1] = DataStatusNtf(s, dev.sessions[s].last_data, "OK",
                                             dev'.sessions[s].tx_count)]_tcpVars

(* Every data transfer comes to an end while the connection lasts: the     *)
(* client gets its credit back, though one tick serves one event only.     *)
TransferEnds == \A s \in Sid : InProgress(s) ~> (~InProgress(s) \/ ~Open)

(* Every ranging burst is played to its end, whatever the other sessions   *)
(* have scheduled.                                                         *)
Streaming(s) == dev.sessions[s].stream_remaining > 0
StreamEnds == \A s \in Sid : Streaming(s) ~> (~Streaming(s) \/ ~Open)
=============================================================================
