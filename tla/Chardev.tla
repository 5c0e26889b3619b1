------------------------------- MODULE Chardev -------------------------------
(***************************************************************************)
(* The PTY transport (src/src/transport/chardev/uci_sim_chardev.c) and the *)
(* loop of src/src/main_chardev.c driving the engine.  The host writes     *)
(* packets into the PTY; a read returns any part of what was written, so   *)
(* packets are cut anywhere and are put together again in stream.  One     *)
(* call of process_input reads once, submits every complete packet, then   *)
(* flushes; the loop ticks the engine and starts again.  phase is the      *)
(* position in that loop, consumed the local variable of                   *)
(* stream_feed_to_engine.                                                  *)
(*                                                                         *)
(* A byte is abstracted to the packet it belongs to and its place there:   *)
(* the header tells the length, the rest is opaque.  After a failure the   *)
(* loop consults errno, which need not be of the call that failed.         *)
(*                                                                         *)
(* sent, times and fault are history variables: the packets written by the *)
(* host, how often each was submitted (counted up to 2), and what went     *)
(* wrong so far.                                                           *)
(***************************************************************************)
EXTENDS UciEngine, SequencesExt

CONSTANTS
  WirePackets,      \* the packets the host writes: operation, session, length
  HEADER_SIZE,
  PayloadLimit,     \* the sanity check on the payload length: 255
  MAX_PACKET,       \* size of stream and of one read
  SentBound         \* bound: the number of packets the host writes

ASSUME WireAssumption ==
  /\ HEADER_SIZE \in Nat \ {0} /\ PayloadLimit \in Nat
  /\ MAX_PACKET \in Nat /\ MAX_PACKET >= HEADER_SIZE + PayloadLimit
  /\ \A p \in WirePackets :
       p.sid \in Sid /\ p.len \in Nat /\ p.len >= HEADER_SIZE

VARIABLES pipe, stream, consumed, phase, errno, sent, times, fault

ptyVars == <<pipe, stream, consumed, phase, errno, sent, times, fault>>
chardevVars == <<dev, outbound, ptyVars>>

Errnos == {"EAGAIN", "EIO", "OTHER"}
Phases == {"read", "feed", "flush", "tick", "failed", "ended", "desync"}
Faults == {"refused", "dropped", "unsent"}

(* No call that could set errno to EAGAIN precedes the loop.               *)
ChardevInit ==
  /\ Init
  /\ pipe = << >> /\ stream = << >> /\ consumed = 0
  /\ phase = "read" /\ errno = "OTHER"
  /\ sent = << >> /\ times = << >> /\ fault = {}

-----------------------------------------------------------------------------
(* What submitting a packet does to device d: the handler and the engine.  *)
(* No wire packet sets a parameter, so a session keeps the valid defaults. *)
Handled(d, p) ==
  CASE p.op = "RESET" -> CommandResult(d, HandleDeviceReset(d))
    [] p.op = "INIT" -> CommandResult(d, HandleSessionInit(d, p.sid))
    [] p.op = "DEINIT" -> CommandResult(d, HandleSessionDeinit(d, p.sid))
    [] p.op = "START" -> CommandResult(d, HandleSessionStart(d, p.sid, "OK"))
    [] p.op = "STOP" -> CommandResult(d, HandleSessionStop(d, p.sid))
    [] OTHER -> DataResult(d, HandleMalformedData(d))

Bytes(i, p) == [k \in 1 .. p.len |-> <<i, k>>]

(* The packet that starts behind the consumed bytes.                       *)
Avail == Len(stream) - consumed
At == stream[consumed + 1][1]
Total == sent[At].len
HasHeader == Avail >= HEADER_SIZE
Oversized == Total > HEADER_SIZE + PayloadLimit
Accepted == HasHeader /\ ~Oversized

(* Mutant of Complete: off by one.                                         *)
CompleteAndMore == Accepted /\ Avail > Total

Complete == Accepted /\ Avail >= Total

(* The n bytes there are the first n of one packet: not so once bytes were *)
(* dropped.                                                                *)
Intact(n) ==
  SubSeq(stream, consumed + 1, consumed + n) = SubSeq(Bytes(At, sent[At]), 1, n)

-----------------------------------------------------------------------------
(* The host process runs beside the loop.                                  *)
HostWrite ==
  /\ Len(sent) < SentBound
  /\ \E p \in WirePackets :
       /\ sent' = Append(sent, p)
       /\ pipe' = pipe \o Bytes(Len(sent) + 1, p)
  /\ times' = Append(times, 0)
  /\ UNCHANGED <<dev, outbound, stream, consumed, phase, errno, fault>>

(* No data (EAGAIN), or no host has opened the PTY (EIO).                  *)
ReadNothing ==
  /\ phase = "read" /\ pipe = << >>
  /\ errno' \in {"EAGAIN", "EIO"}
  /\ phase' = "flush"
  /\ UNCHANGED <<dev, outbound, pipe, stream, consumed, sent, times, fault>>

(* The read, or the allocation of the stream buffer, failed.               *)
ReadError ==
  /\ phase = "read"
  /\ errno' = "OTHER"
  /\ phase' = "failed"
  /\ UNCHANGED <<dev, outbound, pipe, stream, consumed, sent, times, fault>>

(* The read returned 0: a failure that leaves errno as it was.             *)
ReadEof ==
  /\ phase = "read" /\ pipe = << >>
  /\ phase' = "failed"
  /\ UNCHANGED <<dev, outbound, pipe, stream, consumed, errno, sent, times, fault>>

(* Mutant of Clipped: the room behind the tail is not looked at.           *)
ClippedToRead(n) == n

(* The bytes that do not fit behind the partial tail are dropped.          *)
Clipped(n) == Min({n, MAX_PACKET - Len(stream)})

ReadSome ==
  /\ phase = "read"
  /\ \E n \in 1 .. Min({Len(pipe), MAX_PACKET}) :
       /\ stream' = stream \o SubSeq(pipe, 1, Clipped(n))
       /\ pipe' = SubSeq(pipe, n + 1, Len(pipe))
       /\ fault' = IF Clipped(n) < n THEN fault \cup {"dropped"} ELSE fault
  /\ phase' = "feed"
  /\ UNCHANGED <<dev, outbound, consumed, errno, sent, times>>

(* One turn of stream_feed_to_engine.  A refusal leaves the loop at once:  *)
(* what this call consumed before stays in the stream.                     *)
FeedPacket ==
  /\ phase = "feed" /\ Complete /\ Intact(Total)
  /\ \E hit \in BOOLEAN :
       LET g == EngineSubmit(Handled(dev, sent[At]), outbound, hit)
       IN  /\ Apply(g)
           /\ IF g.rc = 0
              THEN /\ consumed' = consumed + Total
                   /\ UNCHANGED <<phase, fault>>
              ELSE /\ consumed' = 0 /\ phase' = "failed"
                   /\ fault' = fault \cup {"refused"}
  /\ times' = [times EXCEPT ![At] = IF @ < 2 THEN @ + 1 ELSE 2]
  /\ UNCHANGED <<pipe, stream, errno, sent>>

FeedOversized ==
  /\ phase = "feed" /\ HasHeader /\ Intact(HEADER_SIZE) /\ Oversized
  /\ consumed' = 0 /\ phase' = "failed"
  /\ fault' = fault \cup {"refused"}
  /\ UNCHANGED <<dev, outbound, pipe, stream, errno, sent, times>>

(* Mutant of FeedDone: the tail is discarded with what was consumed.       *)
FeedDoneForgettingTail ==
  /\ phase = "feed"
  /\ \/ ~HasHeader
     \/ Accepted /\ Intact(HEADER_SIZE) /\ ~Complete
  /\ stream' = << >>
  /\ consumed' = 0 /\ phase' = "flush"
  /\ UNCHANGED <<dev, outbound, pipe, errno, sent, times, fault>>

(* A partial packet, or nothing, is left: it moves to the front.           *)
FeedDone ==
  /\ phase = "feed"
  /\ \/ ~HasHeader
     \/ Accepted /\ Intact(HEADER_SIZE) /\ ~Complete
  /\ stream' = SubSeq(stream, consumed + 1, Len(stream))
  /\ consumed' = 0 /\ phase' = "flush"
  /\ UNCHANGED <<dev, outbound, pipe, errno, sent, times, fault>>

(* The bytes are no packet of the host any more; what the engine makes of  *)
(* them is left open.                                                      *)
Desync ==
  /\ phase = "feed" /\ HasHeader
  /\ ~Intact(HEADER_SIZE) \/ (Complete /\ ~Intact(Total))
  /\ phase' = "desync"
  /\ UNCHANGED <<dev, outbound, pipe, stream, consumed, errno, sent, times, fault>>

(* main_chardev: a failed call is taken for "no data" when errno says so.  *)
Retry ==
  /\ phase = "failed" /\ errno = "EAGAIN"
  /\ phase' = "read"
  /\ UNCHANGED <<dev, outbound, pipe, stream, consumed, errno, sent, times, fault>>

GiveUp ==
  /\ phase = "failed" /\ errno # "EAGAIN"
  /\ phase' = "ended"
  /\ UNCHANGED <<dev, outbound, pipe, stream, consumed, errno, sent, times, fault>>

MasterFlush ==
  /\ phase = "flush"
  /\ outbound' = << >>
  /\ phase' = "tick"
  /\ UNCHANGED <<dev, pipe, stream, consumed, errno, sent, times, fault>>

(* The master is not blocking: when the host does not read, a write fails  *)
(* and the packet already dequeued is gone.                                *)
MasterFlushFails ==
  /\ phase = "flush"
  /\ \E i \in DOMAIN outbound : outbound' = SubSeq(outbound, i + 1, Len(outbound))
  /\ errno' \in {"EAGAIN", "EIO"}
  /\ phase' = "failed"
  /\ fault' = fault \cup {"unsent"}
  /\ UNCHANGED <<dev, pipe, stream, consumed, sent, times>>

LoopTick ==
  /\ phase = "tick"
  /\ \E ms \in Elapsed, hit \in BOOLEAN :
       LET g == EngineTick(dev, outbound, ms, hit)
       IN  Apply(g) /\ phase' = IF g.rc = 0 THEN "read" ELSE "ended"
  /\ UNCHANGED <<pipe, stream, consumed, errno, sent, times, fault>>

Ended == phase \in {"ended", "desync"} /\ UNCHANGED chardevVars

LoopStep ==
  \/ ReadNothing \/ ReadSome
  \/ FeedPacket \/ FeedOversized \/ FeedDone \/ Desync
  \/ Retry \/ GiveUp \/ MasterFlush \/ MasterFlushFails \/ LoopTick

ChardevNext == HostWrite \/ LoopStep \/ ReadError \/ ReadEof \/ Ended

ChardevSpec == ChardevInit /\ [][ChardevNext]_chardevVars

(* The loop has no blocking call: each of its steps is followed by another. *)
ChardevFairSpec == ChardevSpec /\ WF_chardevVars(LoopStep)

-----------------------------------------------------------------------------
(* Types.  The stream never outgrows its allocation, and consumed never    *)
(* passes its end, the condition stream_feed_to_engine calls a logic bug.  *)
ChardevTypeOK ==
  /\ TypeOK
  /\ Len(stream) <= MAX_PACKET
  /\ consumed \in 0 .. Len(stream)
  /\ phase \in Phases /\ errno \in Errnos /\ fault \subseteq Faults
  /\ sent \in Seq(WirePackets) /\ times \in Seq(0 .. 2)
  /\ Len(times) = Len(sent)

(* Unless the buffer overflowed, stream and PTY together hold exactly the  *)
(* packets after the first k the host wrote, byte by byte, and those k     *)
(* were submitted; without a failure each was submitted once and no later  *)
(* one was.  So packets are put together again however they were cut, and  *)
(* none leaves the buffer before the engine has seen it.                   *)
Rest == SubSeq(stream, consumed + 1, Len(stream)) \o pipe
FramingKept ==
  "dropped" \notin fault =>
    \E k \in 0 .. Len(sent) :
      /\ Rest = FlattenSeq([j \in 1 .. Len(sent) - k |-> Bytes(k + j, sent[k + j])])
      /\ \A i \in DOMAIN sent : i <= k => times[i] >= 1
      /\ "refused" \notin fault =>
           \A i \in DOMAIN sent : times[i] = IF i <= k THEN 1 ELSE 0

Submitted(i) == i \in DOMAIN times /\ times[i] > 0

(* Every packet the host writes reaches the engine, unless an earlier one  *)
(* was refused, bytes were dropped, or the process ended.                  *)
WrittenIsSubmitted ==
  \A i \in 1 .. SentBound :
    i \in DOMAIN sent ~>
      (Submitted(i) \/ fault \cap {"refused", "dropped"} # {} \/ phase = "ended")

(* What the comment on the stream buffer says: a complete packet is passed *)
(* to the engine and its bytes are then discarded.  So none is submitted a *)
(* second time.                                                            *)
SubmittedOnce == \A i \in DOMAIN times : times[i] <= 1
=============================================================================
