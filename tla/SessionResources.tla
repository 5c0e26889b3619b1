--------------------------- MODULE SessionResources ---------------------------
(***************************************************************************)
(* What a session owns beside its state: logical links, the controller     *)
(* multicast list, the DT ranging rounds and the data-transfer phase       *)
(* configuration (the second half of src/src/model/uci_sim_device.c and    *)
(* the handlers of src/src/handlers/uci_sim_handlers.c that change them).  *)
(* The module composes these with the engine, whose queues carry the       *)
(* link notifications, and with a host that reads the notifications.       *)
(*                                                                         *)
(* Keys, link modes and credits are left out: no lookup depends on them.   *)
(***************************************************************************)
EXTENDS UciEngine, SequencesExt

CONSTANTS
  MAX_LOGICAL_LINKS, MAX_MULTICAST_ENTRIES, MAX_DT_ROUNDS, DTP_CAPACITY,
  LinkIds,          \* the link identifiers the host asks for, AnyLink included
  Controlees,       \* (short address, sub-session) pairs
  MulticastLists,   \* the entry lists of the host's multicast updates
  RoundLists,       \* the round lists of the host's DT round updates
  PhaseSizes        \* the dtp_size and payload sizes the host sends

AnyLink == 255      \* the host leaves the choice of the link id to the device

ASSUME ResourceAssumption ==
  /\ MAX_LOGICAL_LINKS \in 1 .. 254
  /\ MAX_MULTICAST_ENTRIES \in Nat \ {0}
  /\ MAX_DT_ROUNDS \in Nat
  /\ DTP_CAPACITY \in 0 .. 255
  /\ LinkIds \subseteq 0 .. 255
  /\ MulticastLists \subseteq Seq(Controlees)
  /\ RoundLists \subseteq Seq(0 .. 255)
  /\ PhaseSizes \subseteq 0 .. 255

(* These three have actions of their own here.                             *)
ASSUME CommandAssumption == HostCommands \cap {"RESET", "INIT", "DEINIT"} = {}

VARIABLES
  resources,        \* what each session owns
  answer,           \* the entries of the multicast response just given
  seen              \* the host: the links it was told of, per session

resourceVars == <<dev, outbound, resources, answer, seen>>

(* logical_links[0 .. logical_link_count - 1] is a sequence;               *)
(* multicast_entries[] is the set of its used entries, any free slot will  *)
(* do for a new one; phase is dtp_payload_len.                             *)
Resources ==
  [links : Seq(0 .. 255), multicast : SUBSET Controlees,
   anchor : Seq(0 .. 255), tag : Seq(0 .. 255), phase : 0 .. 255]
NoResources ==
  [links |-> << >>, multicast |-> {}, anchor |-> << >>, tag |-> << >>, phase |-> 0]

MulticastActions == {"ADD", "REMOVE"}
EntryStatuses == {"OK", "ADDRESS_ALREADY_PRESENT", "ADDRESS_NOT_FOUND", "LIST_FULL"}
NoAnswer == [sid |-> NoSid, action |-> "ADD", entries |-> << >>]

-----------------------------------------------------------------------------
(* Logical links.                                                          *)

LinkNtf(kind, s, id) == MakePacket(kind, s, "NONE", id, NoMsg)

HasLink(links, id) == \E i \in DOMAIN links : links[i] = id

(* Mutant of AssignedId: the number of links is taken for a free id.       *)
AssignedIdByCount(links, id) == IF id # AnyLink THEN id ELSE Len(links)

(* The lowest id not in use, when the host asks for any.                   *)
AssignedId(links, id) ==
  IF id # AnyLink THEN id
  ELSE CHOOSE c \in 0 .. Len(links) :
         ~HasLink(links, c) /\ \A b \in 0 .. c - 1 : HasLink(links, b)

(* The links behind the closed one move up.                                *)
RemoveLink(links, id) == RemoveFirst(links, id)

(* Mutant of LinkCreateStatus: off by one.                                 *)
LinkCreateStatusOneMore(links, id) ==
  IF id # AnyLink /\ HasLink(links, id) THEN "INVALID_PARAM"
  ELSE IF Len(links) > MAX_LOGICAL_LINKS THEN "LIST_FULL"
  ELSE "OK"

LinkCreateStatus(links, id) ==
  IF id # AnyLink /\ HasLink(links, id) THEN "INVALID_PARAM"
  ELSE IF Len(links) >= MAX_LOGICAL_LINKS THEN "LIST_FULL"
  ELSE "OK"

-----------------------------------------------------------------------------
(* The multicast list: one entry of an update, and the whole update.       *)

Listing(list, entries) == [list |-> list, entries |-> entries]

EntryStatus(list, action, c) ==
  CASE action = "REMOVE" /\ c \notin list -> "ADDRESS_NOT_FOUND"
    [] action = "ADD" /\ c \in list -> "ADDRESS_ALREADY_PRESENT"
    [] action = "ADD" /\ c \notin list
         /\ Cardinality(list) >= MAX_MULTICAST_ENTRIES -> "LIST_FULL"
    [] OTHER -> "OK"

UpdateEntry(action, acc, c) ==
  LET status == EntryStatus(acc.list, action, c)
      list == IF status # "OK" THEN acc.list
              ELSE IF action = "REMOVE" THEN acc.list \ {c}
              ELSE acc.list \cup {c}
  IN  Listing(list, Append(acc.entries, [controlee |-> c, status |-> status]))

(* Mutant of UpdateList: the response stops at the first failed entry.     *)
UpdateListShortAnswer(list, action, entries) ==
  LET all == FoldLeft(LAMBDA acc, c : UpdateEntry(action, acc, c),
                      Listing(list, << >>), entries)
      bad == {i \in DOMAIN all.entries : all.entries[i].status # "OK"}
  IN  IF bad = {} THEN all
      ELSE Listing(all.list,
                   SubSeq(all.entries, 1, CHOOSE i \in bad : \A j \in bad : i <= j))

UpdateList(list, action, entries) ==
  FoldLeft(LAMBDA acc, c : UpdateEntry(action, acc, c), Listing(list, << >>), entries)

(* count is what the message declares; it may hold fewer entries.          *)
OverallStatus(entries, count) ==
  IF Len(entries) < count THEN "INVALID_PARAM"
  ELSE IF \E i \in DOMAIN entries : entries[i].status # "OK" THEN "FAILED"
  ELSE "OK"

-----------------------------------------------------------------------------
(* The host applies link notifications and forgets the links of a session  *)
(* that ends.                                                              *)
HearLinks(view, p) ==
  CASE p.kind = "LINK_CREATE" -> [view EXCEPT ![p.sid] = @ \cup {p.num}]
    [] p.kind = "LINK_CLOSE" -> [view EXCEPT ![p.sid] = @ \ {p.num}]
    [] p.kind = "SESSION_STATUS" /\ p.code = "DEINIT" -> [view EXCEPT ![p.sid] = {}]
    [] p.kind = "DEVICE_STATUS" -> [s \in Sid |-> {}]
    [] OTHER -> view

-----------------------------------------------------------------------------
(* Actions.  Each is one submitted command, with everything the engine     *)
(* does for it.                                                            *)

NotMulticast == answer' = NoAnswer /\ UNCHANGED seen
Keep == UNCHANGED resources /\ NotMulticast
Own(s, r) == resources' = [resources EXCEPT ![s] = r]
Refuse(status) == SubmitCommand(Reject(dev, status)) /\ Keep
Announce(kind, s, id) ==
  SubmitCommand(DeliverNotification(Respond(dev, "OK"), LinkNtf(kind, s, id)))

ResourceInit ==
  /\ Init
  /\ resources = [s \in Sid |-> NoResources]
  /\ answer = NoAnswer
  /\ seen = [s \in Sid |-> {}]

(* alloc_session clears none of the fields modelled here.                  *)
InitSession(s) == SessionInit(s) /\ Keep

(* Mutant of DeinitSession: the slot is released but not cleared.          *)
DeinitSessionWithoutClear(s) == SessionDeinit(s) /\ Keep

DeinitSession(s) ==
  /\ SessionDeinit(s)
  /\ Own(s, IF s \in Allocated(dev) THEN NoResources ELSE resources[s])
  /\ NotMulticast

ResetDevice ==
  /\ DeviceReset
  /\ resources' = [s \in Sid |-> NoResources]
  /\ NotMulticast

(* Mutant of LogicalLinkCreate: announced under the id the host asked for. *)
LogicalLinkCreateEchoingId(s, id) ==
  LET r == resources[s]
      status == LinkCreateStatus(r.links, id)
  IN  \/ s \notin Allocated(dev) /\ Refuse("INVALID_PARAM")
      \/ s \in Allocated(dev) /\ status # "OK" /\ Refuse(status)
      \/ /\ s \in Allocated(dev) /\ status = "OK"
         /\ Announce("LINK_CREATE", s, id)
         /\ Own(s, [r EXCEPT !.links = Append(@, AssignedId(@, id))])
         /\ NotMulticast

LogicalLinkCreate(s, id) ==
  LET r == resources[s]
      status == LinkCreateStatus(r.links, id)
      new == AssignedId(r.links, id)
  IN  \/ s \notin Allocated(dev) /\ Refuse("INVALID_PARAM")
      \/ s \in Allocated(dev) /\ status # "OK" /\ Refuse(status)
      \/ /\ s \in Allocated(dev) /\ status = "OK"
         /\ Announce("LINK_CREATE", s, new)
         /\ Own(s, [r EXCEPT !.links = Append(@, new)])
         /\ NotMulticast

LogicalLinkClose(s, id) ==
  LET r == resources[s]
  IN  \/ s \notin Allocated(dev) /\ Refuse("INVALID_PARAM")
      \/ s \in Allocated(dev) /\ ~HasLink(r.links, id) /\ Refuse("INVALID_PARAM")
      \/ /\ s \in Allocated(dev) /\ HasLink(r.links, id)
         /\ Announce("LINK_CLOSE", s, id)
         /\ Own(s, [r EXCEPT !.links = RemoveLink(@, id)])
         /\ NotMulticast

LogicalLinkGetParam(s, id) ==
  /\ SubmitCommand(IF s \in Allocated(dev) /\ HasLink(resources[s].links, id)
                   THEN Respond(dev, "OK") ELSE Reject(dev, "INVALID_PARAM"))
  /\ Keep

(* entries are the complete entries the message holds, count the number it *)
(* declares.  A response has room for every entry a control packet can     *)
(* carry.                                                                  *)
UpdateMulticastList(s, action, entries, count) ==
  LET r == resources[s]
      n == IF count < Len(entries) THEN count ELSE Len(entries)
      u == UpdateList(r.multicast, action, SubSeq(entries, 1, n))
      status == OverallStatus(u.entries, count)
  IN  \/ s \notin Allocated(dev) /\ Refuse("INVALID_PARAM")
      \/ /\ s \in Allocated(dev)
         /\ SubmitCommand(IF status = "OK" THEN Respond(dev, "OK") ELSE Reject(dev, status))
         /\ Own(s, [r EXCEPT !.multicast = u.list])
         /\ answer' = [sid |-> s, action |-> action, entries |-> u.entries]
         /\ UNCHANGED seen

(* short: the message holds fewer rounds than it declares.                 *)
UpdateDtRounds(s, useAnchor, rounds, short) ==
  LET r == resources[s]
      good == ~short /\ Len(rounds) <= MAX_DT_ROUNDS /\ s \in Allocated(dev)
  IN  \/ ~good /\ Refuse("INVALID_PARAM")
      \/ /\ good
         /\ SubmitCommand(Respond(dev, "OK"))
         /\ Own(s, IF useAnchor THEN [r EXCEPT !.anchor = rounds]
                                ELSE [r EXCEPT !.tag = rounds])
         /\ NotMulticast

(* size is dtp_size; len, the bytes that follow it, is cut to a uint8_t.   *)
DataTransferPhaseConfig(s, size, len) ==
  LET good == size <= DTP_CAPACITY /\ len % 256 = size
  IN  \/ s \notin Allocated(dev) /\ Refuse("INVALID_PARAM")
      \/ s \in Allocated(dev) /\ ~good /\ Refuse("INVALID_MSG_SIZE")
      \/ /\ s \in Allocated(dev) /\ good
         /\ SubmitCommand(Respond(dev, "OK"))
         /\ Own(s, [resources[s] EXCEPT !.phase = len % 256])
         /\ NotMulticast

(* The other packets, which leave the resources alone: among them messages *)
(* too short for their fixed part, and unsupported actions.                *)
OtherPacket == HostPacket /\ Keep
ResourceTick == \E ms \in Elapsed : Tick(ms) /\ Keep

HostReads ==
  /\ DequeueOutbound
  /\ seen' = HearLinks(seen, Head(outbound))
  /\ answer' = NoAnswer
  /\ UNCHANGED resources

ResourceNext ==
  \/ \E s \in Sid : InitSession(s) \/ DeinitSession(s)
  \/ ResetDevice
  \/ \E s \in Sid, id \in LinkIds :
       \/ LogicalLinkCreate(s, id)
       \/ LogicalLinkClose(s, id)
       \/ LogicalLinkGetParam(s, id)
  \/ \E s \in Sid, a \in MulticastActions, l \in MulticastLists :
       \E n \in 0 .. Len(l) + 1 : UpdateMulticastList(s, a, l, n)
  \/ \E s \in Sid, b \in BOOLEAN, l \in RoundLists, short \in BOOLEAN :
       UpdateDtRounds(s, b, l, short)
  \/ \E s \in Sid, size \in PhaseSizes, len \in PhaseSizes :
       DataTransferPhaseConfig(s, size, len)
  \/ OtherPacket
  \/ ResourceTick
  \/ HostReads

ResourceSpec == ResourceInit /\ [][ResourceNext]_resourceVars

-----------------------------------------------------------------------------
(* Types, and the capacity of the three fixed arrays of a session.         *)
ResourceTypeOK ==
  /\ TypeOK
  /\ resources \in [Sid -> Resources]
  /\ \A s \in Sid :
       /\ Len(resources[s].links) <= MAX_LOGICAL_LINKS
       /\ Cardinality(resources[s].multicast) <= MAX_MULTICAST_ENTRIES
       /\ Len(resources[s].anchor) <= MAX_DT_ROUNDS
       /\ Len(resources[s].tag) <= MAX_DT_ROUNDS
       /\ resources[s].phase <= DTP_CAPACITY
  /\ answer \in [sid : Sid \cup {NoSid}, action : MulticastActions,
                 entries : Seq([controlee : Controlees, status : EntryStatuses])]
  /\ seen \in [Sid -> SUBSET (0 .. 255)]

(* The open links of a session have distinct identifiers, whatever mix of  *)
(* chosen and requested ids the host creates and closes: LOGICAL_LINK_CLOSE *)
(* and GET_PARAM name one link (uci_sim_session_allocate_logical_link).    *)
LinkIdsUnique ==
  \A s \in Sid : \A i, j \in DOMAIN resources[s].links :
    resources[s].links[i] = resources[s].links[j] => i = j

(* alloc_session relies on the slot it takes being clear: a session that   *)
(* is not allocated owns nothing, so the next one with its identifier      *)
(* inherits no link, no multicast entry, no rounds and no phase payload.   *)
FreedOwnsNothing ==
  \A s \in Sid : s \notin Allocated(dev) => resources[s] = NoResources

(* The links the host was told of, once it reads what the two queues hold  *)
(* in their order, are the links that are open: no announcement overtakes  *)
(* another, waits behind a reset or names another link, also when the      *)
(* scenario defers them, as long as no packet was discarded for want of    *)
(* room (emit_logical_link_notification, flush_device_notifications).      *)
LinksAnnounced ==
  ~dev.lost =>
    FoldLeft(HearLinks, seen, outbound \o dev.pending)
      = [s \in Sid |-> ToSet(resources[s].links)]

(* A host that applies the entries reported OK to the list it had gets the *)
(* list the device has: an update that fails half-way or is cut short is   *)
(* applied exactly as far as the response says                             *)
(* (handle_session_update_multicast_list).                                 *)
Replay(list, a) ==
  FoldLeft(LAMBDA l, e : IF e.status # "OK" THEN l
                         ELSE IF a.action = "ADD" THEN l \cup {e.controlee}
                         ELSE l \ {e.controlee},
           list, a.entries)
AnswerTellsAll ==
  [][\A s \in Allocated(dev) \cap Allocated(dev') :
       resources'[s].multicast =
         IF answer'.sid = s THEN Replay(resources[s].multicast, answer')
                            ELSE resources[s].multicast]_resourceVars
=============================================================================
