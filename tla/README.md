# A TLA+ verification of the UCI device simulator

The repository is a simulator of a UWB device that speaks the UCI protocol: a
host sends commands and data packets over TCP or a pseudo-terminal, a
single-threaded engine runs the handlers, keeps the sessions and plays
scheduled events (range data, data transfers), and packets go back to the host.
This directory holds TLA+ modules translated from the C code, the TLC
configurations that check them on small instances, and TLAPS proofs that hold
for every value of the constants. Paths below are relative to the repository
root as the code sees it: `src/...`, `include/...`.

## 1. Inventory

| Component | State | Operations | Interaction | What makes it correct |
|---|---|---|---|---|
| Engine `src/core/uci_sim_engine.c` | the device, the outbound queue (16) | submit, tick, dequeue | called by a transport; runs a handler, moves pending notifications to the outbound queue, serves at most one ready event | queues within bounds; nothing lost; packets in causal order |
| Device model `src/model/uci_sim_device.c` | sessions (8), pending notifications (8), scheduled events (8), sequence counter, configuration stores | queue/dequeue, schedule/cancel/reschedule, tick, range data, data transfer, deferred delivery | called by handlers and by the engine | an event belongs to a live chain; no event lost, repeated or reordered; budget respected; a transfer ends and returns its credit |
| Scenarios `src/spec/uci_sim_scenario.c` | the scenario kind | hooks on start and stop, deferral rule | called by handlers and by delivery | stop leaves nothing scheduled; a deferred status never leaves early |
| Handlers `src/handlers/uci_sim_handlers.c` | none of their own | one function per command group, plus data messages | called by submit | session life cycle of the profile; every change is announced |
| Validation `src/core/uci_sim_validation.c` | none | one check per parameter, rules between parameters when one is set and at start | called by SET_APP_CONFIG and START | rules between parameters survive any order of SETs; what START accepts is consistent |
| Measurement `src/core/uci_sim_measurement.c` | last proximity state of a session | notification policy, report | called by range data | emits exactly when the policy says so, over changes of the bounds |
| Codec `src/core/uci_sim_packet.c` | none | parse, serialize | transports | parse inverts serialize |
| TCP `src/transport/tcp/uci_sim_tcp_server.c` | sockets, time of the last tick | one loop: poll, submit, tick, flush | drives the engine | one packet and one tick per flush, so the queues never fill |
| Chardev `src/transport/chardev/uci_sim_chardev.c`, `src/main_chardev.c` | stream buffer, `errno` | one loop: read, feed, flush, tick | drives the engine | packets are put together again however the PTY cuts them |
| Profile `src/spec/uci_sim_profile.c` | constant tables | lookups | everywhere | the transitions are the life cycle |

What is hard to test. The code is single-threaded, but its inputs interleave:
commands of several sessions, ticks, and events that were scheduled earlier and
are served one per tick. The fixed arrays fill up, and each full array has its
own failure path. State is kept across a stop, a deinit or a reset that a later
life of the session should not see. A parameter is validated against others that
may change afterwards, in messages that are applied up to their first bad entry.
The PTY cuts and merges packets. The list
of hazards, each at its line and with the properties aimed at it, is
`PROJECT.json`, `hazards`.

## 2. Modules

```
SessionLifecycle      what a session's life is (abstract)
      ^ implemented by
UciDevice  ->  UciEngine  ->  TcpServer   (MCTcp)
                          \-> Chardev     (MCChardev)
                          \-> SessionResources (MCResources)

UciEngineProofs -> EngineStepProofs -> TcpServerProofs -> TransferProofs
      |                  \-> ResourceProofs <- FoldProofs
      \-> ChardevProofs  <- FoldProofs

SessionLifecycle
      ^ implemented by
ConfigRules -> Configuration   (MCConfiguration)
                    \-> ConfigurationProofs
```

**UciDevice** has no variables. The code is single-threaded, so each C function
is an operator on a device value `d`: sessions, events, pending notifications
and the sequence counter. A function that returns a code yields a record with
the device and the code. A packet is its kind, its session, one code (status,
state or reason), one number and, for data, the message. A session keeps the
fields the control flow reads; which of the eight slots holds it is immaterial,
as every lookup is by identifier. `events` is the set of used array entries,
each with its index. The loops that close gaps in that array are modelled entry by
entry: `Compact` is the cancelling loop with its reading index and its writing
index `out`, `Shifted` the loop that moves every later entry one down when the
first ready one is taken. `lost` is a history field that records that some packet
was discarded for want of room. The comparison of a sample with the proximity
bounds is the Boolean `hit`, chosen freely: the policies 2 and 5 consult it.
SESSION_SET_APP_CONFIG is modelled for the parameters that change control flow
(interval, budget, notification policy, repetition count); `bad` stands for a
later entry that is refused after the first was applied. SESSION_START compares
the interval itself and takes what validation says of the other parameters as an
input, a member of `StartVerdicts`: a status, or `SURFACED` for a failure that the
profile answers with OK and reports in a session status. Which verdict the stored
parameters give is the subject of `Configuration`.

**UciEngine** adds `dev` and `outbound`, the functions of the engine, and one
action per host packet kind, per tick and per dequeue. Each action is a whole
call: the handler, the generic error notification, the hand-over of a pending
notification, the flush and the tick of zero milliseconds that ends
`uci_sim_engine_submit_packet`. `Next` allows any order of calls, as the engine
demands none of its caller.

**SessionLifecycle** is the abstract specification: the state of each session
and nothing else. Since one call of the engine may run a command and then end a
budget, its next-state relation is a command followed by an optional budget end.

**TcpServer** is the event loop, with `phase` as its position: poll (one packet
or none), tick (or not, when the clock shows the same millisecond), flush. It
ignores the return codes of submit and tick, as the code does. `heard` and
`seen` are history variables: what the client was last told of each session and
the last range-data number it received.

**Chardev** is the PTY loop. A byte is `<<i, k>>`, the k-th byte of the i-th
packet the host wrote, so any cut, loss or repetition is visible. A read returns
any prefix of what was written; a submit that fails leaves
`stream_feed_to_engine` at once; the loop then looks at `errno`, a variable set
by reads and writes that fail and by nothing else. A read of no bytes (`ReadEof`)
fails as well but leaves `errno` as it was. Once bytes were dropped and
the bytes at the front are no packet, the model stops (`desync`): what the
engine makes of them is left open.

**SessionResources** adds what a session owns beside its state: logical links (a
sequence, as the array is compacted when one is closed), the multicast list, the
DT rounds and the phase configuration. They are indexed by identifier, since every
lookup is; what a slot hands from one identifier to the next is what was there when
it was freed, and `FreedOwnsNothing` says that is nothing. Its commands go through the engine's
submit, so a link notification takes the same way through the two queues, and is
deferred by the same rule, as a session status; the other packets and the ticks
of the engine are there too and leave the resources alone. SESSION_INIT leaves the resources
as they are, as `alloc_session` does; DEINIT and RESET wipe them. A multicast
update is the fold of one entry after the other, with the entry statuses of the
response in `answer`; a message may declare more entries than it holds. `seen` is
the host: the links it was told of. Keys, link modes and credits are not
modelled, as no lookup reads them. The response of a multicast update has room
for 146 entries and a control packet carries at most 41, so that limit is left
out.

**ConfigRules** has no variables: the value range of every parameter, its default,
and the rules between parameters, all from the default profile and
`uci_sim_validation.c`. A value is the number its bytes encode; of keys and
address lists only the length matters. `SetChecks(p)` are the checks made when p
is set and `StartChecks` those of SESSION_START, each a sequence of names in the
order of the code, since the first failure decides the status. A value of the
wrong length is `Malformed`, one that exceeds the 64 bytes of an entry is
`Overlong`. Identifiers that nothing ever checks or reads are represented by
`ANTENNA_SET_ID`, one of the three that have no default.

**Configuration** is the parameter store of one session and of the device under
the commands that set, read and use them, with the measurement policy that runs
on it, the timestamp query and the Qorvo vendor commands. All handlers reach a
session only through its identifier, so one session is enough here. A SET message
is a sequence of entries with a declared count; it is applied up to its first bad
entry (`Stored`), and a failure that the profile defers is stored all the same and
told at START. `Setups` pairs a profile with a host, so that one run covers
several profiles and several groups of parameters that depend on each other.
`samples` is history: the distances measured since the policy was last touched
and which were sent. Queues and scheduled events are left to `UciEngine`, where
in turn the comparison with the bounds is a free choice.

The modules with `Proofs` in their name have the theorems (section 4): of the
engine's state (`UciEngineProofs`) and steps (`EngineStepProofs`), of the TCP loop
(`TcpServerProofs`, `TransferProofs`), of the PTY loop (`ChardevProofs`), of what
sessions own (`ResourceProofs`) and of the parameter stores
(`ConfigurationProofs`); `FoldProofs` has the lemmas on sequences they share.
The modules with `MC` in their name give the constants values.

Operators whose comment says "Mutant of" are deliberately wrong variants of the
definition that follows them; no specification uses them. They are there to show
that each property would notice such a mistake.

## 3. Runs

| Run | Instance | Properties | Shows |
|---|---|---|---|
| `tcp_stream` | 2 sessions, 1 message, 3 events, 2 pending, 6 outbound, all commands | `TypeOK NothingLost HostViewCurrent RangeNumbersConsecutive RangeDataOnlyWhileActive IdleHasNoEvents EventsAccounted BudgetRespected RestartWaitsOneInterval LifecycleImplemented` | through TCP nothing is dropped, the client's view is exact, budgets hold, no scheduled event is lost, repeated or reordered, the life cycle is refined |
| `tcp_stream_live` | 2 sessions, 2 events | `StreamEnds` | one event per tick still plays every burst to its end |
| `tcp_data` | 2 sessions, 2 messages, 1 event | `TransferHasEvent TransferEndsWithCredit TransferEnds` | transfers compete for one event entry and still end with their credit |
| `chardev` | 3 packets of 7 kinds, buffer of 5 bytes | `ChardevTypeOK FramingKept WrittenIsSubmitted` | framing survives any cut, failure and retry; every packet reaches the engine unless a fault is recorded |
| `resources_delayed` | any caller, delayed scenario, 1 session, 2 links, 1 message, 2 pending, 2 outbound | `ResourceTypeOK LinkIdsUnique LinksAnnounced FreedOwnsNothing StatusDeferred` | link ids stay distinct; announcements under way add up to the open links; a status never leaves in its own exchange |
| `resources_lists` | 2 identifiers for 1 slot, multicast list of 1 | `FreedOwnsNothing AnswerTellsAll` | a multicast response tells exactly what was applied; a new session inherits nothing |
| `session_config` | 7 hosts: scheduling, a deferring profile, keys, PHY, topology, policy, device parameters | `ConfigTypeOK SchedulingRulesHold ProximityTransitions StartedConsistent NewSessionHasDefaults CoreAnswerTellsAll CalibrationsFill ConfigLifecycle` | parameters set in any order stay consistent where the code promises it; START accepts only what satisfies every rule; the policy and the partial failures are exact |
| `v_*` | see section 5 | one each | a statement of the documentation that the code does not keep |

Bounds. `SeqBound` and `CountBound` stop SESSION_START once the range-data
number or the measurement count of the session exceeds them; `SentBound` limits
what the host writes to the PTY. Nothing else is cut: queues have real
capacities. Times are in units of the shortest interval (50 ms, which is also
the tick of both loops), so an interval is one or two ticks. The capacities of
`tcp_stream` are the smallest that lose nothing: with 5 outbound entries or 1
pending entry TLC finds a lost packet, with 6 and 2 none, and the code has 16
and 8. Two sessions are enough for one session's events to be ahead of, behind
or in the way of another's; two bursts, a restart, a deinit with a stale event
and a reset fit within the bounds. `TxModulus` stands for 256: the transmission
counter wraps within the run. `StartVerdicts` has all three kinds of verdict where
statuses are counted (`tcp_stream`, `resources_delayed`) and OK alone elsewhere;
a new session has the profile's default budget of 16, and the budget that ends a
stream is one that the host sets. In `chardev` a header has two bytes, so that a
read can end inside it, and the buffer holds one packet and part of another, so
that the overflow and partial tails at every offset occur.
In `resources_delayed` the second link of a session meets both a requested id that
is taken and a full array; in `resources_lists` a list of one entry makes a
two-entry update fail at its first or its second entry.
In `session_config` each host varies a group of parameters that the rules relate
(the groups of `uci_sim_validation.c`; no rule relates two groups that are not
varied together, but for the order in which START looks at them), with values on
both sides of every boundary, wrong lengths, messages of two entries whose second
is refused, and messages that declare one entry too few or too many.
`DIST_MODULUS` = 112 stands for 65536, so that the distance wraps within the run;
`REPORT_LIMIT` and `CONTROL_PAYLOAD_LIMIT` are small enough to be reached.
`CountBound` stops the measurements, `TimestampBound` the timestamp queries.
`tcp_stream` uses symmetry over session identifiers; its temporal
properties are action properties and an invariant-like refinement, whose
formulas treat all identifiers alike. The liveness runs use no symmetry.

Fairness. `TcpFairSpec` assumes that the loop comes round (`WF` of its steps:
poll has a timeout and the code calls nothing else that waits, once a packet has
arrived completely) and that the millisecond clock it reads advances sooner or
later (`SF` of the ticking branch, since a loop iteration may see the same
millisecond again). `ChardevFairSpec` assumes that the loop, which has no
blocking call, takes its next step. Nothing is assumed of the host. A host that
changes RANGING_INTERVAL again and again restarts the countdown each time, so
the liveness of streams is checked without interval changes.

## 4. Proofs

Every theorem holds for all values of the constants that satisfy the `ASSUME`s of
the modules: any set of sessions, messages and parameters, any capacities, any
order of calls. The `ASSUME`s say that capacities are positive, that the set of
session identifiers is finite, that intervals are natural numbers and the default
interval is valid; further ones are named below.

### The engine (`UciEngineProofs`, `EngineStepProofs`)

* `InvHolds`: `Spec => []EngineInv`, the inductive invariant;
* `TypeCorrect`, `IdleQuiet`: `TypeOK` and `IdleHasNoEvents` are invariants;
* `EventsAreAccounted`: the action property `EventsAccounted`;
* `BudgetKept`, `RestartWaits`: the action properties `BudgetRespected` and
  `RestartWaitsOneInterval`;
* `EngineImplementsLifecycle`: `Spec => LifecycleImplemented`, the refinement of
  `SessionLifecycle`.

`EngineInv` is `Sound(dev) /\ QueueOK(outbound)`, where `Sound` joins the types
and bounds with the quiet of idle sessions and the density of the event array (the
used entries are the first ones). The
quiet of idle sessions is not inductive alone: that compaction keeps the owner of
each event, that the served event is one of the array (the `CHOOSE` needs a least
index in a finite, nonempty set), and that a lookup returns a session all rest on
the types. Density in turn is what makes the next free index the number of used
ones. That the two loops keep it is an induction over their index (`CompactIs`,
`ShiftIs`, `LoopsAre`): what lies below `out` is what was kept of the entries read so
far, in their order and without a gap. The argument goes bottom-up: what each queue and array operation does to
types, sessions and events; then each scheduled event; then each handler, which
yields a result with a sound device and at most one response and one notification;
then flush, tick and submit; then the actions. The delicate handler is
SESSION_STOP, which passes through a state in which the session is IDLE and its
events are still scheduled until the hook cancels them.

The action properties and the refinement are about steps, and a step of the engine
is a handler followed by at most one served event. `EngineStepProofs` states one
law for each half (what a handler may do to state, count, budget and events of a
session; what serving an event may do) and shows once, for all handlers, that every
step is such a pair. For `EventsAccounted` the law of a half is that an
order-preserving map (`Leads`) takes each entry that is kept to its new place, aged
by the elapsed time and in front of every new entry; two such maps in a row are one.
The theorems then follow from the laws alone, also
for the engine inside the TCP loop (`ServerKeepsEngine` below).

### The TCP loop (`TcpServerProofs`, `TransferProofs`)

* `ServerKeepsEngine`: the six properties of the engine hold of `TcpSpec` too. That
  does not follow by refinement, as a flush takes the whole outbound queue in one
  step and the engine gives out one packet per call; it follows from the laws, which
  do not mention that queue;
* `ServerLosesNothing`, `ClientKnowsSessions`, `ClientCountsRangeData`,
  `ClientRangesWhileActive`: the invariants `NothingLost`, `HostViewCurrent`,
  `RangeNumbersConsecutive`, `RangeDataOnlyWhileActive`;
* `TransfersDriven`: `TransferHasEvent`;
* `TransferEndIsTold`: the action property `TransferEndsWithCredit`.

The last six assume `Roomy`: at least 2 pending and 6 outbound entries (the code has 8 and
16; the runs show that one less of either loses a packet) and a scenario other than
`delayed_notifications`, in which notifications wait on the device on purpose.
`TcpInv` is the inductive invariant. It has a bound for each position of the loop
(the outbound queue is empty at the poll and holds at most 4 packets at the tick,
and a tick adds at most 2), and `Wire`: what the client heard, followed by the
outbound queue, ends for each session with its current state, and the range data
in it are numbered in turn and come where the session was last announced ACTIVE.
Steps that keep `Wire` compose: a packet carries one change of the device to the
client, a handler or a served event puts at most two such packets on the wire, and
one iteration of the loop is at most three of them.

A transfer in progress keeps an active session and its event (`Driven`): starting
one schedules or undoes, serving one schedules the next, and whoever withdraws
the events ends the transfer. `TransfersDriven` excludes `ranging_stream`, where it
is false: the end of a budget withdraws the events and leaves the transfer (finding
`v_transfer_ends`).

### The PTY loop (`ChardevProofs`)

* `ChardevTyped`: `ChardevTypeOK`; `FramesWhole`: `FramingKept`.

They assume (`WireAssumption`) that each packet has a header, however long, and
names a session of `Sid`, and that the buffer holds a largest legal packet; the
number of packets is any. `Wire(sent, k)` is the
concatenation of all packets after the k-th. `Framed` says that what is not yet
consumed is `Wire(sent, k)` where the first k packets were submitted, and, which is the
strengthening, that the front of the buffer is a packet boundary too: a refused
packet sets the consumed bytes back to zero, and the buffer must still be whole
packets from its front. The steps are two laws of concatenation: writing a packet
appends it to `Wire`, and submitting one takes it off the front. States after a
refusal are included, in which a packet may have been submitted twice (finding
`v_submitted_once`); without one, each of the k was submitted exactly once.

### What sessions own (`ResourceProofs`)

* `ResourcesTyped`, `LinksDistinct`, `SlotsCleared`, `LinksTold`: the invariants
  `ResourceTypeOK`, `LinkIdsUnique`, `FreedOwnsNothing`, `LinksAnnounced`;
* `AnswersTell`, `StatusWaits`: the action properties `AnswerTellsAll` and
  `StatusDeferred` (the latter assumes the scenario `delayed_notifications`).

`ResourceInv` adds to `EngineInv` that each session's resources are typed, within
their capacities and without a link identifier used twice, and that a slot without
a session owns nothing. That the search for a free identifier succeeds is a
counting argument: fewer links than identifiers, hence one that none uses, hence a
least one. It needs the capacity to be at most 254; the code has 8.

`AnswersTell` is about a fold over the entries of a message. `FoldProofs` shows
that the fold is a recursive function of the position, and `Climb` that what holds
at the start and is kept by every position holds at the end: the induction is a
least counterexample, as a theorem with an operator parameter cannot be used. Each
position then appends one status and makes the one change of the list that this
status tells.

`LinksTold` is the longest argument. `After(view, packets)` is what a host knows
that had `view` and reads `packets`; it is an action of sequences, so queues can be
read one after the other. A packet moved from the pending to the outbound queue
changes nothing of what both tell together, and a handler that opens or closes a
link queues exactly the packet that tells so, or records a loss. A handler that
discards an announcement before it was queued must not have changed the links;
this is why every handler is covered and not only those of links. `LinkInv` also
says when the pending queue is empty (`Drained`): only a scenario that defers keeps
packets there. The same step lemma says which statuses leave, which is
`StatusWaits`.

### The parameter stores (`ConfigurationProofs`)

For every profile and host, and messages of any number of entries with any values:

* `ConfigInvHolds`: `Spec => []ConfigInv`, the inductive invariant;
* `ConfigTypeCorrect`, `SchedulingConsistent`, `PolicyExact`: the invariants
  `ConfigTypeOK`, `SchedulingRulesHold` and `ProximityTransitions`;
* `NewSessionDefaults`, `StartConsistent`, `CoreAnswersTell`: the action properties
  `NewSessionHasDefaults`, `StartedConsistent` and `CoreAnswerTellsAll`;
* `ConfigImplementsLifecycle`: `Spec => ConfigLifecycle`, the refinement of
  `SessionLifecycle`.

Assumptions: `SetupAssumption` (a profile gives a range to every ranged parameter
and defers only what the code lets it defer; messages are sequences of entries),
`BoundAssumption`, and `DefaultsAssumption` (the defaults satisfy the three
scheduling rules under each profile).

`ConfigInv` joins `ConfigTypeOK`, `SchedulingRulesHold` and the fact that a slot
without a session is clear. The last is what makes SESSION_INIT sound: a new
session inherits what has no default from its slot. The scheduling rules are kept
entry by entry: `EntryKeepsSchedule` shows, for each of the six parameters, that
the checks made when it is set are those of the rules that mention it, and that
the other rules do not see it. `MessageKeeps` then says that no prefix of a
message breaks them: a least prefix that did would end in an entry that broke
them. `StartConsistent` rests on `FirstFailureIs`, that a sequence of checks
passes only if each of its checks holds, and on the list of START covering all
ranges and rules.

`PolicyExact` needs that the stored proximity is the side of the last sample, or
unknown when there is none (`SamplesOK`), and that there are no samples without a
session. It says of every sample at once whether it was sent, so the proof also
shows that no command changes the policy that earlier samples were judged by
without clearing them.

### Only model-checked

Liveness (`TransferEnds`, `StreamEnds`, `WrittenIsSubmitted`), which the proof
system does not reach, like `ENABLED`; and `CalibrationsFill`, which compares a
recursive function with a sum over a set and is not proved yet.

## 5. Where code and documentation disagree

* `v_first_range`: SESSION_DEINIT does not cancel the events of the session
  (`src/handlers/uci_sim_handlers.c:590-604`). Init, start, deinit, init, start
  leaves two chains of range data, and the first comes before one interval has
  passed, contrary to `README.md:112`.
* `v_transfer_ends`: the end of the measurement budget cancels the event that
  drives a data transfer but leaves the transfer in progress
  (`src/model/uci_sim_device.c:896-903`), so neither status nor credit comes,
  contrary to `docs/UCI_COMMAND_MATRIX.md:185`.
* `v_stream_ends`: SESSION_START ignores that its event could not be scheduled
  (`src/handlers/uci_sim_handlers.c:1254`); the session is announced ACTIVE and
  stays silent, contrary to `README.md:91`. With eight sessions the array of
  eight is full as soon as one of them also has a transfer in progress.
* `v_submitted_once`: a submit that fails leaves the packets before it in the
  stream buffer, and a stale `EAGAIN` keeps the loop going, so they are submitted
  again, contrary to the comment at
  `src/transport/chardev/uci_sim_chardev.c:42`. Nine short commands in one burst
  fill the outbound queue of sixteen.
* `v_key_rate`: KEY_ROTATION_RATE has two bytes and only the first is compared with
  the range (`src/core/uci_sim_validation.c:1284`), so 256 is accepted and stored,
  contrary to `README.md:171`.

## 6. Not modelled, and the plan

Not modelled: the start-up of the main programs, `uci_sim_chardev_inject` (it
bypasses the engine), socket errors beyond ending the loop, the byte layout of
payloads and of the packet header, the fields of a range-data report, and the
splitting of long payloads into several packets, which the TCP transport does and
the PTY transport does not: there a response of more than 255 bytes (a
GET_APP_CONFIG of all parameters) fails to serialize and ends the flush.

SESSION_START reads the two bytes of KEY_ROTATION_RATE into a variable of one
byte, and a stored value of another length than one likewise. The model takes the
usual outcome, that the first byte is what is compared: the other one-byte
variables of the function are read again from the store before their next use, so
a byte that lands in one of them changes nothing.

A SET of RANGING_INTERVAL while the session streams reschedules its event; that is
part of `UciDevice` and not of `Configuration`. In turn the full validation is
part of `Configuration`, and `UciDevice` takes its verdict as an input.

Next, in this order:

1. The splitting of long payloads in the TCP transport and the header codec,
   checked against a reference.
2. Chardev with the delayed scenario, and the host's view over the PTY.
3. Proofs: `CalibrationsFill`; a transfer's event in `ranging_stream` without a
   budget; the engine's properties below the PTY loop, as `ServerKeepsEngine` has
   them below the TCP loop; what the PTY host was told.
