--------------------------- MODULE SessionLifecycle ---------------------------
(***************************************************************************)
(* What the simulator promises about the life of a session, stated without *)
(* its queues, events and counters: the session state machine of the       *)
(* default profile (src/src/spec/uci_sim_profile.c, session_transitions).  *)
(* A session is created in INIT, started from INIT or IDLE, stopped from   *)
(* ACTIVE by the host or by the end of its measurement budget, and leaves  *)
(* the table by SESSION_DEINIT or a device reset.  At most Capacity        *)
(* sessions exist.                                                         *)
(*                                                                         *)
(* Submitting a command also serves one ready event, so a step of the      *)
(* engine is a command, a budget end, or a command followed by a budget    *)
(* end.  The actions therefore relate two views, and Next composes them.   *)
(***************************************************************************)
EXTENDS Integers, FiniteSets

CONSTANTS Sid, Capacity

VARIABLE view     \* [Sid -> state], "NONE" for a session that does not exist

States == {"NONE", "INIT", "ACTIVE", "IDLE"}
Views == [Sid -> States]
Existing(w) == {s \in Sid : w[s] # "NONE"}

Moves(v, w, s, from, to) == v[s] \in from /\ w = [v EXCEPT ![s] = to]

Create(v, w) ==
  \E s \in Sid : /\ Cardinality(Existing(v)) < Capacity
                 /\ Moves(v, w, s, {"NONE"}, "INIT")
Start(v, w) == \E s \in Sid : Moves(v, w, s, {"INIT", "IDLE"}, "ACTIVE")
Stop(v, w) == \E s \in Sid : Moves(v, w, s, {"ACTIVE"}, "IDLE")
Destroy(v, w) == \E s \in Sid : Moves(v, w, s, {"INIT", "ACTIVE", "IDLE"}, "NONE")
Reset(v, w) == w = [s \in Sid |-> "NONE"]

Command(v, w) ==
  \/ Create(v, w) \/ Start(v, w) \/ Stop(v, w) \/ Destroy(v, w) \/ Reset(v, w)
  \/ w = v
BudgetEnd(v, w) == Stop(v, w) \/ w = v

Init == view = [s \in Sid |-> "NONE"]
Next == \E mid \in Views : Command(view, mid) /\ BudgetEnd(mid, view')
Spec == Init /\ [][Next]_view
=============================================================================
