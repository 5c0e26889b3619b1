----------------------------- MODULE MCResources -----------------------------
(***************************************************************************)
(* Small instances of the session resources for TLC.                       *)
(***************************************************************************)
EXTENDS SessionResources
CONSTANTS c1, c2

(* A repeated entry and two different ones; a count of one or none gives   *)
(* the shorter updates.                                                    *)
SomeLists == {<<c1, c1>>, <<c2, c1>>}
NoLists == {}

(* As many rounds as fit, and one too many.                                *)
SomeRounds == {<<7>>, <<7, 9>>}
=============================================================================
