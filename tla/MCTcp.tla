------------------------------ MODULE MCTcp ------------------------------
(***************************************************************************)
(* Small instances of the TCP server for TLC.  Times are counted in units  *)
(* of the shortest interval the profile accepts.                           *)
(***************************************************************************)
EXTENDS TcpServer, TLC

SidSymmetry == Permutations(Sid)

(* An interval longer than the default, and a budget below the burst.      *)
StreamTlvs == {[id |-> "RANGING_INTERVAL", val |-> 2],
               [id |-> "MAX_NUMBER_OF_MEASUREMENTS", val |-> 1]}
BudgetTlvs == {[id |-> "MAX_NUMBER_OF_MEASUREMENTS", val |-> 1]}
RepetitionTlvs == {[id |-> "DATA_REPETITION_COUNT", val |-> 1]}
BudgetAndRepetitionTlvs == BudgetTlvs \cup RepetitionTlvs
=============================================================================
