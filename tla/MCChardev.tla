------------------------------ MODULE MCChardev ------------------------------
(***************************************************************************)
(* Small instances of the PTY transport for TLC.  A header is two bytes,   *)
(* and packets are cut inside the header and inside the payload.           *)
(***************************************************************************)
EXTENDS Chardev

CONSTANT s1

Cmd(op, len) == [op |-> op, sid |-> s1, len |-> len]

(* Commands of two lengths, a data packet the handler refuses and one that *)
(* is longer than the transport accepts.                                   *)
Session1Packets == {Cmd("INIT", 3), Cmd("START", 3), Cmd("STOP", 3),
                    Cmd("DEINIT", 3), Cmd("RESET", 2),
                    Cmd("MALFORMED", 2), Cmd("MALFORMED", 4)}
InitPackets == {Cmd("INIT", 3)}
=============================================================================
