----------------------------- MODULE MCHeartbeat -----------------------------
(* Instances of Heartbeat: two clients and a sequence space of sixteen     *)
(* numbers, which the counter leaves once.                                 *)
EXTENDS Heartbeat, TLC

CONSTANTS a1, a2

MCAddrs == {a1, a2}
MCOneAddr == {a1}
=============================================================================
