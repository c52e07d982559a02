----------------------------- MODULE MCSession -----------------------------
(* Instances of Session. *)
EXTENDS Session

CONSTANTS h1, h2, p1, p2

MCHosts == {h1, h2}
MCOneHost == {h1}
MCPorts == {p1, p2}
=============================================================================
