------------------------------ MODULE Heartbeat ------------------------------
(***************************************************************************)
(* The host's heartbeats: HeartbeatManager (host/src/net.rs), the main     *)
(* loop that drives it (host/src/main.rs), and the clients' receivers that *)
(* acknowledge each heartbeat (client/src/net.rs).                         *)
(*                                                                         *)
(* One manager serves all clients.  Sequence numbers are counted modulo    *)
(* SeqMod (2^32); "ticks" and the number "n" in a datagram are the same    *)
(* count without the wrap, kept as history.  Datagrams may be lost, be     *)
(* duplicated and overtake one another, but none lives for half the        *)
(* sequence space, and no silence lasts so long: at one heartbeat a second *)
(* that is 68 years.                                                       *)
(***************************************************************************)
EXTENDS Naturals, FiniteSetsExt

CONSTANTS
    Addrs,       \* addresses of clients
    SeqMod,      \* size of the sequence space
    max_missed,  \* heartbeats that may be missed: 3
    Lifetime,    \* bound: ticks that a datagram or a silence may last
    MaxTicks,    \* bound: ticks in all
    None

ASSUME HeartbeatAssumption ==
    /\ SeqMod \in Nat /\ Lifetime \in Nat /\ Lifetime <= (SeqMod - 1) \div 2
    /\ max_missed \in Nat /\ max_missed < Lifetime
    /\ None \notin Nat
    /\ MaxTicks \in Nat

VARIABLES
    active,          \* addresses of active connections
    present,         \* clients whose receiver thread is running
    send_seq,        \* number of the latest heartbeat
    last_acked_seq,  \* number of the most recent heartbeat acknowledged, or None
    alive,           \* what check_alive returned last: a warning unless TRUE
    heartbeats,      \* datagrams to clients
    acks,            \* datagrams to the host
    \* history
    ticks,           \* send_seq without the wrap
    heard,           \* per address, the latest tick it has acknowledged, or 0
    unheard          \* per address, the heartbeats sent to it since that one

vars == <<active, present, send_seq, last_acked_seq, alive, heartbeats, acks, ticks, heard, unheard>>

latest == Max({heard[a] : a \in Addrs} \cup {0})

Datagram(a) == [addr |-> a, seq |-> send_seq', n |-> ticks']

Init ==
    /\ active = {} /\ present = Addrs
    /\ send_seq = 0 /\ last_acked_seq = None /\ alive = TRUE
    /\ heartbeats = {} /\ acks = {}
    /\ ticks = 0
    /\ heard = [a \in Addrs |-> 0] /\ unheard = [a \in Addrs |-> {}]
-----------------------------------------------------------------------------
Sub(x, y) == (x + SeqMod - y) % SeqMod    \* wrapping_sub

\* Mutant of check_alive: one more may be missed.
check_aliveOneMore(seq, acked) == (IF acked = None THEN seq ELSE Sub(seq, acked)) <= max_missed + 1

\* Not more than max_missed heartbeats since the last one acknowledged.
check_alive(seq, acked) == (IF acked = None THEN seq ELSE Sub(seq, acked)) <= max_missed

\* Mutant of tick: no wrap-around.
tickUnwrapped == send_seq' = send_seq + 1

tick == send_seq' = (send_seq + 1) % SeqMod

\* Mutant of Newer: plain comparison.
NewerUnwrapped(seq, acked) == acked = None \/ seq > acked

\* seq is more recent than the heartbeat acknowledged last.
Newer(seq, acked) ==
    \/ acked = None
    \/ Sub(seq, acked) > 0 /\ Sub(seq, acked) <= (SeqMod - 1) \div 2

\* Handshake, disconnect, and the end of a client.
Join(a) ==
    /\ active' = active \cup {a}
    /\ UNCHANGED <<present, send_seq, last_acked_seq, alive, heartbeats, acks, ticks, heard, unheard>>

Leave(a) ==
    /\ active' = active \ {a}
    /\ UNCHANGED <<present, send_seq, last_acked_seq, alive, heartbeats, acks, ticks, heard, unheard>>

Vanish(a) ==
    /\ present' = present \ {a}
    /\ UNCHANGED <<active, send_seq, last_acked_seq, alive, heartbeats, acks, ticks, heard, unheard>>

\* The interval has elapsed: a heartbeat to every active client, and a look at
\* whether one was acknowledged recently.
Tick ==
    /\ ticks < MaxTicks
    /\ ticks - latest < Lifetime
    /\ \A m \in heartbeats \cup acks : ticks - m.n < Lifetime
    /\ tick
    /\ ticks' = ticks + 1
    /\ heartbeats' = heartbeats \cup {Datagram(a) : a \in active}
    /\ unheard' = [a \in Addrs |-> IF a \in active THEN unheard[a] \cup {ticks'} ELSE unheard[a]]
    /\ alive' = check_alive(send_seq', last_acked_seq)
    /\ UNCHANGED <<active, present, last_acked_seq, acks, heard>>

\* A client's receiver answers a heartbeat with the heartbeat's number.
Acknowledge(m) ==
    /\ m.addr \in present
    /\ heartbeats' = heartbeats \ {m}
    /\ acks' = acks \cup {m}
    /\ UNCHANGED <<active, present, send_seq, last_acked_seq, alive, ticks, heard, unheard>>

\* The host receives an acknowledgement, of whichever client; the network may
\* keep a copy.
received_ack(m) ==
    /\ acks' \in {acks \ {m}, acks}
    /\ last_acked_seq' = IF Newer(m.seq, last_acked_seq) THEN m.seq ELSE last_acked_seq
    /\ heard' = [heard EXCEPT ![m.addr] = Max({@, m.n})]
    /\ unheard' = [unheard EXCEPT ![m.addr] = {n \in @ : n > m.n}]
    /\ UNCHANGED <<active, present, send_seq, alive, heartbeats, ticks>>

Lose ==
    /\ \/ \E m \in heartbeats : heartbeats' = heartbeats \ {m} /\ acks' = acks
       \/ \E m \in acks : acks' = acks \ {m} /\ heartbeats' = heartbeats
    /\ UNCHANGED <<active, present, send_seq, last_acked_seq, alive, ticks, heard, unheard>>

Next ==
    \/ Tick \/ Lose
    \/ \E a \in Addrs : Join(a) \/ Leave(a) \/ Vanish(a)
    \/ \E m \in heartbeats : Acknowledge(m)
    \/ \E m \in acks : received_ack(m)

Spec == Init /\ [][Next]_vars
-----------------------------------------------------------------------------
(* Properties. *)

\* Type invariant.
TypeOK ==
    /\ active \subseteq Addrs /\ present \subseteq Addrs
    /\ send_seq \in 0 .. SeqMod - 1
    /\ last_acked_seq \in (0 .. SeqMod - 1) \cup {None}
    /\ alive \in BOOLEAN
    /\ heartbeats \cup acks \subseteq [addr : Addrs, seq : 0 .. SeqMod - 1, n : 1 .. ticks]
    /\ heard \in [Addrs -> 0 .. ticks]
    /\ unheard \in [Addrs -> SUBSET (1 .. ticks)]
    /\ \A a \in Addrs : unheard[a] \subseteq heard[a] + 1 .. ticks

\* last_acked_seq is the most recent heartbeat acknowledged, whatever order
\* acknowledgements arrive in and wherever the counter wraps; and so the check
\* of a tick counts exactly the ticks since then (host/src/net.rs 356-382).
AckedIsLatest ==
    /\ last_acked_seq = IF latest = 0 THEN None ELSE latest % SeqMod
    /\ check_alive(send_seq, last_acked_seq) <=> ticks - latest <= max_missed

\* "Tracks heartbeat state for a single connection and determines whether the
\* peer is still alive" (host/src/net.rs 313): while its only client has left more
\* than max_missed heartbeats unanswered, the host warns.  (With several clients,
\* one that answers hides the silence of the others.)
SilenceNoticed ==
    alive => \A a \in active : Cardinality(unheard[a]) <= max_missed
=============================================================================
