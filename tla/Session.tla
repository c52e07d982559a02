------------------------------- MODULE Session -------------------------------
(***************************************************************************)
(* The life of a session: the client's window and its connection state     *)
(* (client/src/ui.rs), the handshake thread (HandshakeClient) and receiver *)
(* threads (run_frame_receiver) it starts, and the ConnectionManager of    *)
(* each host (host/src/net.rs), over UDP.                                  *)
(*                                                                         *)
(* A session is identified by its socket, numbered so that two sessions on *)
(* the same port can be told apart; a host knows only the port.  Datagrams *)
(* are kept in sets: they may overtake one another, and may be lost when   *)
(* Lossy.  Frame chunks and heartbeats, which a host sends unasked to its  *)
(* active clients, are one kind of message here.                           *)
(***************************************************************************)
EXTENDS Naturals, FiniteSets

CONSTANTS
    Hosts,        \* machines running the host service
    Ports,        \* ephemeral ports of the client's machine
    MaxSessions,  \* bound: how often the client connects
    MaxFaults,    \* bound: restarts of the client and of hosts
    Lossy,        \* may datagrams be lost?
    None

ASSUME SessionAssumption ==
    /\ MaxSessions \in Nat /\ MaxFaults \in Nat
    /\ Lossy \in BOOLEAN
    /\ None \notin {"ok", "err"}
    /\ \A n \in 0 .. MaxSessions, h \in Hosts, p \in Ports :
          None # [id |-> n, host |-> h, port |-> p]

VARIABLES
    \* the client process
    app,               \* AppState
    client,            \* the window's socket, or None
    handshakes,        \* handshake threads: [pc, sock]
    handshake_result,  \* "ok", "err" or None
    receivers,         \* sockets on which a receiver thread is running
    frame_buffer,      \* the session whose picture is in the shared buffer, or None
    texture,           \* the session whose picture the window shows, or None
    sessions,          \* history: the sockets created so far
    \* the network
    up,                \* datagrams on their way to hosts
    down,              \* datagrams on their way to the client's machine
    \* the hosts
    pending,           \* pending[h]: ports awaiting their Confirm
    active,            \* active[h]: ports with an active connection
    faults             \* restarts so far

ui == <<app, client, handshake_result, texture, sessions>>
clientVars == <<app, client, handshakes, handshake_result, receivers, frame_buffer, texture, sessions>>
hostVars == <<pending, active>>
vars == <<app, client, handshakes, handshake_result, receivers, frame_buffer, texture, sessions,
          up, down, pending, active, faults>>

Socket == [id : 1 .. MaxSessions, host : Hosts, port : Ports]

ToHost(type, s) == [type |-> type, host |-> s.host, port |-> s.port]
ToClient(type, h, p) == [type |-> type, host |-> h, port |-> p]

\* The datagram is addressed to this connected socket.
For(m, s) == m.host = s.host /\ m.port = s.port

\* A socket stays open as long as the window or a thread holds its Arc.
OpenSockets == ({client} \ {None}) \cup {t.sock : t \in handshakes} \cup receivers

Init ==
    /\ app = "Disconnected" /\ client = None /\ handshakes = {} /\ handshake_result = None
    /\ receivers = {} /\ frame_buffer = None /\ texture = None /\ sessions = {}
    /\ up = {} /\ down = {}
    /\ pending = [h \in Hosts |-> {}] /\ active = [h \in Hosts |-> {}]
    /\ faults = 0
-----------------------------------------------------------------------------
(* The window (RemoteControlApp), all on one thread. *)

\* The connect button, or auto_connect: a new socket on a free port, and a
\* thread that performs the handshake on it.
start_connect(h, p) ==
    /\ app = "Disconnected"
    /\ Cardinality(sessions) < MaxSessions
    /\ \A s \in OpenSockets : s.port # p
    /\ LET s == [id |-> Cardinality(sessions) + 1, host |-> h, port |-> p] IN
         /\ client' = s /\ sessions' = sessions \cup {s}
         /\ handshakes' = handshakes \cup {[pc |-> "request", sock |-> s]}
    /\ app' = "Connecting"
    /\ UNCHANGED <<handshake_result, receivers, frame_buffer, texture, up, down, hostVars, faults>>

\* No socket can be created for this address.
start_connect_fails ==
    /\ app = "Disconnected"
    /\ app' = "Error"
    /\ UNCHANGED <<client, handshakes, handshake_result, receivers, frame_buffer, texture,
                   sessions, up, down, hostVars, faults>>

\* Mutants of TakeResult: the socket is cleared before the receiver is started on
\* it; the socket is kept after an error.
TakeResultClearsFirst ==
    /\ handshake_result # None /\ handshake_result' = None
    /\ app' = IF handshake_result = "ok" THEN "Connected" ELSE "Error"
    /\ client' = None /\ receivers' = receivers \cup {None}
    /\ UNCHANGED <<handshakes, frame_buffer, texture, sessions, up, down, hostVars, faults>>

TakeResultKeepsSocket ==
    /\ handshake_result # None /\ handshake_result' = None
    /\ app' = IF handshake_result = "ok" THEN "Connected" ELSE "Error"
    /\ client' = client
    /\ receivers' = IF handshake_result = "ok" THEN receivers \cup {client} ELSE receivers
    /\ UNCHANGED <<handshakes, frame_buffer, texture, sessions, up, down, hostVars, faults>>

\* update() takes the handshake's result, whichever thread left it.
TakeResult ==
    /\ handshake_result # None
    /\ handshake_result' = None
    /\ IF handshake_result = "ok"
         THEN /\ app' = "Connected" /\ client' = client
              /\ receivers' = receivers \cup ({client} \ {None})
         ELSE /\ app' = "Error" /\ client' = None
              /\ receivers' = receivers
    /\ UNCHANGED <<handshakes, frame_buffer, texture, sessions, up, down, hostVars, faults>>

\* Mutant of disconnect: also while connecting.
disconnectEarly ==
    /\ app \in {"Connecting", "Connected"}
    /\ app' = "Disconnected"
    /\ client' = None /\ texture' = None /\ handshake_result' = None /\ frame_buffer' = None
    /\ UNCHANGED <<handshakes, receivers, sessions, up, down, hostVars, faults>>

\* The cross in the remote window.  No Teardown is sent, and nothing tells the
\* receiver thread to stop.
disconnect ==
    /\ app = "Connected"
    /\ app' = "Disconnected"
    /\ client' = None /\ texture' = None /\ handshake_result' = None /\ frame_buffer' = None
    /\ UNCHANGED <<handshakes, receivers, sessions, up, down, hostVars, faults>>

\* The "back" button of the error panel.
BackToPanel ==
    /\ app = "Error"
    /\ app' = "Disconnected"
    /\ UNCHANGED <<client, handshakes, handshake_result, receivers, frame_buffer, texture,
                   sessions, up, down, hostVars, faults>>

\* The remote window takes the picture from the buffer.
update_remote_texture ==
    /\ app = "Connected" /\ frame_buffer # None
    /\ texture' = frame_buffer /\ frame_buffer' = None
    /\ UNCHANGED <<app, client, handshakes, handshake_result, receivers, sessions,
                   up, down, hostVars, faults>>
-----------------------------------------------------------------------------
(* A handshake thread: perform_handshake. *)

SendRequest(t) ==
    /\ t.pc = "request"
    /\ up' = up \cup {ToHost("Request", t.sock)}
    /\ handshakes' = (handshakes \ {t}) \cup {[t EXCEPT !.pc = "await"]}
    /\ UNCHANGED <<ui, receivers, frame_buffer, down, hostVars, faults>>

\* Exactly one message is received: if it is not the host's Capabilities the
\* handshake has failed.
ReceiveResponse(t, m) ==
    /\ t.pc = "await" /\ For(m, t.sock)
    /\ down' = down \ {m}
    /\ IF m.type = "Capabilities"
         THEN /\ handshakes' = (handshakes \ {t}) \cup {[t EXCEPT !.pc = "confirm"]}
              /\ handshake_result' = handshake_result
         ELSE /\ handshakes' = handshakes \ {t}
              /\ handshake_result' = "err"
    /\ UNCHANGED <<app, client, texture, sessions, receivers, frame_buffer, up, hostVars, faults>>

\* The Confirm is sent; nothing is awaited in return.
SendConfirm(t) ==
    /\ t.pc = "confirm"
    /\ up' = up \cup {ToHost("Confirm", t.sock)}
    /\ handshakes' = handshakes \ {t}
    /\ handshake_result' = "ok"
    /\ UNCHANGED <<app, client, texture, sessions, receivers, frame_buffer, down, hostVars, faults>>

\* Mutant of HandshakeFails: the error is not reported to the window.
HandshakeFailsSilently(t) ==
    /\ handshakes' = handshakes \ {t}
    /\ UNCHANGED <<ui, receivers, frame_buffer, up, down, hostVars, faults>>

\* A send fails, or nothing arrives within 300 ms.
HandshakeFails(t) ==
    /\ handshakes' = handshakes \ {t}
    /\ handshake_result' = "err"
    /\ UNCHANGED <<app, client, texture, sessions, receivers, frame_buffer, up, down, hostVars, faults>>

Handshake(t) == SendRequest(t) \/ SendConfirm(t) \/ HandshakeFails(t)
                \/ \E m \in down : ReceiveResponse(t, m)
-----------------------------------------------------------------------------
(* A receiver thread: run_frame_receiver. *)

\* A heartbeat or a chunk, which may complete a frame; anything else is ignored.
ReceiveDatagram(s, m) ==
    /\ For(m, s)
    /\ down' = down \ {m}
    /\ frame_buffer' \in {frame_buffer, IF m.type = "Frame" THEN s ELSE frame_buffer}
    /\ UNCHANGED <<ui, handshakes, receivers, up, hostVars, faults>>

\* A permanent socket error ends the thread; the window is not told.
ReceiverExits(s) ==
    /\ receivers' = receivers \ {s}
    /\ UNCHANGED <<ui, handshakes, frame_buffer, up, down, hostVars, faults>>
-----------------------------------------------------------------------------
(* A host: ConnectionManager::handle_message, and the senders of frames.   *)

\* Mutant of HostRequest: what the address left behind is not cleared.
HostRequestKeepsActive(m) ==
    /\ m.type = "Request"
    /\ up' = up \ {m}
    /\ pending' = [pending EXCEPT ![m.host] = @ \cup {m.port}]
    /\ down' = down \cup {ToClient("Capabilities", m.host, m.port)}
    /\ UNCHANGED <<clientVars, active, faults>>

\* Mutant of HostRequest: the address is told, and not recorded.
HostRequestUnrecorded(m) ==
    /\ m.type = "Request"
    /\ up' = up \ {m}
    /\ active' = [active EXCEPT ![m.host] = @ \ {m.port}]
    /\ down' = down \cup {ToClient("Capabilities", m.host, m.port)}
    /\ UNCHANGED <<clientVars, pending, faults>>

\* A Request first clears what the same address may have left behind, as
\* handle_disconnect does.  (It is also what a Teardown does, but no client
\* sends one.)
HostRequest(m) ==
    /\ m.type = "Request"
    /\ up' = up \ {m}
    /\ pending' = [pending EXCEPT ![m.host] = @ \cup {m.port}]
    /\ active' = [active EXCEPT ![m.host] = @ \ {m.port}]
    /\ down' = down \cup {ToClient("Capabilities", m.host, m.port)}
    /\ UNCHANGED <<clientVars, faults>>

\* A Confirm activates its sender, pending or not.
HostConfirm(m) ==
    /\ m.type = "Confirm"
    /\ up' = up \ {m}
    /\ active' = [active EXCEPT ![m.host] = @ \cup {m.port}]
    /\ pending' = [pending EXCEPT ![m.host] = @ \ {m.port}]
    /\ UNCHANGED <<clientVars, down, faults>>

HostSendsFrame(h, p) ==
    /\ p \in active[h]
    /\ down' = down \cup {ToClient("Frame", h, p)}
    /\ UNCHANGED <<clientVars, up, hostVars, faults>>
-----------------------------------------------------------------------------
(* Faults. *)

\* A datagram is lost, or arrives at a port that is not open to its sender.
Drop ==
    /\ \/ \E m \in up : Lossy /\ up' = up \ {m} /\ down' = down
       \/ \E m \in down : /\ Lossy \/ \A s \in OpenSockets : ~ For(m, s)
                          /\ down' = down \ {m} /\ up' = up
    /\ UNCHANGED <<clientVars, hostVars, faults>>

\* The client process ends and is started again.
ClientRestart ==
    /\ faults < MaxFaults /\ faults' = faults + 1
    /\ app' = "Disconnected" /\ client' = None /\ handshakes' = {} /\ handshake_result' = None
    /\ receivers' = {} /\ frame_buffer' = None /\ texture' = None
    /\ UNCHANGED <<sessions, up, down, hostVars>>

HostRestart(h) ==
    /\ faults < MaxFaults /\ faults' = faults + 1
    /\ pending' = [pending EXCEPT ![h] = {}]
    /\ active' = [active EXCEPT ![h] = {}]
    /\ UNCHANGED <<clientVars, up, down>>
-----------------------------------------------------------------------------
HostReceives == \E m \in up : HostRequest(m) \/ HostConfirm(m)

Next ==
    \/ \E h \in Hosts, p \in Ports : start_connect(h, p) \/ HostSendsFrame(h, p)
    \/ start_connect_fails \/ TakeResult \/ disconnect \/ BackToPanel \/ update_remote_texture
    \/ \E t \in handshakes : Handshake(t)
    \/ \E s \in receivers : ReceiverExits(s) \/ \E m \in down : ReceiveDatagram(s, m)
    \/ HostReceives
    \/ Drop \/ ClientRestart \/ \E h \in Hosts : HostRestart(h)

Spec == Init /\ [][Next]_vars

\* The window repaints while connecting, the threads run, the hosts read their
\* sockets.  A host does not have to send frames, nor the user to do anything.
Fairness ==
    /\ WF_vars(TakeResult)
    /\ WF_vars(\E t \in handshakes : Handshake(t))
    /\ \A h \in Hosts, p \in Ports : WF_vars(\E m \in up :
          m.host = h /\ m.port = p /\ (HostRequest(m) \/ HostConfirm(m)))

FairSpec == Spec /\ Fairness
-----------------------------------------------------------------------------
(* Properties. *)

\* Type invariant.
TypeOK ==
    /\ app \in {"Disconnected", "Connecting", "Connected", "Error"}
    /\ client \in Socket \cup {None}
    /\ handshakes \subseteq [pc : {"request", "await", "confirm"}, sock : Socket]
    /\ handshake_result \in {"ok", "err", None}
    /\ receivers \subseteq Socket
    /\ frame_buffer \in Socket \cup {None}
    /\ texture \in Socket \cup {None}
    /\ sessions \subseteq Socket /\ Cardinality(sessions) <= MaxSessions
    /\ up \subseteq [type : {"Request", "Confirm"}, host : Hosts, port : Ports]
    /\ down \subseteq [type : {"Capabilities", "Frame"}, host : Hosts, port : Ports]
    /\ pending \in [Hosts -> SUBSET Ports]
    /\ active \in [Hosts -> SUBSET Ports]
    /\ faults \in 0 .. MaxFaults

\* A handshake thread is running, or its result is waiting to be taken, exactly
\* while the window says it is connecting, never two at a time; and it works on
\* the window's own socket.  So a result is never taken for another session's,
\* although results carry no session.
OneHandshake ==
    /\ Cardinality(handshakes) + (IF handshake_result = None THEN 0 ELSE 1)
         = (IF app = "Connecting" THEN 1 ELSE 0)
    /\ \A t \in handshakes : t.sock = client

\* The window has a socket exactly while it is connecting or connected.
ClientSocket == client # None <=> app \in {"Connecting", "Connected"}

\* A port is not both pending and active at a host, whatever was lost, delayed or
\* restarted (net.rs 239-262).
PendingOrActive == \A h \in Hosts : pending[h] \cap active[h] = {}

\* The host has an entry for the port.
Recorded(h, p) == p \in pending[h] \cup active[h]

\* A window that says it is connected has an entry at its host, active or waiting for
\* the Confirm, whatever was lost, delayed or left over from earlier sessions, unless
\* the host was restarted: the client sends its Confirm once and awaits nothing
\* (client/src/net.rs 205), so all a loss can leave behind is the pending entry, which
\* the host never gives up (host/src/net.rs 239).
KnownToHost == app = "Connected" /\ faults = 0 => Recorded(client.host, client.port)

\* The window does not stay at "connecting", whatever is lost: the thread always
\* leaves a result and the window always takes it (ui.rs 108-138, 592-640).
ConnectingEnds == app = "Connecting" ~> app # "Connecting"

\* "Clears session data and prepares for new connection" (docs/HOST_CLIENT_FLOW.md
\* 74): the window never shows the picture of an earlier session.
OwnPicture == texture # None => texture = client
=============================================================================
