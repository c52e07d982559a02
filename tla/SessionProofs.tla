---------------------------- MODULE SessionProofs ----------------------------
(***************************************************************************)
(* Proofs about Session for every number of hosts, ports, sessions and     *)
(* restarts, with and without loss.  Inv adds to the types what makes the  *)
(* properties inductive: the three situations of the window's handshake    *)
(* (Phases), with the thread named instead of counted.                     *)
(***************************************************************************)
EXTENDS Session, FiniteSetTheorems, TLAPS

Types ==
    /\ app \in {"Disconnected", "Connecting", "Connected", "Error"}
    /\ client \in Socket \cup {None}
    /\ handshakes \subseteq [pc : {"request", "await", "confirm"}, sock : Socket]
    /\ handshake_result \in {"ok", "err", None}
    /\ receivers \subseteq Socket
    /\ frame_buffer \in Socket \cup {None}
    /\ texture \in Socket \cup {None}
    /\ up \subseteq [type : {"Request", "Confirm"}, host : Hosts, port : Ports]
    /\ down \subseteq [type : {"Capabilities", "Frame"}, host : Hosts, port : Ports]
    /\ pending \in [Hosts -> SUBSET Ports]
    /\ active \in [Hosts -> SUBSET Ports]
    /\ faults \in 0 .. MaxFaults

Numbered ==
    /\ sessions \subseteq Socket /\ IsFiniteSet(sessions)
    /\ Cardinality(sessions) <= MaxSessions

\* A thread works on the window's socket; or its result is there; or there is neither.
Phases ==
    \/ /\ app = "Connecting" /\ handshake_result = None
       /\ \E t \in handshakes : handshakes = {t} /\ t.sock = client
    \/ app = "Connecting" /\ handshake_result # None /\ handshakes = {}
    \/ app # "Connecting" /\ handshake_result = None /\ handshakes = {}

\* Unless there was a restart, whoever was offered Capabilities has an entry at the host:
\* a datagram on its way, a thread about to confirm, a window.
Offered ==
    faults = 0 =>
        /\ \A m \in down : m.type = "Capabilities" => Recorded(m.host, m.port)
        /\ \A t \in handshakes : t.pc = "confirm" => Recorded(t.sock.host, t.sock.port)
        /\ handshake_result = "ok" \/ app = "Connected" => Recorded(client.host, client.port)

Inv == Types /\ Numbered /\ Phases /\ ClientSocket /\ PendingOrActive /\ Offered
-----------------------------------------------------------------------------
LEMMA SocketNotNone == \A s \in Socket : s # None
  BY SessionAssumption DEF Socket

\* A socket that start_connect creates.
LEMMA NewSocket ==
    ASSUME Numbered, Cardinality(sessions) < MaxSessions, NEW h \in Hosts, NEW p \in Ports
    PROVE  LET s == [id |-> Cardinality(sessions) + 1, host |-> h, port |-> p]
           IN  /\ s \in Socket
               /\ IsFiniteSet(sessions \cup {s})
               /\ Cardinality(sessions \cup {s}) <= MaxSessions
<1> DEFINE s == [id |-> Cardinality(sessions) + 1, host |-> h, port |-> p]
<1>1. Cardinality(sessions) \in Nat /\ MaxSessions \in Nat
  BY FS_CardinalityType, SessionAssumption DEF Numbered
<1>2. Cardinality(sessions) + 1 \in 1 .. MaxSessions
  BY <1>1
<1>3. s \in Socket
  BY <1>2 DEF Socket
<1>4. /\ IsFiniteSet(sessions \cup {s})
      /\ Cardinality(sessions \cup {s}) \in {Cardinality(sessions), Cardinality(sessions) + 1}
  <2> HIDE DEF s
  <2> QED
    BY FS_AddElement DEF Numbered
<1> QED
  BY <1>1, <1>3, <1>4

LEMMA Initially == Init => Inv
<1> SUFFICES ASSUME Init PROVE Inv
  OBVIOUS
<1>1. IsFiniteSet(sessions) /\ Cardinality(sessions) = 0
  BY FS_EmptySet DEF Init
<1> QED
  BY <1>1, SessionAssumption
     DEF Init, Inv, Types, Numbered, Phases, ClientSocket, PendingOrActive, Offered
-----------------------------------------------------------------------------
\* Every step keeps the types.
LEMMA TypesKept ==
    ASSUME Inv, [Next]_vars
    PROVE  Types'
<1> USE DEF Inv, Types
<1>1. ASSUME NEW h \in Hosts, NEW p \in Ports, start_connect(h, p) PROVE Types'
  <2> DEFINE s == [id |-> Cardinality(sessions) + 1, host |-> h, port |-> p]
  <2>1. s \in Socket
    BY <1>1, NewSocket DEF start_connect
  <2>2. [pc |-> "request", sock |-> s] \in [pc : {"request", "await", "confirm"}, sock : Socket]
    BY <2>1
  <2> QED
    BY <1>1, <2>1, <2>2 DEF start_connect, hostVars
<1>2. ASSUME NEW h \in Hosts, NEW p \in Ports, HostSendsFrame(h, p) PROVE Types'
  BY <1>2 DEF HostSendsFrame, clientVars, hostVars, ToClient
<1>3. CASE start_connect_fails
  BY <1>3 DEF start_connect_fails, hostVars
<1>4. CASE TakeResult
  BY <1>4 DEF TakeResult, hostVars
<1>5. CASE disconnect
  BY <1>5 DEF disconnect, hostVars
<1>6. CASE BackToPanel
  BY <1>6 DEF BackToPanel, hostVars
<1>7. CASE update_remote_texture
  BY <1>7 DEF update_remote_texture, hostVars
<1>8. ASSUME NEW t \in handshakes, SendRequest(t) PROVE Types'
  BY <1>8 DEF SendRequest, ui, hostVars, ToHost, Socket
<1>9. ASSUME NEW t \in handshakes, SendConfirm(t) PROVE Types'
  BY <1>9 DEF SendConfirm, hostVars, ToHost, Socket
<1>10. ASSUME NEW t \in handshakes, HandshakeFails(t) PROVE Types'
  BY <1>10 DEF HandshakeFails, hostVars
<1>11. ASSUME NEW t \in handshakes, NEW m \in down, ReceiveResponse(t, m) PROVE Types'
  BY <1>11 DEF ReceiveResponse, hostVars
<1>12. ASSUME NEW s \in receivers, ReceiverExits(s) PROVE Types'
  BY <1>12 DEF ReceiverExits, ui, hostVars
<1>13. ASSUME NEW s \in receivers, NEW m \in down, ReceiveDatagram(s, m) PROVE Types'
  BY <1>13 DEF ReceiveDatagram, ui, hostVars
<1>14. ASSUME NEW m \in up, HostRequest(m) PROVE Types'
  BY <1>14 DEF HostRequest, clientVars, ToClient
<1>15. ASSUME NEW m \in up, HostConfirm(m) PROVE Types'
  BY <1>15 DEF HostConfirm, clientVars
<1>16. CASE Drop
  BY <1>16 DEF Drop, clientVars, hostVars
<1>17. CASE ClientRestart
  BY <1>17, SessionAssumption DEF ClientRestart, hostVars
<1>18. ASSUME NEW h \in Hosts, HostRestart(h) PROVE Types'
  BY <1>18, SessionAssumption DEF HostRestart, clientVars
<1>19. CASE UNCHANGED vars
  BY <1>19 DEF vars
<1> QED
  BY <1>1, <1>2, <1>3, <1>4, <1>5, <1>6, <1>7, <1>8, <1>9, <1>10, <1>11, <1>12, <1>13,
     <1>14, <1>15, <1>16, <1>17, <1>18, <1>19 DEF Next, Handshake, HostReceives

\* Only start_connect numbers a session.
LEMMA NumberedKept ==
    ASSUME Inv, [Next]_vars
    PROVE  Numbered'
<1>1. ASSUME NEW h \in Hosts, NEW p \in Ports, start_connect(h, p) PROVE Numbered'
  BY <1>1, NewSocket DEF start_connect, Inv, Numbered
<1>2. CASE UNCHANGED sessions
  BY <1>2 DEF Inv, Numbered
<1>3. (\E h \in Hosts, p \in Ports : start_connect(h, p)) \/ UNCHANGED sessions
  BY DEF Next, Handshake, HostReceives, vars, ui, clientVars, HostSendsFrame, start_connect_fails,
         TakeResult, disconnect, BackToPanel, update_remote_texture, SendRequest, SendConfirm,
         HandshakeFails, ReceiveResponse, ReceiverExits, ReceiveDatagram, HostRequest,
         HostConfirm, Drop, ClientRestart, HostRestart
<1> QED
  BY <1>1, <1>2, <1>3

\* One handshake at a time, on the window's socket, and a socket only while there is
\* a use for it.
LEMMA PhasesKept ==
    ASSUME Inv, [Next]_vars
    PROVE  Phases' /\ ClientSocket'
<1> USE SessionAssumption, SocketNotNone DEF Inv, Types, Phases, ClientSocket
<1>1. ASSUME NEW h \in Hosts, NEW p \in Ports, start_connect(h, p) PROVE Phases' /\ ClientSocket'
  <2> DEFINE s == [id |-> Cardinality(sessions) + 1, host |-> h, port |-> p]
  <2>1. s # None
    BY <1>1, NewSocket DEF start_connect
  <2> HIDE DEF s
  <2>2. /\ client' = s /\ app' = "Connecting" /\ handshake_result' = None
        /\ handshakes' = {[pc |-> "request", sock |-> s]}
    BY <1>1 DEF start_connect, s
  <2> QED
    BY <2>1, <2>2
<1>2. CASE UNCHANGED <<app, client, handshakes, handshake_result>>
  BY <1>2
<1>3. CASE start_connect_fails
  BY <1>3 DEF start_connect_fails
<1>4. CASE TakeResult
  BY <1>4 DEF TakeResult
<1>5. CASE disconnect
  BY <1>5 DEF disconnect
<1>6. CASE BackToPanel
  BY <1>6 DEF BackToPanel
<1>7. ASSUME NEW t \in handshakes, SendRequest(t) PROVE Phases' /\ ClientSocket'
  <2>1. handshakes = {t} /\ t.sock = client /\ app = "Connecting" /\ handshake_result = None
    OBVIOUS
  <2>2. handshakes' = {[t EXCEPT !.pc = "await"]} /\ [t EXCEPT !.pc = "await"].sock = t.sock
    BY <1>7, <2>1 DEF SendRequest
  <2> QED
    BY <1>7, <2>1, <2>2 DEF SendRequest, ui
<1>8. ASSUME NEW t \in handshakes, SendConfirm(t) \/ HandshakeFails(t) PROVE Phases' /\ ClientSocket'
  BY <1>8 DEF SendConfirm, HandshakeFails
<1>9. ASSUME NEW t \in handshakes, NEW m \in down, ReceiveResponse(t, m)
      PROVE  Phases' /\ ClientSocket'
  <2>1. handshakes = {t} /\ t.sock = client /\ app = "Connecting" /\ handshake_result = None
    OBVIOUS
  <2>2. CASE m.type = "Capabilities"
    <3>1. handshakes' = {[t EXCEPT !.pc = "confirm"]} /\ [t EXCEPT !.pc = "confirm"].sock = t.sock
      BY <1>9, <2>1, <2>2 DEF ReceiveResponse
    <3> QED
      BY <1>9, <2>1, <2>2, <3>1 DEF ReceiveResponse
  <2>3. CASE m.type # "Capabilities"
    BY <1>9, <2>1, <2>3 DEF ReceiveResponse
  <2> QED
    BY <2>2, <2>3
<1>10. CASE ClientRestart
  BY <1>10 DEF ClientRestart
<1>11. \/ UNCHANGED <<app, client, handshakes, handshake_result>>
       \/ \E h \in Hosts, p \in Ports : start_connect(h, p)
       \/ start_connect_fails \/ TakeResult \/ disconnect \/ BackToPanel \/ ClientRestart
       \/ \E t \in handshakes : \/ SendRequest(t) \/ SendConfirm(t) \/ HandshakeFails(t)
                                \/ \E m \in down : ReceiveResponse(t, m)
  BY DEF Next, Handshake, HostReceives, vars, ui, clientVars, HostSendsFrame,
         update_remote_texture, ReceiverExits, ReceiveDatagram, HostRequest, HostConfirm, Drop,
         HostRestart
<1> QED
  BY <1>1, <1>2, <1>3, <1>4, <1>5, <1>6, <1>7, <1>8, <1>9, <1>10, <1>11

\* Only a host's own messages and its restart change what it knows of a port.
LEMMA PortsKept ==
    ASSUME Inv, [Next]_vars
    PROVE  PendingOrActive'
<1> USE DEF Inv, Types, PendingOrActive
<1>1. ASSUME NEW m \in up, HostRequest(m) PROVE PendingOrActive'
  BY <1>1 DEF HostRequest
<1>2. ASSUME NEW m \in up, HostConfirm(m) PROVE PendingOrActive'
  BY <1>2 DEF HostConfirm
<1>3. ASSUME NEW h \in Hosts, HostRestart(h) PROVE PendingOrActive'
  BY <1>3 DEF HostRestart
<1>4. CASE UNCHANGED hostVars
  BY <1>4 DEF hostVars
<1>5. \/ UNCHANGED hostVars \/ \E h \in Hosts : HostRestart(h)
      \/ \E m \in up : HostRequest(m) \/ HostConfirm(m)
  BY DEF Next, Handshake, HostReceives, vars, hostVars, start_connect, HostSendsFrame,
         start_connect_fails, TakeResult, disconnect, BackToPanel, update_remote_texture,
         SendRequest, SendConfirm, HandshakeFails, ReceiveResponse, ReceiverExits,
         ReceiveDatagram, Drop, ClientRestart
<1> QED
  BY <1>1, <1>2, <1>3, <1>4, <1>5

\* A host gives up an entry only when it is restarted.
LEMMA EntriesStay ==
    ASSUME Inv, [Next]_vars, faults' = 0
    PROVE  /\ faults = 0
           /\ \A h \in Hosts, p \in Ports : Recorded(h, p) => Recorded(h, p)'
<1> USE DEF Inv, Types, Recorded
<1>1. ASSUME NEW m \in up, HostRequest(m)
      PROVE  faults = 0 /\ \A h \in Hosts, p \in Ports : Recorded(h, p) => Recorded(h, p)'
  BY <1>1 DEF HostRequest
<1>2. ASSUME NEW m \in up, HostConfirm(m)
      PROVE  faults = 0 /\ \A h \in Hosts, p \in Ports : Recorded(h, p) => Recorded(h, p)'
  BY <1>2 DEF HostConfirm
<1>3. CASE UNCHANGED <<pending, active, faults>>
  BY <1>3
<1>4. \/ UNCHANGED <<pending, active, faults>>
      \/ faults' = faults + 1
      \/ \E m \in up : HostRequest(m) \/ HostConfirm(m)
  BY DEF Next, Handshake, HostReceives, vars, ui, clientVars, hostVars, start_connect,
         HostSendsFrame, start_connect_fails, TakeResult, disconnect, BackToPanel,
         update_remote_texture, SendRequest, SendConfirm, HandshakeFails, ReceiveResponse,
         ReceiverExits, ReceiveDatagram, Drop, ClientRestart, HostRestart
<1>5. faults' # faults + 1
  BY SessionAssumption
<1> QED
  BY <1>1, <1>2, <1>3, <1>4, <1>5

\* Capabilities are sent by a host that has made an entry, and what follows from them
\* is for the same port.
LEMMA OfferedKept ==
    ASSUME Inv, [Next]_vars
    PROVE  Offered'
<1> SUFFICES ASSUME faults' = 0
             PROVE  /\ \A m \in down' : m.type = "Capabilities" => Recorded(m.host, m.port)'
                    /\ \A t \in handshakes' : t.pc = "confirm" => Recorded(t.sock.host, t.sock.port)'
                    /\ handshake_result' = "ok" \/ app' = "Connected"
                          => Recorded(client.host, client.port)'
  BY DEF Offered
<1> DEFINE Stay == \A h \in Hosts, p \in Ports : Recorded(h, p) => Recorded(h, p)'
<1>1. faults = 0 /\ Stay
  BY EntriesStay
<1>2. ASSUME NEW m \in down', m.type = "Capabilities" PROVE Recorded(m.host, m.port)'
  <2>1. CASE m \in down
    <3>1. Recorded(m.host, m.port) /\ m.host \in Hosts /\ m.port \in Ports
      BY <1>1, <1>2, <2>1 DEF Inv, Types, Offered
    <3> QED
      BY <1>1, <3>1
  <2>2. ASSUME NEW r \in up, HostRequest(r) PROVE m \in down \/ Recorded(m.host, m.port)'
    <3>1. /\ r.host \in Hosts /\ r.port \in Ports
          /\ r.port \in pending'[r.host]
      BY <2>2 DEF HostRequest, Inv, Types
    <3>2. m \in down \/ (m.host = r.host /\ m.port = r.port)
      BY <2>2 DEF HostRequest, ToClient
    <3> QED
      BY <3>1, <3>2 DEF Recorded
  <2>3. ASSUME NEW h \in Hosts, NEW p \in Ports, HostSendsFrame(h, p) PROVE m \in down
    BY <1>2, <2>3 DEF HostSendsFrame, ToClient
  <2>4. \/ m \in down
        \/ \E r \in up : HostRequest(r)
        \/ \E h \in Hosts, p \in Ports : HostSendsFrame(h, p)
    BY DEF Next, Handshake, HostReceives, vars, start_connect, start_connect_fails, TakeResult,
           disconnect, BackToPanel, update_remote_texture, SendRequest, SendConfirm,
           HandshakeFails, ReceiveResponse, ReceiverExits, ReceiveDatagram, HostConfirm, Drop,
           ClientRestart, HostRestart
  <2> QED
    BY <2>1, <2>2, <2>3, <2>4
<1>3. ASSUME NEW t \in handshakes', t.pc = "confirm" PROVE Recorded(t.sock.host, t.sock.port)'
  <2>1. CASE t \in handshakes
    <3>1. /\ Recorded(t.sock.host, t.sock.port)
          /\ t.sock.host \in Hosts /\ t.sock.port \in Ports
      BY <1>1, <1>3, <2>1 DEF Inv, Types, Offered, Socket
    <3> QED
      BY <1>1, <3>1
  <2>2. ASSUME NEW h \in Hosts, NEW p \in Ports, start_connect(h, p) PROVE t \in handshakes
    BY <1>3, <2>2 DEF start_connect
  <2>3. ASSUME NEW u \in handshakes, SendRequest(u) PROVE t \in handshakes
    BY <1>3, <2>3 DEF SendRequest, Inv, Types
  <2>4. ASSUME NEW u \in handshakes, NEW m \in down, ReceiveResponse(u, m)
        PROVE  t \in handshakes \/ Recorded(t.sock.host, t.sock.port)'
    <3>1. CASE m.type = "Capabilities"
      <4>1. Recorded(m.host, m.port) /\ m.host \in Hosts /\ m.port \in Ports
        BY <1>1, <3>1 DEF Inv, Types, Offered
      <4>2. Recorded(m.host, m.port)'
        BY <1>1, <4>1
      <4>3. m.host = u.sock.host /\ m.port = u.sock.port
        BY <2>4 DEF ReceiveResponse, For
      <4>4. t \in handshakes \/ t.sock = u.sock
        BY <2>4, <3>1 DEF ReceiveResponse, Inv, Types
      <4> QED
        BY <4>2, <4>3, <4>4
    <3>2. CASE m.type # "Capabilities"
      BY <2>4, <3>2 DEF ReceiveResponse
    <3> QED
      BY <3>1, <3>2
  <2>5. \/ t \in handshakes
        \/ \E h \in Hosts, p \in Ports : start_connect(h, p)
        \/ \E u \in handshakes : SendRequest(u) \/ \E m \in down : ReceiveResponse(u, m)
    BY DEF Next, Handshake, HostReceives, vars, ui, clientVars, HostSendsFrame,
           start_connect_fails, TakeResult, disconnect, BackToPanel, update_remote_texture,
           SendConfirm, HandshakeFails, ReceiverExits, ReceiveDatagram, HostRequest,
           HostConfirm, Drop, ClientRestart, HostRestart
  <2> QED
    BY <2>1, <2>2, <2>3, <2>4, <2>5
<1>4. ASSUME handshake_result' = "ok" \/ app' = "Connected"
      PROVE  Recorded(client.host, client.port)'
  <2>1. ASSUME UNCHANGED client, client \in Socket, Recorded(client.host, client.port)
        PROVE  Recorded(client.host, client.port)'
    <3>1. client.host \in Hosts /\ client.port \in Ports
      BY <2>1 DEF Socket
    <3>2. client'.host = client.host /\ client'.port = client.port
      BY <2>1
    <3> QED
      BY <1>1, <2>1, <3>1, <3>2 DEF Recorded
  <2>2. ASSUME NEW t \in handshakes, SendConfirm(t)
        PROVE  UNCHANGED client /\ client \in Socket /\ Recorded(client.host, client.port)
    <3>1. t.sock = client /\ t.pc = "confirm" /\ t.sock \in Socket
      BY <2>2 DEF SendConfirm, Inv, Types, Phases
    <3> QED
      BY <1>1, <2>2, <3>1 DEF SendConfirm, Inv, Offered
  <2>3. ASSUME handshake_result = "ok" \/ app = "Connected", UNCHANGED client
        PROVE  UNCHANGED client /\ client \in Socket /\ Recorded(client.host, client.port)
    <3>1. client \in Socket
      BY <2>3, SessionAssumption DEF Inv, Types, Phases, ClientSocket
    <3> QED
      BY <1>1, <2>3, <3>1 DEF Inv, Offered
  <2>4. ASSUME TakeResult PROVE handshake_result = "ok" /\ UNCHANGED client
    BY <1>4, <2>4, SessionAssumption DEF TakeResult
  <2>5. ASSUME NEW t \in handshakes, NEW m \in down, ReceiveResponse(t, m)
        PROVE  (handshake_result = "ok" \/ app = "Connected") /\ UNCHANGED client
    BY <1>4, <2>5 DEF ReceiveResponse
  <2>6. \/ \E t \in handshakes : SendConfirm(t) \/ \E m \in down : ReceiveResponse(t, m)
        \/ TakeResult
        \/ (handshake_result = "ok" \/ app = "Connected") /\ UNCHANGED client
    <3>1. ASSUME NEW h \in Hosts, NEW p \in Ports, start_connect(h, p) PROVE FALSE
      BY <1>4, <3>1, SessionAssumption DEF start_connect, Inv, Phases
    <3>2. CASE start_connect_fails \/ disconnect \/ BackToPanel \/ ClientRestart
      BY <1>4, <3>2, SessionAssumption
         DEF start_connect_fails, disconnect, BackToPanel, ClientRestart, Inv, Phases
    <3>3. ASSUME NEW t \in handshakes, HandshakeFails(t) PROVE FALSE
      BY <1>4, <3>3 DEF HandshakeFails, Inv, Phases
    <3>4. CASE UNCHANGED <<app, client, handshake_result>>
      BY <1>4, <3>4
    <3>5. \/ \E h \in Hosts, p \in Ports : start_connect(h, p)
          \/ start_connect_fails \/ disconnect \/ BackToPanel \/ ClientRestart \/ TakeResult
          \/ \E t \in handshakes : HandshakeFails(t) \/ SendConfirm(t)
          \/ \E t \in handshakes, m \in down : ReceiveResponse(t, m)
          \/ UNCHANGED <<app, client, handshake_result>>
      BY DEF Next, Handshake, HostReceives, vars, ui, clientVars, HostSendsFrame,
             update_remote_texture, SendRequest, ReceiverExits, ReceiveDatagram, HostRequest,
             HostConfirm, Drop, HostRestart
    <3> QED
      BY <3>1, <3>2, <3>3, <3>4, <3>5
  <2> QED
    BY <2>1, <2>2, <2>3, <2>4, <2>5, <2>6
<1> QED
  BY <1>2, <1>3, <1>4
-----------------------------------------------------------------------------
THEOREM Invariance == Spec => []Inv
<1>1. Inv /\ [Next]_vars => Inv'
  BY TypesKept, NumberedKept, PhasesKept, PortsKept, OfferedKept DEF Inv
<1> QED
  BY Initially, <1>1, PTL DEF Spec

\* The window, its threads, the datagrams and what the hosts remember are well-typed
\* (the state of RemoteControlApp and of ConnectionManager).
THEOREM SessionTyping == Spec => []TypeOK
<1>1. Inv => TypeOK
  BY DEF Inv, Types, Numbered, TypeOK
<1> QED
  BY Invariance, <1>1, PTL

\* However connects, failures, disconnects and restarts follow one another, one
\* handshake at a time runs or has left a result, exactly while the window is
\* connecting, and it is the window's own (start_connect, update).
THEOREM SingleHandshake == Spec => []OneHandshake
<1>1. Inv => OneHandshake
  <2> SUFFICES ASSUME Inv PROVE OneHandshake
    OBVIOUS
  <2> USE DEF Inv, Phases, OneHandshake
  <2>1. CASE handshakes = {}
    <3>1. Cardinality(handshakes) = 0
      BY <2>1, FS_EmptySet
    <3> QED
      BY <2>1, <3>1
  <2>2. ASSUME NEW t \in handshakes, handshakes = {t}, t.sock = client,
               app = "Connecting", handshake_result = None
        PROVE  OneHandshake
    <3>1. Cardinality(handshakes) = 1
      BY <2>2, FS_Singleton
    <3> QED
      BY <2>2, <3>1
  <2> QED
    BY <2>1, <2>2
<1> QED
  BY Invariance, <1>1, PTL

\* The window holds a socket exactly while it is connecting or connected (the
\* places of ui.rs that set client and state).
THEOREM SocketInUse == Spec => []ClientSocket
<1>1. Inv => ClientSocket
  BY DEF Inv
<1> QED
  BY Invariance, <1>1, PTL

\* Whatever is lost, delayed, left over from an earlier session or restarted, a host
\* never has a port both pending and active (ConnectionManager::handle_message).
THEOREM PendingXorActive == Spec => []PendingOrActive
<1>1. Inv => PendingOrActive
  BY DEF Inv
<1> QED
  BY Invariance, <1>1, PTL

\* Whatever is lost, a connected window is pending or active at its host until a
\* restart (perform_handshake, ConnectionManager::handle_message).
THEOREM HostKnows == Spec => []KnownToHost
<1>1. Inv => KnownToHost
  BY DEF Inv, Offered, KnownToHost
<1> QED
  BY Invariance, <1>1, PTL
=============================================================================
