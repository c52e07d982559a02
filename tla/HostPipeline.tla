---------------------------- MODULE HostPipeline ----------------------------
(***************************************************************************)
(* The host service's three threads (host/src/main.rs): the capture thread *)
(* encodes the screen and hands frames to a bounded channel, the send      *)
(* thread drains the channel and transmits each frame to every active      *)
(* client, and the main thread handles the clients' messages until Ctrl+C, *)
(* then joins the other two.                                               *)
(*                                                                         *)
(* The threads share the set of active connections (behind a mutex), the   *)
(* flag force_full_next and the flag running (atomics), and the channel.   *)
(* Each is read at a pc of its own, so that the others may act in between. *)
(***************************************************************************)
EXTENDS FrameEncoder, Sequences

CONSTANTS
    Addrs,              \* addresses of clients
    FRAME_CHANNEL_CAP,  \* capacity of the channel
    MaxSeq,             \* bound: no capture once frame_seq has reached it
    CompressMayFail,    \* may compress_* return Err?
    CaptureMayFail      \* may the capture device misbehave?

ASSUME PipelineAssumption ==
    /\ FRAME_CHANNEL_CAP \in Nat \ {0} /\ MaxSeq \in Nat
    /\ CompressMayFail \in BOOLEAN /\ CaptureMayFail \in BOOLEAN

VARIABLES
    \* shared
    running,          \* cleared by the Ctrl+C handler
    active,           \* ConnectionManager::active_connections
    force_full_next,  \* a client has asked for a keyframe
    channel,          \* frames between capture and send thread
    \* the desktop
    screen,           \* what it shows
    updated,          \* it changed since the duplication last delivered it
    \* the capture thread
    cap_pc,
    capture,          \* "ready", "wedged" (every acquire fails) or None
    prev_checksums,   \* checksums of the last frame encoded, or None
    frame_seq,
    grabbed,          \* the frame being encoded, or the one being sent
    \* the send thread
    send_pc,
    sending,          \* the frame it took from the channel
    targets,          \* addresses it has yet to transmit it to
    \* the main thread
    main_pc,
    \* history
    last_sent         \* per address, the frame last transmitted to it

shared  == <<running, active, force_full_next>>
desktop == <<screen, updated>>
capVars == <<cap_pc, capture, prev_checksums, frame_seq, grabbed>>
sndVars == <<send_pc, sending, targets, last_sent>>
vars == <<running, active, force_full_next, channel, screen, updated,
          cap_pc, capture, prev_checksums, frame_seq, grabbed,
          send_pc, sending, targets, main_pc, last_sent>>

Init ==
    /\ running = TRUE /\ active = {} /\ force_full_next = FALSE
    /\ channel = <<>>
    /\ screen \in Screens /\ updated = TRUE
    /\ cap_pc = "check" /\ capture \in {"ready", None}
    /\ prev_checksums = None /\ frame_seq = 0 /\ grabbed = None
    /\ send_pc = "check" /\ sending = None /\ targets = {}
    /\ main_pc = "check"
    /\ last_sent = [a \in Addrs |-> None]
-----------------------------------------------------------------------------
(* The desktop and the user at the host. *)

\* The desktop and the capture device, which delivers into grabbed.
Device == INSTANCE CaptureDevice WITH delivered <- grabbed

\* The desktop changes.  Its size does only when it is captured no more: a change
\* of mode ends the duplication.
Draw ==
    /\ UNCHANGED <<shared, channel, cap_pc, prev_checksums, frame_seq, sndVars, main_pc>>
    /\ Device!Draw
    /\ capture = "ready" => Size(screen') = Size(screen)

CtrlC ==
    /\ running
    /\ running' = FALSE
    /\ UNCHANGED <<active, force_full_next, channel, desktop, capVars, sndVars, main_pc>>
-----------------------------------------------------------------------------
(* The main thread.  It looks at running, then receives one message (or    *)
(* times out), handles it, and looks again.                                *)

MainCheck ==
    /\ main_pc = "check"
    /\ main_pc' = IF running THEN "receive" ELSE "join_capture"
    /\ UNCHANGED <<shared, channel, desktop, capVars, sndVars>>

\* A message has been handled: the other threads' state is untouched.
Handled ==
    /\ main_pc = "receive" /\ main_pc' = "check"
    /\ UNCHANGED <<running, channel, desktop, capVars, sndVars>>

\* A Confirm activates the connection of its sender.
Activate(a) == Handled /\ active' = active \cup {a} /\ UNCHANGED force_full_next

\* A Teardown, or a new Request from the same address, removes it.
handle_disconnect(a) == Handled /\ active' = active \ {a} /\ UNCHANGED force_full_next

RequestKeyframe == Handled /\ force_full_next' = TRUE /\ UNCHANGED active

\* No message within the socket's timeout, or one that is no concern of the
\* pipeline (input, ACK, heartbeat).
OtherMessage == Handled /\ UNCHANGED <<active, force_full_next>>

JoinCapture ==
    /\ main_pc = "join_capture" /\ cap_pc = "exited"
    /\ main_pc' = "join_send"
    /\ UNCHANGED <<shared, channel, desktop, capVars, sndVars>>

JoinSend ==
    /\ main_pc = "join_send" /\ send_pc = "exited"
    /\ main_pc' = "exited"
    /\ UNCHANGED <<shared, channel, desktop, capVars, sndVars>>
-----------------------------------------------------------------------------
(* The capture thread: capture_loop. *)

\* Nothing is captured, or nothing comes of it: back to the head of the loop.
CapContinue ==
    /\ cap_pc' = "check"
    /\ UNCHANGED <<shared, channel, sndVars, main_pc>>

\* while running: leave, sleep without clients, or go on to capture.
CapCheck ==
    /\ cap_pc = "check"
    /\ cap_pc' = CASE ~ running   -> "exited"
                   [] active = {} -> "check"
                   [] OTHER       -> "capture"
    /\ UNCHANGED <<shared, channel, desktop, capture, prev_checksums, frame_seq, grabbed,
                   sndVars, main_pc>>

\* There is no capture device; the loop never tries to open one again.
CapNoDevice ==
    /\ cap_pc = "capture" /\ capture = None
    /\ CapContinue
    /\ UNCHANGED <<desktop, capture, prev_checksums, frame_seq, grabbed>>

\* capture_frame returns Ok(frame).
CapGrab ==
    /\ cap_pc = "capture" /\ frame_seq < MaxSeq
    /\ Device!Deliver
    /\ cap_pc' = "encode"
    /\ UNCHANGED <<shared, channel, prev_checksums, frame_seq, sndVars, main_pc>>

\* FrameAcquireFailed: nothing new within the timeout, or a device that fails
\* every time.
CapAcquireFailed ==
    /\ cap_pc = "capture" /\ capture # None
    /\ capture = "wedged" \/ ~ updated \/ frame_seq = MaxSeq
    /\ CapContinue
    /\ UNCHANGED <<desktop, capture, prev_checksums, frame_seq, grabbed>>

\* FrameAcquireFailed or InitFailed, and no capture will succeed again.
CapWedge ==
    /\ CaptureMayFail
    /\ cap_pc = "capture"
    /\ Device!Wedge
    /\ CapContinue
    /\ UNCHANGED <<prev_checksums, frame_seq>>

\* DeviceLost: DxgiCapture::new().ok(), and the next frame has to be a full one.
CapDeviceLost ==
    /\ CaptureMayFail
    /\ cap_pc = "capture"
    /\ Device!Reopen
    /\ prev_checksums' = None
    /\ CapContinue
    /\ UNCHANGED frame_seq

\* The frame is encoded: it becomes the base of the next delta.
Encoded(frame) ==
    /\ prev_checksums' = compute_tile_checksums[grabbed]
    /\ frame_seq' = next_seq(frame_seq)
    /\ grabbed' = frame
    /\ cap_pc' = "send"

\* Mutant of NotEncoded: the base moves although nothing was encoded.
NotEncodedMovesBase ==
    cap_pc' = "check" /\ grabbed' = None /\ prev_checksums' = compute_tile_checksums[grabbed]
    /\ UNCHANGED frame_seq

NotEncoded == cap_pc' = "check" /\ grabbed' = None /\ UNCHANGED <<prev_checksums, frame_seq>>

\* The keyframe flag is swapped to false before anything else, whatever becomes
\* of the frame.  A delta that cannot be compressed is sent as a full frame.
CapEncode ==
    LET unchanged == Unchanged(force_full_next, frame_seq, prev_checksums, grabbed)
        wantsFull == WantsFull(force_full_next, frame_seq, prev_checksums, grabbed)
    IN
    /\ cap_pc = "encode"
    /\ force_full_next' = FALSE
    /\ \/ ~ unchanged /\ (wantsFull \/ CompressMayFail)
          /\ Encoded(FullFrame(frame_seq, grabbed))
       \/ ~ unchanged /\ ~ wantsFull
          /\ Encoded(DeltaFrame(frame_seq, prev_checksums, grabbed))
       \/ (unchanged \/ CompressMayFail) /\ NotEncoded
    /\ UNCHANGED <<running, active, channel, desktop, capture, sndVars, main_pc>>

\* Mutants of CapSend: a channel without bound; a full channel whose oldest frame
\* is replaced; a channel whose receiver is never seen to have gone.
CapSendUnbounded ==
    /\ cap_pc = "send" /\ send_pc # "exited"
    /\ grabbed' = None /\ cap_pc' = "check" /\ channel' = Append(channel, grabbed)
    /\ UNCHANGED <<shared, desktop, capture, prev_checksums, frame_seq, sndVars, main_pc>>

CapSendReplaces ==
    /\ cap_pc = "send" /\ send_pc # "exited"
    /\ grabbed' = None /\ cap_pc' = "check"
    /\ channel' = Append(IF Len(channel) < FRAME_CHANNEL_CAP THEN channel ELSE Tail(channel), grabbed)
    /\ UNCHANGED <<shared, desktop, capture, prev_checksums, frame_seq, sndVars, main_pc>>

CapSendWaits ==
    /\ cap_pc = "send" /\ Len(channel) < FRAME_CHANNEL_CAP
    /\ grabbed' = None /\ cap_pc' = "check" /\ channel' = Append(channel, grabbed)
    /\ UNCHANGED <<shared, desktop, capture, prev_checksums, frame_seq, sndVars, main_pc>>

\* tx.send: blocks while the channel is full, fails once the receiver is gone.
CapSend ==
    /\ cap_pc = "send"
    /\ grabbed' = None
    /\ \/ /\ send_pc = "exited"
          /\ cap_pc' = "exited" /\ channel' = channel
       \/ /\ send_pc # "exited" /\ Len(channel) < FRAME_CHANNEL_CAP
          /\ cap_pc' = "check" /\ channel' = Append(channel, grabbed)
    /\ UNCHANGED <<shared, desktop, capture, prev_checksums, frame_seq, sndVars, main_pc>>

Capture == CapCheck \/ CapNoDevice \/ CapGrab \/ CapAcquireFailed \/ CapWedge
           \/ CapDeviceLost \/ CapEncode \/ CapSend
-----------------------------------------------------------------------------
(* The send thread: send_loop. *)

SendCheck ==
    /\ send_pc = "check"
    /\ send_pc' = IF running THEN "recv" ELSE "exited"
    /\ UNCHANGED <<shared, channel, desktop, capVars, sending, targets, last_sent, main_pc>>

\* rx.recv: blocks on an empty channel until the sender is gone.
SendRecv ==
    /\ send_pc = "recv"
    /\ \/ /\ channel # <<>>
          /\ sending' = Head(channel) /\ channel' = Tail(channel)
          /\ send_pc' = "addrs"
       \/ /\ channel = <<>> /\ cap_pc = "exited"
          /\ send_pc' = "exited"
          /\ UNCHANGED <<sending, channel>>
    /\ UNCHANGED <<shared, desktop, capVars, targets, last_sent, main_pc>>

\* active_addrs(): without clients the frame is dropped.
SendAddrs ==
    /\ send_pc = "addrs"
    /\ targets' = active
    /\ IF active = {}
         THEN send_pc' = "check" /\ sending' = None
         ELSE send_pc' = "transmit" /\ sending' = sending
    /\ UNCHANGED <<shared, channel, desktop, capVars, last_sent, main_pc>>

\* The frame has gone, or failed to go, to address a.
Transmitted(a) ==
    /\ targets' = targets \ {a}
    /\ IF targets = {a}
         THEN send_pc' = "check" /\ sending' = None
         ELSE send_pc' = send_pc /\ sending' = sending
    /\ UNCHANGED <<shared, channel, desktop, capVars, main_pc>>

\* send_fragmented to one more address, in the set's arbitrary order.
SendFragmented(a) ==
    /\ send_pc = "transmit" /\ a \in targets
    /\ last_sent' = [last_sent EXCEPT ![a] = sending]
    /\ Transmitted(a)

\* send_fragmented gives up: the error is printed and the frame forgotten.
SendFailed(a) ==
    /\ send_pc = "transmit" /\ a \in targets
    /\ Transmitted(a)
    /\ UNCHANGED last_sent

Send == SendCheck \/ SendRecv \/ SendAddrs
        \/ \E a \in Addrs : SendFragmented(a) \/ SendFailed(a)
-----------------------------------------------------------------------------
Receive == RequestKeyframe \/ OtherMessage
           \/ \E a \in Addrs : Activate(a) \/ handle_disconnect(a)

Main == MainCheck \/ Receive \/ JoinCapture \/ JoinSend

Next == Capture \/ Send \/ Main \/ Draw \/ CtrlC

Spec == Init /\ [][Next]_vars

\* The operating system runs every thread that is not blocked.  Nothing is
\* assumed of the user, of the clients or of the desktop.
Fairness == WF_vars(Capture) /\ WF_vars(Send) /\ WF_vars(Main)

FairSpec == Spec /\ Fairness
-----------------------------------------------------------------------------
(* Properties. *)

\* Type invariant: and each thread's local variables fit its pc.
TypeOK ==
    /\ running \in BOOLEAN
    /\ active \in SUBSET Addrs
    /\ force_full_next \in BOOLEAN
    /\ Len(channel) <= FRAME_CHANNEL_CAP /\ \A k \in 1 .. Len(channel) : IsFrame(channel[k])
    /\ screen \in Screens /\ updated \in BOOLEAN
    /\ cap_pc \in {"check", "capture", "encode", "send", "exited"}
    /\ capture \in {"ready", "wedged", None}
    /\ prev_checksums \in Checksums \cup {None}
    /\ frame_seq \in 0 .. SeqMod - 1
    /\ CASE cap_pc = "encode" -> grabbed \in Screens
         [] cap_pc = "send"   -> IsFrame(grabbed)
         [] OTHER             -> grabbed = None
    /\ send_pc \in {"check", "recv", "addrs", "transmit", "exited"}
    /\ IF send_pc \in {"addrs", "transmit"} THEN IsFrame(sending) ELSE sending = None
    /\ targets \in SUBSET Addrs
    /\ send_pc = "transmit" <=> targets # {}
    /\ main_pc \in {"check", "receive", "join_capture", "join_send", "exited"}
    /\ DOMAIN last_sent = Addrs /\ \A a \in Addrs : last_sent[a] # None => IsFrame(last_sent[a])

\* The frames on their way to the network, oldest first.
InFlight == (IF send_pc \in {"addrs", "transmit"} THEN <<sending>> ELSE <<>>) \o channel
            \o (IF cap_pc = "send" THEN <<grabbed>> ELSE <<>>)

\* The frames on their way are numbered without a hole up to frame_seq (the
\* youngest is thrown away only when the send thread has gone), and what was
\* sent to a client is older than all of them: nothing overtakes, nothing is
\* sent twice, and only whole frames are skipped (as long as frame_seq has not
\* wrapped).
PipelineOrder ==
    LET n == Len(InFlight)
        id(k) == InFlight[k].msg_id
    IN  /\ \A k \in 1 .. n : id(k) = id(n) - (n - k)
        /\ n > 0 => id(n) = frame_seq \/ (cap_pc = "exited" /\ id(n) = frame_seq - 1)
        /\ \A a \in Addrs : last_sent[a] # None =>
              /\ last_sent[a].msg_id <= frame_seq
              /\ \A k \in 1 .. n : \/ last_sent[a].msg_id < id(k)
                                   \/ k = 1 /\ a \notin targets /\ last_sent[a] = sending

\* A client is never sent a frame older than, or the same as, the one before.
WireOrder ==
    [][\A a \in Addrs : last_sent'[a] # last_sent[a] /\ last_sent[a] # None =>
          last_sent'[a].msg_id > last_sent[a].msg_id]_vars

\* A delta is relative to the frame numbered just before it: a client that shows
\* that one and applies the delta shows the screen the delta was encoded from,
\* whatever errors, device losses and keyframe requests came in between.
DeltaBase ==
    [][\A a \in Addrs :
          LET old == last_sent[a]  new == last_sent'[a] IN
          /\ new # old /\ old # None
          /\ new.kind = "delta" /\ new.msg_id = old.msg_id + 1
          => apply_regions(old.shows, new.payload) = new.shows]_vars

\* After Ctrl+C the service ends, whatever each thread was blocked on: main joins
\* the capture thread, which may be waiting for room in the channel, then the
\* send thread, which may be waiting for a frame (main.rs 197-200).
Shutdown == ~ running ~> main_pc = "exited"

\* On a desktop that never stops changing a keyframe request is answered by a
\* full frame, unless the service stops, the clients leave or there is no capture
\* device.  (On one that does stop, the request waits for the next change.)
RequestServed ==
    WF_vars(Draw) =>
    (force_full_next ~> \/ cap_pc = "send" /\ grabbed.kind = "full"
                       \/ ~ running \/ active = {} \/ capture = None)
=============================================================================
