---------------------------- MODULE ScreenStream ----------------------------
(***************************************************************************)
(* The screen of the host at one client: the host's feed (HostFeed), a     *)
(* network that loses datagrams but keeps their order, the client's        *)
(* receiver thread (run_frame_receiver in client/src/net.rs), and the      *)
(* keyframe requests the other way.                                        *)
(*                                                                         *)
(* The receiver is modelled frame by frame, as FrameAssembly shows it may  *)
(* be on such a network: of a frame either every chunk arrives, and the    *)
(* frame is applied, or only some do, chunk 0 among them or not.           *)
(***************************************************************************)
EXTENDS HostFeed

CONSTANTS
    Client,    \* the address of this client
    NetCap,    \* bound: frames in flight
    MaxLoss    \* bound: frames and requests the network or the host may lose

\* Fewer frames are lost than there are numbers: no loss of 2^32 frames in a row
\* passes for none.
ASSUME StreamAssumption ==
    /\ Client \in Addrs /\ NetCap \in Nat \ {0} /\ QueueCap \in Nat /\ MaxSeq \in Nat
    /\ MaxLoss \in Nat /\ MaxLoss + 1 < SeqMod

VARIABLES
    joined,               \* the host counts Client among its active connections
    net,                  \* frames in flight to Client, oldest first
    requests,             \* RequestKeyframe messages in flight to the host
    losses,               \* how much has been lost so far
    persistent_bgra,      \* the receiver's picture, or None
    last_applied_msg_id,
    kf_recent,            \* last_kf_req is less than 500 ms ago
    \* history
    truth,                \* the screen the last applied frame was encoded from
    clean,                \* nothing has been missed since the last full frame
    last_seen,            \* number of the last frame received whole
    dirty,                \* frames received in a row, none missing between them,
                          \* without becoming clean (counted up to one more
                          \* than KEYFRAME_INTERVAL)
    unreported            \* a frame was abandoned, and since then the client has
                          \* neither asked for a keyframe nor received one

receiver == <<persistent_bgra, last_applied_msg_id, kf_recent, truth, clean, last_seen, dirty, unreported>>
link == <<joined, net, requests, losses>>
vars == <<requested, base, extent, seq, queue, last_sent, joined, net, requests, losses,
          persistent_bgra, last_applied_msg_id, kf_recent, truth, clean, last_seen, dirty, unreported>>

Init ==
    /\ FeedInit
    /\ joined = FALSE /\ net = <<>> /\ requests = 0 /\ losses = 0
    /\ persistent_bgra = None /\ last_applied_msg_id = 0 /\ kf_recent = FALSE
    /\ truth = None /\ clean = FALSE /\ last_seen = 0 /\ dirty = 0
    /\ unreported = FALSE

Lost == losses < MaxLoss /\ losses' = losses + 1
-----------------------------------------------------------------------------
(* The host. *)

HostEncode ==
    /\ \E s \in Screens : Encode(s) \/ EncodeFallback(s)
    /\ UNCHANGED <<link, receiver>>

HostEncodeFails ==
    /\ Lost
    /\ EncodeFailed
    /\ UNCHANGED <<joined, net, requests, receiver>>

HostLosesDevice ==
    /\ LoseBase
    /\ UNCHANGED <<link, receiver>>

\* The client's Confirm arrives, some time after the host began to encode for
\* another client.
Join ==
    /\ ~ joined
    /\ joined' = TRUE
    /\ UNCHANGED <<feedVars, net, requests, losses, receiver>>

\* The send thread sends the oldest frame.
HostTransmit ==
    /\ joined /\ Len(net) < NetCap
    /\ Transmit(Client)
    /\ net' = Append(net, Head(queue))
    /\ UNCHANGED <<joined, requests, losses, receiver>>

\* The send thread is done with a frame it has sent, or need not send.
HostRetire ==
    /\ queue # <<>> /\ (~ joined \/ last_sent[Client] = Head(queue))
    /\ Retire
    /\ UNCHANGED <<link, receiver>>

\* send_fragmented gives up before the first chunk.
HostAbandon ==
    /\ joined /\ queue # <<>> /\ last_sent[Client] # Head(queue)
    /\ Lost
    /\ Retire
    /\ unreported' = TRUE
    /\ UNCHANGED <<joined, net, requests, persistent_bgra, last_applied_msg_id, kf_recent,
                   truth, clean, last_seen, dirty>>

\* The main thread receives a RequestKeyframe.
HostReceiveRequest ==
    /\ requests > 0
    /\ Request
    /\ requests' = requests - 1
    /\ UNCHANGED <<joined, net, losses, receiver>>
-----------------------------------------------------------------------------
(* The client. *)

\* request_keyframe: at most once per 500 ms; otherwise nothing happens, and
\* nothing remembers that a request was wanted.
request_keyframe ==
    IF kf_recent
      THEN UNCHANGED <<requests, kf_recent>>
      ELSE requests' = requests + 1 /\ kf_recent' = TRUE

\* Chunk 0 of a frame arrives: are frames missing before it?
Gap(f) == last_applied_msg_id # 0 /\ f.msg_id > (last_applied_msg_id + 1) % SeqMod

GapDetection(f) == IF Gap(f) THEN request_keyframe ELSE UNCHANGED <<requests, kf_recent>>

\* History: what the arrival of frame f, or of its chunk 0, says about a loss.
Reported(repaired) == unreported' = (unreported /\ ~ repaired /\ requests' = requests)

\* History: frame f was received whole (clean' is already determined).
Counted(f) ==
    /\ last_seen' = f.msg_id
    /\ dirty' = CASE clean' -> 0
                  [] ~ clean' /\ f.msg_id = next_seq(last_seen) ->
                       IF dirty <= KEYFRAME_INTERVAL THEN dirty + 1 ELSE dirty
                  [] OTHER -> 1

\* The oldest frame in flight arrives, whole or in part, or is lost.
Arrival == net # <<>> /\ net' = Tail(net)

\* All the chunks of a full frame have arrived.
ReceiveFull ==
    /\ Arrival /\ Head(net).kind = "full"
    /\ LET f == Head(net) IN
         /\ GapDetection(f) /\ Reported(TRUE)
         /\ persistent_bgra' = [width |-> f.size[1], height |-> f.size[2], pixels |-> f.payload]
         /\ last_applied_msg_id' = f.msg_id
         /\ truth' = f.shows
         /\ clean' = TRUE
         /\ Counted(f)
    /\ UNCHANGED <<feedVars, joined, losses>>

\* All the chunks of a delta have arrived: it is applied to whatever picture
\* there is, whether or not frames are missing before it.
ReceiveDelta ==
    /\ Arrival /\ Head(net).kind = "delta" /\ persistent_bgra # None
    /\ LET f == Head(net) IN
         /\ GapDetection(f) /\ Reported(FALSE)
         /\ persistent_bgra' = apply_regions(persistent_bgra, f.payload)
         /\ last_applied_msg_id' = f.msg_id
         /\ truth' = f.shows
         /\ clean' = (clean /\ f.msg_id = next_seq(last_applied_msg_id))
         /\ Counted(f)
    /\ UNCHANGED <<feedVars, joined, losses>>

\* Without a picture a delta is skipped; no keyframe is asked for.
SkipDelta ==
    /\ Arrival /\ Head(net).kind = "delta" /\ persistent_bgra = None
    /\ GapDetection(Head(net)) /\ Reported(FALSE)
    /\ UNCHANGED <<feedVars, joined, losses, persistent_bgra, last_applied_msg_id, truth, clean>>
    /\ Counted(Head(net))

Receive == ReceiveFull \/ ReceiveDelta \/ SkipDelta

\* Chunk 0 of a frame arrives but another chunk does not: the assembly stays in
\* the map for ever and the frame is never applied.
ReceivePart ==
    /\ Arrival /\ Lost
    /\ GapDetection(Head(net)) /\ Reported(FALSE)
    /\ UNCHANGED <<feedVars, joined, persistent_bgra, last_applied_msg_id, truth, clean,
                   last_seen, dirty>>

\* All the chunks of a frame have arrived, but cannot be decompressed (chunk 0 was
\* not the first of them, say, and the dimensions are lost): a keyframe is asked for,
\* by the gap detection or now.
ReceiveGarbled ==
    /\ Arrival /\ Lost
    /\ request_keyframe /\ Reported(FALSE)
    /\ UNCHANGED <<feedVars, joined, persistent_bgra, last_applied_msg_id, truth, clean,
                   last_seen, dirty>>

\* The 500 ms of the rate limit are over.
KeyframeTimer ==
    /\ kf_recent
    /\ kf_recent' = FALSE
    /\ UNCHANGED <<feedVars, link, persistent_bgra, last_applied_msg_id, truth, clean,
                   last_seen, dirty, unreported>>
-----------------------------------------------------------------------------
(* The network. *)

LoseFrame ==
    /\ Arrival /\ Lost
    /\ UNCHANGED <<feedVars, joined, requests, receiver>>

LoseRequest ==
    /\ requests > 0
    /\ Lost
    /\ requests' = requests - 1
    /\ UNCHANGED <<feedVars, joined, net, receiver>>
-----------------------------------------------------------------------------
Next ==
    \/ HostEncode \/ HostEncodeFails \/ HostLosesDevice \/ Join
    \/ HostTransmit \/ HostRetire \/ HostAbandon \/ HostReceiveRequest
    \/ Receive \/ ReceivePart \/ ReceiveGarbled \/ KeyframeTimer
    \/ LoseFrame \/ LoseRequest

Spec == Init /\ [][Next]_vars

\* Both send loop and receiver run, and what is in flight arrives (or is lost, but
\* not for ever).
Fairness ==
    /\ WF_vars(HostTransmit \/ HostRetire)
    /\ WF_net(Arrival) /\ WF_vars(KeyframeTimer) /\ WF_vars(HostReceiveRequest)

\* The desktop may stop changing at any time, and then nothing is encoded.
FairSpec == Spec /\ Fairness

\* The desktop never stops changing.
LiveDesktopSpec == FairSpec /\ WF_vars(HostEncode)
-----------------------------------------------------------------------------
(* Properties. *)

\* Type invariant.
TypeOK ==
    /\ requested \in BOOLEAN
    /\ base \in Checksums \cup {None}
    /\ extent \in {Size(s) : s \in Screens} \cup {None}
    /\ seq \in 0 .. SeqMod - 1
    /\ Len(queue) <= QueueCap /\ \A k \in 1 .. Len(queue) : IsFrame(queue[k])
    /\ Len(net) <= NetCap /\ \A k \in 1 .. Len(net) : IsFrame(net[k])
    /\ last_sent[Client] # None => IsFrame(last_sent[Client])
    /\ joined \in BOOLEAN
    /\ requests \in Nat
    /\ losses \in 0 .. MaxLoss
    /\ persistent_bgra # None =>
          \E s \in Screens : /\ Size(persistent_bgra) = Size(s)
                            /\ DOMAIN persistent_bgra.pixels = DOMAIN s.pixels
    /\ last_applied_msg_id \in 0 .. SeqMod - 1
    /\ kf_recent \in BOOLEAN
    /\ truth \in Screens \cup {None}
    /\ clean \in BOOLEAN
    /\ last_seen \in 0 .. SeqMod - 1
    /\ dirty \in Nat
    /\ unreported \in BOOLEAN

\* A client that has missed nothing since its last full frame shows exactly the
\* screen the host encoded last for it: no error path of the encoder, no device
\* loss and no keyframe request in between may leave ghost pixels.
Coherent == clean => persistent_bgra = truth

\* A client that loses frames, or joins late, is whole again after at most
\* KEYFRAME_INTERVAL frames received without a loss, requests or no requests,
\* also where frame_seq wraps round.
RecoveryBound == dirty <= KEYFRAME_INTERVAL

\* Whatever is lost on a desktop that keeps changing, the client is whole again
\* and stays so once losses stop.
Recovers == <>[](joined => clean)

\* "Abandon this frame: the client detects the gap and requests a fresh keyframe
\* via DCC" (host/src/net.rs 131): a client for which a frame was abandoned asks
\* for a keyframe, unless it receives one without asking.
GapRequested == unreported ~> ~ unreported
=============================================================================
