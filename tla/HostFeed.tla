------------------------------ MODULE HostFeed ------------------------------
(***************************************************************************)
(* What the host's threads promise together, without the threads: screens  *)
(* are encoded one after the other, each against the one before, into a    *)
(* queue of bounded length; every address is sent a subsequence of the     *)
(* queue's frames, in order; whole frames may be dropped.  HostPipeline    *)
(* implements this specification.                                          *)
(***************************************************************************)
EXTENDS FrameEncoder, Sequences

CONSTANTS
    Addrs,     \* addresses of clients
    QueueCap,  \* frames between encoder and network: the channel's, plus one
               \* with each thread
    MaxSeq     \* bound: nothing is encoded once seq has reached it

VARIABLES
    requested,  \* a client has asked for a keyframe
    base,       \* the checksums of the screen encoded last, or None
    extent,     \* its size, or None
    seq,        \* number of the frame encoded last
    queue,      \* frames encoded and not yet disposed of
    last_sent   \* per address, the frame last transmitted to it

feedVars == <<requested, base, extent, seq, queue, last_sent>>

FeedInit ==
    /\ requested = FALSE /\ base = None /\ extent = None /\ seq = 0 /\ queue = <<>>
    /\ last_sent = [a \in Addrs |-> None]

Request ==
    /\ requested' = TRUE
    /\ UNCHANGED <<base, extent, seq, queue, last_sent>>

\* A screen can be encoded.  Its size has not changed, unless the device was lost.
MayEncode(s) == seq < MaxSeq /\ Len(queue) < QueueCap /\ extent \in {None, Size(s)}

\* A screen is encoded.
Encode(s) ==
    /\ MayEncode(s)
    /\ ~ Unchanged(requested, seq, base, s)
    /\ queue' = Append(queue, IF WantsFull(requested, seq, base, s)
                                THEN FullFrame(seq, s) ELSE DeltaFrame(seq, base, s))
    /\ requested' = FALSE /\ seq' = next_seq(seq)
    /\ base' = compute_tile_checksums[s] /\ extent' = Size(s)
    /\ UNCHANGED last_sent

\* Compression of a delta failed and the full frame is sent instead.
EncodeFallback(s) ==
    /\ MayEncode(s)
    /\ ~ Unchanged(requested, seq, base, s)
    /\ queue' = Append(queue, FullFrame(seq, s))
    /\ requested' = FALSE /\ seq' = next_seq(seq)
    /\ base' = compute_tile_checksums[s] /\ extent' = Size(s)
    /\ UNCHANGED last_sent

\* Mutant of EncodeFailed: the base moves although nothing was encoded.
EncodeFailedMovesBase ==
    /\ requested' = FALSE /\ base' \in {compute_tile_checksums[s] : s \in Screens}
    /\ UNCHANGED <<extent, seq, queue, last_sent>>

\* Compression failed for good: nothing is queued, a request is forgotten.
EncodeFailed ==
    /\ requested' = FALSE
    /\ UNCHANGED <<base, extent, seq, queue, last_sent>>

\* The capture device was lost or fails from now on: only a new one captures, and
\* may find the desktop at another size.
LoseBase ==
    /\ base' = None /\ extent' = None
    /\ UNCHANGED <<requested, seq, queue, last_sent>>

\* The oldest frame goes to address a, at most once, and may be done with.
Transmit(a) ==
    /\ queue # <<>> /\ last_sent[a] # Head(queue)
    /\ last_sent' = [last_sent EXCEPT ![a] = Head(queue)]
    /\ queue' \in {queue, Tail(queue)}
    /\ UNCHANGED <<requested, base, extent, seq>>

\* The oldest frame is dropped or done with.
Retire ==
    /\ queue # <<>>
    /\ queue' = Tail(queue)
    /\ UNCHANGED <<requested, base, extent, seq, last_sent>>

\* The youngest frame is thrown away: the receiver of the channel has gone.
Discard ==
    /\ queue # <<>>
    /\ queue' = SubSeq(queue, 1, Len(queue) - 1)
    /\ UNCHANGED <<requested, base, extent, seq, last_sent>>

FeedNext ==
    \/ Request \/ EncodeFailed \/ LoseBase \/ Retire \/ Discard
    \/ \E s \in Screens : Encode(s) \/ EncodeFallback(s)
    \/ \E a \in Addrs : Transmit(a)

FeedSpec == FeedInit /\ [][FeedNext]_feedVars
=============================================================================
