--------------------------- MODULE FrameAssembly ---------------------------
(***************************************************************************)
(* One host sending fragmented frames to one client over UDP.              *)
(*                                                                         *)
(* The host side is UdpListener::send_fragmented: the chunks of a frame go *)
(* out in index order, a full send buffer is retried, and too many retries *)
(* (or any other error) abandon the rest of the frame.  The client side is *)
(* the assembly map of run_frame_receiver: feed_frame_chunk_typed for each *)
(* chunk and the clean-up of stale assemblies every two seconds.           *)
(*                                                                         *)
(* The network is a set of datagrams.  It may lose any of them; whether it *)
(* may also reorder or duplicate them is a parameter, because several      *)
(* guarantees of this code hold only on a link that does not.              *)
(***************************************************************************)
EXTENDS FrameChunks, FiniteSets, FiniteSetsExt, Sequences

CONSTANTS
    MaxFrame,         \* frames are numbered 1 .. MaxFrame
    ChunkCount,       \* ChunkCount[f]: chunks frame f is split into
    FrameDims,        \* FrameDims[f]: width and height of frame f
    Dims,             \* the dimensions a frame may have
    MaxSendRetries,   \* MAX_SEND_RETRIES of send_fragmented
    Reorder,          \* may datagrams overtake one another?
    MaxDuplicates,    \* how many deliveries may leave a copy in the network
    Lossy             \* may datagrams be lost and frames be abandoned?

Frames == 1 .. MaxFrame
Slots(f) == 0 .. ChunkCount[f] - 1
Wire == UNION {split_into_chunks(f, ChunkCount[f], FrameDims[f]) : f \in Frames}

ASSUME FrameAssumption ==
    /\ MaxFrame \in Nat \ {0}
    /\ ChunkCount \in [Frames -> Nat \ {0}]
    /\ FrameDims \in [Frames -> Dims]
    /\ NoDims \notin Dims
    /\ MaxSendRetries \in Nat \ {0}
    /\ MaxDuplicates \in Nat
    /\ Reorder \in BOOLEAN /\ Lossy \in BOOLEAN

\* The contents an assembly of frame f can have.
AssemblyOf(f) ==
    [ chunks         : [Slots(f) -> {Slice(f, i) : i \in Slots(f)} \cup {NoData}],
      chunk_count    : {ChunkCount[f]},
      dims           : Dims \cup {NoDims},
      received_count : 0 .. ChunkCount[f] ]

\* None is not data, and no entry is not an entry.
ASSUME AbsenceAssumption ==
    \A f \in Frames : /\ \A i \in Slots(f) : NoData # Slice(f, i)
                      /\ Absent \notin AssemblyOf(f)

VARIABLES
    frame,        \* the frame send_fragmented is sending (MaxFrame + 1: done)
    idx,          \* the next chunk of it
    attempts,     \* how often sending that chunk found the buffer full
    net,          \* datagrams in flight
    duplicates,   \* how many copies the network has made
    assemblies,   \* the client's HashMap<u32, FrameAssemblyState>
    completed,    \* history: what feed_frame_chunk_typed returned, in order
    cleanup_due,  \* more than two seconds have passed since the last clean-up
    lost          \* history: a datagram was lost or a frame abandoned

sender == <<frame, idx, attempts>>
vars == <<frame, idx, attempts, net, duplicates, assemblies, completed, cleanup_due, lost>>

\* Chunk (f, i) was sent before chunk (g, j).
Earlier(f, i, g, j) == f < g \/ (f = g /\ i < j)

Init ==
    /\ frame = 1
    /\ idx = 0
    /\ attempts = 0
    /\ net = {}
    /\ duplicates = 0
    /\ assemblies = [f \in Frames |-> Absent]
    /\ completed = <<>>
    /\ cleanup_due = FALSE
    /\ lost = FALSE
-----------------------------------------------------------------------------
(* The host: send_fragmented. *)

NextFrame == frame' = frame + 1 /\ idx' = 0

\* send_to succeeds; after the last chunk the caller goes on to the next frame.
SendChunk ==
    /\ frame \in Frames
    /\ net' = net \cup {Chunk(frame, idx, ChunkCount[frame], FrameDims[frame])}
    /\ attempts' = 0
    /\ IF idx + 1 < ChunkCount[frame]
         THEN idx' = idx + 1 /\ frame' = frame
         ELSE NextFrame
    /\ UNCHANGED <<duplicates, assemblies, completed, cleanup_due, lost>>

\* Mutant of SendRetry: one retry too many.
SendRetryOnceMore ==
    /\ frame \in Frames
    /\ attempts < MaxSendRetries
    /\ attempts' = attempts + 1
    /\ UNCHANGED <<frame, idx, net, duplicates, assemblies, completed, cleanup_due, lost>>

\* The send buffer is full and retries are left: sleep and try the same chunk.
SendRetry ==
    /\ frame \in Frames
    /\ attempts + 1 < MaxSendRetries
    /\ attempts' = attempts + 1
    /\ UNCHANGED <<frame, idx, net, duplicates, assemblies, completed, cleanup_due, lost>>

\* Retries exhausted, or another socket error: return Err.  The chunks already
\* sent stay sent, the others never are.
SendAbandon ==
    /\ Lossy
    /\ frame \in Frames
    /\ NextFrame
    /\ attempts' = 0
    /\ lost' = TRUE
    /\ UNCHANGED <<net, duplicates, assemblies, completed, cleanup_due>>
-----------------------------------------------------------------------------
(* The network. *)

Lose(c) ==
    /\ Lossy
    /\ net' = net \ {c}
    /\ lost' = TRUE
    /\ UNCHANGED <<sender, duplicates, assemblies, completed, cleanup_due>>

\* On a link that does not reorder, only the oldest datagram can arrive.
Deliverable(c) ==
    Reorder \/ \A d \in net : ~ Earlier(d.msg_id, d.chunk_idx, c.msg_id, c.chunk_idx)
-----------------------------------------------------------------------------
(* The client: run_frame_receiver. *)

\* A chunk is received and fed to the assembly map.
ReceiveChunk(c) ==
    /\ Deliverable(c)
    /\ \/ net' = net \ {c} /\ duplicates' = duplicates
       \/ /\ duplicates < MaxDuplicates
          /\ duplicates' = duplicates + 1
          /\ net' = net
    /\ assemblies' = Fed(assemblies, c)
    /\ completed' = IF Completes(Entry(assemblies, c), c)
                      THEN Append(completed, Output(assemblies, c))
                      ELSE completed
    /\ UNCHANGED <<sender, cleanup_due, lost>>

\* Two seconds pass.
CleanupTimer ==
    /\ ~ cleanup_due
    /\ cleanup_due' = TRUE
    /\ UNCHANGED <<sender, net, duplicates, assemblies, completed, lost>>

\* assemblies.retain(..) and stale_cleanup = now.
Cleanup ==
    /\ cleanup_due
    /\ cleanup_due' = FALSE
    /\ assemblies' = [f \in Frames |->
                        IF assemblies[f] # Absent /\ Retained(assemblies[f])
                          THEN assemblies[f] ELSE Absent]
    /\ UNCHANGED <<sender, net, duplicates, completed, lost>>
-----------------------------------------------------------------------------
Next ==
    \/ SendChunk \/ SendRetry \/ SendAbandon
    \/ \E c \in net : Lose(c) \/ ReceiveChunk(c)
    \/ CleanupTimer \/ Cleanup

Spec == Init /\ [][Next]_vars

\* The send loop calls send_to until the frame is out, the receive loop reads
\* whatever the socket holds, and looks at the clock on every turn.  A buffer
\* that is full for ever is excluded, as is a datagram in flight for ever.
Fairness ==
    /\ WF_vars(SendChunk)
    /\ \A f \in Frames : \A i \in Slots(f) :
          WF_vars(\E c \in net : c.msg_id = f /\ c.chunk_idx = i /\ ReceiveChunk(c))
    /\ WF_vars(CleanupTimer) /\ WF_vars(Cleanup)

FairSpec == Spec /\ Fairness
-----------------------------------------------------------------------------
(* Properties. *)

\* Type invariant: where the sender is, that only genuine chunks are in flight,
\* and that each entry of the map is an assembly of its own frame.
TypeOK ==
    /\ frame \in 1 .. MaxFrame + 1
    /\ idx \in Nat
    /\ frame \in Frames => idx \in Slots(frame)
    /\ attempts \in 0 .. MaxSendRetries - 1
    /\ net \subseteq Wire
    /\ duplicates \in 0 .. MaxDuplicates
    /\ assemblies = [f \in Frames |-> assemblies[f]]
    /\ \A f \in Frames : assemblies[f] \in AssemblyOf(f) \cup {Absent}
    /\ cleanup_due \in BOOLEAN /\ lost \in BOOLEAN

Filled(a) == {i \in DOMAIN a.chunks : a.chunks[i] # NoData}

\* What feed_frame_chunk keeps true of an assembly of frame f: slot i holds chunk
\* i or nothing, and the counter is the number of slots that are Some.
Consistent(f, a) ==
    /\ \A i \in Slots(f) : a.chunks[i] \in {NoData, Slice(f, i)}
    /\ a.received_count = Cardinality(Filled(a))

\* Whatever is lost, duplicated or reordered, every assembly is consistent, and
\* an entry of the map is always in progress: neither empty nor complete (lib.rs
\* 348-390).
AssemblyProgress ==
    \A f \in Frames : assemblies[f] # Absent =>
        /\ Consistent(f, assemblies[f])
        /\ assemblies[f].received_count \in 1 .. ChunkCount[f] - 1

\* What feed_frame_chunk returns for a frame is all of that frame's slices, in
\* order, and nothing of another frame; the dimensions may be missing.
Whole(f) == [i \in Slots(f) |-> Slice(f, i)]
Completion == { [msg_id |-> f, data |-> Whole(f), dims |-> d] :
                  f \in Frames, d \in Dims \cup {NoDims} }
CompletedExact == completed \in Seq(Completion)

\* Without duplicates no frame is handed to the decoder twice: a delta frame is
\* applied at most once.
CompletedOnce ==
    \A j, k \in 1 .. Len(completed) :
        completed[j].msg_id = completed[k].msg_id => j = k

\* "at which point the assembly state is removed from the map" (lib.rs 371):
\* without duplicates a completed frame leaves nothing behind in the map.
NoResidue ==
    \A k \in 1 .. Len(completed) : assemblies[completed[k].msg_id] = Absent

\* On a link that neither reorders nor duplicates, frames complete in the order
\* in which the host sent them, whatever is lost or abandoned: run_frame_receiver
\* may set last_applied_msg_id without comparing it with the old value.
InOrder ==
    \A j, k \in 1 .. Len(completed) :
        j < k => completed[j].msg_id < completed[k].msg_id

\* "Returns Some((complete_data, width, height)) when the last chunk arrives"
\* (lib.rs 370): a completed frame has the dimensions the host sent.
DimsIntact ==
    \A k \in 1 .. Len(completed) : completed[k].dims = FrameDims[completed[k].msg_id]

IsCompleted(f) == \E k \in 1 .. Len(completed) : completed[k].msg_id = f

\* With nothing lost every frame is completed, in whatever order chunks arrive
\* and however often.
AllComplete == [](~ lost) => \A f \in Frames : <>IsCompleted(f)

\* What arrived of a frame after it was completed: further completions, and the
\* chunks of an assembly that a late chunk created anew.
Times(f) == Cardinality({k \in 1 .. Len(completed) : completed[k].msg_id = f})
Arrived(f) == IF assemblies[f] = Absent THEN 0 ELSE assemblies[f].received_count
AfterCompletion(f) ==
    IF IsCompleted(f) THEN (Times(f) - 1) * ChunkCount[f] + Arrived(f) ELSE 0

\* The map forgets which frames are complete (net.rs 515-533), so a late duplicate
\* starts an assembly anew.  But a frame is handed to the decoder once more only when
\* as many datagrams were duplicated as it has chunks, and what late chunks leave in
\* the map are duplicates too: none of them is the only copy of its chunk.
RepeatsAreDuplicates == MapThenSumSet(AfterCompletion, Frames) <= duplicates

\* "Periodically clean stale partial assemblies (incomplete frames stuck in map)"
\* (client/src/net.rs 488): a partial assembly whose missing chunks can no longer
\* arrive is eventually cleaned away.
Stuck(f) ==
    /\ assemblies[f] # Absent
    /\ frame > f
    /\ \A c \in net : c.msg_id # f
StaleCleaned == \A f \in Frames : Stuck(f) ~> assemblies[f] = Absent
=============================================================================
