------------------------ MODULE FrameAssemblyProofs ------------------------
(***************************************************************************)
(* Proofs about FrameAssembly, for any number of frames, of chunks and of  *)
(* dimensions, and any network, and about WireFormat, for payloads of      *)
(* every length (the chunks are the payload, cut, and each message fits in *)
(* a datagram).                                                            *)
(***************************************************************************)
EXTENDS FrameAssembly, WireFormat, FiniteSetTheorems, SequenceTheorems, TLAPS

\* The chunk of frame f with index i, as split_into_chunks makes it.
Sent(f, i) == Chunk(f, i, ChunkCount[f], FrameDims[f])

-----------------------------------------------------------------------------
(* Lemmas about the operators of FrameChunks. *)

LEMMA SlotsFinite ==
  ASSUME NEW f \in Frames
  PROVE  /\ IsFiniteSet(Slots(f)) /\ Cardinality(Slots(f)) = ChunkCount[f]
         /\ ChunkCount[f] \in Nat \ {0}
<1>1. ChunkCount[f] \in Nat \ {0}
  BY FrameAssumption
<1>2. IsFiniteSet(0 .. ChunkCount[f] - 1)
  BY <1>1, FS_Interval
<1>3. Cardinality(0 .. ChunkCount[f] - 1) = ChunkCount[f]
  BY <1>1, FS_Interval
<1>4. QED
  BY <1>1, <1>2, <1>3 DEF Slots

LEMMA WireChunk ==
  ASSUME NEW c \in Wire
  PROVE  \E f \in Frames : \E i \in Slots(f) : c = Sent(f, i)
BY DEF Wire, split_into_chunks, Slots, Sent

LEMMA SentFields ==
  ASSUME NEW f \in Frames, NEW i \in Slots(f)
  PROVE  /\ Sent(f, i).msg_id = f
         /\ Sent(f, i).chunk_idx = i
         /\ Sent(f, i).chunk_count = ChunkCount[f]
         /\ Sent(f, i).data = Slice(f, i)
         /\ Sent(f, i).dims \in Dims \cup {NoDims}
         /\ Sent(f, i) \in Wire
BY FrameAssumption DEF Sent, Chunk, Wire, split_into_chunks, Slots

\* An assembly made for a chunk is empty and accepts it.
LEMMA NewAssemblyOK ==
  ASSUME NEW f \in Frames, NEW i \in Slots(f)
  PROVE  LET a == NewAssembly(Sent(f, i)) IN
           /\ a \in AssemblyOf(f) /\ Consistent(f, a)
           /\ a.received_count = 0
           /\ a.dims = Sent(f, i).dims
           /\ Filled(a) = {}
           /\ Fresh(a, Sent(f, i))
<1> DEFINE a == NewAssembly(Sent(f, i))
<1>1. a = [ chunks |-> [j \in Slots(f) |-> NoData], chunk_count |-> ChunkCount[f],
            dims |-> Sent(f, i).dims, received_count |-> 0 ]
  BY SentFields DEF NewAssembly, Slots
<1>2. a \in AssemblyOf(f)
  <2>1. [j \in Slots(f) |-> NoData] \in [Slots(f) -> {Slice(f, j) : j \in Slots(f)} \cup {NoData}]
    OBVIOUS
  <2>2. 0 \in 0 .. ChunkCount[f]
    BY SlotsFinite
  <2>3. Sent(f, i).dims \in Dims \cup {NoDims}
    BY SentFields
  <2> HIDE DEF a
  <2>4. QED
    BY <1>1, <2>1, <2>2, <2>3 DEF AssemblyOf
<1>3. Filled(a) = {}
  BY <1>1 DEF Filled
<1>4. Consistent(f, a)
  BY <1>1, <1>3, FS_EmptySet DEF Consistent
<1>5. Fresh(a, Sent(f, i))
  BY <1>1, SentFields DEF Fresh
<1>6. QED
  BY <1>1, <1>2, <1>3, <1>4, <1>5

LEMMA FilledFinite ==
  ASSUME NEW f \in Frames, NEW a \in AssemblyOf(f)
  PROVE  Filled(a) \subseteq Slots(f) /\ IsFiniteSet(Filled(a))
<1>1. Filled(a) \subseteq Slots(f)
  BY DEF Filled, AssemblyOf
<1>2. QED
  BY <1>1, FS_Subset, SlotsFinite

\* Store, field by field.
LEMMA StoreFields ==
  ASSUME NEW f \in Frames, NEW a \in AssemblyOf(f), NEW c
  PROVE  Store(a, c) = [ chunks         |-> [a.chunks EXCEPT ![c.chunk_idx] = c.data],
                         chunk_count    |-> a.chunk_count,
                         dims           |-> a.dims,
                         received_count |-> a.received_count + 1 ]
<1> DEFINE x == [a.chunks EXCEPT ![c.chunk_idx] = c.data]
           y == a.received_count + 1
<1>1. Store(a, c) = [a EXCEPT !.chunks = x, !.received_count = y]
  BY DEF Store
<1> HIDE DEF x, y
<1>2. [a EXCEPT !.chunks = x, !.received_count = y] =
        [[a EXCEPT !.chunks = x] EXCEPT !.received_count = y]
  OBVIOUS
<1>3. [a EXCEPT !.chunks = x] = [chunks |-> x, chunk_count |-> a.chunk_count, dims |-> a.dims,
                                 received_count |-> a.received_count]
  BY DEF AssemblyOf
<1>4. Store(a, c) = [chunks |-> x, chunk_count |-> a.chunk_count, dims |-> a.dims,
                     received_count |-> y]
  BY <1>1, <1>2, <1>3
<1>5. QED
  BY <1>4 DEF x, y

\* Storing a fresh chunk fills one more slot, with the right slice.
LEMMA StoreOK ==
  ASSUME NEW f \in Frames, NEW i \in Slots(f), NEW a \in AssemblyOf(f),
         Consistent(f, a), a.received_count < ChunkCount[f], Fresh(a, Sent(f, i))
  PROVE  LET b == Store(a, Sent(f, i)) IN
           /\ b \in AssemblyOf(f) /\ Consistent(f, b)
           /\ b.received_count = a.received_count + 1
           /\ b.dims = a.dims
           /\ Filled(b) = Filled(a) \cup {i}
<1> DEFINE b == Store(a, Sent(f, i))
<1>1. b = [ chunks |-> [a.chunks EXCEPT ![i] = Slice(f, i)], chunk_count |-> a.chunk_count,
            dims |-> a.dims, received_count |-> a.received_count + 1 ]
  <2>1. b = [ chunks |-> [a.chunks EXCEPT ![Sent(f, i).chunk_idx] = Sent(f, i).data],
              chunk_count |-> a.chunk_count,
              dims |-> a.dims, received_count |-> a.received_count + 1 ]
    BY StoreFields
  <2>2. Sent(f, i).chunk_idx = i /\ Sent(f, i).data = Slice(f, i)
    BY SentFields
  <2>3. QED
    BY <2>1, <2>2
<1>2. a.chunks \in [Slots(f) -> {Slice(f, j) : j \in Slots(f)} \cup {NoData}]
  BY DEF AssemblyOf
<1>3. b.chunks \in [Slots(f) -> {Slice(f, j) : j \in Slots(f)} \cup {NoData}]
  BY <1>1, <1>2
<1>4. a.received_count + 1 \in 0 .. ChunkCount[f]
  BY SlotsFinite DEF AssemblyOf
<1>5. b \in AssemblyOf(f)
  BY <1>1, <1>3, <1>4 DEF AssemblyOf
<1>6. Filled(b) = Filled(a) \cup {i} /\ i \notin Filled(a)
  BY <1>1, <1>2, <1>3, AbsenceAssumption, SentFields DEF Filled, Fresh
<1>7. Cardinality(Filled(b)) = Cardinality(Filled(a)) + 1
  BY <1>6, FilledFinite, FS_AddElement
<1>8. Consistent(f, b)
  BY <1>1, <1>2, <1>7 DEF Consistent
<1>9. QED
  BY <1>1, <1>5, <1>6, <1>8

\* A full counter means that every slot holds its slice.
LEMMA FullAssembly ==
  ASSUME NEW f \in Frames, NEW a \in AssemblyOf(f),
         Consistent(f, a), a.received_count = ChunkCount[f]
  PROVE  /\ Filled(a) = Slots(f)
         /\ a.chunks = Whole(f)
<1>1. Filled(a) = Slots(f)
  BY FilledFinite, SlotsFinite, FS_Subset DEF Consistent
<1>2. a.chunks = [i \in Slots(f) |-> a.chunks[i]]
  BY DEF AssemblyOf
<1>3. \A i \in Slots(f) : a.chunks[i] = Slice(f, i)
  BY <1>1 DEF Filled, Consistent
<1>4. QED
  BY <1>1, <1>2, <1>3 DEF Whole
-----------------------------------------------------------------------------
(* The inductive invariant: the three invariants need one another.  A      *)
(* completed frame is exact because its assembly was consistent and full,  *)
(* and an assembly stays consistent because the chunks in flight are       *)
(* genuine, which is part of TypeOK.                                       *)

IInv == TypeOK /\ AssemblyProgress /\ CompletedExact

\* The assembly that a chunk of frame f is added to.
LEMMA EntryOK ==
  ASSUME TypeOK, AssemblyProgress, NEW f \in Frames, NEW i \in Slots(f)
  PROVE  LET a == Entry(assemblies, Sent(f, i)) IN
           /\ a \in AssemblyOf(f) /\ Consistent(f, a)
           /\ a.received_count \in 0 .. ChunkCount[f] - 1
           /\ assemblies[f] = Absent => /\ Fresh(a, Sent(f, i)) /\ Filled(a) = {}
                                      /\ a.dims = Sent(f, i).dims
           /\ assemblies[f] # Absent => a = assemblies[f] /\ a.received_count # 0
<1> DEFINE a == Entry(assemblies, Sent(f, i))
<1>1. Sent(f, i).msg_id = f
  BY SentFields
<1>2. CASE assemblies[f] = Absent
  <2>1. a = NewAssembly(Sent(f, i))
    BY <1>1, <1>2 DEF Entry
  <2>2. QED
    BY <1>2, <2>1, NewAssemblyOK, SlotsFinite
<1>3. CASE assemblies[f] # Absent
  <2>1. a = assemblies[f]
    BY <1>1, <1>3 DEF Entry
  <2>2. QED
    BY <1>3, <2>1, SlotsFinite DEF TypeOK, AssemblyProgress
<1>4. QED
  BY <1>2, <1>3

\* The last missing chunk removes the entry and yields the frame's own slices.
LEMMA CompletionOK ==
  ASSUME TypeOK, AssemblyProgress, NEW f \in Frames, NEW i \in Slots(f),
         Completes(Entry(assemblies, Sent(f, i)), Sent(f, i))
  PROVE  /\ Fed(assemblies, Sent(f, i)) = [assemblies EXCEPT ![f] = Absent]
         /\ Output(assemblies, Sent(f, i)) \in Completion
         /\ Output(assemblies, Sent(f, i)).msg_id = f
         /\ Output(assemblies, Sent(f, i)).dims = Entry(assemblies, Sent(f, i)).dims
         /\ Filled(Entry(assemblies, Sent(f, i))) \cup {i} = Slots(f)
<1> DEFINE c == Sent(f, i)
           a == Entry(assemblies, c)
           b == Store(a, c)
<1>1. a \in AssemblyOf(f) /\ Consistent(f, a) /\ a.received_count < ChunkCount[f]
      /\ a.chunk_count = ChunkCount[f]
  BY EntryOK, SlotsFinite DEF AssemblyOf
<1>2. Fresh(a, c) /\ a.received_count + 1 = ChunkCount[f]
  BY <1>1 DEF Completes
<1>3. b \in AssemblyOf(f) /\ Consistent(f, b) /\ b.received_count = ChunkCount[f]
      /\ b.dims = a.dims /\ Filled(b) = Filled(a) \cup {i}
  BY <1>1, <1>2, StoreOK
<1>4. Filled(b) = Slots(f) /\ b.chunks = Whole(f)
  BY <1>3, FullAssembly
<1>5. b.dims \in Dims \cup {NoDims}
  BY <1>3 DEF AssemblyOf
<1>6. c.msg_id = f
  BY SentFields
<1>7. Output(assemblies, c) =
        [msg_id |-> f, data |-> Whole(f), dims |-> b.dims]
  BY <1>4, <1>6 DEF Output
<1>8. Output(assemblies, c) \in Completion
  <2>1. \A d \in Dims \cup {NoDims} :
          [msg_id |-> f, data |-> Whole(f), dims |-> d] \in Completion
    BY DEF Completion
  <2>2. QED
    BY <1>5, <1>7, <2>1
<1>9. Fed(assemblies, c) = [assemblies EXCEPT ![f] = Absent]
  BY <1>6 DEF Fed
<1>10. QED
  BY <1>3, <1>4, <1>7, <1>8, <1>9

\* Any other chunk leaves an assembly in progress, with its slot filled.
LEMMA ProgressOK ==
  ASSUME TypeOK, AssemblyProgress, NEW f \in Frames, NEW i \in Slots(f),
         ~ Completes(Entry(assemblies, Sent(f, i)), Sent(f, i))
  PROVE  \E b \in AssemblyOf(f) :
           /\ Fed(assemblies, Sent(f, i)) = [assemblies EXCEPT ![f] = b]
           /\ Consistent(f, b)
           /\ b.received_count \in 1 .. ChunkCount[f] - 1
           /\ b.dims = Entry(assemblies, Sent(f, i)).dims
           /\ Filled(b) \subseteq Filled(Entry(assemblies, Sent(f, i))) \cup {i}
<1> DEFINE c == Sent(f, i)
           a == Entry(assemblies, c)
           b == add_chunk(a, c)
<1>1. /\ a \in AssemblyOf(f) /\ Consistent(f, a)
      /\ a.received_count \in 0 .. ChunkCount[f] - 1
      /\ a.chunk_count = ChunkCount[f]
      /\ ~ Fresh(a, c) => a.received_count # 0
  BY EntryOK DEF AssemblyOf
<1>2. Fed(assemblies, c) = [assemblies EXCEPT ![f] = b]
  BY SentFields DEF Fed
<1>3. CASE Fresh(a, c)
  <2>1. b = Store(a, c)
    BY <1>3 DEF add_chunk
  <2>2. /\ b \in AssemblyOf(f) /\ Consistent(f, b)
        /\ b.received_count = a.received_count + 1
        /\ b.dims = a.dims
        /\ Filled(b) = Filled(a) \cup {i}
    BY <1>1, <1>3, <2>1, StoreOK, SlotsFinite
  <2>3. a.received_count + 1 # ChunkCount[f]
    BY <1>1, <1>3 DEF Completes
  <2>4. b.received_count \in 1 .. ChunkCount[f] - 1
    BY <1>1, <2>2, <2>3, SlotsFinite
  <2>5. QED
    BY <1>2, <2>2, <2>4
<1>4. CASE ~ Fresh(a, c)
  <2>1. b = a
    BY <1>4 DEF add_chunk
  <2>2. a.received_count \in 1 .. ChunkCount[f] - 1
    BY <1>1, <1>4, SlotsFinite
  <2>3. QED
    BY <1>1, <1>2, <2>1, <2>2
<1>5. QED
  BY <1>3, <1>4

\* The chunk that ReceiveChunk is given comes from the wire.
LEMMA OnTheWire ==
  ASSUME TypeOK, NEW c \in net
  PROVE  \E f \in Frames : \E i \in Slots(f) : c = Sent(f, i)
BY WireChunk DEF TypeOK

LEMMA InitIInv == Init => IInv
<1> SUFFICES ASSUME Init PROVE IInv
  OBVIOUS
<1>1. TypeOK
  <2>1. 1 \in Frames /\ 0 \in Slots(1) /\ 1 \in 1 .. MaxFrame + 1
        /\ 0 \in 0 .. MaxSendRetries - 1 /\ 0 \in 0 .. MaxDuplicates
    BY FrameAssumption, SlotsFinite DEF Frames, Slots
  <2>2. assemblies = [f \in Frames |-> assemblies[f]]
        /\ \A f \in Frames : assemblies[f] = Absent
    BY DEF Init
  <2>3. QED
    BY <2>1, <2>2 DEF Init, TypeOK
<1>2. AssemblyProgress
  BY DEF Init, AssemblyProgress
<1>3. CompletedExact
  BY DEF Init, CompletedExact
<1>4. QED
  BY <1>1, <1>2, <1>3 DEF IInv

\* A step of the sender.
LEMMA SenderKeepsIInv ==
  ASSUME IInv, SendChunk \/ SendRetry \/ SendAbandon
  PROVE  IInv'
<1> USE DEF IInv
<1>1. UNCHANGED <<duplicates, assemblies, completed, cleanup_due>> /\ lost' \in BOOLEAN
  BY DEF SendChunk, SendRetry, SendAbandon, TypeOK
<1>2. /\ frame' \in 1 .. MaxFrame + 1
      /\ idx' \in Nat
      /\ frame' \in Frames => idx' \in Slots(frame')
      /\ attempts' \in 0 .. MaxSendRetries - 1
  <2>1. /\ frame \in Frames
        /\ frame \in 1 .. MaxFrame /\ idx \in 0 .. ChunkCount[frame] - 1
        /\ MaxSendRetries \in Nat \ {0} /\ MaxFrame \in Nat
        /\ ChunkCount[frame] \in Nat \ {0}
    BY FrameAssumption, SlotsFinite DEF TypeOK, SendChunk, SendRetry, SendAbandon, Frames, Slots
  <2>2. \A g \in Frames : ChunkCount[g] \in Nat \ {0}
    BY SlotsFinite
  <2>3. CASE SendChunk
    BY <2>1, <2>2, <2>3 DEF SendChunk, NextFrame, Slots, Frames
  <2>4. CASE SendRetry
    BY <2>1, <2>4 DEF SendRetry, TypeOK, Slots
  <2>5. CASE SendAbandon
    BY <2>1, <2>2, <2>5 DEF SendAbandon, NextFrame, Slots, Frames
  <2>6. QED
    BY <2>3, <2>4, <2>5
<1>3. net' \subseteq Wire
  <2>1. CASE SendChunk
    <3>1. Sent(frame, idx) \in Wire
      BY <2>1, SentFields DEF SendChunk, TypeOK
    <3>2. QED
      BY <2>1, <3>1 DEF SendChunk, Sent, TypeOK
  <2>2. CASE SendRetry \/ SendAbandon
    BY <2>2 DEF SendRetry, SendAbandon, TypeOK
  <2>3. QED
    BY <2>1, <2>2
<1>4. TypeOK'
  BY <1>1, <1>2, <1>3 DEF TypeOK
<1>5. QED
  BY <1>1, <1>4 DEF AssemblyProgress, CompletedExact

\* A chunk is received.
LEMMA ReceiveKeepsIInv ==
  ASSUME IInv, NEW c \in net, ReceiveChunk(c)
  PROVE  IInv'
<1> USE DEF IInv
<1>0. PICK f \in Frames : \E i \in Slots(f) : c = Sent(f, i)
  BY OnTheWire
<1>1. PICK i \in Slots(f) : c = Sent(f, i)
  BY <1>0
<1>2. /\ UNCHANGED <<frame, idx, attempts, cleanup_due, lost>>
      /\ assemblies' = Fed(assemblies, c)
  BY DEF ReceiveChunk, sender
<1>3. net' \subseteq Wire /\ duplicates' \in 0 .. MaxDuplicates
  BY FrameAssumption DEF ReceiveChunk, TypeOK
<1>4. \E x \in AssemblyOf(f) \cup {Absent} :
        /\ assemblies' = [assemblies EXCEPT ![f] = x]
        /\ x # Absent => /\ Consistent(f, x)
                         /\ x.received_count \in 1 .. ChunkCount[f] - 1
  <2>1. CASE Completes(Entry(assemblies, c), c)
    BY <1>1, <1>2, <2>1, CompletionOK
  <2>2. CASE ~ Completes(Entry(assemblies, c), c)
    BY <1>1, <1>2, <2>2, ProgressOK
  <2>3. QED
    BY <2>1, <2>2
<1>5. TypeOK'
  BY <1>2, <1>3, <1>4 DEF TypeOK
<1>6. AssemblyProgress'
  BY <1>4 DEF AssemblyProgress, TypeOK
<1>7. CompletedExact'
  <2>1. CASE Completes(Entry(assemblies, c), c)
    <3>1. Output(assemblies, c) \in Completion
      BY <1>1, <2>1, CompletionOK
    <3>2. QED
      BY <2>1, <3>1 DEF ReceiveChunk, CompletedExact
  <2>2. CASE ~ Completes(Entry(assemblies, c), c)
    BY <2>2 DEF ReceiveChunk, CompletedExact
  <2>3. QED
    BY <2>1, <2>2
<1>8. QED
  BY <1>5, <1>6, <1>7

\* The clean-up leaves the map as it is.
LEMMA CleanupKeepsMap ==
  ASSUME IInv, Cleanup
  PROVE  assemblies' = assemblies
<1>1. \A f \in Frames : assemblies[f] # Absent => Retained(assemblies[f])
  BY SlotsFinite DEF IInv, TypeOK, AssemblyProgress, AssemblyOf, Retained
<1>2. assemblies' = [f \in Frames |-> assemblies[f]]
  BY <1>1 DEF Cleanup
<1>3. QED
  BY <1>2 DEF IInv, TypeOK

LEMMA NextIInv == IInv /\ [Next]_vars => IInv'
<1> SUFFICES ASSUME IInv, [Next]_vars PROVE IInv'
  OBVIOUS
<1>1. CASE SendChunk \/ SendRetry \/ SendAbandon
  BY <1>1, SenderKeepsIInv
<1>2. ASSUME NEW c \in net, Lose(c) PROVE IInv'
  BY <1>2 DEF Lose, sender, IInv, TypeOK, AssemblyProgress, CompletedExact
<1>3. ASSUME NEW c \in net, ReceiveChunk(c) PROVE IInv'
  BY <1>3, ReceiveKeepsIInv
<1>4. CASE CleanupTimer
  BY <1>4 DEF CleanupTimer, sender, IInv, TypeOK, AssemblyProgress, CompletedExact
<1>5. CASE Cleanup
  <2>1. assemblies' = assemblies
    BY <1>5, CleanupKeepsMap
  <2>2. QED
    BY <1>5, <2>1 DEF Cleanup, sender, IInv, TypeOK, AssemblyProgress, CompletedExact
<1>6. CASE UNCHANGED vars
  BY <1>6 DEF vars, IInv, TypeOK, AssemblyProgress, CompletedExact
<1>7. QED
  BY <1>1, <1>2, <1>3, <1>4, <1>5, <1>6 DEF Next

LEMMA InvariantIInv == Spec => []IInv
BY InitIInv, NextIInv, PTL DEF Spec

\* The sender, the network and the client's map are always well formed.
THEOREM Typing == Spec => []TypeOK
<1>1. IInv => TypeOK
  BY DEF IInv
<1>2. QED
  BY InvariantIInv, <1>1, PTL

\* Whatever the network does, every entry of the map is a consistent assembly in
\* progress (feed_frame_chunk, lib.rs 348-390).
THEOREM Progress == Spec => []AssemblyProgress
<1>1. IInv => AssemblyProgress
  BY DEF IInv
<1>2. QED
  BY InvariantIInv, <1>1, PTL

\* Whatever the network does, a completed frame is all of one frame's slices, in
\* order (feed_frame_chunk, lib.rs 367-390).
THEOREM Exactness == Spec => []CompletedExact
<1>1. IInv => CompletedExact
  BY DEF IInv
<1>2. QED
  BY InvariantIInv, <1>1, PTL

-----------------------------------------------------------------------------
(* What FrameAssembly guarantees only on a network that does not duplicate *)
(* datagrams, and only on one that, moreover, does not reorder them.       *)
(*                                                                         *)
(* A slot of an assembly is filled at most once on such a network, because *)
(* a chunk that has arrived is gone: it was sent, and it is not in flight  *)
(* any more.  That every filled slot, and every slot of a completed frame, *)
(* is gone is what makes the invariants inductive.                         *)

\* Chunk i of frame f was sent and is no longer in flight.
Gone(f, i) ==
    /\ Earlier(f, i, frame, idx)
    /\ \A c \in net : c.msg_id # f \/ c.chunk_idx # i

SentBefore == \A c \in net : Earlier(c.msg_id, c.chunk_idx, frame, idx)

FilledGone ==
    \A f \in Frames : assemblies[f] # Absent =>
        \A i \in Filled(assemblies[f]) : Gone(f, i)

CompletedGone ==
    \A k \in 1 .. Len(completed) :
        \A i \in Slots(completed[k].msg_id) : Gone(completed[k].msg_id, i)

OnceInv == IInv /\ SentBefore /\ FilledGone /\ CompletedGone /\ NoResidue /\ CompletedOnce

\* Two different chunks of the wire differ in frame or index.
LEMMA WireIdentity ==
  ASSUME NEW c \in Wire, NEW d \in Wire, c.msg_id = d.msg_id, c.chunk_idx = d.chunk_idx
  PROVE  c = d
<1>1. PICK f \in Frames : \E i \in Slots(f) : c = Sent(f, i)
  BY WireChunk
<1>2. PICK i \in Slots(f) : c = Sent(f, i)
  BY <1>1
<1>3. PICK g \in Frames : \E j \in Slots(g) : d = Sent(g, j)
  BY WireChunk
<1>4. PICK j \in Slots(g) : d = Sent(g, j)
  BY <1>3
<1>5. f = g /\ i = j
  BY <1>2, <1>4, SentFields
<1>6. QED
  BY <1>2, <1>4, <1>5

LEMMA NetFields ==
  ASSUME TypeOK, NEW c \in net
  PROVE  c.msg_id \in Frames /\ c.chunk_idx \in Slots(c.msg_id) /\ c = Sent(c.msg_id, c.chunk_idx)
<1>1. PICK f \in Frames : \E i \in Slots(f) : c = Sent(f, i)
  BY OnTheWire
<1>2. PICK i \in Slots(f) : c = Sent(f, i)
  BY <1>1
<1>3. QED
  BY <1>2, SentFields

\* The frames that completed, and their slices.
LEMMA CompletedFrame ==
  ASSUME CompletedExact, NEW k \in 1 .. Len(completed)
  PROVE  completed[k].msg_id \in Frames
BY DEF CompletedExact, Completion

\* What is in flight after a step that does not duplicate: at most one chunk
\* more, the one the sender was at.  And the sender only advances.
LEMMA Advance ==
  ASSUME MaxDuplicates = 0, IInv, [Next]_vars
  PROVE  /\ \A c \in net' : c \in net \/ (c.msg_id = frame /\ c.chunk_idx = idx
                                          /\ Earlier(frame, idx, frame', idx'))
         /\ \A f \in Frames : \A i \in Slots(f) :
               Earlier(f, i, frame, idx) => Earlier(f, i, frame', idx')
<1> DEFINE A == \A c \in net' : c \in net \/ (c.msg_id = frame /\ c.chunk_idx = idx
                                          /\ Earlier(frame, idx, frame', idx'))
           B == \A f \in Frames : \A i \in Slots(f) :
                   Earlier(f, i, frame, idx) => Earlier(f, i, frame', idx')
<1>0. /\ frame \in Nat /\ idx \in Nat /\ \A f \in Frames : f \in Nat
      /\ \A f \in Frames : \A i \in Slots(f) : i \in Nat
  BY FrameAssumption, SlotsFinite DEF IInv, TypeOK, Frames, Slots
<1>1. CASE SendChunk
  <2>1. \/ frame' = frame /\ idx' = idx + 1
        \/ frame' = frame + 1
    BY <1>1 DEF SendChunk, NextFrame
  <2>2. B /\ Earlier(frame, idx, frame', idx')
    BY <1>0, <2>1 DEF Earlier
  <2>3. Sent(frame, idx).msg_id = frame /\ Sent(frame, idx).chunk_idx = idx
        /\ net' = net \cup {Sent(frame, idx)}
    BY <1>1, SentFields DEF SendChunk, Sent, IInv, TypeOK
  <2>4. QED
    BY <2>2, <2>3
<1>2. CASE SendAbandon
  <2>1. frame' = frame + 1 /\ net' = net
    BY <1>2 DEF SendAbandon, NextFrame
  <2>2. QED
    BY <1>0, <2>1 DEF Earlier
<1>3. ASSUME NEW c \in net, Lose(c) \/ ReceiveChunk(c) PROVE A /\ B
  BY <1>3 DEF Lose, ReceiveChunk, sender
<1>4. CASE SendRetry \/ CleanupTimer \/ Cleanup \/ UNCHANGED vars
  BY <1>4 DEF SendRetry, CleanupTimer, Cleanup, sender, vars
<1>5. QED
  BY <1>1, <1>2, <1>3, <1>4 DEF Next

\* What is gone stays gone.
LEMMA GoneStays ==
  ASSUME MaxDuplicates = 0, IInv, [Next]_vars,
         NEW f \in Frames, NEW i \in Slots(f), Gone(f, i)
  PROVE  Gone(f, i)'
<1>1. Earlier(f, i, frame', idx')
  BY Advance DEF Gone
<1>2. ~ (frame = f /\ idx = i)
  BY FrameAssumption, SlotsFinite DEF Gone, Earlier, Frames, Slots
<1>3. \A c \in net' : c.msg_id # f \/ c.chunk_idx # i
  BY <1>2, Advance DEF Gone
<1>4. QED
  BY <1>1, <1>3 DEF Gone

LEMMA SentBeforeStays ==
  ASSUME MaxDuplicates = 0, IInv, SentBefore, [Next]_vars
  PROVE  SentBefore'
<1> SUFFICES ASSUME NEW c \in net' PROVE Earlier(c.msg_id, c.chunk_idx, frame', idx')
  BY DEF SentBefore
<1>1. CASE c \in net
  BY <1>1, Advance, NetFields DEF SentBefore, IInv
<1>2. CASE c \notin net
  BY <1>2, Advance
<1>3. QED
  BY <1>1, <1>2

\* The chunk that is received is gone afterwards.
LEMMA ReceivedGone ==
  ASSUME MaxDuplicates = 0, IInv, SentBefore, NEW c \in net, ReceiveChunk(c)
  PROVE  Gone(c.msg_id, c.chunk_idx)'
<1>1. net' = net \ {c} /\ frame' = frame /\ idx' = idx
  BY DEF ReceiveChunk, sender, IInv, TypeOK
<1>2. \A d \in net' : d.msg_id # c.msg_id \/ d.chunk_idx # c.chunk_idx
  BY <1>1, WireIdentity DEF IInv, TypeOK
<1>3. QED
  BY <1>1, <1>2 DEF SentBefore, Gone
-----------------------------------------------------------------------------
(* Without duplicates. *)

\* Which slots of the map are filled after a chunk of frame f: those that were,
\* and its own.
LEMMA FilledAfter ==
  ASSUME IInv, NEW c \in net, ReceiveChunk(c), NEW f \in Frames,
         assemblies'[f] # Absent, NEW i \in Filled(assemblies'[f])
  PROVE  \/ c.msg_id = f /\ c.chunk_idx = i
         \/ assemblies[f] # Absent /\ i \in Filled(assemblies[f])
<1> DEFINE g == c.msg_id
           j == c.chunk_idx
           a == Entry(assemblies, c)
<1>1. g \in Frames /\ j \in Slots(g) /\ c = Sent(g, j)
  BY NetFields DEF IInv
<1>2. assemblies' = Fed(assemblies, c) /\ assemblies = [h \in Frames |-> assemblies[h]]
  BY DEF ReceiveChunk, IInv, TypeOK
<1>3. CASE f # g
  BY <1>2, <1>3 DEF Fed
<1>4. CASE f = g
  <2>1. ~ Completes(a, c)
    BY <1>1, <1>2, <1>4 DEF Fed
  <2>2. PICK b \in AssemblyOf(g) : /\ Fed(assemblies, c) = [assemblies EXCEPT ![g] = b]
                                   /\ Filled(b) \subseteq Filled(a) \cup {j}
    BY <1>1, <2>1, ProgressOK DEF IInv
  <2>3. assemblies'[f] = b
    BY <1>1, <1>2, <1>4, <2>2
  <2>4. i = j \/ i \in Filled(a)
    BY <2>2, <2>3
  <2>5. CASE assemblies[g] = Absent
    BY <1>1, <1>4, <2>4, <2>5, EntryOK DEF IInv
  <2>6. CASE assemblies[g] # Absent
    BY <1>1, <1>4, <2>4, <2>6, EntryOK DEF IInv
  <2>7. QED
    BY <2>5, <2>6
<1>5. QED
  BY <1>3, <1>4

\* When a frame completes, each of its slots has just been filled or was before.
LEMMA FilledAtCompletion ==
  ASSUME IInv, NEW c \in net, Completes(Entry(assemblies, c), c), NEW i \in Slots(c.msg_id)
  PROVE  \/ c.chunk_idx = i
         \/ assemblies[c.msg_id] # Absent /\ i \in Filled(assemblies[c.msg_id])
<1>1. c.msg_id \in Frames /\ c.chunk_idx \in Slots(c.msg_id) /\ c = Sent(c.msg_id, c.chunk_idx)
  BY NetFields DEF IInv
<1>2. i = c.chunk_idx \/ i \in Filled(Entry(assemblies, c))
  BY <1>1, CompletionOK DEF IInv
<1>3. QED
  BY <1>1, <1>2, EntryOK DEF IInv

\* What is appended to completed when frame f completes.
LEMMA CompletedAfter ==
  ASSUME IInv, NEW c \in net, ReceiveChunk(c), Completes(Entry(assemblies, c), c)
  PROVE  /\ Len(completed') = Len(completed) + 1
         /\ \A k \in 1 .. Len(completed) : completed'[k] = completed[k]
         /\ completed'[Len(completed) + 1].msg_id = c.msg_id
         /\ assemblies' = [assemblies EXCEPT ![c.msg_id] = Absent]
         /\ Len(completed) \in Nat
<1>1. c.msg_id \in Frames /\ c.chunk_idx \in Slots(c.msg_id) /\ c = Sent(c.msg_id, c.chunk_idx)
  BY NetFields DEF IInv
<1>2. completed' = Append(completed, Output(assemblies, c)) /\ assemblies' = Fed(assemblies, c)
  BY DEF ReceiveChunk
<1>3. completed \in Seq(Completion) /\ Output(assemblies, c) \in Completion
      /\ Output(assemblies, c).msg_id = c.msg_id
      /\ Fed(assemblies, c) = [assemblies EXCEPT ![c.msg_id] = Absent]
  BY <1>1, CompletionOK DEF IInv, CompletedExact
<1>4. QED
  BY <1>2, <1>3

\* A frame that has completed is not completed again.
LEMMA NotAgain ==
  ASSUME OnceInv, NEW c \in net, NEW k \in 1 .. Len(completed)
  PROVE  completed[k].msg_id # c.msg_id
BY NetFields DEF OnceInv, CompletedGone, Gone, IInv

LEMMA ReceiveKeepsOnce ==
  ASSUME MaxDuplicates = 0, OnceInv, NEW c \in net, ReceiveChunk(c)
  PROVE  FilledGone' /\ CompletedGone' /\ NoResidue' /\ CompletedOnce'
<1>0. [Next]_vars /\ IInv /\ IInv' /\ SentBefore
  BY NextIInv DEF Next, OnceInv
<1>1. c.msg_id \in Frames /\ c.chunk_idx \in Slots(c.msg_id)
  BY NetFields, <1>0 DEF IInv
<1>2. FilledGone'
  <2> SUFFICES ASSUME NEW f \in Frames, assemblies'[f] # Absent, NEW i \in Filled(assemblies'[f])
               PROVE  Gone(f, i)'
    BY DEF FilledGone
  <2>1. CASE c.msg_id = f /\ c.chunk_idx = i
    BY <1>0, <2>1, ReceivedGone
  <2>2. CASE assemblies[f] # Absent /\ i \in Filled(assemblies[f])
    <3>1. i \in Slots(f)
      BY <1>0, <2>2, FilledFinite DEF IInv, TypeOK
    <3>2. QED
      BY <1>0, <2>2, <3>1, GoneStays DEF OnceInv, FilledGone
  <2>3. QED
    BY <1>0, <2>1, <2>2, FilledAfter
<1>3. CASE ~ Completes(Entry(assemblies, c), c)
  <2>1. completed' = completed
    BY <1>3 DEF ReceiveChunk
  <2>2. CompletedGone'
    BY <1>0, <2>1, GoneStays, CompletedFrame DEF OnceInv, CompletedGone, IInv
  <2>3. NoResidue'
    <3> SUFFICES ASSUME NEW k \in 1 .. Len(completed)
                 PROVE  assemblies'[completed[k].msg_id] = Absent
      BY <2>1 DEF NoResidue
    <3>1. completed[k].msg_id # c.msg_id
      BY NotAgain
    <3>2. QED
      BY <1>0, <1>1, <3>1, CompletedFrame
         DEF OnceInv, NoResidue, ReceiveChunk, Fed, IInv, TypeOK
  <2>4. CompletedOnce'
    BY <2>1 DEF OnceInv, CompletedOnce
  <2>5. QED
    BY <1>2, <2>2, <2>3, <2>4
<1>4. CASE Completes(Entry(assemblies, c), c)
  <2> DEFINE n == Len(completed)
  <2>1. /\ n \in Nat /\ Len(completed') = n + 1
        /\ \A k \in 1 .. n : completed'[k] = completed[k]
        /\ completed'[n + 1].msg_id = c.msg_id
        /\ assemblies' = [assemblies EXCEPT ![c.msg_id] = Absent]
    BY <1>0, <1>4, CompletedAfter
  <2>2. \A k \in 1 .. n + 1 : k \in 1 .. n \/ k = n + 1
    BY <2>1
  <2>3. CompletedGone'
    <3>1. ASSUME NEW k \in 1 .. n, NEW f, f = completed[k].msg_id, NEW i \in Slots(f)
          PROVE  Gone(f, i)'
      BY <1>0, <3>1, GoneStays, CompletedFrame DEF OnceInv, CompletedGone, IInv
    <3>2. ASSUME NEW i \in Slots(c.msg_id) PROVE Gone(c.msg_id, i)'
      <4>1. CASE c.chunk_idx = i
        BY <1>0, <4>1, ReceivedGone
      <4>2. CASE assemblies[c.msg_id] # Absent /\ i \in Filled(assemblies[c.msg_id])
        BY <1>0, <1>1, <4>2, GoneStays DEF OnceInv, FilledGone
      <4>3. QED
        BY <1>0, <1>4, <4>1, <4>2, FilledAtCompletion
    <3>3. QED
      BY <2>1, <2>2, <3>1, <3>2 DEF CompletedGone
  <2>4. NoResidue'
    <3> SUFFICES ASSUME NEW k \in 1 .. n + 1
                 PROVE  assemblies'[completed'[k].msg_id] = Absent
      BY <2>1 DEF NoResidue
    <3>1. CASE k \in 1 .. n
      BY <1>0, <1>1, <2>1, <3>1, CompletedFrame DEF OnceInv, NoResidue, IInv, TypeOK
    <3>2. CASE k = n + 1
      BY <1>0, <1>1, <2>1, <3>2 DEF IInv, TypeOK
    <3>3. QED
      BY <2>2, <3>1, <3>2
  <2>5. CompletedOnce'
    <3> SUFFICES ASSUME NEW j \in 1 .. n + 1, NEW k \in 1 .. n + 1,
                        completed'[j].msg_id = completed'[k].msg_id
                 PROVE  j = k
      BY <2>1 DEF CompletedOnce
    <3>1. \A m \in 1 .. n : completed'[m].msg_id # c.msg_id
      BY <2>1, NotAgain
    <3>2. CASE j \in 1 .. n /\ k \in 1 .. n
      BY <2>1, <3>2 DEF OnceInv, CompletedOnce
    <3>3. QED
      BY <2>1, <2>2, <3>1, <3>2
  <2>6. QED
    BY <1>2, <2>3, <2>4, <2>5
<1>5. QED
  BY <1>3, <1>4

\* A step that leaves the client's map and its output as they are.
LEMMA OtherKeepsOnce ==
  ASSUME MaxDuplicates = 0, OnceInv, [Next]_vars, UNCHANGED <<assemblies, completed>>
  PROVE  FilledGone' /\ CompletedGone' /\ NoResidue' /\ CompletedOnce'
<1>1. FilledGone'
  <2> SUFFICES ASSUME NEW f \in Frames, assemblies[f] # Absent, NEW i \in Filled(assemblies[f])
               PROVE  Gone(f, i)'
    BY DEF FilledGone
  <2>1. i \in Slots(f)
    BY FilledFinite DEF OnceInv, IInv, TypeOK
  <2>2. QED
    BY <2>1, GoneStays DEF OnceInv, FilledGone
<1>2. CompletedGone'
  BY GoneStays, CompletedFrame DEF OnceInv, CompletedGone, IInv
<1>3. NoResidue' /\ CompletedOnce'
  BY DEF OnceInv, NoResidue, CompletedOnce
<1>4. QED
  BY <1>1, <1>2, <1>3

LEMMA NextOnce ==
  ASSUME MaxDuplicates = 0, OnceInv, [Next]_vars
  PROVE  OnceInv'
<1>1. IInv' /\ SentBefore'
  BY NextIInv, SentBeforeStays DEF OnceInv
<1>2. FilledGone' /\ CompletedGone' /\ NoResidue' /\ CompletedOnce'
  <2>1. ASSUME NEW c \in net, ReceiveChunk(c)
        PROVE  FilledGone' /\ CompletedGone' /\ NoResidue' /\ CompletedOnce'
    BY <2>1, ReceiveKeepsOnce
  <2>2. CASE SendChunk \/ SendRetry \/ SendAbandon \/ CleanupTimer \/ UNCHANGED vars
             \/ \E c \in net : Lose(c)
    <3>1. UNCHANGED <<assemblies, completed>>
      BY <2>2 DEF SendChunk, SendRetry, SendAbandon, CleanupTimer, Lose, vars
    <3>2. QED
      BY <3>1, OtherKeepsOnce
  <2>3. CASE Cleanup
    <3>1. UNCHANGED <<assemblies, completed>>
      BY <2>3, CleanupKeepsMap DEF OnceInv, Cleanup
    <3>2. QED
      BY <3>1, OtherKeepsOnce
  <2>4. QED
    BY <2>1, <2>2, <2>3 DEF Next
<1>3. QED
  BY <1>1, <1>2 DEF OnceInv

LEMMA InitOnce == Init => OnceInv
BY InitIInv DEF Init, OnceInv, SentBefore, FilledGone, CompletedGone, NoResidue, CompletedOnce

LEMMA InvariantOnce ==
  ASSUME MaxDuplicates = 0
  PROVE  Spec => []OnceInv
<1>1. OnceInv /\ [Next]_vars => OnceInv'
  BY NextOnce
<1>2. QED
  BY InitOnce, <1>1, PTL DEF Spec

\* On a network that does not duplicate datagrams no frame is handed to the
\* decoder twice (feed_frame_chunk_typed, client/src/net.rs 511-533).
THEOREM Once ==
  ASSUME MaxDuplicates = 0
  PROVE  Spec => []CompletedOnce
<1>1. OnceInv => CompletedOnce
  BY DEF OnceInv
<1>2. QED
  BY InvariantOnce, <1>1, PTL

\* On a network that does not duplicate datagrams a completed frame leaves nothing
\* behind in the map (feed_frame_chunk, lib.rs 367-390).
THEOREM Residue ==
  ASSUME MaxDuplicates = 0
  PROVE  Spec => []NoResidue
<1>1. OnceInv => NoResidue
  BY DEF OnceInv
<1>2. QED
  BY InvariantOnce, <1>1, PTL
-----------------------------------------------------------------------------
(* Without duplicates and in order.  What completed is older than all that *)
(* is in flight; and an assembly whose dimensions are missing has missed   *)
(* chunk 0 for good, so that it can never complete.                        *)

CompletedEarlier ==
    \A k \in 1 .. Len(completed) : \A c \in net : completed[k].msg_id < c.msg_id

DimsKnown ==
    \A f \in Frames : assemblies[f] # Absent =>
        \/ assemblies[f].dims = FrameDims[f]
        \/ Gone(f, 0) /\ 0 \notin Filled(assemblies[f])

FifoInv == OnceInv /\ CompletedEarlier /\ InOrder /\ DimsKnown /\ DimsIntact

LEMMA ZeroSlot ==
  ASSUME NEW f \in Frames
  PROVE  0 \in Slots(f) /\ f \in Nat /\ \A i \in Slots(f) : i \in Nat
BY FrameAssumption, SlotsFinite DEF Frames, Slots

\* The dimensions of the assembly that a received chunk is added to.
LEMMA EntryDims ==
  ASSUME Reorder = FALSE, FifoInv, NEW c \in net, ReceiveChunk(c)
  PROVE  LET f == c.msg_id
             a == Entry(assemblies, c)
         IN  \/ a.dims = FrameDims[f]
             \/ /\ c.chunk_idx # 0
                /\ Earlier(f, 0, frame, idx)
                /\ \A d \in net : d.msg_id # f \/ d.chunk_idx # 0
                /\ assemblies[f] # Absent => 0 \notin Filled(assemblies[f])
<1> DEFINE f == c.msg_id
           i == c.chunk_idx
           a == Entry(assemblies, c)
<1>1. f \in Frames /\ i \in Slots(f) /\ c = Sent(f, i) /\ TypeOK /\ AssemblyProgress
  BY NetFields DEF FifoInv, OnceInv, IInv
<1>2. CASE assemblies[f] = Absent
  <2>1. a.dims = c.dims
    BY <1>1, <1>2, EntryOK
  <2>2. CASE i = 0
    BY <1>1, <2>1, <2>2 DEF Sent, Chunk
  <2>3. CASE i # 0
    <3>1. Earlier(f, i, frame, idx)
      BY DEF FifoInv, OnceInv, SentBefore
    <3>2. Earlier(f, 0, frame, idx) /\ Earlier(f, 0, f, i)
      BY <1>1, <2>3, <3>1, ZeroSlot DEF Earlier, TypeOK, Frames
    <3>3. \A d \in net : ~ Earlier(d.msg_id, d.chunk_idx, f, i)
      BY DEF ReceiveChunk, Deliverable
    <3>4. QED
      BY <1>2, <2>3, <3>2, <3>3
  <2>4. QED
    BY <2>2, <2>3
<1>3. CASE assemblies[f] # Absent
  <2>1. a = assemblies[f]
    BY <1>1, <1>3, EntryOK
  <2>2. QED
    BY <1>1, <1>3, <2>1 DEF FifoInv, DimsKnown, Gone
<1>4. QED
  BY <1>2, <1>3

LEMMA ReceiveKeepsDimsKnown ==
  ASSUME MaxDuplicates = 0, Reorder = FALSE, FifoInv, NEW c \in net, ReceiveChunk(c)
  PROVE  DimsKnown'
<1> DEFINE g == c.msg_id
<1>1. g \in Frames /\ c.chunk_idx \in Slots(g) /\ c = Sent(g, c.chunk_idx) /\ OnceInv
      /\ TypeOK /\ AssemblyProgress /\ [Next]_vars /\ IInv
  BY NetFields DEF FifoInv, OnceInv, IInv, Next
<1>2. /\ assemblies' = Fed(assemblies, c) /\ assemblies = [h \in Frames |-> assemblies[h]]
      /\ net' \subseteq net /\ frame' = frame /\ idx' = idx
  BY <1>1 DEF ReceiveChunk, TypeOK, sender
<1> SUFFICES ASSUME NEW f \in Frames, assemblies'[f] # Absent
             PROVE  \/ assemblies'[f].dims = FrameDims[f]
                    \/ Gone(f, 0)' /\ 0 \notin Filled(assemblies'[f])
  BY DEF DimsKnown
<1>3. CASE f # g
  <2>1. assemblies'[f] = assemblies[f]
    BY <1>2, <1>3 DEF Fed
  <2>2. QED
    BY <1>1, <2>1, GoneStays, ZeroSlot DEF FifoInv, DimsKnown
<1>4. CASE f = g
  <2>1. ~ Completes(Entry(assemblies, c), c)
    BY <1>1, <1>2, <1>4 DEF Fed
  <2>2. assemblies'[f].dims = Entry(assemblies, c).dims
    <3>1. PICK b : /\ Fed(assemblies, c) = [assemblies EXCEPT ![g] = b]
                   /\ b.dims = Entry(assemblies, c).dims
      BY <1>1, <2>1, ProgressOK
    <3>2. QED
      BY <1>1, <1>2, <1>4, <3>1
  <2>3. CASE Entry(assemblies, c).dims = FrameDims[f]
    BY <2>2, <2>3
  <2>4. CASE Entry(assemblies, c).dims # FrameDims[f]
    <3>1. /\ c.chunk_idx # 0 /\ Earlier(f, 0, frame, idx)
          /\ \A d \in net : d.msg_id # f \/ d.chunk_idx # 0
          /\ assemblies[f] # Absent => 0 \notin Filled(assemblies[f])
      BY <1>4, <2>4, EntryDims
    <3>2. Gone(f, 0)'
      BY <1>2, <3>1 DEF Gone
    <3>3. 0 \notin Filled(assemblies'[f])
      BY <1>1, <3>1, FilledAfter
    <3>4. QED
      BY <3>2, <3>3
  <2>5. QED
    BY <2>3, <2>4
<1>5. QED
  BY <1>3, <1>4

\* A frame that completes is older than all that is still in flight, younger
\* than all that completed before, and has the dimensions the host sent.
LEMMA CompletionInOrder ==
  ASSUME MaxDuplicates = 0, Reorder = FALSE, FifoInv, NEW c \in net, ReceiveChunk(c),
         Completes(Entry(assemblies, c), c)
  PROVE  /\ \A d \in net' : c.msg_id < d.msg_id
         /\ Output(assemblies, c).dims = FrameDims[c.msg_id]
<1> DEFINE f == c.msg_id
           i == c.chunk_idx
<1>1. f \in Frames /\ i \in Slots(f) /\ c = Sent(f, i) /\ TypeOK /\ AssemblyProgress /\ IInv
  BY NetFields DEF FifoInv, OnceInv, IInv
<1>2. net' = net \ {c}
  BY <1>1 DEF ReceiveChunk, TypeOK
<1>3. \A j \in Slots(f) : j = i \/ (\A d \in net : d.msg_id # f \/ d.chunk_idx # j)
  BY <1>1, FilledAtCompletion DEF FifoInv, OnceInv, FilledGone, Gone
<1>4. ASSUME NEW d \in net' PROVE f < d.msg_id
  <2>1. d \in net /\ d # c /\ d.msg_id \in Frames /\ d.chunk_idx \in Slots(d.msg_id)
    BY <1>1, <1>2, NetFields
  <2>2. ~ Earlier(d.msg_id, d.chunk_idx, f, i)
    BY <2>1 DEF ReceiveChunk, Deliverable
  <2>3. d.msg_id # f
    BY <1>1, <1>3, <2>1, WireIdentity DEF TypeOK
  <2>4. QED
    BY <1>1, <2>1, <2>2, <2>3, ZeroSlot DEF Earlier
<1>5. Output(assemblies, c).dims = Entry(assemblies, c).dims
  BY <1>1, CompletionOK
<1>6. Entry(assemblies, c).dims = FrameDims[f]
  BY <1>1, <1>3, EntryDims, FilledAtCompletion, ZeroSlot
<1>7. QED
  BY <1>4, <1>5, <1>6

LEMMA ReceiveKeepsFifo ==
  ASSUME MaxDuplicates = 0, Reorder = FALSE, FifoInv, NEW c \in net, ReceiveChunk(c)
  PROVE  CompletedEarlier' /\ InOrder' /\ DimsIntact'
<1>1. c.msg_id \in Frames /\ IInv /\ net' \subseteq net
  BY NetFields DEF FifoInv, OnceInv, IInv, ReceiveChunk, TypeOK
<1>2. CASE ~ Completes(Entry(assemblies, c), c)
  BY <1>1, <1>2 DEF ReceiveChunk, FifoInv, CompletedEarlier, InOrder, DimsIntact
<1>3. CASE Completes(Entry(assemblies, c), c)
  <2> DEFINE n == Len(completed)
  <2>1. /\ n \in Nat /\ Len(completed') = n + 1
        /\ \A k \in 1 .. n : completed'[k] = completed[k]
        /\ completed'[n + 1].msg_id = c.msg_id
    BY <1>1, <1>3, CompletedAfter
  <2>2. \A k \in 1 .. n + 1 : k \in 1 .. n \/ k = n + 1
    BY <2>1
  <2>3. completed'[n + 1].dims = FrameDims[c.msg_id]
    <3>1. completed \in Seq(Completion) /\ Output(assemblies, c) \in Completion
      BY <1>1, <1>3, CompletionOK, NetFields DEF IInv, CompletedExact
    <3>2. completed'[n + 1] = Output(assemblies, c)
      BY <1>3, <3>1 DEF ReceiveChunk
    <3>3. QED
      BY <1>3, <3>2, CompletionInOrder
  <2>4. \A k \in 1 .. n : completed[k].msg_id < c.msg_id
    BY DEF FifoInv, CompletedEarlier
  <2>5. CompletedEarlier'
    <3>1. \A d \in net' : c.msg_id < d.msg_id
      BY <1>3, CompletionInOrder
    <3>2. QED
      BY <1>1, <2>1, <2>2, <3>1 DEF FifoInv, CompletedEarlier
  <2>6. InOrder'
    <3> SUFFICES ASSUME NEW j \in 1 .. n + 1, NEW k \in 1 .. n + 1, j < k
                 PROVE  completed'[j].msg_id < completed'[k].msg_id
      BY <2>1 DEF InOrder
    <3>1. j \in 1 .. n
      BY <2>1
    <3>2. QED
      BY <2>1, <2>2, <2>4, <3>1 DEF FifoInv, InOrder
  <2>7. DimsIntact'
    BY <2>1, <2>2, <2>3 DEF FifoInv, DimsIntact
  <2>8. QED
    BY <2>5, <2>6, <2>7
<1>4. QED
  BY <1>2, <1>3

\* A chunk that is sent is younger than every frame that has completed.
LEMMA OtherKeepsFifo ==
  ASSUME MaxDuplicates = 0, FifoInv, [Next]_vars, UNCHANGED <<assemblies, completed>>
  PROVE  CompletedEarlier' /\ InOrder' /\ DimsKnown' /\ DimsIntact'
<1>1. IInv /\ TypeOK /\ CompletedExact
  BY DEF FifoInv, OnceInv, IInv
<1>2. CompletedEarlier'
  <2> SUFFICES ASSUME NEW k \in 1 .. Len(completed), NEW c \in net'
               PROVE  completed[k].msg_id < c.msg_id
    BY DEF CompletedEarlier
  <2>1. CASE c \in net
    BY <2>1 DEF FifoInv, CompletedEarlier
  <2>2. CASE c \notin net
    <3> DEFINE f == completed[k].msg_id
    <3>1. c.msg_id = frame /\ c.chunk_idx = idx /\ c \in net'
      BY <1>1, <2>2, Advance
    <3>2. f \in Frames /\ \A i \in Slots(f) : Earlier(f, i, frame, idx)
      BY <1>1, CompletedFrame DEF FifoInv, OnceInv, CompletedGone, Gone
    <3>3. TypeOK'
      BY <1>1, NextIInv DEF IInv
    <3>4. frame \in Frames /\ idx \in Slots(frame)
      <4>1. c \in Wire
        BY <3>3 DEF TypeOK
      <4>2. PICK g \in Frames : \E i \in Slots(g) : c = Sent(g, i)
        BY <4>1, WireChunk
      <4>3. QED
        BY <3>1, <4>2, SentFields
    <3> HIDE DEF f
    <3>5. f # frame
      <4>1. ~ Earlier(frame, idx, frame, idx)
        BY <3>4, ZeroSlot DEF Earlier
      <4>2. QED
        BY <3>2, <3>4, <4>1
    <3>6. f < frame
      BY <3>2, <3>4, <3>5, ZeroSlot DEF Earlier
    <3>7. QED
      BY <3>1, <3>6 DEF f
  <2>3. QED
    BY <2>1, <2>2
<1>3. InOrder' /\ DimsIntact'
  BY DEF FifoInv, InOrder, DimsIntact
<1>4. DimsKnown'
  BY <1>1, GoneStays, ZeroSlot DEF FifoInv, DimsKnown
<1>5. QED
  BY <1>2, <1>3, <1>4

LEMMA NextFifo ==
  ASSUME MaxDuplicates = 0, Reorder = FALSE, FifoInv, [Next]_vars
  PROVE  FifoInv'
<1>1. OnceInv'
  BY NextOnce DEF FifoInv
<1>2. CompletedEarlier' /\ InOrder' /\ DimsKnown' /\ DimsIntact'
  <2>1. ASSUME NEW c \in net, ReceiveChunk(c)
        PROVE  CompletedEarlier' /\ InOrder' /\ DimsKnown' /\ DimsIntact'
    BY <2>1, ReceiveKeepsFifo, ReceiveKeepsDimsKnown
  <2>2. CASE SendChunk \/ SendRetry \/ SendAbandon \/ CleanupTimer \/ UNCHANGED vars
             \/ \E c \in net : Lose(c)
    <3>1. UNCHANGED <<assemblies, completed>>
      BY <2>2 DEF SendChunk, SendRetry, SendAbandon, CleanupTimer, Lose, vars
    <3>2. QED
      BY <3>1, OtherKeepsFifo
  <2>3. CASE Cleanup
    <3>1. UNCHANGED <<assemblies, completed>>
      BY <2>3, CleanupKeepsMap DEF FifoInv, OnceInv, Cleanup
    <3>2. QED
      BY <3>1, OtherKeepsFifo
  <2>4. QED
    BY <2>1, <2>2, <2>3 DEF Next
<1>3. QED
  BY <1>1, <1>2 DEF FifoInv

LEMMA InitFifo == Init => FifoInv
BY InitOnce DEF Init, FifoInv, CompletedEarlier, InOrder, DimsKnown, DimsIntact

LEMMA InvariantFifo ==
  ASSUME MaxDuplicates = 0, Reorder = FALSE
  PROVE  Spec => []FifoInv
<1>1. FifoInv /\ [Next]_vars => FifoInv'
  BY NextFifo
<1>2. QED
  BY InitFifo, <1>1, PTL DEF Spec

\* On a network that neither duplicates nor reorders, frames complete in the order
\* they were sent, whatever is lost or abandoned (run_frame_receiver sets
\* last_applied_msg_id without looking at the old value, client/src/net.rs 335-460).
THEOREM Order ==
  ASSUME MaxDuplicates = 0, Reorder = FALSE
  PROVE  Spec => []InOrder
<1>1. FifoInv => InOrder
  BY DEF FifoInv
<1>2. QED
  BY InvariantFifo, <1>1, PTL

\* On such a network a completed frame has the dimensions the host sent, although
\* only chunk 0 carries them (lib.rs 270-285, 332-345).
THEOREM Dimensions ==
  ASSUME MaxDuplicates = 0, Reorder = FALSE
  PROVE  Spec => []DimsIntact
<1>1. FifoInv => DimsIntact
  BY DEF FifoInv
<1>2. QED
  BY InvariantFifo, <1>1, PTL

-----------------------------------------------------------------------------
(* The lengths of payloads and of messages. *)

LEMMA CountBounds ==
  ASSUME NEW n \in Nat
  PROVE  /\ chunk_count(n) \in Nat
         /\ chunk_count(n) * SCREEN_FRAME_CHUNK_DATA_SIZE >= n
         /\ chunk_count(n) * SCREEN_FRAME_CHUNK_DATA_SIZE < n + SCREEN_FRAME_CHUNK_DATA_SIZE
         /\ chunk_count(n) * SCREEN_FRAME_CHUNK_DATA_SIZE \in Nat
  <1> DEFINE C == SCREEN_FRAME_CHUNK_DATA_SIZE
             a == n + C - 1
             q == a \div C
  <1>1. C \in Nat \ {0} /\ a \in Nat
    BY WireAssumption
  <1>2. q \in Nat /\ q * C <= a /\ a < q * C + C /\ q * C \in Nat
    <2> HIDE DEF a, C
    <2>. QED BY <1>1, SMTT(20)
  <1>3. chunk_count(n) = q
    BY DEF chunk_count
  <1> DEFINE p == q * C
  <1>4. p \in Nat /\ p <= a /\ a < p + C
    BY <1>2
  <1>5. a = n + C - 1
    OBVIOUS
  <1> HIDE DEF p, a, q
  <1>6. p >= n /\ p < n + C
    BY <1>1, <1>4, <1>5
  <1>. QED BY <1>2, <1>3, <1>4, <1>6 DEF p

\* A chunk before the last starts a chunk's size before the next.
LEMMA StartStep ==
  ASSUME NEW i \in Nat
  PROVE  /\ Start(i) \in Nat
         /\ Start(i + 1) = Start(i) + SCREEN_FRAME_CHUNK_DATA_SIZE
  <1> DEFINE C == SCREEN_FRAME_CHUNK_DATA_SIZE
  <1>1. C \in Nat
    BY WireAssumption
  <1> HIDE DEF C
  <1>2. i * C \in Nat /\ (i + 1) * C = i * C + C
    BY <1>1, SMTT(20)
  <1>. QED BY <1>2 DEF Start, C

\* The earlier of two chunks starts first.
LEMMA StartMonotonic ==
  ASSUME NEW i \in Nat, NEW j \in Nat, i <= j
  PROVE  Start(i) <= Start(j)
  BY WireAssumption, SMTT(20) DEF Start

\* No chunk of a payload is empty, none has more bytes than a chunk may have, the
\* first begins where the payload does, each other one where the one before it
\* ends, and the last ends where the payload does: put together in the order of
\* chunk_idx (FrameAssemblyState::add_chunk) they are the payload.
THEOREM ChunksAreThePayload ==
  ASSUME NEW n \in Nat \ {0}
  PROVE  /\ chunk_count(n) \in Nat \ {0}
         /\ Start(0) = 0
         /\ End(chunk_count(n) - 1, n) = n
         /\ \A i \in 0 .. chunk_count(n) - 1 :
               /\ End(i, n) - Start(i) \in 1 .. SCREEN_FRAME_CHUNK_DATA_SIZE
               /\ i + 1 < chunk_count(n) => Start(i + 1) = End(i, n)
  <1> DEFINE C == SCREEN_FRAME_CHUNK_DATA_SIZE
             k == chunk_count(n)
  <1>1. C \in Nat \ {0}
    BY WireAssumption
  <1>2. k \in Nat /\ Start(k) \in Nat /\ Start(k) >= n /\ Start(k) < n + C
    BY CountBounds DEF Start
  <1>3. Start(0) = 0
    BY <1>1, SMTT(20) DEF Start
  <1>4. k # 0
    BY <1>2, <1>3
  <1>5. ASSUME NEW i \in 0 .. k - 1
        PROVE  /\ Start(i) \in Nat /\ Start(i + 1) = Start(i) + C
               /\ Start(i) < n
               /\ i + 1 < k => Start(i + 1) < n
    <2>1. i \in Nat /\ i + 1 \in Nat /\ i + 1 <= k
      BY <1>2
    <2>2. Start(i) \in Nat /\ Start(i + 1) = Start(i) + C /\ Start(i + 1) <= Start(k)
      BY <1>2, <2>1, StartStep, StartMonotonic
    <2>3. ASSUME i + 1 < k
          PROVE  Start(i + 1) < n
      <3>1. i + 2 \in Nat /\ i + 2 <= k /\ (i + 1) + 1 = i + 2
        BY <1>2, <2>1, <2>3
      <3>2. Start(i + 2) = Start(i + 1) + C /\ Start(i + 2) <= Start(k)
        BY <1>2, <2>1, <3>1, StartStep, StartMonotonic
      <3>. QED BY <1>1, <1>2, <2>2, <3>2
    <2>. QED BY <1>1, <1>2, <2>2, <2>3
  <1>6. End(k - 1, n) = n
    <2>1. k - 1 \in 0 .. k - 1 /\ (k - 1) + 1 = k
      BY <1>2, <1>4
    <2>2. Start(k) = Start(k - 1) + C
      BY <1>5, <2>1
    <2>. QED BY <1>1, <1>2, <2>2 DEF End
  <1>7. ASSUME NEW i \in 0 .. k - 1
        PROVE  /\ End(i, n) - Start(i) \in 1 .. C
               /\ i + 1 < k => Start(i + 1) = End(i, n)
    BY <1>1, <1>5, <1>7 DEF End
  <1>. QED BY <1>2, <1>3, <1>4, <1>6, <1>7

\* Every datagram either side sends, with texts of up to MAX_PACKET_SIZE - 46
\* bytes, is no larger than MAX_PACKET_SIZE, so that it is received whole: a chunk
\* of a frame of any length, a command, an ACK, a heartbeat, a handshake message.
\* (The texts are an authentication token, the name of an encoding, a reason.)
THEOREM DatagramsFit ==
  ASSUME NEW n \in Nat \ {0}, NEW i \in 0 .. chunk_count(n) - 1,
         NEW text \in 0 .. MAX_PACKET_SIZE - 46
  PROVE  \A payload \in {ChunkSize(End(i, n) - Start(i)), AckPayload, EmptyPayload}
                        \cup ControlSizes \cup ConnectionSizes(text) :
            MessageSize(payload) <= MAX_PACKET_SIZE /\ MessageSize(payload) < ReceiveBuffer
  <1>1. End(i, n) - Start(i) \in 1 .. SCREEN_FRAME_CHUNK_DATA_SIZE
    BY ChunksAreThePayload
  <1>2. ASSUME NEW d \in 1 .. SCREEN_FRAME_CHUNK_DATA_SIZE
        PROVE  MessageSize(ChunkSize(d)) <= MAX_PACKET_SIZE
    BY <1>2, WireAssumption DEF MessageSize, ChunkSize, Bytes, Variant, U8, U16, U32, U64
  <1>3. \A p \in {AckPayload, EmptyPayload} \cup ControlSizes :
            MessageSize(p) <= MAX_PACKET_SIZE
    BY WireAssumption DEF MessageSize, Bytes, Variant, U8, U16, U32, U64, Bool, AckPayload, EmptyPayload,
       ControlSizes, KeySize, MouseMoveSize, MouseButtonSize, ScrollSize
  <1>4. \A p \in ConnectionSizes(text) : MessageSize(p) <= MAX_PACKET_SIZE
    BY WireAssumption DEF MessageSize, Bytes, Variant, U8, U16, U32, U64, Bool, ConnectionSizes,
       RequestSize, CapabilitiesSize, ConfirmSize, TeardownSize
  <1>5. MAX_PACKET_SIZE < ReceiveBuffer /\ MAX_PACKET_SIZE \in Nat /\ ReceiveBuffer \in Nat
    BY WireAssumption DEF ReceiveBuffer
  <1> DEFINE payloads == {ChunkSize(End(i, n) - Start(i)), AckPayload, EmptyPayload}
                         \cup ControlSizes \cup ConnectionSizes(text)
  <1>6. \A p \in payloads : MessageSize(p) <= MAX_PACKET_SIZE
    BY <1>1, <1>2, <1>3, <1>4
  <1>7. \A p \in payloads : MessageSize(p) \in Int
    <2>1. ChunkSize(End(i, n) - Start(i)) \in Int
      BY <1>1, WireAssumption DEF ChunkSize, Bytes, U32, U64
    <2>2. payloads \subseteq Int
      BY <2>1 DEF AckPayload, EmptyPayload, ControlSizes, KeySize, MouseMoveSize, MouseButtonSize,
         ScrollSize, ConnectionSizes, RequestSize, CapabilitiesSize, ConfirmSize, TeardownSize,
         Bytes, Variant, U8, U16, U32, U64, Bool
    <2>. QED BY <2>2 DEF MessageSize, Bytes, Variant, U16, U32, U64
  <1> HIDE DEF payloads
  <1>8. \A p \in payloads : MessageSize(p) <= MAX_PACKET_SIZE /\ MessageSize(p) < ReceiveBuffer
    BY <1>5, <1>6, <1>7
  <1>. QED BY <1>8 DEF payloads
=============================================================================
