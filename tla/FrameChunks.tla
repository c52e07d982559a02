---------------------------- MODULE FrameChunks ----------------------------
(***************************************************************************)
(* The chunking of a compressed screen frame and the state that puts it    *)
(* together again (common/src/lib.rs, client/src/net.rs).                  *)
(*                                                                         *)
(* A frame too large for one datagram is cut into chunk_count chunks, all  *)
(* with the frame's msg_id.  A chunk's bytes are abstracted to the pair    *)
(* <<msg_id, chunk_idx>>: which slice payload[start..end] of which payload *)
(* it is; the arithmetic of start and end is left out.                     *)
(***************************************************************************)
EXTENDS Naturals

CONSTANTS
    NoData,    \* None: a slot of chunks: Vec<Option<Vec<u8>>> not yet filled
    NoDims,    \* width = height = 0, what every chunk but chunk 0 carries
    Absent     \* no entry of the assembly map under this key

\* The slice of frame f that its chunk i carries.
Slice(f, i) == <<f, i>>

\* Mutant of Chunk: the last chunk has the dimensions.
ChunkDimsLast(f, i, n, dims) ==
    [ msg_id |-> f, chunk_count |-> n, chunk_idx |-> i,
      dims |-> IF i = n - 1 THEN dims ELSE NoDims, data |-> Slice(f, i) ]

\* Chunk i of frame f cut into n chunks: only chunk 0 has the dimensions.
Chunk(f, i, n, dims) ==
    [ msg_id      |-> f,
      chunk_count |-> n,
      chunk_idx   |-> i,
      dims        |-> IF i = 0 THEN dims ELSE NoDims,
      data        |-> Slice(f, i) ]

\* All the chunks of one frame.
split_into_chunks(f, n, dims) == {Chunk(f, i, n, dims) : i \in 0 .. n - 1}

\* A new assembly takes its dimensions from the chunk that creates it.
NewAssembly(c) ==
    [ chunks         |-> [i \in 0 .. c.chunk_count - 1 |-> NoData],
      chunk_count    |-> c.chunk_count,
      dims           |-> c.dims,
      received_count |-> 0 ]

\* Mutant of Fresh: duplicates are not recognised.
FreshUnchecked(a, c) == c.chunk_idx \in DOMAIN a.chunks

\* The chunk is neither out of range nor a duplicate of one already held.
Fresh(a, c) == /\ c.chunk_idx \in DOMAIN a.chunks
               /\ a.chunks[c.chunk_idx] = NoData

\* The assembly once a fresh chunk is stored.
Store(a, c) == [a EXCEPT !.chunks = [@ EXCEPT ![c.chunk_idx] = c.data],
                         !.received_count = @ + 1]

\* add_chunk: the state the assembly is left in.
add_chunk(a, c) == IF Fresh(a, c) THEN Store(a, c) ELSE a

\* Mutants of Completes: one chunk early, and the counter read before it is
\* incremented.
CompletesEarly(a, c) == Fresh(a, c) /\ a.received_count + 2 >= a.chunk_count
CompletesLate(a, c) == Fresh(a, c) /\ a.received_count = a.chunk_count

\* add_chunk returns Some: this very chunk was the last one missing.
Completes(a, c) == Fresh(a, c) /\ a.received_count + 1 = a.chunk_count

\* entry(msg_id).or_insert_with(new) on a map held as a total function.
Entry(map, c) == IF map[c.msg_id] = Absent THEN NewAssembly(c) ELSE map[c.msg_id]

\* Mutant of Fed: a completed assembly stays in the map.
FedKeeps(map, c) == [map EXCEPT ![c.msg_id] = add_chunk(Entry(map, c), c)]

\* The map after feed_frame_chunk: a completed assembly is removed.
Fed(map, c) ==
    [map EXCEPT ![c.msg_id] = IF Completes(Entry(map, c), c)
                                THEN Absent
                                ELSE add_chunk(Entry(map, c), c)]

\* What feed_frame_chunk returns when it returns Some: the data in slot order
\* and the dimensions the assembly was created with.
Output(map, c) ==
    LET a == Store(Entry(map, c), c)
    IN  [msg_id |-> c.msg_id, data |-> a.chunks, dims |-> a.dims]

\* The predicate of the receiver's periodic assemblies.retain(..).
Retained(a) == a.received_count > 0 /\ a.received_count < a.chunk_count
=============================================================================
