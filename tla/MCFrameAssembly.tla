-------------------------- MODULE MCFrameAssembly --------------------------
(* Instances of FrameAssembly: three frames, the second one change of      *)
(* resolution later, cut into three, one and two chunks.                    *)
EXTENDS FrameAssembly, WireFormat, SequencesExt

CONSTANTS small, large    \* two screen resolutions

MCDims == {small, large}
MCChunkCount == <<3, 1, 2>>
MCFrameDims == <<small, large, large>>

\* Frames of up to three chunks, so that a middle chunk exists.
MCChunkCountLong == <<3, 2>>
MCFrameDimsLong == <<small, large>>
-----------------------------------------------------------------------------
(* Payloads of a few bytes, numbered from 0.                               *)

\* The bytes of chunk i, a sequence.
ChunkBytes(i, length) == [k \in 1 .. End(i, length) - Start(i) |-> Start(i) + k - 1]

\* The chunks of a payload, one behind the other, are the payload.
ASSUME ChunksInOrder ==
    \A length \in 0 .. 4 * SCREEN_FRAME_CHUNK_DATA_SIZE :
        FlattenSeq([k \in 1 .. chunk_count(length) |-> ChunkBytes(k - 1, length)])
            = [k \in 1 .. length |-> k - 1]
=============================================================================
