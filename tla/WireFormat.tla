----------------------------- MODULE WireFormat -----------------------------
(***************************************************************************)
(* How many bytes a message takes on the wire, and where a frame's payload *)
(* is cut into chunks (common/src/lib.rs).                                 *)
(*                                                                         *)
(* Messages are encoded by bincode 1.3 with its default options: integers  *)
(* have their full width, an enum is four bytes and its fields, a vector   *)
(* or a string is eight bytes and its contents.                            *)
(***************************************************************************)
EXTENDS Integers

CONSTANTS
    SCREEN_FRAME_CHUNK_DATA_SIZE,  \* 1320
    MAX_PACKET_SIZE                \* 1400

\* "1320 + 54 = 1374 bytes, well under the typical 1472 byte UDP payload limit".
ASSUME WireAssumption ==
    /\ SCREEN_FRAME_CHUNK_DATA_SIZE \in Nat \ {0} /\ MAX_PACKET_SIZE \in Nat
    /\ SCREEN_FRAME_CHUNK_DATA_SIZE + 54 <= MAX_PACKET_SIZE
-----------------------------------------------------------------------------
(* Sizes. *)

U8 == 1
U16 == 2
U32 == 4
U64 == 8
Bool == 1
Variant == U32
Bytes(length) == U64 + length

\* Message: type, sequence number, payload length, reserved, payload.
MessageSize(payload) == Variant + U32 + U32 + U16 + Bytes(payload)

\* ScreenFrameChunk: six numbers and the data.
ChunkSize(data) == 6 * U32 + Bytes(data)

\* ControlCommandPayload: key code, state, modifiers; two coordinates and a flag;
\* button, state and two coordinates; two distances; and a time stamp each.
KeySize         == Variant + U32 + Bool + U8 + U64
MouseMoveSize   == Variant + U32 + U32 + Bool + U64
MouseButtonSize == Variant + U8 + Bool + U32 + U32 + U64
ScrollSize      == Variant + U32 + U32 + U64
ControlSizes    == {KeySize, MouseMoveSize, MouseButtonSize, ScrollSize}

\* ConnectionManagementPayload, given the length of its text.
RequestSize(auth_token)         == Variant + Bytes(auth_token) + U32
CapabilitiesSize(reject_reason) == Variant + Bool + Bytes(reject_reason) + 3 * Bool + 2 * U32
ConfirmSize(chosen_encoding)    == Variant + Bytes(chosen_encoding)
TeardownSize(reason)            == Variant + Bytes(reason)
ConnectionSizes(text) ==
    {RequestSize(text), CapabilitiesSize(text), ConfirmSize(text), TeardownSize(text)}

\* create_ack carries a sequence number; a heartbeat, or a request for a keyframe,
\* nothing.
AckPayload == U32
EmptyPayload == 0

\* The buffer both sides receive into.
ReceiveBuffer == MAX_PACKET_SIZE + 64
-----------------------------------------------------------------------------
(* Chunks. *)

\* split_into_chunks: chunk i of a payload is its bytes Start(i) .. End(i) - 1.
chunk_count(length) ==
    (length + SCREEN_FRAME_CHUNK_DATA_SIZE - 1) \div SCREEN_FRAME_CHUNK_DATA_SIZE

Start(i) == i * SCREEN_FRAME_CHUNK_DATA_SIZE

End(i, length) ==
    LET full == Start(i) + SCREEN_FRAME_CHUNK_DATA_SIZE
    IN  IF full < length THEN full ELSE length

ChunkData(i, length) == Start(i) .. End(i, length) - 1
=============================================================================
