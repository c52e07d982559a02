------------------------------ MODULE DeltaBlob ------------------------------
(***************************************************************************)
(* The payload of a delta frame: its regions, compressed one by one and    *)
(* written behind each other (compress_delta and decompress_delta in       *)
(* common/src/encoding.rs).  A region's pixels are the bytes of its data.  *)
(***************************************************************************)
EXTENDS Integers, Sequences

LOCAL INSTANCE SequencesExt

CONSTANTS
    compress(_),       \* lz4::block::compress
    decompress(_, _)   \* lz4::block::decompress, given the size to expect

\* u32::to_le_bytes
to_le_bytes(n) == <<n % 256, (n \div 256) % 256, (n \div 65536) % 256, n \div 16777216>>

\* u32::from_le_bytes of the four bytes of data from offset on.
from_le_bytes(data, offset) ==
    data[offset + 1] + 256 * data[offset + 2] + 65536 * data[offset + 3] + 16777216 * data[offset + 4]

\* Five numbers and the compressed pixels.
RegionBytes(region) ==
    LET compressed == compress(region.data)
    IN  to_le_bytes(region.x) \o to_le_bytes(region.y)
        \o to_le_bytes(region.width) \o to_le_bytes(region.height)
        \o to_le_bytes(Len(compressed)) \o compressed

compress_delta(regions) ==
    to_le_bytes(Len(regions)) \o FlattenSeq([k \in DOMAIN regions |-> RegionBytes(regions[k])])

\* Where the region at offset ends, nowhere if it is cut off.
RegionEnd(data, offset) ==
    LET end == offset + 20 + from_le_bytes(data, offset + 16)
    IN  IF offset + 20 > Len(data) \/ end > Len(data) THEN {} ELSE {end}

\* After how many bytes k regions are read, as far as they are whole.
Offsets(data, count) ==
    LET offset[k \in 0 .. count] ==
          IF k = 0 THEN {4} ELSE UNION {RegionEnd(data, o) : o \in offset[k - 1]}
    IN  offset

RegionAt(data, offset) ==
    LET width  == from_le_bytes(data, offset + 8)
        height == from_le_bytes(data, offset + 12)
        length == from_le_bytes(data, offset + 16)
    IN  [ x |-> from_le_bytes(data, offset), y |-> from_le_bytes(data, offset + 4),
          width |-> width, height |-> height,
          data |-> decompress(SubSeq(data, offset + 21, offset + 20 + length), width * height * 4) ]

\* The regions, or none of them if the data end too soon.
decompress_delta(data) ==
    LET count  == from_le_bytes(data, 0)
        offset == Offsets(data, count)
    IN  IF Len(data) < 4 \/ offset[count] = {}
          THEN [ok |-> FALSE, regions |-> <<>>]
          ELSE [ok |-> TRUE,
                regions |-> [k \in 1 .. count |->
                               RegionAt(data, CHOOSE o \in offset[k - 1] : TRUE)]]
=============================================================================
