-------------------------------- MODULE Tiles --------------------------------
(***************************************************************************)
(* The geometry of the tile-delta encoding: how the host cuts a frame into *)
(* tiles (common/src/encoding.rs) and how the client copies the regions of *)
(* a delta into its buffer (client/src/net.rs).                            *)
(*                                                                         *)
(* A buffer is a function from 0 .. n - 1 to pixels, row by row; a pixel   *)
(* stands for its four bytes.  The checksum of a tile is the tile itself:  *)
(* xxh32 is taken to be free of collisions.                                *)
(***************************************************************************)
EXTENDS Integers, Sequences

Lower(a, b) == IF a < b THEN a ELSE b

\* How many tiles cover an extent.
TileCount(extent, tile_size) == (extent + tile_size - 1) \div tile_size

\* The tiles of a frame, as <<column, row>>.
TileGrid(width, height, tile_size) ==
    (0 .. TileCount(width, tile_size) - 1) \X (0 .. TileCount(height, tile_size) - 1)

total_tile_count(width, height, tile_size) ==
    TileCount(width, tile_size) * TileCount(height, tile_size)

\* The width of the tiles in column n, or the height of those in row n: tiles at
\* the edge may be smaller.
TileExtent(n, extent, tile_size) == Lower(tile_size, extent - n * tile_size)

\* The pixels of a tile, row by row.
extract_tile_data(frame, width, height, col, row, tile_size) ==
    LET tile_width  == TileExtent(col, width, tile_size)
        tile_height == TileExtent(row, height, tile_size)
    IN  [ p \in 0 .. tile_width * tile_height - 1 |->
            frame[(row * tile_size + p \div tile_width) * width
                  + col * tile_size + (p % tile_width)] ]

tile_checksums(frame, width, height, tile_size) ==
    [ t \in TileGrid(width, height, tile_size) |->
        extract_tile_data(frame, width, height, t[1], t[2], tile_size) ]

\* Tiles new or different in curr.
detect_delta_tiles(prev, curr) ==
    {t \in DOMAIN curr : t \notin DOMAIN prev \/ prev[t] # curr[t]}

\* DeltaRegion, with its pixels uncompressed.
DeltaRegion(frame, width, height, t, tile_size) ==
    [ x |-> t[1] * tile_size,
      y |-> t[2] * tile_size,
      width  |-> TileExtent(t[1], width, tile_size),
      height |-> TileExtent(t[2], height, tile_size),
      data   |-> extract_tile_data(frame, width, height, t[1], t[2], tile_size) ]

\* One region for each of the changed tiles, a sequence.
build_delta_regions(frame, width, height, changed, tile_size) ==
    [ k \in DOMAIN changed |-> DeltaRegion(frame, width, height, changed[k], tile_size) ]
-----------------------------------------------------------------------------
(* The client. *)

\* Where row y of the region goes in a buffer bw pixels wide.
DstStart(region, y, bw) == (region.y + y) * bw + region.x

\* Row y of the region is copied if it is within the bw by bh picture, and as a
\* whole within the buffer: a row that ends beyond the picture's right edge goes
\* on in the next line.
Copies(region, y, bw, bh) ==
    /\ region.y + y < bh
    /\ DstStart(region, y, bw) + region.width <= bw * bh

\* The rows of the region that write to place i of the buffer.
Writes(region, bw, bh, i) ==
    { y \in 0 .. region.height - 1 :
        /\ Copies(region, y, bw, bh)
        /\ i \in DstStart(region, y, bw) .. DstStart(region, y, bw) + region.width - 1 }

\* The regions that write to it.
Writers(regions, bw, bh, i) == {k \in DOMAIN regions : Writes(regions[k], bw, bh, i) # {}}

Greatest(S) == CHOOSE n \in S : \A m \in S : m <= n

\* Each region in turn is copied row by row: the last one to write to a place
\* determines it.
ApplyRegions(buffer, bw, bh, regions) ==
    [ i \in 0 .. bw * bh - 1 |->
        IF Writers(regions, bw, bh, i) = {}
        THEN buffer[i]
        ELSE LET region == regions[Greatest(Writers(regions, bw, bh, i))]
                 y      == Greatest(Writes(region, bw, bh, i))
             IN  region.data[y * region.width + i - DstStart(region, y, bw)] ]
=============================================================================
