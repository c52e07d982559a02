--------------------------- MODULE DeltaEncoding ---------------------------
(***************************************************************************)
(* The tile-delta encoding of common/src/encoding.rs as host and client    *)
(* use it, on whole screens: records of width, height and pixels.          *)
(* Compression and decompression (LZ4) are inverse to each other and are   *)
(* left out; their failures are actions of the threads that call them.     *)
(***************************************************************************)
EXTENDS Tiles, FiniteSets, Functions

CONSTANTS
    Screens,       \* contents the desktop may have
    FullPercent,   \* FULL_FRAME_THRESHOLD in percent: 30
    TileSize       \* DEFAULT_TILE_SIZE

\* A screen is a record of its size and its pixels, and has at least one.
ASSUME ScreensAssumption ==
    \A s \in Screens :
        /\ s = [width |-> s.width, height |-> s.height, pixels |-> s.pixels]
        /\ s.width \in Nat \ {0} /\ s.height \in Nat \ {0}
        /\ s.pixels = [i \in 0 .. s.width * s.height - 1 |-> s.pixels[i]]

Size(screen) == <<screen.width, screen.height>>

compute_tile_checksums ==
    [ s \in Screens |-> tile_checksums(s.pixels, s.width, s.height, TileSize) ]

\* More than the threshold has changed.
should_send_full_frame(changed, total) ==
    total # 0 /\ changed * 100 > FullPercent * total

\* The elements of a set in some order, that of a hash map.
Listed(S) == CHOOSE s \in [1 .. Cardinality(S) -> S] : Range(s) = S

\* The regions of the changed tiles of a screen: any order will do
\* (TilesProofs!DeltaRestores).
delta_regions ==
    [ s \in Screens |-> [ changed \in SUBSET DOMAIN compute_tile_checksums[s] |->
        build_delta_regions(s.pixels, s.width, s.height, Listed(changed), TileSize) ]]

Checksums == {compute_tile_checksums[s] : s \in Screens}

\* The client copies each region into its picture, which keeps its size.
apply_regions(picture, regions) ==
    [picture EXCEPT !.pixels = ApplyRegions(@, picture.width, picture.height, regions)]
=============================================================================
