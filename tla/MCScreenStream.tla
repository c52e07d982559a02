--------------------------- MODULE MCScreenStream ---------------------------
(* Instances of ScreenStream: the desktop of MCHostPipeline, at two        *)
(* resolutions.  What changes is the last pixel, alone in its tile: one    *)
(* tile in four is below the threshold for a full frame.  At the lower     *)
(* resolution there are two tiles, and a change of one is above it.        *)
EXTENDS ScreenStream, DeltaBlob

MCAddrs == {Client}

Desktop(width, marked) ==
    [ width |-> width, height |-> 3,
      pixels |-> [i \in 0 .. 3 * width - 1 |-> IF i \in marked THEN 1 ELSE 0] ]

Page   == Desktop(3, {})
Edited == Desktop(3, {8})
Narrow == Desktop(2, {})
NarrowEdited == Desktop(2, {5})

MCScreens == {Page, Edited, Narrow, NarrowEdited}
MCTwoScreens == {Page, Edited}
-----------------------------------------------------------------------------
(* The bytes of a delta, with a compression that knows one case: all bytes *)
(* are the same.                                                           *)

MCcompress(data) ==
    IF \A k \in DOMAIN data : data[k] = data[1] THEN <<0, data[1]>> ELSE <<1>> \o data

MCdecompress(data, size) ==
    IF data[1] = 0 THEN [k \in 1 .. size |-> data[2]] ELSE Tail(data)

MCRegions ==
    UNION { [ x : {0, 300}, y : {70000}, width : {w}, height : {h},
              data : {[k \in 1 .. 4 * w * h |-> IF k = 1 THEN b ELSE 0] : b \in {0, 255}} ]
            : w \in 1 .. 2, h \in 1 .. 2 }

\* A delta of no, one or two regions is read as it was written, and one that is
\* cut off anywhere is refused as a whole: no region of it is applied.
ASSUME DeltaBytes ==
    \A regions \in {<<>>} \cup {<<r>> : r \in MCRegions} \cup (MCRegions \X MCRegions) :
        LET data == compress_delta(regions) IN
        /\ decompress_delta(data) = [ok |-> TRUE, regions |-> regions]
        /\ \A k \in 0 .. Len(data) - 1 : ~ decompress_delta(SubSeq(data, 1, k)).ok
=============================================================================
