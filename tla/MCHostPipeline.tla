--------------------------- MODULE MCHostPipeline ---------------------------
(* Instances of HostPipeline: a desktop of 3 by 3 pixels, four tiles of    *)
(* which three are smaller, that shows a page, or the page with one pixel  *)
(* changed, which is below the threshold for a full frame; and the desktop *)
(* at a lower resolution.                                                  *)
EXTENDS HostPipelineFeed

CONSTANT a1    \* a client's address

MCOneAddr == {a1}

Desktop(width, marked) ==
    [ width |-> width, height |-> 3,
      pixels |-> [i \in 0 .. 3 * width - 1 |-> IF i \in marked THEN 1 ELSE 0] ]

Page   == Desktop(3, {})
Edited == Desktop(3, {0})
Narrow == Desktop(2, {})

MCScreens == {Page, Edited, Narrow}
MCTwoScreens == {Page, Edited}
=============================================================================
