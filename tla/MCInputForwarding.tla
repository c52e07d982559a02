-------------------------- MODULE MCInputForwarding --------------------------
(* Instances of InputForwarding: Shift and Ctrl, a key with two names that  *)
(* is a shortcut under Ctrl, the left button and a thumb button, turns of   *)
(* both wheels (one is none under Shift), and the cross and another point.  *)
EXTENDS InputForwarding, Coordinates

CONSTANTS a, left, x1, cross, spot

MCModifiers == {Shift, Ctrl}
MCKeys == {a}
MCShortcuts == {<<Ctrl, a>>}
MCButtons == {left, x1}
MCUnmapped == {x1}
MCScrolls == {<<1, -1>>, <<1, -2>>}
MCPoints == {cross, spot}

\* Two points of the window that aim at pixels more than two apart stay apart at the
\* host, in their order, on screens and in windows of some sizes.
ASSUME PointsStayApart ==
    \A width \in {1, 3, 5}, remote \in {1, 2, 7, 1080, 1920} :
        \A p, q \in -1 .. width + 1 :
            Aimed(p, width, remote) + 2 < Aimed(q, width, remote) =>
                Landed(p, width, remote) < Landed(q, width, remote)
=============================================================================
