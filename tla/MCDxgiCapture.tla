---------------------------- MODULE MCDxgiCapture ----------------------------
(* Instances of DxgiCapture: a desktop of two sizes and two contents.       *)
EXTENDS DxgiCapture, Naturals

MCScreens == [size : 1 .. 2, content : 1 .. 2]
MCSize(s) == s.size
=============================================================================
