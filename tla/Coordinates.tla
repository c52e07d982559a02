----------------------------- MODULE Coordinates -----------------------------
(***************************************************************************)
(* Where the pointer is: its position in the window becomes a position on  *)
(* the remote screen (map_pos_to_remote in client/src/ui.rs), a number     *)
(* from 0 to 65535 (normalize_abs_coord in client/src/net.rs), and, in the *)
(* host's system, a pixel again.  One axis of the two.                     *)
(*                                                                         *)
(* The floating-point numbers of the code are exact here: a position is a  *)
(* fraction n / d, its two parts the arguments.                            *)
(***************************************************************************)
EXTENDS Integers

Abs == 65535

Clamped(n, low, high) == IF n < low THEN low ELSE IF n > high THEN high ELSE n

\* f32::round of n / d, for n >= 0.
Rounded(n, d) == (2 * n + d) \div (2 * d)

\* A position `local` points from the left edge of a picture `width` points wide,
\* on a screen of `remote` pixels: a number of width-th parts of a pixel.
map_pos_to_remote(local, width, remote) == Clamped(local * remote, 0, width * remote)

\* The position n / d on a screen of that size.
normalize_abs_coord(n, d, screen_size) ==
    IF screen_size = 0 THEN 0 ELSE Clamped(Rounded(n * Abs, d * screen_size), 0, Abs)

\* Windows: the pixel that an absolute coordinate is.
PixelOf(coordinate, screen_size) == (coordinate * screen_size) \div (Abs + 1)

\* The pixel under the user's pointer, and the one the host's cursor comes to.
Aimed(local, width, remote) == map_pos_to_remote(local, width, remote) \div width
Landed(local, width, remote) ==
    PixelOf(normalize_abs_coord(map_pos_to_remote(local, width, remote), width, remote), remote)
=============================================================================
