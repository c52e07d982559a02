----------------------------- MODULE TilesProofs -----------------------------
(***************************************************************************)
(* Proofs about Tiles: for every size of frame and tile, the tiles cover   *)
(* the frame, and the regions of the changed tiles turn the frame before   *)
(* into the frame they were cut from, in whatever order they come.  So a   *)
(* delta of FrameEncoder makes of the screen encoded before the screen it  *)
(* was encoded from.                                                       *)
(***************************************************************************)
EXTENDS FrameEncoder, FiniteSetTheorems, TLAPS

-----------------------------------------------------------------------------
(* Division. *)

\* Quotient and remainder.
LEMMA Division ==
  ASSUME NEW a \in Nat, NEW b \in Nat \ {0}
  PROVE  /\ a \div b \in Nat /\ a % b \in 0 .. b - 1
         /\ a = (a \div b) * b + (a % b)
  BY SMTT(20)

\* They are unique.
LEMMA DivisionUnique ==
  ASSUME NEW b \in Nat \ {0}, NEW q \in Nat, NEW p \in Nat,
         NEW r \in 0 .. b - 1, NEW s \in 0 .. b - 1, q * b + r = p * b + s
  PROVE  q = p /\ r = s
  <1>1. CASE q < p
    <2>1. q + 1 <= p
      BY <1>1
    <2>2. (q + 1) * b <= p * b
      BY <2>1, SMTT(20)
    <2>. QED BY <2>2, SMTT(20)
  <1>2. CASE p < q
    <2>1. p + 1 <= q
      BY <1>2
    <2>2. (p + 1) * b <= q * b
      BY <2>1, SMTT(20)
    <2>. QED BY <2>2, SMTT(20)
  <1>. QED BY <1>1, <1>2

\* So quotient and remainder of q * b + r are q and r.
LEMMA DivisionOf ==
  ASSUME NEW b \in Nat \ {0}, NEW q \in Nat, NEW r \in 0 .. b - 1
  PROVE  (q * b + r) \div b = q /\ (q * b + r) % b = r
  <1> DEFINE a == q * b + r
  <1>1. a \in Nat
    BY SMTT(20)
  <1>2. a \div b \in Nat /\ a % b \in 0 .. b - 1 /\ a = (a \div b) * b + (a % b)
    BY <1>1, Division
  <1> HIDE DEF a
  <1>3. (a \div b) * b + (a % b) = q * b + r
    BY <1>2 DEF a
  <1>. QED BY <1>2, <1>3, DivisionUnique DEF a
-----------------------------------------------------------------------------
(* The grid of tiles. *)

\* A tile of the grid begins within the frame, so that its extent is positive (no
\* subtraction in the code underflows), and it ends within the frame.
LEMMA TileWithin ==
  ASSUME NEW e \in Nat \ {0}, NEW ts \in Nat \ {0}, NEW n \in 0 .. TileCount(e, ts) - 1
  PROVE  /\ TileCount(e, ts) \in Nat
         /\ n * ts < e
         /\ TileExtent(n, e, ts) \in 1 .. ts
         /\ n * ts + TileExtent(n, e, ts) <= e
  <1> DEFINE c == TileCount(e, ts)
  <1>1. c \in Nat /\ c * ts <= e + ts - 1
    BY Division, SMTT(20) DEF TileCount
  <1>2. n \in Nat /\ n + 1 <= c
    BY <1>1 DEF TileCount
  <1>3. (n + 1) * ts <= c * ts
    <2> HIDE DEF c
    <2>. QED BY <1>1, <1>2, SMTT(20)
  <1>4. (n + 1) * ts = n * ts + ts /\ n * ts \in Nat
    BY <1>2, SMTT(20)
  <1>5. n * ts < e
    BY <1>1, <1>3, <1>4, SMTT(20)
  <1>. QED BY <1>1, <1>4, <1>5 DEF TileExtent, Lower

\* Each place of an extent is within the tile its quotient names.
LEMMA TileCovers ==
  ASSUME NEW e \in Nat \ {0}, NEW ts \in Nat \ {0}, NEW x \in 0 .. e - 1
  PROVE  /\ x \div ts \in 0 .. TileCount(e, ts) - 1
         /\ x - (x \div ts) * ts \in 0 .. TileExtent(x \div ts, e, ts) - 1
  <1> DEFINE q == x \div ts
             c == TileCount(e, ts)
  <1>1. q \in Nat /\ q * ts <= x /\ x < q * ts + ts /\ q * ts \in Nat
    BY Division, SMTT(20)
  <1>2. c \in Nat /\ e + ts - 1 < c * ts + ts
    BY Division, SMTT(20) DEF TileCount
  <1> HIDE DEF q, c
  <1>3. c * ts \in Nat /\ e <= c * ts
    BY <1>2, SMTT(20)
  <1>4. q < c
    <2> SUFFICES ASSUME c <= q PROVE FALSE
      BY <1>1, <1>2
    <2>1. c * ts <= q * ts
      BY <1>1, <1>2, SMTT(20)
    <2>. QED BY <2>1, <1>1, <1>3
  <1>5. x - q * ts \in 0 .. TileExtent(q, e, ts) - 1
    BY <1>1 DEF TileExtent, Lower
  <1>. QED BY <1>1, <1>2, <1>4, <1>5 DEF q, c
-----------------------------------------------------------------------------
(* Places of the buffer. *)

\* Line y, column x of a frame is a place of its buffer, and no other pixel's.
LEMMA Place ==
  ASSUME NEW w \in Nat \ {0}, NEW h \in Nat \ {0}, NEW x \in 0 .. w - 1, NEW y \in 0 .. h - 1
  PROVE  /\ y * w + x \in 0 .. w * h - 1
         /\ (y * w + x) \div w = y /\ (y * w + x) % w = x
  <1>1. y + 1 <= h /\ y \in Nat /\ x \in Nat
    OBVIOUS
  <1>2. (y + 1) * w <= h * w
    BY <1>1, SMTT(20)
  <1>3. (y + 1) * w = y * w + w /\ h * w = w * h /\ y * w \in Nat
    BY <1>1, SMTT(20)
  <1>4. y * w + x \in 0 .. w * h - 1
    <2> DEFINE yw == y * w
               wh == w * h
               hw == h * w
               y1w == (y + 1) * w
    <2>1. /\ y1w <= hw /\ y1w = yw + w /\ hw = wh /\ yw \in Nat /\ wh \in Int
      BY <1>2, <1>3, SMTT(20)
    <2> HIDE DEF yw, wh, hw, y1w
    <2>2. yw + x \in 0 .. wh - 1
      BY <2>1, <1>1
    <2>. QED BY <2>2 DEF yw, wh
  <1>. QED BY <1>1, <1>4, DivisionOf

\* Each place of a buffer is of this form.
LEMMA PlaceOf ==
  ASSUME NEW w \in Nat \ {0}, NEW h \in Nat \ {0}, NEW i \in 0 .. w * h - 1
  PROVE  /\ i \div w \in 0 .. h - 1 /\ i % w \in 0 .. w - 1
         /\ i = (i \div w) * w + (i % w)
  <1> DEFINE q == i \div w
             wh == w * h
  <1>1. i \in Nat /\ wh \in Nat /\ i < wh
    BY SMTT(20)
  <1>2. q \in Nat /\ i % w \in 0 .. w - 1 /\ i = q * w + (i % w)
    BY <1>1, Division
  <1>3. q < h
    <2> SUFFICES ASSUME h <= q PROVE FALSE
      BY <1>2
    <2> HIDE DEF q
    <2>1. h * w <= q * w
      BY <1>2, SMTT(20)
    <2>2. h * w = wh /\ q * w \in Nat
      BY <1>2, SMTT(20)
    <2> HIDE DEF wh
    <2>. QED BY <1>1, <1>2, <2>1, <2>2
  <1>. QED BY <1>2, <1>3

\* A tile's pixel at line yy and column xx within the tile.
LEMMA TilePixel ==
  ASSUME NEW w \in Nat \ {0}, NEW h \in Nat \ {0}, NEW ts \in Nat \ {0}, NEW frame,
         NEW t \in TileGrid(w, h, ts),
         NEW xx \in 0 .. TileExtent(t[1], w, ts) - 1,
         NEW yy \in 0 .. TileExtent(t[2], h, ts) - 1
  PROVE  LET tile == extract_tile_data(frame, w, h, t[1], t[2], ts)
             p    == yy * TileExtent(t[1], w, ts) + xx
         IN  p \in DOMAIN tile /\ tile[p] = frame[(t[2] * ts + yy) * w + t[1] * ts + xx]
  <1> DEFINE tw == TileExtent(t[1], w, ts)
             th == TileExtent(t[2], h, ts)
             p  == yy * tw + xx
  <1>1. t[1] \in 0 .. TileCount(w, ts) - 1 /\ t[2] \in 0 .. TileCount(h, ts) - 1
    BY DEF TileGrid
  <1>2. tw \in Nat \ {0} /\ th \in Nat \ {0}
    BY <1>1, TileWithin
  <1>3. p \in 0 .. tw * th - 1 /\ p \div tw = yy /\ p % tw = xx
    <2>1. xx \in 0 .. tw - 1 /\ yy \in 0 .. th - 1
      OBVIOUS
    <2> HIDE DEF tw, th
    <2>. QED BY <1>2, <2>1, Place
  <1> DEFINE at(q, r) == frame[(t[2] * ts + q) * w + t[1] * ts + r]
  <1>4. extract_tile_data(frame, w, h, t[1], t[2], ts)
          = [ n \in 0 .. tw * th - 1 |-> at(n \div tw, n % tw) ]
    BY DEF extract_tile_data
  <1> HIDE DEF tw, th, p, at
  <1>5. /\ p \in DOMAIN extract_tile_data(frame, w, h, t[1], t[2], ts)
        /\ extract_tile_data(frame, w, h, t[1], t[2], ts)[p] = at(p \div tw, p % tw)
    BY <1>3, <1>4, Zenon
  <1>6. extract_tile_data(frame, w, h, t[1], t[2], ts)[p] = at(yy, xx)
    BY <1>3, <1>5, Zenon
  <1>. QED BY <1>5, <1>6, Zenon DEF p, tw, at
-----------------------------------------------------------------------------
(* Applying the regions of the changed tiles. *)

\* Whatever row of a region writes to a place of a picture of the same size, it
\* writes there what the frame has there.
LEMMA WritesFrame ==
  ASSUME NEW w \in Nat \ {0}, NEW h \in Nat \ {0}, NEW ts \in Nat \ {0}, NEW frame,
         NEW t \in TileGrid(w, h, ts), NEW i \in 0 .. w * h - 1,
         NEW yy \in Writes(DeltaRegion(frame, w, h, t, ts), w, h, i)
  PROVE  LET region == DeltaRegion(frame, w, h, t, ts)
         IN  region.data[yy * region.width + i - DstStart(region, yy, w)] = frame[i]
  <1> DEFINE tw == TileExtent(t[1], w, ts)
             th == TileExtent(t[2], h, ts)
             x0 == t[1] * ts
             y0 == t[2] * ts
             start == (y0 + yy) * w + x0
  <1>1. t[1] \in 0 .. TileCount(w, ts) - 1 /\ t[2] \in 0 .. TileCount(h, ts) - 1
    BY DEF TileGrid
  <1>2. /\ tw \in 1 .. ts /\ x0 + tw <= w /\ x0 \in Nat
        /\ th \in 1 .. ts /\ y0 + th <= h /\ y0 \in Nat
    BY <1>1, TileWithin, SMTT(20)
  <1>3. /\ DstStart(DeltaRegion(frame, w, h, t, ts), yy, w) = start
        /\ yy \in 0 .. th - 1 /\ i \in start .. start + tw - 1
    BY DEF Writes, DstStart, DeltaRegion
  <1> DEFINE xx == i - start
  <1>4. start \in Nat /\ y0 + yy \in 0 .. h - 1
    BY <1>2, <1>3, SMTT(20)
  <1>5. xx \in 0 .. tw - 1 /\ i = start + xx
    <2> HIDE DEF start, tw
    <2>. QED BY <1>2, <1>3, <1>4
  <1> HIDE DEF xx
  <1>6. /\ yy * tw + xx \in DOMAIN extract_tile_data(frame, w, h, t[1], t[2], ts)
        /\ extract_tile_data(frame, w, h, t[1], t[2], ts)[yy * tw + xx]
              = frame[(t[2] * ts + yy) * w + t[1] * ts + xx]
    BY <1>3, <1>5, TilePixel
  <1>7. frame[(t[2] * ts + yy) * w + t[1] * ts + xx] = frame[i]
    BY <1>5
  <1>8. yy * tw + i - start = yy * tw + xx
    <2>1. yy * tw \in Int
      BY <1>2, <1>3, SMTT(20)
    <2> HIDE DEF start, tw
    <2>. QED BY <1>4, <2>1 DEF xx
  <1>. QED BY <1>3, <1>6, <1>7, <1>8 DEF DeltaRegion

\* Place i is a pixel of tile t.
PixelOf(i, t, w, h, ts) ==
    \E xx \in 0 .. TileExtent(t[1], w, ts) - 1, yy \in 0 .. TileExtent(t[2], h, ts) - 1 :
        i = (t[2] * ts + yy) * w + t[1] * ts + xx

\* Each place of the picture lies within a tile, whose region writes to it.
LEMMA TileWrites ==
  ASSUME NEW w \in Nat \ {0}, NEW h \in Nat \ {0}, NEW ts \in Nat \ {0}, NEW i \in 0 .. w * h - 1
  PROVE  \E t \in TileGrid(w, h, ts) :
            /\ PixelOf(i, t, w, h, ts)
            /\ \A frame : Writes(DeltaRegion(frame, w, h, t, ts), w, h, i) # {}
  <1> DEFINE x == i % w
             y == i \div w
             t == <<x \div ts, y \div ts>>
             tw == TileExtent(t[1], w, ts)
             th == TileExtent(t[2], h, ts)
             xx == x - t[1] * ts
             yy == y - t[2] * ts
  <1>1. y \in 0 .. h - 1 /\ x \in 0 .. w - 1 /\ i = y * w + x
    BY PlaceOf
  <1> HIDE DEF x, y
  <1>2. /\ t[1] \in 0 .. TileCount(w, ts) - 1 /\ xx \in 0 .. tw - 1
        /\ t[2] \in 0 .. TileCount(h, ts) - 1 /\ yy \in 0 .. th - 1
    BY <1>1, TileCovers
  <1>3. t \in TileGrid(w, h, ts)
    BY <1>2 DEF TileGrid
  <1>4. /\ tw \in 1 .. ts /\ t[1] * ts + tw <= w /\ t[1] * ts \in Nat
        /\ th \in 1 .. ts /\ t[2] * ts + th <= h /\ t[2] * ts \in Nat
    BY <1>2, TileWithin, SMTT(20)
  <1>5. t[2] * ts + yy = y /\ t[1] * ts + xx = x
    <2> HIDE DEF t
    <2>. QED BY <1>1, <1>4
  <1>6. i = (t[2] * ts + yy) * w + t[1] * ts + xx
    <2> DEFINE x0 == t[1] * ts
               line == (t[2] * ts + yy) * w
               yw   == y * w
    <2>1. line = yw /\ yw \in Nat
      BY <1>1, <1>5, SMTT(20)
    <2>2. x0 \in Nat /\ x0 + xx = x /\ i = yw + x /\ xx \in Int
      BY <1>1, <1>2, <1>4, <1>5
    <2> HIDE DEF x0, xx, line, yw
    <2>3. i = line + x0 + xx
      BY <2>1, <2>2
    <2>. QED BY <2>3 DEF line, x0
  <1>7. ASSUME NEW frame PROVE yy \in Writes(DeltaRegion(frame, w, h, t, ts), w, h, i)
    <2> DEFINE region == DeltaRegion(frame, w, h, t, ts)
               start == y * w + t[1] * ts
    <2>1. /\ region.x = t[1] * ts /\ region.y = t[2] * ts
          /\ region.width = tw /\ region.height = th
      BY DEF DeltaRegion
    <2>2. DstStart(region, yy, w) = start
      BY <2>1, <1>5 DEF DstStart
    <2>3. start \in Nat /\ start + tw <= w * h /\ i \in start .. start + tw - 1
      <3>1. y * w \in Nat /\ (y + 1) * w <= h * w /\ (y + 1) * w = y * w + w /\ h * w = w * h
        <4>1. y + 1 <= h /\ y \in Nat
          BY <1>1
        <4>. QED BY <4>1, SMTT(20)
      <3> DEFINE x0 == t[1] * ts
                 yw == y * w
                 hw == h * w
                 wh == w * h
      <3>2. yw \in Nat /\ yw + w <= hw /\ hw = wh /\ wh \in Nat
        BY <3>1, SMTT(20)
      <3>3. x0 \in Nat /\ x0 + xx = x /\ x0 + tw <= w /\ i = yw + x
        BY <1>1, <1>4, <1>5
      <3>4. xx \in 0 .. tw - 1 /\ tw \in Nat
        BY <1>2, <1>4
      <3> HIDE DEF x0, yw, hw, wh, tw, xx
      <3>5. yw + x0 \in Nat /\ yw + x0 + tw <= wh /\ i \in yw + x0 .. yw + x0 + tw - 1
        BY <3>2, <3>3, <3>4
      <3>. QED BY <3>5 DEF yw, x0, wh
    <2> HIDE DEF region, start, tw, th, yy
    <2>4. Copies(region, yy, w, h)
      BY <1>1, <1>5, <2>1, <2>2, <2>3 DEF Copies
    <2>. QED BY <1>2, <2>1, <2>2, <2>3, <2>4 DEF Writes, region
  <1> HIDE DEF t, xx, yy, tw, th
  <1>8. PixelOf(i, t, w, h, ts)
    BY <1>2, <1>6 DEF PixelOf, tw, th
  <1>. QED BY <1>3, <1>7, <1>8

\* A set of numbers has a least element.
LEMMA Least ==
  ASSUME NEW S \in SUBSET Nat, S # {}
  PROVE  \E m \in S : \A n \in S : m <= n
  <1>1. PICK m \in S : \A n \in S : <<n, m>> \notin OpToRel(<, Nat)
    BY WFMin, NatLessThanWellFounded, Zenon
  <1>2. \A n \in S : ~ (n < m)
    BY <1>1, Zenon DEF OpToRel
  <1>. QED BY <1>2

\* A set of numbers with a bound has a last element, which Greatest chooses.
LEMMA GreatestOf ==
  ASSUME NEW S \in SUBSET Nat, S # {}, NEW bound \in Nat, \A n \in S : n <= bound
  PROVE  Greatest(S) \in S
  <1> DEFINE T == {bound - n : n \in S}
  <1>1. T \in SUBSET Nat /\ T # {}
    <2>1. \A n \in S : bound - n \in Nat
      OBVIOUS
    <2>2. T \subseteq Nat
      BY <2>1
    <2>. QED BY <2>2
  <1>2. PICK d \in T : \A e \in T : d <= e
    BY <1>1, Least
  <1>3. PICK m \in S : d = bound - m
    OBVIOUS
  <1>4. \A n \in S : n <= m
    BY <1>2, <1>3
  <1>. QED BY <1>4 DEF Greatest

\* Only a changed tile differs between two frames: a tile that is unchanged shows
\* the same pixels in both.
LEMMA UnchangedTile ==
  ASSUME NEW w \in Nat \ {0}, NEW h \in Nat \ {0}, NEW ts \in Nat \ {0}, NEW prev, NEW curr,
         NEW t \in TileGrid(w, h, ts),
         t \notin detect_delta_tiles(tile_checksums(prev, w, h, ts), tile_checksums(curr, w, h, ts)),
         NEW xx \in 0 .. TileExtent(t[1], w, ts) - 1, NEW yy \in 0 .. TileExtent(t[2], h, ts) - 1
  PROVE  prev[(t[2] * ts + yy) * w + t[1] * ts + xx] = curr[(t[2] * ts + yy) * w + t[1] * ts + xx]
  <1>1. extract_tile_data(prev, w, h, t[1], t[2], ts) = extract_tile_data(curr, w, h, t[1], t[2], ts)
    BY DEF detect_delta_tiles, tile_checksums
  <1>. QED BY <1>1, TilePixel

\* A buffer of w by h pixels.
IsBuffer(b, w, h) == b = [i \in 0 .. w * h - 1 |-> b[i]]

\* A list of the tiles in C, in any order.
Lists(tiles, C) == \E n \in Nat : tiles \in [1 .. n -> C] /\ \A t \in C : \E k \in 1 .. n : tiles[k] = t

\* The client's copy loop restores the frame: on a picture that shows the frame
\* before, the regions of the tiles whose checksums differ, in any order, make the
\* new frame, for every width, height and tile size, tiles at the edge included.
THEOREM DeltaRestores ==
  ASSUME NEW w \in Nat \ {0}, NEW h \in Nat \ {0}, NEW ts \in Nat \ {0}, NEW tiles,
         NEW prev, IsBuffer(prev, w, h), NEW curr, IsBuffer(curr, w, h),
         Lists(tiles, detect_delta_tiles(tile_checksums(prev, w, h, ts), tile_checksums(curr, w, h, ts)))
  PROVE  ApplyRegions(prev, w, h, build_delta_regions(curr, w, h, tiles, ts)) = curr
  <1> DEFINE C == detect_delta_tiles(tile_checksums(prev, w, h, ts), tile_checksums(curr, w, h, ts))
             regions == build_delta_regions(curr, w, h, tiles, ts)
             region(k) == DeltaRegion(curr, w, h, tiles[k], ts)
             after == ApplyRegions(prev, w, h, regions)
  <1>0. PICK n \in Nat : tiles \in [1 .. n -> C] /\ \A t \in C : \E k \in 1 .. n : tiles[k] = t
    BY DEF Lists
  <1>4. C \in SUBSET TileGrid(w, h, ts)
    BY DEF detect_delta_tiles, tile_checksums
  <1> HIDE DEF C
  <1>1. DOMAIN regions = 1 .. n /\ \A k \in 1 .. n : regions[k] = region(k)
    BY <1>0 DEF build_delta_regions
  <1>2. ASSUME NEW i \in 0 .. w * h - 1 PROVE after[i] = curr[i]
    <2> DEFINE W == Writers(regions, w, h, i)
    <2>1. W = {k \in 1 .. n : Writes(region(k), w, h, i) # {}}
      BY <1>1 DEF Writers
    <2>2. CASE W = {}
      <3>1. after[i] = prev[i]
        BY <2>2 DEF ApplyRegions
      <3>2. PICK t \in TileGrid(w, h, ts) :
              /\ PixelOf(i, t, w, h, ts)
              /\ \A frame : Writes(DeltaRegion(frame, w, h, t, ts), w, h, i) # {}
        BY TileWrites
      <3>3. t \notin C
        BY <1>0, <2>1, <2>2, <3>2
      <3>4. prev[i] = curr[i]
        BY <3>2, <3>3, UnchangedTile DEF PixelOf, C
      <3>. QED BY <3>1, <3>4
    <2>3. CASE W # {}
      <3> DEFINE k == Greatest(W)
                 R == Writes(region(k), w, h, i)
                 yy == Greatest(R)
      <3>1. k \in W
        <4>1. W \in SUBSET Nat /\ \A m \in W : m <= n
          BY <2>1
        <4>. QED BY <2>3, <4>1, GreatestOf
      <3>2. k \in 1 .. n /\ R # {} /\ tiles[k] \in TileGrid(w, h, ts)
        BY <1>0, <1>4, <2>1, <3>1
      <3>3. yy \in R
        <4>1. region(k).height \in Nat
          <5>1. tiles[k][2] \in 0 .. TileCount(h, ts) - 1
            BY <3>2 DEF TileGrid
          <5>2. TileExtent(tiles[k][2], h, ts) \in 1 .. ts
            BY <5>1, TileWithin
          <5>. QED BY <5>2 DEF DeltaRegion
        <4>2. R \in SUBSET Nat /\ \A m \in R : m <= region(k).height
          BY <4>1 DEF Writes
        <4>. QED BY <3>2, <4>1, <4>2, GreatestOf
      <3>4. after[i] = region(k).data[yy * region(k).width + i - DstStart(region(k), yy, w)]
        BY <1>1, <2>3, <3>2 DEF ApplyRegions
      <3>. QED BY <3>2, <3>3, <3>4, WritesFrame
    <2>. QED BY <2>2, <2>3
  <1>3. after = [i \in 0 .. w * h - 1 |-> after[i]]
    BY DEF ApplyRegions
  <1>. QED BY <1>2, <1>3 DEF IsBuffer
-----------------------------------------------------------------------------
(* The deltas of FrameEncoder. *)

\* A finite set can be listed.
LEMMA ListedOf ==
  ASSUME NEW S, IsFiniteSet(S)
  PROVE  Lists(Listed(S), S)
  <1> DEFINE n == Cardinality(S)
  <1>1. n \in Nat /\ ExistsBijection(1 .. n, S)
    BY FS_CardinalityType
  <1>2. PICK b \in [1 .. n -> S] : \A x \in S : \E k \in 1 .. n : b[k] = x
    BY <1>1 DEF ExistsBijection, Bijection, Injection, Surjection
  <1>3. Range(b) = S
    BY <1>2 DEF Range
  <1>4. Listed(S) \in [1 .. n -> S] /\ Range(Listed(S)) = S
    BY <1>3 DEF Listed
  <1>. QED BY <1>1, <1>4 DEF Range, Lists

\* The tiles of a frame are finitely many.
LEMMA TileGridFinite ==
  ASSUME NEW w \in Nat \ {0}, NEW h \in Nat \ {0}, NEW ts \in Nat \ {0}
  PROVE  IsFiniteSet(TileGrid(w, h, ts))
  <1>1. ASSUME NEW e \in Nat \ {0} PROVE IsFiniteSet(0 .. TileCount(e, ts) - 1)
    <2>1. TileCount(e, ts) \in Nat
      BY Division, SMTT(20) DEF TileCount
    <2>. QED BY <2>1, FS_Interval
  <1>. QED BY <1>1, FS_Product DEF TileGrid

\* Screens of one size have the same tiles.
LEMMA ChangedTiles ==
  ASSUME NEW s \in Screens, NEW base
  PROVE  /\ DOMAIN compute_tile_checksums[s] = TileGrid(s.width, s.height, TileSize)
         /\ changed(base, s) \in SUBSET DOMAIN compute_tile_checksums[s]
  BY DEF changed, compute_tile_checksums, detect_delta_tiles, tile_checksums

\* A delta makes of the screen encoded before, if that has the same size, the
\* screen it was encoded from.
THEOREM DeltaApplies ==
  ASSUME NEW r \in Screens, NEW s \in Screens, Size(r) = Size(s)
  PROVE  apply_regions(r, delta_regions[s][changed(compute_tile_checksums[r], s)]) = s
  <1> DEFINE w == s.width
             h == s.height
             checks(x) == tile_checksums(x.pixels, w, h, TileSize)
             C == detect_delta_tiles(checks(r), checks(s))
  <1>1. /\ r = [width |-> w, height |-> h, pixels |-> r.pixels]
        /\ s = [width |-> w, height |-> h, pixels |-> s.pixels]
        /\ r.width = w /\ r.height = h
        /\ w \in Nat \ {0} /\ h \in Nat \ {0} /\ TileSize \in Nat \ {0}
        /\ IsBuffer(r.pixels, w, h) /\ IsBuffer(s.pixels, w, h)
    <2>1. r.width = w /\ r.height = h
      BY DEF Size
    <2>. QED BY <2>1, ScreensAssumption, EncoderAssumption DEF IsBuffer
  <1>3. compute_tile_checksums[r] = checks(r) /\ compute_tile_checksums[s] = checks(s)
    BY <1>1 DEF compute_tile_checksums
  <1>4. changed(compute_tile_checksums[r], s) = C
    BY <1>3, NoneAssumption DEF changed
  <1>5. C \in SUBSET TileGrid(w, h, TileSize) /\ IsFiniteSet(C)
    BY <1>1, TileGridFinite, FS_Subset DEF detect_delta_tiles, tile_checksums
  <1>6. Lists(Listed(C), C)
    BY <1>5, ListedOf
  <1>7. delta_regions[s][C] = build_delta_regions(s.pixels, w, h, Listed(C), TileSize)
    <2>1. C \in SUBSET DOMAIN compute_tile_checksums[s]
      BY <1>4, ChangedTiles
    <2>. QED BY <2>1 DEF delta_regions
  <1>8. ApplyRegions(r.pixels, w, h, delta_regions[s][C]) = s.pixels
    <2>1. ApplyRegions(r.pixels, w, h, build_delta_regions(s.pixels, w, h, Listed(C), TileSize)) = s.pixels
      <3> HIDE DEF w, h
      <3>. QED BY <1>1, <1>6, DeltaRestores
    <2>. QED BY <1>7, <2>1
  <1>. QED BY <1>1, <1>4, <1>8 DEF apply_regions
-----------------------------------------------------------------------------
(* Frames. *)

Payloads ==
    {s.pixels : s \in Screens}
    \cup UNION {{delta_regions[s][T] : T \in SUBSET DOMAIN compute_tile_checksums[s]} : s \in Screens}

\* The set of all frames.
Frames ==
    { f \in [ msg_id : 0 .. SeqMod - 1, kind : {"full", "delta"}, size : {Size(s) : s \in Screens},
              payload : Payloads, shows : Screens ] : IsFrame(f) }

\* A frame has the fields it was made of.
LEMMA FrameFields ==
  ASSUME NEW id, NEW kind, NEW payload, NEW s
  PROVE  LET f == Frame(id, kind, payload, s)
         IN  /\ f.msg_id = id /\ f.kind = kind /\ f.payload = payload /\ f.shows = s
             /\ f.size = Size(s)
  BY DEF Frame

LEMMA FramesAreFrames ==
  ASSUME NEW f
  PROVE  f \in Frames <=> IsFrame(f)
  <1>1. ASSUME IsFrame(f) PROVE f \in Frames
    <2>1. f = Frame(f.msg_id, f.kind, f.payload, f.shows) /\ f.msg_id \in 0 .. SeqMod - 1
          /\ f.shows \in Screens
      BY <1>1 DEF IsFrame
    <2>2. f.kind \in {"full", "delta"} /\ f.payload \in Payloads
      BY <1>1 DEF IsFrame, Payloads
    <2>. QED BY <1>1, <2>1, <2>2 DEF Frames, Frame
  <1>. QED BY <1>1 DEF Frames

LEMMA NextSeq ==
  ASSUME NEW n \in 0 .. SeqMod - 1
  PROVE  /\ next_seq(n) \in 0 .. SeqMod - 1
         /\ n + 1 < SeqMod => next_seq(n) = n + 1
  BY EncoderAssumption DEF next_seq

\* What the encoder makes is a frame, numbered after the one before.
LEMMA FramesMade ==
  ASSUME NEW n \in 0 .. SeqMod - 1, NEW s \in Screens, NEW base
  PROVE  /\ FullFrame(n, s) \in Frames /\ DeltaFrame(n, base, s) \in Frames
         /\ FullFrame(n, s).msg_id = next_seq(n) /\ DeltaFrame(n, base, s).msg_id = next_seq(n)
         /\ FullFrame(n, s).shows = s /\ DeltaFrame(n, base, s).shows = s
         /\ FullFrame(n, s).kind = "full" /\ DeltaFrame(n, base, s).kind = "delta"
         /\ DeltaFrame(n, base, s).payload = delta_regions[s][changed(base, s)]
  <1>1. next_seq(n) \in 0 .. SeqMod - 1
    BY NextSeq
  <1>2. IsFrame(FullFrame(n, s))
    BY <1>1, FrameFields DEF IsFrame, FullFrame
  <1>3. IsFrame(DeltaFrame(n, base, s))
    <2>1. changed(base, s) \in SUBSET DOMAIN compute_tile_checksums[s]
      BY ChangedTiles
    <2>. QED BY <1>1, <2>1, FrameFields DEF IsFrame, DeltaFrame
  <1>. QED BY <1>2, <1>3, FramesAreFrames, FrameFields DEF FullFrame, DeltaFrame

LEMMA NoneIsNoFrame == None \notin Frames
  <1> SUFFICES ASSUME IsFrame(None) PROVE FALSE
    BY FramesAreFrames
  <1> DEFINE id == None.msg_id
             s  == None.shows
  <1>1. id \in 0 .. SeqMod - 1 /\ s \in Screens
    BY DEF IsFrame
  <1>2. CASE None.kind = "full" /\ None.payload = s.pixels
    <2>1. None = Frame(id, "full", s.pixels, s)
      BY <1>2 DEF IsFrame
    <2> HIDE DEF id, s
    <2>. QED BY <1>1, <2>1, NoneAssumption
  <1>3. CASE None.kind = "delta" /\ \E T \in SUBSET DOMAIN compute_tile_checksums[s] :
                                       None.payload = delta_regions[s][T]
    <2>1. PICK T \in SUBSET DOMAIN compute_tile_checksums[s] :
             None = Frame(id, "delta", delta_regions[s][T], s)
      BY <1>3 DEF IsFrame
    <2> HIDE DEF id, s
    <2>. QED BY <1>1, <2>1, NoneAssumption
  <1>. QED BY <1>2, <1>3 DEF IsFrame
=============================================================================
