------------------------- MODULE FramebufferProofs -------------------------
(***************************************************************************)
(* For every tile size, every set of resolutions and every set of blocks,  *)
(* the front end misses no change of the screen: CleanTileShown is         *)
(* inductive together with TypeOK, and PullDelivers follows.  The heart is *)
(* RectsCover: the rectangles pull() builds from maximal runs of dirty     *)
(* tiles contain every pixel of every dirty tile, also at the cut edges.   *)
(* RunsApart is the converse: no tile is in two of them (RectsApart).      *)
(***************************************************************************)
EXTENDS Framebuffer, TLAPS, WellFoundedInduction

\* A non-empty set of natural numbers has a least element.
LEMMA Least ==
  ASSUME NEW T \in SUBSET Nat, T # {}
  PROVE  \E x \in T : \A y \in T : x <= y
<1> DEFINE R == OpToRel(<, Nat)
<1>1. IsWellFoundedOn(R, Nat)
  BY NatLessThanWellFounded
<1>2. PICK x \in T : \A y \in T : <<y, x>> \notin R
  <2> HIDE DEF R
  <2> QED BY <1>1, WFMin
<1>3. \A y \in T : y < x => <<y, x>> \in R
  BY DEF OpToRel
<1>4. \A y \in T : ~(y < x)
  <2> HIDE DEF R
  <2> QED BY <1>2, <1>3
<1> QED
  BY <1>4

\* Division with remainder, as pixel indices are taken apart.
LEMMA DivMod ==
  ASSUME NEW i \in Nat, NEW w \in Nat \ {0}
  PROVE  /\ i \div w \in Nat /\ i % w \in 0 .. w - 1
         /\ i = w * (i \div w) + (i % w)
  OBVIOUS

\* Multiplication by a positive number keeps the order.
LEMMA Mono ==
  ASSUME NEW w \in Nat \ {0}, NEW a \in Nat, NEW b \in Nat, a <= b
  PROVE  w * a <= w * b
  OBVIOUS

\* An index into w * h pixels lies in one of the h rows.
LEMMA RowBound ==
  ASSUME NEW w \in Nat \ {0}, NEW h \in Nat, NEW i \in 0 .. w * h - 1
  PROVE  i \div w \in 0 .. h - 1
<1>1. w * h \in Nat /\ i \in Nat /\ i < w * h
  OBVIOUS
<1>2. i \div w \in Nat /\ i >= w * (i \div w)
  BY <1>1, DivMod
<1>3. ASSUME h <= i \div w PROVE FALSE
  BY <1>1, <1>2, <1>3, Mono
<1> QED
  BY <1>2, <1>3

\* Every dirty tile of a row is in a run of dirty tiles that cannot be extended,
\* the runs pull() finds by scanning the row.
LEMMA MaximalRun ==
  ASSUME NEW n \in Nat, NEW D \in SUBSET (0 .. n - 1), NEW t \in D
  PROVE  \E a \in 0 .. n - 1, b \in 1 .. n :
            /\ a <= t /\ t < b
            /\ \A k \in a .. b - 1 : k \in D
            /\ a - 1 \notin D /\ b \notin D
<1> DEFINE A == {a \in 0 .. t : \A k \in a .. t : k \in D}
           B == {b \in Nat : b > t /\ b \notin D}
<1>1. t \in Nat /\ t \in A /\ n \in B
  OBVIOUS
<1>2. PICK a \in A : \A y \in A : a <= y
  <2>1. A \in SUBSET Nat /\ A # {}
    BY <1>1
  <2> HIDE DEF A
  <2> QED BY <2>1, Least
<1>3. PICK b \in B : \A y \in B : b <= y
  <2>1. B \in SUBSET Nat /\ B # {}
    BY <1>1
  <2> HIDE DEF B
  <2> QED BY <2>1, Least
<1>4. a - 1 \notin D
  <2>1. ASSUME a - 1 \in D PROVE FALSE
    <3>1. a - 1 \in A
      BY <2>1, <1>1
    <3> QED BY <3>1, <1>2
  <2> QED BY <2>1
<1>5. \A k \in t + 1 .. b - 1 : k \in D
  <2>1. ASSUME NEW k \in t + 1 .. b - 1, k \notin D PROVE FALSE
    <3>1. k \in B
      BY <2>1, <1>1
    <3> QED BY <3>1, <1>3, <1>1
  <2> QED BY <2>1
<1>6. b <= n
  BY <1>1, <1>3
<1> QED
  BY <1>1, <1>2, <1>3, <1>4, <1>5, <1>6

\* A coordinate lies within the tile it is divided into.
LEMMA TileBounds ==
  ASSUME NEW p \in Nat, NEW t \in Nat, t = p \div Tile
  PROVE  t * Tile <= p /\ p < (t + 1) * Tile
<1>1. Tile \in Nat \ {0}
  BY FramebufferAssumption
<1>2. p % Tile \in 0 .. Tile - 1 /\ p = Tile * t + (p % Tile)
  BY <1>1, DivMod
<1> QED
  BY <1>1, <1>2

\* A pixel within the first m is in one of the first TilesX(m) tiles.
LEMMA TileIndex ==
  ASSUME NEW m \in Nat, NEW q \in 0 .. m - 1
  PROVE  q \div Tile \in 0 .. TilesX(m) - 1
<1>1. Tile \in Nat \ {0} /\ q \in Nat /\ m + Tile - 1 \in Nat
  BY FramebufferAssumption
<1>2. q \div Tile \in Nat /\ Tile * (q \div Tile) <= q
  BY <1>1, DivMod
<1>3. TilesX(m) \in Nat /\ m - 1 < Tile * TilesX(m)
  BY <1>1, DivMod DEF TilesX
<1>4. ASSUME TilesX(m) <= q \div Tile PROVE FALSE
  BY <1>1, <1>2, <1>3, <1>4, Mono
<1> QED
  BY <1>2, <1>3, <1>4

\* Every index of the framebuffer is a point of the screen.
LEMMA PixelPlace ==
  ASSUME TypeOK, NEW i \in DOMAIN pixels
  PROVE  /\ width \in Nat \ {0} /\ height \in Nat \ {0}
         /\ X(i, width) \in 0 .. width - 1 /\ Y(i, width) \in 0 .. height - 1
<1>1. width \in Nat /\ height \in Nat /\ i \in 0 .. width * height - 1
  BY DEF TypeOK
<1>2. width # 0 /\ height # 0
  BY <1>1
<1>3. i \in Nat
  BY <1>1
<1>4. i % width \in 0 .. width - 1
  BY <1>1, <1>2, <1>3, DivMod
<1>5. i \div width \in 0 .. height - 1
  BY <1>1, <1>2, RowBound
<1> QED
  BY <1>1, <1>2, <1>4, <1>5 DEF X, Y

\* Every pixel of a dirty tile is in one of the rectangles of pull().
LEMMA RectsCover ==
  ASSUME TypeOK, NEW i \in DOMAIN pixels, TileAt(i, width) \in tileDirty
  PROVE  \E r \in DirtyRects : Inside(i, r)
<1> DEFINE px == X(i, width)
           py == Y(i, width)
           tx == px \div Tile
           ty == py \div Tile
           n  == TilesX(width)
           D  == {k \in 0 .. n - 1 : <<k, ty>> \in tileDirty}
<1>1. Tile \in Nat \ {0}
  BY FramebufferAssumption
<1>2. /\ width \in Nat \ {0} /\ height \in Nat \ {0}
      /\ px \in 0 .. width - 1 /\ py \in 0 .. height - 1
  BY PixelPlace
<1>3. <<tx, ty>> \in tileDirty /\ tileDirty \subseteq AllTiles(width, height)
  BY DEF TileAt, TypeOK
<1>4. tx \in 0 .. n - 1 /\ ty \in 0 .. TilesX(height) - 1 /\ n \in Int /\ tx \in Nat
        /\ n \in Nat
  <2>1. width + Tile - 1 \in Nat
    BY <1>1, <1>2
  <2>2. n \in Nat
    BY <1>1, <2>1, DivMod DEF TilesX
  <2> HIDE DEF px, py, tx, ty, n
  <2>3. tx \in 0 .. n - 1 /\ ty \in 0 .. TilesX(height) - 1
    BY <1>3 DEF AllTiles, n
  <2> QED BY <2>2, <2>3
<1> HIDE DEF px, py, tx, ty, n
<1>5. tx \in D /\ D \in SUBSET (0 .. n - 1)
  BY <1>3, <1>4
<1>6. PICK a \in 0 .. n - 1, b \in 1 .. n :
            /\ a <= tx /\ tx < b
            /\ \A k \in a .. b - 1 : k \in D
            /\ a - 1 \notin D /\ b \notin D
  <2> HIDE DEF D
  <2> QED BY <1>4, <1>5, MaximalRun
<1>7. Run(a, b, ty)
  <2>1. ASSUME NEW k, <<k, ty>> \in tileDirty PROVE k \in D
    BY <2>1, <1>3 DEF AllTiles, n
  <2> QED BY <1>6, <2>1 DEF Run
<1>8. <<a, b, ty>> \in Runs
  BY <1>4, <1>6, <1>7 DEF Runs, n
<1>9. Rect(a, b, ty) \in DirtyRects
  BY <1>8 DEF DirtyRects
<1>10. a * Tile <= px /\ px < b * Tile /\ ty * Tile <= py /\ py < (ty + 1) * Tile
  <2>1. tx * Tile <= px /\ px < (tx + 1) * Tile
    BY <1>2, <1>4, TileBounds DEF tx
  <2>2. ty * Tile <= py /\ py < (ty + 1) * Tile
    <3>1. ty \in Nat
      BY <1>4
    <3> QED BY <3>1, <1>2, TileBounds DEF ty
  <2>3. Tile * a <= Tile * tx /\ Tile * (tx + 1) <= Tile * b
    BY <1>1, <1>4, <1>6, Mono
  <2> QED BY <1>1, <1>2, <1>4, <1>6, <2>1, <2>2, <2>3
<1>11. Inside(i, Rect(a, b, ty))
  <2>1. a * Tile \in Int /\ b * Tile \in Int /\ (b - a) * Tile = b * Tile - a * Tile
          /\ ty * Tile \in Int /\ (ty + 1) * Tile = ty * Tile + Tile
    BY <1>1, <1>4, <1>6
  <2> QED BY <1>1, <1>2, <1>10, <2>1 DEF Inside, Rect, px, py
<1> QED
  BY <1>9, <1>11

\* emit_run never clips a rectangle away: its early return is never taken.
LEMMA RectType ==
  ASSUME NEW w \in Nat, NEW h \in Nat, w = width, h = height, NEW r \in DirtyRects
  PROVE  r.x \in Nat /\ r.y \in Nat /\ r.w \in Nat \ {0} /\ r.h \in Nat \ {0}
<1>1. Tile \in Nat \ {0}
  BY FramebufferAssumption
<1>2. PICK s \in Runs : r = Rect(s[1], s[2], s[3])
  BY DEF DirtyRects
<1> DEFINE a == s[1]
           b == s[2]
           c == s[3]
<1>3. /\ a \in 0 .. TilesX(w) - 1 /\ b \in 1 .. TilesX(w)
      /\ c \in 0 .. TilesX(h) - 1 /\ a < b
  BY <1>2 DEF Runs
<1> HIDE DEF a, b, c
<1>4. ASSUME NEW m \in Nat, NEW k \in 0 .. TilesX(m) - 1
      PROVE  k \in Nat /\ k * Tile \in Nat /\ k * Tile < m
  <2>1. m + Tile - 1 \in Nat
    BY <1>1
  <2>2. TilesX(m) \in Nat /\ Tile * TilesX(m) <= m + Tile - 1
    BY <1>1, <2>1, DivMod DEF TilesX
  <2>3. k \in Nat /\ k + 1 <= TilesX(m)
    BY <2>2
  <2>4. Tile * (k + 1) <= Tile * TilesX(m)
    BY <1>1, <2>2, <2>3, Mono
  <2> QED
    BY <1>1, <2>2, <2>3, <2>4
<1>5. a \in Nat /\ a * Tile \in Nat /\ a * Tile < w /\ c \in Nat /\ c * Tile \in Nat /\ c * Tile < h
  BY <1>3, <1>4
<1>6. b - a \in Nat \ {0} /\ b \in Nat
  BY <1>3, <1>5
<1>7. (b - a) * Tile \in Nat \ {0}
  BY <1>1, <1>6
<1>8. r = Rect(a, b, c)
  BY <1>2 DEF a, b, c
<1> QED
  BY <1>1, <1>5, <1>6, <1>7, <1>8 DEF Rect

\* The buffers keep their sizes and on_paste never reads outside the block.
THEOREM TypeCorrect == Spec => []TypeOK
<1> USE FramebufferAssumption
<1>1. Init => TypeOK
  <2> SUFFICES ASSUME Init PROVE TypeOK
    OBVIOUS
  <2>1. Empty \in [{} -> Values]
    BY DEF Empty
  <2>2. width = 0 /\ height = 0 /\ 0 .. width * height - 1 = {}
    BY DEF Init
  <2>3. pixels \in [0 .. width * height - 1 -> Values] /\ dest \in [DOMAIN dest -> Values]
    BY <2>1, <2>2 DEF Init
  <2>4. tileDirty \subseteq AllTiles(width, height) /\ rects = {} /\ pulled \in BOOLEAN
    BY DEF Init
  <2>5. width \in Nat /\ height \in Nat /\ destW \in Nat /\ destH \in Nat
    BY DEF Init
  <2> QED
    BY <2>3, <2>4, <2>5 DEF TypeOK
<1>2. TypeOK /\ [Next]_vars => TypeOK'
  <2> SUFFICES ASSUME TypeOK, [Next]_vars PROVE TypeOK'
    OBVIOUS
  <2>1. ASSUME NEW s \in Sizes, SetDimensions(s[1], s[2]) PROVE TypeOK'
    <3>1. s[1] \in Nat /\ s[2] \in Nat
      OBVIOUS
    <3>2. /\ width' = s[1] /\ height' = s[2]
          /\ pixels' = [i \in 0 .. s[1] * s[2] - 1 |-> Black]
          /\ tileDirty' = AllTiles(s[1], s[2])
          /\ UNCHANGED client
      BY <2>1 DEF SetDimensions
    <3>3. pixels' \in [0 .. width' * height' - 1 -> Values]
      BY <3>1, <3>2
    <3>4. tileDirty' \subseteq AllTiles(width', height')
      BY <3>2
    <3> QED BY <3>1, <3>2, <3>3, <3>4 DEF TypeOK, client
  <2>2. ASSUME NEW b \in Blocks, NEW t, Paste(b, t) PROVE TypeOK'
    <3> DEFINE changed == {i \in Covered(t) : pixels[i] # Blit(b, t, i)}
    <3>1. /\ changed # {}
          /\ pixels' = [i \in DOMAIN pixels |->
                          IF i \in changed THEN Blit(b, t, i) ELSE pixels[i]]
          /\ tileDirty' = tileDirty \cup {t}
          /\ UNCHANGED <<width, height, client>>
      BY <2>2 DEF Paste
    <3>2. \A i \in changed : Blit(b, t, i) \in Values
      <4> SUFFICES ASSUME NEW i \in changed PROVE Blit(b, t, i) \in Values
        OBVIOUS
      <4>1. i \in DOMAIN pixels /\ TileAt(i, width) = t
        BY DEF Covered
      <4> DEFINE px == X(i, width)
                 py == Y(i, width)
      <4>2. px \in Nat /\ py \in Nat
        BY <4>1, PixelPlace
      <4>3. t[1] = px \div Tile /\ t[2] = py \div Tile
        BY <4>1 DEF TileAt
      <4> HIDE DEF px, py
      <4>4. t[1] \in Nat /\ t[2] \in Nat
        BY <4>2, <4>3, DivMod
      <4>5. /\ t[1] * Tile <= px /\ px < (t[1] + 1) * Tile
            /\ t[2] * Tile <= py /\ py < (t[2] + 1) * Tile
        BY <4>2, <4>3, <4>4, TileBounds
      <4> DEFINE c == px - t[1] * Tile
                 r == py - t[2] * Tile
      <4>6. c \in 0 .. Tile - 1 /\ r \in 0 .. Tile - 1
        <5>1. /\ t[1] * Tile \in Nat /\ (t[1] + 1) * Tile = t[1] * Tile + Tile
              /\ t[2] * Tile \in Nat /\ (t[2] + 1) * Tile = t[2] * Tile + Tile
          BY <4>4
        <5> QED BY <4>2, <4>5, <5>1
      <4> HIDE DEF c, r
      <4>7. r * Tile + c \in 0 .. Tile * Tile - 1
        <5>1. Tile * r <= Tile * (Tile - 1)
          BY <4>6, Mono
        <5> QED BY <4>6, <5>1
      <4> QED BY <4>7 DEF Blit, c, r, px, py
    <3> HIDE DEF changed
    <3>3. pixels' \in [0 .. width * height - 1 -> Values]
      BY <3>1, <3>2 DEF TypeOK
    <3>4. t \in AllTiles(width, height)
      <4>1. PICK i \in changed : TRUE
        BY <3>1
      <4>2. i \in DOMAIN pixels /\ TileAt(i, width) = t
        BY <4>1 DEF Covered, changed
      <4> DEFINE px == X(i, width)
                 py == Y(i, width)
      <4>3. px \in 0 .. width - 1 /\ py \in 0 .. height - 1 /\ width \in Nat /\ height \in Nat
        BY <4>2, PixelPlace
      <4> HIDE DEF px, py
      <4>5. px \div Tile \in 0 .. TilesX(width) - 1 /\ py \div Tile \in 0 .. TilesX(height) - 1
        BY <4>3, TileIndex
      <4> QED BY <4>2, <4>5 DEF AllTiles, TileAt, px, py
    <3> QED BY <3>1, <3>3, <3>4 DEF TypeOK, client
  <2>3. CASE PullNothing
    BY <2>3 DEF PullNothing, TypeOK, screen
  <2>4. CASE PullResized
    <3>1. width \in Nat \ {0} /\ height \in Nat \ {0}
      BY <2>4, PixelPlace DEF PullResized
    <3> QED BY <2>4, <3>1 DEF PullResized, TypeOK
  <2>5. CASE PullChanged
    <3>1. width \in Nat /\ height \in Nat /\ pixels \in [0 .. width * height - 1 -> Values]
      BY DEF TypeOK
    <3>2. \A r \in DirtyRects : r.x \in Nat /\ r.y \in Nat /\ r.w \in Nat \ {0} /\ r.h \in Nat \ {0}
      BY <3>1, RectType
    <3> QED BY <2>5, <3>1, <3>2 DEF PullChanged, TypeOK
  <2>6. CASE UNCHANGED vars
    BY <2>6 DEF vars, screen, client, TypeOK
  <2> QED
    BY <2>1, <2>2, <2>3, <2>4, <2>5, <2>6 DEF Next, Pull
<1> QED
  BY <1>1, <1>2, PTL DEF Spec

\* A pull() that gets past the empty check leaves dest equal to the screen.
LEMMA PulledScreen ==
  ASSUME TypeOK, CleanTileShown, PullResized \/ PullChanged
  PROVE  dest' = pixels
<1>1. CASE PullResized
  BY <1>1 DEF PullResized
<1>2. CASE PullChanged
  <2>1. /\ DOMAIN dest = DOMAIN pixels
        /\ dest' = [i \in DOMAIN dest |->
             IF \E r \in DirtyRects : Inside(i, r) THEN pixels[i] ELSE dest[i]]
    BY <1>2 DEF PullChanged
  <2>2. \A i \in DOMAIN pixels : dest'[i] = pixels[i]
    BY <2>1, RectsCover DEF CleanTileShown
  <2>3. pixels = [i \in DOMAIN pixels |-> pixels[i]]
    BY DEF TypeOK
  <2> QED
    BY <2>1, <2>2, <2>3
<1> QED
  BY <1>1, <1>2

\* Every step keeps unmarked tiles equal in the two buffers.
LEMMA CleanInductive ==
  ASSUME TypeOK, CleanTileShown, [Next]_vars
  PROVE  CleanTileShown'
<1>1. ASSUME NEW s \in Sizes, SetDimensions(s[1], s[2]) PROVE CleanTileShown'
  <2>1. s[1] \in Nat /\ s[2] \in Nat
    BY FramebufferAssumption
  <2> DEFINE w == s[1]
             h == s[2]
  <2>2. /\ width' = w /\ height' = h /\ DOMAIN pixels' = 0 .. w * h - 1
        /\ tileDirty' = AllTiles(w, h)
    BY <1>1 DEF SetDimensions
  <2> HIDE DEF w, h
  <2>3. ASSUME NEW i \in 0 .. w * h - 1 PROVE TileAt(i, w) \in AllTiles(w, h)
    <3>1. w \in Nat \ {0} /\ h \in Nat /\ i \in Nat
      BY <2>1, <2>3 DEF w, h
    <3>2. i % w \in 0 .. w - 1
      BY <3>1, DivMod
    <3>3. i \div w \in 0 .. h - 1
      BY <3>1, <2>3, RowBound
    <3>4. (i % w) \div Tile \in 0 .. TilesX(w) - 1
      BY <3>1, <3>2, TileIndex
    <3>5. (i \div w) \div Tile \in 0 .. TilesX(h) - 1
      BY <3>1, <3>3, TileIndex
    <3> QED
      BY <3>4, <3>5 DEF TileAt, AllTiles, X, Y
  <2> QED
    BY <2>2, <2>3 DEF CleanTileShown
<1>2. ASSUME NEW b \in Blocks, NEW t, Paste(b, t) PROVE CleanTileShown'
  <2> DEFINE changed == {i \in Covered(t) : pixels[i] # Blit(b, t, i)}
  <2>1. /\ pixels' = [i \in DOMAIN pixels |->
                        IF i \in changed THEN Blit(b, t, i) ELSE pixels[i]]
        /\ tileDirty' = tileDirty \cup {t}
        /\ width' = width /\ dest' = dest
    BY <1>2 DEF Paste, client
  <2>2. \A i \in changed : TileAt(i, width) = t
    BY DEF Covered
  <2> HIDE DEF changed
  <2> QED
    BY <2>1, <2>2 DEF CleanTileShown
<1>3. CASE PullNothing
  BY <1>3 DEF PullNothing, screen, CleanTileShown
<1>4. CASE PullResized \/ PullChanged
  <2>1. dest' = pixels /\ pixels' = pixels
    BY <1>4, PulledScreen DEF PullResized, PullChanged
  <2> QED
    BY <2>1 DEF CleanTileShown
<1>5. CASE UNCHANGED vars
  BY <1>5 DEF vars, screen, client, CleanTileShown
<1> QED
  BY <1>1, <1>2, <1>3, <1>4, <1>5 DEF Next, Pull

\* No paste and no change of resolution is missed: a tile that is not marked in
\* tile_dirty is the same in the front end's vector, whenever pull() would copy
\* only marked tiles.
THEOREM FrontEndSeesEveryChange == Spec => []CleanTileShown
<1>1. Init => CleanTileShown
  BY DEF Init, CleanTileShown, Empty
<1> QED
  BY <1>1, CleanInductive, TypeCorrect, PTL DEF Spec

\* Every pull() that returns true delivers the whole screen in its size, and the
\* rectangles it reports contain every pixel it changed.
THEOREM PullComplete == Spec => PullDelivers
<1> DEFINE Delivered == Pull /\ pulled' =>
       /\ dest' = pixels /\ destW' = width /\ destH' = height
       /\ \A i \in DOMAIN dest \cap DOMAIN dest' :
            dest'[i] # dest[i] => \E r \in rects' : Inside(i, r)
<1>1. ASSUME TypeOK, CleanTileShown, Pull, pulled'
      PROVE  /\ dest' = pixels /\ destW' = width /\ destH' = height
             /\ \A i \in DOMAIN dest \cap DOMAIN dest' :
                  dest'[i] # dest[i] => \E r \in rects' : Inside(i, r)
  <2>1. PullResized \/ PullChanged
    BY <1>1 DEF Pull, PullNothing
  <2>2. dest' = pixels
    BY <1>1, <2>1, PulledScreen
  <2>3. destW' = width /\ destH' = height
    BY <2>1 DEF PullResized, PullChanged
  <2>4. CASE PullResized
    <3> DEFINE whole == [x |-> 0, y |-> 0, w |-> width, h |-> height]
    <3>1. whole \in rects'
      BY <2>4 DEF PullResized
    <3>2. ASSUME NEW i \in DOMAIN pixels PROVE Inside(i, whole)
      BY <1>1, PixelPlace DEF Inside
    <3> HIDE DEF whole
    <3> QED BY <2>2, <2>3, <3>1, <3>2
  <2>5. CASE PullChanged
    BY <2>2, <2>3, <2>5 DEF PullChanged
  <2> QED BY <2>1, <2>4, <2>5
<1>2. TypeOK /\ CleanTileShown => [Delivered]_vars
  BY <1>1
<1> QED
  BY <1>2, TypeCorrect, FrontEndSeesEveryChange, PTL DEF PullDelivers

\* A rectangle ends on the screen, and within the tiles it was made from.
LEMMA RectBounds ==
  ASSUME width \in Nat, height \in Nat,
         NEW a \in Nat, NEW b \in Nat, NEW c \in Nat, NEW r, r = Rect(a, b, c)
  PROVE  /\ r.x = a * Tile /\ r.x + r.w <= width /\ r.x + r.w <= b * Tile
         /\ r.y = c * Tile /\ r.y + r.h <= height /\ r.y + r.h <= (c + 1) * Tile
<1>1. Tile \in Nat \ {0}
  BY FramebufferAssumption
<1> DEFINE at == a * Tile  bt == b * Tile  ct == c * Tile  dt == (c + 1) * Tile
<1>2. /\ at \in Nat /\ bt \in Nat /\ ct \in Nat /\ dt \in Nat
      /\ (b - a) * Tile = bt - at /\ dt = ct + Tile
  BY <1>1
<1>3. /\ r.x = at /\ r.w = IF bt > width THEN width - at ELSE bt - at
      /\ r.y = ct /\ r.h = IF dt > height THEN height - ct ELSE Tile
  BY <1>2 DEF Rect
<1> HIDE DEF at, bt, ct, dt
<1>4. r.x + r.w <= width /\ r.x + r.w <= bt
  BY <1>2, <1>3
<1>5. r.y + r.h <= height /\ r.y + r.h <= dt
  BY <1>1, <1>2, <1>3
<1> QED BY <1>3, <1>4, <1>5 DEF at, bt, ct, dt

\* Two runs of a row that cannot be made longer are the same run or apart.
LEMMA RunsApart ==
  ASSUME NEW a \in Nat, NEW b \in Nat, NEW c \in Nat, NEW d \in Nat, NEW ty,
         a < b, c < d, a <= c, Run(a, b, ty), Run(c, d, ty)
  PROVE  b <= c \/ (a = c /\ b = d)
<1> SUFFICES ASSUME c < b PROVE a = c /\ b = d
  OBVIOUS
<1>1. a = c
  <2>1. ~(a < c)
    <3>1. a < c => c - 1 \in a .. b - 1
      OBVIOUS
    <3> QED BY <3>1 DEF Run
  <2> QED BY <2>1
<1>2. ~(b < d)
  <2>1. b < d => b \in c .. d - 1
    OBVIOUS
  <2> QED BY <2>1 DEF Run
<1>3. ~(d < b)
  <2>1. d < b => d \in a .. b - 1
    BY <1>1
  <2> QED BY <2>1 DEF Run
<1> QED BY <1>1, <1>2, <1>3

\* The rectangles of two different runs do not overlap.
LEMMA RunRectsApart ==
  ASSUME width \in Nat, height \in Nat, NEW r, NEW s, r # s,
         NEW a \in Nat, NEW b \in Nat, NEW c \in Nat, a < b, Run(a, b, c), r = Rect(a, b, c),
         NEW d \in Nat, NEW e \in Nat, NEW f \in Nat, d < e, Run(d, e, f), s = Rect(d, e, f),
         r.x \in Nat, r.y \in Nat, r.w \in Nat, r.h \in Nat,
         s.x \in Nat, s.y \in Nat, s.w \in Nat, s.h \in Nat
  PROVE  \/ r.x + r.w <= s.x \/ s.x + s.w <= r.x
         \/ r.y + r.h <= s.y \/ s.y + s.h <= r.y
<1>1. Tile \in Nat \ {0}
  BY FramebufferAssumption
<1>2. /\ r.x = a * Tile /\ r.x + r.w <= b * Tile
      /\ r.y = c * Tile /\ r.y + r.h <= (c + 1) * Tile
  BY RectBounds
<1>3. /\ s.x = d * Tile /\ s.x + s.w <= e * Tile
      /\ s.y = f * Tile /\ s.y + s.h <= (f + 1) * Tile
  BY RectBounds
<1>4. \A m, n \in Nat : m <= n => m * Tile <= n * Tile
  <2> SUFFICES ASSUME NEW m \in Nat, NEW n \in Nat, m <= n PROVE m * Tile <= n * Tile
    OBVIOUS
  <2>1. Tile * m <= Tile * n
    BY <1>1, Mono
  <2> QED BY <1>1, <2>1
<1>5. \A m \in Nat : m * Tile \in Nat /\ m + 1 \in Nat
  BY <1>1
<1>6. CASE c < f
  <2>1. (c + 1) * Tile <= f * Tile
    BY <1>4, <1>5, <1>6
  <2> QED BY <1>2, <1>3, <1>5, <2>1
<1>7. CASE f < c
  <2>1. (f + 1) * Tile <= c * Tile
    BY <1>4, <1>5, <1>7
  <2> QED BY <1>2, <1>3, <1>5, <2>1
<1>8. CASE c = f
  <2>1. b <= d \/ e <= a
    <3>1. ~(a = d /\ b = e)
      BY <1>8
    <3>2. CASE a <= d
      BY <1>8, <3>1, <3>2, RunsApart
    <3>3. CASE d <= a
      BY <1>8, <3>1, <3>3, RunsApart
    <3> QED BY <3>2, <3>3
  <2>2. CASE b <= d
    <3>1. b * Tile <= d * Tile
      BY <1>4, <2>2
    <3> QED BY <1>2, <1>3, <1>5, <3>1
  <2>3. CASE e <= a
    <3>1. e * Tile <= a * Tile
      BY <1>4, <2>3
    <3> QED BY <1>2, <1>3, <1>5, <3>1
  <2> QED BY <2>1, <2>2, <2>3
<1> QED BY <1>6, <1>7, <1>8

\* Two rectangles of one pull() do not overlap.
LEMMA RectsDisjoint ==
  ASSUME width \in Nat, height \in Nat, NEW r \in DirtyRects, NEW s \in DirtyRects, r # s
  PROVE  \/ r.x + r.w <= s.x \/ s.x + s.w <= r.x
         \/ r.y + r.h <= s.y \/ s.y + s.h <= r.y
<1>1. \A p \in Runs : /\ p[1] \in Nat /\ p[2] \in Nat /\ p[3] \in Nat
                      /\ p[1] < p[2] /\ Run(p[1], p[2], p[3])
  BY DEF Runs
<1>2. PICK p \in Runs : r = Rect(p[1], p[2], p[3])
  BY DEF DirtyRects
<1>3. PICK q \in Runs : s = Rect(q[1], q[2], q[3])
  BY DEF DirtyRects
<1>4. /\ p[1] \in Nat /\ p[2] \in Nat /\ p[3] \in Nat /\ p[1] < p[2] /\ Run(p[1], p[2], p[3])
      /\ q[1] \in Nat /\ q[2] \in Nat /\ q[3] \in Nat /\ q[1] < q[2] /\ Run(q[1], q[2], q[3])
  BY <1>1
<1>5. r.x \in Nat /\ r.y \in Nat /\ r.w \in Nat /\ r.h \in Nat
  BY RectType
<1>6. s.x \in Nat /\ s.y \in Nat /\ s.w \in Nat /\ s.h \in Nat
  BY RectType
<1> QED BY <1>2, <1>3, <1>4, <1>5, <1>6, RunRectsApart

\* emit_run's rectangles lie on the screen and cover no pixel twice, for every tile
\* size and resolution: what the front end uploads stays inside its texture.
THEOREM RectanglesApart == Spec => []RectsApart
<1>1. Init => RectsApart
  BY DEF Init, RectsApart
<1>2. TypeOK /\ RectsApart /\ [Next]_vars => RectsApart'
  <2> SUFFICES ASSUME TypeOK, RectsApart, [Next]_vars PROVE RectsApart'
    OBVIOUS
  <2>1. width \in Nat /\ height \in Nat
    BY DEF TypeOK
  <2>2. CASE UNCHANGED client
    BY <2>2 DEF client, RectsApart
  <2>3. CASE PullNothing
    BY <2>3 DEF PullNothing, RectsApart
  <2>4. CASE PullResized
    BY <2>1, <2>4 DEF PullResized, RectsApart
  <2>5. CASE PullChanged
    <3>1. destW' = width /\ destH' = height /\ rects' = DirtyRects
      BY <2>5 DEF PullChanged
    <3>2. ASSUME NEW r \in DirtyRects PROVE r.x + r.w <= width /\ r.y + r.h <= height
      <4>1. PICK p \in Runs : r = Rect(p[1], p[2], p[3])
        BY DEF DirtyRects
      <4>2. p[1] \in Nat /\ p[2] \in Nat /\ p[3] \in Nat
        BY <4>1 DEF Runs
      <4> QED BY ONLY <2>1, <4>1, <4>2, RectBounds, Zenon
    <3>3. ASSUME NEW r \in DirtyRects, NEW s \in DirtyRects, r # s
          PROVE  \/ r.x + r.w <= s.x \/ s.x + s.w <= r.x
                 \/ r.y + r.h <= s.y \/ s.y + s.h <= r.y
      BY <2>1, <3>3, RectsDisjoint
    <3> QED BY <3>1, <3>2, <3>3 DEF RectsApart
  <2> QED
    BY <2>2, <2>3, <2>4, <2>5 DEF Next, Pull, SetDimensions, Paste, vars
<1> QED
  BY <1>1, <1>2, TypeCorrect, PTL DEF Spec
=============================================================================
