---------------------------- MODULE Framebuffer ----------------------------
(***************************************************************************)
(* The screen between the decoder and the front end: TrackingFramebuffer   *)
(* and ConsoleCore::pull of ui/console_core.hpp, on FramebufferDecoder of  *)
(* ilo/cim_png.hpp.                                                        *)
(*                                                                         *)
(* The worker pastes tiles and changes the resolution; the front end pulls *)
(* what changed into a vector it owns.  All three hold mu_.  Buffers are   *)
(* vectors as in the code: pixel (x, y) of a screen `width' wide is at     *)
(* index y * width + x, and a stale vector may have the right length and   *)
(* the wrong layout.                                                       *)
(***************************************************************************)
EXTENDS Integers, FiniteSets

CONSTANTS
  Tile,     \* TILE, 16 in the code
  Sizes,    \* the <<width, height>> the encoder may announce
  Values,   \* pixel values
  Black,    \* the 0 a new buffer is filled with
  Blocks    \* the tiles the decoder may paste: row-major, Tile * Tile values

ASSUME FramebufferAssumption ==
  /\ Tile \in Nat \ {0}
  /\ Sizes \subseteq (Nat \ {0}) \X (Nat \ {0})
  /\ Black \in Values
  /\ Blocks \subseteq [0 .. Tile * Tile - 1 -> Values]

VARIABLES
  width, height,   \* fb_w, fb_h
  pixels,          \* the framebuffer vector
  tileDirty,       \* the tiles <<tx, ty>> whose tile_dirty is 1
  dest,            \* the front end's vector
  destW, destH,    \* the size the last pull() that had one reported
  rects,           \* the front end's dirty vector
  pulled           \* what the last pull() returned

screen == <<width, height, pixels, tileDirty>>
client == <<dest, destW, destH, rects, pulled>>
vars   == <<screen, client>>

Empty == [i \in {} |-> Black]

Init ==
  /\ width = 0 /\ height = 0 /\ pixels = Empty /\ tileDirty = {}
  /\ dest = Empty /\ destW = 0 /\ destH = 0 /\ rects = {} /\ pulled = FALSE

\* Where the pixel at index i is, and in which tile.
X(i, w) == i % w
Y(i, w) == i \div w
TileAt(i, w) == <<X(i, w) \div Tile, Y(i, w) \div Tile>>

TilesX(w) == (w + Tile - 1) \div Tile
AllTiles(w, h) == (0 .. TilesX(w) - 1) \X (0 .. TilesX(h) - 1)

\* Mutant: a resize marks nothing, trusting the first pull to see a new size.
SetDimensionsClean(w, h) ==
  /\ <<w, h>> # <<width, height>>
  /\ width' = w /\ height' = h
  /\ pixels' = [i \in 0 .. w * h - 1 |-> Black]
  /\ tileDirty' = {}
  /\ UNCHANGED client

\* on_set_dimensions: a repeat is a no-op; otherwise a black screen, all dirty.
SetDimensions(w, h) ==
  /\ <<w, h>> # <<width, height>>
  /\ width' = w /\ height' = h
  /\ pixels' = [i \in 0 .. w * h - 1 |-> Black]
  /\ tileDirty' = AllTiles(w, h)
  /\ UNCHANGED client

\* The value tile b, pasted at tile position t, gives to the pixel at index i.
Blit(b, t, i) ==
  b[(Y(i, width) - t[2] * Tile) * Tile + (X(i, width) - t[1] * Tile)]

\* The pixels a paste at t reaches: those of the tile that are on the screen.
Covered(t) == {i \in DOMAIN pixels : TileAt(i, width) = t}

\* on_paste: blit what differs and mark the tile if anything did.
Paste(b, t) ==
  LET changed == {i \in Covered(t) : pixels[i] # Blit(b, t, i)}
  IN  /\ changed # {}
      /\ pixels' = [i \in DOMAIN pixels |-> IF i \in changed THEN Blit(b, t, i)
                                                            ELSE pixels[i]]
      /\ tileDirty' = tileDirty \cup {t}
      /\ UNCHANGED <<width, height, client>>

-----------------------------------------------------------------------------
(***************************************************************************)
(* pull()                                                                  *)
(***************************************************************************)

\* pull()'s scan of a row of tiles: [a, b) is a run of dirty tiles that cannot
\* be made longer.
Run(a, b, ty) ==
  /\ \A tx \in a .. b - 1 : <<tx, ty>> \in tileDirty
  /\ <<a - 1, ty>> \notin tileDirty /\ <<b, ty>> \notin tileDirty

\* Mutant: emit_run does not cut the rectangle at the bottom edge.
RectUncut(a, b, ty) ==
  [x |-> a * Tile, y |-> ty * Tile, w |-> (b - a) * Tile, h |-> Tile]

\* emit_run: the run as a rectangle, cut at the right and the bottom edge.
Rect(a, b, ty) ==
  [x |-> a * Tile, y |-> ty * Tile,
   w |-> IF b * Tile > width THEN width - a * Tile ELSE (b - a) * Tile,
   h |-> IF (ty + 1) * Tile > height THEN height - ty * Tile ELSE Tile]

Runs ==
  {r \in (0 .. TilesX(width) - 1) \X (1 .. TilesX(width)) \X (0 .. TilesX(height) - 1) :
     r[1] < r[2] /\ Run(r[1], r[2], r[3])}

DirtyRects == {Rect(r[1], r[2], r[3]) : r \in Runs}

Inside(i, r) ==
  /\ r.x <= X(i, width) /\ X(i, width) < r.x + r.w
  /\ r.y <= Y(i, width) /\ Y(i, width) < r.y + r.h

\* if (fb_.pixels.empty()) return false
PullNothing ==
  /\ DOMAIN pixels = {} /\ pulled' = FALSE
  /\ UNCHANGED <<screen, dest, destW, destH, rects>>

\* A vector of another length: copy everything, report the whole screen.
PullResized ==
  /\ DOMAIN pixels # {} /\ DOMAIN dest # DOMAIN pixels
  /\ dest' = pixels /\ destW' = width /\ destH' = height
  /\ rects' = {[x |-> 0, y |-> 0, w |-> width, h |-> height]}
  /\ tileDirty' = {} /\ pulled' = TRUE
  /\ UNCHANGED <<width, height, pixels>>

\* Mutant: the size is reported only with a new vector.
PullChangedKeepsSize ==
  /\ DOMAIN pixels # {} /\ DOMAIN dest = DOMAIN pixels
  /\ rects' = DirtyRects
  /\ dest' = [i \in DOMAIN dest |->
                IF \E r \in DirtyRects : Inside(i, r) THEN pixels[i] ELSE dest[i]]
  /\ tileDirty' = {} /\ pulled' = (DirtyRects # {})
  /\ UNCHANGED <<width, height, pixels, destW, destH>>

\* Otherwise copy the rectangles of dirty tiles.
PullChanged ==
  /\ DOMAIN pixels # {} /\ DOMAIN dest = DOMAIN pixels
  /\ destW' = width /\ destH' = height
  /\ rects' = DirtyRects
  /\ dest' = [i \in DOMAIN dest |->
                IF \E r \in DirtyRects : Inside(i, r) THEN pixels[i] ELSE dest[i]]
  /\ tileDirty' = {} /\ pulled' = (DirtyRects # {})
  /\ UNCHANGED <<width, height, pixels>>

Pull == PullNothing \/ PullResized \/ PullChanged

\* The decoder's lastx and lasty stay within 0 .. size_x and 0 .. size_y.
Next ==
  \/ \E s \in Sizes : SetDimensions(s[1], s[2])
  \/ \E b \in Blocks, tx \in 0 .. TilesX(width), ty \in 0 .. TilesX(height) :
       Paste(b, <<tx, ty>>)
  \/ Pull

Spec == Init /\ [][Next]_vars

-----------------------------------------------------------------------------
\* The shape of the screen and of the front end's copy.
TypeOK ==
  /\ width \in Nat /\ height \in Nat
  /\ pixels \in [0 .. width * height - 1 -> Values]
  /\ tileDirty \subseteq AllTiles(width, height)
  /\ dest \in [DOMAIN dest -> Values]
  /\ destW \in Nat /\ destH \in Nat /\ pulled \in BOOLEAN
  /\ \A r \in rects : r.x \in Nat /\ r.y \in Nat /\ r.w \in Nat \ {0} /\ r.h \in Nat \ {0}

\* A tile that is not marked looks the same to the front end as to the decoder,
\* although pull() compares only the lengths of the two vectors: no paste and no
\* change of resolution, there and back again included, is missed.
CleanTileShown ==
  DOMAIN dest = DOMAIN pixels =>
    \A i \in DOMAIN pixels : TileAt(i, width) \notin tileDirty => dest[i] = pixels[i]

\* pull() returning true leaves the front end with the decoder's screen, in its
\* size, and every pixel that pull() changed is in a rectangle it reported.
PullDelivers ==
  [][Pull /\ pulled' =>
       /\ dest' = pixels /\ destW' = width /\ destH' = height
       /\ \A i \in DOMAIN dest \cap DOMAIN dest' :
            dest'[i] # dest[i] => \E r \in rects' : Inside(i, r)]_vars

\* The rectangles of one pull() lie on the screen and do not overlap.
RectsApart ==
  pulled =>
    /\ \A r \in rects : r.x + r.w <= destW /\ r.y + r.h <= destH
    /\ \A r, s \in rects :
         r # s => \/ r.x + r.w <= s.x \/ s.x + s.w <= r.x
                  \/ r.y + r.h <= s.y \/ s.y + s.h <= r.y
=============================================================================
