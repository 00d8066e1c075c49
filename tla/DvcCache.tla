------------------------------ MODULE DvcCache ------------------------------
(***************************************************************************)
(* The colour cache of the DVC decoder: DvcCache of ilo/dvc_cache.hpp.     *)
(*                                                                         *)
(* The arrays cc_color, cc_usage and cc_block, live below cc_active, are   *)
(* one sequence of entries (slot k of the code is entries[k + 1]); what    *)
(* lies at or above cc_active is never read before it is written.          *)
(***************************************************************************)
EXTENDS Integers, Sequences, FiniteSets

CONSTANTS
  Colors,    \* the 12-bit colours the encoder sends
  Capacity   \* 17 in the code

ASSUME CacheAssumption == Capacity \in Nat \ {0} /\ Colors \subseteq Nat

VARIABLES
  entries,   \* [color, usage, block] by slot; cc_active is its length
  pixcode,   \* dvc_pixcode
  next131,   \* next_1[31], patched from pixcode
  result     \* what the last cache_lru or cache_find returned

vars == <<entries, pixcode, next131, result>>

Init == entries = <<>> /\ pixcode = 38 /\ next131 = 35 /\ result = 0

\* update_pixcode: the decoder state that reads an index into n colours.
PixcodeFor(n) ==
  CASE n < 2  -> 38
    [] n = 2  -> 4
    [] n = 3  -> 5
    [] n < 6  -> 6
    [] n < 10 -> 7
    [] OTHER  -> 32

SetPixcode(n) == pixcode' = PixcodeFor(n) /\ next131' = PixcodeFor(n)

\* The tail of cache_lru and of cache_find: everything ranked before the slot
\* ages by one; the slot becomes rank 0 and is marked used in this block.
Promote(e, slot, agedBelow) ==
  [k \in DOMAIN e |->
     IF k = slot THEN [e[k] EXCEPT !.usage = 0, !.block = 1]
     ELSE IF e[k].usage < agedBelow THEN [e[k] EXCEPT !.usage = @ + 1]
     ELSE e[k]]

Holding(c)  == {k \in DOMAIN entries : entries[k].color = c}
Ranked(r)   == {k \in DOMAIN entries : entries[k].usage = r}

\* cache_lru(color), already present.
LruHit(c) ==
  /\ Holding(c) # {}
  /\ LET slot == CHOOSE k \in Holding(c) : \A j \in Holding(c) : k <= j
     IN  entries' = Promote(entries, slot, entries[slot].usage)
  /\ result' = 1
  /\ UNCHANGED <<pixcode, next131>>

\* cache_lru(color), new, with room for it.
LruGrow(c) ==
  LET n == Len(entries)
  IN  /\ Holding(c) = {} /\ n < Capacity
      /\ entries' = Promote(Append(entries, [color |-> c, usage |-> 0, block |-> 1]),
                            n + 1, n)
      /\ result' = 0 /\ SetPixcode(n + 1)

\* cache_lru(color), new, in place of the least recently used colour.
LruEvict(c) ==
  LET slot == CHOOSE k \in Ranked(Len(entries) - 1) : TRUE
  IN  /\ Holding(c) = {} /\ Len(entries) = Capacity
      /\ entries' = Promote([entries EXCEPT ![slot].color = c], slot,
                            entries[slot].usage)
      /\ result' = 0
      /\ UNCHANGED <<pixcode, next131>>

cache_lru(c) == LruHit(c) \/ LruGrow(c) \/ LruEvict(c)

\* cache_find(rank): the colour of that rank, promoted, or -1.
cache_find(rank) ==
  /\ IF Ranked(rank) = {}
       THEN entries' = entries /\ result' = -1
       ELSE LET slot == CHOOSE k \in Ranked(rank) : \A j \in Ranked(rank) : k <= j
            IN  entries' = Promote(entries, slot, rank)
                  /\ result' = entries[slot].color
  /\ UNCHANGED <<pixcode, next131>>

\* Mutant: after filling a hole prune moves on without looking at what it moved.
PruneStepSkips(p) ==
  IF p.e[p.k].block = 0
    THEN [k |-> p.k + 1,
          e |-> SubSeq([p.e EXCEPT ![p.k] = p.e[Len(p.e)]], 1, Len(p.e) - 1)]
    ELSE [k |-> p.k + 1, e |-> [p.e EXCEPT ![p.k].block = @ - 1]]

\* One turn of cache_prune's loop at slot k: fill the hole with the last entry
\* and look at the slot again, or clear the entry's flag and go on.
PruneStep(p) ==
  IF p.e[p.k].block = 0
    THEN [p EXCEPT !.e = SubSeq([p.e EXCEPT ![p.k] = p.e[Len(p.e)]], 1, Len(p.e) - 1)]
    ELSE [k |-> p.k + 1, e |-> [p.e EXCEPT ![p.k].block = @ - 1]]

cache_prune ==
  LET turn[m \in 0 .. Len(entries)] ==
        IF m = 0 THEN [k |-> 1, e |-> entries]
        ELSE LET p == turn[m - 1]
             IN  IF p.k > Len(p.e) THEN p ELSE PruneStep(p)
      kept == turn[Len(entries)].e
  IN  entries' = kept /\ SetPixcode(Len(kept)) /\ UNCHANGED result

\* cache_reset() leaves pixcode as it was.
cache_reset == entries' = <<>> /\ UNCHANGED <<pixcode, next131, result>>

Next ==
  \/ \E c \in Colors : cache_lru(c)
  \/ \E rank \in 0 .. Capacity : cache_find(rank)
  \/ cache_prune
  \/ cache_reset

Spec == Init /\ [][Next]_vars

-----------------------------------------------------------------------------
\* The shape of the cache.
TypeOK ==
  /\ entries \in Seq([color : Colors, usage : 0 .. Capacity - 1, block : {0, 1}])
  /\ Len(entries) <= Capacity
  /\ pixcode \in {4, 5, 6, 7, 32, 38} /\ next131 \in {4, 5, 6, 7, 32, 35, 38}
  /\ result \in Colors \cup {-1, 0, 1}

\* The cache keeps the promise of Palette: its usage ranks are the positions of
\* a most-recently-used list of distinct colours, and cache_prune, which only
\* looks at block flags and reorders slots, keeps a prefix of that list.  The
\* decoder reads an index of the width the list's length calls for, although
\* cache_reset leaves it stale.
Order     ==
  [r \in 1 .. Len(entries) |-> entries[CHOOSE k \in Ranked(r - 1) : TRUE].color]
Fresh     == Cardinality({k \in DOMAIN entries : entries[k].block = 1})
Reader    == <<pixcode, next131>>
ReaderFor(n) == <<PixcodeFor(n), PixcodeFor(n)>>
LruList   == INSTANCE Palette
               WITH order <- Order, fresh <- Fresh, reader <- Reader, Unset <- <<38, 35>>
PaletteSpec == LruList!Spec
=============================================================================
