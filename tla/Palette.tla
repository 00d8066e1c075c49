------------------------------ MODULE Palette ------------------------------
(***************************************************************************)
(* What the decoder's colour cache promises: a most-recently-used list of  *)
(* distinct colours, at most Capacity long, whose colours used since the   *)
(* last prune are exactly its first `fresh' ones.  A prune keeps those, and *)
(* the decoder always reads an index of the width the list calls for.      *)
(***************************************************************************)
EXTENDS Integers, Sequences

CONSTANTS
  Colors, Capacity,
  ReaderFor(_),  \* how the decoder reads an index into so many colours
  Unset          \* how it does before there is a palette

VARIABLES
  order,   \* the colours, most recently used first
  fresh,   \* how many of them were used since the last prune
  reader,  \* how the decoder reads an index
  result   \* what the last operation returned

Init == order = <<>> /\ fresh = 0 /\ reader = Unset /\ result = 0

Front(c, q)   == <<c>> \o SelectSeq(q, LAMBDA d : d # c)
IsFresh(c)    == \E r \in 1 .. fresh : order[r] = c
Touched(c)    == IF IsFresh(c) \/ fresh = Capacity THEN fresh ELSE fresh + 1
Contains(c)   == \E r \in DOMAIN order : order[r] = c

\* Use a colour by its value: a known one moves to the front, a new one takes
\* the place of the least recently used when the list is full.
Insert(c) ==
  /\ order' = LET q == Front(c, order)
              IN  SubSeq(q, 1, IF Len(q) > Capacity THEN Capacity ELSE Len(q))
  /\ fresh' = Touched(c)
  /\ result' = IF Contains(c) THEN 1 ELSE 0
  /\ reader' = ReaderFor(Len(order'))

\* Use a colour by its rank, or learn that no colour has it.
Find(rank) ==
  IF rank < Len(order)
    THEN LET c == order[rank + 1]
         IN  /\ order' = Front(c, order) /\ fresh' = Touched(c) /\ result' = c
             /\ reader' = ReaderFor(Len(order))
    ELSE result' = -1 /\ UNCHANGED <<order, fresh, reader>>

Prune ==
  /\ order' = SubSeq(order, 1, fresh) /\ fresh' = 0
  /\ reader' = ReaderFor(fresh) /\ UNCHANGED result

\* Nothing is read from an empty palette: how does not matter.
Reset == order' = <<>> /\ fresh' = 0 /\ UNCHANGED <<reader, result>>

Next ==
  \/ \E c \in Colors : Insert(c)
  \/ \E rank \in 0 .. Capacity : Find(rank)
  \/ Prune
  \/ Reset

Spec == Init /\ [][Next]_<<order, fresh, reader, result>>
=============================================================================
