-------------------------- MODULE DvcDecoderProofs --------------------------
(***************************************************************************)
(* The safety properties of DvcDecoder hold for every tile size, palette   *)
(* size, set of codes and set of thresholds, those of the code included.   *)
(***************************************************************************)
EXTENDS DvcDecoder, TLAPS

(***************************************************************************)
(* What the tables say.                                                    *)
(***************************************************************************)

\* No field is wider than a byte; the command states read a byte and a bit.
LEMMA Needs ==
  /\ \A s \in States : BitsToRead[s + 1] \in 0 .. 8
  /\ BitsToRead[37 + 1] = 0 /\ BitsToRead[46 + 1] = 1 /\ BitsToRead[24 + 1] = 8
  BY DEF States, BitsToRead

\* The tables lead from states to states.
LEMMA Nexts ==
  \A s \in States : Next0[s + 1] \in States /\ Next1[s + 1] \in States
  BY DEF States, Next0, Next1

\* Only these states may be followed by themselves.
Loops == {35, 37, Latch, Hunt, 45}

\* No other state is.
LEMMA NoLoops ==
  \A s \in States \ Loops : Next0[s + 1] # s /\ Next1[s + 1] # s
  BY DEF States, Next0, Next1, Latch, Hunt, Loops

\* A state that reads a tile leads to another one.
LEMMA TileNexts ==
  \A s \in TileStates \ {35} : Next0[s + 1] \in TileStates /\ Next1[s + 1] \in TileStates
  BY DEF TileStates, Next0, Next1

\* A command is complete only after its last byte.
LEMMA CommandNexts ==
  \A s \in States \ {24, 37} : Next0[s + 1] \notin {37, 46} /\ Next1[s + 1] \notin {37, 46}
  BY DEF States, Next0, Next1

\* The states that are left to one other state.
LEMMA SomeNexts ==
  /\ Next0[43 + 1] = 43 /\ Next1[43 + 1] = 0
  /\ Next0[40 + 1] = 47 /\ Next1[40 + 1] = 47
  /\ Next0[24 + 1] = 46 /\ Next1[24 + 1] = 46
  /\ Next0[46 + 1] = 1  /\ Next1[46 + 1] = 24
  /\ Next0[0 + 1] = 1 /\ Next0[27 + 1] = 1
  /\ Next0[45 + 1] = 45 /\ Next1[45 + 1] = 45
  BY DEF Next0, Next1

-----------------------------------------------------------------------------
(***************************************************************************)
(* The inductive invariant.                                                *)
(***************************************************************************)

\* How many bits are left: a command's end is read from the byte after it at
\* the latest, so the decoder is left with less than a byte.
BitsLeft ==
  /\ busy => avail <= 15
  /\ ~busy => avail < 8
  /\ state = 46 => avail <= 8 /\ (~busy => avail = 0)
  /\ state = 37 => busy /\ avail <= 7

\* The row is off the screen only between a new size and what puts it back.
RowKept == lasty <= sizeY \/ state \in {47, Hunt, 0}

IInv == TypeOK /\ TileBoundary /\ LeftByCommand /\ BitsLeft /\ RowKept

\* The width of a field and the state after it.
LEMMA NeedType == ASSUME TypeOK PROVE Need \in 0 .. 8
  BY Needs DEF Need, TypeOK

\* The same of the successor, which for state 31 follows the palette.
LEMMA SuccessorType == ASSUME TypeOK, NEW c PROVE Successor(c) \in States
<1>1. Next0[state + 1] \in States /\ Next1[state + 1] \in States
  BY Nexts DEF TypeOK
<1>2. next131 \in States
  BY DEF TypeOK, States
<1> QED
  BY <1>1, <1>2 DEF Successor

\* Outside Loops no state is followed by itself.
LEMMA SuccessorOther ==
  ASSUME TypeOK, state \notin Loops, NEW c
  PROVE  Successor(c) # state
<1>1. Next0[state + 1] # state /\ Next1[state + 1] # state
  BY NoLoops DEF TypeOK
<1>2. next131 # 31
  BY DEF TypeOK
<1> QED
  BY <1>1, <1>2 DEF Successor

\* Only a command's byte leads to its end.
LEMMA SuccessorCommand ==
  ASSUME TypeOK, state \notin {24, 37}, NEW c
  PROVE  Successor(c) \notin {37, 46}
<1>1. Next0[state + 1] \notin {37, 46} /\ Next1[state + 1] \notin {37, 46}
  BY CommandNexts DEF TypeOK
<1>2. next131 \notin {37, 46}
  BY DEF TypeOK
<1> QED
  BY <1>1, <1>2 DEF Successor

\* A tile is read on, or given up.
LEMMA SuccessorTile ==
  ASSUME TypeOK, state \in TileStates \ {35}, NEW c
  PROVE  Successor(c) \in TileStates \cup {Latch}
<1>1. Next0[state + 1] \in TileStates /\ Next1[state + 1] \in TileStates
  BY TileNexts
<1>2. next131 \in TileStates \cup {Latch}
  BY DEF TypeOK, TileStates, Latch
<1> QED
  BY <1>1, <1>2 DEF Successor

\* update_pixcode chooses one of six states.
LEMMA PixcodeType ==
  ASSUME NEW n \in Nat PROVE PixcodeFor(n) \in {4, 5, 6, 7, 32, 38}
  BY DEF PixcodeFor

\* next_block moves to the right.
LEMMA PastedType ==
  ASSUME TypeOK, NEW count \in Nat PROVE Pasted(count) \in Nat
  BY DEF TypeOK, Pasted

\* A step to another state is not an error.
LEMMA Goes ==
  ASSUME NEW next, next # state \/ state \in {45, Latch, Hunt}, Go(next)
  PROVE  state' = next /\ UNCHANGED loop
  BY DEF Go

\* A turn of the loop that goes on to `next' keeps what the invariant says of
\* the bits, provided `next' is not one of the two that end a command.
LEMMA BitsGoOn ==
  ASSUME IInv, busy, UNCHANGED loop, avail' \in 0 .. avail, state' \notin {37, 46}
  PROVE  BitsLeft'
  BY DEF IInv, BitsLeft, loop, TypeOK

-----------------------------------------------------------------------------
(***************************************************************************)
(* The states that build a tile.                                           *)
(***************************************************************************)

\* What a state that reads part of a tile may do next.
Ahead(next, count) ==
  /\ next \in States \ {37, 46} /\ count \in 0 .. Block
  /\ next # state
  /\ count # 0 => next \in TileStates \cup {Latch} /\ state # 1

\* Such a state keeps the invariant.
LEMMA TileGoesOn ==
  ASSUME IInv, NEW next, NEW count, Ahead(next, count), Continue(next, count),
         busy, Need <= avail, avail' = avail - Need,
         state \notin {47, Hunt, 0}, UNCHANGED <<marked, screen, cmdLast, since>>
  PROVE  IInv'
<1>1. Block \in Nat /\ Block # 0
  BY DecoderAssumption DEF Block
<1>2. avail' \in 0 .. avail
  BY NeedType DEF IInv, TypeOK
<1>3. CASE next = 2 /\ count = Block
  <2>1. NextBlock(1) /\ Prune /\ Go(1) /\ UNCHANGED <<newx, lasty>>
    BY <1>3 DEF Continue
  <2>2. state' = 1 /\ UNCHANGED loop
    BY <2>1, <1>1, <1>3, Goes DEF Ahead
  <2>3. pixels' = 0 /\ lastx' \in Nat
    BY <2>1, PastedType DEF NextBlock, IInv, TypeOK
  <2>4. PICK n \in 1 .. active :
          active' = n /\ pixcode' = PixcodeFor(n) /\ next131' = PixcodeFor(n)
    BY <2>1 DEF Prune
  <2>n. n \in Nat /\ n <= Capacity
    BY <2>4, DecoderAssumption DEF IInv, TypeOK
  <2>p. PixcodeFor(n) \in {4, 5, 6, 7, 32, 38}
    BY <2>n, PixcodeType
  <2>5. active' \in 0 .. Capacity /\ pixcode' \in {4, 5, 6, 7, 32, 38}
        /\ next131' \in {4, 5, 6, 7, 32, 35, 38}
    BY <2>4, <2>n, <2>p
  <2>6. TypeOK'
    BY <2>1, <2>2, <2>3, <2>5, <1>1, <1>2 DEF IInv, TypeOK, loop, screen, States
  <2>7. TileBoundary' /\ LeftByCommand' /\ RowKept'
    BY <2>1, <2>2, <2>3 DEF IInv, TileBoundary, LeftByCommand, RowKept, loop, screen
  <2>8. BitsLeft'
    BY <2>2, <1>2, BitsGoOn
  <2> QED
    BY <2>6, <2>7, <2>8 DEF IInv
<1>4. CASE ~(next = 2 /\ count = Block)
  <2>1. pixels' = count /\ Go(next) /\ UNCHANGED <<palette, position>>
    BY <1>4 DEF Continue
  <2>2. state' = next /\ UNCHANGED loop
    BY <2>1, Goes DEF Ahead
  <2>3. TypeOK'
    BY <2>1, <2>2, <1>1, <1>2 DEF Ahead, IInv, TypeOK, loop, screen, palette, position
  <2>4. TileBoundary' /\ LeftByCommand' /\ RowKept'
    BY <2>1, <2>2 DEF Ahead, IInv, TileBoundary, LeftByCommand, RowKept, loop, screen, position
  <2>5. BitsLeft'
    BY <2>2, <1>2, BitsGoOn DEF Ahead
  <2> QED
    BY <2>3, <2>4, <2>5 DEF IInv
<1> QED
  BY <1>3, <1>4

\* A tile that is not empty is read in a tile state.
LEMMA InTile ==
  ASSUME IInv, state \notin {Latch, Hunt, 0}, pixels # 0
  PROVE  state \in TileStates
  BY DEF IInv, TileBoundary

\* The states that only choose the next one.
LEMMA ChooseKeeps == ASSUME IInv, NEW c \in Codes, Choose(c) PROVE IInv'
<1> DEFINE next == IF state = 35 THEN pixcode ELSE Successor(c)
<1>1. state \notin {37, Latch, Hunt, 45, 24, 47, 0, 46}
  BY DEF Choose, Choosing, Latch, Hunt
<1>2. next \in States \ {37, 46} /\ next # state
  <2>1. CASE state = 35
    BY <2>1 DEF IInv, TypeOK, States
  <2>2. CASE state # 35
    BY <2>2, <1>1, SuccessorType, SuccessorOther, SuccessorCommand DEF IInv, Loops
  <2> QED
    BY <2>1, <2>2
<1>3. ASSUME pixels # 0 PROVE next \in TileStates \cup {Latch} /\ state # 1
  <2>1. state \in TileStates
    BY <1>1, <1>3, InTile
  <2>2. state # 1
    BY <2>1 DEF TileStates
  <2>3. CASE state = 35
    BY <2>2, <2>3 DEF IInv, TypeOK, TileStates, Latch
  <2>4. CASE state # 35
    BY <2>1, <2>2, <2>4, SuccessorTile DEF IInv
  <2> QED
    BY <2>3, <2>4
<1>4. Ahead(next, pixels)
  BY <1>2, <1>3 DEF Ahead, IInv, TypeOK
<1> QED
  BY <1>1, <1>4, TileGoesOn DEF Choose, Read

\* The two ways a state that adds pixels goes on.
LEMMA TileAhead ==
  ASSUME IInv, state \in {3, 4, 5, 6, 7, 8, 12, 13, 14, 32, 33, 42}, NEW c,
         NEW count \in 0 .. Block
  PROVE  Ahead(Successor(c), count) /\ Ahead(Latch, count)
<1>1. state \in TileStates \ {35} /\ state \notin Loops \cup {24, 37, 1}
  BY DEF TileStates, Loops, Latch, Hunt
<1>2. Successor(c) \in States \ {37, 46} /\ Successor(c) # state
  BY <1>1, SuccessorType, SuccessorOther, SuccessorCommand DEF IInv
<1>3. Successor(c) \in TileStates \cup {Latch}
  BY <1>1, SuccessorTile DEF IInv
<1> QED
  BY <1>1, <1>2, <1>3 DEF Ahead, States, Latch, Loops

\* A colour of the palette, or an error.
LEMMA FindColourKeeps == ASSUME IInv, NEW c \in Codes, FindColour(c) PROVE IInv'
<1>1. state \in {3, 4, 5, 6, 7, 32} /\ state \notin {47, Hunt, 0}
  BY DEF FindColour, Hunt
<1>2. Block \in Nat /\ pixels \in 0 .. Block
  BY DecoderAssumption DEF Block, IInv, TypeOK
<1>3. CASE Rank(c) < active /\ pixels < Block
  <2>1. pixels + 1 \in 0 .. Block
    BY <1>2, <1>3
  <2>2. Ahead(Successor(c), pixels + 1)
    BY <1>1, <2>1, TileAhead
  <2> QED
    BY <1>1, <1>3, <2>2, TileGoesOn DEF FindColour, Read
<1>4. CASE ~(Rank(c) < active /\ pixels < Block)
  <2>1. Ahead(Latch, pixels)
    BY <1>1, <1>2, TileAhead
  <2> QED
    BY <1>1, <1>4, <2>1, TileGoesOn DEF FindColour, Read
<1> QED
  BY <1>3, <1>4

\* A colour that is new to the palette, or an error.
LEMMA NewColourKeeps ==
  ASSUME IInv, NEW c \in Codes, NEW hit \in BOOLEAN, NewColour(c, hit) PROVE IInv'
<1> DEFINE n == IF active < Capacity THEN active + 1 ELSE active
<1>1. /\ state \in {8, 42} /\ busy /\ Need <= avail /\ avail' = avail - Need
      /\ IF hit \/ active = Capacity
           THEN UNCHANGED palette
           ELSE active' = n /\ pixcode' = PixcodeFor(n) /\ next131' = PixcodeFor(n)
      /\ IF hit \/ pixels = Block THEN Go(Latch) /\ UNCHANGED pixels
                                  ELSE Go(Successor(c)) /\ pixels' = pixels + 1
      /\ UNCHANGED <<marked, position, screen, cmdLast, since>>
  BY DEF NewColour, Read
<1>2. Block \in Nat /\ pixels \in 0 .. Block /\ active \in 0 .. Capacity /\ Capacity \in Nat
  BY DecoderAssumption DEF Block, IInv, TypeOK
<1>3. avail' \in 0 .. avail
  BY <1>1, NeedType DEF IInv, TypeOK
<1>4. /\ active' \in 0 .. Capacity /\ pixcode' \in {4, 5, 6, 7, 32, 38}
      /\ next131' \in {4, 5, 6, 7, 32, 35, 38}
  <2>1. CASE hit \/ active = Capacity
    BY <1>1, <2>1 DEF palette, IInv, TypeOK
  <2>2. CASE ~(hit \/ active = Capacity)
    <3>1. n \in Nat /\ n \in 0 .. Capacity
      BY <1>2, <2>2
    <3>2. PixcodeFor(n) \in {4, 5, 6, 7, 32, 38}
      BY <3>1, PixcodeType
    <3> HIDE DEF n
    <3> QED
      BY <1>1, <2>2, <3>1, <3>2
  <2> QED
    BY <2>1, <2>2
<1>5. /\ pixels' \in 0 .. Block /\ UNCHANGED loop
      /\ state' \in (States \ {37, 46}) \cap (TileStates \cup {Latch})
  <2>1. Ahead(Successor(c), pixels) /\ Ahead(Latch, pixels)
    BY <1>1, <1>2, TileAhead
  <2>2. Successor(c) \in TileStates \cup {Latch}
    BY <1>1, SuccessorTile DEF IInv, TileStates
  <2>3. CASE hit \/ pixels = Block
    BY <1>1, <1>2, <2>1, <2>3, Goes DEF Ahead
  <2>4. CASE ~(hit \/ pixels = Block)
    <3>1. state' = Successor(c) /\ UNCHANGED loop
      BY <1>1, <2>1, <2>4, Goes DEF Ahead
    <3> QED
      BY <1>1, <1>2, <2>1, <2>2, <2>4, <3>1 DEF Ahead
  <2> QED
    BY <2>3, <2>4
<1>6. TypeOK'
  BY <1>1, <1>3, <1>4, <1>5 DEF IInv, TypeOK, loop, screen, position
<1>7. TileBoundary' /\ LeftByCommand' /\ RowKept'
  BY <1>1, <1>5 DEF IInv, TileBoundary, LeftByCommand, RowKept, loop, screen, position, Hunt
<1>8. BitsLeft'
  BY <1>1, <1>3, <1>5, BitsGoOn
<1> QED
  BY <1>6, <1>7, <1>8 DEF IInv

\* Repeats of a colour: a run is cut at the end of the tile.
LEMMA RepeatKeeps == ASSUME IInv, NEW c \in Codes, Repeat(c) PROVE IInv'
<1>1. /\ state \in {12, 13, 14, 33} /\ state \notin {47, Hunt, 0}
      /\ busy /\ Need <= avail /\ avail' = avail - Need
      /\ UNCHANGED <<marked, screen, cmdLast, since>>
  BY DEF Repeat, Read, Hunt
<1>2. /\ Block \in Nat /\ pixels \in 0 .. Block /\ c \in Nat
      /\ pixels \in Nat
  BY DecoderAssumption DEF Block, IInv, TypeOK
<1>3. ASSUME NEW k \in Nat, EmitRun(c, k) PROVE IInv'
  <2>1. CASE pixels + k <= Block
    <3>1. pixels + k \in 0 .. Block
      BY <1>2, <2>1
    <3>2. Ahead(Successor(c), pixels + k)
      BY <1>1, <3>1, TileAhead
    <3> QED
      BY <1>1, <1>3, <2>1, <3>2, TileGoesOn DEF EmitRun
  <2>2. CASE ~(pixels + k <= Block)
    <3>1. Ahead(Latch, Block)
      BY <1>1, <1>2, TileAhead
    <3> QED
      BY <1>1, <1>3, <2>2, <3>1, TileGoesOn DEF EmitRun
  <2> QED
    BY <2>1, <2>2
<1>4. ASSUME NEW next \in {13, 14}, state = 12, Continue(next, pixels) PROVE IInv'
  <2>1. Ahead(next, pixels)
    BY <1>2, <1>4 DEF Ahead, States, TileStates
  <2> QED
    BY <1>1, <1>4, <2>1, TileGoesOn
<1>5. \/ state = 12 /\ c = 7 /\ Continue(14, pixels)
      \/ state = 12 /\ c = 6 /\ Continue(13, pixels)
      \/ EmitRun(c, c + 2) \/ EmitRun(c, c + 8) \/ EmitRun(c, c) \/ EmitRun(c, 1)
  BY <1>1 DEF Repeat
<1>6. c + 2 \in Nat /\ c + 8 \in Nat /\ c \in Nat /\ 1 \in Nat
  BY <1>2
<1> QED
  BY <1>3, <1>4, <1>5, <1>6

\* Repeats of a tile.
LEMMA RepeatTileKeeps == ASSUME IInv, NEW c \in Codes, RepeatTile(c) PROVE IInv'
<1> DEFINE count == CASE state = 34 -> 1 [] state = 29 -> c + 2 [] state = 30 -> c
<1>1. /\ state \in {29, 30, 34} /\ busy /\ Need <= avail /\ avail' = avail - Need
      /\ NextBlock(count) /\ Go(1)
      /\ UNCHANGED <<marked, palette, newx, lasty, screen, cmdLast, since>>
  BY DEF RepeatTile, Read
<1>2. count \in Nat
  BY <1>1, DecoderAssumption
<1> HIDE DEF count
<1>3. pixels' = 0 /\ lastx' \in Nat
  BY <1>1, <1>2, PastedType DEF NextBlock, IInv, TypeOK
<1>4. state' = 1 /\ UNCHANGED loop
  BY <1>1, Goes
<1>5. avail' \in 0 .. avail /\ 0 \in 0 .. Block
  BY <1>1, NeedType, DecoderAssumption DEF IInv, TypeOK, Block
<1>6. TypeOK'
  BY <1>1, <1>3, <1>4, <1>5 DEF IInv, TypeOK, loop, screen, palette, States
<1>7. TileBoundary' /\ LeftByCommand' /\ RowKept'
  BY <1>1, <1>3, <1>4 DEF IInv, TileBoundary, LeftByCommand, RowKept, loop, screen, Hunt
<1>8. BitsLeft'
  BY <1>1, <1>4, <1>5, BitsGoOn
<1> QED
  BY <1>6, <1>7, <1>8 DEF IInv

-----------------------------------------------------------------------------
(***************************************************************************)
(* Position, size and timeout, commands and text.  None of them touches    *)
(* the tile, so none of them is a state that has begun one.                *)
(***************************************************************************)

\* These states are only entered between tiles.
Between == {17, 20, 21, 24, 26, 27, 37, 39, 40, 44, 45, 46, 47}

\* There the tile is empty.
LEMMA BetweenTiles == ASSUME IInv, state \in Between PROVE pixels = 0
  BY DEF IInv, TypeOK, TileBoundary, TileStates, Between, Latch, Hunt

\* What is left to show of a step that goes on and leaves the tile alone.
LEMMA BetweenKeeps ==
  ASSUME IInv, state \in Between, UNCHANGED <<marked, pixels, palette, loop>>,
         state' \in States, avail' \in Nat,
         newx' \in Nat, lastx' \in Nat, lasty' \in Nat, sizeX' \in Nat, sizeY' \in Nat,
         cmdLast' \in Nat, since' \in 0 .. 2
  PROVE  TypeOK' /\ TileBoundary' /\ LeftByCommand'
<1>1. pixels = 0
  BY BetweenTiles
<1>2. TypeOK'
  BY DEF IInv, TypeOK, palette, loop
<1>3. TileBoundary' /\ LeftByCommand'
  BY <1>1 DEF IInv, TileBoundary, LeftByCommand, loop
<1> QED
  BY <1>2, <1>3

\* Steps that also leave the screen and the position alone.
LEMMA QuietKeeps ==
  ASSUME IInv, state \in Between \ {47},
         UNCHANGED <<marked, pixels, palette, position, screen, loop>>,
         state' \in States, avail' \in Nat, cmdLast' \in Nat, since' \in 0 .. 2
  PROVE  TypeOK' /\ TileBoundary' /\ LeftByCommand' /\ RowKept'
<1>1. newx' \in Nat /\ lastx' \in Nat /\ lasty' \in Nat /\ sizeX' \in Nat /\ sizeY' \in Nat
  BY DEF IInv, TypeOK, position, screen
<1>2. RowKept'
  BY DEF IInv, RowKept, position, screen, Between, Hunt
<1> QED
  BY <1>1, <1>2, BetweenKeeps

\* A new position: the row is checked against the screen.
LEMMA MoveKeeps == ASSUME IInv, NEW c \in Codes, Move(c) PROVE IInv'
<1>1. /\ state \in {17, 20, 21, 26, 39} /\ state \in Between \ Loops /\ state \notin {24, 37}
      /\ busy /\ Need <= avail /\ avail' = avail - Need /\ Go(Successor(c))
      /\ UNCHANGED <<marked, pixels, palette, screen, cmdLast, since>>
  BY DEF Move, Read, Between, Loops, Latch, Hunt
<1>2. c \in Nat /\ Columns \in Nat \ {0} /\ newx \in Nat /\ lastx \in Nat /\ lasty \in Nat
      /\ sizeX \in Nat /\ sizeY \in Nat /\ cmdLast \in Nat /\ since \in 0 .. 2
  BY DecoderAssumption DEF IInv, TypeOK
<1>3. state' = Successor(c) /\ UNCHANGED loop /\ state' \in States \ {37, 46}
  BY <1>1, Goes, SuccessorType, SuccessorOther, SuccessorCommand DEF IInv
<1>4. avail' \in 0 .. avail /\ avail' \in Nat
  BY <1>1, NeedType DEF IInv, TypeOK
<1>5. /\ newx' \in Nat /\ lastx' \in Nat /\ lasty' \in Nat
      /\ lasty' = lasty \/ lasty' <= sizeY
  <2>1. CASE state \in {17, 26}
    BY <1>2, <2>1 DEF Move
  <2>2. CASE state = 39
    BY <1>2, <2>2 DEF Move
  <2>3. CASE state \in {20, 21}
    <3> DEFINE x == (IF state = 20 THEN lastx + c + 1 ELSE c) % Columns
    <3>1. x \in Nat
      BY <1>2
    <3>2. lastx' = (IF x > sizeX THEN 0 ELSE x) /\ UNCHANGED <<newx, lasty>>
      BY <2>3 DEF Move
    <3> HIDE DEF x
    <3> QED
      BY <1>2, <3>1, <3>2
  <2> QED
    BY <1>1, <2>1, <2>2, <2>3
<1>6. TypeOK' /\ TileBoundary' /\ LeftByCommand'
  BY <1>1, <1>2, <1>3, <1>4, <1>5, BetweenKeeps DEF screen
<1>7. RowKept'
  BY <1>1, <1>5 DEF IInv, RowKept, screen, Hunt
<1>8. BitsLeft'
  BY <1>1, <1>3, <1>4, BitsGoOn
<1> QED
  BY <1>6, <1>7, <1>8 DEF IInv

\* A new size: the row may now be off the screen.
LEMMA SetSizeKeeps == ASSUME IInv, NEW c \in Codes, SetSize(c) PROVE IInv'
<1>1. /\ state = 40 /\ busy /\ Need <= avail /\ avail' = avail - Need /\ Go(Successor(c))
      /\ sizeX' = newx /\ sizeY' = c /\ newx' = 0
      /\ UNCHANGED <<marked, pixels, palette, lastx, lasty, cmdLast, since>>
  BY DEF SetSize, Read
<1>2. Successor(c) = 47
  BY <1>1, SomeNexts DEF Successor
<1>3. state' = 47 /\ UNCHANGED loop
  BY <1>1, <1>2, Goes
<1>4. avail' \in 0 .. avail /\ avail' \in Nat
  BY <1>1, NeedType DEF IInv, TypeOK
<1>5. state \in Between /\ 47 \in States /\ c \in Nat /\ newx \in Nat /\ 0 \in Nat
  BY <1>1, DecoderAssumption DEF Between, States, IInv, TypeOK
<1>6. lastx' \in Nat /\ lasty' \in Nat /\ cmdLast' \in Nat /\ since' \in 0 .. 2
  BY <1>1 DEF IInv, TypeOK
<1>7. TypeOK' /\ TileBoundary' /\ LeftByCommand'
  BY <1>1, <1>3, <1>4, <1>5, <1>6, BetweenKeeps
<1>8. RowKept' /\ BitsLeft'
  BY <1>1, <1>3, <1>4, BitsGoOn DEF RowKept
<1> QED
  BY <1>7, <1>8 DEF IInv

\* The second half of a new size puts the position back.
LEMMA SetScreenKeeps == ASSUME IInv, NEW c \in Codes, SetScreen(c) PROVE IInv'
<1>1. /\ state = 47 /\ busy /\ Need <= avail /\ avail' = avail - Need /\ Go(Successor(c))
      /\ lastx' = 0 /\ lasty' = 0 /\ pixels' = 0 /\ active' = 0
      /\ UNCHANGED <<marked, pixcode, next131, newx, sizeX, sizeY, cmdLast, since>>
  BY DEF SetScreen, Read
<1>2. state' = Successor(c) /\ UNCHANGED loop /\ state' \in States \ {37, 46}
  BY <1>1, Goes, SuccessorType, SuccessorOther, SuccessorCommand DEF IInv, Loops, Latch, Hunt
<1>3. avail' \in 0 .. avail /\ 0 \in 0 .. Block /\ 0 \in 0 .. Capacity
  BY <1>1, NeedType, DecoderAssumption DEF IInv, TypeOK, Block
<1>4. TypeOK'
  BY <1>1, <1>2, <1>3 DEF IInv, TypeOK, loop
<1>5. TileBoundary' /\ LeftByCommand' /\ RowKept'
  BY <1>1, <1>2 DEF IInv, TypeOK, TileBoundary, LeftByCommand, RowKept, loop
<1>6. BitsLeft'
  BY <1>1, <1>2, <1>3, BitsGoOn
<1> QED
  BY <1>4, <1>5, <1>6 DEF IInv

\* A timeout drops the rest of the byte.
LEMMA TimeoutKeeps == ASSUME IInv, Timeout PROVE IInv'
<1>1. /\ state = 27 /\ busy /\ avail' = 8 * (avail \div 8)
      /\ Go(IF since = 1 THEN Latch ELSE Successor(0)) /\ since' = 0
      /\ UNCHANGED <<marked, pixels, palette, position, screen, cmdLast>>
  BY DEF Timeout, Read
<1>2. Successor(0) = 1
  BY <1>1, SomeNexts DEF Successor
<1>3. state' \in {1, Latch} /\ UNCHANGED loop
  BY <1>1, <1>2, Goes DEF Latch
<1>4. avail \in Nat
  BY DEF IInv, TypeOK
<1>5. avail' \in 0 .. avail /\ avail' \in Nat
  BY <1>1, <1>4
<1>6. state \in Between \ {47} /\ state' \in States \ {37, 46}
  BY <1>1, <1>3 DEF Between, States, Latch
<1>7. cmdLast' \in Nat /\ since' \in 0 .. 2
  BY <1>1 DEF IInv, TypeOK
<1>8. TypeOK' /\ TileBoundary' /\ LeftByCommand' /\ RowKept'
  BY <1>1, <1>3, <1>5, <1>6, <1>7, QuietKeeps
<1>9. BitsLeft'
  BY <1>1, <1>3, <1>5, <1>6, BitsGoOn
<1> QED
  BY <1>8, <1>9 DEF IInv

\* Text: state 45 may follow itself.
LEMMA TextKeeps == ASSUME IInv, NEW c \in Codes, Text(c) PROVE IInv'
<1> DEFINE next == IF state = 45 /\ c = 0 THEN 1 ELSE Successor(c)
<1>1. /\ state \in {44, 45} /\ busy /\ Need <= avail /\ avail' = avail - Need /\ Go(next)
      /\ UNCHANGED <<marked, pixels, palette, position, screen, cmdLast, since>>
  BY DEF Text, Read
<1>2. next \in States \ {37, 46} /\ (next # state \/ state = 45)
  BY <1>1, SuccessorType, SuccessorOther, SuccessorCommand
     DEF IInv, Loops, Latch, Hunt, States
<1> HIDE DEF next
<1>3. state' = next /\ UNCHANGED loop
  BY <1>1, <1>2, Goes
<1>4. avail' \in 0 .. avail /\ avail' \in Nat
  BY <1>1, NeedType DEF IInv, TypeOK
<1>5. state \in Between \ {47} /\ cmdLast' \in Nat /\ since' \in 0 .. 2
  BY <1>1 DEF Between, IInv, TypeOK
<1>6. TypeOK' /\ TileBoundary' /\ LeftByCommand' /\ RowKept'
  BY <1>1, <1>2, <1>3, <1>4, <1>5, QuietKeeps
<1>7. BitsLeft'
  BY <1>1, <1>2, <1>3, <1>4, BitsGoOn
<1> QED
  BY <1>6, <1>7 DEF IInv

\* The end of a command is read with at most a byte in the buffer.
LEMMA CommandBits ==
  ASSUME IInv, state \in {24, 46}, busy, Need <= avail
  PROVE  /\ avail \in Nat /\ Need \in Nat
         /\ avail - Need \in 0 .. 7
<1>1. avail \in Nat /\ avail <= 15 /\ (state = 46 => avail <= 8)
  BY DEF IInv, TypeOK, BitsLeft
<1>2. (state = 24 => Need = 8) /\ (state = 46 => Need = 1)
  BY Needs DEF Need
<1> QED
  BY <1>1, <1>2

\* A byte of a command, and the bit after it.
LEMMA CommandKeeps == ASSUME IInv, NEW c \in Codes, Command(c) PROVE IInv'
<1>1. /\ \/ state = 24 /\ cmdLast' = c
         \/ state = 46 /\ c # 0 /\ UNCHANGED cmdLast
      /\ busy /\ Need <= avail /\ avail' = avail - Need /\ Go(Successor(c))
      /\ UNCHANGED <<marked, pixels, palette, position, screen, since>>
  BY DEF Command, Read
<1>2. IF state = 24 THEN Successor(c) = 46 ELSE Successor(c) = 24
  BY <1>1, SomeNexts DEF Successor
<1>3. state' = Successor(c) /\ UNCHANGED loop
  BY <1>1, <1>2, Goes
<1>4. avail' \in 0 .. 7 /\ avail' \in Nat
  BY <1>1, CommandBits
<1>5. state \in Between \ {47} /\ state' \in {24, 46} /\ state' \in States
  BY <1>1, <1>2, <1>3 DEF Between, States
<1>6. cmdLast' \in Nat /\ since' \in 0 .. 2
  BY <1>1, DecoderAssumption DEF IInv, TypeOK
<1>7. TypeOK' /\ TileBoundary' /\ LeftByCommand' /\ RowKept'
  BY <1>1, <1>3, <1>4, <1>5, <1>6, QuietKeeps
<1>8. BitsLeft'
  BY <1>1, <1>3, <1>4, <1>5 DEF BitsLeft, loop
<1> QED
  BY <1>7, <1>8 DEF IInv

\* A complete command: state 37 is entered with less than a byte.
LEMMA RunCommandKeeps == ASSUME IInv, RunCommand PROVE IInv'
<1> DEFINE next == CASE cmdLast = 1 -> 37 [] cmdLast = 2 -> 44 [] OTHER -> Successor(0)
<1>1. /\ state = 46 /\ busy /\ Need <= avail /\ avail' = avail - Need /\ cmdLast' = 0
      /\ Go(next) /\ UNCHANGED <<marked, pixels, palette, position, screen, since>>
  BY DEF RunCommand, Read
<1>2. Successor(0) = 1
  BY <1>1, SomeNexts DEF Successor
<1>3. next \in {37, 44, 1}
  BY <1>2
<1> HIDE DEF next
<1>4. state' = next /\ UNCHANGED loop
  BY <1>1, <1>3, Goes
<1>5. avail' \in 0 .. 7 /\ avail' \in Nat
  BY <1>1, CommandBits
<1>6. /\ state \in Between \ {47} /\ state' \in States /\ state' # 46
      /\ cmdLast' \in Nat /\ since' \in 0 .. 2
  BY <1>1, <1>3, <1>4 DEF Between, States, IInv, TypeOK
<1>7. TypeOK' /\ TileBoundary' /\ LeftByCommand' /\ RowKept'
  BY <1>1, <1>4, <1>5, <1>6, QuietKeeps
<1>8. BitsLeft'
  BY <1>1, <1>4, <1>5, <1>6 DEF BitsLeft, loop
<1> QED
  BY <1>7, <1>8 DEF IInv

\* Nothing is left of the byte that ends command 9.
LEMMA ChangeKeyAligns == ASSUME IInv, ChangeKey PROVE avail' = 0
<1>1. state = 46 /\ busy /\ Need <= avail /\ avail' = 8 * ((avail - Need) \div 8)
  BY DEF ChangeKey, Read
<1>2. avail - Need \in 0 .. 7
  BY <1>1, CommandBits
<1>3. ASSUME NEW k \in 0 .. 7 PROVE 8 * (k \div 8) = 0
  OBVIOUS
<1> QED
  BY <1>1, <1>2, <1>3

\* Command 9.
LEMMA ChangeKeyKeeps == ASSUME IInv, ChangeKey PROVE IInv'
<1>1. /\ state = 46 /\ busy /\ cmdLast' = 0 /\ Go(Successor(0))
      /\ UNCHANGED <<marked, pixels, palette, position, screen, since>>
  BY DEF ChangeKey, Read
<1>2. Successor(0) = 1
  BY <1>1, SomeNexts DEF Successor
<1>3. state' = 1 /\ UNCHANGED loop
  BY <1>1, <1>2, Goes
<1>4. avail' = 0 /\ avail' \in Nat
  BY ChangeKeyAligns
<1>5. state \in Between \ {47} /\ state' \in States /\ cmdLast' \in Nat /\ since' \in 0 .. 2
  BY <1>1, <1>3 DEF Between, States, IInv, TypeOK
<1>6. TypeOK' /\ TileBoundary' /\ LeftByCommand' /\ RowKept'
  BY <1>1, <1>3, <1>4, <1>5, QuietKeeps
<1>7. BitsLeft'
  BY <1>3, <1>4 DEF BitsLeft
<1> QED
  BY <1>6, <1>7 DEF IInv

\* Command 1: process_bits is left with what state 37 was entered with.
LEMMA LeaveKeeps == ASSUME IInv, Leave PROVE IInv'
<1>1. /\ state = 37 /\ busy' = FALSE /\ result' = 1 /\ state' = Latch /\ fatal' = 0
      /\ asked' = TRUE
      /\ UNCHANGED <<avail, marked, pixels, palette, position, screen, cmdLast, since>>
  BY DEF Leave, Return
<1>2. 0 \in 0 .. AskLast - 1
  BY DecoderAssumption
<1>b. busy' \in BOOLEAN /\ marked' \in BOOLEAN /\ asked' \in BOOLEAN
  BY <1>1 DEF IInv, TypeOK
<1>3. TypeOK'
  BY <1>1, <1>2, <1>b DEF IInv, TypeOK, palette, position, screen, States, Latch
<1>4. TileBoundary' /\ LeftByCommand' /\ RowKept'
  BY <1>1 DEF IInv, TileBoundary, LeftByCommand, RowKept, position, screen, Hunt
<1>5. avail \in Nat /\ avail <= 7
  BY <1>1 DEF IInv, TypeOK, BitsLeft
<1>6. BitsLeft'
  BY <1>1, <1>5 DEF BitsLeft, Latch
<1> QED
  BY <1>3, <1>4, <1>6 DEF IInv

-----------------------------------------------------------------------------
(***************************************************************************)
(* Errors and recovery, and the loop itself.                               *)
(***************************************************************************)

\* A skipped bit.
LEMMA LatchedKeeps == ASSUME IInv, NEW c \in Codes, Latched(c) PROVE IInv'
<1>1. /\ state = 38 /\ busy /\ Need <= avail /\ avail' = avail - Need
      /\ fatal' = (IF fatal + 1 = AskLast THEN AskRestart ELSE fatal + 1)
      /\ asked' = (asked \/ fatal + 1 \in Asks \cup {AskLast})
      /\ UNCHANGED <<busy, state, marked, pixels, palette, position, screen, cmdLast, since,
                     result>>
  BY DEF Latched, Read, Latch
<1>2. avail' \in 0 .. avail /\ avail' \in Nat
  BY <1>1, NeedType DEF IInv, TypeOK
<1>3. fatal' \in 0 .. AskLast - 1
  BY <1>1, DecoderAssumption DEF IInv, TypeOK
<1>4. asked' \in BOOLEAN
  BY <1>1
<1>5. TypeOK'
  BY <1>1, <1>2, <1>3, <1>4 DEF IInv, TypeOK, palette, position, screen
<1>6. TileBoundary' /\ LeftByCommand' /\ RowKept'
  BY <1>1 DEF IInv, TileBoundary, LeftByCommand, RowKept, position, screen
<1>7. BitsLeft'
  BY <1>1, <1>2 DEF IInv, TypeOK, BitsLeft
<1> QED
  BY <1>5, <1>6, <1>7 DEF IInv

\* A bit of the reset marker: only its end leaves the state.
LEMMA HuntingKeeps == ASSUME IInv, NEW c \in Codes, Hunting(c) PROVE IInv'
<1>1. /\ state = 43 /\ busy /\ Need <= avail /\ Go(Successor(c))
      /\ IF c = 0 THEN avail' = avail - Need /\ UNCHANGED marked
                  ELSE avail' = 0 /\ marked' = FALSE
      /\ UNCHANGED <<pixels, palette, position, screen, cmdLast, since>>
  BY DEF Hunting, Read, Hunt
<1>2. Successor(c) \in {43, 0}
  BY <1>1, SomeNexts DEF Successor
<1>3. state' \in {43, 0} /\ UNCHANGED loop
  BY <1>1, <1>2, Goes DEF Hunt
<1>b. marked' \in BOOLEAN
  BY <1>1 DEF IInv, TypeOK
<1>4. avail' \in 0 .. avail
  BY <1>1, NeedType DEF IInv, TypeOK
<1>5. TypeOK'
  BY <1>1, <1>3, <1>4, <1>b DEF IInv, TypeOK, palette, position, screen, States, loop
<1>6. TileBoundary' /\ LeftByCommand' /\ RowKept'
  BY <1>3 DEF IInv, TileBoundary, LeftByCommand, RowKept, loop, Hunt
<1>7. BitsLeft'
  BY <1>1, <1>3, <1>4, BitsGoOn
<1> QED
  BY <1>5, <1>6, <1>7 DEF IInv

\* State 0 puts the position back.
LEMMA ResetKeeps == ASSUME IInv, Reset PROVE IInv'
<1>1. /\ state = 0 /\ active' = 0 /\ pixels' = 0 /\ lastx' = 0 /\ lasty' = 0 /\ since' = 2
      /\ fatal' = 0 /\ state' = Successor(0)
      /\ UNCHANGED <<busy, avail, marked, pixcode, next131, newx, screen, cmdLast, asked,
                     result>>
  BY DEF Reset
<1>2. state' = 1
  BY <1>1, SomeNexts DEF Successor
<1>3. 0 \in 0 .. AskLast - 1 /\ 0 \in 0 .. Block /\ 0 \in 0 .. Capacity
  BY DecoderAssumption DEF Block
<1>4. TypeOK'
  BY <1>1, <1>2, <1>3 DEF IInv, TypeOK, screen, States
<1>5. TileBoundary' /\ LeftByCommand' /\ RowKept'
  BY <1>1 DEF IInv, TypeOK, TileBoundary, LeftByCommand, RowKept, screen
<1>6. BitsLeft'
  BY <1>1, <1>2 DEF IInv, BitsLeft
<1> QED
  BY <1>4, <1>5, <1>6 DEF IInv

\* A field that is not complete is at most a byte wide.
LEMMA WaitKeeps == ASSUME IInv, Wait PROVE IInv'
<1>1. /\ busy /\ Need > avail /\ busy' = FALSE /\ result' = 0
      /\ UNCHANGED <<state, avail, marked, pixels, palette, position, screen, cmdLast,
                     since, fatal, asked>>
  BY DEF Wait
<1>2. avail \in Nat /\ avail < 8
  BY <1>1, NeedType DEF IInv, TypeOK
<1>3. (state = 46 => Need = 1) /\ (state = 37 => Need = 0)
  BY Needs DEF Need
<1>4. TypeOK'
  BY <1>1 DEF IInv, TypeOK, palette, position, screen
<1>5. TileBoundary' /\ LeftByCommand' /\ RowKept'
  BY <1>1 DEF IInv, TileBoundary, LeftByCommand, RowKept, position, screen
<1>6. BitsLeft'
  BY <1>1, <1>2, <1>3 DEF BitsLeft
<1> QED
  BY <1>4, <1>5, <1>6 DEF IInv

\* A byte arrives: state 37 is never waiting for one.
LEMMA AddByteKeeps == ASSUME IInv, NEW zeros \in BOOLEAN, AddByte(zeros) PROVE IInv'
<1>1. /\ ~busy /\ busy' = TRUE /\ avail' = avail + 8 /\ marked' = (marked \/ zeros)
      /\ state' \in {Hunt, state} /\ since' \in {1, 2} /\ asked' = FALSE
      /\ UNCHANGED <<pixels, palette, position, screen, cmdLast, fatal, result>>
  BY DEF AddByte
<1>2. avail \in Nat /\ avail < 8 /\ state # 37 /\ (state = 46 => avail = 0)
  BY <1>1 DEF IInv, TypeOK, BitsLeft
<1>b. busy' \in BOOLEAN /\ marked' \in BOOLEAN /\ asked' \in BOOLEAN
  BY <1>1 DEF IInv, TypeOK
<1>3. TypeOK'
  BY <1>1, <1>2, <1>b DEF IInv, TypeOK, palette, position, screen, States, Hunt
<1>4. TileBoundary' /\ LeftByCommand' /\ RowKept'
  BY <1>1 DEF IInv, TileBoundary, LeftByCommand, RowKept, position, screen, Hunt
<1>5. BitsLeft'
  BY <1>1, <1>2 DEF BitsLeft, Hunt
<1> QED
  BY <1>3, <1>4, <1>5 DEF IInv

-----------------------------------------------------------------------------
(***************************************************************************)
(* The theorems.                                                           *)
(***************************************************************************)

\* The constructor establishes the invariant.
LEMMA Initially == ASSUME Init PROVE IInv
<1>1. 0 \in 0 .. Block /\ 0 \in 0 .. Capacity /\ 0 \in 0 .. AskLast - 1
  BY DecoderAssumption DEF Block
<1>b. busy \in BOOLEAN /\ marked \in BOOLEAN /\ asked \in BOOLEAN
  BY DEF Init
<1>2. TypeOK
  BY <1>1, <1>b DEF Init, TypeOK, States
<1>3. TileBoundary /\ LeftByCommand /\ RowKept /\ BitsLeft
  BY DEF Init, TileBoundary, LeftByCommand, RowKept, BitsLeft
<1> QED
  BY <1>2, <1>3 DEF IInv

\* Every step keeps the invariant.
LEMMA Preserved == ASSUME IInv, [Next]_vars PROVE IInv'
<1>1. CASE Byte
  BY <1>1, AddByteKeeps DEF Byte
<1>2. CASE Wait
  BY <1>2, WaitKeeps
<1>3. CASE Tile
  BY <1>3, ChooseKeeps, FindColourKeeps, NewColourKeeps, RepeatKeeps, RepeatTileKeeps DEF Tile
<1>4. CASE Place
  BY <1>4, MoveKeeps, SetSizeKeeps, SetScreenKeeps, TimeoutKeeps DEF Place
<1>5. CASE Firmware
  BY <1>5, CommandKeeps, TextKeeps, RunCommandKeeps, LeaveKeeps DEF Firmware
<1>6. CASE Recover
  BY <1>6, LatchedKeeps, HuntingKeeps, ResetKeeps DEF Recover
<1>7. CASE ChangeKey
  BY <1>7, ChangeKeyKeeps
<1>8. CASE UNCHANGED vars
  BY <1>8 DEF vars, palette, position, screen, IInv, TypeOK, TileBoundary, LeftByCommand,
              BitsLeft, RowKept
<1> QED
  BY <1>1, <1>2, <1>3, <1>4, <1>5, <1>6, <1>7, <1>8 DEF Next, Turn

\* So it holds in every behaviour.
LEMMA Invariant == Spec => []IInv
  BY Initially, Preserved, PTL DEF Spec

\* No sequence of bytes makes emit_run or a single colour write past the tile's
\* last pixel, or the palette grow past its slots.
THEOREM TypeCorrect == Spec => []TypeOK
  BY Invariant, PTL DEF IInv

\* process_bits never moves, repeats, resizes or runs a command with part of a
\* tile read.
THEOREM TilesWhole == Spec => []TileBoundary
  BY Invariant, PTL DEF IInv

\* The error 6 of process_bits cannot happen: only command 1 leaves the decoder.
THEOREM NeverStuck == Spec => []LeftByCommand
  BY Invariant, PTL DEF IInv

\* add_bits never shifts a byte out of the 32-bit buffer: it finds fewer than
\* eight bits in it.
THEOREM BufferNeverFull == Spec => []LessThanAByte
<1>1. IInv => LessThanAByte
  BY DEF IInv, BitsLeft, LessThanAByte
<1> QED
  BY <1>1, Invariant, PTL

\* next_block always pastes into a row of the current screen.
THEOREM RowsOnScreen == Spec => []RowOnScreen
<1>1. IInv => RowOnScreen
  BY DEF IInv, RowKept, RowOnScreen, TileStates, Hunt
<1> QED
  BY <1>1, Invariant, PTL

\* on_change_key is called with an empty bit buffer.
THEOREM RekeyOnByteBoundary == Spec => RekeyAligned
<1>1. IInv /\ [Next]_vars => [ChangeKey => avail' = 0]_vars
  BY ChangeKeyAligns
<1> QED
  BY <1>1, Invariant, PTL DEF Spec, RekeyAligned
=============================================================================
