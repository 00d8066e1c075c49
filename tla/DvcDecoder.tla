------------------------------ MODULE DvcDecoder ------------------------------
(***************************************************************************)
(* The video decoder: the 48-state machine of ilo/dvc_decoder.hpp over the *)
(* bit reader of ilo/dvc_bits.hpp.                                         *)
(*                                                                         *)
(* A turn of process_bits' loop is one step.  The bit buffer is its length *)
(* and a field's value is chosen when it is read; whether a byte completes *)
(* a run of 31 zero bits is chosen when it is added.  Of the palette only  *)
(* its size and the index width are kept (the rest is in DvcCache), of a   *)
(* tile the number of its pixels.  What on_paste and the other hooks are   *)
(* given is left out (colours, the cut row, texts, frame rate), as are     *)
(* `inhibit', which nothing sets, and a command's parameter bytes          *)
(* (cmd_p_buff, cmd_p_count), which only set_framerate uses.               *)
(***************************************************************************)
EXTENDS Naturals, Sequences

CONSTANTS
  Row,        \* pixels in a row of a tile, rows in a tile: 16 in the code
  Columns,    \* 128 in the code: tile columns wrap here (& 0x7F)
  Capacity,   \* colours the palette holds: 17 in the code
  Codes,      \* field values tried
  Asks,       \* fatal_count values that ask for a refresh: 11681 and 120000
  AskLast,    \* the one that asks and starts over: 12000000 in the code
  AskRestart, \* where it starts over: 41 in the code
  MaxLastx    \* bound: no byte arrives once a row is overrun to this column

Block == Row * Row

ASSUME DecoderAssumption ==
  /\ Row \in Nat \ {0} /\ Columns \in Nat \ {0} /\ Capacity \in Nat \ {0}
  /\ {0, 1} \subseteq Codes /\ Codes \subseteq Nat
  /\ Asks \subseteq 1 .. AskLast /\ AskLast \in Nat /\ AskRestart \in 0 .. AskLast - 1
  /\ MaxLastx \in Nat

VARIABLES
  busy,       \* inside process_bits
  state,      \* decoder_state
  avail,      \* ib_bcnt: bits in the buffer
  marked,     \* zero_count > 30: the reset marker has been seen
  pixels,     \* pixel_count
  active,     \* cache.cc_active
  pixcode,    \* cache.pixcode
  next131,    \* next_1_[31]
  newx, lastx, lasty, sizeX, sizeY,
  cmdLast,    \* cmd_last
  since,      \* bytes since the last timeout code: 0, 1, or 2 for more
  fatal,      \* fatal_count
  asked,      \* on_refresh_screen was called for the current byte
  result      \* what process_bits returned last

palette  == <<active, pixcode, next131>>
position == <<newx, lastx, lasty>>
screen   == <<sizeX, sizeY>>
loop     == <<busy, fatal, asked, result>>
vars     == <<busy, state, avail, marked, pixels, palette, position, screen, cmdLast,
              since, fatal, asked, result>>

States == 0 .. 47
Hunt   == 43   \* skip zero bits up to the end of a reset marker
Latch  == 38   \* skip everything up to the next reset marker

\* The three tables; state s is entry s + 1.
BitsToRead ==
  << 0,1,1,1,1,1,2,3,4,4,1,1,3,3,8,1,1,7,1,1,3,7,1,1,8,1,7,0,1,3,7,1,4,0,0,0,1,0,1,7,
     7,4,4,1,8,8,1,4 >>
Next0 ==
  << 1,2,31,2,2,10,10,10,10,41,2,33,2,2,2,16,19,39,22,20,1,1,34,25,46,26,40,1,29,1,1,36,
     10,2,1,35,8,37,38,1,47,42,10,43,45,45,1,1 >>
Next1 ==
  << 1,15,3,11,11,10,10,10,10,41,11,12,2,2,2,17,18,39,23,21,1,1,28,24,46,27,40,1,30,1,1,
     35,10,2,1,35,9,37,38,1,47,42,10,0,45,45,24,1 >>
GetMask == << 0, 1, 3, 7, 15, 31, 63, 127, 255 >>

Need == BitsToRead[state + 1]

\* The values a field of the current state can have: those of its width, and
\* tile columns and rows below Columns.
Fields ==
  IF Need = 0 THEN {0}
  ELSE {c \in Codes : c <= GetMask[Need + 1] /\ (Need = 7 => c < Columns)}

\* next before the state's own code: next_1[31] follows the palette.
Successor(c) ==
  IF c = 0 THEN Next0[state + 1] ELSE IF state = 31 THEN next131 ELSE Next1[state + 1]

\* update_pixcode
PixcodeFor(n) ==
  CASE n < 2  -> 38
    [] n = 2  -> 4
    [] n = 3  -> 5
    [] n < 6  -> 6
    [] n < 10 -> 7
    [] OTHER  -> 32

Init ==
  /\ busy = FALSE /\ state = 0 /\ avail = 0 /\ marked = FALSE
  /\ pixels = 0 /\ active = 0 /\ pixcode = 38 /\ next131 = 35
  /\ newx = 0 /\ lastx = 0 /\ lasty = 0 /\ sizeX = 0 /\ sizeY = 0
  /\ cmdLast = 0 /\ since = 2 /\ fatal = 0
  /\ asked = FALSE /\ result = 0

-----------------------------------------------------------------------------
(***************************************************************************)
(* The loop of process_bits.                                               *)
(***************************************************************************)

\* process_dvc() and add_bits(): a byte that completes 31 zero bits, or comes
\* while they still count, sends the decoder hunting.
AddByte(zeros) ==
  /\ ~busy /\ busy' = TRUE /\ lastx <= MaxLastx
  /\ avail' = avail + 8 /\ marked' = (marked \/ zeros)
  /\ state' = IF marked' THEN Hunt ELSE state
  /\ since' = IF since = 0 THEN 1 ELSE 2
  /\ asked' = FALSE
  /\ UNCHANGED <<pixels, palette, position, screen, cmdLast, fatal, result>>

\* Mutant: a field that is just complete is not read.
WaitForMore ==
  /\ busy /\ Need >= avail /\ busy' = FALSE /\ result' = 0
  /\ UNCHANGED <<state, avail, marked, pixels, palette, position, screen, cmdLast,
                 since, fatal, asked>>

\* The state's field is not complete: process_bits returns 0.
Wait ==
  /\ busy /\ Need > avail /\ busy' = FALSE /\ result' = 0
  /\ UNCHANGED <<state, avail, marked, pixels, palette, position, screen, cmdLast,
                 since, fatal, asked>>

\* get_bits(need)
Read(c) == busy /\ Need <= avail /\ c \in Fields

\* process_bits returns r # 0: process_dvc() latches and asks for a refresh.
Return(r) ==
  /\ busy' = FALSE /\ result' = r /\ state' = Latch /\ fatal' = 0 /\ asked' = TRUE

\* The end of the loop's body: a state that would repeat itself is an error.
Go(next) ==
  IF next = state /\ state \notin {45, Latch, Hunt}
    THEN Return(6)
    ELSE state' = next /\ UNCHANGED loop

\* next_block(count): lastx moves on by the tiles pasted, at least one unless
\* count is 0; the rest of a row's end is not pasted.
Pasted(count) ==
  IF count = 0 THEN 0
  ELSE IF lastx + count <= sizeX THEN count
  ELSE IF lastx < sizeX THEN sizeX - lastx ELSE 1

\* Mutant: the next tile goes on counting.
NextBlockCounts(count) == lastx' = lastx + Pasted(count) /\ UNCHANGED pixels

NextBlock(count) == pixels' = 0 /\ lastx' = lastx + Pasted(count)

\* cache_prune(): some of the colours stay, at least the tile's own.
Prune ==
  \E n \in 1 .. active :
    active' = n /\ pixcode' = PixcodeFor(n) /\ next131' = PixcodeFor(n)

\* The tile has `count' pixels and the decoder goes on to `next'; at START with
\* a full tile it is pasted first.
Continue(next, count) ==
  IF next = 2 /\ count = Block
    THEN NextBlock(1) /\ Prune /\ Go(1) /\ UNCHANGED <<newx, lasty>>
    ELSE pixels' = count /\ Go(next) /\ UNCHANGED <<palette, position>>

-----------------------------------------------------------------------------
(***************************************************************************)
(* The states that build a tile.                                           *)
(***************************************************************************)

\* States that only choose the next one.
Choosing == {1, 2, 9, 10, 11, 15, 16, 18, 19, 22, 23, 25, 28, 31, 35, 36, 41}

\* Mutant: state 35 keeps the successor of the table.
ChooseByTable(c) ==
  /\ state \in Choosing /\ Read(c) /\ avail' = avail - Need
  /\ Continue(Successor(c), pixels)
  /\ UNCHANGED <<marked, screen, cmdLast, since>>

Choose(c) ==
  /\ state \in Choosing /\ Read(c) /\ avail' = avail - Need
  /\ Continue(IF state = 35 THEN pixcode ELSE Successor(c), pixels)
  /\ UNCHANGED <<marked, screen, cmdLast, since>>

\* The rank looked up: the only colour, a fixed rank, or the field's.
Rank(c) ==
  CASE active = 1 -> 0
    [] active # 1 /\ state = 4 -> 0
    [] active # 1 /\ state = 3 -> 1
    [] OTHER -> IF c = 0 THEN 0 ELSE c + 1

\* cache_find(): no colour of that rank, or no room in the tile, is an error.
FindColour(c) ==
  /\ state \in {3, 4, 5, 6, 7, 32} /\ Read(c) /\ avail' = avail - Need
  /\ IF Rank(c) < active /\ pixels < Block
       THEN Continue(Successor(c), pixels + 1)
       ELSE Continue(Latch, pixels)
  /\ UNCHANGED <<marked, screen, cmdLast, since>>

\* cache_lru() with the colour just read: an error if the palette has it.
NewColour(c, hit) ==
  LET n == IF active < Capacity THEN active + 1 ELSE active IN
  /\ state \in {8, 42} /\ Read(c) /\ avail' = avail - Need
  /\ hit => active > 0
  /\ IF hit \/ active = Capacity
       THEN UNCHANGED palette
       ELSE active' = n /\ pixcode' = PixcodeFor(n) /\ next131' = PixcodeFor(n)
  /\ IF hit \/ pixels = Block THEN Go(Latch) /\ UNCHANGED pixels
                              ELSE Go(Successor(c)) /\ pixels' = pixels + 1
  /\ UNCHANGED <<marked, position, screen, cmdLast, since>>

\* emit_run(): what does not fit in the tile is an error.
EmitRun(c, count) ==
  IF pixels + count <= Block THEN Continue(Successor(c), pixels + count)
                             ELSE Continue(Latch, Block)

\* Repeats of the last colour, by a short count or through states 13 and 14.
Repeat(c) ==
  /\ state \in {12, 13, 14, 33} /\ Read(c) /\ avail' = avail - Need
  /\ CASE state = 12 /\ c = 7 -> Continue(14, pixels)
       [] state = 12 /\ c = 6 -> Continue(13, pixels)
       [] state = 12 /\ c \notin {6, 7} -> EmitRun(c, c + 2)
       [] state = 13 -> EmitRun(c, c + 8)
       [] state = 14 -> EmitRun(c, c)
       [] state = 33 -> EmitRun(c, 1)
  /\ UNCHANGED <<marked, screen, cmdLast, since>>

\* The last tile again, once, a few times, or often.
RepeatTile(c) ==
  /\ state \in {29, 30, 34} /\ Read(c) /\ avail' = avail - Need
  /\ NextBlock(CASE state = 34 -> 1 [] state = 29 -> c + 2 [] state = 30 -> c)
  /\ Go(1)
  /\ UNCHANGED <<marked, palette, newx, lasty, screen, cmdLast, since>>

-----------------------------------------------------------------------------
(***************************************************************************)
(* Position, size, timeout.                                                *)
(***************************************************************************)

\* newx is not read again before it is written: it is forgotten once used.
Move(c) ==
  /\ state \in {17, 20, 21, 26, 39} /\ Read(c) /\ avail' = avail - Need
  /\ \/ /\ state \in {17, 26} /\ newx' = (IF state = 17 /\ c > sizeX THEN 0 ELSE c)
        /\ UNCHANGED <<lastx, lasty>>
     \/ /\ state = 39 /\ newx' = 0 /\ lastx' = newx
        /\ lasty' = IF c > sizeY THEN 0 ELSE c
     \/ LET x == (IF state = 20 THEN lastx + c + 1 ELSE c) % Columns IN
        /\ state \in {20, 21} /\ lastx' = (IF x > sizeX THEN 0 ELSE x)
        /\ UNCHANGED <<newx, lasty>>
  /\ Go(Successor(c))
  /\ UNCHANGED <<marked, pixels, palette, screen, cmdLast, since>>

\* A screen of newx by c tiles ...
SetSize(c) ==
  /\ state = 40 /\ Read(c) /\ avail' = avail - Need
  /\ sizeX' = newx /\ sizeY' = c /\ newx' = 0
  /\ Go(Successor(c))
  /\ UNCHANGED <<marked, pixels, palette, lastx, lasty, cmdLast, since>>

\* ... and c more rows of pixels: everything starts over.
SetScreen(c) ==
  /\ state = 47 /\ Read(c) /\ avail' = avail - Need
  /\ lastx' = 0 /\ lasty' = 0 /\ pixels' = 0 /\ active' = 0
  /\ Go(Successor(c))
  /\ UNCHANGED <<marked, pixcode, next131, newx, sizeX, sizeY, cmdLast, since>>

\* The encoder pads to a byte; two timeouts in a row are an error.
Timeout ==
  /\ state = 27 /\ Read(0) /\ avail' = 8 * (avail \div 8)
  /\ Go(IF since = 1 THEN Latch ELSE Successor(0)) /\ since' = 0
  /\ UNCHANGED <<marked, pixels, palette, position, screen, cmdLast>>

-----------------------------------------------------------------------------
(***************************************************************************)
(* Firmware commands and text.                                             *)
(***************************************************************************)

\* A byte of a command, and whether another follows.
Command(c) ==
  /\ \/ state = 24 /\ cmdLast' = c
     \/ state = 46 /\ c # 0 /\ UNCHANGED cmdLast
  /\ Read(c) /\ avail' = avail - Need /\ Go(Successor(c))
  /\ UNCHANGED <<marked, pixels, palette, position, screen, since>>

\* A complete command other than 9: leave, text, or a call to the front end.
\* cmd_last is not read again before it is written: it is forgotten.
RunCommand ==
  /\ state = 46 /\ Read(0) /\ cmdLast # 9 /\ avail' = avail - Need /\ cmdLast' = 0
  /\ Go(CASE cmdLast = 1 -> 37 [] cmdLast = 2 -> 44 [] OTHER -> Successor(0))
  /\ UNCHANGED <<marked, pixels, palette, position, screen, since>>

\* Command 9: drop the rest of the byte and rekey.
ChangeKey ==
  /\ state = 46 /\ Read(0) /\ cmdLast = 9 /\ cmdLast' = 0
  /\ avail' = 8 * ((avail - Need) \div 8)
  /\ Go(Successor(0))
  /\ UNCHANGED <<marked, pixels, palette, position, screen, since>>

\* Text for the front end: a channel, then characters up to a zero.
Text(c) ==
  /\ state \in {44, 45} /\ Read(c) /\ avail' = avail - Need
  /\ Go(IF state = 45 /\ c = 0 THEN 1 ELSE Successor(c))
  /\ UNCHANGED <<marked, pixels, palette, position, screen, cmdLast, since>>

\* Command 1 ends process_bits.
Leave ==
  /\ state = 37 /\ Read(0) /\ Return(1)
  /\ UNCHANGED <<avail, marked, pixels, palette, position, screen, cmdLast, since>>

-----------------------------------------------------------------------------
(***************************************************************************)
(* Errors and recovery.                                                    *)
(***************************************************************************)

\* Mutant: the count does not start over.
LatchedRunsOn(c) ==
  LET n == IF fatal + 1 < AskLast THEN fatal + 1 ELSE fatal IN
  /\ state = Latch /\ Read(c) /\ avail' = avail - Need
  /\ fatal' = n /\ asked' = (asked \/ (n # fatal /\ n \in Asks))
  /\ UNCHANGED <<busy, state, marked, pixels, palette, position, screen, cmdLast, since,
                 result>>

\* Latched: bits are skipped and counted, and now and then a refresh is asked for.
Latched(c) ==
  LET n == fatal + 1 IN
  /\ state = Latch /\ Read(c) /\ avail' = avail - Need
  /\ fatal' = IF n = AskLast THEN AskRestart ELSE n
  /\ asked' = (asked \/ n \in Asks \cup {AskLast})
  /\ UNCHANGED <<busy, state, marked, pixels, palette, position, screen, cmdLast, since,
                 result>>

\* The first 1 after the zeros ends the marker, and the rest of its byte.
Hunting(c) ==
  /\ state = Hunt /\ Read(c) /\ Go(Successor(c))
  /\ IF c = 0 THEN avail' = avail - Need /\ UNCHANGED marked
              ELSE avail' = 0 /\ marked' = FALSE
  /\ UNCHANGED <<pixels, palette, position, screen, cmdLast, since>>

\* Mutant: the row is left where it was.
ResetKeepsRow ==
  /\ state = 0 /\ Read(0)
  /\ active' = 0 /\ pixels' = 0 /\ lastx' = 0 /\ since' = 2 /\ fatal' = 0
  /\ state' = Successor(0)
  /\ UNCHANGED <<busy, avail, marked, pixcode, next131, newx, lasty, screen, cmdLast, asked,
                 result>>

\* State 0: everything but the screen size starts over.
Reset ==
  /\ state = 0 /\ Read(0)
  /\ active' = 0 /\ pixels' = 0 /\ lastx' = 0 /\ lasty' = 0 /\ since' = 2 /\ fatal' = 0
  /\ state' = Successor(0)
  /\ UNCHANGED <<busy, avail, marked, pixcode, next131, newx, screen, cmdLast, asked,
                 result>>

-----------------------------------------------------------------------------
Tile     == \E c \in Codes : \/ Choose(c) \/ FindColour(c) \/ Repeat(c) \/ RepeatTile(c)
                             \/ \E hit \in BOOLEAN : NewColour(c, hit)
Place    == (\E c \in Codes : Move(c) \/ SetSize(c) \/ SetScreen(c)) \/ Timeout
Firmware == (\E c \in Codes : Command(c) \/ Text(c)) \/ RunCommand \/ Leave
Recover  == (\E c \in Codes : Latched(c) \/ Hunting(c)) \/ Reset

\* A turn of the loop other than the one that rekeys.
Turn == Wait \/ Tile \/ Place \/ Firmware \/ Recover

Byte == \E zeros \in BOOLEAN : AddByte(zeros)

Next == Byte \/ Turn \/ ChangeKey

\* process_bits runs until it returns; nothing makes the iLO send.
Spec     == Init /\ [][Next]_vars
FairSpec == Spec /\ WF_vars(Turn \/ ChangeKey)

-----------------------------------------------------------------------------
(***************************************************************************)
(* Properties.                                                             *)
(***************************************************************************)

\* The shape of the decoder: a tile never holds more than Block pixels and the
\* palette never more than Capacity colours.
TypeOK ==
  /\ busy \in BOOLEAN /\ state \in States /\ avail \in Nat /\ marked \in BOOLEAN
  /\ pixels \in 0 .. Block /\ active \in 0 .. Capacity
  /\ pixcode \in {4, 5, 6, 7, 32, 38} /\ next131 \in {4, 5, 6, 7, 32, 35, 38}
  /\ newx \in Nat /\ lastx \in Nat /\ lasty \in Nat /\ sizeX \in Nat /\ sizeY \in Nat
  /\ cmdLast \in Nat /\ since \in 0 .. 2 /\ fatal \in 0 .. AskLast - 1
  /\ asked \in BOOLEAN /\ result \in {0, 1, 6}

TileStates == (2 .. 14) \cup (31 .. 33) \cup {35, 36, 41, 42}

\* A tile is pasted, moved away from or followed by a command only when it is
\* complete: with some of its pixels read the decoder is in a state that reads
\* the others, or has given the tile up.
TileBoundary == pixels # 0 => state \in TileStates \cup {Latch, Hunt, 0}

\* The check for a state that repeats itself never fires: the decoder is only
\* ever left by command 1.
LeftByCommand == result # 6

\* process_bits leaves less than a byte behind, also when it returns early, so
\* the 32-bit buffer never loses a bit.
LessThanAByte == ~busy => avail < 8

\* Tiles are pasted in rows of the screen: no order of size changes, moves and
\* reset markers leaves the row of a bigger screen in force.
RowOnScreen == state \in TileStates \cup {29, 30, 34} => lasty <= sizeY

\* No bit read under the old key is decoded after a rekey.
RekeyAligned == [][ChangeKey => avail' = 0]_vars

\* A decoder that stays latched while bytes keep coming asks for a refresh again
\* and again.
KeepsAsking ==
  ([]<><<Byte>>_vars /\ <>[](state = Latch)) => []<>asked
=============================================================================
