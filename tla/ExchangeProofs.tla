--------------------------- MODULE ExchangeProofs ---------------------------
(***************************************************************************)
(* What the program asks of the iLO (IloRequests) and what the iLO reads   *)
(* from it (MediaServer).  The two have their own variables; nothing here  *)
(* relates them.                                                           *)
(***************************************************************************)
EXTENDS IloRequests, MediaServer, SequenceTheorems, TLAPS

-----------------------------------------------------------------------------
(***************************************************************************)
(* IloRequests.  For every limit on an answer and every pause of the       *)
(* firmware: a reply is taken whole, a console session is acquired with all *)
(* its parameters or not at all, and a page never waits for more than it   *)
(* promised.  What has been received and what is still coming always make  *)
(* up an answer the iLO gave (PageFlow, ReplyFlow), however it is cut into *)
(* records.                                                                *)
(***************************************************************************)

Piece == {"ok", "err", "done", "marker", "value", "pause", "line", "head", "text",
          "last", "key", "none", "index", "info0", "infod"}

\* Everything of the answer that has been received or is still coming.
Whole == raw \o todo

Prefix(x, y) == Len(x) <= Len(y) /\ \A i \in 1 .. Len(x) : x[i] = y[i]

\* The requests in flight: what each stage has left alone so far.
Stage ==
  /\ raw \in Seq(Piece) /\ todo \in Seq(Piece) /\ job \in Commands \cup Pages
  /\ pc # "idle" => outcome = "none" /\ ended = "none"
  /\ job = "frame" => cookie
  /\ link = "up" => ~cut
  /\ pc \in {"connect", "prolog", "request"} => raw = <<>>
  /\ pc \in {"connect", "prolog"} => todo = <<>>
  /\ pc = "connect" => link = "up"
  /\ pc = "prolog" => job \notin Pages
  /\ pc \in {"prolog", "request"} /\ link # "up" => cut
  /\ pc = "request" /\ job \in Pages => todo = <<>>
  /\ pc = "request" /\ job \notin Pages /\ ~cut => todo = <<"ok">>

\* A page on its way: the start of a status line, headers, body and end that go
\* together, all of it unless the connection ended first, and not yet complete.
PageOf(b, e) == <<"line", "head">> \o b \o e
PageAnswer ==
  \E b \in Bodies(job) : \E e \in Ends(promise.framing) :
    /\ promise \in Promises(b) /\ Prefix(Whole, PageOf(b, e))
    /\ ~cut => Len(Whole) = Len(PageOf(b, e))
PageFlow ==
  pc = "receive" /\ job \in Pages =>
    /\ ~HttpComplete(raw)
    /\ PageAnswer \/ (raw = <<>> /\ todo = <<>> /\ cut)

\* A reply on its way, by place: an endless one, or two ok documents, for a virtual
\* media write perhaps a pause, and the answer q to the document behind place d.
Answers(c) == {Result(c), <<"err">>}
Flooded(w) == Len(w) = MaxRaw + 2 /\ \A i \in 1 .. Len(w) : w[i] = "ok"
Answered(c, w, d, q) ==
  /\ Len(w) = d + Len(q) /\ w[1] = "ok" /\ w[2] = "ok"
  /\ d = 2 \/ (d = 3 /\ w[3] = "pause" /\ IsMedia(c))
  /\ \A i \in 1 .. Len(q) : w[d + i] = q[i]
IsReply(c, w) ==
  Flooded(w) \/ \E d \in {2, 3} : \E q \in Answers(c) : Answered(c, w, d, q)
ReplyFlow ==
  pc = "receive" /\ job \notin Pages /\ ~cut => Len(raw) <= MaxRaw /\ IsReply(job, Whole)

-----------------------------------------------------------------------------
(***************************************************************************)
(* Sequences of pieces.                                                    *)
(***************************************************************************)

\* A concatenation, by place.
LEMMA ConcatAt ==
  ASSUME NEW x \in Seq(Piece), NEW y \in Seq(Piece)
  PROVE  /\ x \o y \in Seq(Piece) /\ Len(x \o y) = Len(x) + Len(y)
         /\ \A i \in 1 .. Len(x) : (x \o y)[i] = x[i]
         /\ \A i \in 1 .. Len(y) : (x \o y)[Len(x) + i] = y[i]
<1>1. ASSUME NEW i \in 1 .. Len(y) PROVE (x \o y)[Len(x) + i] = y[i]
  <2>1. Len(x) + i \in 1 .. Len(x) + Len(y) /\ Len(x) + i > Len(x) /\ Len(x) + i - Len(x) = i
    OBVIOUS
  <2> QED BY <2>1
<1> QED BY <1>1

\* Taking n pieces from what is coming leaves the answer as it is.
LEMMA Regroup ==
  ASSUME NEW x \in Seq(Piece), NEW y \in Seq(Piece), NEW n \in 0 .. Len(y)
  PROVE  /\ SubSeq(y, 1, n) \in Seq(Piece) /\ SubSeq(y, n + 1, Len(y)) \in Seq(Piece)
         /\ x \o SubSeq(y, 1, n) \in Seq(Piece)
         /\ Len(x \o SubSeq(y, 1, n)) = Len(x) + n
         /\ Prefix(x \o SubSeq(y, 1, n), x \o y)
         /\ (x \o SubSeq(y, 1, n)) \o SubSeq(y, n + 1, Len(y)) = x \o y
<1> DEFINE a == SubSeq(y, 1, n)  z == SubSeq(y, n + 1, Len(y))
<1>1. /\ a \in Seq(Piece) /\ Len(a) = n /\ \A i \in 1 .. n : a[i] = y[i]
  OBVIOUS
<1>2. /\ z \in Seq(Piece) /\ Len(z) = Len(y) - n
      /\ \A i \in 1 .. Len(y) - n : z[i] = y[n + i]
  OBVIOUS
<1> HIDE DEF a, z
<1>3. x \o a \in Seq(Piece) /\ Len(x \o a) = Len(x) + n
  BY <1>1, SMTT(30)
<1>4. ASSUME NEW i \in 1 .. Len(x) + n PROVE (x \o a)[i] = (x \o y)[i]
  BY <1>1
<1>5. Prefix(x \o a, x \o y)
  BY <1>3, <1>4 DEF Prefix
<1>6. (x \o a) \o z = x \o y
  <2>1. ASSUME NEW i \in 1 .. Len(x) + Len(y) PROVE ((x \o a) \o z)[i] = (x \o y)[i]
    <3>1. CASE i <= Len(x) + n
      BY <1>2, <1>3, <1>4, <3>1
    <3>2. CASE i > Len(x) + n
      <4>1. ((x \o a) \o z)[i] = z[i - (Len(x) + n)]
        BY <1>2, <1>3, <3>2
      <4>2. z[i - (Len(x) + n)] = y[n + (i - (Len(x) + n))]
        <5>1. i - (Len(x) + n) \in 1 .. Len(y) - n
          BY <3>2
        <5> HIDE DEF z
        <5> QED BY <1>2, <5>1
      <4>3. n + (i - (Len(x) + n)) = i - Len(x) /\ (x \o y)[i] = y[i - Len(x)]
        BY <3>2
      <4> QED BY <4>1, <4>2, <4>3
    <3>3. i \in Nat /\ Len(x) + n \in Nat
      OBVIOUS
    <3>4. i <= Len(x) + n \/ i > Len(x) + n
      BY ONLY <3>3
    <3> QED BY ONLY <3>1, <3>2, <3>4
  <2>2. (x \o a) \o z \in Seq(Piece) /\ x \o y \in Seq(Piece)
    BY <1>2, <1>3
  <2>3. Len((x \o a) \o z) = Len(x) + Len(y) /\ Len(x \o y) = Len(x) + Len(y)
    BY <1>2, <1>3
  <2> DEFINE l == (x \o a) \o z  r == x \o y
  <2> HIDE DEF l, r
  <2>4. l = r
    <3>1. l \in Seq(Piece) /\ r \in Seq(Piece) /\ Len(l) = Len(r)
      BY <2>2, <2>3 DEF l, r
    <3>2. \A i \in 1 .. Len(l) : l[i] = r[i]
      BY <2>1, <2>3 DEF l, r
    <3> QED BY <3>1, <3>2, SeqEqual
  <2> QED BY <2>4 DEF l, r
<1> QED BY <1>1, <1>2, <1>3, <1>5, <1>6 DEF a, z

LEMMA PieceNames ==
  /\ "ok" \in Piece /\ "err" \in Piece /\ "done" \in Piece /\ "marker" \in Piece
  /\ "value" \in Piece /\ "pause" \in Piece /\ "line" \in Piece /\ "head" \in Piece
  /\ "text" \in Piece /\ "last" \in Piece /\ "key" \in Piece /\ "none" \in Piece
  /\ "index" \in Piece /\ "info0" \in Piece /\ "infod" \in Piece
  BY DEF Piece

\* What the iLO may answer is a sequence of pieces.
LEMMA StageTypes ==
  ASSUME NEW c
  PROVE  (\A s \in Stages(c) : s \in Seq(Piece)) /\ Result(c) \in Seq(Piece)
<1>1. <<"ok">> \in Seq(Piece) /\ <<"ok", "pause">> \in Seq(Piece)
  BY PieceNames
<1>2. \A s \in Stages(c) : s \in {<<"ok">>, <<"ok", "pause">>}
  BY DEF Stages
<1>3. /\ <<"marker", "value">> \in Seq(Piece) /\ <<"value", "marker">> \in Seq(Piece)
      /\ <<"value">> \in Seq(Piece) /\ <<"done">> \in Seq(Piece)
  BY PieceNames
<1>4. Element(c) \in {<<"marker", "value">>, <<"value", "marker">>, <<"value">>}
  BY DEF Element
<1>5. Element(c) \in Seq(Piece)
  BY <1>3, <1>4
<1>6. Element(c) \o <<"ok">> \in Seq(Piece)
  BY <1>1, <1>5
<1> QED BY <1>1, <1>2, <1>3, <1>6 DEF Result

LEMMA FloodType == Flood \in Seq(Piece) /\ Len(Flood) = MaxRaw + 1
<1>1. MaxRaw \in Nat
  BY MaxRawAssumption
<1> QED BY <1>1, PieceNames DEF Flood

LEMMA ReplyTypes ==
  ASSUME NEW c, NEW r \in Replies(c)
  PROVE  r \in Seq(Piece)
<1>1. CASE r = Flood
  BY <1>1, FloodType
<1>2. CASE r # Flood
  <2>1. PICK s \in Stages(c), q \in {Result(c), <<"err">>} : r = s \o q
    BY <1>2 DEF Replies
  <2>2. <<"err">> \in Seq(Piece)
    BY PieceNames
  <2>3. s \in Seq(Piece) /\ q \in Seq(Piece)
    BY <2>2, StageTypes
  <2> QED BY <2>1, <2>3
<1> QED BY <1>1, <1>2

LEMMA PageTypes ==
  ASSUME NEW p, NEW b \in Bodies(p), NEW f, NEW e \in Ends(f)
  PROVE  b \in Seq(Piece) /\ e \in Seq(Piece)
<1>1. <<"text">> \in Seq(Piece) /\ <<"last">> \in Seq(Piece) /\ <<>> \in Seq(Piece)
  BY PieceNames
<1>2. /\ <<"key", "index">> \in Seq(Piece) /\ <<"none", "index">> \in Seq(Piece)
      /\ <<"info0", "infod">> \in Seq(Piece)
  BY PieceNames
<1>3. [i \in 1 .. MaxRaw |-> "text"] \in Seq(Piece)
  <2>1. MaxRaw \in Nat
    BY MaxRawAssumption
  <2> QED BY <2>1, PieceNames
<1>4. b \in {<<"text">>, [i \in 1 .. MaxRaw |-> "text"], <<"key", "index">>,
             <<"none", "index">>, <<"info0", "infod">>}
  BY DEF Bodies
<1>5. e \in {<<"last">>, <<>>, <<"text">>}
  BY DEF Ends
<1> QED BY <1>1, <1>2, <1>3, <1>4, <1>5

\* The pieces of a page, by place.
LEMMA PageShape ==
  ASSUME NEW b \in Seq(Piece), NEW e \in Seq(Piece)
  PROVE  /\ PageOf(b, e) \in Seq(Piece) /\ Len(PageOf(b, e)) = 2 + Len(b) + Len(e)
         /\ PageOf(b, e)[1] = "line" /\ PageOf(b, e)[2] = "head"
         /\ \A i \in 1 .. Len(b) : PageOf(b, e)[2 + i] = b[i]
         /\ \A i \in 1 .. Len(e) : PageOf(b, e)[2 + Len(b) + i] = e[i]
<1> DEFINE h == <<"line", "head">>  t == h \o b
<1>1. h \in Seq(Piece) /\ Len(h) = 2 /\ h[1] = "line" /\ h[2] = "head"
  BY PieceNames
<1> HIDE DEF h
<1>2. /\ t \in Seq(Piece) /\ Len(t) = 2 + Len(b) /\ t[1] = "line" /\ t[2] = "head"
      /\ \A i \in 1 .. Len(b) : t[2 + i] = b[i]
  <2>1. /\ h \o b \in Seq(Piece) /\ Len(h \o b) = Len(h) + Len(b)
        /\ \A i \in 1 .. Len(h) : (h \o b)[i] = h[i]
        /\ \A i \in 1 .. Len(b) : (h \o b)[Len(h) + i] = b[i]
    BY ONLY <1>1, b \in Seq(Piece), ConcatAt, Zenon
  <2> HIDE DEF t
  <2>2. /\ t \in Seq(Piece) /\ Len(t) = Len(h) + Len(b)
        /\ \A i \in 1 .. Len(h) : t[i] = h[i]
        /\ \A i \in 1 .. Len(b) : t[Len(h) + i] = b[i]
    BY ONLY <2>1 DEF t
  <2>3. 1 \in 1 .. Len(h) /\ 2 \in 1 .. Len(h) /\ Len(h) = 2
    BY <1>1
  <2> QED BY <1>1, <2>2, <2>3
<1> HIDE DEF t
<1>3. /\ t \o e \in Seq(Piece) /\ Len(t \o e) = 2 + Len(b) + Len(e)
      /\ \A i \in 1 .. 2 + Len(b) : (t \o e)[i] = t[i]
      /\ \A i \in 1 .. Len(e) : (t \o e)[2 + Len(b) + i] = e[i]
  <2>1. /\ t \o e \in Seq(Piece) /\ Len(t \o e) = Len(t) + Len(e)
        /\ \A i \in 1 .. Len(t) : (t \o e)[i] = t[i]
        /\ \A i \in 1 .. Len(e) : (t \o e)[Len(t) + i] = e[i]
    BY <1>2, ConcatAt
  <2> QED BY <1>2, <2>1
<1>4. PageOf(b, e) = t \o e
  BY DEF PageOf, t, h
<1>5. \A i \in 1 .. Len(b) : 2 + i \in 1 .. 2 + Len(b)
  OBVIOUS
<1>6. 1 \in 1 .. 2 + Len(b) /\ 2 \in 1 .. 2 + Len(b)
  OBVIOUS
<1> QED BY <1>2, <1>3, <1>4, <1>5, <1>6

-----------------------------------------------------------------------------
(***************************************************************************)
(* Every step keeps the answer together.                                   *)
(***************************************************************************)

\* What reading n more pieces gives.
LEMMA GotWhole ==
  ASSUME Stage, NEW n \in 1 .. Len(todo)
  PROVE  /\ Got(n) \in Seq(Piece) /\ Len(Got(n)) = Len(raw) + n /\ Prefix(Got(n), Whole)
         /\ SubSeq(todo, n + 1, Len(todo)) \in Seq(Piece)
         /\ Got(n) \o SubSeq(todo, n + 1, Len(todo)) = Whole
         /\ Whole \in Seq(Piece)
<1>1. raw \in Seq(Piece) /\ todo \in Seq(Piece)
  BY DEF Stage
<1>2. n \in 0 .. Len(todo)
  BY <1>1
<1>3. raw \o todo \in Seq(Piece)
  BY <1>1
<1> DEFINE x == raw  y == todo
<1>4. /\ SubSeq(y, n + 1, Len(y)) \in Seq(Piece)
      /\ x \o SubSeq(y, 1, n) \in Seq(Piece)
      /\ Len(x \o SubSeq(y, 1, n)) = Len(x) + n
      /\ Prefix(x \o SubSeq(y, 1, n), x \o y)
      /\ (x \o SubSeq(y, 1, n)) \o SubSeq(y, n + 1, Len(y)) = x \o y
  <2>1. x \in Seq(Piece) /\ y \in Seq(Piece) /\ n \in 0 .. Len(y)
    BY <1>1, <1>2
  <2> HIDE DEF x, y
  <2> QED BY <2>1, Regroup
<1> QED BY <1>3, <1>4 DEF Got, Whole

\* A call that returns, or goes on to the second page, keeps the stages.
LEMMA ReturnsStage ==
  ASSUME Stage, raw' \in Seq(Piece), cookie' = cookie,
         \E o : Returns(o)
  PROVE  Stage'
  BY DEF Stage, Returns, Pages

LEMMA PageDoneStage ==
  ASSUME Stage, job \in Pages, pc = "receive", NEW r \in Seq(Piece), NEW how,
         PageDone(r, how)
  PROVE  Stage'
<1>1. CASE LoginDone(r, how)
  <2>1. CASE Opening("frame") /\ cookie' = TRUE /\ UNCHANGED <<params, outcome>>
    BY <2>1 DEF Stage, Opening, Pages
  <2>2. CASE Returns("failed") /\ raw' = r /\ UNCHANGED cookie
    BY <2>2, ReturnsStage
  <2> QED BY <1>1, <2>1, <2>2 DEF LoginDone
<1>2. CASE FrameDone(r, how)
  <2>1. raw' = r /\ cookie' = cookie /\ \E o : Returns(o)
    BY <1>2 DEF FrameDone
  <2> QED BY <2>1, ReturnsStage
<1> QED BY <1>1, <1>2 DEF PageDone

LEMMA StageInductive == Stage /\ [Next]_vars => Stage'
<1> SUFFICES ASSUME Stage, [Next]_vars PROVE Stage'
  OBVIOUS
<1>1. CASE \E j \in Commands \cup {"login"} : Call(j)
  BY <1>1 DEF Stage, Call, Opening, Pages, Commands, Reads, RibInfo, AttrReads, TagReads
<1>2. CASE Connected
  BY <1>2 DEF Stage, Connected, Pages, iLO
<1>3. CASE ConnectFails \/ SendFails
  BY <1>3, ReturnsStage DEF ConnectFails, SendFails, Stage
<1>4. CASE SendProlog
  <2>1. <<"ok">> \in Seq(Piece)
    BY PieceNames
  <2> QED BY <1>4, <2>1 DEF Stage, SendProlog
<1>5. CASE SendDocument
  <2>1. job \in Commands
    BY <1>5 DEF SendDocument, Stage
  <2>2. todo' \in Seq(Piece)
    BY <1>5, <2>1, ReplyTypes DEF SendDocument, Stage
  <2> QED BY <1>5, <2>2 DEF Stage, SendDocument
<1>6. CASE SendGet
  <2>1. PICK b \in Bodies(job) : \E p \in Promises(b) : \E e \in Ends(p.framing) :
          promise' = p /\ todo' = <<"line", "head">> \o b \o e
    BY <1>6 DEF SendGet
  <2>2. PICK p \in Promises(b) : \E e \in Ends(p.framing) :
          promise' = p /\ todo' = <<"line", "head">> \o b \o e
    BY <2>1
  <2>3. PICK e \in Ends(p.framing) : promise' = p /\ todo' = <<"line", "head">> \o b \o e
    BY <2>2
  <2>4. todo' \in Seq(Piece)
    BY <2>3, PageTypes, PageShape DEF PageOf
  <2> QED BY <1>6, <2>4 DEF Stage, SendGet
<1>7. CASE SendUnheard
  BY <1>7 DEF Stage, SendUnheard, iLO
<1>8. ASSUME NEW n \in 1 .. Len(todo), RibclRecv(n) \/ PageRecv(n) PROVE Stage'
  <2>1. /\ Got(n) \in Seq(Piece) /\ SubSeq(todo, n + 1, Len(todo)) \in Seq(Piece)
    BY GotWhole
  <2>2. pc = "receive"
    BY <1>8 DEF RibclRecv, PageRecv, Arrives
  <2>3. CASE KeepReading(n)
    BY <2>1, <2>2, <2>3 DEF Stage, KeepReading
  <2>4. CASE TooLarge(n)
    BY <2>1, <2>4, ReturnsStage DEF TooLarge
  <2>5. CASE RibclReturn(Got(n), "complete")
    BY <2>1, <2>5, ReturnsStage DEF RibclReturn
  <2>6. CASE job \in Pages /\ PageDone(Got(n), "complete")
    BY <2>1, <2>2, <2>6, PageDoneStage
  <2> QED BY <1>8, <2>3, <2>4, <2>5, <2>6 DEF RibclRecv, PageRecv
<1>9. CASE RibclClosed \/ RibclErrs
  <2>1. raw' = raw /\ cookie' = cookie /\ \E o : Returns(o)
    BY <1>9 DEF RibclClosed, RibclErrs, RibclReturn
  <2> QED BY <2>1, ReturnsStage DEF Stage
<1>10. CASE PageClosed
  BY <1>10, PageDoneStage DEF PageClosed, Closed, Stage
<1>11. CASE PageErrs
  BY <1>11, ReturnsStage DEF PageErrs, Stage
<1>12. CASE Resume
  BY <1>12 DEF Resume, Stage, Paused
<1>13. CASE LinkEnds
  <2>1. PICK k \in 0 .. Len(todo) :
          todo' = SubSeq(todo, 1, k) /\ cut' = (k < Len(todo) \/ pc # "receive")
    BY <1>13 DEF LinkEnds
  <2>2. todo' \in Seq(Piece) /\ (todo = <<>> => todo' = <<>>)
    BY <2>1 DEF Stage
  <2> QED BY <1>13, <2>1, <2>2 DEF LinkEnds, Stage
<1>14. CASE UNCHANGED vars
  BY <1>14 DEF vars, Stage
<1> QED
  BY <1>1, <1>2, <1>3, <1>4, <1>5, <1>6, <1>7, <1>8, <1>9, <1>10, <1>11, <1>12, <1>13,
     <1>14 DEF Next, Client, Receive

\* No page has a pause in it.
LEMMA PagesSpeak ==
  ASSUME NEW p, NEW b \in Bodies(p), NEW f, NEW e \in Ends(f),
         NEW i \in 1 .. Len(PageOf(b, e))
  PROVE  PageOf(b, e)[i] # "pause"
<1> DEFINE w == PageOf(b, e)
<1>1. b \in Seq(Piece) /\ e \in Seq(Piece)
  BY PageTypes
<1>2. /\ Len(w) = 2 + Len(b) + Len(e) /\ w[1] = "line" /\ w[2] = "head"
      /\ \A j \in 1 .. Len(b) : w[2 + j] = b[j]
      /\ \A j \in 1 .. Len(e) : w[2 + Len(b) + j] = e[j]
  BY <1>1, PageShape
<1>3. \A j \in 1 .. Len(b) : b[j] # "pause"
  <2>1. b \in {<<"text">>, [k \in 1 .. MaxRaw |-> "text"], <<"key", "index">>,
               <<"none", "index">>, <<"info0", "infod">>}
    BY DEF Bodies
  <2>2. MaxRaw \in Nat
    BY MaxRawAssumption
  <2>3. CASE b = [k \in 1 .. MaxRaw |-> "text"]
    BY <2>2, <2>3
  <2>4. CASE b = <<"text">>
    BY <2>4
  <2>5. CASE b \in {<<"key", "index">>, <<"none", "index">>, <<"info0", "infod">>}
    BY <2>5
  <2> QED BY <2>1, <2>3, <2>4, <2>5
<1>4. \A j \in 1 .. Len(e) : e[j] # "pause"
  <2>1. e \in {<<"last">>, <<>>, <<"text">>}
    BY DEF Ends
  <2> QED BY <2>1
<1> HIDE DEF w
<1>5. CASE i <= 2
  <2>1. i = 1 \/ i = 2
    BY <1>5
  <2> QED BY <1>2, <2>1 DEF w
<1>6. CASE i > 2 /\ i <= 2 + Len(b)
  <2>1. i - 2 \in 1 .. Len(b) /\ 2 + (i - 2) = i
    BY <1>1, <1>6
  <2> QED BY <1>2, <1>3, <2>1 DEF w
<1>7. CASE i > 2 + Len(b)
  <2>1. i - (2 + Len(b)) \in 1 .. Len(e) /\ 2 + Len(b) + (i - (2 + Len(b))) = i
    BY <1>1, <1>2, <1>7 DEF w
  <2> QED BY <1>2, <1>4, <2>1 DEF w
<1> QED BY <1>1, <1>5, <1>6, <1>7 DEF w

LEMMA PrefixTransitive ==
  ASSUME NEW x \in Seq(Piece), NEW y \in Seq(Piece), NEW z \in Seq(Piece),
         Prefix(x, y), Prefix(y, z)
  PROVE  Prefix(x, z)
  BY DEF Prefix

\* A page's receive timeout is shorter than any pause, so none is sat out.
LEMMA PageTimeout == \A p \in Pages : TimeoutMs(p) < PauseMs
<1>1. \A p \in Pages : p \notin RibInfo
  BY DEF Pages, RibInfo
<1> QED BY <1>1, PauseAssumption DEF TimeoutMs, IsMedia, Wrapper

LEMMA PageFlowInductive == Stage /\ PageFlow /\ [Next]_vars => PageFlow'
<1> SUFFICES ASSUME Stage, PageFlow, [Next]_vars, pc' = "receive", job' \in Pages
             PROVE  /\ ~HttpComplete(raw)'
                    /\ PageAnswer' \/ (raw' = <<>> /\ todo' = <<>> /\ cut')
  BY DEF PageFlow
<1>1. CASE SendGet
  <2>1. raw = <<>> /\ raw' = <<>> /\ job' = job /\ cut' = cut
    BY <1>1 DEF SendGet, Stage
  <2>2. PICK b \in Bodies(job) : \E p \in Promises(b) : \E e \in Ends(p.framing) :
          promise' = p /\ todo' = <<"line", "head">> \o b \o e
    BY <1>1 DEF SendGet
  <2>3. PICK e \in Ends(promise'.framing) :
          promise' \in Promises(b) /\ todo' = PageOf(b, e)
    BY <2>2 DEF PageOf
  <2>4. PageOf(b, e) \in Seq(Piece)
    BY PageTypes, PageShape
  <2>5. Whole' = PageOf(b, e)
    BY <2>1, <2>3, <2>4 DEF Whole
  <2>6. Prefix(Whole', PageOf(b, e)) /\ Len(Whole') = Len(PageOf(b, e))
    BY <2>4, <2>5 DEF Prefix
  <2>7. PageAnswer'
    BY <2>1, <2>3, <2>6 DEF PageAnswer
  <2>8. ~HttpComplete(raw)'
    BY <2>1 DEF HttpComplete, HasHead, Holds
  <2> QED BY <2>7, <2>8
<1>2. CASE SendUnheard
  <2>1. raw' = <<>> /\ todo' = <<>> /\ cut'
    BY <1>2 DEF SendUnheard, Stage, iLO
  <2> QED BY <2>1 DEF HttpComplete, HasHead, Holds
<1>3. ASSUME NEW n \in 1 .. Len(todo), RibclRecv(n) \/ PageRecv(n)
      PROVE  /\ ~HttpComplete(raw)' /\ PageAnswer'
  <2>1. KeepReading(n) /\ ~HttpComplete(Got(n))
    BY <1>3 DEF RibclRecv, PageRecv, TooLarge, RibclReturn, PageDone, LoginDone, FrameDone,
                Returns, Opening, KeepReading
  <2>2. pc = "receive" /\ UNCHANGED <<job, promise, cut>> /\ raw' = Got(n)
        /\ todo' = SubSeq(todo, n + 1, Len(todo))
    BY <1>3, <2>1 DEF RibclRecv, PageRecv, Arrives, KeepReading
  <2>3. Whole' = Whole
    BY <2>2, GotWhole DEF Whole
  <2>4. PageAnswer
    BY <2>2 DEF PageFlow
  <2>5. PageAnswer'
    BY <2>2, <2>3, <2>4 DEF PageAnswer
  <2>6. ~HttpComplete(raw)'
    BY <2>1, <2>2 DEF HttpComplete, HasHead
  <2> QED BY <2>5, <2>6
<1>4. CASE LinkEnds
  <2>1. PICK k \in 0 .. Len(todo) :
          todo' = SubSeq(todo, 1, k) /\ cut' = (k < Len(todo) \/ pc # "receive")
    BY <1>4 DEF LinkEnds
  <2>2. pc = "receive" /\ ~cut /\ UNCHANGED <<job, promise, raw>>
    BY <1>4 DEF LinkEnds, Stage
  <2>3. PICK b \in Bodies(job) : \E e \in Ends(promise.framing) :
          /\ promise \in Promises(b) /\ Prefix(Whole, PageOf(b, e))
          /\ Len(Whole) = Len(PageOf(b, e))
    BY <2>2 DEF PageFlow, PageAnswer
  <2>4. PICK e \in Ends(promise.framing) :
          /\ promise \in Promises(b) /\ Prefix(Whole, PageOf(b, e))
          /\ Len(Whole) = Len(PageOf(b, e))
    BY <2>3
  <2>5. raw \in Seq(Piece) /\ todo \in Seq(Piece) /\ Whole \in Seq(Piece)
        /\ Len(Whole) = Len(raw) + Len(todo)
    BY DEF Stage, Whole
  <2>6. Whole' \in Seq(Piece) /\ Prefix(Whole', Whole) /\ Len(Whole') = Len(raw) + k
    BY <2>1, <2>2, <2>5, Regroup DEF Whole
  <2>7. Prefix(Whole', PageOf(b, e))
    BY <2>4, <2>5, <2>6, PageTypes, PageShape, PrefixTransitive
  <2>8. ~cut' => Len(Whole') = Len(PageOf(b, e))
    <3>1. k < Len(todo) => cut'
      BY <2>1, Zenon
    <3>2. k < Len(todo) \/ k = Len(todo)
      BY <2>5
    <3> QED BY <2>4, <2>5, <2>6, <3>1, <3>2
  <2>9. PageAnswer'
    BY <2>2, <2>4, <2>7, <2>8 DEF PageAnswer
  <2>10. ~HttpComplete(raw)'
    BY <2>2 DEF PageFlow, HttpComplete, HasHead
  <2> QED BY <2>9, <2>10
<1>5. CASE UNCHANGED vars
  BY <1>5 DEF vars, PageFlow, PageAnswer, Whole, HttpComplete, HasHead
<1>6. ~Resume
  BY PageTimeout, PauseAssumption DEF Resume, TimeoutMs
<1>7. CASE \/ RibclClosed \/ RibclErrs \/ PageClosed \/ PageErrs \/ ConnectFails \/ SendFails
           \/ SendDocument \/ SendProlog \/ Connected
           \/ \E j \in Commands \cup {"login"} : Call(j)
  BY <1>7 DEF RibclClosed, RibclErrs, RibclReturn, PageClosed, PageDone, LoginDone,
              FrameDone, PageErrs, ConnectFails, SendFails, Returns, Opening, SendDocument,
              SendProlog, Connected, Call
<1> QED
  BY <1>1, <1>2, <1>3, <1>4, <1>5, <1>6, <1>7 DEF Next, Client, Receive

-----------------------------------------------------------------------------
(***************************************************************************)
(* Pages.                                                                  *)
(***************************************************************************)

LEMMA AfterHeadAt ==
  ASSUME NEW r \in Seq(Piece), Len(r) >= 2
  PROVE  /\ AfterHead(r) \in Seq(Piece) /\ Len(AfterHead(r)) = Len(r) - 2
         /\ \A i \in 1 .. Len(r) - 2 : AfterHead(r)[i] = r[2 + i]
<1>1. AfterHead(r) \in Seq(Piece) /\ Len(AfterHead(r)) = Len(r) - 2
  <2>1. CASE Len(r) = 2
    <3>1. AfterHead(r) = <<>>
      BY <2>1, SubSeqEmpty DEF AfterHead
    <3> QED BY <2>1, <3>1
  <2>2. CASE Len(r) >= 3
    BY <2>2 DEF AfterHead
  <2>3. Len(r) = 2 \/ Len(r) >= 3
    <3> DEFINE k == Len(r)
    <3>1. k \in Nat /\ k >= 2
      OBVIOUS
    <3> HIDE DEF k
    <3>2. k = 2 \/ k >= 3
      BY <3>1
    <3> QED BY <3>2 DEF k
  <2> QED BY <2>1, <2>2, <2>3
<1>2. ASSUME NEW i \in 1 .. Len(r) - 2 PROVE AfterHead(r)[i] = r[2 + i]
  BY DEF AfterHead
<1> QED BY <1>1, <1>2

\* With all of a page that gives its length received, the loop is over.
LEMMA WholeIsComplete ==
  ASSUME NEW b \in Bodies(job), NEW e \in Ends(promise.framing), promise \in Promises(b),
         NEW r \in Seq(Piece), Prefix(r, PageOf(b, e)), Len(r) = Len(PageOf(b, e)),
         promise.framing # "none"
  PROVE  HttpComplete(r)
<1>1. b \in Seq(Piece) /\ e \in Seq(Piece)
  BY PageTypes
<1> DEFINE w == PageOf(b, e)
<1>2. /\ Len(w) = 2 + Len(b) + Len(e) /\ w[2] = "head"
      /\ \A i \in 1 .. Len(e) : w[2 + Len(b) + i] = e[i]
  BY <1>1, PageShape
<1>3. /\ Len(r) = 2 + Len(b) + Len(e) /\ \A i \in 1 .. Len(r) : r[i] = w[i]
  BY <1>2 DEF Prefix
<1> HIDE DEF w
<1>4. Len(r) >= 2 /\ r[2] = "head"
  BY <1>1, <1>2, <1>3
<1>5. HasHead(r)
  BY <1>4 DEF HasHead, Holds
<1>6. Len(AfterHead(r)) = Len(b) + Len(e) /\ \A i \in 1 .. Len(r) - 2 : AfterHead(r)[i] = r[2 + i]
  BY <1>1, <1>3, <1>4, AfterHeadAt
<1>7. promise.framing \in {"chunked", "length"} /\ promise.length = Len(b)
  BY DEF Promises
<1>8. CASE promise.framing = "chunked"
  <2>1. e = <<"last">>
    BY <1>8 DEF Ends
  <2>2. Len(e) = 1 /\ e[1] = "last"
    BY <2>1
  <2>3. /\ Len(b) + 1 \in 1 .. Len(r) - 2 /\ 2 + (Len(b) + 1) = 2 + Len(b) + 1
        /\ 2 + Len(b) + 1 \in 1 .. Len(r)
    BY <1>1, <1>3, <2>2
  <2>4. AfterHead(r)[Len(b) + 1] = "last"
    BY <1>2, <1>3, <1>6, <2>2, <2>3
  <2>5. Holds(AfterHead(r), "last")
    BY <1>1, <1>6, <2>2, <2>4 DEF Holds
  <2> QED BY <1>5, <1>8, <2>5 DEF HttpComplete, Dechunk
<1>9. CASE promise.framing = "length"
  <2>1. Len(AfterHead(r)) >= promise.length
    BY <1>1, <1>6, <1>7
  <2> QED BY <1>5, <1>9, <2>1 DEF HttpComplete
<1> QED BY <1>7, <1>8, <1>9

\* With nothing more to come from a working connection, all of the page is there.
LEMMA ErrsOnPage ==
  ASSUME Stage, PageFlow, pc = "receive", job \in Pages, link = "up", Errs
  PROVE  promise.framing = "none"
<1>1. ~cut
  BY DEF Stage
<1>2. PICK b \in Bodies(job) : \E e \in Ends(promise.framing) :
        /\ promise \in Promises(b) /\ Prefix(Whole, PageOf(b, e))
        /\ Len(Whole) = Len(PageOf(b, e))
  BY <1>1 DEF PageFlow, PageAnswer
<1>3. PICK e \in Ends(promise.framing) :
        /\ promise \in Promises(b) /\ Prefix(Whole, PageOf(b, e))
        /\ Len(Whole) = Len(PageOf(b, e))
  BY <1>2
<1>4. raw \in Seq(Piece) /\ todo \in Seq(Piece)
  BY DEF Stage
<1>5. todo = <<>>
  <2> SUFFICES ASSUME todo # <<>> PROVE FALSE
    OBVIOUS
  <2>1. todo[1] = "pause"
    BY DEF Errs, Paused
  <2>2. /\ Len(raw) + 1 \in 1 .. Len(Whole) /\ Whole[Len(raw) + 1] = todo[1]
    BY <1>4, ConcatAt DEF Whole
  <2>3. PageOf(b, e)[Len(raw) + 1] = "pause" /\ Len(raw) + 1 \in 1 .. Len(PageOf(b, e))
    BY <1>3, <2>1, <2>2 DEF Prefix
  <2> QED BY <2>3, PagesSpeak
<1>6. Whole = raw
  BY <1>4, <1>5 DEF Whole
<1>7. ~HttpComplete(raw)
  BY DEF PageFlow
<1> QED BY <1>3, <1>4, <1>6, <1>7, WholeIsComplete

LEMMA NeverStallsInductive == Stage /\ PageFlow /\ NeverStalls /\ [Next]_vars => NeverStalls'
<1> SUFFICES ASSUME Stage, Stage', PageFlow, NeverStalls, [Next]_vars PROVE NeverStalls'
  BY StageInductive
<1>1. CASE PageErrs
  BY <1>1, ErrsOnPage DEF PageErrs, Errs, Returns, NeverStalls
<1>2. CASE RibclErrs
  BY <1>2 DEF RibclErrs, RibclReturn, Returns, NeverStalls
<1>3. CASE pc' # "idle"
  BY <1>3 DEF Stage, NeverStalls
<1>4. CASE UNCHANGED vars
  BY <1>4 DEF vars, NeverStalls
<1>5. CASE ConnectFails \/ SendFails
  BY <1>5 DEF ConnectFails, SendFails, Stage, NeverStalls
<1>6. CASE RibclClosed \/ PageClosed \/ \E n \in 1 .. Len(todo) : RibclRecv(n) \/ PageRecv(n)
  <2>1. pc' = "idle" => ended' \in {"eof", "complete", "large"}
    BY <1>6 DEF RibclClosed, PageClosed, RibclRecv, PageRecv, RibclReturn, PageDone, LoginDone,
                FrameDone, TooLarge, KeepReading, Opening, Arrives
  <2> QED BY <1>3, <2>1 DEF NeverStalls
<1> QED
  BY <1>1, <1>2, <1>3, <1>4, <1>5, <1>6
  DEF Next, Client, Receive, Call, Opening, Connected, SendProlog, SendDocument, SendGet,
      SendUnheard, Resume, LinkEnds

\* https_get never waits for more than the response says there is, for pages of
\* any size up to any limit.
THEOREM PagesNeverStall == Spec => []NeverStalls
<1>1. Init => Stage
  BY DEF Init, Stage, Pages
<1>2. Init => PageFlow /\ NeverStalls
  BY DEF Init, PageFlow, NeverStalls
<1> QED
  BY <1>1, <1>2, StageInductive, PageFlowInductive, NeverStallsInductive, PTL DEF Spec

\* Only one body has info0 in it.
LEMMA InfoBody ==
  ASSUME NEW b \in Bodies("frame"), NEW i \in 1 .. Len(b), b[i] = "info0"
  PROVE  b = <<"info0", "infod">>
<1>1. b \in {<<"text">>, [k \in 1 .. MaxRaw |-> "text"], <<"info0", "infod">>}
  BY DEF Bodies
<1>2. MaxRaw \in Nat
  BY MaxRawAssumption
<1>3. b # <<"text">>
  OBVIOUS
<1>4. b # [k \in 1 .. MaxRaw |-> "text"]
  BY <1>2
<1> QED BY <1>1, <1>3, <1>4

\* fetch_console_params takes a page with info0 only with the rest of it.
LEMMA FrameWhole ==
  ASSUME NEW b \in Bodies("frame"), NEW e \in Ends(promise.framing),
         promise \in Promises(b), NEW r \in Seq(Piece), Prefix(r, PageOf(b, e)),
         HttpAccepted(r), "info0" \in Scraped(r),
         HttpComplete(r) \/ promise.framing = "chunked" \/ Len(r) = Len(PageOf(b, e))
  PROVE  Scraped(r) = Infos
<1> DEFINE w == PageOf(b, e)  t == AfterHead(r)
<1>1. b \in Seq(Piece) /\ e \in Seq(Piece)
  BY PageTypes
<1>2. /\ Len(w) = 2 + Len(b) + Len(e) /\ w[1] = "line" /\ w[2] = "head"
      /\ \A i \in 1 .. Len(b) : w[2 + i] = b[i]
      /\ \A i \in 1 .. Len(e) : w[2 + Len(b) + i] = e[i]
  BY <1>1, PageShape
<1>3. Len(r) <= Len(w) /\ \A i \in 1 .. Len(r) : r[i] = w[i]
  BY DEF Prefix
<1> HIDE DEF w
<1>4. PICK j \in 1 .. Len(HttpBody(r)) : HttpBody(r)[j] = "info0"
  BY DEF Scraped, Holds
<1>5. Len(r) > 2
  <2> SUFFICES ASSUME ~(Len(r) > 2) PROVE FALSE
    OBVIOUS
  <2>1. t = <<>>
    BY SubSeqEmpty DEF AfterHead
  <2>2. promise.length \in Nat
    BY <1>1 DEF Promises
  <2>3. Len(HttpBody(r)) = 0
    BY <2>1, <2>2 DEF HttpBody
  <2> QED BY <1>4, <2>3
<1>6. /\ t \in Seq(Piece) /\ Len(t) = Len(r) - 2
      /\ \A i \in 1 .. Len(r) - 2 : t[i] = r[2 + i]
  BY <1>5, AfterHeadAt
<1> HIDE DEF t
<1>7. promise.length = Len(b) /\ promise.framing \in {"chunked", "length", "none"}
  BY DEF Promises
<1>8. /\ HttpBody(r) \in Seq(Piece) /\ Len(HttpBody(r)) <= Len(t)
      /\ \A i \in 1 .. Len(HttpBody(r)) : HttpBody(r)[i] = t[i]
      /\ Len(HttpBody(r)) >= Len(b) \/ Len(HttpBody(r)) = Len(t)
  <2>1. CASE promise.framing = "length" /\ Len(t) > promise.length
    <3>1. HttpBody(r) = SubSeq(t, 1, Len(b))
      BY <1>7, <2>1 DEF HttpBody, t
    <3> QED BY <1>1, <1>6, <1>7, <2>1, <3>1
  <2>2. CASE ~(promise.framing = "length" /\ Len(t) > promise.length)
    <3>1. HttpBody(r) = t
      BY <2>2 DEF HttpBody, t
    <3> QED BY <1>6, <3>1
  <2> QED BY <2>1, <2>2
<1>9. ASSUME NEW i \in 1 .. Len(t) PROVE t[i] = w[2 + i]
  <2>1. i \in 1 .. Len(r) - 2 /\ 2 + i \in 1 .. Len(r)
    BY <1>5, <1>6
  <2> QED BY <1>3, <1>6, <2>1
<1>10. e \in {<<"last">>, <<>>, <<"text">>}
  BY DEF Ends
<1>11. j \in 1 .. Len(b) /\ b[j] = "info0"
  <2>1. j \in 1 .. Len(t) /\ w[2 + j] = "info0"
    BY <1>4, <1>6, <1>8, <1>9
  <2>2. CASE j > Len(b)
    <3>1. j - Len(b) \in 1 .. Len(e) /\ 2 + Len(b) + (j - Len(b)) = 2 + j
      BY <1>1, <1>2, <1>3, <1>6, <2>1, <2>2
    <3>2. e[j - Len(b)] = "info0"
      BY <1>2, <2>1, <3>1
    <3> QED BY <1>10, <3>1, <3>2
  <2> QED BY <1>1, <1>2, <2>1, <2>2
<1>12. b = <<"info0", "infod">>
  BY <1>11, InfoBody
<1>13. Len(b) = 2 /\ b[1] = "info0" /\ b[2] = "infod"
  BY <1>12
<1>14. HasHead(r)
  <2>1. r[2] = "head"
    BY <1>2, <1>3, <1>5
  <2> QED BY <1>5, <2>1 DEF HasHead, Holds
<1>15. Len(t) >= 2
  <2>1. CASE promise.framing = "chunked"
    <3>1. PICK i \in 1 .. Len(t) : t[i] = "last"
      BY <1>14, <2>1 DEF HttpAccepted, Dechunk, Holds, t
    <3>2. w[2 + i] = "last"
      BY <1>9, <3>1
    <3>3. i \notin 1 .. 2
      <4>1. w[2 + 1] = "info0" /\ w[2 + 2] = "infod"
        BY <1>2, <1>13
      <4> QED BY <3>2, <4>1
    <3> QED BY <1>6, <3>1, <3>3
  <2>2. CASE HttpComplete(r) /\ promise.framing # "chunked"
    BY <1>7, <1>13, <2>2 DEF HttpComplete, t
  <2>3. CASE Len(r) = Len(PageOf(b, e))
    <3>1. Len(r) = Len(w)
      BY <2>3 DEF w
    <3>2. Len(t) = 2 + Len(b) + Len(e) - 2 /\ Len(e) \in Nat
      BY <1>1, <1>2, <1>6, <3>1
    <3> QED BY <1>13, <3>2
  <2> QED BY <2>1, <2>2, <2>3
<1>16. Len(HttpBody(r)) >= 2
  BY <1>8, <1>13, <1>15
<1>17. HttpBody(r)[1] = "info0" /\ HttpBody(r)[2] = "infod"
  <2>1. w[2 + 1] = b[1] /\ w[2 + 2] = b[2]
    BY <1>2, <1>13
  <2>2. t[1] = "info0" /\ t[2] = "infod"
    <3>1. 1 \in 1 .. Len(t) /\ 2 \in 1 .. Len(t)
      BY <1>6, <1>15
    <3>2. t[1] = w[2 + 1] /\ t[2] = w[2 + 2]
      BY <1>9, <3>1
    <3> QED BY <1>13, <2>1, <3>2
  <2> QED BY <1>8, <1>16, <2>2
<1> QED BY <1>8, <1>16, <1>17 DEF Scraped, Infos, Holds

\* An answer to the second request that is accepted has all the parameters.
LEMMA FrameAcquires ==
  ASSUME Stage, PageFlow, pc = "receive", NEW r \in Seq(Piece), NEW how,
         Prefix(r, Whole), HttpComplete(r) \/ (r = raw /\ todo = <<>>),
         FrameDone(r, how)
  PROVE  AcquiredWhole'
<1> SUFFICES ASSUME outcome' = "acquired", cut' => promise'.framing = "chunked"
             PROVE  cookie' /\ params' = Infos
  BY DEF AcquiredWhole
<1>1. job = "frame" /\ cookie' = cookie /\ cookie /\ promise' = promise /\ cut' = cut
  BY DEF FrameDone, Returns, Stage
<1>2. /\ HttpAccepted(r) /\ params' = Scraped(r) /\ "info0" \in Scraped(r)
  BY DEF FrameDone, Returns
<1>3. raw \in Seq(Piece) /\ todo \in Seq(Piece) /\ Whole \in Seq(Piece)
  BY DEF Stage, Whole
<1>4. Len(r) > 0
  BY <1>2 DEF HttpAccepted
<1>5. PageAnswer
  <2>1. ~(raw = <<>> /\ todo = <<>>)
    <3>1. Len(Whole) > 0
      BY <1>3, <1>4 DEF Prefix
    <3> QED BY <1>3, <3>1 DEF Whole
  <2> QED BY <1>1, <2>1 DEF PageFlow, Pages
<1>6. PICK b \in Bodies(job) : \E e \in Ends(promise.framing) :
        /\ promise \in Promises(b) /\ Prefix(Whole, PageOf(b, e))
        /\ ~cut => Len(Whole) = Len(PageOf(b, e))
  BY <1>5 DEF PageAnswer
<1>7. PICK e \in Ends(promise.framing) :
        /\ promise \in Promises(b) /\ Prefix(Whole, PageOf(b, e))
        /\ ~cut => Len(Whole) = Len(PageOf(b, e))
  BY <1>6
<1>8. PageOf(b, e) \in Seq(Piece)
  BY PageTypes, PageShape
<1>9. Prefix(r, PageOf(b, e))
  BY <1>3, <1>7, <1>8, PrefixTransitive
<1>10. HttpComplete(r) \/ promise.framing = "chunked" \/ Len(r) = Len(PageOf(b, e))
  <2>1. CASE r = raw /\ todo = <<>> /\ ~cut
    <3>1. Whole = r
      BY <1>3, <2>1 DEF Whole
    <3> QED BY <1>7, <2>1, <3>1
  <2> QED BY <1>1, <2>1
<1>11. b \in Bodies("frame")
  BY <1>1
<1>12. Scraped(r) = Infos
  BY <1>2, <1>7, <1>9, <1>10, <1>11, FrameWhole
<1> QED BY <1>1, <1>2, <1>12

LEMMA AcquiredInductive ==
  Stage /\ PageFlow /\ AcquiredWhole /\ [Next]_vars => AcquiredWhole'
<1> SUFFICES ASSUME Stage, Stage', PageFlow, AcquiredWhole, [Next]_vars PROVE AcquiredWhole'
  BY StageInductive
<1>1. CASE pc' # "idle"
  BY <1>1 DEF Stage, AcquiredWhole
<1>2. CASE outcome' # "acquired"
  BY <1>2 DEF AcquiredWhole
<1>3. CASE UNCHANGED vars
  BY <1>3 DEF vars, AcquiredWhole
<1>4. ASSUME NEW n \in 1 .. Len(todo), RibclRecv(n) \/ PageRecv(n) PROVE AcquiredWhole'
  <2>1. pc = "receive" /\ Got(n) \in Seq(Piece) /\ Prefix(Got(n), Whole)
    BY <1>4, GotWhole DEF RibclRecv, PageRecv, Arrives
  <2>2. CASE HttpComplete(Got(n)) /\ FrameDone(Got(n), "complete")
    BY <2>1, <2>2, FrameAcquires
  <2>3. CASE KeepReading(n)
    BY <1>1, <2>1, <2>3 DEF KeepReading
  <2>4. CASE TooLarge(n) \/ RibclReturn(Got(n), "complete") \/ LoginDone(Got(n), "complete")
    BY <1>1, <1>2, <2>4 DEF TooLarge, RibclReturn, LoginDone, Returns, Opening
  <2> QED BY <1>4, <2>2, <2>3, <2>4 DEF RibclRecv, PageRecv, PageDone
<1>5. CASE PageClosed
  <2>1. pc = "receive" /\ raw \in Seq(Piece) /\ todo = <<>>
    BY <1>5 DEF PageClosed, Closed, Stage
  <2>2. Prefix(raw, Whole)
    BY <2>1 DEF Prefix, Whole
  <2>3. CASE FrameDone(raw, "eof")
    BY <2>1, <2>2, <2>3, FrameAcquires
  <2>4. CASE LoginDone(raw, "eof")
    BY <1>1, <1>2, <2>4 DEF LoginDone, Returns, Opening
  <2> QED BY <1>5, <2>3, <2>4 DEF PageClosed, PageDone
<1>6. CASE RibclClosed \/ RibclErrs \/ PageErrs \/ ConnectFails \/ SendFails
  BY <1>2, <1>6 DEF RibclClosed, RibclErrs, RibclReturn, PageErrs, ConnectFails, SendFails,
                    Returns
<1> QED
  BY <1>1, <1>3, <1>4, <1>5, <1>6
  DEF Next, Client, Receive, Call, Opening, Connected, SendProlog, SendDocument, SendGet,
      SendUnheard, Resume, LinkEnds

\* A console session is acquired with all its parameters or not at all, wherever
\* the pages are cut into records and wherever the connection ends.
THEOREM AcquiredWithEverything == Spec => []AcquiredWhole
<1>1. Init => Stage
  BY DEF Init, Stage, Pages
<1>2. Init => PageFlow /\ AcquiredWhole
  BY DEF Init, PageFlow, AcquiredWhole
<1> QED
  BY <1>1, <1>2, StageInductive, PageFlowInductive, AcquiredInductive, PTL DEF Spec

-----------------------------------------------------------------------------
(***************************************************************************)
(* Replies.                                                                *)
(***************************************************************************)

\* What answers the document itself, by place.
LEMMA AnswerShape ==
  ASSUME NEW c, NEW q \in Answers(c)
  PROVE  /\ q \in Seq(Piece)
         /\ \/ Len(q) = 1 /\ q[1] = "err"
            \/ Len(q) = 1 /\ q[1] = "done" /\ IsWrite(c)
            \/ ~IsWrite(c) /\ Len(q) = 3 /\ q[1] = "marker" /\ q[2] = "value" /\ q[3] = "ok"
            \/ ~IsWrite(c) /\ Len(q) = 3 /\ q[1] = "value" /\ q[2] = "marker" /\ q[3] = "ok"
            \/ ~IsWrite(c) /\ Len(q) = 2 /\ q[1] = "value" /\ q[2] = "ok"
<1>1. CASE q = <<"err">>
  BY <1>1, PieceNames
<1>2. CASE q # <<"err">> /\ IsWrite(c)
  <2>1. q = <<"done">>
    BY <1>2 DEF Answers, Result
  <2> QED BY <1>2, <2>1, PieceNames
<1>3. CASE q # <<"err">> /\ ~IsWrite(c)
  <2> DEFINE k == <<"ok">>  x == Element(c)
  <2>1. k \in Seq(Piece) /\ Len(k) = 1 /\ k[1] = "ok"
    BY PieceNames
  <2>2. q = x \o k
    BY <1>3 DEF Answers, Result
  <2>3. x \in {<<"marker", "value">>, <<"value", "marker">>, <<"value">>}
    BY DEF Element
  <2>4. /\ x \in Seq(Piece)
        /\ \/ Len(x) = 2 /\ x[1] = "marker" /\ x[2] = "value"
           \/ Len(x) = 2 /\ x[1] = "value" /\ x[2] = "marker"
           \/ Len(x) = 1 /\ x[1] = "value"
    <3> HIDE DEF x
    <3>1. CASE x = <<"marker", "value">>
      BY <3>1, PieceNames
    <3>2. CASE x = <<"value", "marker">>
      BY <3>2, PieceNames
    <3>3. CASE x = <<"value">>
      BY <3>3, PieceNames
    <3> QED BY <2>3, <3>1, <3>2, <3>3
  <2> HIDE DEF k, x
  <2>5. /\ q \in Seq(Piece) /\ Len(q) = Len(x) + 1
        /\ \A i \in 1 .. Len(x) : q[i] = x[i]
        /\ \A i \in 1 .. 1 : q[Len(x) + i] = k[i]
    <3>1. /\ x \o k \in Seq(Piece) /\ Len(x \o k) = Len(x) + Len(k)
          /\ \A i \in 1 .. Len(x) : (x \o k)[i] = x[i]
          /\ \A i \in 1 .. Len(k) : (x \o k)[Len(x) + i] = k[i]
      BY <2>1, <2>4, ConcatAt
    <3> QED BY <2>1, <2>2, <3>1
  <2>6. q[Len(x) + 1] = "ok"
    BY <2>1, <2>5
  <2>7. CASE Len(x) = 1
    <3>1. 1 \in 1 .. Len(x) /\ Len(x) + 1 = 2
      BY <2>7
    <3> QED BY <1>3, <2>4, <2>5, <2>6, <2>7, <3>1
  <2>8. CASE Len(x) = 2
    <3>1. 1 \in 1 .. Len(x) /\ 2 \in 1 .. Len(x) /\ Len(x) + 1 = 3
      BY <2>8
    <3>2. q[1] = x[1] /\ q[2] = x[2] /\ q[3] = "ok" /\ Len(q) = 3
      BY <2>5, <2>6, <3>1
    <3> QED BY <1>3, <2>4, <2>5, <2>8, <3>2
  <2> QED BY <2>4, <2>7, <2>8
<1> QED BY <1>1, <1>2, <1>3

\* Two ok documents are in every reply: the firmware answers the prolog first.
LEMMA ReplyShape ==
  ASSUME NEW c, NEW r \in Replies(c)
  PROVE  IsReply(c, <<"ok">> \o r)
<1> DEFINE k == <<"ok">>  w == k \o r
<1>1. k \in Seq(Piece) /\ Len(k) = 1 /\ k[1] = "ok"
  BY PieceNames
<1> HIDE DEF k
<1>2. r \in Seq(Piece)
  BY ReplyTypes
<1>3. /\ Len(w) = 1 + Len(r) /\ w[1] = "ok"
      /\ \A i \in 1 .. Len(r) : w[1 + i] = r[i]
  <2>1. /\ Len(k \o r) = Len(k) + Len(r)
        /\ \A i \in 1 .. Len(k) : (k \o r)[i] = k[i]
        /\ \A i \in 1 .. Len(r) : (k \o r)[Len(k) + i] = r[i]
    BY <1>1, <1>2, ConcatAt
  <2>2. 1 \in 1 .. Len(k)
    BY <1>1
  <2> QED BY <1>1, <2>1, <2>2
<1> HIDE DEF w
<1>4. CASE r = Flood
  <2>1. MaxRaw \in Nat
    BY MaxRawAssumption
  <2>2. Len(r) = MaxRaw + 1 /\ \A i \in 1 .. MaxRaw + 1 : r[i] = "ok"
    BY <1>4, FloodType DEF Flood
  <2>3. ASSUME NEW i \in 1 .. MaxRaw + 2 PROVE w[i] = "ok"
    <3>1. CASE i = 1
      BY <1>3, <3>1
    <3>2. CASE i # 1
      <4>1. i - 1 \in 1 .. MaxRaw + 1 /\ 1 + (i - 1) = i
        BY <2>1, <3>2
      <4> QED BY <1>3, <2>2, <4>1
    <3> QED BY <3>1, <3>2
  <2>4. Len(w) = MaxRaw + 2
    BY <1>3, <2>1, <2>2
  <2>5. Flooded(w)
    BY <2>3, <2>4 DEF Flooded
  <2> QED BY <2>5 DEF IsReply, w, k
<1>5. CASE r # Flood
  <2>1. PICK s \in Stages(c), q \in Answers(c) : r = s \o q
    BY <1>5 DEF Replies, Answers
  <2>2. q \in Seq(Piece) /\ Len(q) \in Nat
    BY AnswerShape
  <2>3. s = <<"ok">> \/ (s = <<"ok", "pause">> /\ IsMedia(c))
    BY DEF Stages
  <2> DEFINE l == Len(s)  m == Len(q)
  <2>4. /\ s \in Seq(Piece) /\ s[1] = "ok"
        /\ l = 1 \/ (l = 2 /\ s[2] = "pause" /\ IsMedia(c))
    <3>1. CASE s = <<"ok">>
      BY <3>1, PieceNames
    <3>2. CASE s = <<"ok", "pause">> /\ IsMedia(c)
      BY <3>2, PieceNames
    <3> QED BY <2>3, <3>1, <3>2
  <2>5. /\ Len(r) = l + m
        /\ \A i \in 1 .. l : r[i] = s[i]
        /\ \A i \in 1 .. m : r[l + i] = q[i]
    <3>1. /\ Len(s \o q) = Len(s) + Len(q)
          /\ \A i \in 1 .. Len(s) : (s \o q)[i] = s[i]
          /\ \A i \in 1 .. Len(q) : (s \o q)[Len(s) + i] = q[i]
      BY <2>2, <2>4, ConcatAt
    <3> QED BY <2>1, <3>1
  <2>6. m \in Nat
    BY <2>2
  <2> DEFINE d == 1 + l  n == Len(r)
  <2> HIDE DEF l, m, n
  <2>7. Len(w) = 1 + n /\ n = l + m /\ \A i \in 1 .. n : w[1 + i] = r[i]
    BY <1>3, <2>5 DEF n
  <2>8. d \in {2, 3} /\ Len(w) = d + m
    BY <2>4, <2>6, <2>7
  <2>9. \A i \in 1 .. l : w[1 + i] = s[i]
    <3>1. \A i \in 1 .. l : i \in 1 .. n
      BY <2>4, <2>6, <2>7
    <3> QED BY <2>5, <2>7, <3>1
  <2>10. w[2] = "ok" /\ (d = 3 => w[3] = "pause" /\ IsMedia(c))
    <3>1. 1 \in 1 .. l /\ (d = 3 => 2 \in 1 .. l)
      BY <2>4
    <3>2. w[1 + 1] = s[1] /\ (d = 3 => w[1 + 2] = s[2])
      BY <2>9, <3>1
    <3>3. d = 3 => l = 2
      BY <2>4
    <3> QED BY <2>4, <3>2, <3>3
  <2>11. ASSUME NEW i \in 1 .. m PROVE w[d + i] = q[i]
    <3>1. l + i \in 1 .. n /\ 1 + (l + i) = d + i
      BY <2>4, <2>6, <2>7
    <3> QED BY <2>5, <2>7, <3>1
  <2>12. Answered(c, w, d, q)
    BY <1>3, <2>8, <2>10, <2>11 DEF Answered, m
  <2> QED BY <2>8, <2>12 DEF IsReply, w, k
<1> QED BY <1>4, <1>5

\* Only a virtual media write has a silence in its reply, and once it is over the rest
\* of the reply is the reply without it.
LEMMA PauseOver ==
  ASSUME NEW c, NEW x \in Seq(Piece), NEW y \in Seq(Piece), IsReply(c, x \o y),
         y # <<>>, Head(y) = "pause"
  PROVE  IsReply(c, x \o Tail(y)) /\ IsMedia(c)
<1> DEFINE w == x \o y  z == Tail(y)  v == x \o z  l == Len(x)  m == Len(y)
<1>1. /\ z \in Seq(Piece) /\ Len(z) = m - 1 /\ \A i \in 1 .. m - 1 : z[i] = y[1 + i]
  <2>1. Len(z) = m - 1 /\ z \in Seq(Piece)
    OBVIOUS
  <2>2. ASSUME NEW i \in 1 .. m - 1 PROVE z[i] = y[i + 1]
    OBVIOUS
  <2>3. \A i \in 1 .. m - 1 : i + 1 = 1 + i
    OBVIOUS
  <2> QED BY <2>1, <2>2, <2>3
<1>2. m \in Nat \ {0} /\ l \in Nat /\ y[1] = "pause"
  OBVIOUS
<1>3. /\ Len(w) = l + m /\ \A i \in 1 .. l : w[i] = x[i]
      /\ \A i \in 1 .. m : w[l + i] = y[i]
  BY ConcatAt
<1> HIDE DEF z
<1>4. /\ Len(v) = l + (m - 1) /\ \A i \in 1 .. l : v[i] = x[i]
      /\ \A i \in 1 .. m - 1 : v[l + i] = z[i]
  <2>1. /\ Len(x \o z) = Len(x) + Len(z) /\ \A i \in 1 .. Len(x) : (x \o z)[i] = x[i]
        /\ \A i \in 1 .. Len(z) : (x \o z)[Len(x) + i] = z[i]
    BY <1>1, ConcatAt
  <2> QED BY <1>1, <2>1
<1>5. IsReply(c, w)
  OBVIOUS
<1> HIDE DEF w, v, l, m
<1>6. w[l + 1] = "pause" /\ l + 1 \in 1 .. Len(w)
  <2>1. 1 \in 1 .. m
    BY <1>2
  <2> QED BY <1>2, <1>3, <2>1
<1>7. ~Flooded(w)
  BY <1>6 DEF Flooded
<1>8. PICK d \in {2, 3}, q \in Answers(c) : Answered(c, w, d, q)
  BY <1>5, <1>7 DEF IsReply
<1>9. Len(q) \in 1 .. 3 /\ \A i \in 1 .. Len(q) : q[i] # "pause"
  <2>1. \/ Len(q) = 1 /\ q[1] # "pause"
        \/ Len(q) = 2 /\ q[1] # "pause" /\ q[2] # "pause"
        \/ Len(q) = 3 /\ q[1] # "pause" /\ q[2] # "pause" /\ q[3] # "pause"
    BY AnswerShape
  <2>2. \A i \in 1 .. 1 : i = 1
    OBVIOUS
  <2>3. \A i \in 1 .. 2 : i = 1 \/ i = 2
    OBVIOUS
  <2>4. \A i \in 1 .. 3 : i = 1 \/ i = 2 \/ i = 3
    OBVIOUS
  <2> QED BY <2>1, <2>2, <2>3, <2>4
<1> DEFINE a == Len(q)
<1>10. a \in 1 .. 3 /\ Len(w) = d + a /\ \A i \in 1 .. a : w[d + i] = q[i] /\ q[i] # "pause"
  BY <1>8, <1>9 DEF Answered
<1> HIDE DEF a
<1>11. l = 2 /\ d = 3
  <2>1. l + 1 # 1 /\ l + 1 # 2
    BY <1>6, <1>8 DEF Answered
  <2>2. ~(l + 1 > d)
    <3> SUFFICES ASSUME l + 1 > d PROVE FALSE
      OBVIOUS
    <3>1. l + 1 - d \in 1 .. a /\ d + (l + 1 - d) = l + 1
      BY <1>2, <1>6, <1>10
    <3> QED BY <1>6, <1>10, <3>1
  <2> QED BY <1>2, <2>1, <2>2
<1>12. Len(v) = 2 + a /\ v[1] = "ok" /\ v[2] = "ok"
  <2>1. Len(v) = 2 + a
    BY <1>2, <1>3, <1>4, <1>10, <1>11
  <2>2. 1 \in 1 .. l /\ 2 \in 1 .. l
    BY <1>11
  <2> QED BY <1>3, <1>4, <1>8, <2>1, <2>2 DEF Answered
<1>13. ASSUME NEW i \in 1 .. a PROVE v[2 + i] = q[i]
  <2>1. i \in 1 .. m - 1 /\ 1 + i \in 1 .. m
    BY <1>2, <1>3, <1>10, <1>11
  <2>2. v[2 + i] = y[1 + i]
    BY <1>1, <1>4, <1>11, <2>1
  <2>3. w[2 + (1 + i)] = y[1 + i]
    BY <1>3, <1>11, <2>1
  <2>4. 2 + (1 + i) = 3 + i
    BY <1>10
  <2> QED BY <1>10, <1>11, <2>2, <2>3, <2>4
<1>14. Answered(c, v, 2, q)
  BY <1>12, <1>13 DEF Answered, a
<1>15. IsMedia(c)
  BY <1>8, <1>11 DEF Answered
<1> QED BY <1>14, <1>15 DEF IsReply, v, z

LEMMA ReplyFlowInductive == Stage /\ ReplyFlow /\ [Next]_vars => ReplyFlow'
<1> SUFFICES ASSUME Stage, ReplyFlow, [Next]_vars,
                    pc' = "receive", job' \notin Pages, ~cut'
             PROVE  Len(raw') <= MaxRaw /\ IsReply(job', Whole')
  BY DEF ReplyFlow
<1>1. raw \in Seq(Piece) /\ todo \in Seq(Piece) /\ job \in Commands \cup Pages
  BY DEF Stage
<1>2. CASE UNCHANGED vars
  BY <1>2 DEF vars, ReplyFlow, Whole
<1>3. CASE SendDocument
  <2>1. raw = <<>> /\ raw' = raw /\ todo = <<"ok">> /\ job' = job
    BY <1>3 DEF SendDocument, Stage
  <2>2. PICK r \in Replies(job) : todo' = <<"ok">> \o r
    BY <1>3, <2>1 DEF SendDocument
  <2>3. <<"ok">> \o r \in Seq(Piece)
    BY <1>1, <2>1, ReplyTypes
  <2>4. Whole' = <<"ok">> \o r
    BY <2>1, <2>2, <2>3 DEF Whole
  <2>5. Len(raw') <= MaxRaw
    BY <2>1, MaxRawAssumption
  <2> QED BY <2>1, <2>4, <2>5, ReplyShape
<1>4. CASE SendUnheard
  BY <1>4 DEF SendUnheard, Stage, iLO
<1>5. ASSUME NEW n \in 1 .. Len(todo), RibclRecv(n) \/ PageRecv(n)
      PROVE  Len(raw') <= MaxRaw /\ IsReply(job', Whole')
  <2>1. job' = job /\ KeepReading(n) /\ Len(Got(n)) <= MaxRaw /\ job \notin Pages
    BY <1>5 DEF RibclRecv, PageRecv, KeepReading, TooLarge, RibclReturn, PageDone, LoginDone,
                FrameDone, Returns, Opening, Pages
  <2>2. Whole' = Whole
    BY <2>1, GotWhole DEF KeepReading, Whole
  <2> QED BY <1>5, <2>1, <2>2 DEF KeepReading, ReplyFlow, RibclRecv, PageRecv, Arrives
<1>6. CASE Resume
  <2>1. /\ raw' = raw /\ job' = job /\ todo' = Tail(todo) /\ todo # <<>> /\ Head(todo) = "pause"
        /\ Len(raw) <= MaxRaw /\ IsReply(job, raw \o todo)
    BY <1>6 DEF Resume, Paused, ReplyFlow, Whole
  <2>2. IsReply(job, raw \o Tail(todo))
    BY <1>1, <2>1, PauseOver
  <2> QED BY <2>1, <2>2 DEF Whole
<1>7. CASE LinkEnds
  <2>1. PICK k \in 0 .. Len(todo) : todo' = SubSeq(todo, 1, k) /\ cut' = (k < Len(todo) \/ pc # "receive")
    BY <1>7 DEF LinkEnds
  <2>2. ~(k < Len(todo)) /\ pc = "receive" /\ raw' = raw /\ job' = job /\ ~cut
    BY <1>7, <2>1 DEF LinkEnds, Stage
  <2>3. k = Len(todo)
    BY <1>1, <2>2
  <2>4. todo' = todo
    BY <1>1, <2>1, <2>3
  <2> QED BY <2>2, <2>4 DEF ReplyFlow, Whole
<1>8. ~RibclClosed /\ ~RibclErrs /\ ~PageErrs /\ ~ConnectFails /\ ~SendFails /\ ~SendGet
  BY DEF RibclClosed, RibclErrs, RibclReturn, PageErrs, ConnectFails, SendFails, SendGet,
         Returns
<1>9. ~PageClosed
  BY DEF PageClosed, PageDone, LoginDone, FrameDone, Returns, Opening
<1>10. ~Connected /\ ~SendProlog /\ \A j : ~Call(j)
  BY DEF Connected, SendProlog, Call, Opening
<1> QED
  BY <1>2, <1>3, <1>4, <1>5, <1>6, <1>7, <1>8, <1>9, <1>10 DEF Next, Client, Receive

\* What the end of a reply tells of its start: an ok reply that was taken whole, or up
\* to its marker, has the result in it.
LEMMA ReplyTaken ==
  ASSUME NEW c, NEW w \in Seq(Piece), NEW r \in Seq(Piece), IsReply(c, w), Prefix(r, w),
         ReplyOk(r), ReplyComplete(r) \/ (r = w /\ Len(r) <= MaxRaw)
  PROVE  IF IsWrite(c) THEN Holds(r, "done") ELSE ValueParsed(r) \/ r[Len(r)] = "marker"
<1> DEFINE l == Len(r)
<1>1. l \in Nat /\ l <= Len(w) /\ \A i \in 1 .. l : r[i] = w[i]
  BY DEF Prefix
<1>2. ~Flooded(w)
  <2> SUFFICES ASSUME Flooded(w) PROVE FALSE
    OBVIOUS
  <2>1. MaxRaw \in Nat /\ Len(w) = MaxRaw + 2 /\ \A i \in 1 .. MaxRaw + 2 : w[i] = "ok"
    BY MaxRawAssumption DEF Flooded
  <2>2. ~(r = w /\ Len(r) <= MaxRaw)
    BY <2>1
  <2>3. PICK i \in 1 .. l : r[i] = "marker"
    BY <2>2 DEF ReplyComplete, Holds
  <2> HIDE DEF l
  <2>4. i \in 1 .. MaxRaw + 2
    BY <1>1, <2>1
  <2> QED BY <1>1, <2>1, <2>3, <2>4
<1>3. PICK d \in {2, 3}, q \in Answers(c) : Answered(c, w, d, q)
  BY <1>2 DEF IsReply
<1> DEFINE a == Len(q)
<1>4. a \in 1 .. 3
  BY AnswerShape
<1>5. Len(w) = d + a /\ \A i \in 1 .. a : w[d + i] = q[i]
  BY <1>3 DEF Answered
<1>6. \A i \in 1 .. d : w[i] # "marker"
  <2>1. d = 2 => \A i \in 1 .. d : i = 1 \/ i = 2
    OBVIOUS
  <2>2. d = 3 => \A i \in 1 .. d : i = 1 \/ i = 2 \/ i = 3
    OBVIOUS
  <2> QED BY <1>3, <2>1, <2>2 DEF Answered
<1>7. l = d + a \/ \E j \in 1 .. a : q[j] = "marker" /\ d + j <= l
  <2>1. CASE r = w
    BY <1>5, <2>1
  <2>2. CASE r # w
    <3>1. PICK i \in 1 .. l : r[i] = "marker"
      BY <2>2 DEF ReplyComplete, Holds
    <3> HIDE DEF l, a
    <3>2. i \in 1 .. d + a /\ w[i] = "marker"
      BY <1>1, <1>4, <1>5, <3>1
    <3>3. ~(i <= d)
      BY <1>6, <3>2
    <3>4. i - d \in 1 .. a /\ d + (i - d) = i
      BY <1>4, <3>2, <3>3
    <3>5. q[i - d] = "marker"
      BY <1>5, <3>2, <3>4
    <3>6. d + (i - d) <= l
      BY <1>1, <3>4
    <3> QED BY <3>4, <3>5, <3>6
  <2> QED BY <2>1, <2>2
<1>8. ASSUME NEW j \in 1 .. a, d + j <= l PROVE d + j \in 1 .. l /\ r[d + j] = q[j]
  <2> HIDE DEF l, a
  <2>1. d + j \in 1 .. l
    BY <1>1, <1>4, <1>8
  <2> QED BY <1>1, <1>5, <2>1
<1>9. ASSUME NEW x, NEW j \in 1 .. a, q[j] = x, d + j <= l PROVE Holds(r, x)
  BY <1>8, <1>9 DEF Holds
<1>10. (\A j \in 1 .. a : d + j <= l => d + 1 <= l) /\ (l = d + a => d + 1 <= l)
  <2> HIDE DEF l, a
  <2> QED BY <1>1, <1>4
<1> HIDE DEF l
<1>11. CASE a = 1 /\ q[1] = "err"
  <2>1. \A j \in 1 .. a : j = 1
    BY <1>11
  <2>2. l = d + a
    BY <1>7, <1>11, <2>1
  <2>3. 1 \in 1 .. a /\ d + 1 <= l
    BY <1>11, <2>2
  <2> QED BY <1>9, <1>11, <2>3 DEF ReplyOk
<1>12. CASE a = 1 /\ q[1] = "done" /\ IsWrite(c)
  <2>1. \A j \in 1 .. a : j = 1
    BY <1>12
  <2>2. l = d + a
    BY <1>7, <1>12, <2>1
  <2>3. 1 \in 1 .. a /\ d + 1 <= l
    BY <1>12, <2>2
  <2> QED BY <1>9, <1>12, <2>3
<1>13. CASE ~IsWrite(c) /\ a \in {2, 3} /\ q[1] = "value"
  <2>1. 1 \in 1 .. a /\ d + 1 <= l
    BY <1>4, <1>7, <1>10
  <2> QED BY <1>9, <1>13, <2>1 DEF ValueParsed
<1>14. CASE ~IsWrite(c) /\ a = 3 /\ q[1] = "marker" /\ q[2] = "value"
  <2>1. d + 1 <= l
    BY <1>7, <1>10
  <2>2. 1 \in 1 .. a /\ 2 \in 1 .. a
    BY <1>14
  <2>3. CASE d + 2 <= l
    BY <1>9, <1>14, <2>2, <2>3 DEF ValueParsed
  <2>4. CASE l = d + 1
    <3>1. r[d + 1] = "marker"
      BY <1>8, <1>14, <2>1, <2>2
    <3> QED BY <1>14, <2>4, <3>1 DEF l
  <2>5. d + 2 <= l \/ l = d + 1
    BY <1>1, <2>1
  <2> QED BY <2>3, <2>4, <2>5
<1> QED BY <1>11, <1>12, <1>13, <1>14, AnswerShape

\* A reply that is returned as a success.
LEMMA ReplyReturned ==
  ASSUME Stage, ReplyFlow, pc = "receive", job \notin Pages, NEW r \in Seq(Piece), NEW how,
         RibclReturn(r, how), Prefix(r, Whole), ReplyComplete(r) \/ (r = raw /\ todo = <<>>)
  PROVE  ReplyWhole'
<1> SUFFICES ASSUME outcome' = "ok", ~cut
             PROVE  IF IsWrite(job) THEN Holds(r, "done")
                                    ELSE ValueParsed(r) \/ r[Len(r)] = "marker"
  BY DEF RibclReturn, Returns, ReplyWhole, ValueParsed
<1>1. ReplyOk(r)
  BY DEF RibclReturn, Returns
<1>2. raw \in Seq(Piece) /\ todo \in Seq(Piece) /\ Whole \in Seq(Piece)
  BY DEF Stage, Whole
<1>3. Len(raw) <= MaxRaw /\ IsReply(job, Whole)
  BY DEF ReplyFlow
<1>4. ReplyComplete(r) \/ (r = Whole /\ Len(r) <= MaxRaw)
  <2>1. todo = <<>> => Whole = raw
    BY <1>2 DEF Whole
  <2> QED BY <1>3, <2>1
<1> QED BY <1>1, <1>2, <1>3, <1>4, ReplyTaken

LEMMA ReplyWholeInductive ==
  Stage /\ ReplyFlow /\ ReplyWhole /\ [Next]_vars => ReplyWhole'
<1> SUFFICES ASSUME Stage, Stage', ReplyFlow, ReplyWhole, [Next]_vars PROVE ReplyWhole'
  BY StageInductive
<1>1. CASE pc' # "idle"
  BY <1>1 DEF Stage, ReplyWhole
<1>2. CASE outcome' # "ok"
  BY <1>2 DEF ReplyWhole
<1>3. CASE UNCHANGED vars
  BY <1>3 DEF vars, ReplyWhole, ValueParsed
<1>4. ASSUME NEW n \in 1 .. Len(todo), RibclRecv(n) \/ PageRecv(n) PROVE ReplyWhole'
  <2>1. pc = "receive" /\ Got(n) \in Seq(Piece) /\ Prefix(Got(n), Whole)
    BY <1>4, GotWhole DEF RibclRecv, PageRecv, Arrives
  <2>2. CASE job \notin Pages /\ ReplyComplete(Got(n)) /\ RibclReturn(Got(n), "complete")
    BY <2>1, <2>2, ReplyReturned
  <2>3. CASE KeepReading(n)
    BY <1>1, <2>1, <2>3 DEF KeepReading
  <2>4. CASE TooLarge(n) \/ PageDone(Got(n), "complete")
    BY <1>1, <1>2, <2>4 DEF TooLarge, PageDone, LoginDone, FrameDone, Returns, Opening
  <2> QED BY <1>4, <2>2, <2>3, <2>4 DEF RibclRecv, PageRecv
<1>5. CASE RibclClosed \/ RibclErrs
  <2>1. pc = "receive" /\ job \notin Pages /\ raw \in Seq(Piece) /\ todo \in Seq(Piece)
    BY <1>5 DEF RibclClosed, RibclErrs, Closed, Errs, Stage
  <2>2. PICK how : RibclReturn(raw, how)
    BY <1>5 DEF RibclClosed, RibclErrs
  <2>3. Prefix(raw, Whole)
    BY <2>1 DEF Prefix, Whole
  <2>4. CASE todo = <<>>
    BY <2>1, <2>2, <2>3, <2>4, ReplyReturned
  <2>5. CASE cut
    BY <2>2, <2>5 DEF RibclReturn, Returns, ReplyWhole
  <2>6. CASE todo # <<>> /\ ~cut
    <3>1. RibclErrs /\ todo # <<>> /\ Head(todo) = "pause" /\ TimeoutMs(job) < PauseMs
      BY <1>5, <2>6 DEF RibclClosed, RibclErrs, Closed, Errs, Paused
    <3>2. IsReply(job, raw \o todo)
      BY <2>1, <2>6 DEF ReplyFlow, Whole
    <3>3. IsMedia(job)
      BY <2>1, <3>1, <3>2, PauseOver
    <3>4. TimeoutMs(job) = 5000
      BY <3>3 DEF TimeoutMs
    <3>5. ~(5000 < PauseMs)
      BY PauseAssumption
    <3> QED BY <3>1, <3>4, <3>5
  <2> QED BY <2>4, <2>5, <2>6
<1>6. CASE PageClosed \/ PageErrs \/ ConnectFails \/ SendFails
  BY <1>1, <1>2, <1>6 DEF PageClosed, PageDone, LoginDone, FrameDone, PageErrs, ConnectFails,
                    SendFails, Returns, Opening
<1> QED
  BY <1>1, <1>3, <1>4, <1>5, <1>6
  DEF Next, Client, Receive, Call, Opening, Connected, SendProlog, SendDocument, SendGet,
      SendUnheard, Resume, LinkEnds

\* A command reported as done was done and a value reported as read is all there, for
\* every limit, every cut into records and every pause within the firmware's habits.
THEOREM ReplyTakenWhole == Spec => []ReplyWhole
<1>1. Init => Stage
  BY DEF Init, Stage, Pages
<1>2. Init => ReplyFlow /\ ReplyWhole
  BY DEF Init, ReplyFlow, ReplyWhole
<1> QED
  BY <1>1, <1>2, StageInductive, ReplyFlowInductive, ReplyWholeInductive, PTL DEF Spec

-----------------------------------------------------------------------------
(***************************************************************************)
(* MediaServer.  MarkedIsRead for every image size, number of buckets,     *)
(* chunk, clock range and number of server threads.  The argument needs    *)
(* what the loops that store into map_ still have to do: a bucket that has *)
(* been read is marked or lies ahead of some reader's loop, and while      *)
(* start() clears the map every bucket still marked lies ahead of the      *)
(* worker's.  The arithmetic is that of mark_read(): the buckets from the  *)
(* first byte's to the last byte's are the ones with a byte of the read,   *)
(* because a bucket is never narrower than a byte (Size >= Buckets).       *)
(***************************************************************************)

\* x is a byte of bucket b.
ByteOf(b, x) == (b - 1) * Size <= x * Buckets /\ x * Buckets < b * Size
\* A byte of bucket b has been read since start().
HasRead(b)   == \E x \in read : ByteOf(b, x)
\* Bucket b is ahead of the loop of thread t.
InLoop(t, b) == store[t].next <= b /\ b <= store[t].last

\* A loop of either kind, under way or Idle.
LoopType == [next : 1 .. Buckets, last : 0 .. Buckets, stamp : 0 .. (Wrap - 1), when : Nat]

\* What the stores and the reads work on.
ServerTypes ==
  /\ time \in Nat \ {0} /\ serving \in {"off", "starting", "on"}
  /\ store \in [Threads -> LoopType]
  /\ map \in [1 .. Buckets -> 0 .. (Wrap - 1)] /\ when \in [1 .. Buckets -> Nat]
  /\ read \subseteq 0 .. (Size - 1)

\* A loop under way has buckets left; a reader's stores a stamp, the worker's 0.
Loops ==
  /\ \A t \in Threads : store[t] # Idle => store[t].next <= store[t].last
  /\ \A r \in Readers : store[r] # Idle => store[r].stamp # 0 /\ serving = "on"
  /\ store[Worker] # Idle =>
       store[Worker].stamp = 0 /\ store[Worker].last = Buckets /\ serving = "starting"

\* Inside start() nothing is read yet and the map is clear as far as the loop is.
Cleared ==
  serving = "starting" =>
    /\ read = {}
    /\ \A b \in 1 .. Buckets : map[b] # 0 => InLoop(Worker, b)

\* A marked bucket, and one about to be marked, has been read; one that has been
\* read is marked or about to be.
Marks ==
  serving = "on" =>
    \A b \in 1 .. Buckets :
      /\ map[b] # 0 => HasRead(b)
      /\ \A r \in Readers : InLoop(r, b) => HasRead(b)
      /\ HasRead(b) => map[b] # 0 \/ \E r \in Readers : InLoop(r, b)

\* The inductive invariant.
IInv == ServerTypes /\ Loops /\ Cleared /\ Marks

-----------------------------------------------------------------------------
\* What integer division promises, and two facts about products.
LEMMA Division ==
  ASSUME NEW a \in Nat, NEW d \in Nat \ {0}
  PROVE  a \div d \in Nat /\ (a \div d) * d <= a /\ a < ((a \div d) + 1) * d
  OBVIOUS

LEMMA MulMono ==
  ASSUME NEW a \in Nat, NEW b \in Nat, NEW k \in Nat, a <= b
  PROVE  a * k <= b * k /\ a * k \in Nat /\ b * k \in Nat
  OBVIOUS

LEMMA MulLess ==
  ASSUME NEW a \in Nat, NEW b \in Nat, NEW k \in Nat, a * k < b * k
  PROVE  a < b
<1> SUFFICES ASSUME ~(a < b) PROVE FALSE
  OBVIOUS
<1>1. b * k <= a * k /\ a * k \in Nat /\ b * k \in Nat
  BY MulMono
<1> QED BY <1>1

\* The clock's stamp is in range and never 0.
LEMMA Stamped ==
  ASSUME NEW t \in Nat
  PROVE  NowMs(t) \in 1 .. (Wrap - 1)
<1>1. t % Wrap \in 0 .. (Wrap - 1)
  BY ServerAssumption
<1> QED BY <1>1, ServerAssumption DEF NowMs

\* A byte of the image is in the bucket mark_read() computes ...
LEMMA InBucket ==
  ASSUME NEW x \in 0 .. (Size - 1)
  PROVE  /\ Bucket(x) \in 0 .. (Buckets - 1)
         /\ ByteOf(Bucket(x) + 1, x)
<1> DEFINE a == x * Buckets
           q == a \div Size
<1>1. a \in Nat /\ Size \in Nat \ {0} /\ Buckets \in Nat
  BY ServerAssumption
<1>2. q \in Nat /\ q * Size <= a /\ a < (q + 1) * Size
  BY <1>1, Division
<1>3. a < Buckets * Size
  <2>1. x + 1 <= Size /\ x + 1 \in Nat
    BY <1>1
  <2>2. (x + 1) * Buckets <= Size * Buckets
    BY <2>1, <1>1, MulMono
  <2>3. (x + 1) * Buckets = a + Buckets /\ Size * Buckets = Buckets * Size
    BY <1>1
  <2>4. Buckets > 0
    BY ServerAssumption
  <2> QED BY <2>2, <2>3, <2>4, <1>1
<1>4. q < Buckets
  <2>1. q * Size < Buckets * Size
    BY <1>1, <1>2, <1>3
  <2> QED BY <2>1, <1>1, <1>2, MulLess
<1>5. Bucket(x) = q
  BY DEF Bucket
<1>6. (q + 1) - 1 = q
  BY <1>2
<1> QED BY <1>1, <1>2, <1>4, <1>5, <1>6 DEF ByteOf

\* ... and in no other.
LEMMA OneBucket ==
  ASSUME NEW x \in 0 .. (Size - 1), NEW b \in 1 .. Buckets, ByteOf(b, x)
  PROVE  b = Bucket(x) + 1
<1> DEFINE c == Bucket(x)
<1>1. c \in Nat /\ ByteOf(c + 1, x) /\ x \in Nat /\ Size \in Nat /\ Buckets \in Nat /\ b - 1 \in Nat /\ b \in Nat /\ c + 1 \in Nat
  BY InBucket, ServerAssumption
<1>2. c * Size <= x * Buckets /\ x * Buckets < (c + 1) * Size
  BY <1>1 DEF ByteOf
<1>3. (b - 1) * Size <= x * Buckets /\ x * Buckets < b * Size
  BY DEF ByteOf
<1> HIDE DEF c
<1>4. c < b
  <2>1. c * Size < b * Size
    BY <1>1, <1>2, <1>3
  <2> QED BY <2>1, <1>1, MulLess
<1>5. b - 1 < c + 1
  <2>1. (b - 1) * Size < (c + 1) * Size
    BY <1>1, <1>2, <1>3
  <2> QED BY <2>1, <1>1, MulLess
<1> QED BY <1>1, <1>4, <1>5 DEF c

\* Buckets follow the bytes.
LEMMA BucketMono ==
  ASSUME NEW x \in 0 .. (Size - 1), NEW y \in 0 .. (Size - 1), x <= y
  PROVE  Bucket(x) <= Bucket(y)
<1> DEFINE c == Bucket(x)
           d == Bucket(y)
<1>1. /\ c \in Nat /\ d \in Nat /\ x \in Nat /\ y \in Nat /\ Size \in Nat /\ Buckets \in Nat
      /\ c + 1 - 1 = c /\ d + 1 \in Nat
      /\ ByteOf(c + 1, x) /\ ByteOf(d + 1, y)
  BY InBucket, ServerAssumption
<1>2. c * Size <= x * Buckets /\ y * Buckets < (d + 1) * Size
  BY <1>1 DEF ByteOf
<1>3. x * Buckets <= y * Buckets
  BY <1>1, MulMono
<1> HIDE DEF c, d
<1>4. c * Size < (d + 1) * Size
  BY <1>1, <1>2, <1>3
<1>5. c < d + 1
  BY <1>1, <1>4, MulLess
<1> QED BY <1>1, <1>5 DEF c, d

\* Since a bucket has at least one byte, a read has a byte in every bucket from
\* that of its first byte to that of its last.
LEMMA NoGap ==
  ASSUME NEW o \in 0 .. (Size - 1), NEW y \in 0 .. (Size - 1), o <= y,
         NEW b \in 1 .. Buckets, Bucket(o) + 1 <= b, b <= Bucket(y) + 1
  PROVE  \E x \in o .. y : ByteOf(b, x)
<1>1. CASE b = Bucket(o) + 1
  BY <1>1, InBucket
<1>2. CASE b # Bucket(o) + 1
  <2> DEFINE c == Bucket(o)
             d == Bucket(y)
             s == (b - 1) * Size
             q == s \div Buckets
             x == IF q * Buckets = s THEN q ELSE q + 1
  <2>1. /\ c \in Nat /\ d \in Nat /\ o \in Nat /\ y \in Nat /\ b \in Nat /\ b - 1 \in Nat
        /\ Size \in Nat /\ Buckets \in Nat \ {0} /\ Buckets <= Size /\ c + 1 \in Nat
    BY InBucket, ServerAssumption
  <2>2. c * Size <= o * Buckets /\ o * Buckets < (c + 1) * Size
    <3>1. ByteOf(c + 1, o) /\ (c + 1) - 1 = c
      BY <2>1, InBucket
    <3> QED BY <3>1 DEF ByteOf
  <2>3. d * Size <= y * Buckets
    <3>1. ByteOf(d + 1, y) /\ (d + 1) - 1 = d
      BY <2>1, InBucket
    <3> QED BY <3>1 DEF ByteOf
  <2>4. c + 1 <= b - 1 /\ b - 1 <= d
    BY <1>2, <2>1
  <2> HIDE DEF c, d
  <2>5. (c + 1) * Size <= s /\ s <= d * Size /\ s \in Nat
    BY <2>1, <2>4, MulMono
  <2>6. b * Size = s + Size
    BY <2>1
  <2> HIDE DEF s
  <2>7. q \in Nat /\ q * Buckets <= s /\ s < (q + 1) * Buckets
    BY <2>1, <2>5, Division
  <2>8. (q + 1) * Buckets = q * Buckets + Buckets /\ q * Buckets \in Nat
    BY <2>1, <2>7
  <2> HIDE DEF q
  <2>9. x \in Nat /\ s <= x * Buckets /\ x * Buckets < s + Buckets
    BY <2>1, <2>5, <2>7, <2>8
  <2>10. o * Buckets < s /\ s <= y * Buckets /\ o * Buckets \in Nat /\ y * Buckets \in Nat
    BY <2>1, <2>2, <2>3, <2>5
  <2> HIDE DEF x
  <2>11. o < x
    <3>1. o * Buckets < x * Buckets
      BY <2>1, <2>5, <2>9, <2>10
    <3> QED BY <3>1, <2>1, <2>9, MulLess
  <2>12. x < y + 1
    <3>1. x * Buckets < (y + 1) * Buckets
      <4>1. (y + 1) * Buckets = y * Buckets + Buckets /\ x * Buckets \in Nat
        BY <2>1, <2>9
      <4> QED BY <4>1, <2>1, <2>5, <2>9, <2>10
    <3> QED BY <3>1, <2>1, <2>9, MulLess
  <2>13. x * Buckets < b * Size
    BY <2>1, <2>5, <2>6, <2>9
  <2>14. ByteOf(b, x)
    BY <2>9, <2>13 DEF ByteOf, s
  <2>15. x \in o .. y
    BY <2>1, <2>9, <2>11, <2>12
  <2> QED BY <2>14, <2>15
<1> QED BY <1>1, <1>2

-----------------------------------------------------------------------------
\* The loop mark_read() enters for the n bytes from o on.
LoopOf(o, n) ==
  LET b == BucketsOf(o, n) IN
  [next |-> b.first + 1, stamp |-> NowMs(time), when |-> time,
   last |-> IF b.last > Buckets - 1 THEN Buckets ELSE b.last + 1]

\* The loop of a read covers exactly the buckets with a byte of the read.
LEMMA LoopOfRead ==
  ASSUME time \in Nat, NEW o \in 0 .. (Size - 1), NEW n \in 1 .. Chunk, o + n <= Size
  PROVE  /\ LoopOf(o, n) \in LoopType
         /\ LoopOf(o, n).next = Bucket(o) + 1
         /\ LoopOf(o, n).last = Bucket(o + n - 1) + 1
         /\ LoopOf(o, n).next <= LoopOf(o, n).last
         /\ LoopOf(o, n).stamp # 0
         /\ o + n - 1 \in 0 .. (Size - 1) /\ o <= o + n - 1
<1> DEFINE y == o + n - 1
<1>1. y \in 0 .. (Size - 1) /\ o <= y
  BY ServerAssumption
<1> HIDE DEF y
<1>2. /\ Bucket(o) \in 0 .. (Buckets - 1) /\ Bucket(y) \in 0 .. (Buckets - 1)
      /\ Bucket(o) <= Bucket(y)
  BY <1>1, InBucket, BucketMono
<1>3. NowMs(time) \in 1 .. (Wrap - 1)
  BY Stamped
<1>4. LoopOf(o, n) = [next |-> Bucket(o) + 1, stamp |-> NowMs(time), when |-> time,
                      last |-> Bucket(y) + 1]
  <2>1. BucketsOf(o, n) = [first |-> Bucket(o), last |-> Bucket(y)]
    BY DEF BucketsOf, y
  <2>2. ~(Bucket(y) > Buckets - 1)
    BY <1>2, ServerAssumption
  <2> QED BY <2>1, <2>2 DEF LoopOf
<1>5. /\ Bucket(o) + 1 \in 1 .. Buckets /\ Bucket(y) + 1 \in 0 .. Buckets
      /\ Bucket(o) + 1 <= Bucket(y) + 1
  BY <1>2, ServerAssumption
<1>6. NowMs(time) \in 0 .. (Wrap - 1) /\ NowMs(time) # 0
  BY <1>3, ServerAssumption
<1> QED BY <1>1, <1>4, <1>5, <1>6 DEF LoopType, y

\* What a loop is when its store has been made.
LEMMA IdleLoop == /\ Idle \in LoopType /\ Idle.next = 1 /\ Idle.last = 0 /\ Idle.stamp = 0
                  /\ \A b \in Nat : ~(Idle.next <= b /\ b <= Idle.last)
  BY ServerAssumption DEF Idle, LoopType

\* A loop after one store: it has left the bucket it stored into, and no other.
Stepped(loop) == IF loop.next = loop.last THEN Idle ELSE [loop EXCEPT !.next = @ + 1]

LEMMA SteppedLoop ==
  ASSUME NEW loop \in LoopType, loop.next <= loop.last
  PROVE  /\ Stepped(loop) \in LoopType
         /\ Stepped(loop) # Idle =>
              /\ Stepped(loop).next <= Stepped(loop).last
              /\ Stepped(loop).stamp = loop.stamp /\ Stepped(loop).last = loop.last
         /\ \A b \in Nat : (Stepped(loop).next <= b /\ b <= Stepped(loop).last)
                             <=> (loop.next <= b /\ b <= loop.last /\ b # loop.next)
<1>1. loop.next \in 1 .. Buckets /\ loop.last \in 0 .. Buckets /\ Buckets \in Nat
  BY ServerAssumption DEF LoopType
<1>2. CASE loop.next = loop.last
  <2>1. Stepped(loop) = Idle
    BY <1>2 DEF Stepped
  <2> QED BY <1>1, <1>2, <2>1, IdleLoop
<1>3. CASE loop.next # loop.last
  <2>1. Stepped(loop) = [loop EXCEPT !.next = @ + 1]
    BY <1>3 DEF Stepped
  <2>2. /\ Stepped(loop).next = loop.next + 1 /\ Stepped(loop).last = loop.last
        /\ Stepped(loop).stamp = loop.stamp
    BY <2>1 DEF LoopType
  <2>3. loop.next + 1 \in 1 .. Buckets
    BY <1>1, <1>3
  <2>4. Stepped(loop) \in LoopType
    BY <2>1, <2>3 DEF LoopType
  <2> QED BY <1>1, <1>3, <2>2, <2>4
<1> QED BY <1>2, <1>3

\* One lemma per part of the invariant.
LEMMA TypesInductive == ServerTypes /\ Loops /\ [ServerNext]_serverVars => ServerTypes'
<1> SUFFICES ASSUME ServerTypes, Loops, [ServerNext]_serverVars PROVE ServerTypes'
  OBVIOUS
<1> USE DEF ServerTypes
<1>1. CASE Stop
  BY <1>1 DEF Stop
<1>2. CASE Start
  <2>1. Worker \in Threads /\ store[Worker] = Idle
    BY <1>2 DEF Start, Threads, Quiet
  <2>2. [store[Worker] EXCEPT !.last = Buckets] \in LoopType
    <3>1. Buckets \in 0 .. Buckets
      BY ServerAssumption
    <3> QED BY <2>1, <3>1, IdleLoop DEF LoopType
  <2>3. store' = [store EXCEPT ![Worker] = [store[Worker] EXCEPT !.last = Buckets]]
    BY <1>2, <2>1 DEF Start
  <2> QED BY <1>2, <2>1, <2>2, <2>3 DEF Start
<1>3. CASE Bind
  BY <1>3 DEF Bind
<1>4. ASSUME NEW r \in Readers, NEW o \in 0 .. (Size - 1), NEW n \in 1 .. Chunk,
             o + n <= Size, Read(r, o, n)
      PROVE  ServerTypes'
  <2>1. store' = [store EXCEPT ![r] = LoopOf(o, n)]
    BY <1>4 DEF Read, LoopOf
  <2>2. LoopOf(o, n) \in LoopType
    BY <1>4, LoopOfRead
  <2>3. read' \subseteq 0 .. (Size - 1)
    BY <1>4, ServerAssumption DEF Read
  <2> QED BY <1>4, <2>1, <2>2, <2>3 DEF Read
<1>5. ASSUME NEW t \in Threads, Store(t)
      PROVE  ServerTypes'
  <2>1. /\ store[t].next <= store[t].last /\ store[t] \in LoopType
        /\ store' = [store EXCEPT ![t] = Stepped(store[t])]
    BY <1>5 DEF Store, Stepped
  <2>2. Stepped(store[t]) \in LoopType
    BY <2>1, SteppedLoop
  <2>3. store' \in [Threads -> LoopType]
    BY <2>1, <2>2
  <2>4. store[t].stamp \in 0 .. (Wrap - 1) /\ store[t].when \in Nat
    BY <2>1 DEF LoopType
  <2>5. map' \in [1 .. Buckets -> 0 .. (Wrap - 1)] /\ when' \in [1 .. Buckets -> Nat]
    BY <1>5, <2>4 DEF Store
  <2>6. time' = time /\ serving' = serving /\ read' = read
    BY <1>5 DEF Store
  <2> QED BY <2>3, <2>5, <2>6
<1>6. CASE Ui
  BY <1>6 DEF Ui, StatsNow, StatsLoad
<1>7. CASE Tick
  BY <1>7 DEF Tick
<1>8. CASE UNCHANGED serverVars
  BY <1>8 DEF serverVars
<1> QED BY <1>1, <1>2, <1>3, <1>4, <1>5, <1>6, <1>7, <1>8 DEF ServerNext, Calls, Server

LEMMA LoopsInductive == ServerTypes /\ Loops /\ [ServerNext]_serverVars => Loops'
<1> SUFFICES ASSUME ServerTypes, Loops, [ServerNext]_serverVars PROVE Loops'
  OBVIOUS
<1> USE DEF Loops
<1>0. Worker \in Threads /\ Readers \subseteq Threads /\ Worker \notin Readers
  BY ServerAssumption DEF Threads
<1>1. CASE Stop
  BY <1>0, <1>1 DEF Stop, Quiet
<1>2. CASE Start
  <2>1. store[Worker] = Idle /\ \A r \in Readers : store[r] = Idle
    BY <1>0, <1>2 DEF Start, Quiet
  <2>2. store' = [store EXCEPT ![Worker] = [Idle EXCEPT !.last = Buckets]]
    BY <1>2, <2>1 DEF Start
  <2>3. store'[Worker] = [Idle EXCEPT !.last = Buckets] /\ \A r \in Readers : store'[r] = Idle
    BY <1>0, <2>1, <2>2 DEF ServerTypes
  <2>4. /\ store'[Worker].stamp = 0 /\ store'[Worker].last = Buckets /\ store'[Worker].next = 1
    BY <2>3 DEF Idle
  <2>5. 1 <= Buckets
    BY ServerAssumption
  <2> QED BY <1>2, <2>3, <2>4, <2>5 DEF Start, Threads
<1>3. CASE Bind
  BY <1>0, <1>3 DEF Bind, Quiet
<1>4. ASSUME NEW r \in Readers, NEW o \in 0 .. (Size - 1), NEW n \in 1 .. Chunk,
             o + n <= Size, Read(r, o, n)
      PROVE  Loops'
  <2>1. store' = [store EXCEPT ![r] = LoopOf(o, n)]
    BY <1>4 DEF Read, LoopOf
  <2>2. LoopOf(o, n).next <= LoopOf(o, n).last /\ LoopOf(o, n).stamp # 0
    BY <1>4, LoopOfRead DEF ServerTypes
  <2>3. store'[r] = LoopOf(o, n) /\ \A t \in Threads : t # r => store'[t] = store[t]
    BY <1>0, <2>1 DEF ServerTypes
  <2> QED BY <1>0, <1>4, <2>2, <2>3 DEF Read
<1>5. ASSUME NEW t \in Threads, Store(t)
      PROVE  Loops'
  <2>1. /\ store[t].next <= store[t].last /\ store[t] \in LoopType
        /\ store' = [store EXCEPT ![t] = Stepped(store[t])]
    BY <1>5 DEF Store, Stepped, ServerTypes
  <2>2. Stepped(store[t]) # Idle =>
          /\ Stepped(store[t]).next <= Stepped(store[t]).last
          /\ Stepped(store[t]).stamp = store[t].stamp /\ Stepped(store[t]).last = store[t].last
    BY <2>1, SteppedLoop
  <2>3. store'[t] = Stepped(store[t]) /\ \A u \in Threads : u # t => store'[u] = store[u]
    BY <1>0, <2>1 DEF ServerTypes
  <2>4. store[t] # Idle
    BY <2>1, IdleLoop
  <2> QED BY <1>0, <1>5, <2>2, <2>3, <2>4 DEF Store
<1>6. CASE Ui
  BY <1>0, <1>6 DEF Ui, StatsNow, StatsLoad
<1>7. CASE Tick
  BY <1>0, <1>7 DEF Tick
<1>8. CASE UNCHANGED serverVars
  BY <1>0, <1>8 DEF serverVars
<1> QED BY <1>1, <1>2, <1>3, <1>4, <1>5, <1>6, <1>7, <1>8 DEF ServerNext, Calls, Server

LEMMA ClearedInductive == ServerTypes /\ Loops /\ Cleared /\ [ServerNext]_serverVars => Cleared'
<1> SUFFICES ASSUME ServerTypes, Loops, Cleared, [ServerNext]_serverVars PROVE Cleared'
  OBVIOUS
<1> USE DEF Cleared
<1>0. Worker \in Threads /\ Readers \subseteq Threads /\ Worker \notin Readers
  BY ServerAssumption DEF Threads
<1>1. CASE Stop \/ Bind
  BY <1>1 DEF Stop, Bind
<1>2. CASE Start
  <2>1. store[Worker] = Idle
    BY <1>0, <1>2 DEF Start, Quiet
  <2>2. store'[Worker] = [Idle EXCEPT !.last = Buckets]
    BY <1>0, <1>2, <2>1 DEF Start, ServerTypes
  <2>3. store'[Worker].last = Buckets /\ store'[Worker].next = 1
    BY <2>2 DEF Idle
  <2> QED BY <1>2, <2>3, ServerAssumption DEF Start, InLoop
<1>4. ASSUME NEW r \in Readers, NEW o \in 0 .. (Size - 1), NEW n \in 1 .. Chunk,
             o + n <= Size, Read(r, o, n)
      PROVE  Cleared'
  BY <1>4 DEF Read
<1>5. ASSUME NEW t \in Threads, Store(t)
      PROVE  Cleared'
  <2> SUFFICES ASSUME serving = "starting"
               PROVE  Cleared'
    BY <1>5 DEF Store
  <2>1. /\ store[t].next <= store[t].last /\ store[t] \in LoopType
        /\ store' = [store EXCEPT ![t] = Stepped(store[t])]
        /\ map' = [map EXCEPT ![store[t].next] = store[t].stamp]
        /\ read' = read /\ serving' = serving
    BY <1>5 DEF Store, Stepped, ServerTypes
  <2>2. store[t] # Idle
    BY <2>1, IdleLoop
  <2>3. t = Worker /\ store[t].stamp = 0
    BY <1>0, <2>2 DEF Loops, Threads
  <2>4. \A b \in Nat : (Stepped(store[t]).next <= b /\ b <= Stepped(store[t]).last)
                             <=> (store[t].next <= b /\ b <= store[t].last /\ b # store[t].next)
    BY <2>1, SteppedLoop
  <2>5. store'[Worker] = Stepped(store[Worker])
    BY <2>1, <2>3 DEF ServerTypes
  <2>6. ASSUME NEW b \in 1 .. Buckets, map'[b] # 0
        PROVE  InLoop(Worker, b)'
    <3>1. store[t].next \in 1 .. Buckets
      BY <2>1 DEF LoopType
    <3>2. b # store[t].next /\ map[b] # 0
      BY <2>1, <2>3, <2>6, <3>1 DEF ServerTypes
    <3>3. b \in Nat /\ InLoop(Worker, b)
      BY <3>2, ServerAssumption
    <3> QED BY <2>3, <2>4, <2>5, <3>2, <3>3 DEF InLoop
  <2> QED BY <2>1, <2>6
<1>6. CASE Ui
  BY <1>6 DEF Ui, StatsNow, StatsLoad, InLoop
<1>7. CASE Tick
  BY <1>7 DEF Tick, InLoop
<1>8. CASE UNCHANGED serverVars
  BY <1>8 DEF serverVars, InLoop
<1> QED BY <1>1, <1>2, <1>4, <1>5, <1>6, <1>7, <1>8 DEF ServerNext, Calls, Server

LEMMA MarksInductive == ServerTypes /\ Loops /\ Cleared /\ Marks /\ [ServerNext]_serverVars => Marks'
<1> SUFFICES ASSUME ServerTypes, Loops, Cleared, Marks, [ServerNext]_serverVars PROVE Marks'
  OBVIOUS
<1> USE DEF Marks
<1>0. Worker \in Threads /\ Readers \subseteq Threads /\ Worker \notin Readers
  BY ServerAssumption DEF Threads
<1>1. CASE Stop
  BY <1>1 DEF Stop
<1>2. CASE Start
  BY <1>2 DEF Start
<1>3. CASE Bind
  <2>1. /\ read' = {} /\ store' = store /\ map' = map
        /\ \A t \in Threads : store[t] = Idle
    BY <1>3 DEF Bind, Cleared, Quiet
  <2>2. \A b \in 1 .. Buckets : \A t \in Threads : ~InLoop(t, b) /\ ~InLoop(t, b)'
    BY <2>1, IdleLoop, ServerAssumption DEF InLoop
  <2>3. \A b \in 1 .. Buckets : map[b] = 0
    BY <1>0, <1>3, <2>2 DEF Cleared, Bind
  <2> QED BY <1>0, <2>1, <2>2, <2>3 DEF HasRead
<1>4. ASSUME NEW r \in Readers, NEW o \in 0 .. (Size - 1), NEW n \in 1 .. Chunk,
             o + n <= Size, Read(r, o, n)
      PROVE  Marks'
  <2> DEFINE y == o + n - 1
  <2>1. /\ store' = [store EXCEPT ![r] = LoopOf(o, n)] /\ store[r] = Idle
        /\ read' = read \cup (o .. y) /\ map' = map /\ serving = "on"
    BY <1>4 DEF Read, LoopOf
  <2>2. /\ LoopOf(o, n).next = Bucket(o) + 1 /\ LoopOf(o, n).last = Bucket(y) + 1
        /\ y \in 0 .. (Size - 1) /\ o <= y
    BY <1>4, LoopOfRead DEF ServerTypes
  <2> HIDE DEF y
  <2>3. store'[r] = LoopOf(o, n) /\ \A t \in Threads : t # r => store'[t] = store[t]
    BY <1>0, <2>1 DEF ServerTypes
  <2>4. ASSUME NEW b \in 1 .. Buckets
        PROVE  HasRead(b)' <=> HasRead(b) \/ \E x \in o .. y : ByteOf(b, x)
    BY <2>1 DEF HasRead, ByteOf
  <2>5. ASSUME NEW b \in 1 .. Buckets
        PROVE  (\E x \in o .. y : ByteOf(b, x)) <=> InLoop(r, b)'
    <3>1. ASSUME NEW x \in o .. y, ByteOf(b, x)
          PROVE  InLoop(r, b)'
      <4>1. x \in 0 .. (Size - 1) /\ o <= x /\ x <= y
        <5>1. /\ o \in Nat /\ y \in Nat /\ y <= Size - 1 /\ Size \in Nat
              /\ x \in Int /\ o <= x /\ x <= y
          BY <2>2, ServerAssumption
        <5> QED BY <5>1
      <4>2. b = Bucket(x) + 1 /\ Bucket(o) <= Bucket(x) /\ Bucket(x) <= Bucket(y)
        BY <2>2, <3>1, <4>1, OneBucket, BucketMono
      <4>3. Bucket(o) \in Nat /\ Bucket(x) \in Nat /\ Bucket(y) \in Nat
        BY <2>2, <4>1, InBucket, ServerAssumption
      <4>4. Bucket(o) + 1 <= b /\ b <= Bucket(y) + 1
        BY <4>2, <4>3
      <4> QED BY <2>2, <2>3, <4>4 DEF InLoop
    <3>2. ASSUME InLoop(r, b)'
          PROVE  \E x \in o .. y : ByteOf(b, x)
      <4>1. Bucket(o) + 1 <= b /\ b <= Bucket(y) + 1
        BY <2>2, <2>3, <3>2 DEF InLoop
      <4> QED BY <2>2, <4>1, NoGap
    <3> QED BY <3>1, <3>2
  <2>6. \A b \in 1 .. Buckets : ~InLoop(r, b)
    BY <2>1, IdleLoop, ServerAssumption DEF InLoop
  <2>7. \A b : \A t \in Readers : t # r => (InLoop(t, b)' <=> InLoop(t, b))
    BY <1>0, <2>3 DEF InLoop
  <2>8. ASSUME NEW b \in 1 .. Buckets
        PROVE  /\ map'[b] # 0 => HasRead(b)'
               /\ \A t \in Readers : InLoop(t, b)' => HasRead(b)'
               /\ HasRead(b)' => map'[b] # 0 \/ \E t \in Readers : InLoop(t, b)'
    <3>1. /\ map[b] # 0 => HasRead(b)
          /\ \A t \in Readers : InLoop(t, b) => HasRead(b)
          /\ HasRead(b) => map[b] # 0 \/ \E t \in Readers : InLoop(t, b)
      BY <2>1
    <3> QED BY <2>1, <2>4, <2>5, <2>6, <2>7, <3>1
  <2> QED BY <2>8
<1>5. ASSUME NEW t \in Threads, Store(t)
      PROVE  Marks'
  <2> SUFFICES ASSUME serving = "on"
               PROVE  Marks'
    BY <1>5 DEF Store
  <2>1. /\ store[t].next <= store[t].last /\ store[t] \in LoopType
        /\ store' = [store EXCEPT ![t] = Stepped(store[t])]
        /\ map' = [map EXCEPT ![store[t].next] = store[t].stamp]
        /\ read' = read /\ serving' = serving
    BY <1>5 DEF Store, Stepped, ServerTypes
  <2>2. store[t] # Idle
    BY <2>1, IdleLoop
  <2>3. t \in Readers /\ store[t].stamp # 0
    BY <1>0, <2>2 DEF Loops, Threads
  <2>4. \A b \in Nat : (Stepped(store[t]).next <= b /\ b <= Stepped(store[t]).last)
                             <=> (store[t].next <= b /\ b <= store[t].last /\ b # store[t].next)
    BY <2>1, SteppedLoop
  <2>5. store'[t] = Stepped(store[t]) /\ \A u \in Readers : u # t => store'[u] = store[u]
    BY <1>0, <2>1 DEF ServerTypes
  <2>6. store[t].next \in 1 .. Buckets
    BY <2>1 DEF LoopType
  <2>7. ASSUME NEW b \in 1 .. Buckets
        PROVE  /\ map'[b] # 0 => HasRead(b)'
               /\ \A u \in Readers : InLoop(u, b)' => HasRead(b)'
               /\ HasRead(b)' => map'[b] # 0 \/ \E u \in Readers : InLoop(u, b)'
    <3>1. /\ map[b] # 0 => HasRead(b)
          /\ \A u \in Readers : InLoop(u, b) => HasRead(b)
          /\ HasRead(b) => map[b] # 0 \/ \E u \in Readers : InLoop(u, b)
      OBVIOUS
    <3>2. HasRead(b)' <=> HasRead(b)
      BY <2>1 DEF HasRead, ByteOf
    <3>3. /\ InLoop(t, b)' <=> InLoop(t, b) /\ b # store[t].next
          /\ \A u \in Readers : u # t => (InLoop(u, b)' <=> InLoop(u, b))
      <4>1. b \in Nat
        BY ServerAssumption
      <4> QED BY <2>4, <2>5, <4>1 DEF InLoop
    <3>4. CASE b = store[t].next
      <4>1. InLoop(t, b) /\ map'[b] # 0
        BY <2>1, <2>3, <2>6, <3>4 DEF InLoop, ServerTypes
      <4> QED BY <2>3, <3>1, <3>2, <3>3, <4>1
    <3>5. CASE b # store[t].next
      <4>1. map'[b] = map[b]
        BY <2>1, <3>5 DEF ServerTypes
      <4> QED BY <2>3, <3>1, <3>2, <3>3, <3>5, <4>1
    <3> QED BY <3>4, <3>5
  <2> QED BY <2>7
<1>6. CASE UNCHANGED <<serving, store, map, read>>
  BY <1>6 DEF InLoop, HasRead, ByteOf
<1>7. CASE Ui \/ Tick \/ UNCHANGED serverVars
  BY <1>6, <1>7 DEF Ui, StatsNow, StatsLoad, Tick, serverVars
<1> QED BY <1>1, <1>2, <1>3, <1>4, <1>5, <1>7 DEF ServerNext, Calls, Server

\* Before the first start() nothing is stored and nothing is marked.
LEMMA InitIInv == ServerInit => ServerTypes /\ Loops /\ Cleared /\ Marks
<1> SUFFICES ASSUME ServerInit PROVE ServerTypes /\ Loops /\ Cleared /\ Marks
  OBVIOUS
<1>1. ServerTypes
  <2>1. store \in [Threads -> LoopType]
    BY IdleLoop DEF ServerInit
  <2>2. AllNever \in [1 .. Buckets -> 0 .. (Wrap - 1)] /\ AllNever \in [1 .. Buckets -> Nat]
    BY ServerAssumption DEF AllNever
  <2>3. time \in Nat \ {0} /\ serving \in {"off", "starting", "on"} /\ read \subseteq 0 .. (Size - 1)
        /\ map = AllNever /\ when = AllNever
    BY ServerAssumption DEF ServerInit
  <2> QED BY <2>1, <2>2, <2>3 DEF ServerTypes
<1>2. Loops /\ Cleared /\ Marks
  BY ServerAssumption DEF ServerInit, Loops, Cleared, Marks, Threads
<1> QED BY <1>1, <1>2

\* Between two reads a bucket is marked exactly if a byte of it was read.
THEOREM MapTellsWhatWasRead == ServerSpec => []MarkedIsRead
<1>1. ServerTypes /\ Marks => MarkedIsRead
  <2> SUFFICES ASSUME ServerTypes, Marks, serving = "on", Quiet, NEW b \in 1 .. Buckets
               PROVE  (map[b] # 0) <=> (\E x \in read : (b - 1) * Size <= x * Buckets /\ x * Buckets < b * Size)
    BY DEF MarkedIsRead
  <2>1. \A r \in Readers : ~InLoop(r, b)
    BY IdleLoop, ServerAssumption DEF Quiet, Threads, InLoop
  <2>2. (map[b] # 0) <=> HasRead(b)
    BY <2>1 DEF Marks
  <2> QED BY <2>2 DEF HasRead, ByteOf
<1> QED
  BY <1>1, InitIInv, TypesInductive, LoopsInductive, ClearedInductive, MarksInductive, PTL
  DEF ServerSpec
=============================================================================
