-------------------------- MODULE TlsClientProofs --------------------------
(***************************************************************************)
(* The TLS client for every set of flights, any number of records and any  *)
(* damage: a connected client and its server agree on the handshake and    *)
(* the keys (Agreement), the application sees a SecureStream (StreamSpec), *)
(* and nobody reports an attack on an undamaged stream (NoFalseAlarm).     *)
(*                                                                         *)
(* Shapes says what the state is made of.  Handshake follows the two       *)
(* transcripts: Order is what may be on the way to the server at each of   *)
(* its stages; ClientPart and PeerPart say where a transcript can hold a   *)
(* changed message, which is never the same place on both sides, so equal  *)
(* transcripts are unchanged and the keys shared; Closed and Bound tie the *)
(* client's transcript to the one the server's Finished was built over.    *)
(* Delivery says that the application data still on the way continue what  *)
(* recv() returned.                                                        *)
(*                                                                         *)
(* The second half is about a stream without damage.  Pristine: nothing is *)
(* changed and all keys are shared.  ReadInStep and WriteInStep: the records *)
(* on the way lead from the reader's cipher state to the writer's, one by  *)
(* one, so each opens.  Account: both transcripts tell the same flight, and *)
(* the part one of the sides has not read is in its buffer, on the way or  *)
(* still with its sender, so the server's Finished covers what the client  *)
(* read (FinTells).                                                        *)
(***************************************************************************)
EXTENDS TlsClient, SequenceTheorems, TLAPS

\* What keys, messages, sides of a connection and records are made of.
Keys    == {"none", "shared", "client", "server"}
Msg     == [ht : Types, alt : BOOLEAN]
Piece   == [ht : Types, alt : BOOLEAN, head : BOOLEAN]
Side    == [on : BOOLEAN, key : Keys, seq : Nat, pos : Nat]
RecType == {"handshake", "ccs", "alert", "data"}
SBody   == Seq(Piece) \cup Seq(Nat) \cup Seq(Alerts)
CBody   == Seq(Msg) \cup Seq(Nat) \cup Seq(Alerts)
SRec    == [type : RecType \cup {"invalid"}, key : Keys, seq : Nat, pos : Nat, body : SBody,
            whole : BOOLEAN]
CRec    == [type : RecType, key : Keys, seq : Nat, pos : Nat, body : CBody, whole : BOOLEAN]
ClientTypes == {"client_hello", "certificate", "client_key_exchange", "finished"}

\* What a record of the server's, and one of the client's, holds.
ServerHolds(r) ==
  /\ r.type = "handshake" => r.body \in Seq(Piece)
  /\ r.type = "data" => r.body \in Seq(Nat) /\ Len(r.body) = 1
ClientHolds(r) ==
  /\ r.type = "handshake" =>
       r.body \in Seq(Msg) /\ Len(r.body) = 1 /\ r.body[1].ht \in ClientTypes
  /\ r.type = "data" => r.body \in Seq(Nat) /\ Len(r.body) = 1

\* The cells of the server's records and the records of the client.
Cell == {c \in [head : BOOLEAN, rec : SRec] : ServerHolds(c.rec)}
Sent == {r \in CRec : ClientHolds(r)}

\* The types of the client's state, of the server's and of the wires.
ClientShape ==
  /\ pc \in Stages /\ transcript \in Seq(Msg) /\ hs \in Seq(Piece)
  /\ reading \in Side /\ writing \in Side /\ got \in Seq(Nat) /\ asked \in Nat
Flags == certRequested \in BOOLEAN /\ connected \in BOOLEAN /\ eof \in BOOLEAN
PeerShape ==
  /\ peer \in {"start", "keys", "fin", "finish", "open", "gone"}
  /\ pending \in Seq(Piece) /\ peerTranscript \in Seq(Msg) /\ finOver \in Seq(Msg)
  /\ peerReading \in Side /\ peerWriting \in Side /\ heard \in Seq(Nat) /\ sent \in Seq(Nat)
Wires == rx \in Seq(Cell) /\ s2c \in Seq(Cell) /\ c2s \in Seq(Sent)

\* Where the client is, and what it has done by then.
Progress ==
  /\ pc \in {"start", "hello", "cert", "done"} => ~writing.on /\ ~reading.on
  /\ pc \in {"ccs", "finished", "open"} => writing.on
  /\ pc \in {"finished", "open"} => reading.on
  /\ connected => writing.on /\ reading.on /\ pc \in {"open", "failed", "closed"}
  /\ pc = "open" => connected
  /\ pc \notin {"start", "failed"} \/ connected => transcript # <<>>
  /\ transcript # <<>> => transcript[1] = ClientHello

\* The i-th record on the way to the server holds a handshake message.
IsHandshake(i) == c2s[i].type = "handshake"

\* The order of the client's records.
Order ==
  /\ pc = "start" => c2s = <<>>
  /\ peer = "start" =>
       \/ c2s # <<>> /\ IsHandshake(1)
       \/ c2s = <<>> /\ pc \in {"start", "failed"} /\ ~connected
  /\ ~writing.on => peer \in {"start", "keys", "gone"} /\ \A i \in DOMAIN c2s : IsHandshake(i)
  /\ peer \in {"start", "keys"} =>
       \A i, j \in DOMAIN c2s :
         i < j /\ ~IsHandshake(i) /\ IsHandshake(j) => c2s[i].type = "ccs" /\ j = i + 1
  /\ peer = "fin" => \A i \in DOMAIN c2s : i > 1 => ~IsHandshake(i)
  /\ peer \in {"finish", "open"} => \A i \in DOMAIN c2s : ~IsHandshake(i)

\* The server's Finished is the last message it absorbs.
Closed == finOver # <<>> => peerTranscript = Append(finOver, Finished) /\ peer \in {"open", "gone"}

\* Once its flight is sent, what the client absorbed after ServerHelloDone is its own
\* and unchanged, and keys the sides do not share come from a changed message.
ClientPart ==
  /\ writing.on =>
       \E p \in DOMAIN transcript :
         /\ transcript[p].ht = "server_hello_done"
         /\ \A i \in DOMAIN transcript : i > p => ~transcript[i].alt
  /\ writing.on /\ writing.key # "shared" => \E i \in DOMAIN transcript : transcript[i].alt
  /\ reading.on /\ reading.key # "shared" => \E i \in DOMAIN transcript : transcript[i].alt

\* A changed message the server absorbed is the ClientHello or comes after its own
\* ServerHelloDone: where the client's transcript cannot have a changed one.
PeerPart ==
  \A i, p \in DOMAIN peerTranscript :
    i > 1 /\ i <= p /\ peerTranscript[i].alt => peerTranscript[p].ht # "server_hello_done"

\* A connected client has the server's Finished over its own transcript.
Bound == connected => finOver # <<>> /\ transcript = Append(finOver, Finished)

\* The cells read and on their way, and the application data among them: what lies
\* between the g data the client took and the n the server sent, each once, in order.
Stream0 == rx \o s2c

\* The cells that end a record of application data, and what they hold.
Datum(c) == ~c.head /\ c.rec.type = "data"
Value(c) == c.rec.body[1]

\* The data in S continue a stream of which g of n have been delivered.
Ordered(S, g, n) ==
  /\ \A i \in DOMAIN S : S[i].head <=> i % 2 = 1
  /\ Len(S) % 2 = 0
  /\ \A i \in DOMAIN S : Datum(S[i]) => Value(S[i]) \in g + 1 .. n
  /\ \A i, j \in DOMAIN S : i < j /\ Datum(S[i]) /\ Datum(S[j]) => Value(S[i]) < Value(S[j])
  /\ \A v \in g + 1 .. n : \E i \in DOMAIN S : Datum(S[i]) /\ Value(S[i]) = v

\* As long as the client reads, no datum is skipped or repeated.
InOrder == pc \notin {"failed", "closed"} => Ordered(Stream0, Len(got), Len(sent))

\* The server numbers what it sends, and nothing is delivered before it is sent.
Counted == (\A i \in 1 .. Len(sent) : sent[i] = i) /\ Len(got) <= Len(sent)

-----------------------------------------------------------------------------
\* The operators of the record layer keep to the shapes.
LEMMA SideTypes ==
  ASSUME NEW w \in Side, NEW body \in SBody \cup CBody
  PROVE  /\ Len(body) \in Nat
         /\ Advance(w, body) \in Side /\ Advance(w, body).on = w.on
         /\ Advance(w, body).key = w.key
<1>1. Len(body) \in Nat
  BY DEF SBody, CBody
<1>2. w.seq + 1 \in Nat /\ (IF w.on THEN w.pos + Len(body) + 1 ELSE w.pos) \in Nat
  BY <1>1 DEF Side
<1> DEFINE p == IF w.on THEN w.pos + Len(body) + 1 ELSE w.pos
<1>3. Advance(w, body) = [w EXCEPT !.seq = w.seq + 1, !.pos = p]
  BY DEF Advance, Side
<1>4. p \in Nat
  BY <1>2
<1> HIDE DEF p
<1> QED BY <1>1, <1>2, <1>3, <1>4 DEF Side

LEMMA EnableTypes ==
  ASSUME NEW w \in Side, NEW k \in Keys
  PROVE  Enable(k, w) \in Side /\ Enable(k, w).on = TRUE /\ Enable(k, w).key = k
         /\ Enable(k, w).seq = 0 /\ Enable(k, w).pos = 0
  BY DEF Enable, Side

LEMMA NullType == Null \in Side /\ Null.on = FALSE
  BY DEF Null, Side, Keys

LEMMA ProtectTypes ==
  ASSUME NEW w \in Side, NEW type \in RecType, NEW body
  PROVE  /\ Protect(w, type, body).type = type /\ Protect(w, type, body).body = body
         /\ Protect(w, type, body).whole = TRUE
         /\ body \in SBody => Protect(w, type, body) \in SRec
         /\ body \in CBody => Protect(w, type, body) \in CRec
<1> DEFINE n == IF w.on THEN w.seq ELSE 0
<1>1. n \in Nat /\ w.key \in Keys /\ w.pos \in Nat
  BY DEF Side
<1>2. Protect(w, type, body) = [type |-> type, key |-> w.key, seq |-> n, pos |-> w.pos,
                                body |-> body, whole |-> TRUE]
  BY DEF Protect
<1> HIDE DEF n
<1> QED BY <1>1, <1>2 DEF SRec, CRec

LEMMA MessageTypes ==
  /\ \A t \in Types : Message(t) \in Msg /\ Message(t).ht = t /\ ~Message(t).alt
  /\ ClientHello \in Msg /\ EmptyCertificate \in Msg /\ ClientKeyExchange \in Msg /\ Finished \in Msg
  /\ ~ClientHello.alt /\ ~EmptyCertificate.alt /\ ~ClientKeyExchange.alt /\ ~Finished.alt
  /\ ClientHello.ht = "client_hello" /\ EmptyCertificate.ht = "certificate"
  /\ ClientKeyExchange.ht = "client_key_exchange" /\ Finished.ht = "finished"
<1>1. \A t \in Types : Message(t) \in Msg /\ Message(t).ht = t /\ ~Message(t).alt
  BY DEF Message, Msg
<1>2. {"client_hello", "certificate", "client_key_exchange", "finished"} \subseteq Types
  BY DEF Types, HelloTypes
<1> QED
  BY <1>1, <1>2 DEF ClientHello, EmptyCertificate, ClientKeyExchange, Finished

\* A damaged fragment keeps its length and the types of its messages.
LEMMA FragmentTypes ==
  ASSUME NEW X, X = Msg \/ X = Piece, NEW r, r.type = "handshake", r.body \in Seq(X)
  PROVE  /\ Fragment(r) \in Seq(X) /\ Len(Fragment(r)) = Len(r.body)
         /\ \A i \in 1 .. Len(r.body) : Fragment(r)[i].ht = r.body[i].ht
         /\ r.whole => Fragment(r) = r.body
<1> DEFINE b == r.body
           F == [i \in DOMAIN b |-> [b[i] EXCEPT !.alt = TRUE]]
<1>1. b \in Seq(X) /\ Len(b) \in Nat /\ DOMAIN b = 1 .. Len(b)
  OBVIOUS
<1>2. \A i \in 1 .. Len(b) : b[i] \in X
  BY <1>1
<1> HIDE DEF b
<1>3. \A i \in 1 .. Len(b) : [b[i] EXCEPT !.alt = TRUE] \in X /\ [b[i] EXCEPT !.alt = TRUE].ht = b[i].ht
  BY <1>2 DEF Msg, Piece
<1>4. F \in Seq(X) /\ Len(F) = Len(b) /\ \A i \in 1 .. Len(b) : F[i].ht = b[i].ht
  <2> DEFINE G(i) == [b[i] EXCEPT !.alt = TRUE]
  <2>1. \A i \in 1 .. Len(b) : G(i) \in X /\ G(i).ht = b[i].ht
    BY <1>3
  <2>2. F = [i \in 1 .. Len(b) |-> G(i)]
    BY <1>1
  <2> HIDE DEF G, F
  <2>3. [i \in 1 .. Len(b) |-> G(i)] \in Seq(X) /\ Len([i \in 1 .. Len(b) |-> G(i)]) = Len(b)
    BY <1>1, <2>1
  <2>4. \A i \in 1 .. Len(b) : F[i] = G(i)
    BY <2>2
  <2> QED BY <2>1, <2>2, <2>3, <2>4
<1>5. Fragment(r) = IF ~r.whole THEN F ELSE b
  BY DEF Fragment, b
<1> QED BY <1>1, <1>4, <1>5 DEF b

LEMMA PiecesTypes ==
  ASSUME NEW t \in Seq(Types)
  PROVE  Pieces(t) \in Seq(Piece) /\ Len(Pieces(t)) = 2 * Len(t)
<1>1. \A i \in 1 .. 2 * Len(t) : (i + 1) \div 2 \in 1 .. Len(t)
  OBVIOUS
<1>2. \A i \in 1 .. 2 * Len(t) : (i % 2 = 1) \in BOOLEAN
  OBVIOUS
<1> DEFINE G(i) == [ht |-> t[(i + 1) \div 2], alt |-> FALSE, head |-> i % 2 = 1]
<1>3. \A i \in 1 .. 2 * Len(t) : G(i) \in Piece
  <2> SUFFICES ASSUME NEW i \in 1 .. 2 * Len(t) PROVE G(i) \in Piece
    OBVIOUS
  <2>1. t[(i + 1) \div 2] \in Types
    BY <1>1
  <2> DEFINE h == i % 2 = 1
  <2>2. h \in BOOLEAN
    BY <1>2
  <2> HIDE DEF h
  <2>3. [ht |-> t[(i + 1) \div 2], alt |-> FALSE, head |-> h] \in Piece
    BY <2>1, <2>2 DEF Piece
  <2> QED BY <2>3 DEF h
<1>4. 2 * Len(t) \in Nat
  OBVIOUS
<1> HIDE DEF G
<1>5. [i \in 1 .. 2 * Len(t) |-> G(i)] \in Seq(Piece) /\ Len([i \in 1 .. 2 * Len(t) |-> G(i)]) = 2 * Len(t)
  BY <1>3, <1>4
<1> QED BY <1>5 DEF Pieces, G

LEMMA CellTypes ==
  ASSUME NEW r \in SRec, ServerHolds(r)
  PROVE  /\ Cells(r) \in Seq(Cell) /\ Len(Cells(r)) = 2
         /\ Cells(r)[1].head = TRUE /\ Cells(r)[2].head = FALSE
         /\ Cells(r)[1].rec = r /\ Cells(r)[2].rec = r
<1>1. [head |-> TRUE, rec |-> r] \in Cell /\ [head |-> FALSE, rec |-> r] \in Cell
  BY DEF Cell
<1> QED BY <1>1 DEF Cells

LEMMA KeyTypes ==
  /\ ClientKey \in Keys /\ PeerKey \in Keys
  /\ ClientKey # "shared" => \E i \in DOMAIN transcript : transcript[i].alt
  /\ \A t, inputs : KeyOf(t, inputs, "client") \in Keys
                   /\ (KeyOf(t, inputs, "client") # "shared" => \E i \in DOMAIN t : t[i].alt)
  BY DEF ClientKey, PeerKey, KeyOf, Keys

\* The middle of a sequence.
LEMMA CutTypes ==
  ASSUME NEW X, NEW s \in Seq(X), NEW n \in 0 .. Len(s)
  PROVE  /\ SubSeq(s, 1, n) \in Seq(X) /\ Len(SubSeq(s, 1, n)) = n
         /\ \A i \in 1 .. n : SubSeq(s, 1, n)[i] = s[i]
         /\ SubSeq(s, n + 1, Len(s)) \in Seq(X) /\ Len(SubSeq(s, n + 1, Len(s))) = Len(s) - n
         /\ \A i \in 1 .. Len(s) - n : SubSeq(s, n + 1, Len(s))[i] = s[n + i]
  OBVIOUS

\* Cut in two and joined again.
LEMMA CutAndJoin ==
  ASSUME NEW X, NEW s \in Seq(X), NEW n \in 0 .. Len(s)
  PROVE  SubSeq(s, 1, n) \o SubSeq(s, n + 1, Len(s)) = s
<1>1. /\ SubSeq(s, 1, n) \in Seq(X) /\ Len(SubSeq(s, 1, n)) = n
      /\ \A i \in 1 .. n : SubSeq(s, 1, n)[i] = s[i]
      /\ SubSeq(s, n + 1, Len(s)) \in Seq(X) /\ Len(SubSeq(s, n + 1, Len(s))) = Len(s) - n
      /\ \A i \in 1 .. Len(s) - n : SubSeq(s, n + 1, Len(s))[i] = s[n + i]
  BY CutTypes
<1>2. ASSUME NEW a \in Seq(X), NEW b \in Seq(X), Len(a) = n, Len(b) = Len(s) - n,
             \A i \in 1 .. n : a[i] = s[i], \A i \in 1 .. Len(s) - n : b[i] = s[n + i]
      PROVE  a \o b = s
  <2>1. a \o b \in Seq(X) /\ Len(a \o b) = Len(s)
    BY <1>2, SMTT(30)
  <2>2. ASSUME NEW i \in 1 .. Len(s) PROVE (a \o b)[i] = s[i]
    <3>1. CASE i <= n
      BY <1>2, <3>1
    <3>2. CASE ~(i <= n)
      <4>1. i - n \in 1 .. Len(s) - n /\ n + (i - n) = i
        BY <3>2
      <4>2. (a \o b)[i] = b[i - n]
        BY <1>2, <3>2
      <4> QED BY <1>2, <4>1, <4>2
    <3> QED BY <3>1, <3>2
  <2> QED BY <2>1, <2>2, SeqEqual
<1> QED BY <1>1, <1>2

\* Without its first two elements.
LEMMA DropTwo ==
  ASSUME NEW X, NEW s \in Seq(X), Len(s) >= 2
  PROVE  /\ SubSeq(s, 3, Len(s)) \in Seq(X) /\ Len(SubSeq(s, 3, Len(s))) = Len(s) - 2
         /\ \A i \in 1 .. Len(s) - 2 : SubSeq(s, 3, Len(s))[i] = s[2 + i]
<1>1. 2 \in 0 .. Len(s) /\ 2 + 1 = 3
  OBVIOUS
<1>2. /\ SubSeq(s, 2 + 1, Len(s)) \in Seq(X) /\ Len(SubSeq(s, 2 + 1, Len(s))) = Len(s) - 2
      /\ \A i \in 1 .. Len(s) - 2 : SubSeq(s, 2 + 1, Len(s))[i] = s[2 + i]
  BY <1>1, CutTypes
<1> QED BY <1>1, <1>2

\* What a concatenation holds.
LEMMA Joined ==
  ASSUME NEW X, NEW s \in Seq(X), NEW t \in Seq(X)
  PROVE  /\ s \o t \in Seq(X) /\ Len(s \o t) = Len(s) + Len(t)
         /\ \A i \in 1 .. Len(s) : (s \o t)[i] = s[i]
         /\ \A i \in 1 .. Len(t) : (s \o t)[Len(s) + i] = t[i]
         /\ DOMAIN (s \o t) = 1 .. Len(s) + Len(t)
  OBVIOUS

\* A sequence of two, and one joined to another.
LEMMA TwoMore ==
  ASSUME NEW X, NEW s \in Seq(X), NEW a \in X, NEW b \in X
  PROVE  /\ s \o <<a, b>> \in Seq(X) /\ Len(s \o <<a, b>>) = Len(s) + 2
         /\ \A i \in 1 .. Len(s) : (s \o <<a, b>>)[i] = s[i]
         /\ (s \o <<a, b>>)[Len(s) + 1] = a /\ (s \o <<a, b>>)[Len(s) + 2] = b
<1> DEFINE t == <<a, b>>
<1>1. t \in Seq(X) /\ Len(t) = 2 /\ t[1] = a /\ t[2] = b
  OBVIOUS
<1>2. ASSUME NEW u \in Seq(X), Len(u) = 2
      PROVE  /\ s \o u \in Seq(X) /\ Len(s \o u) = Len(s) + 2
             /\ \A i \in 1 .. Len(s) : (s \o u)[i] = s[i]
             /\ (s \o u)[Len(s) + 1] = u[1] /\ (s \o u)[Len(s) + 2] = u[2]
  <2>1. /\ s \o u \in Seq(X) /\ Len(s \o u) = Len(s) + Len(u)
        /\ \A i \in 1 .. Len(s) : (s \o u)[i] = s[i]
        /\ \A i \in 1 .. Len(u) : (s \o u)[Len(s) + i] = u[i]
    BY Joined
  <2>2. 1 \in 1 .. Len(u) /\ 2 \in 1 .. Len(u)
    BY <1>2
  <2> QED BY ONLY <1>2, <2>1, <2>2
<1> HIDE DEF t
<1>3. /\ s \o t \in Seq(X) /\ Len(s \o t) = Len(s) + 2
      /\ \A i \in 1 .. Len(s) : (s \o t)[i] = s[i]
      /\ (s \o t)[Len(s) + 1] = a /\ (s \o t)[Len(s) + 2] = b
  BY <1>1, <1>2
<1> QED BY <1>3 DEF t

LEMMA PairOf ==
  ASSUME NEW X, NEW a \in X, NEW b \in X
  PROVE  /\ <<a>> \o <<b>> = <<a, b>> /\ <<>> \o <<b>> = <<b>>
         /\ <<a, b>> \in Seq(X) /\ <<a>> \in Seq(X)
<1>1. <<a>> \in Seq(X) /\ <<b>> \in Seq(X) /\ <<a, b>> \in Seq(X)
  OBVIOUS
<1>2. Len(<<a>>) = 1 /\ Len(<<b>>) = 1 /\ Len(<<a, b>>) = 2 /\ <<a>>[1] = a /\ <<b>>[1] = b
      /\ <<a, b>>[1] = a /\ <<a, b>>[2] = b
  OBVIOUS
<1> DEFINE s == <<a>>
           t == <<b>>
           u == <<a, b>>
<1> HIDE DEF s, t, u
<1>3. s \o t = u
  <2>1. s \in Seq(X) /\ t \in Seq(X) /\ u \in Seq(X) /\ Len(s) = 1 /\ Len(t) = 1 /\ Len(u) = 2
        /\ s[1] = a /\ t[1] = b /\ u[1] = a /\ u[2] = b
    BY <1>1, <1>2 DEF s, t, u
  <2>2. s \o t \in Seq(X) /\ Len(s \o t) = 2 /\ (s \o t)[1] = a /\ (s \o t)[2] = b
    <3>1. /\ s \o t \in Seq(X) /\ Len(s \o t) = Len(s) + Len(t)
          /\ \A i \in 1 .. Len(s) : (s \o t)[i] = s[i]
          /\ \A i \in 1 .. Len(t) : (s \o t)[Len(s) + i] = t[i]
      BY ONLY <2>1, Joined, SMTT(30)
    <3>2. 1 \in 1 .. Len(s) /\ 1 \in 1 .. Len(t) /\ Len(s) + 1 = 2 /\ Len(s) + Len(t) = 2
      BY ONLY <2>1
    <3> QED BY ONLY <2>1, <3>1, <3>2
  <2> QED BY <2>1, <2>2, SeqEqual
<1>4. <<>> \o t = t
  BY <1>1 DEF t
<1> QED BY <1>1, <1>3, <1>4 DEF s, t, u

\* The record read_record() has whole.
LEMMA ReadyRecord ==
  ASSUME Wires, Len(rx) >= 2
  PROVE  /\ Record \in SRec /\ ServerHolds(Record) /\ Record.body \in SBody \cup CBody
         /\ Len(rx) \in Nat
         /\ SubSeq(rx, 3, Len(rx)) \in Seq(Cell) /\ Len(SubSeq(rx, 3, Len(rx))) = Len(rx) - 2
         /\ \A i \in 1 .. Len(rx) - 2 : SubSeq(rx, 3, Len(rx))[i] = rx[2 + i]
<1>1. rx \in Seq(Cell) /\ 2 \in 0 .. Len(rx) /\ 2 + 1 = 3 /\ Len(rx) \in Nat
  BY DEF Wires
<1>2. rx[2] \in Cell
  BY <1>1
<1>3. Record \in SRec /\ ServerHolds(Record)
  BY <1>2 DEF Cell, Record
<1>4. Record.body \in SBody
  BY <1>3 DEF SRec
<1>5. /\ SubSeq(rx, 3, Len(rx)) \in Seq(Cell) /\ Len(SubSeq(rx, 3, Len(rx))) = Len(rx) - 2
      /\ \A i \in 1 .. Len(rx) - 2 : SubSeq(rx, 3, Len(rx))[i] = rx[2 + i]
  BY <1>1, DropTwo
<1> QED BY <1>1, <1>3, <1>4, <1>5

\* The message at the head of hs_.
LEMMA ParsedTypes ==
  ASSUME hs \in Seq(Piece), Len(hs) >= 2
  PROVE  /\ Parsed \in Msg /\ Parsed.ht = hs[1].ht
         /\ ~Parsed.alt => Parsed = Message(hs[1].ht)
         /\ Parsed.alt => hs[1].alt \/ hs[2].alt
         /\ SubSeq(hs, 3, Len(hs)) \in Seq(Piece) /\ Len(SubSeq(hs, 3, Len(hs))) = Len(hs) - 2
         /\ \A i \in 1 .. Len(hs) - 2 : SubSeq(hs, 3, Len(hs))[i] = hs[2 + i]
<1>1. hs[1] \in Piece /\ hs[2] \in Piece /\ 2 \in 0 .. Len(hs) /\ 2 + 1 = 3
  OBVIOUS
<1>2. hs[1].ht \in Types
  BY <1>1 DEF Piece
<1> DEFINE a == hs[1].alt \/ hs[2].alt
<1>3. a \in BOOLEAN /\ (~a => a = FALSE) /\ (a => hs[1].alt \/ hs[2].alt)
  BY Zenon
<1>4. Parsed = [ht |-> hs[1].ht, alt |-> a]
  BY DEF Parsed
<1> HIDE DEF a
<1>5. Parsed \in Msg /\ Parsed.ht = hs[1].ht /\ Parsed.alt = a
  BY <1>2, <1>3, <1>4 DEF Msg
<1>6. ~Parsed.alt => Parsed = Message(hs[1].ht)
  BY <1>3, <1>4, <1>5 DEF Message
<1>7. /\ SubSeq(hs, 3, Len(hs)) \in Seq(Piece) /\ Len(SubSeq(hs, 3, Len(hs))) = Len(hs) - 2
      /\ \A i \in 1 .. Len(hs) - 2 : SubSeq(hs, 3, Len(hs))[i] = hs[2 + i]
  BY DropTwo
<1> QED BY <1>3, <1>5, <1>6, <1>7

-----------------------------------------------------------------------------
\* The parts of SendFlight.
ClearPart == (IF certRequested THEN <<EmptyCertificate>> ELSE <<>>) \o <<ClientKeyExchange>>
\* The key it derives, the write side it opens, and the records.
FlightKey == KeyOf(Append(transcript, Parsed), {"server_hello", "certificate"}, "client")
Opened    == Enable(FlightKey, [writing EXCEPT !.seq = @ + Len(ClearPart) + 1])
ClearRecords  == [i \in DOMAIN ClearPart |-> Protect(writing, "handshake", <<ClearPart[i]>>)]
CipherRecords ==
  <<Protect(writing, "ccs", <<1>>), Protect(Opened, "handshake", <<Finished>>)>>
FlightRecords == ClearRecords \o CipherRecords

\* The cleartext part is one message or two.
LEMMA ClearIs ==
  /\ certRequested => ClearPart = <<EmptyCertificate, ClientKeyExchange>>
  /\ ~certRequested => ClearPart = <<ClientKeyExchange>>
<1>1. CASE certRequested
  BY <1>1, PairOf, MessageTypes DEF ClearPart
<1>2. CASE ~certRequested
  BY <1>2, PairOf, MessageTypes DEF ClearPart
<1> QED BY <1>1, <1>2

LEMMA ClearTypes ==
  /\ ClearPart \in Seq(Msg) /\ Len(ClearPart) \in {1, 2}
  /\ \A i \in 1 .. Len(ClearPart) :
       ClearPart[i].ht \in {"certificate", "client_key_exchange"} /\ ~ClearPart[i].alt
<1>1. CASE certRequested
  <2>1. ClearPart = <<EmptyCertificate, ClientKeyExchange>>
    BY <1>1, ClearIs
  <2>2. ClearPart \in Seq(Msg) /\ Len(ClearPart) = 2
    BY <2>1, MessageTypes
  <2>3. ClearPart[1] = EmptyCertificate /\ ClearPart[2] = ClientKeyExchange
    BY <2>1
  <2> QED BY <1>1, <2>1, <2>2, <2>3, MessageTypes
<1>2. CASE ~certRequested
  <2>1. ClearPart = <<ClientKeyExchange>>
    BY <1>2, ClearIs
  <2>2. ClearPart \in Seq(Msg) /\ Len(ClearPart) = 1
    BY <2>1, MessageTypes
  <2>3. ClearPart[1] = ClientKeyExchange
    BY <2>1
  <2> QED BY <1>2, <2>1, <2>2, <2>3, MessageTypes
<1> QED BY <1>1, <1>2

LEMMA OpenedTypes ==
  ASSUME writing \in Side
  PROVE  Opened \in Side /\ Opened.on /\ Opened.key = FlightKey /\ FlightKey \in Keys
         /\ Opened.seq = 0 /\ Opened.pos = 0
<1>1. FlightKey \in Keys
  BY KeyTypes DEF FlightKey
<1>2. writing.seq + Len(ClearPart) + 1 \in Nat
  BY ClearTypes DEF Side
<1>3. [writing EXCEPT !.seq = writing.seq + Len(ClearPart) + 1] \in Side
  BY <1>2 DEF Side
<1>4. [writing EXCEPT !.seq = @ + Len(ClearPart) + 1] = [writing EXCEPT !.seq = writing.seq + Len(ClearPart) + 1]
  BY DEF Side
<1> QED BY <1>1, <1>3, <1>4, EnableTypes DEF Opened

\* One record of the client's.
LEMMA SentTypes ==
  ASSUME NEW w \in Side
  PROVE  /\ \A m \in Msg : m.ht \in ClientTypes => Protect(w, "handshake", <<m>>) \in Sent
         /\ Protect(w, "ccs", <<1>>) \in Sent
         /\ Protect(w, "alert", <<"close_notify">>) \in Sent
         /\ \A n \in Nat : Protect(w, "data", <<n>>) \in Sent
<1>1. ASSUME NEW m \in Msg, m.ht \in ClientTypes
      PROVE  Protect(w, "handshake", <<m>>) \in Sent
  <2>1. <<m>> \in Seq(Msg) /\ Len(<<m>>) = 1 /\ <<m>>[1] = m
    OBVIOUS
  <2>2. <<m>> \in CBody /\ "handshake" \in RecType
    BY <2>1 DEF CBody, RecType
  <2> DEFINE r == Protect(w, "handshake", <<m>>)
  <2>3. r \in CRec /\ r.type = "handshake" /\ r.body = <<m>>
    BY <2>2, ProtectTypes, ZenonT(40)
  <2> HIDE DEF r
  <2>4. ClientHolds(r)
    BY <1>1, <2>1, <2>3 DEF ClientHolds
  <2> QED BY <2>3, <2>4 DEF Sent, r
<1>2. Protect(w, "ccs", <<1>>) \in Sent
  <2>1. <<1>> \in CBody /\ "ccs" \in RecType
    BY DEF CBody, RecType
  <2> QED BY <2>1, ProtectTypes DEF Sent, ClientHolds
<1>3. Protect(w, "alert", <<"close_notify">>) \in Sent
  <2>1. <<"close_notify">> \in CBody /\ "alert" \in RecType
    BY DEF CBody, RecType, Alerts
  <2> QED BY <2>1, ProtectTypes DEF Sent, ClientHolds
<1>4. ASSUME NEW n \in Nat
      PROVE  Protect(w, "data", <<n>>) \in Sent
  <2>1. <<n>> \in Seq(Nat) /\ Len(<<n>>) = 1
    OBVIOUS
  <2>2. <<n>> \in CBody /\ "data" \in RecType
    BY <2>1 DEF CBody, RecType
  <2> DEFINE r == Protect(w, "data", <<n>>)
  <2>3. r \in CRec /\ r.type = "data" /\ r.body = <<n>>
    BY <2>2, ProtectTypes, ZenonT(40)
  <2> HIDE DEF r
  <2>4. ClientHolds(r)
    BY <2>1, <2>3 DEF ClientHolds
  <2> QED BY <2>3, <2>4 DEF Sent, r
<1> QED BY <1>1, <1>2, <1>3, <1>4

LEMMA FlightTypes ==
  ASSUME writing \in Side
  PROVE  /\ FlightRecords \in Seq(Sent)
         /\ Len(FlightRecords) = Len(ClearPart) + 2
         /\ \A i \in 1 .. Len(ClearPart) :
              FlightRecords[i] = Protect(writing, "handshake", <<ClearPart[i]>>)
         /\ FlightRecords[Len(ClearPart) + 1] = Protect(writing, "ccs", <<1>>)
         /\ FlightRecords[Len(ClearPart) + 2] = Protect(Opened, "handshake", <<Finished>>)
<1> DEFINE G(i) == Protect(writing, "handshake", <<ClearPart[i]>>)
<1>1. Len(ClearPart) \in Nat /\ DOMAIN ClearPart = 1 .. Len(ClearPart)
  BY ClearTypes
<1>2. \A i \in 1 .. Len(ClearPart) : G(i) \in Sent
  BY ClearTypes, SentTypes DEF ClientTypes
<1>3. ClearRecords = [i \in 1 .. Len(ClearPart) |-> G(i)]
  BY <1>1 DEF ClearRecords
<1>4. Protect(writing, "ccs", <<1>>) \in Sent /\ Protect(Opened, "handshake", <<Finished>>) \in Sent
  BY SentTypes, OpenedTypes, MessageTypes DEF ClientTypes
<1> HIDE DEF G
<1>5. /\ ClearRecords \in Seq(Sent) /\ Len(ClearRecords) = Len(ClearPart)
      /\ \A i \in 1 .. Len(ClearPart) : ClearRecords[i] = G(i)
  BY <1>1, <1>2, <1>3
<1>6. /\ FlightRecords \in Seq(Sent) /\ Len(FlightRecords) = Len(ClearRecords) + 2
      /\ \A i \in 1 .. Len(ClearRecords) : FlightRecords[i] = ClearRecords[i]
      /\ FlightRecords[Len(ClearRecords) + 1] = Protect(writing, "ccs", <<1>>)
      /\ FlightRecords[Len(ClearRecords) + 2] = Protect(Opened, "handshake", <<Finished>>)
  BY <1>4, <1>5, TwoMore, SMTT(30) DEF FlightRecords, CipherRecords
<1> QED BY <1>5, <1>6 DEF G

\* What SendFlight does.
LEMMA FlightEffect ==
  ASSUME ClientShape, Wires, SendFlight
  PROVE  /\ pc = "done" /\ HasMessage /\ hs' = SubSeq(hs, 3, Len(hs))
         /\ Parsed.ht = "server_hello_done"
         /\ transcript' = Append(transcript, Parsed) \o ClearPart \o <<Finished>>
         /\ c2s' = c2s \o FlightRecords
         /\ writing' = Advance(Opened, <<Finished>>)
         /\ pc' \in {"ccs", "failed"}
<1>1. c2s' = (c2s \o ClearRecords) \o
             <<Protect(writing, "ccs", <<1>>), Protect(Opened, "handshake", <<Finished>>)>>
  BY DEF SendFlight, ClearRecords, ClearPart, Opened, FlightKey
<1>2. ClearRecords \in Seq(Sent)
  <2>1. DOMAIN ClearPart = 1 .. Len(ClearPart) /\ Len(ClearPart) \in Nat
    BY ClearTypes
  <2> DEFINE G(i) == Protect(writing, "handshake", <<ClearPart[i]>>)
  <2>2. \A i \in 1 .. Len(ClearPart) : G(i) \in Sent
    BY ClearTypes, SentTypes DEF ClientTypes, ClientShape
  <2>3. ClearRecords = [i \in 1 .. Len(ClearPart) |-> G(i)]
    BY <2>1 DEF ClearRecords
  <2> HIDE DEF G
  <2> QED BY <2>1, <2>2, <2>3
<1>3. c2s' = c2s \o FlightRecords
  <2>1. CipherRecords \in Seq(Sent)
    <3>1. Protect(writing, "ccs", <<1>>) \in Sent /\ Protect(Opened, "handshake", <<Finished>>) \in Sent
      BY SentTypes, OpenedTypes, MessageTypes DEF ClientTypes, ClientShape
    <3> QED BY <3>1 DEF CipherRecords
  <2>3. c2s' = (c2s \o ClearRecords) \o CipherRecords
    BY <1>1 DEF CipherRecords
  <2>4. c2s \in Seq(Sent)
    BY DEF Wires
  <2> QED BY <1>2, <2>1, <2>3, <2>4, ConcatAssociative DEF FlightRecords
<1>4. /\ pc = "done" /\ HasMessage /\ hs' = SubSeq(hs, 3, Len(hs)) /\ pc' \in {"ccs", "failed"}
      /\ Parsed.ht = "server_hello_done"
  BY DEF SendFlight, NextHandshake, Fail
<1>5. transcript' = Append(transcript, Parsed) \o ClearPart \o <<Finished>>
  BY DEF SendFlight, ClearPart
<1>6. writing' = Advance(Opened, <<Finished>>)
  BY DEF SendFlight, ClearPart, Opened, FlightKey
<1> QED BY <1>3, <1>4, <1>5, <1>6

-----------------------------------------------------------------------------
\* The steps by what they can disturb.
LocalFails  == FillEnds \/ FillFails \/ BadHeader \/ BadMac \/ GiveUp
RecordTaken == HandleAlert \/ TakeFragment \/ TakeChangeCipherSpec \/ Deliver \/ Unexpected
PeerSteps   == (\E f \in Flights : PeerHello(f)) \/ (\E n \in DOMAIN pending : PeerEmit(n))
                 \/ PeerHandshake \/ PeerChangeCipherSpec \/ PeerRejects \/ PeerFinish
                 \/ PeerHears \/ PeerSends \/ (\E a \in Alerts : PeerAlerts(a)) \/ PeerHangsUp

\* The steps by what they touch.
LEMMA StepKinds ==
  ASSUME [Next]_vars
  PROVE  \/ Connect \/ (\E n \in {1, Len(s2c)} : Fill(n)) \/ LocalFails \/ RecordTaken
         \/ TakeHello \/ SendFlight \/ TakeFinished \/ Refuse \/ Send \/ Close
         \/ PeerSteps \/ Damage \/ UNCHANGED vars
  BY DEF Next, Client, Reads, Records, Handles, User, PeerDoes, Peer, Misfortune, LocalFails,
         RecordTaken, PeerSteps

\* Neither side writes the other's state.
LEMMA PeerLeavesClient == PeerSteps \/ Damage \/ UNCHANGED vars => UNCHANGED clientVars
  BY DEF PeerSteps, PeerHello, PeerEmit, PeerHandshake, PeerChangeCipherSpec, PeerRejects,
         PeerFinish, PeerHears, PeerSends, PeerAlerts, PeerHangsUp, Damage, vars

LEMMA ClientLeavesPeer ==
  (\/ Connect \/ (\E n \in {1, Len(s2c)} : Fill(n)) \/ LocalFails \/ RecordTaken \/ TakeHello
   \/ SendFlight \/ TakeFinished \/ Refuse \/ Send \/ Close \/ Damage \/ UNCHANGED vars)
    => UNCHANGED peerVars
  BY DEF Connect, Fill, LocalFails, FillEnds, FillFails, BadHeader, BadMac, GiveUp, RecordTaken,
         HandleAlert, TakeFragment, TakeChangeCipherSpec, Deliver, Unexpected, TakeHello,
         SendFlight, TakeFinished, Refuse, Send, Close, Damage, vars

\* What the steps of one kind have in common.
LEMMA LocalFailsEffect ==
  ASSUME LocalFails
  PROVE  /\ pc' = "failed" /\ UNCHANGED <<rx, hs, transcript, certRequested, reading, writing,
                                          connected, got, asked, s2c, c2s, peerVars>>
         /\ eof' \in {eof, TRUE}
  BY DEF LocalFails, FillEnds, FillFails, BadHeader, BadMac, GiveUp, Fail, cipherVars

LEMMA RecordTakenEffect ==
  ASSUME RecordTaken
  PROVE  /\ Ready /\ Opens(reading, Record) /\ rx' = SubSeq(rx, 3, Len(rx))
         /\ UNCHANGED <<transcript, certRequested, writing, connected, asked, s2c, c2s, peerVars>>
  BY DEF RecordTaken, HandleAlert, TakeFragment, TakeChangeCipherSpec, Deliver, Unexpected, Accept

\* Every step keeps the client's shape.
LEMMA ClientShapeInductive ==
  ClientShape /\ Wires /\ [Next]_vars => ClientShape'
<1> SUFFICES ASSUME ClientShape, Wires, [Next]_vars PROVE ClientShape'
  OBVIOUS
<1>0. /\ reading \in Side /\ writing \in Side /\ transcript \in Seq(Msg) /\ hs \in Seq(Piece)
      /\ got \in Seq(Nat) /\ asked \in Nat /\ pc \in Stages
  BY DEF ClientShape
<1>1. CASE Connect
  <2>1. <<ClientHello>> \in Seq(Msg)
    BY MessageTypes
  <2>2. <<ClientHello>> \in SBody \cup CBody
    BY <2>1 DEF CBody
  <2>3. Advance(writing, <<ClientHello>>) \in Side
    BY <1>0, <2>2, SideTypes
  <2> QED BY <1>0, <1>1, <2>1, <2>3 DEF ClientShape, Connect, Stages
<1>2. CASE \E n \in {1, Len(s2c)} : Fill(n)
  BY <1>0, <1>2 DEF ClientShape, Fill, cipherVars
<1>3. CASE LocalFails
  BY <1>0, <1>3, LocalFailsEffect DEF ClientShape, Stages
<1>4. CASE RecordTaken
  <2>1. Ready /\ UNCHANGED <<transcript, writing, asked>>
    BY <1>4, RecordTakenEffect
  <2>2. Record \in SRec /\ ServerHolds(Record) /\ Record.body \in SBody \cup CBody
    BY <2>1, ReadyRecord DEF Ready
  <2>3. Advance(reading, Record.body) \in Side
    BY <1>0, <2>2, SideTypes
  <2>4. CASE HandleAlert \/ Unexpected
    <3>1. pc' \in {pc, "failed"} /\ reading' = Advance(reading, Record.body) /\ UNCHANGED <<hs, got>>
      BY <2>4 DEF HandleAlert, Unexpected, Fail
    <3> QED BY <1>0, <2>1, <2>3, <3>1 DEF ClientShape, Stages
  <2>5. CASE TakeFragment
    <3>1. hs' = hs \o Fragment(Record) /\ reading' = Advance(reading, Record.body)
          /\ UNCHANGED <<pc, got>> /\ Record.type = "handshake"
      BY <2>5 DEF TakeFragment
    <3>2. Fragment(Record) \in Seq(Piece)
      BY <2>2, <3>1, FragmentTypes DEF ServerHolds
    <3>3. hs' \in Seq(Piece)
      BY <1>0, <3>1, <3>2, Joined
    <3> QED BY <1>0, <2>1, <2>3, <3>1, <3>3 DEF ClientShape
  <2>6. CASE TakeChangeCipherSpec
    <3>1. reading' = Enable(ClientKey, Advance(reading, Record.body)) /\ pc' = "finished"
          /\ UNCHANGED <<hs, got>>
      BY <2>6 DEF TakeChangeCipherSpec
    <3>2. reading' \in Side
      BY <2>3, <3>1, EnableTypes, KeyTypes
    <3> QED BY <1>0, <2>1, <3>1, <3>2 DEF ClientShape, Stages
  <2>7. CASE Deliver
    <3>1. reading' = Advance(reading, Record.body) /\ UNCHANGED <<pc, hs>> /\ Record.type = "data"
          /\ got' = Append(got, IF Record.whole THEN Record.body[1] ELSE 0)
      BY <2>7 DEF Deliver
    <3>2. Record.body \in Seq(Nat) /\ Len(Record.body) = 1
      BY <2>2, <3>1 DEF ServerHolds
    <3>3. Record.body[1] \in Nat
      BY <3>2
    <3>4. got' \in Seq(Nat)
      BY <1>0, <3>1, <3>3
    <3> QED BY <1>0, <2>1, <2>3, <3>1, <3>4 DEF ClientShape
  <2> QED BY <1>4, <2>4, <2>5, <2>6, <2>7 DEF RecordTaken
<1>5. CASE TakeHello \/ TakeFinished
  <2>1. /\ Len(hs) >= 2 /\ hs' = SubSeq(hs, 3, Len(hs)) /\ transcript' = Append(transcript, Parsed)
        /\ pc' \in {pc, "cert", "done", "open"} /\ UNCHANGED <<reading, writing, got, asked>>
    BY <1>5 DEF TakeHello, TakeFinished, NextHandshake, HasMessage, Absorb, cipherVars
  <2>2. Parsed \in Msg /\ hs' \in Seq(Piece)
    BY <1>0, <2>1, ParsedTypes
  <2>3. transcript' \in Seq(Msg)
    BY <1>0, <2>1, <2>2
  <2> QED BY <1>0, <2>1, <2>2, <2>3 DEF ClientShape, Stages
<1>6. CASE SendFlight
  <2>1. /\ HasMessage /\ hs' = SubSeq(hs, 3, Len(hs)) /\ pc' \in {"ccs", "failed"}
        /\ transcript' = Append(transcript, Parsed) \o ClearPart \o <<Finished>>
        /\ writing' = Advance(Opened, <<Finished>>)
    BY <1>6, FlightEffect
  <2>2. Parsed \in Msg /\ hs' \in Seq(Piece)
    BY <1>0, <2>1, ParsedTypes DEF HasMessage
  <2>3. Append(transcript, Parsed) \in Seq(Msg) /\ ClearPart \in Seq(Msg) /\ <<Finished>> \in Seq(Msg)
    BY <1>0, <2>2, ClearTypes, MessageTypes
  <2>4. transcript' \in Seq(Msg)
    BY <2>1, <2>3, Joined
  <2>5. <<Finished>> \in SBody \cup CBody
    BY <2>3 DEF CBody
  <2>6. writing' \in Side
    BY <1>0, <2>1, <2>5, SideTypes, OpenedTypes
  <2>7. UNCHANGED <<reading, got, asked>>
    BY <1>6 DEF SendFlight
  <2> QED BY <1>0, <2>1, <2>2, <2>4, <2>6, <2>7 DEF ClientShape, Stages
<1>7. CASE Refuse
  <2>1. /\ Len(hs) >= 2 /\ hs' = SubSeq(hs, 3, Len(hs)) /\ pc' = "failed"
        /\ UNCHANGED <<reading, writing, got, asked, transcript>>
    BY <1>7 DEF Refuse, NextHandshake, HasMessage, cipherVars, Fail
  <2>2. hs' \in Seq(Piece)
    BY <1>0, <2>1, ParsedTypes
  <2> QED BY <1>0, <2>1, <2>2 DEF ClientShape, Stages
<1>8. CASE Send
  <2>1. <<asked + 1>> \in SBody \cup CBody
    BY <1>0 DEF CBody
  <2>2. Advance(writing, <<asked + 1>>) \in Side
    BY <1>0, <2>1, SideTypes
  <2> QED BY <1>0, <1>8, <2>2 DEF ClientShape, Send
<1>9. CASE Close
  <2>1. <<"close_notify">> \in SBody \cup CBody
    BY DEF CBody, Alerts
  <2>2. Advance(writing, <<"close_notify">>) \in Side
    BY <1>0, <2>1, SideTypes
  <2> QED BY <1>0, <1>9, <2>2 DEF ClientShape, Close, Stages
<1>10. CASE PeerSteps \/ Damage \/ UNCHANGED vars
  BY <1>0, <1>10, PeerLeavesClient DEF ClientShape, clientVars, cipherVars
<1> QED
  BY <1>1, <1>2, <1>3, <1>4, <1>5, <1>6, <1>7, <1>8, <1>9, <1>10, StepKinds

\* A record of the server's, appended to what is on its way.
LEMMA RecordSent ==
  ASSUME s2c \in Seq(Cell), peerWriting \in Side, NEW type \in RecType, NEW body \in SBody,
         type = "handshake" => body \in Seq(Piece),
         type = "data" => body \in Seq(Nat) /\ Len(body) = 1
  PROVE  LET r == Protect(peerWriting, type, body)
             s == s2c \o Cells(r)
         IN  /\ r \in SRec /\ ServerHolds(r) /\ s \in Seq(Cell) /\ Len(s) = Len(s2c) + 2
             /\ \A i \in 1 .. Len(s2c) : s[i] = s2c[i]
             /\ s[Len(s2c) + 1] = [head |-> TRUE, rec |-> r]
             /\ s[Len(s2c) + 2] = [head |-> FALSE, rec |-> r]
             /\ Advance(peerWriting, body) \in Side
<1> DEFINE r == Protect(peerWriting, type, body)
<1>0. peerWriting \in Side /\ type \in RecType /\ body \in SBody
  OBVIOUS
<1>1. r \in SRec /\ r.type = type /\ r.body = body
  BY ONLY <1>0, ProtectTypes, ZenonT(40)
<1>2. Advance(peerWriting, body) \in Side
  BY SideTypes
<1> HIDE DEF r
<1>3. ServerHolds(r)
  BY <1>1 DEF ServerHolds
<1>4. [head |-> TRUE, rec |-> r] \in Cell /\ [head |-> FALSE, rec |-> r] \in Cell
  BY <1>1, <1>3 DEF Cell
<1>5. Cells(r) = <<[head |-> TRUE, rec |-> r], [head |-> FALSE, rec |-> r]>>
  BY DEF Cells
<1>6. /\ s2c \o Cells(r) \in Seq(Cell) /\ Len(s2c \o Cells(r)) = Len(s2c) + 2
      /\ \A i \in 1 .. Len(s2c) : (s2c \o Cells(r))[i] = s2c[i]
      /\ (s2c \o Cells(r))[Len(s2c) + 1] = [head |-> TRUE, rec |-> r]
      /\ (s2c \o Cells(r))[Len(s2c) + 2] = [head |-> FALSE, rec |-> r]
  BY <1>4, <1>5, TwoMore
<1> QED BY <1>1, <1>2, <1>3, <1>6 DEF r

\* The bodies the server sends.
LEMMA ServerBodies ==
  /\ <<1>> \in SBody /\ "ccs" \in RecType /\ "data" \in RecType /\ "alert" \in RecType
  /\ "handshake" \in RecType
  /\ \A n \in Nat : <<n>> \in SBody /\ <<n>> \in Seq(Nat) /\ Len(<<n>>) = 1 /\ <<n>>[1] = n
  /\ \A a \in Alerts : <<a>> \in SBody
  /\ Seq(Piece) \subseteq SBody
<1>1. \A n \in Nat : <<n>> \in Seq(Nat) /\ Len(<<n>>) = 1 /\ <<n>>[1] = n
  OBVIOUS
<1>2. \A a \in Alerts : <<a>> \in Seq(Alerts)
  OBVIOUS
<1> QED BY <1>1, <1>2 DEF SBody, RecType

\* A record the server takes.
LEMMA IncomingTypes ==
  ASSUME Wires, c2s # <<>>
  PROVE  /\ Incoming \in CRec /\ ClientHolds(Incoming) /\ Incoming.body \in SBody \cup CBody
         /\ Incoming = c2s[1] /\ Head(c2s) = c2s[1]
         /\ Tail(c2s) \in Seq(Sent) /\ Len(Tail(c2s)) = Len(c2s) - 1
         /\ \A i \in 1 .. Len(c2s) - 1 : Tail(c2s)[i] = c2s[i + 1]
<1>1. c2s \in Seq(Sent)
  BY DEF Wires
<1>2. /\ Head(c2s) = c2s[1] /\ c2s[1] \in Sent
      /\ Tail(c2s) \in Seq(Sent) /\ Len(Tail(c2s)) = Len(c2s) - 1
      /\ \A i \in 1 .. Len(c2s) - 1 : Tail(c2s)[i] = c2s[i + 1]
  BY <1>1
<1>3. c2s[1] \in CRec /\ ClientHolds(c2s[1])
  BY <1>2 DEF Sent
<1>4. c2s[1].body \in CBody
  BY <1>3 DEF CRec
<1> QED BY <1>2, <1>3, <1>4 DEF Incoming

\* A flight as messages.
LEMMA FlightMessages ==
  ASSUME NEW f \in Flights
  PROVE  /\ f \in Seq(Types) /\ f \in Seq(HelloTypes) /\ DOMAIN f = 1 .. Len(f)
         /\ [i \in DOMAIN f |-> Message(f[i])] \in Seq(Msg)
         /\ Len([i \in DOMAIN f |-> Message(f[i])]) = Len(f)
         /\ \A i \in 1 .. Len(f) : [j \in DOMAIN f |-> Message(f[j])][i] = Message(f[i])
         /\ \A i \in 1 .. Len(f) : Message(f[i]) \in Msg /\ ~Message(f[i]).alt /\ Message(f[i]).ht = f[i]
<1>1. f \in Seq(HelloTypes) /\ HelloTypes \subseteq Types
  BY TlsAssumption DEF Types
<1>2. f \in Seq(Types) /\ DOMAIN f = 1 .. Len(f) /\ Len(f) \in Nat
  BY <1>1
<1>3. \A i \in 1 .. Len(f) : f[i] \in Types
  BY <1>2
<1>4. \A i \in 1 .. Len(f) : Message(f[i]) \in Msg /\ ~Message(f[i]).alt /\ Message(f[i]).ht = f[i]
  BY <1>3, MessageTypes
<1> DEFINE G(i) == Message(f[i])
<1> HIDE DEF G
<1>5. [i \in 1 .. Len(f) |-> G(i)] \in Seq(Msg) /\ Len([i \in 1 .. Len(f) |-> G(i)]) = Len(f)
      /\ \A i \in 1 .. Len(f) : [j \in 1 .. Len(f) |-> G(j)][i] = G(i)
  BY <1>2, <1>4 DEF G
<1> QED BY <1>1, <1>2, <1>4, <1>5 DEF G

\* Every step keeps the server's shape.
LEMMA PeerShapeInductive ==
  PeerShape /\ Wires /\ Order /\ [Next]_vars => PeerShape'
<1> SUFFICES ASSUME PeerShape, Wires, Order, [Next]_vars PROVE PeerShape'
  OBVIOUS
<1>0. /\ peer \in {"start", "keys", "fin", "finish", "open", "gone"}
      /\ pending \in Seq(Piece) /\ peerTranscript \in Seq(Msg) /\ finOver \in Seq(Msg)
      /\ peerReading \in Side /\ peerWriting \in Side /\ heard \in Seq(Nat) /\ sent \in Seq(Nat)
  BY DEF PeerShape
<1>1. ASSUME NEW f \in Flights, PeerHello(f)
      PROVE  PeerShape'
  <2>1. /\ peer = "start" /\ c2s # <<>> /\ peer' = "keys" /\ pending' = Pieces(f)
        /\ peerTranscript' = Fragment(Incoming) \o [i \in DOMAIN f |-> Message(f[i])]
        /\ peerReading' = Advance(peerReading, Incoming.body)
        /\ UNCHANGED <<peerWriting, heard, sent, finOver>>
    BY <1>1 DEF PeerHello, Incoming
  <2>2. Pieces(f) \in Seq(Piece)
    BY FlightMessages, PiecesTypes
  <2>3. Incoming.type = "handshake" /\ Incoming.body \in Seq(Msg)
    BY <2>1, IncomingTypes DEF Order, IsHandshake, ClientHolds
  <2>4. Fragment(Incoming) \in Seq(Msg)
    BY <2>3, FragmentTypes
  <2>5. peerTranscript' \in Seq(Msg)
    BY <2>1, <2>4, FlightMessages, Joined
  <2>6. peerReading' \in Side
    BY <1>0, <2>1, IncomingTypes, SideTypes
  <2> QED BY <1>0, <2>1, <2>2, <2>5, <2>6 DEF PeerShape
<1>2. ASSUME NEW n \in DOMAIN pending, PeerEmit(n)
      PROVE  PeerShape'
  <2>1. n \in 0 .. Len(pending)
    BY <1>0
  <2>2. SubSeq(pending, 1, n) \in Seq(Piece) /\ SubSeq(pending, n + 1, Len(pending)) \in Seq(Piece)
    BY <1>0, <2>1, CutTypes
  <2>3. Advance(peerWriting, SubSeq(pending, 1, n)) \in Side
    BY <1>0, <2>2, SideTypes, ServerBodies
  <2>4. /\ pending' = SubSeq(pending, n + 1, Len(pending))
        /\ peerWriting' = Advance(peerWriting, SubSeq(pending, 1, n))
        /\ UNCHANGED <<peer, peerTranscript, peerReading, heard, sent, finOver>>
    BY <1>2 DEF PeerEmit, Emit
  <2> QED BY <1>0, <2>2, <2>3, <2>4 DEF PeerShape
<1>3. CASE PeerHandshake
  <2>1. /\ c2s # <<>> /\ Incoming.type = "handshake" /\ peer' \in {peer, "finish"}
        /\ peerTranscript' = peerTranscript \o Fragment(Incoming)
        /\ peerReading' = Advance(peerReading, Incoming.body)
        /\ UNCHANGED <<pending, peerWriting, heard, sent, finOver>>
    BY <1>3 DEF PeerHandshake, PeerTakes
  <2>2. Incoming.body \in Seq(Msg)
    BY <2>1, IncomingTypes DEF ClientHolds
  <2>3. Fragment(Incoming) \in Seq(Msg)
    BY <2>1, <2>2, FragmentTypes
  <2>4. peerTranscript' \in Seq(Msg)
    BY <1>0, <2>1, <2>3, Joined
  <2>5. peerReading' \in Side
    BY <1>0, <2>1, IncomingTypes, SideTypes
  <2> QED BY <1>0, <2>1, <2>4, <2>5 DEF PeerShape
<1>4. CASE PeerChangeCipherSpec
  <2>1. peerReading' \in Side
    BY <1>0, <1>4, EnableTypes, KeyTypes DEF PeerChangeCipherSpec
  <2> QED BY <1>0, <1>4, <2>1 DEF PeerShape, PeerChangeCipherSpec
<1>5. CASE PeerRejects \/ (\E a \in Alerts : PeerAlerts(a))
  <2>1. "fatal" \in Alerts
    BY DEF Alerts
  <2>2. PICK a \in Alerts : peerWriting' = Advance(peerWriting, <<a>>)
    BY <1>5, <2>1 DEF PeerRejects, PeerAlerts, Emit
  <2>3. peerWriting' \in Side
    BY <1>0, <2>2, SideTypes, ServerBodies
  <2>4. /\ peer' \in {peer, "gone"}
        /\ UNCHANGED <<pending, peerTranscript, peerReading, heard, sent, finOver>>
    BY <1>5 DEF PeerRejects, PeerAlerts
  <2> QED BY <1>0, <2>3, <2>4 DEF PeerShape
<1>6. CASE PeerFinish
  <2>1. Advance(peerWriting, <<1>>) \in Side
    BY <1>0, SideTypes, ServerBodies
  <2>2. Enable(PeerKey, Advance(peerWriting, <<1>>)) \in Side
    BY <2>1, EnableTypes, KeyTypes
  <2>3. <<"finished">> \in Seq(Types)
    BY DEF Types
  <2>4. Pieces(<<"finished">>) \in Seq(Piece)
    BY <2>3, PiecesTypes
  <2>5. Append(peerTranscript, Finished) \in Seq(Msg)
    BY <1>0, MessageTypes
  <2> QED BY <1>0, <1>6, <2>2, <2>4, <2>5 DEF PeerShape, PeerFinish
<1>7. CASE PeerHears
  <2>1. /\ c2s # <<>> /\ peerReading' = Advance(peerReading, Incoming.body)
        /\ heard' = IF Incoming.type = "data" THEN Append(heard, Incoming.body[1]) ELSE heard
        /\ UNCHANGED <<peer, pending, peerTranscript, peerWriting, sent, finOver>>
    BY <1>7 DEF PeerHears, PeerTakes
  <2>2. Incoming.type = "data" => Incoming.body \in Seq(Nat) /\ Len(Incoming.body) = 1
    BY <2>1, IncomingTypes DEF ClientHolds
  <2>3. Incoming.type = "data" => Incoming.body[1] \in Nat
    BY <2>2
  <2>4. heard' \in Seq(Nat)
    BY <1>0, <2>1, <2>3
  <2>5. peerReading' \in Side
    BY <1>0, <2>1, IncomingTypes, SideTypes
  <2> QED BY <1>0, <2>1, <2>4, <2>5 DEF PeerShape
<1>8. CASE PeerSends
  <2>1. Len(sent) + 1 \in Nat
    BY <1>0
  <2>2. Advance(peerWriting, <<Len(sent) + 1>>) \in Side
    BY <1>0, <2>1, SideTypes, ServerBodies
  <2>3. Append(sent, Len(sent) + 1) \in Seq(Nat)
    BY <1>0, <2>1
  <2> QED BY <1>0, <1>8, <2>2, <2>3 DEF PeerShape, PeerSends, Emit
<1>9. CASE PeerHangsUp
  BY <1>0, <1>9 DEF PeerShape, PeerHangsUp
<1>10. CASE UNCHANGED peerVars
  BY <1>0, <1>10 DEF PeerShape, peerVars
<1> QED
  BY <1>1, <1>2, <1>3, <1>4, <1>5, <1>6, <1>7, <1>8, <1>9, <1>10, StepKinds, ClientLeavesPeer
  DEF PeerSteps

\* A damaged cell, and a damaged record of the client's, keep their shape.
LEMMA DamagedCell ==
  ASSUME NEW c \in Cell
  PROVE  LET d == [c EXCEPT !.rec = IF c.head THEN [c.rec EXCEPT !.type = "invalid"]
                                              ELSE [c.rec EXCEPT !.whole = FALSE]]
         IN  /\ d \in Cell /\ d.head = c.head /\ d.rec.body = c.rec.body
             /\ ~c.head => d.rec.type = c.rec.type
             /\ d.rec.key = c.rec.key /\ d.rec.seq = c.rec.seq /\ d.rec.pos = c.rec.pos
<1> DEFINE r == IF c.head THEN [c.rec EXCEPT !.type = "invalid"] ELSE [c.rec EXCEPT !.whole = FALSE]
           d == [c EXCEPT !.rec = r]
<1>1. c \in [head : BOOLEAN, rec : SRec] /\ c.rec \in SRec /\ ServerHolds(c.rec)
  BY DEF Cell
<1>2. /\ r \in SRec /\ r.body = c.rec.body /\ r.key = c.rec.key /\ r.seq = c.rec.seq
      /\ r.pos = c.rec.pos /\ (~c.head => r.type = c.rec.type) /\ (c.head => r.type = "invalid")
  BY <1>1 DEF SRec
<1>3. ServerHolds(r)
  BY <1>1, <1>2 DEF ServerHolds
<1> HIDE DEF r
<1>4. d \in [head : BOOLEAN, rec : SRec] /\ d.head = c.head /\ d.rec = r
  BY <1>1, <1>2
<1>5. d \in Cell
  BY <1>3, <1>4 DEF Cell
<1> QED BY <1>2, <1>4, <1>5 DEF r

LEMMA DamagedSent ==
  ASSUME NEW r \in Sent
  PROVE  LET d == [r EXCEPT !.whole = FALSE]
         IN  /\ d \in Sent /\ d.type = r.type /\ d.body = r.body
             /\ d.key = r.key /\ d.seq = r.seq /\ d.pos = r.pos
<1>1. r \in CRec /\ ClientHolds(r)
  BY DEF Sent
<1> DEFINE d == [r EXCEPT !.whole = FALSE]
<1>2. d \in CRec /\ d.type = r.type /\ d.body = r.body /\ d.key = r.key /\ d.seq = r.seq /\ d.pos = r.pos
  BY <1>1 DEF CRec
<1> HIDE DEF d
<1>3. ClientHolds(d)
  BY <1>1, <1>2 DEF ClientHolds
<1> QED BY <1>2, <1>3 DEF Sent, d

\* What Damage does to each wire.
LEMMA DamageEffect ==
  ASSUME Wires, Damage
  PROVE  /\ s2c' \in Seq(Cell) /\ Len(s2c') = Len(s2c)
         /\ \A i \in 1 .. Len(s2c) :
              /\ s2c'[i].head = s2c[i].head /\ s2c'[i].rec.body = s2c[i].rec.body
              /\ ~s2c[i].head => s2c'[i].rec.type = s2c[i].rec.type
              /\ s2c'[i].rec.key = s2c[i].rec.key /\ s2c'[i].rec.seq = s2c[i].rec.seq
              /\ s2c'[i].rec.pos = s2c[i].rec.pos
         /\ c2s' \in Seq(Sent) /\ Len(c2s') = Len(c2s)
         /\ \A i \in 1 .. Len(c2s) :
              /\ c2s'[i].type = c2s[i].type /\ c2s'[i].body = c2s[i].body
              /\ c2s'[i].key = c2s[i].key /\ c2s'[i].seq = c2s[i].seq
              /\ c2s'[i].pos = c2s[i].pos
         /\ UNCHANGED <<clientVars, peerVars>> /\ "damage" \in faults'
<1>0. s2c \in Seq(Cell) /\ c2s \in Seq(Sent)
  BY DEF Wires
<1>1. UNCHANGED <<clientVars, peerVars>> /\ "damage" \in faults'
  BY DEF Damage
<1>2. CASE UNCHANGED c2s /\ \E i \in DOMAIN s2c :
             s2c' = [s2c EXCEPT ![i].rec =
                       IF s2c[i].head THEN [@ EXCEPT !.type = "invalid"]
                                      ELSE [@ EXCEPT !.whole = FALSE]]
  <2>1. PICK i \in DOMAIN s2c :
             s2c' = [s2c EXCEPT ![i].rec =
                       IF s2c[i].head THEN [@ EXCEPT !.type = "invalid"]
                                      ELSE [@ EXCEPT !.whole = FALSE]]
    BY <1>2
  <2> DEFINE c == s2c[i]
             d == [c EXCEPT !.rec = IF c.head THEN [c.rec EXCEPT !.type = "invalid"]
                                              ELSE [c.rec EXCEPT !.whole = FALSE]]
  <2>2. s2c' = [s2c EXCEPT ![i] = d]
    BY <2>1
  <2>3. c \in Cell /\ i \in 1 .. Len(s2c)
    BY <1>0
  <2>4. /\ d \in Cell /\ d.head = c.head /\ d.rec.body = c.rec.body
        /\ ~c.head => d.rec.type = c.rec.type
        /\ d.rec.key = c.rec.key /\ d.rec.seq = c.rec.seq /\ d.rec.pos = c.rec.pos
    BY <2>3, DamagedCell
  <2> HIDE DEF d
  <2>5. s2c' \in Seq(Cell) /\ Len(s2c') = Len(s2c)
    BY <1>0, <2>2, <2>4
  <2>6. \A j \in 1 .. Len(s2c) : s2c'[j] = IF j = i THEN d ELSE s2c[j]
    BY <1>0, <2>2
  <2> QED BY <1>0, <1>1, <1>2, <2>4, <2>5, <2>6
<1>3. CASE UNCHANGED s2c /\ \E i \in DOMAIN c2s : c2s' = [c2s EXCEPT ![i].whole = FALSE]
  <2>1. PICK i \in DOMAIN c2s : c2s' = [c2s EXCEPT ![i].whole = FALSE]
    BY <1>3
  <2> DEFINE r == c2s[i]
             d == [r EXCEPT !.whole = FALSE]
  <2>2. c2s' = [c2s EXCEPT ![i] = d]
    BY <2>1
  <2>3. r \in Sent /\ i \in 1 .. Len(c2s)
    BY <1>0
  <2>4. /\ d \in Sent /\ d.type = r.type /\ d.body = r.body
        /\ d.key = r.key /\ d.seq = r.seq /\ d.pos = r.pos
    BY <2>3, DamagedSent
  <2> HIDE DEF d
  <2>5. c2s' \in Seq(Sent) /\ Len(c2s') = Len(c2s)
    BY <1>0, <2>2, <2>4
  <2>6. \A j \in 1 .. Len(c2s) : c2s'[j] = IF j = i THEN d ELSE c2s[j]
    BY <1>0, <2>2
  <2> QED BY <1>0, <1>1, <1>3, <2>4, <2>5, <2>6
<1> QED BY <1>2, <1>3 DEF Damage

\* fill() moves cells from one end to the other.
LEMMA FillEffect ==
  ASSUME Wires, NEW n \in {1, Len(s2c)}, Fill(n)
  PROVE  /\ n \in 0 .. Len(s2c) /\ rx' = rx \o SubSeq(s2c, 1, n)
         /\ s2c' = SubSeq(s2c, n + 1, Len(s2c)) /\ rx' \in Seq(Cell) /\ s2c' \in Seq(Cell)
         /\ rx' \o s2c' = rx \o s2c
<1>0. rx \in Seq(Cell) /\ s2c \in Seq(Cell) /\ s2c # <<>>
  BY DEF Wires, Fill
<1>1. n \in 0 .. Len(s2c)
  BY <1>0
<1>2. rx' = rx \o SubSeq(s2c, 1, n) /\ s2c' = SubSeq(s2c, n + 1, Len(s2c))
  BY DEF Fill
<1>3. /\ SubSeq(s2c, 1, n) \in Seq(Cell) /\ SubSeq(s2c, n + 1, Len(s2c)) \in Seq(Cell)
      /\ Len(SubSeq(s2c, 1, n)) = n /\ Len(SubSeq(s2c, n + 1, Len(s2c))) = Len(s2c) - n
      /\ \A i \in 1 .. n : SubSeq(s2c, 1, n)[i] = s2c[i]
      /\ \A i \in 1 .. Len(s2c) - n : SubSeq(s2c, n + 1, Len(s2c))[i] = s2c[n + i]
  BY <1>0, <1>1, CutTypes
<1>4. rx' \in Seq(Cell) /\ s2c' \in Seq(Cell)
  BY <1>0, <1>2, <1>3, Joined
<1>5. SubSeq(s2c, 1, n) \o SubSeq(s2c, n + 1, Len(s2c)) = s2c
  BY <1>0, <1>1, <1>3, CutAndJoin
<1>6. (rx \o SubSeq(s2c, 1, n)) \o SubSeq(s2c, n + 1, Len(s2c))
        = rx \o (SubSeq(s2c, 1, n) \o SubSeq(s2c, n + 1, Len(s2c)))
  <2>1. ASSUME NEW a \in Seq(Cell), NEW b \in Seq(Cell), NEW c \in Seq(Cell)
        PROVE  (a \o b) \o c = a \o (b \o c)
    BY ConcatAssociative, SMTT(30)
  <2> QED BY ONLY <1>0, <1>3, <2>1, Zenon
<1> QED BY <1>1, <1>2, <1>4, <1>5, <1>6

\* What the client adds to its side of the connection.
LEMMA AppendedRecord ==
  ASSUME NEW X, NEW s \in Seq(X), NEW r \in X
  PROVE  /\ Append(s, r) \in Seq(X) /\ Len(Append(s, r)) = Len(s) + 1
         /\ \A i \in 1 .. Len(s) : Append(s, r)[i] = s[i]
         /\ Append(s, r)[Len(s) + 1] = r
  OBVIOUS

\* Every step keeps the wires' shape.
LEMMA WiresInductive ==
  Wires /\ ClientShape /\ PeerShape /\ [Next]_vars => Wires'
<1> SUFFICES ASSUME Wires, ClientShape, PeerShape, [Next]_vars PROVE Wires'
  OBVIOUS
<1>0. /\ rx \in Seq(Cell) /\ s2c \in Seq(Cell) /\ c2s \in Seq(Sent)
      /\ writing \in Side /\ asked \in Nat /\ peerWriting \in Side /\ pending \in Seq(Piece)
      /\ sent \in Seq(Nat)
  BY DEF Wires, ClientShape, PeerShape
<1>1. CASE Connect
  <2>1. Protect(writing, "handshake", <<ClientHello>>) \in Sent
    BY <1>0, SentTypes, MessageTypes DEF ClientTypes
  <2>2. c2s' \in Seq(Sent)
    BY <1>0, <1>1, <2>1, AppendedRecord DEF Connect
  <2> QED BY <1>0, <1>1, <2>2 DEF Wires, Connect
<1>2. CASE \E n \in {1, Len(s2c)} : Fill(n)
  BY <1>0, <1>2, FillEffect DEF Wires, Fill
<1>3. CASE LocalFails
  BY <1>0, <1>3, LocalFailsEffect DEF Wires
<1>4. CASE RecordTaken
  BY <1>0, <1>4, RecordTakenEffect, ReadyRecord DEF Wires, Ready
<1>5. CASE TakeHello \/ TakeFinished \/ Refuse
  BY <1>0, <1>5 DEF Wires, TakeHello, TakeFinished, Refuse
<1>6. CASE SendFlight
  <2>1. c2s' = c2s \o FlightRecords /\ FlightRecords \in Seq(Sent)
    BY <1>0, <1>6, FlightEffect, FlightTypes
  <2>2. c2s' \in Seq(Sent)
    BY <1>0, <2>1, Joined
  <2> QED BY <1>0, <1>6, <2>2 DEF Wires, SendFlight
<1>7. CASE Send
  <2>1. asked + 1 \in Nat
    BY <1>0
  <2>2. Protect(writing, "data", <<asked + 1>>) \in Sent
    BY <1>0, <2>1, SentTypes
  <2>3. c2s' \in Seq(Sent)
    BY <1>0, <1>7, <2>2, AppendedRecord DEF Send
  <2> QED BY <1>0, <1>7, <2>3 DEF Wires, Send
<1>8. CASE Close
  <2>1. Protect(writing, "alert", <<"close_notify">>) \in Sent
    BY <1>0, SentTypes
  <2>2. c2s' \in Seq(Sent)
    BY <1>0, <1>8, <2>1, AppendedRecord DEF Close
  <2> QED BY <1>0, <1>8, <2>2 DEF Wires, Close
<1>9. CASE (\E f \in Flights : PeerHello(f)) \/ PeerHandshake \/ PeerChangeCipherSpec \/ PeerHears
  <2>1. c2s # <<>> /\ c2s' = Tail(c2s) /\ UNCHANGED <<rx, s2c>>
    BY <1>9 DEF PeerHello, PeerHandshake, PeerChangeCipherSpec, PeerHears, PeerTakes, clientVars
  <2> QED BY <1>0, <2>1, IncomingTypes DEF Wires
<1>10. ASSUME NEW n \in DOMAIN pending, PeerEmit(n)
       PROVE  Wires'
  <2>1. n \in 0 .. Len(pending)
    BY <1>0
  <2>2. SubSeq(pending, 1, n) \in Seq(Piece) /\ SubSeq(pending, 1, n) \in SBody
    BY <1>0, <2>1, CutTypes, ServerBodies
  <2>3. s2c' = s2c \o Cells(Protect(peerWriting, "handshake", SubSeq(pending, 1, n)))
        /\ UNCHANGED <<rx, c2s>>
    BY <1>10 DEF PeerEmit, Emit, clientVars
  <2>4. s2c' \in Seq(Cell)
    BY <1>0, <2>2, <2>3, RecordSent, ServerBodies
  <2> QED BY <1>0, <2>3, <2>4 DEF Wires
<1>11. CASE PeerRejects \/ (\E a \in Alerts : PeerAlerts(a))
  <2>1. "fatal" \in Alerts
    BY DEF Alerts
  <2>2. PICK a \in Alerts : s2c' = s2c \o Cells(Protect(peerWriting, "alert", <<a>>))
    BY <1>11, <2>1 DEF PeerRejects, PeerAlerts, Emit
  <2>3. s2c' \in Seq(Cell)
    BY <1>0, <2>2, RecordSent, ServerBodies
  <2>4. CASE PeerRejects
    <3>1. c2s # <<>> /\ c2s' = Tail(c2s) /\ UNCHANGED rx
      BY <2>4 DEF PeerRejects, PeerTakes, clientVars
    <3> QED BY <1>0, <2>3, <3>1, IncomingTypes DEF Wires
  <2>5. CASE \E b \in Alerts : PeerAlerts(b)
    <3>1. UNCHANGED <<rx, c2s>>
      BY <2>5 DEF PeerAlerts, clientVars
    <3> QED BY <1>0, <2>3, <3>1 DEF Wires
  <2> QED BY <1>11, <2>4, <2>5
<1>12. CASE PeerFinish
  <2>1. s2c' = s2c \o Cells(Protect(peerWriting, "ccs", <<1>>)) /\ UNCHANGED <<rx, c2s>>
    BY <1>12 DEF PeerFinish, clientVars
  <2>2. s2c' \in Seq(Cell)
    BY <1>0, <2>1, RecordSent, ServerBodies
  <2> QED BY <1>0, <2>1, <2>2 DEF Wires
<1>13. CASE PeerSends
  <2>1. s2c' = s2c \o Cells(Protect(peerWriting, "data", <<Len(sent) + 1>>)) /\ UNCHANGED <<rx, c2s>>
    BY <1>13 DEF PeerSends, Emit, clientVars
  <2>2. Len(sent) + 1 \in Nat
    BY <1>0
  <2>3. s2c' \in Seq(Cell)
    BY <1>0, <2>1, <2>2, RecordSent, ServerBodies
  <2> QED BY <1>0, <2>1, <2>3 DEF Wires
<1>14. CASE PeerHangsUp \/ UNCHANGED vars
  BY <1>0, <1>14 DEF Wires, PeerHangsUp, vars, clientVars
<1>15. CASE Damage
  BY <1>0, <1>15, DamageEffect DEF Wires, clientVars
<1> QED
  BY <1>1, <1>2, <1>3, <1>4, <1>5, <1>6, <1>7, <1>8, <1>9, <1>10, <1>11, <1>12, <1>13, <1>14,
     <1>15, StepKinds DEF PeerSteps

\* Every step keeps the flags Boolean.
LEMMA FlagsInductive == Flags /\ [Next]_vars => Flags'
<1> SUFFICES ASSUME Flags, [Next]_vars PROVE Flags'
  OBVIOUS
<1> USE DEF Flags
<1>1. CASE Connect \/ SendFlight \/ Send \/ Close \/ Refuse
  BY <1>1, Zenon DEF Connect, SendFlight, Send, Close, Refuse
<1>2. CASE \E n \in {1, Len(s2c)} : Fill(n)
  BY <1>2, Zenon DEF Fill
<1>3. CASE LocalFails
  BY <1>3, LocalFailsEffect
<1>4. CASE RecordTaken
  <2>1. eof' \in {eof, TRUE}
    BY <1>4 DEF RecordTaken, HandleAlert, TakeFragment, TakeChangeCipherSpec, Deliver, Unexpected
  <2> QED BY <1>4, <2>1, RecordTakenEffect
<1>5. CASE TakeHello
  BY <1>5, Zenon DEF TakeHello
<1>6. CASE TakeFinished
  BY <1>6, Zenon DEF TakeFinished
<1>7. CASE PeerSteps \/ Damage \/ UNCHANGED vars
  BY <1>7, PeerLeavesClient DEF clientVars
<1> QED BY <1>1, <1>2, <1>3, <1>4, <1>5, <1>6, <1>7, StepKinds

-----------------------------------------------------------------------------
\* The stages of both sides go forward together.
LEMMA ProgressInductive ==
  Progress /\ ClientShape /\ Wires /\ [Next]_vars => Progress'
<1> SUFFICES ASSUME Progress, ClientShape, Wires, [Next]_vars PROVE Progress'
  OBVIOUS
<1>0. reading \in Side /\ writing \in Side /\ transcript \in Seq(Msg) /\ hs \in Seq(Piece)
  BY DEF ClientShape
<1>1. CASE Connect
  <2>1. <<ClientHello>> \in SBody \cup CBody
    BY MessageTypes DEF CBody
  <2>2. writing'.on = writing.on
    BY <1>0, <1>1, <2>1, SideTypes DEF Connect
  <2>3. <<ClientHello>> # <<>> /\ <<ClientHello>>[1] = ClientHello
    OBVIOUS
  <2> QED BY <1>1, <2>2, <2>3 DEF Progress, Connect
<1>2. CASE \E n \in {1, Len(s2c)} : Fill(n)
  BY <1>2 DEF Progress, Fill, cipherVars
<1>3. CASE LocalFails
  BY <1>3, LocalFailsEffect DEF Progress
<1>4. CASE RecordTaken
  <2>1. Ready /\ UNCHANGED <<transcript, writing, connected>>
    BY <1>4, RecordTakenEffect
  <2>2. Record.body \in SBody \cup CBody
    BY <2>1, ReadyRecord DEF Ready
  <2>3. Advance(reading, Record.body) \in Side /\ Advance(reading, Record.body).on = reading.on
    BY <1>0, <2>2, SideTypes
  <2>4. CASE HandleAlert \/ Unexpected
    <3>1. pc' \in {pc, "failed"} /\ reading' = Advance(reading, Record.body)
      BY <2>4 DEF HandleAlert, Unexpected, Fail
    <3> QED BY <2>1, <2>3, <3>1 DEF Progress
  <2>5. CASE TakeFragment \/ Deliver
    <3>1. pc' = pc /\ reading' = Advance(reading, Record.body)
      BY <2>5 DEF TakeFragment, Deliver
    <3> QED BY <2>1, <2>3, <3>1 DEF Progress
  <2>6. CASE TakeChangeCipherSpec
    <3>1. pc = "ccs" /\ pc' = "finished" /\ reading' = Enable(ClientKey, Advance(reading, Record.body))
      BY <2>6 DEF TakeChangeCipherSpec
    <3>2. reading'.on = TRUE
      BY <2>3, <3>1, EnableTypes, KeyTypes
    <3> QED BY <2>1, <3>1, <3>2 DEF Progress
  <2> QED BY <1>4, <2>4, <2>5, <2>6 DEF RecordTaken
<1>5. CASE TakeHello \/ TakeFinished
  <2>1. /\ Len(hs) >= 2 /\ transcript' = Append(transcript, Parsed) /\ pc # "start" /\ pc \in Reassembling
    BY <1>5 DEF TakeHello, TakeFinished, NextHandshake, HasMessage, Absorb, Reassembling
  <2>2. Parsed \in Msg
    BY <1>0, <2>1, ParsedTypes
  <2>3. transcript # <<>> /\ transcript[1] = ClientHello
    BY <2>1 DEF Progress, Reassembling
  <2>4. transcript' # <<>> /\ transcript'[1] = ClientHello
    BY <1>0, <2>1, <2>2, <2>3
  <2>5. CASE TakeHello
    <3>1. UNCHANGED <<reading, writing, connected>>
      BY <2>5 DEF TakeHello, cipherVars
    <3>2. pc \in {"hello", "cert", "done"} /\ pc' \in {"cert", "done"}
      BY <2>5 DEF TakeHello
    <3> QED BY <2>4, <3>1, <3>2 DEF Progress
  <2>6. CASE TakeFinished
    <3>1. pc = "finished" /\ pc' = "open" /\ connected' = TRUE /\ UNCHANGED <<reading, writing>>
      BY <2>6 DEF TakeFinished, cipherVars
    <3> QED BY <2>4, <3>1 DEF Progress
  <2> QED BY <1>5, <2>5, <2>6
<1>6. CASE SendFlight
  <2>1. /\ pc = "done" /\ HasMessage /\ pc' \in {"ccs", "failed"}
        /\ transcript' = Append(transcript, Parsed) \o ClearPart \o <<Finished>>
        /\ writing' = Advance(Opened, <<Finished>>)
    BY <1>6, FlightEffect
  <2>2. Parsed \in Msg
    BY <1>0, <2>1, ParsedTypes DEF HasMessage
  <2>3. <<Finished>> \in Seq(Msg) /\ <<Finished>> \in SBody \cup CBody
    BY MessageTypes DEF CBody
  <2>4. writing'.on
    BY <1>0, <2>1, <2>3, SideTypes, OpenedTypes
  <2>5. transcript # <<>> /\ transcript[1] = ClientHello
    BY <2>1 DEF Progress
  <2>6. transcript' # <<>> /\ transcript'[1] = ClientHello
    BY <1>0, <2>1, <2>2, <2>3, <2>5, ClearTypes
  <2>7. UNCHANGED <<reading, connected>>
    BY <1>6 DEF SendFlight
  <2> QED BY <2>1, <2>4, <2>6, <2>7 DEF Progress
<1>7. CASE Refuse
  <2>1. pc' = "failed" /\ UNCHANGED <<reading, writing, transcript, connected>>
    BY <1>7 DEF Refuse, cipherVars, Fail
  <2> QED BY <2>1 DEF Progress
<1>8. CASE Send
  <2>1. <<asked + 1>> \in SBody \cup CBody
    BY DEF CBody, ClientShape
  <2>2. writing'.on = writing.on /\ UNCHANGED <<pc, reading, transcript, connected>>
    BY <1>0, <1>8, <2>1, SideTypes DEF Send
  <2> QED BY <2>2 DEF Progress
<1>9. CASE Close
  <2>1. <<"close_notify">> \in SBody \cup CBody
    BY DEF CBody, Alerts
  <2>2. writing'.on = writing.on /\ UNCHANGED <<reading, transcript, connected>> /\ pc' = "closed" /\ connected
    BY <1>0, <1>9, <2>1, SideTypes DEF Close
  <2>3. transcript # <<>>
    BY <1>9 DEF Close, Progress
  <2> QED BY <2>2, <2>3 DEF Progress
<1>10. CASE PeerSteps \/ Damage \/ UNCHANGED vars
  BY <1>10, PeerLeavesClient DEF Progress, clientVars, cipherVars
<1> QED
  BY <1>1, <1>2, <1>3, <1>4, <1>5, <1>6, <1>7, <1>8, <1>9, <1>10, StepKinds

\* The order survives a record put at the end that is no handshake record ...
LEMMA OrderAppend ==
  ASSUME Order, Wires, NEW r \in Sent, r.type \notin {"handshake", "ccs"}, c2s' = Append(c2s, r),
         writing.on, writing'.on, peer' = peer, c2s # <<>> \/ peer # "start", pc \notin {"start"},
         pc' \notin {"start"}
  PROVE  Order'
<1>0. c2s \in Seq(Sent)
  BY DEF Wires
<1>1. /\ c2s' \in Seq(Sent) /\ Len(c2s') = Len(c2s) + 1
      /\ \A i \in 1 .. Len(c2s) : c2s'[i] = c2s[i]
      /\ c2s'[Len(c2s) + 1] = r
  BY <1>0, AppendedRecord
<1>2. Len(c2s) \in Nat /\ DOMAIN c2s = 1 .. Len(c2s) /\ DOMAIN c2s' = 1 .. Len(c2s) + 1
      /\ (c2s # <<>> => 1 \in 1 .. Len(c2s))
  BY <1>0, <1>1
<1>3. \A i \in DOMAIN c2s' : IsHandshake(i)' => i \in DOMAIN c2s /\ IsHandshake(i) /\ c2s'[i] = c2s[i]
  BY <1>1, <1>2 DEF IsHandshake
<1>4. \A i \in DOMAIN c2s : IsHandshake(i)' <=> IsHandshake(i)
  BY <1>1, <1>2 DEF IsHandshake
<1>5. c2s' # <<>>
  BY <1>1, <1>2
<1>6. ASSUME peer \in {"start", "keys"}, NEW i \in DOMAIN c2s', NEW j \in DOMAIN c2s',
             i < j, ~IsHandshake(i)', IsHandshake(j)'
      PROVE  c2s'[i].type = "ccs" /\ j = i + 1
  <2>1. j \in DOMAIN c2s /\ IsHandshake(j)
    BY <1>3, <1>6
  <2>2. i \in DOMAIN c2s /\ c2s'[i] = c2s[i]
    BY <1>1, <1>2, <1>6, <2>1
  <2>3. ~IsHandshake(i)
    BY <1>4, <1>6, <2>2
  <2> QED BY <1>6, <2>1, <2>2, <2>3 DEF Order
<1> QED BY <1>2, <1>3, <1>4, <1>5, <1>6 DEF Order

\* Every step keeps the order of the records on the way to the server.
LEMMA OrderInductive ==
  Order /\ Progress /\ ClientShape /\ PeerShape /\ Wires /\ [Next]_vars => Order'
<1> SUFFICES ASSUME Order, Progress, ClientShape, PeerShape, Wires, [Next]_vars PROVE Order'
  OBVIOUS
<1>0. /\ c2s \in Seq(Sent) /\ writing \in Side /\ Len(c2s) \in Nat /\ DOMAIN c2s = 1 .. Len(c2s)
      /\ peer \in {"start", "keys", "fin", "finish", "open", "gone"} /\ asked \in Nat
  BY DEF Wires, ClientShape, PeerShape
<1>1. CASE Connect
  <2> DEFINE r == Protect(writing, "handshake", <<ClientHello>>)
  <2>1. /\ pc = "start" /\ pc' = "hello" /\ c2s = <<>> /\ c2s' = Append(c2s, r) /\ UNCHANGED <<peer, connected>>
    BY <1>1 DEF Connect, Order, peerVars
  <2>2. r \in Sent /\ r.type = "handshake"
    <3>1. r \in Sent
      BY <1>0, SentTypes, MessageTypes DEF ClientTypes
    <3>2. r.type = "handshake"
      BY DEF Protect
    <3> QED BY <3>1, <3>2
  <2> HIDE DEF r
  <2>3. c2s' # <<>> /\ DOMAIN c2s' = 1 .. 1 /\ c2s'[1] = r
    BY <1>0, <2>1, <2>2
  <2>4. \A i \in DOMAIN c2s' : i = 1 /\ IsHandshake(i)'
    BY <2>2, <2>3 DEF IsHandshake
  <2>5. ~writing.on /\ peer \in {"start", "keys", "gone"}
    BY <2>1 DEF Progress, Order
  <2> QED BY <2>1, <2>3, <2>4, <2>5 DEF Order
<1>2. CASE \E n \in {1, Len(s2c)} : Fill(n)
  BY <1>2 DEF Order, Fill, cipherVars, peerVars, IsHandshake
<1>3. CASE LocalFails
  <2>1. /\ pc' = "failed" /\ UNCHANGED <<writing, connected, c2s, peer>>
    BY <1>3, LocalFailsEffect DEF peerVars
  <2>2. \A i \in DOMAIN c2s : IsHandshake(i)' <=> IsHandshake(i)
    BY <2>1 DEF IsHandshake
  <2>3. IsHandshake(1)' <=> IsHandshake(1)
    BY <2>1 DEF IsHandshake
  <2>4. connected => c2s # <<>> \/ peer # "start"
    BY DEF Order
  <2> QED BY <2>1, <2>2, <2>3, <2>4 DEF Order
<1>4. CASE RecordTaken
  <2>1. /\ pc' \in {pc, "failed", "finished"} /\ Ready
        /\ UNCHANGED <<writing, connected, c2s, peer>>
    BY <1>4, RecordTakenEffect DEF peerVars, RecordTaken, HandleAlert, TakeFragment,
       TakeChangeCipherSpec, Deliver, Unexpected, Fail
  <2>2. \A i \in DOMAIN c2s : IsHandshake(i)' <=> IsHandshake(i)
    BY <2>1 DEF IsHandshake
  <2>3. IsHandshake(1)' <=> IsHandshake(1)
    BY <2>1 DEF IsHandshake
  <2>4. peer = "start" => c2s # <<>> /\ IsHandshake(1)
    BY <2>1 DEF Order, Ready, Waiting, Reassembling
  <2>5. pc # "start"
    BY <2>1 DEF Ready, Waiting, Reassembling
  <2> QED BY <2>1, <2>2, <2>3, <2>4, <2>5 DEF Order
<1>5. CASE TakeHello \/ TakeFinished \/ Refuse
  <2>1. /\ pc' # "start" /\ pc \in Reassembling /\ UNCHANGED <<writing, c2s, peer>>
    BY <1>5 DEF TakeHello, TakeFinished, Refuse, peerVars, cipherVars, Fail, NextHandshake, HasMessage
  <2>2. \A i \in DOMAIN c2s : IsHandshake(i)' <=> IsHandshake(i)
    BY <2>1 DEF IsHandshake
  <2>3. IsHandshake(1)' <=> IsHandshake(1)
    BY <2>1 DEF IsHandshake
  <2>4. peer = "start" => c2s # <<>> /\ IsHandshake(1)
    BY <2>1 DEF Order, Reassembling
  <2> QED BY <2>1, <2>2, <2>3, <2>4 DEF Order
<1>6. CASE SendFlight
  <2>1. /\ pc = "done" /\ pc' \in {"ccs", "failed"} /\ c2s' = c2s \o FlightRecords
        /\ writing' = Advance(Opened, <<Finished>>) /\ peer' = peer
    BY <1>6, FlightEffect DEF SendFlight, peerVars
  <2>2. /\ ~writing.on /\ peer \in {"start", "keys", "gone"} /\ \A i \in DOMAIN c2s : IsHandshake(i)
        /\ peer = "start" => c2s # <<>>
    BY <2>1 DEF Progress, Order
  <2>3. <<Finished>> \in SBody \cup CBody
    BY MessageTypes DEF CBody
  <2>4. writing'.on
    BY <1>0, <2>1, <2>3, SideTypes, OpenedTypes
  <2>5. /\ FlightRecords \in Seq(Sent) /\ Len(FlightRecords) = Len(ClearPart) + 2
        /\ Len(ClearPart) \in {1, 2}
        /\ \A i \in 1 .. Len(ClearPart) : FlightRecords[i].type = "handshake"
        /\ FlightRecords[Len(ClearPart) + 1].type = "ccs"
        /\ FlightRecords[Len(ClearPart) + 2].type = "handshake"
    <3>1. /\ \A b : Protect(writing, "handshake", b).type = "handshake"
          /\ Protect(writing, "ccs", <<1>>).type = "ccs"
          /\ Protect(Opened, "handshake", <<Finished>>).type = "handshake"
      BY DEF Protect
    <3>2. /\ FlightRecords \in Seq(Sent)
          /\ Len(FlightRecords) = Len(ClearPart) + 2
          /\ \A i \in 1 .. Len(ClearPart) :
               FlightRecords[i] = Protect(writing, "handshake", <<ClearPart[i]>>)
          /\ FlightRecords[Len(ClearPart) + 1] = Protect(writing, "ccs", <<1>>)
          /\ FlightRecords[Len(ClearPart) + 2] = Protect(Opened, "handshake", <<Finished>>)
      BY <1>0, FlightTypes
    <3>3. Len(ClearPart) \in {1, 2}
      BY ClearTypes
    <3>4. FlightRecords[Len(ClearPart) + 1].type = "ccs"
          /\ FlightRecords[Len(ClearPart) + 2].type = "handshake"
      BY ONLY <3>1, <3>2
    <3>5. \A i \in 1 .. Len(ClearPart) : FlightRecords[i].type = "handshake"
      BY ONLY <3>1, <3>2
    <3> QED BY ONLY <3>2, <3>3, <3>4, <3>5, Zenon
  <2>6. /\ Len(c2s \o FlightRecords) = Len(c2s) + Len(FlightRecords)
        /\ c2s \o FlightRecords \in Seq(Sent)
        /\ \A i \in 1 .. Len(c2s) : (c2s \o FlightRecords)[i] = c2s[i]
        /\ \A i \in 1 .. Len(FlightRecords) :
             (c2s \o FlightRecords)[Len(c2s) + i] = FlightRecords[i]
    <3>1. ASSUME NEW a \in Seq(Sent), NEW b \in Seq(Sent)
          PROVE  /\ Len(a \o b) = Len(a) + Len(b) /\ a \o b \in Seq(Sent)
                 /\ \A i \in 1 .. Len(a) : (a \o b)[i] = a[i]
                 /\ \A i \in 1 .. Len(b) : (a \o b)[Len(a) + i] = b[i]
      BY Joined
    <3> QED BY ONLY <1>0, <2>5, <3>1, Zenon
  <2> DEFINE K == Len(ClearPart)
             M == Len(c2s)
  <2>7. DOMAIN c2s' = 1 .. M + K + 2 /\ M \in Nat /\ K \in Nat
    BY <1>0, <2>1, <2>5, <2>6
  <2> HIDE DEF K, M
  <2>8. \A i \in 1 .. M : IsHandshake(i)'
    BY <1>0, <2>1, <2>2, <2>6 DEF IsHandshake, M
  <2>9. \A i \in 1 .. K + 2 : c2s'[M + i] = FlightRecords[i]
    BY <2>1, <2>5, <2>6 DEF K, M
  <2>10. c2s'[M + K + 1].type = "ccs"
    <3>1. K + 1 \in 1 .. K + 2 /\ M + (K + 1) = M + K + 1
      BY <2>7
    <3> QED BY <2>5, <2>9, <3>1 DEF K
  <2>11. \A i \in 1 .. M + K + 2 : i # M + K + 1 => IsHandshake(i)'
    <3> SUFFICES ASSUME NEW i \in 1 .. M + K + 2, i # M + K + 1 PROVE IsHandshake(i)'
      OBVIOUS
    <3>1. CASE i \in 1 .. M
      BY <3>1, <2>8
    <3>2. CASE i \notin 1 .. M
      <4>1. i - M \in 1 .. K + 2 /\ M + (i - M) = i /\ i - M # K + 1
        BY <2>7, <3>2
      <4>2. i - M \in 1 .. K \/ i - M = K + 2
        BY <2>7, <4>1
      <4>3. FlightRecords[i - M].type = "handshake"
        BY <2>5, <4>2 DEF K
      <4>4. c2s'[M + (i - M)] = FlightRecords[i - M]
        BY <2>9, <4>1
      <4> QED BY <4>1, <4>3, <4>4 DEF IsHandshake
    <3> QED BY <3>1, <3>2
  <2>12. ASSUME NEW i \in DOMAIN c2s', NEW j \in DOMAIN c2s', i < j, ~IsHandshake(i)', IsHandshake(j)'
         PROVE  c2s'[i].type = "ccs" /\ j = i + 1
    <3>1. i = M + K + 1
      BY <2>7, <2>11, <2>12
    <3>2. j = i + 1
      BY <2>7, <2>12, <3>1
    <3> QED BY <2>10, <3>1, <3>2
  <2>13. peer = "start" => IsHandshake(1)' /\ c2s' # <<>>
    <3> SUFFICES ASSUME peer = "start" PROVE IsHandshake(1)' /\ c2s' # <<>>
      OBVIOUS
    <3>1. M >= 1 /\ 1 \in 1 .. M
      BY <1>0, <2>2 DEF M
    <3>2. 1 \in DOMAIN c2s'
      BY <2>7, <3>1
    <3> QED BY <2>8, <3>1, <3>2
  <2> QED BY <2>1, <2>2, <2>4, <2>12, <2>13 DEF Order
<1>7. CASE Send \/ Close
  <2>1. PICK r \in Sent : r.type \notin {"handshake", "ccs"} /\ c2s' = Append(c2s, r)
    <3>1. CASE Send
      <4>1. asked + 1 \in Nat
        BY <1>0
      <4>2. Protect(writing, "data", <<asked + 1>>) \in Sent
        BY <1>0, <4>1, SentTypes
      <4>3. Protect(writing, "data", <<asked + 1>>).type = "data"
        BY DEF Protect
      <4> QED BY <3>1, <4>2, <4>3 DEF Send
    <3>2. CASE Close
      <4>1. Protect(writing, "alert", <<"close_notify">>) \in Sent
        BY <1>0, SentTypes
      <4>2. Protect(writing, "alert", <<"close_notify">>).type = "alert"
        BY DEF Protect
      <4> QED BY <3>2, <4>1, <4>2 DEF Close
    <3> QED BY <1>7, <3>1, <3>2
  <2>2. connected /\ pc # "start" /\ pc' # "start" /\ peer' = peer /\ writing.on
    BY <1>7 DEF Send, Close, Progress, peerVars
  <2>3. writing'.on
    <3>1. <<asked + 1>> \in SBody \cup CBody /\ <<"close_notify">> \in SBody \cup CBody
      BY <1>0 DEF CBody, Alerts
    <3> QED BY <1>0, <1>7, <2>2, <3>1, SideTypes DEF Send, Close
  <2>4. c2s # <<>> \/ peer # "start"
    BY <2>2 DEF Order
  <2> QED BY <2>1, <2>2, <2>3, <2>4, OrderAppend
<1>8. CASE (\E f \in Flights : PeerHello(f)) \/ PeerHandshake \/ PeerChangeCipherSpec \/ PeerHears
             \/ PeerRejects
  <2>1. /\ c2s # <<>> /\ c2s' = Tail(c2s) /\ UNCHANGED <<pc, writing, connected>>
    BY <1>8 DEF PeerHello, PeerHandshake, PeerChangeCipherSpec, PeerHears, PeerRejects, PeerTakes,
                clientVars, cipherVars
  <2>2. /\ Len(c2s') = Len(c2s) - 1 /\ c2s' \in Seq(Sent)
        /\ \A i \in 1 .. Len(c2s) - 1 : c2s'[i] = c2s[i + 1]
    BY <2>1, IncomingTypes
  <2>3. DOMAIN c2s' = 1 .. Len(c2s) - 1 /\ 1 \in DOMAIN c2s
    BY <1>0, <2>1, <2>2
  <2>4. \A i \in DOMAIN c2s' : /\ i + 1 \in DOMAIN c2s /\ c2s'[i] = c2s[i + 1] /\ i \in Nat /\ i + 1 > 1
                               /\ IsHandshake(i)' <=> IsHandshake(i + 1)
    BY <1>0, <2>2, <2>3 DEF IsHandshake
  <2>5. pc # "start"
    BY <2>1 DEF Order
  <2>6. ~writing.on => \A i \in DOMAIN c2s' : IsHandshake(i)'
    BY <2>4 DEF Order
  <2>7. ASSUME peer \in {"start", "keys"}, NEW i \in DOMAIN c2s', NEW j \in DOMAIN c2s', i < j,
               ~IsHandshake(i)', IsHandshake(j)'
        PROVE  c2s'[i].type = "ccs" /\ j = i + 1
    <3>1. i + 1 < j + 1 /\ ~IsHandshake(i + 1) /\ IsHandshake(j + 1) /\ i \in Nat /\ j \in Nat
      BY <2>4, <2>7
    <3>2. c2s[i + 1].type = "ccs" /\ j + 1 = (i + 1) + 1
      BY <2>4, <2>7, <3>1 DEF Order
    <3> QED BY <2>4, <3>1, <3>2
  <2>8. CASE \E f \in Flights : PeerHello(f)
    <3>1. peer = "start" /\ peer' = "keys"
      BY <2>8 DEF PeerHello
    <3> QED BY <2>1, <2>5, <2>6, <2>7, <3>1 DEF Order
  <2>9. CASE PeerHandshake
    <3>1. peer \in {"keys", "fin", "open"} /\ IsHandshake(1) /\ peer' = IF peer = "fin" THEN "finish" ELSE peer
      BY <2>1, <2>9, IncomingTypes DEF PeerHandshake, PeerTakes, IsHandshake
    <3>2. peer # "open"
      BY <2>3, <3>1 DEF Order
    <3>3. CASE peer = "keys"
      BY <2>1, <2>5, <2>6, <2>7, <3>1, <3>3 DEF Order
    <3>4. CASE peer = "fin"
      <4>1. writing.on /\ \A i \in DOMAIN c2s : i > 1 => ~IsHandshake(i)
        BY <3>4 DEF Order
      <4>2. \A i \in DOMAIN c2s' : ~IsHandshake(i)'
        BY <2>4, <4>1
      <4> QED BY <2>1, <2>5, <3>1, <3>4, <4>1, <4>2 DEF Order
    <3> QED BY <3>1, <3>2, <3>3, <3>4
  <2>10. CASE PeerChangeCipherSpec
    <3>1. peer = "keys" /\ c2s[1].type = "ccs" /\ peer' = "fin"
      BY <2>1, <2>10, IncomingTypes DEF PeerChangeCipherSpec, PeerTakes
    <3>2. ~IsHandshake(1) /\ writing.on
      BY <2>3, <3>1 DEF IsHandshake, Order
    <3>3. ASSUME NEW i \in DOMAIN c2s', i > 1, IsHandshake(i)'
          PROVE  FALSE
      <4>1. i + 1 \in DOMAIN c2s /\ IsHandshake(i + 1) /\ i \in Nat /\ 1 < i + 1
        BY <2>4, <3>3
      <4>2. i + 1 = 1 + 1
        BY <2>3, <3>1, <3>2, <4>1 DEF Order
      <4> QED BY <3>3, <4>1, <4>2
    <3> QED BY <2>1, <2>5, <3>1, <3>2, <3>3 DEF Order
  <2>11. CASE PeerHears
    <3>1. peer = "open" /\ peer' = peer
      BY <2>11 DEF PeerHears
    <3>2. writing.on /\ \A i \in DOMAIN c2s' : ~IsHandshake(i)'
      BY <2>4, <3>1 DEF Order
    <3> QED BY <2>1, <2>5, <3>1, <3>2 DEF Order
  <2>12. CASE PeerRejects
    <3>1. peer' = "gone"
      BY <2>12 DEF PeerRejects
    <3> QED BY <2>1, <2>5, <2>6, <3>1 DEF Order
  <2> QED BY <1>8, <2>8, <2>9, <2>10, <2>11, <2>12
<1>9. CASE (\E n \in DOMAIN pending : PeerEmit(n)) \/ PeerSends \/ (\E a \in Alerts : PeerAlerts(a))
             \/ PeerHangsUp \/ PeerFinish \/ UNCHANGED vars
  <2>1. UNCHANGED <<pc, writing, connected>>
    <3>1. UNCHANGED clientVars
      BY <1>9, PeerLeavesClient DEF PeerSteps
    <3> QED BY <3>1 DEF clientVars, cipherVars
  <2>4. UNCHANGED c2s
    BY <1>9 DEF PeerEmit, PeerSends, PeerAlerts, PeerHangsUp, PeerFinish, vars
  <2>5. peer' = peer \/ peer' = "gone" \/ (peer = "finish" /\ peer' = "open")
    <3>1. CASE (\E n \in DOMAIN pending : PeerEmit(n)) \/ PeerSends
      BY <3>1 DEF PeerEmit, PeerSends
    <3>2. CASE \E a \in Alerts : PeerAlerts(a)
      BY <3>2 DEF PeerAlerts
    <3>3. CASE PeerHangsUp \/ PeerFinish
      BY <3>3 DEF PeerHangsUp, PeerFinish
    <3>4. CASE UNCHANGED vars
      BY <3>4 DEF vars, peerVars
    <3> QED BY <1>9, <3>1, <3>2, <3>3, <3>4
  <2>2. \A i \in DOMAIN c2s : IsHandshake(i)' <=> IsHandshake(i)
    BY <2>4 DEF IsHandshake
  <2>3. IsHandshake(1)' <=> IsHandshake(1)
    BY <2>4 DEF IsHandshake
  <2> QED BY <2>1, <2>2, <2>3, <2>4, <2>5 DEF Order
<1>10. CASE Damage
  <2>1. /\ UNCHANGED <<pc, writing, connected, peer>> /\ c2s' \in Seq(Sent) /\ Len(c2s') = Len(c2s)
        /\ \A i \in 1 .. Len(c2s) : c2s'[i].type = c2s[i].type
    BY <1>10, DamageEffect DEF clientVars, cipherVars, peerVars
  <2>2. DOMAIN c2s' = DOMAIN c2s /\ (c2s = <<>> <=> c2s' = <<>>)
    BY <1>0, <2>1
  <2>3. \A i \in DOMAIN c2s : (IsHandshake(i)' <=> IsHandshake(i)) /\ c2s'[i].type = c2s[i].type
    BY <1>0, <2>1 DEF IsHandshake
  <2>4. c2s # <<>> => 1 \in DOMAIN c2s
    BY <1>0
  <2> QED BY <2>1, <2>2, <2>3, <2>4 DEF Order
<1> QED
  BY <1>1, <1>2, <1>3, <1>4, <1>5, <1>6, <1>7, <1>8, <1>9, <1>10, StepKinds DEF PeerSteps

-----------------------------------------------------------------------------
\* The server's transcript is left alone after its Finished.
LEMMA ClosedInductive ==
  Closed /\ Order /\ PeerShape /\ Wires /\ [Next]_vars => Closed'
<1> SUFFICES ASSUME Closed, Order, PeerShape, Wires, [Next]_vars PROVE Closed'
  OBVIOUS
<1>1. CASE UNCHANGED peerVars
  BY <1>1 DEF Closed, peerVars
<1>2. CASE \E f \in Flights : PeerHello(f)
  BY <1>2 DEF Closed, PeerHello
<1>3. CASE PeerHandshake
  <2>1. peer \in {"keys", "fin", "open"} /\ IsHandshake(1) /\ finOver' = finOver /\ c2s # <<>>
    BY <1>3, IncomingTypes DEF PeerHandshake, PeerTakes, IsHandshake
  <2>2. 1 \in DOMAIN c2s
    BY <2>1 DEF Wires
  <2>3. peer # "open"
    BY <2>1, <2>2 DEF Order
  <2> QED BY <2>1, <2>3 DEF Closed
<1>4. CASE PeerChangeCipherSpec
  BY <1>4 DEF Closed, PeerChangeCipherSpec
<1>5. CASE PeerFinish
  BY <1>5 DEF Closed, PeerFinish
<1>6. CASE (\E n \in DOMAIN pending : PeerEmit(n)) \/ PeerSends \/ PeerHears
  BY <1>6 DEF Closed, PeerEmit, PeerSends, PeerHears
<1>7. CASE \E a \in Alerts : PeerAlerts(a)
  BY <1>7 DEF Closed, PeerAlerts
<1>8. CASE PeerRejects \/ PeerHangsUp
  BY <1>8 DEF Closed, PeerRejects, PeerHangsUp
<1> QED
  BY <1>1, <1>2, <1>3, <1>4, <1>5, <1>6, <1>7, <1>8, StepKinds, ClientLeavesPeer DEF PeerSteps

\* The transcript after our flight.
LEMMA FlightTranscript ==
  ASSUME NEW t \in Seq(Msg), NEW m \in Msg, NEW c \in Seq(Msg), NEW f \in Msg
  PROVE  LET u == Append(t, m) \o c \o <<f>>
         IN  /\ u \in Seq(Msg) /\ Len(u) = Len(t) + Len(c) + 2
             /\ \A i \in 1 .. Len(t) : u[i] = t[i]
             /\ u[Len(t) + 1] = m
             /\ \A i \in 1 .. Len(c) : u[Len(t) + 1 + i] = c[i]
             /\ u[Len(t) + Len(c) + 2] = f
<1>0. ASSUME NEW x \in Seq(Msg), NEW y \in Seq(Msg)
      PROVE  /\ x \o y \in Seq(Msg) /\ Len(x \o y) = Len(x) + Len(y)
             /\ \A i \in 1 .. Len(x) : (x \o y)[i] = x[i]
             /\ \A i \in 1 .. Len(y) : (x \o y)[Len(x) + i] = y[i]
  BY Joined
<1> DEFINE a == Append(t, m)
           z == <<f>>
<1>1. /\ a \in Seq(Msg) /\ Len(a) = Len(t) + 1 /\ a[Len(t) + 1] = m
      /\ \A i \in 1 .. Len(t) : a[i] = t[i]
  BY AppendedRecord
<1>2. z \in Seq(Msg) /\ Len(z) = 1 /\ z[1] = f
  OBVIOUS
<1> HIDE DEF a, z
<1>3. /\ a \o c \in Seq(Msg) /\ Len(a \o c) = Len(a) + Len(c)
      /\ \A i \in 1 .. Len(a) : (a \o c)[i] = a[i]
      /\ \A i \in 1 .. Len(c) : (a \o c)[Len(a) + i] = c[i]
  BY ONLY <1>0, <1>1, Zenon
<1> DEFINE b == a \o c
<1> HIDE DEF b
<1>4. /\ b \o z \in Seq(Msg) /\ Len(b \o z) = Len(b) + Len(z)
      /\ \A i \in 1 .. Len(b) : (b \o z)[i] = b[i]
      /\ \A i \in 1 .. Len(z) : (b \o z)[Len(b) + i] = z[i]
  <2>1. b \in Seq(Msg)
    BY <1>3 DEF b
  <2> QED BY ONLY <1>0, <1>2, <2>1, Zenon
<1>5. Len(b) = Len(t) + 1 + Len(c) /\ Len(t) \in Nat /\ Len(c) \in Nat
  BY <1>1, <1>3 DEF b
<1>6. \A i \in 1 .. Len(t) : (b \o z)[i] = t[i]
  BY <1>1, <1>3, <1>4, <1>5 DEF b
<1>7. (b \o z)[Len(t) + 1] = m
  <2>1. Len(t) + 1 \in 1 .. Len(b) /\ Len(t) + 1 \in 1 .. Len(a)
    BY <1>1, <1>5
  <2> QED BY <1>1, <1>3, <1>4, <2>1 DEF b
<1>8. \A i \in 1 .. Len(c) : (b \o z)[Len(t) + 1 + i] = c[i]
  <2> SUFFICES ASSUME NEW i \in 1 .. Len(c) PROVE (b \o z)[Len(t) + 1 + i] = c[i]
    OBVIOUS
  <2>1. Len(t) + 1 + i \in 1 .. Len(b) /\ Len(t) + 1 + i = Len(a) + i
    BY <1>1, <1>5
  <2>2. b[Len(a) + i] = c[i]
    BY <1>3 DEF b
  <2> QED BY <1>4, <2>1, <2>2
<1>9. (b \o z)[Len(t) + Len(c) + 2] = f
  <2>1. 1 \in 1 .. Len(z) /\ Len(b) + 1 = Len(t) + Len(c) + 2
    BY <1>2, <1>5
  <2>2. (b \o z)[Len(b) + 1] = z[1]
    BY <1>4, <2>1
  <2> QED BY <1>2, <2>1, <2>2
<1>10. Len(b \o z) = Len(t) + Len(c) + 2
  BY <1>2, <1>4, <1>5
<1> QED BY <1>4, <1>6, <1>7, <1>8, <1>9, <1>10 DEF a, b, z

\* Every step keeps the client's account of the handshake.
LEMMA ClientPartInductive ==
  ClientPart /\ Progress /\ ClientShape /\ Wires /\ [Next]_vars => ClientPart'
<1> SUFFICES ASSUME ClientPart, Progress, ClientShape, Wires, [Next]_vars PROVE ClientPart'
  OBVIOUS
<1>0. /\ reading \in Side /\ writing \in Side /\ transcript \in Seq(Msg) /\ hs \in Seq(Piece)
      /\ Len(transcript) \in Nat /\ DOMAIN transcript = 1 .. Len(transcript) /\ asked \in Nat
  BY DEF ClientShape
<1>1. CASE Connect
  <2>1. <<ClientHello>> \in SBody \cup CBody
    BY MessageTypes DEF CBody
  <2>2. ~writing'.on
    BY <1>0, <1>1, <2>1, SideTypes DEF Connect, Progress
  <2>3. reading' = reading /\ ~reading.on
    BY <1>1 DEF Connect, Progress
  <2> QED BY <2>2, <2>3 DEF ClientPart
<1>2. CASE \E n \in {1, Len(s2c)} : Fill(n)
  BY <1>2 DEF ClientPart, Fill, cipherVars
<1>3. CASE LocalFails
  BY <1>3, LocalFailsEffect DEF ClientPart
<1>4. CASE RecordTaken
  <2>1. Ready /\ UNCHANGED <<transcript, writing>>
    BY <1>4, RecordTakenEffect
  <2>2. Record.body \in SBody \cup CBody
    BY <2>1, ReadyRecord DEF Ready
  <2> DEFINE w == Advance(reading, Record.body)
  <2>3. w \in Side /\ w.on = reading.on /\ w.key = reading.key
    BY <1>0, <2>2, SideTypes
  <2> HIDE DEF w
  <2>4. CASE reading' = w
    BY <2>1, <2>3, <2>4 DEF ClientPart
  <2>5. CASE reading' = Enable(ClientKey, w)
    <3>1. reading'.key = ClientKey
      BY <2>3, <2>5, EnableTypes, KeyTypes
    <3> QED BY <2>1, <3>1, KeyTypes DEF ClientPart
  <2>6. reading' = w \/ reading' = Enable(ClientKey, w)
    BY <1>4 DEF RecordTaken, HandleAlert, TakeFragment, TakeChangeCipherSpec, Deliver, Unexpected, w
  <2> QED BY <2>4, <2>5, <2>6
<1>5. CASE TakeHello \/ TakeFinished
  <2>1. /\ Len(hs) >= 2 /\ transcript' = Append(transcript, Parsed) /\ UNCHANGED <<reading, writing>>
    BY <1>5 DEF TakeHello, TakeFinished, NextHandshake, HasMessage, Absorb, cipherVars
  <2>2. Parsed \in Msg
    BY <1>0, <2>1, ParsedTypes
  <2>3. /\ transcript' \in Seq(Msg) /\ Len(transcript') = Len(transcript) + 1
        /\ \A i \in 1 .. Len(transcript) : transcript'[i] = transcript[i]
        /\ transcript'[Len(transcript) + 1] = Parsed
    BY <1>0, <2>1, <2>2, AppendedRecord
  <2>4. DOMAIN transcript' = 1 .. Len(transcript) + 1 /\ DOMAIN transcript \subseteq DOMAIN transcript'
    BY <1>0, <2>3
  <2>5. (\E i \in DOMAIN transcript : transcript[i].alt) => \E i \in DOMAIN transcript' : transcript'[i].alt
    BY <1>0, <2>3, <2>4
  <2>6. ASSUME writing.on
        PROVE  \E p \in DOMAIN transcript' :
                 /\ transcript'[p].ht = "server_hello_done"
                 /\ \A i \in DOMAIN transcript' : i > p => ~transcript'[i].alt
    <3>1. ~TakeHello
      BY <2>6 DEF TakeHello, Progress
    <3>2. ~Parsed.alt
      BY <1>5, <3>1 DEF TakeFinished, Verified
    <3>3. PICK p \in DOMAIN transcript :
                 /\ transcript[p].ht = "server_hello_done"
                 /\ \A i \in DOMAIN transcript : i > p => ~transcript[i].alt
      BY <2>6 DEF ClientPart
    <3>4. p \in DOMAIN transcript' /\ transcript'[p].ht = "server_hello_done"
      BY <1>0, <2>3, <2>4, <3>3
    <3>5. \A i \in DOMAIN transcript' : i \in DOMAIN transcript \/ i = Len(transcript) + 1
      BY <1>0, <2>4
    <3>6. \A i \in DOMAIN transcript' : i > p => ~transcript'[i].alt
      BY <1>0, <2>3, <3>2, <3>3, <3>5
    <3> QED BY <3>4, <3>6
  <2> QED BY <2>1, <2>5, <2>6 DEF ClientPart
<1>6. CASE SendFlight
  <2>1. /\ pc = "done" /\ HasMessage /\ Parsed.ht = "server_hello_done"
        /\ transcript' = Append(transcript, Parsed) \o ClearPart \o <<Finished>>
        /\ writing' = Advance(Opened, <<Finished>>) /\ reading' = reading
    BY <1>6, FlightEffect DEF SendFlight
  <2>2. Parsed \in Msg
    BY <1>0, <2>1, ParsedTypes DEF HasMessage
  <2>3. ClearPart \in Seq(Msg) /\ Finished \in Msg /\ ~Finished.alt /\ Len(ClearPart) \in Nat
        /\ \A i \in 1 .. Len(ClearPart) : ~ClearPart[i].alt
    BY ClearTypes, MessageTypes
  <2>4. /\ transcript' \in Seq(Msg) /\ Len(transcript') = Len(transcript) + Len(ClearPart) + 2
        /\ \A i \in 1 .. Len(transcript) : transcript'[i] = transcript[i]
        /\ transcript'[Len(transcript) + 1] = Parsed
        /\ \A i \in 1 .. Len(ClearPart) : transcript'[Len(transcript) + 1 + i] = ClearPart[i]
        /\ transcript'[Len(transcript) + Len(ClearPart) + 2] = Finished
    BY <1>0, <2>1, <2>2, <2>3, FlightTranscript
  <2>5. /\ DOMAIN transcript' = 1 .. Len(transcript) + Len(ClearPart) + 2
        /\ Len(transcript) + 1 \in DOMAIN transcript'
    BY <1>0, <2>3, <2>4
  <2>6. ASSUME NEW i \in DOMAIN transcript', i > Len(transcript) + 1 PROVE ~transcript'[i].alt
    <3>1. CASE i = Len(transcript) + Len(ClearPart) + 2
      BY <2>3, <2>4, <3>1
    <3>2. CASE i # Len(transcript) + Len(ClearPart) + 2
      <4>1. i - (Len(transcript) + 1) \in 1 .. Len(ClearPart)
            /\ Len(transcript) + 1 + (i - (Len(transcript) + 1)) = i
        <5>1. ASSUME NEW n \in Nat, NEW k \in Nat, NEW j \in 1 .. n + k + 2, j > n + 1, j # n + k + 2
              PROVE  j - (n + 1) \in 1 .. k /\ n + 1 + (j - (n + 1)) = j
          BY <5>1
        <5> QED BY ONLY <1>0, <2>3, <2>5, <2>6, <3>2, <5>1, Zenon
      <4>2. transcript'[Len(transcript) + 1 + (i - (Len(transcript) + 1))]
              = ClearPart[i - (Len(transcript) + 1)]
        BY <2>4, <4>1
      <4> QED BY <2>3, <4>1, <4>2
    <3> QED BY <3>1, <3>2
  <2>7. \E p \in DOMAIN transcript' :
          /\ transcript'[p].ht = "server_hello_done"
          /\ \A i \in DOMAIN transcript' : i > p => ~transcript'[i].alt
    BY <2>1, <2>4, <2>5, <2>6
  <2>8. <<Finished>> \in SBody \cup CBody
    BY <2>3 DEF CBody
  <2>9. writing'.key = FlightKey
    BY <1>0, <2>1, <2>8, SideTypes, OpenedTypes
  <2>10. FlightKey # "shared" => \E i \in DOMAIN transcript' : transcript'[i].alt
    <3> SUFFICES ASSUME FlightKey # "shared" PROVE \E i \in DOMAIN transcript' : transcript'[i].alt
      OBVIOUS
    <3>1. PICK i \in DOMAIN Append(transcript, Parsed) : Append(transcript, Parsed)[i].alt
      BY KeyTypes DEF FlightKey
    <3>2. /\ DOMAIN Append(transcript, Parsed) = 1 .. Len(transcript) + 1
          /\ \A j \in 1 .. Len(transcript) : Append(transcript, Parsed)[j] = transcript[j]
          /\ Append(transcript, Parsed)[Len(transcript) + 1] = Parsed
      BY <1>0, <2>2
    <3>3. i \in DOMAIN transcript' /\ transcript'[i] = Append(transcript, Parsed)[i]
      BY <1>0, <2>3, <2>4, <2>5, <3>1, <3>2
    <3> QED BY <3>1, <3>3
  <2>11. ~reading.on
    BY <2>1 DEF Progress
  <2> QED BY <2>1, <2>7, <2>9, <2>10, <2>11 DEF ClientPart
<1>7. CASE Refuse
  BY <1>7 DEF ClientPart, Refuse, cipherVars
<1>8. CASE Send
  <2>1. <<asked + 1>> \in SBody \cup CBody
    BY <1>0 DEF CBody
  <2>2. writing'.on = writing.on /\ writing'.key = writing.key /\ UNCHANGED <<reading, transcript>>
    BY <1>0, <1>8, <2>1, SideTypes DEF Send
  <2> QED BY <2>2 DEF ClientPart
<1>9. CASE Close
  <2>1. <<"close_notify">> \in SBody \cup CBody
    BY DEF CBody, Alerts
  <2>2. writing'.on = writing.on /\ writing'.key = writing.key /\ UNCHANGED <<reading, transcript>>
    BY <1>0, <1>9, <2>1, SideTypes DEF Close
  <2> QED BY <2>2 DEF ClientPart
<1>10. CASE PeerSteps \/ Damage \/ UNCHANGED vars
  BY <1>10, PeerLeavesClient DEF ClientPart, clientVars, cipherVars
<1> QED
  BY <1>1, <1>2, <1>3, <1>4, <1>5, <1>6, <1>7, <1>8, <1>9, <1>10, StepKinds

\* Every step keeps the server's account of the handshake.
LEMMA PeerPartInductive ==
  PeerPart /\ Order /\ PeerShape /\ Wires /\ [Next]_vars => PeerPart'
<1> SUFFICES ASSUME PeerPart, Order, PeerShape, Wires, [Next]_vars PROVE PeerPart'
  OBVIOUS
<1>0. /\ peerTranscript \in Seq(Msg) /\ Len(peerTranscript) \in Nat
      /\ DOMAIN peerTranscript = 1 .. Len(peerTranscript)
  BY DEF PeerShape
<1>1. CASE UNCHANGED peerTranscript
  BY <1>1 DEF PeerPart
<1>2. ASSUME NEW f \in Flights, PeerHello(f)
      PROVE  PeerPart'
  <2> DEFINE g == [i \in DOMAIN f |-> Message(f[i])]
             h == Fragment(Incoming)
  <2>1. c2s # <<>> /\ peer = "start" /\ peerTranscript' = h \o g
    BY <1>2 DEF PeerHello, Incoming
  <2>2. Incoming.type = "handshake" /\ Incoming.body \in Seq(Msg) /\ Len(Incoming.body) = 1
    BY <2>1, IncomingTypes DEF Order, IsHandshake, ClientHolds
  <2>3. h \in Seq(Msg) /\ Len(h) = 1
    BY <2>2, FragmentTypes
  <2>4. g \in Seq(Msg) /\ \A i \in 1 .. Len(g) : ~g[i].alt
    BY FlightMessages
  <2> HIDE DEF g, h
  <2>5. /\ Len(h \o g) = Len(h) + Len(g) /\ DOMAIN (h \o g) = 1 .. Len(h) + Len(g)
        /\ \A i \in 1 .. Len(g) : (h \o g)[Len(h) + i] = g[i]
    BY <2>3, <2>4, Joined
  <2>6. \A i \in DOMAIN peerTranscript' : i > 1 => ~peerTranscript'[i].alt
    <3> SUFFICES ASSUME NEW i \in DOMAIN peerTranscript', i > 1 PROVE ~peerTranscript'[i].alt
      OBVIOUS
    <3>1. i \in 1 .. 1 + Len(g) /\ Len(g) \in Nat
      BY <2>1, <2>3, <2>4, <2>5
    <3>2. i - 1 \in 1 .. Len(g) /\ Len(h) + (i - 1) = i
      BY <2>3, <3>1
    <3>3. (h \o g)[Len(h) + (i - 1)] = g[i - 1]
      BY <2>5, <3>2
    <3> QED BY <2>1, <2>4, <3>2, <3>3
  <2> QED BY <2>6 DEF PeerPart
<1>3. ASSUME NEW m \in Msg, peerTranscript' = Append(peerTranscript, m), m.ht # "server_hello_done"
      PROVE  PeerPart'
  <2>1. /\ Len(peerTranscript') = Len(peerTranscript) + 1
        /\ DOMAIN peerTranscript' = 1 .. Len(peerTranscript) + 1
        /\ \A i \in 1 .. Len(peerTranscript) : peerTranscript'[i] = peerTranscript[i]
        /\ peerTranscript'[Len(peerTranscript) + 1] = m
    BY <1>0, <1>3
  <2> SUFFICES ASSUME NEW i \in DOMAIN peerTranscript', NEW p \in DOMAIN peerTranscript',
                      i > 1, i <= p, peerTranscript'[i].alt
               PROVE  peerTranscript'[p].ht # "server_hello_done"
    BY DEF PeerPart
  <2>2. CASE p = Len(peerTranscript) + 1
    BY <1>3, <2>1, <2>2
  <2>3. CASE p # Len(peerTranscript) + 1
    <3>1. i \in 1 .. Len(peerTranscript) /\ p \in 1 .. Len(peerTranscript)
      BY <1>0, <2>1, <2>3
    <3> QED BY <1>0, <2>1, <3>1 DEF PeerPart
  <2> QED BY <2>2, <2>3
<1>4. CASE PeerHandshake
  <2> DEFINE h == Fragment(Incoming)
  <2>1. c2s # <<>> /\ Incoming.type = "handshake" /\ peerTranscript' = peerTranscript \o h
    BY <1>4 DEF PeerHandshake, PeerTakes
  <2>2. Incoming.body \in Seq(Msg) /\ Len(Incoming.body) = 1 /\ Incoming.body[1].ht \in ClientTypes
    BY <2>1, IncomingTypes DEF ClientHolds
  <2>3. h \in Seq(Msg) /\ Len(h) = 1 /\ h[1].ht = Incoming.body[1].ht
    BY <2>1, <2>2, FragmentTypes
  <2> HIDE DEF h
  <2>4. h[1] \in Msg /\ h[1].ht # "server_hello_done"
    BY <2>2, <2>3 DEF ClientTypes
  <2>5. peerTranscript \o h = Append(peerTranscript, h[1])
    <3>1. ASSUME NEW t \in Seq(Msg), NEW m \in Msg
          PROVE  t \o <<m>> = Append(t, m)
      OBVIOUS
    <3>2. h = <<h[1]>>
      BY <2>3
    <3>3. peerTranscript \o <<h[1]>> = Append(peerTranscript, h[1])
      BY <1>0, <2>4, <3>1, Zenon
    <3> QED BY <3>2, <3>3, Zenon
  <2> QED BY <1>3, <2>1, <2>4, <2>5
<1>5. CASE PeerFinish
  BY <1>3, <1>5, MessageTypes DEF PeerFinish
<1>6. CASE (\E n \in DOMAIN pending : PeerEmit(n)) \/ PeerSends \/ PeerHears \/ PeerChangeCipherSpec
  BY <1>1, <1>6 DEF PeerEmit, PeerSends, PeerHears, PeerChangeCipherSpec
<1>7. CASE (\E a \in Alerts : PeerAlerts(a)) \/ PeerRejects \/ PeerHangsUp
  BY <1>1, <1>7 DEF PeerAlerts, PeerRejects, PeerHangsUp
<1>8. CASE UNCHANGED peerVars
  BY <1>1, <1>8 DEF peerVars
<1> QED
  BY <1>2, <1>4, <1>5, <1>6, <1>7, <1>8, StepKinds, ClientLeavesPeer DEF PeerSteps

\* Only check_finished() lets a client be connected.
LEMMA BoundInductive ==
  Bound /\ Closed /\ Progress /\ ClientShape /\ Wires /\ [Next]_vars => Bound'
<1> SUFFICES ASSUME Bound, Closed, Progress, ClientShape, Wires, [Next]_vars PROVE Bound'
  OBVIOUS
<1>1. CASE UNCHANGED <<connected, transcript, finOver>>
  BY <1>1 DEF Bound
<1>2. CASE Connect \/ TakeHello \/ SendFlight
  <2>1. ~connected
    BY <1>2 DEF Connect, TakeHello, SendFlight, Progress
  <2>2. connected' = connected
    BY <1>2 DEF Connect, TakeHello, SendFlight
  <2> QED BY <2>1, <2>2 DEF Bound
<1>3. CASE TakeFinished
  <2>1. /\ pc = "finished" /\ Len(hs) >= 2 /\ Parsed.ht = "finished" /\ ~Parsed.alt
        /\ finOver = transcript /\ transcript' = Append(transcript, Parsed) /\ finOver' = finOver
    BY <1>3 DEF TakeFinished, NextHandshake, HasMessage, Absorb, Verified, peerVars
  <2>2. Parsed = Message("finished")
    BY <2>1, ParsedTypes DEF ClientShape
  <2>3. transcript # <<>>
    BY <2>1 DEF Progress
  <2> QED BY <2>1, <2>2, <2>3 DEF Bound, Finished
<1>4. CASE (\E n \in {1, Len(s2c)} : Fill(n)) \/ Refuse \/ Send \/ Close
  BY <1>1, <1>4 DEF Fill, Refuse, Send, Close, peerVars
<1>5. CASE LocalFails \/ RecordTaken
  BY <1>1, <1>5, LocalFailsEffect, RecordTakenEffect DEF peerVars
<1>6. CASE PeerSteps
  <2>1. UNCHANGED <<connected, transcript>>
    BY <1>6, PeerLeavesClient DEF clientVars
  <2>2. CASE PeerFinish
    <3>1. peer = "finish"
      BY <2>2 DEF PeerFinish
    <3>2. finOver = <<>>
      BY <3>1 DEF Closed
    <3> QED BY <2>1, <3>2 DEF Bound
  <2>3. CASE ~PeerFinish
    <3>1. finOver' = finOver
      BY <1>6, <2>3 DEF PeerSteps, PeerHello, PeerEmit, PeerHandshake, PeerChangeCipherSpec,
         PeerRejects, PeerHears, PeerSends, PeerAlerts, PeerHangsUp
    <3> QED BY <1>1, <2>1, <3>1
  <2> QED BY <2>2, <2>3
<1>7. CASE Damage \/ UNCHANGED vars
  BY <1>1, <1>7, PeerLeavesClient, ClientLeavesPeer DEF clientVars, peerVars
<1> QED BY <1>2, <1>3, <1>4, <1>5, <1>6, <1>7, StepKinds

-----------------------------------------------------------------------------
\* The inductive invariant of the handshake.
Shapes    == ClientShape /\ Flags /\ PeerShape /\ Wires
Handshake == Progress /\ Order /\ Closed /\ ClientPart /\ PeerPart /\ Bound

\* It holds before the socket is opened ...
LEMMA InitShapes == Init => Shapes
<1> SUFFICES ASSUME Init PROVE Shapes
  OBVIOUS
<1>1. ClientShape
  BY NullType DEF Init, ClientShape, Stages
<1>2. Flags
  BY DEF Init, Flags
<1>3. PeerShape
  BY NullType DEF Init, PeerShape
<1>4. Wires
  BY DEF Init, Wires
<1> QED BY <1>1, <1>2, <1>3, <1>4 DEF Shapes

LEMMA InitHandshake == Init => Handshake
<1> SUFFICES ASSUME Init PROVE Handshake
  OBVIOUS
<1>1. Progress
  BY NullType DEF Init, Progress
<1>2. Order
  BY NullType DEF Init, Order, IsHandshake
<1>3. Closed /\ Bound
  BY DEF Init, Closed, Bound
<1>4. ClientPart
  BY NullType DEF Init, ClientPart
<1>5. PeerPart
  BY DEF Init, PeerPart
<1> QED BY <1>1, <1>2, <1>3, <1>4, <1>5 DEF Handshake

\* What the invariant says of a connected client.
LEMMA HandshakeAgrees ==
  ASSUME Shapes, Handshake
  PROVE  Agreement
<1> SUFFICES ASSUME connected
             PROVE  /\ transcript = peerTranscript
                    /\ reading.key = "shared" /\ writing.key = "shared"
  BY DEF Agreement
<1>1. transcript = peerTranscript
  BY DEF Handshake, Bound, Closed
<1>2. reading.on /\ writing.on /\ transcript # <<>> /\ transcript[1] = ClientHello
  BY DEF Handshake, Progress
<1>3. transcript \in Seq(Msg)
  BY DEF Shapes, ClientShape
<1>4. \A i \in DOMAIN transcript : ~transcript[i].alt
  <2> SUFFICES ASSUME NEW i \in DOMAIN transcript, transcript[i].alt PROVE FALSE
    OBVIOUS
  <2>1. i # 1
    BY <1>2, MessageTypes
  <2>2. i > 1 /\ i \in Nat
    BY <1>3, <2>1
  <2>3. PICK p \in DOMAIN transcript :
          /\ transcript[p].ht = "server_hello_done"
          /\ \A j \in DOMAIN transcript : j > p => ~transcript[j].alt
    BY <1>2 DEF Handshake, ClientPart
  <2>4. p \in Nat /\ ~(i > p)
    BY <1>3, <2>3
  <2>5. i <= p
    BY <2>2, <2>4
  <2> QED BY <1>1, <2>2, <2>3, <2>5 DEF Handshake, PeerPart
<1> QED BY <1>1, <1>2, <1>4 DEF Handshake, ClientPart

\* ... and at every step.
LEMMA ShapesAndHandshake == Spec => [](Shapes /\ Handshake)
<1>1. Init => Shapes /\ Handshake
  BY InitShapes, InitHandshake
<1>2. Shapes /\ Handshake /\ [Next]_vars => (Shapes /\ Handshake)'
  <2> SUFFICES ASSUME Shapes, Handshake, [Next]_vars PROVE Shapes' /\ Handshake'
    OBVIOUS
  <2>1. ClientShape /\ Flags /\ PeerShape /\ Wires
    BY DEF Shapes
  <2>2. Progress /\ Order /\ Closed /\ ClientPart /\ PeerPart /\ Bound
    BY DEF Handshake
  <2>3. ClientShape' /\ Flags'
    BY <2>1, ClientShapeInductive, FlagsInductive
  <2>4. PeerShape' /\ Wires'
    BY <2>1, <2>2, PeerShapeInductive, WiresInductive
  <2>5. Progress' /\ Order'
    BY <2>1, <2>2, ProgressInductive, OrderInductive
  <2>6. Closed' /\ Bound'
    BY <2>1, <2>2, ClosedInductive, BoundInductive
  <2>7. ClientPart' /\ PeerPart'
    BY <2>1, <2>2, ClientPartInductive, PeerPartInductive
  <2> QED BY <2>3, <2>4, <2>5, <2>6, <2>7 DEF Shapes, Handshake
<1> QED BY <1>1, <1>2, PTL DEF Spec

\* A connected client and its server saw the same handshake and hold the same keys.
THEOREM HandshakeAgreement == Spec => []Agreement
<1>1. Shapes /\ Handshake => Agreement
  BY HandshakeAgrees
<1> QED BY <1>1, ShapesAndHandshake, PTL

-----------------------------------------------------------------------------
\* The first record leaves the stream: it is no data ...
LEMMA OrderedDrop ==
  ASSUME NEW S \in Seq(Cell), NEW T \in Seq(Cell), NEW g \in Nat, NEW n \in Nat, Ordered(S, g, n),
         Len(S) >= 2, Len(T) = Len(S) - 2, \A i \in 1 .. Len(T) : T[i] = S[i + 2],
         S[2].rec.type # "data"
  PROVE  Ordered(T, g, n)
<1>1. Len(S) \in Nat /\ DOMAIN S = 1 .. Len(S) /\ DOMAIN T = 1 .. Len(T) /\ Len(T) \in Nat
  OBVIOUS
<1>2. \A i \in DOMAIN T : i \in Nat /\ i + 2 \in DOMAIN S /\ T[i] = S[i + 2]
  BY <1>1
<1>3. ~Datum(S[1]) /\ ~Datum(S[2])
  <2>1. 1 \in DOMAIN S /\ 1 % 2 = 1
    BY <1>1
  <2>2. S[1].head
    BY <2>1 DEF Ordered
  <2> QED BY <2>2 DEF Datum
<1>4. \A i \in DOMAIN T : T[i].head <=> i % 2 = 1
  <2> SUFFICES ASSUME NEW i \in DOMAIN T PROVE T[i].head <=> i % 2 = 1
    OBVIOUS
  <2>1. (i + 2) % 2 = i % 2
    BY <1>2
  <2> QED BY <1>2, <2>1 DEF Ordered
<1>5. Len(T) % 2 = 0
  BY <1>1 DEF Ordered
<1>6. \A i \in DOMAIN T : Datum(T[i]) => Value(T[i]) \in g + 1 .. n
  BY <1>2 DEF Ordered
<1>7. \A i, j \in DOMAIN T : i < j /\ Datum(T[i]) /\ Datum(T[j]) => Value(T[i]) < Value(T[j])
  <2> SUFFICES ASSUME NEW i \in DOMAIN T, NEW j \in DOMAIN T, i < j, Datum(T[i]), Datum(T[j])
               PROVE  Value(T[i]) < Value(T[j])
    OBVIOUS
  <2>1. i + 2 < j + 2 /\ i + 2 \in DOMAIN S /\ j + 2 \in DOMAIN S /\ T[i] = S[i + 2] /\ T[j] = S[j + 2]
    BY <1>2
  <2>2. Datum(S[i + 2]) /\ Datum(S[j + 2])
    BY <2>1
  <2>3. Value(S[i + 2]) < Value(S[j + 2])
    BY <2>1, <2>2 DEF Ordered
  <2> QED BY <2>1, <2>3
<1>8. ASSUME NEW v \in g + 1 .. n
      PROVE  \E i \in DOMAIN T : Datum(T[i]) /\ Value(T[i]) = v
  <2>1. PICK i \in DOMAIN S : Datum(S[i]) /\ Value(S[i]) = v
    BY DEF Ordered
  <2>2. i # 1 /\ i # 2
    BY <1>3, <2>1
  <2>3. i - 2 \in DOMAIN T /\ (i - 2) + 2 = i
    BY <1>1, <2>2
  <2> QED BY <1>2, <2>1, <2>3
<1> QED BY <1>4, <1>5, <1>6, <1>7, <1>8 DEF Ordered

\* ... or it is, and then it is the next one.
LEMMA OrderedTake ==
  ASSUME NEW S \in Seq(Cell), NEW T \in Seq(Cell), NEW g \in Nat, NEW n \in Nat, Ordered(S, g, n),
         Len(S) >= 2, Len(T) = Len(S) - 2, \A i \in 1 .. Len(T) : T[i] = S[i + 2],
         S[2].rec.type = "data"
  PROVE  Ordered(T, g + 1, n) /\ Value(S[2]) = g + 1 /\ g + 1 <= n
<1>1. Len(S) \in Nat /\ DOMAIN S = 1 .. Len(S) /\ DOMAIN T = 1 .. Len(T) /\ Len(T) \in Nat
  OBVIOUS
<1>2. \A i \in DOMAIN T : i \in Nat /\ i + 2 \in DOMAIN S /\ T[i] = S[i + 2] /\ 2 < i + 2
  BY <1>1
<1>3. ~Datum(S[1]) /\ Datum(S[2]) /\ 2 \in DOMAIN S
  <2>1. 1 \in DOMAIN S /\ 1 % 2 = 1 /\ 2 \in DOMAIN S /\ ~(2 % 2 = 1)
    BY <1>1
  <2>2. S[1].head /\ ~S[2].head
    BY <2>1 DEF Ordered
  <2> QED BY <2>1, <2>2 DEF Datum
<1>4. Value(S[2]) \in g + 1 .. n
  BY <1>3 DEF Ordered
<1>5. Value(S[2]) = g + 1
  <2>1. g + 1 \in g + 1 .. n
    BY <1>4
  <2>2. PICK i \in DOMAIN S : Datum(S[i]) /\ Value(S[i]) = g + 1
    BY <2>1 DEF Ordered
  <2>3. ~(2 < i)
    <3>1. 2 < i => Value(S[2]) < Value(S[i])
      BY <1>3, <2>2 DEF Ordered
    <3> QED BY <1>4, <2>2, <3>1
  <2>4. i = 2
    BY <1>1, <1>3, <2>2, <2>3
  <2> QED BY <2>2, <2>4
<1>6. \A i \in DOMAIN T : T[i].head <=> i % 2 = 1
  <2> SUFFICES ASSUME NEW i \in DOMAIN T PROVE T[i].head <=> i % 2 = 1
    OBVIOUS
  <2>1. (i + 2) % 2 = i % 2
    BY <1>2
  <2> QED BY <1>2, <2>1 DEF Ordered
<1>7. Len(T) % 2 = 0
  BY <1>1 DEF Ordered
<1>8. ASSUME NEW i \in DOMAIN T, Datum(T[i])
      PROVE  Value(T[i]) \in g + 1 + 1 .. n
  <2>1. Value(S[2]) < Value(S[i + 2]) /\ Value(S[i + 2]) \in g + 1 .. n
    BY <1>2, <1>3, <1>8 DEF Ordered
  <2>2. T[i] = S[i + 2]
    BY <1>2
  <2> QED BY <1>5, <2>1, <2>2
<1>9. \A i, j \in DOMAIN T : i < j /\ Datum(T[i]) /\ Datum(T[j]) => Value(T[i]) < Value(T[j])
  <2> SUFFICES ASSUME NEW i \in DOMAIN T, NEW j \in DOMAIN T, i < j, Datum(T[i]), Datum(T[j])
               PROVE  Value(T[i]) < Value(T[j])
    OBVIOUS
  <2>1. i + 2 < j + 2 /\ i + 2 \in DOMAIN S /\ j + 2 \in DOMAIN S /\ T[i] = S[i + 2] /\ T[j] = S[j + 2]
    BY <1>2
  <2>2. Datum(S[i + 2]) /\ Datum(S[j + 2])
    BY <2>1
  <2>3. Value(S[i + 2]) < Value(S[j + 2])
    BY <2>1, <2>2 DEF Ordered
  <2> QED BY <2>1, <2>3
<1>10. ASSUME NEW v \in g + 1 + 1 .. n
       PROVE  \E i \in DOMAIN T : Datum(T[i]) /\ Value(T[i]) = v
  <2>1. v \in g + 1 .. n /\ v # g + 1
    OBVIOUS
  <2>2. PICK i \in DOMAIN S : Datum(S[i]) /\ Value(S[i]) = v
    BY <2>1 DEF Ordered
  <2>3. i # 1 /\ i # 2
    BY <1>3, <1>5, <2>1, <2>2
  <2>4. i - 2 \in DOMAIN T /\ (i - 2) + 2 = i
    BY <1>1, <2>3
  <2> QED BY <1>2, <2>2, <2>4
<1>11. g + 1 <= n
  BY <1>4
<1> QED BY <1>5, <1>6, <1>7, <1>8, <1>9, <1>10, <1>11 DEF Ordered

\* A record joins the stream: it is no data, or the next one.
LEMMA OrderedAdd ==
  ASSUME NEW S \in Seq(Cell), NEW T \in Seq(Cell), NEW g \in Nat, NEW n \in Nat, Ordered(S, g, n),
         g <= n, Len(T) = Len(S) + 2, \A i \in 1 .. Len(S) : T[i] = S[i],
         T[Len(S) + 1].head = TRUE, T[Len(S) + 2].head = FALSE, NEW m \in Nat,
         T[Len(S) + 2].rec.type # "data" => m = n,
         T[Len(S) + 2].rec.type = "data" => m = n + 1 /\ Value(T[Len(S) + 2]) = m
  PROVE  Ordered(T, g, m)
<1>1. Len(S) \in Nat /\ DOMAIN S = 1 .. Len(S) /\ DOMAIN T = 1 .. Len(S) + 2
  OBVIOUS
<1>2. \A i \in DOMAIN T : i \in Nat /\ (i \in DOMAIN S \/ i = Len(S) + 1 \/ i = Len(S) + 2)
  BY <1>1
<1>3. \A i \in DOMAIN S : i \in DOMAIN T /\ T[i] = S[i]
  BY <1>1
<1>4. ~Datum(T[Len(S) + 1]) /\ (Datum(T[Len(S) + 2]) <=> T[Len(S) + 2].rec.type = "data")
  BY DEF Datum
<1>5. \A i \in DOMAIN T : T[i].head <=> i % 2 = 1
  <2>1. Len(S) % 2 = 0
    BY DEF Ordered
  <2>2. (Len(S) + 1) % 2 = 1 /\ (Len(S) + 2) % 2 = 0
    BY <1>1, <2>1
  <2>3. \A i \in DOMAIN S : S[i].head <=> i % 2 = 1
    BY DEF Ordered
  <2> QED BY <1>2, <1>3, <2>2, <2>3
<1>6. Len(T) % 2 = 0
  BY <1>1 DEF Ordered
<1>7. ASSUME NEW i \in DOMAIN T, Datum(T[i])
      PROVE  Value(T[i]) \in g + 1 .. m /\ (i \in DOMAIN S => Value(T[i]) \in g + 1 .. n)
  <2>1. CASE i \in DOMAIN S
    <3>1. Value(T[i]) \in g + 1 .. n
      BY <1>3, <1>7, <2>1 DEF Ordered
    <3>2. n <= m
      OBVIOUS
    <3> QED BY <3>1, <3>2
  <2>2. CASE i = Len(S) + 2
    <3>1. i \notin DOMAIN S
      BY <1>1, <2>2
    <3> QED BY <1>4, <1>7, <2>2, <3>1
  <2> QED BY <1>2, <1>4, <1>7, <2>1, <2>2
<1>8. ASSUME NEW i \in DOMAIN T, NEW j \in DOMAIN T, i < j, Datum(T[i]), Datum(T[j])
      PROVE  Value(T[i]) < Value(T[j])
  <2>1. i \in DOMAIN S
    BY <1>1, <1>2, <1>4, <1>8
  <2>2. CASE j \in DOMAIN S
    BY <1>3, <1>8, <2>1, <2>2 DEF Ordered
  <2>3. CASE j = Len(S) + 2
    <3>1. Value(T[j]) = n + 1
      BY <1>4, <1>8, <2>3
    <3>2. Value(T[i]) \in g + 1 .. n
      BY <1>7, <1>8, <2>1
    <3> QED BY <3>1, <3>2
  <2> QED BY <1>2, <1>4, <1>8, <2>2, <2>3
<1>9. ASSUME NEW v \in g + 1 .. m
      PROVE  \E i \in DOMAIN T : Datum(T[i]) /\ Value(T[i]) = v
  <2>1. CASE v \in g + 1 .. n
    <3>1. PICK i \in DOMAIN S : Datum(S[i]) /\ Value(S[i]) = v
      BY <2>1 DEF Ordered
    <3> QED BY <1>3, <3>1
  <2>2. CASE v \notin g + 1 .. n
    <3>1. T[Len(S) + 2].rec.type = "data"
      BY <2>2
    <3>2. v = m
      BY <2>2, <3>1
    <3>3. Len(S) + 2 \in DOMAIN T
      BY <1>1
    <3> QED BY <1>4, <3>1, <3>2, <3>3
  <2> QED BY <2>1, <2>2
<1> QED BY <1>5, <1>6, <1>7, <1>8, <1>9 DEF Ordered

\* Damage on the way does not make a record data, nor data another's.
Alike(S, T) ==
  /\ Len(T) = Len(S)
  /\ \A i \in 1 .. Len(S) : /\ T[i].head = S[i].head /\ T[i].rec.body = S[i].rec.body
                            /\ ~S[i].head => T[i].rec.type = S[i].rec.type

\* A stream with the same data is as ordered.
LEMMA OrderedSame ==
  ASSUME NEW S \in Seq(Cell), NEW T \in Seq(Cell), NEW g \in Nat, NEW n \in Nat, Ordered(S, g, n),
         Alike(S, T)
  PROVE  Ordered(T, g, n)
<1>1. DOMAIN T = DOMAIN S /\ DOMAIN S = 1 .. Len(S)
  BY DEF Alike
<1>2. \A i \in DOMAIN S : (T[i].head <=> S[i].head) /\ (Datum(T[i]) <=> Datum(S[i])) /\ Value(T[i]) = Value(S[i])
  BY <1>1 DEF Datum, Value, Alike
<1>3. Len(T) = Len(S)
  BY DEF Alike
<1> QED BY <1>1, <1>2, <1>3 DEF Ordered

\* A record read leaves the front of the stream.
LEMMA StreamFront ==
  ASSUME NEW a \in Seq(Cell), NEW b \in Seq(Cell), Len(a) >= 2
  PROVE  LET T == SubSeq(a, 3, Len(a)) \o b
         IN  /\ a \o b \in Seq(Cell) /\ T \in Seq(Cell) /\ Len(a \o b) >= 2
             /\ Len(T) = Len(a \o b) - 2 /\ (a \o b)[2] = a[2]
             /\ \A i \in 1 .. Len(T) : T[i] = (a \o b)[i + 2]
<1> DEFINE c == SubSeq(a, 3, Len(a))
<1>0. ASSUME NEW x \in Seq(Cell), NEW y \in Seq(Cell)
      PROVE  /\ x \o y \in Seq(Cell) /\ Len(x \o y) = Len(x) + Len(y)
             /\ \A i \in 1 .. Len(x) : (x \o y)[i] = x[i]
             /\ \A i \in 1 .. Len(y) : (x \o y)[Len(x) + i] = y[i]
  BY Joined
<1>1. c \in Seq(Cell) /\ Len(c) = Len(a) - 2 /\ \A i \in 1 .. Len(a) - 2 : c[i] = a[2 + i]
  BY DropTwo
<1> HIDE DEF c
<1>2. /\ c \o b \in Seq(Cell) /\ Len(c \o b) = Len(c) + Len(b)
      /\ \A i \in 1 .. Len(c) : (c \o b)[i] = c[i]
      /\ \A i \in 1 .. Len(b) : (c \o b)[Len(c) + i] = b[i]
  BY ONLY <1>0, <1>1, Zenon
<1>3. /\ a \o b \in Seq(Cell) /\ Len(a \o b) = Len(a) + Len(b)
      /\ \A i \in 1 .. Len(a) : (a \o b)[i] = a[i]
      /\ \A i \in 1 .. Len(b) : (a \o b)[Len(a) + i] = b[i]
  BY ONLY <1>0, Zenon
<1>4. Len(a) \in Nat /\ Len(b) \in Nat /\ Len(c) \in Nat /\ 2 \in 1 .. Len(a)
  BY <1>1
<1>5. Len(a \o b) >= 2 /\ Len(c \o b) = Len(a \o b) - 2
  BY <1>1, <1>2, <1>3, <1>4
<1>6. \A i \in 1 .. Len(c \o b) : (c \o b)[i] = (a \o b)[i + 2]
  <2> SUFFICES ASSUME NEW i \in 1 .. Len(c \o b) PROVE (c \o b)[i] = (a \o b)[i + 2]
    OBVIOUS
  <2>1. CASE i \in 1 .. Len(c)
    <3>1. i + 2 \in 1 .. Len(a) /\ i \in 1 .. Len(a) - 2 /\ 2 + i = i + 2
      BY <1>1, <1>4, <2>1
    <3> QED BY <1>1, <1>2, <1>3, <2>1, <3>1
  <2>2. CASE i \notin 1 .. Len(c)
    <3>1. /\ i - Len(c) \in 1 .. Len(b) /\ Len(c) + (i - Len(c)) = i
          /\ Len(a) + (i - Len(c)) = i + 2
      BY <1>1, <1>2, <1>4, <2>2
    <3>2. (c \o b)[Len(c) + (i - Len(c))] = b[i - Len(c)]
      BY <1>2, <3>1
    <3>3. (a \o b)[Len(a) + (i - Len(c))] = b[i - Len(c)]
      BY <1>3, <3>1
    <3> QED BY <3>1, <3>2, <3>3
  <2> QED BY <2>1, <2>2
<1>7. (a \o b)[2] = a[2]
  BY <1>3, <1>4
<1> QED BY <1>2, <1>3, <1>5, <1>6, <1>7 DEF c

\* A record sent joins its back.
LEMMA StreamBack ==
  ASSUME NEW a \in Seq(Cell), NEW b \in Seq(Cell), NEW c \in Seq(Cell), Len(c) = Len(b) + 2,
         \A i \in 1 .. Len(b) : c[i] = b[i]
  PROVE  /\ a \o b \in Seq(Cell) /\ a \o c \in Seq(Cell) /\ Len(a \o c) = Len(a \o b) + 2
         /\ \A i \in 1 .. Len(a \o b) : (a \o c)[i] = (a \o b)[i]
         /\ (a \o c)[Len(a \o b) + 1] = c[Len(b) + 1] /\ (a \o c)[Len(a \o b) + 2] = c[Len(b) + 2]
<1>0. ASSUME NEW x \in Seq(Cell), NEW y \in Seq(Cell)
      PROVE  /\ x \o y \in Seq(Cell) /\ Len(x \o y) = Len(x) + Len(y)
             /\ \A i \in 1 .. Len(x) : (x \o y)[i] = x[i]
             /\ \A i \in 1 .. Len(y) : (x \o y)[Len(x) + i] = y[i]
  BY Joined
<1>1. /\ a \o c \in Seq(Cell) /\ Len(a \o c) = Len(a) + Len(c)
      /\ \A i \in 1 .. Len(a) : (a \o c)[i] = a[i]
      /\ \A i \in 1 .. Len(c) : (a \o c)[Len(a) + i] = c[i]
  BY ONLY <1>0, Zenon
<1>2. /\ a \o b \in Seq(Cell) /\ Len(a \o b) = Len(a) + Len(b)
      /\ \A i \in 1 .. Len(a) : (a \o b)[i] = a[i]
      /\ \A i \in 1 .. Len(b) : (a \o b)[Len(a) + i] = b[i]
  BY ONLY <1>0, Zenon
<1>3. Len(a) \in Nat /\ Len(b) \in Nat /\ Len(c) \in Nat
  OBVIOUS
<1>4. ASSUME NEW i \in 1 .. Len(a \o b) PROVE (a \o c)[i] = (a \o b)[i]
  <2>1. CASE i \in 1 .. Len(a)
    BY <1>1, <1>2, <2>1
  <2>2. CASE i \notin 1 .. Len(a)
    <3>1. i - Len(a) \in 1 .. Len(b) /\ i - Len(a) \in 1 .. Len(c) /\ Len(a) + (i - Len(a)) = i
      BY <1>2, <1>3, <2>2
    <3>2. (a \o b)[Len(a) + (i - Len(a))] = b[i - Len(a)]
      BY <1>2, <3>1
    <3>3. (a \o c)[Len(a) + (i - Len(a))] = c[i - Len(a)]
      BY <1>1, <3>1
    <3> QED BY <3>1, <3>2, <3>3
  <2> QED BY <2>1, <2>2
<1>5. (a \o c)[Len(a \o b) + 1] = c[Len(b) + 1]
  <2>1. Len(b) + 1 \in 1 .. Len(c) /\ Len(a) + (Len(b) + 1) = Len(a \o b) + 1
    BY <1>2, <1>3
  <2> QED BY <1>1, <2>1
<1>6. (a \o c)[Len(a \o b) + 2] = c[Len(b) + 2]
  <2>1. Len(b) + 2 \in 1 .. Len(c) /\ Len(a) + (Len(b) + 2) = Len(a \o b) + 2
    BY <1>2, <1>3
  <2> QED BY <1>1, <2>1
<1>7. Len(a \o c) = Len(a \o b) + 2
  BY <1>1, <1>2, <1>3
<1> QED BY <1>1, <1>2, <1>4, <1>5, <1>6, <1>7

\* What is damaged in the stream is damaged on the wire.
LEMMA StreamDamaged ==
  ASSUME NEW a \in Seq(Cell), NEW b \in Seq(Cell), NEW c \in Seq(Cell), Alike(b, c)
  PROVE  a \o b \in Seq(Cell) /\ a \o c \in Seq(Cell) /\ Alike(a \o b, a \o c)
<1>0. ASSUME NEW x \in Seq(Cell), NEW y \in Seq(Cell)
      PROVE  /\ x \o y \in Seq(Cell) /\ Len(x \o y) = Len(x) + Len(y)
             /\ \A i \in 1 .. Len(x) : (x \o y)[i] = x[i]
             /\ \A i \in 1 .. Len(y) : (x \o y)[Len(x) + i] = y[i]
  BY Joined
<1>1. /\ a \o c \in Seq(Cell) /\ Len(a \o c) = Len(a) + Len(c)
      /\ \A i \in 1 .. Len(a) : (a \o c)[i] = a[i]
      /\ \A i \in 1 .. Len(c) : (a \o c)[Len(a) + i] = c[i]
  BY ONLY <1>0, Zenon
<1>2. /\ a \o b \in Seq(Cell) /\ Len(a \o b) = Len(a) + Len(b)
      /\ \A i \in 1 .. Len(a) : (a \o b)[i] = a[i]
      /\ \A i \in 1 .. Len(b) : (a \o b)[Len(a) + i] = b[i]
  BY ONLY <1>0, Zenon
<1>3. Len(a) \in Nat /\ Len(b) \in Nat /\ Len(c) = Len(b)
  BY DEF Alike
<1>4. ASSUME NEW i \in 1 .. Len(a \o b)
      PROVE  /\ (a \o c)[i].head = (a \o b)[i].head /\ (a \o c)[i].rec.body = (a \o b)[i].rec.body
             /\ ~(a \o b)[i].head => (a \o c)[i].rec.type = (a \o b)[i].rec.type
  <2>1. CASE i \in 1 .. Len(a)
    BY <1>1, <1>2, <2>1
  <2>2. CASE i \notin 1 .. Len(a)
    <3>1. i - Len(a) \in 1 .. Len(b) /\ i - Len(a) \in 1 .. Len(c) /\ Len(a) + (i - Len(a)) = i
      BY <1>2, <1>3, <2>2
    <3>2. (a \o b)[Len(a) + (i - Len(a))] = b[i - Len(a)]
      BY <1>2, <3>1
    <3>3. (a \o c)[Len(a) + (i - Len(a))] = c[i - Len(a)]
      BY <1>1, <3>1
    <3> QED BY <3>1, <3>2, <3>3 DEF Alike
  <2> QED BY <2>1, <2>2
<1> QED BY <1>1, <1>2, <1>3, <1>4 DEF Alike

\* recv() returns the next of what the server sent.
LEMMA DeliverTakesNext ==
  ASSUME InOrder, Progress, ClientShape, PeerShape, Wires, Deliver
  PROVE  /\ got' = Append(got, Len(got) + 1) /\ Len(got) + 1 <= Len(sent)
         /\ Ordered(Stream0', Len(got) + 1, Len(sent))
<1>1. /\ pc = "open" /\ Ready /\ Opens(reading, Record) /\ Record.type = "data"
      /\ rx' = SubSeq(rx, 3, Len(rx)) /\ s2c' = s2c
      /\ got' = Append(got, IF Record.whole THEN Record.body[1] ELSE 0)
  BY DEF Deliver, Accept
<1>2. reading.on
  BY <1>1 DEF Progress
<1>3. Record.whole
  BY <1>1, <1>2 DEF Opens
<1>4. Len(rx) >= 2 /\ rx \in Seq(Cell) /\ s2c \in Seq(Cell) /\ Len(got) \in Nat /\ Len(sent) \in Nat
  BY <1>1 DEF Ready, Wires, ClientShape, PeerShape
<1> DEFINE T == SubSeq(rx, 3, Len(rx)) \o s2c
<1>5. /\ Stream0 \in Seq(Cell) /\ T \in Seq(Cell) /\ Len(Stream0) >= 2
      /\ Len(T) = Len(Stream0) - 2 /\ Stream0[2] = rx[2]
      /\ \A i \in 1 .. Len(T) : T[i] = Stream0[i + 2]
  BY <1>4, StreamFront DEF Stream0
<1>6. Stream0' = T
  BY <1>1 DEF Stream0
<1> HIDE DEF T
<1>7. Ordered(Stream0, Len(got), Len(sent))
  BY <1>1 DEF InOrder
<1>8. Stream0[2].rec.type = "data" /\ Value(Stream0[2]) = Record.body[1]
  BY <1>1, <1>5 DEF Record, Value
<1>9. Ordered(T, Len(got) + 1, Len(sent)) /\ Value(Stream0[2]) = Len(got) + 1
      /\ Len(got) + 1 <= Len(sent)
  BY <1>4, <1>5, <1>7, <1>8, OrderedTake
<1> QED BY <1>1, <1>3, <1>6, <1>8, <1>9

\* The server adds a record.
LEMMA EmitKeepsOrder ==
  ASSUME InOrder, Counted, ClientShape, PeerShape, Wires, NEW type \in RecType, NEW body \in SBody,
         type = "handshake" => body \in Seq(Piece),
         type = "data" => body \in Seq(Nat) /\ Len(body) = 1 /\ body[1] = Len(sent) + 1,
         rx' = rx, s2c' = s2c \o Cells(Protect(peerWriting, type, body)), got' = got, pc' = pc, Alive,
         type = "data" => sent' = Append(sent, Len(sent) + 1), type # "data" => sent' = sent
  PROVE  InOrder'
<1>0. /\ rx \in Seq(Cell) /\ s2c \in Seq(Cell) /\ Len(got) \in Nat /\ Len(sent) \in Nat
      /\ sent \in Seq(Nat) /\ peerWriting \in Side
  BY DEF Wires, ClientShape, PeerShape
<1> DEFINE r == Protect(peerWriting, type, body)
<1>1. /\ s2c' \in Seq(Cell) /\ Len(s2c') = Len(s2c) + 2
      /\ \A i \in 1 .. Len(s2c) : s2c'[i] = s2c[i]
      /\ s2c'[Len(s2c) + 1] = [head |-> TRUE, rec |-> r]
      /\ s2c'[Len(s2c) + 2] = [head |-> FALSE, rec |-> r]
  BY <1>0, RecordSent
<1>2. r.type = type /\ r.body = body
  BY DEF Protect
<1> HIDE DEF r
<1>3. /\ Stream0 \in Seq(Cell) /\ rx \o s2c' \in Seq(Cell) /\ Len(rx \o s2c') = Len(Stream0) + 2
      /\ \A i \in 1 .. Len(Stream0) : (rx \o s2c')[i] = Stream0[i]
      /\ (rx \o s2c')[Len(Stream0) + 1] = s2c'[Len(s2c) + 1]
      /\ (rx \o s2c')[Len(Stream0) + 2] = s2c'[Len(s2c) + 2]
  <2>1. ASSUME NEW c \in Seq(Cell), Len(c) = Len(s2c) + 2, \A i \in 1 .. Len(s2c) : c[i] = s2c[i]
        PROVE  /\ Stream0 \in Seq(Cell) /\ rx \o c \in Seq(Cell) /\ Len(rx \o c) = Len(Stream0) + 2
               /\ \A i \in 1 .. Len(Stream0) : (rx \o c)[i] = Stream0[i]
               /\ (rx \o c)[Len(Stream0) + 1] = c[Len(s2c) + 1]
               /\ (rx \o c)[Len(Stream0) + 2] = c[Len(s2c) + 2]
    BY ONLY <1>0, <2>1, StreamBack, SMTT(30) DEF Stream0
  <2> QED BY ONLY <1>1, <2>1, Zenon
<1>4. Stream0' = rx \o s2c'
  BY DEF Stream0
<1>5. /\ Stream0' \in Seq(Cell) /\ Len(Stream0') = Len(Stream0) + 2
      /\ \A i \in 1 .. Len(Stream0) : Stream0'[i] = Stream0[i]
      /\ Stream0'[Len(Stream0) + 1] = [head |-> TRUE, rec |-> r]
      /\ Stream0'[Len(Stream0) + 2] = [head |-> FALSE, rec |-> r]
  BY ONLY <1>1, <1>3, <1>4
<1>6. Ordered(Stream0, Len(got), Len(sent)) /\ Len(got) <= Len(sent)
  BY DEF InOrder, Counted, Alive
<1>7. ASSUME NEW T \in Seq(Cell), Len(T) = Len(Stream0) + 2,
             \A i \in 1 .. Len(Stream0) : T[i] = Stream0[i],
             T[Len(Stream0) + 1] = [head |-> TRUE, rec |-> r],
             T[Len(Stream0) + 2] = [head |-> FALSE, rec |-> r]
      PROVE  Ordered(T, Len(got), Len(sent'))
  <2>1. T[Len(Stream0) + 1].head = TRUE /\ T[Len(Stream0) + 2].head = FALSE
        /\ T[Len(Stream0) + 2].rec = r
    BY <1>7
  <2>2. T[Len(Stream0) + 2].rec.type = type /\ Value(T[Len(Stream0) + 2]) = body[1]
    BY <1>2, <2>1 DEF Value
  <2>3. /\ Len(sent') \in Nat /\ (type # "data" => Len(sent') = Len(sent))
        /\ (type = "data" => Len(sent') = Len(sent) + 1 /\ body[1] = Len(sent'))
    BY <1>0
  <2>4. Stream0 \in Seq(Cell)
    BY <1>3
  <2> QED BY <1>0, <1>6, <1>7, <2>1, <2>2, <2>3, <2>4, OrderedAdd
<1>8. Ordered(Stream0', Len(got), Len(sent'))
  BY ONLY <1>5, <1>7, Zenon
<1> QED BY <1>8 DEF InOrder

\* The client drops a record that is no data.
LEMMA DropKeepsOrder ==
  ASSUME InOrder, ClientShape, PeerShape, Wires, Ready, Record.type # "data",
         rx' = SubSeq(rx, 3, Len(rx)), s2c' = s2c, got' = got, sent' = sent
  PROVE  InOrder'
<1>1. Len(rx) >= 2 /\ rx \in Seq(Cell) /\ s2c \in Seq(Cell) /\ Len(got) \in Nat /\ Len(sent) \in Nat
  BY DEF Ready, Wires, ClientShape, PeerShape
<1> DEFINE T == SubSeq(rx, 3, Len(rx)) \o s2c
<1>2. /\ Stream0 \in Seq(Cell) /\ T \in Seq(Cell) /\ Len(Stream0) >= 2
      /\ Len(T) = Len(Stream0) - 2 /\ Stream0[2] = rx[2]
      /\ \A i \in 1 .. Len(T) : T[i] = Stream0[i + 2]
  BY <1>1, StreamFront DEF Stream0
<1>3. Stream0' = T
  BY DEF Stream0
<1> HIDE DEF T
<1>4. Ordered(Stream0, Len(got), Len(sent))
  BY DEF InOrder, Ready, Waiting, Reassembling
<1>5. Stream0[2].rec.type # "data"
  BY <1>2 DEF Record
<1>6. Ordered(T, Len(got), Len(sent))
  BY <1>1, <1>2, <1>4, <1>5, OrderedDrop
<1> QED BY <1>3, <1>6 DEF InOrder

\* Whatever the client reads and the server sends, the order stays.
LEMMA InOrderInductive ==
  InOrder /\ Counted /\ Progress /\ ClientShape /\ PeerShape /\ Wires /\ [Next]_vars => InOrder'
<1> SUFFICES ASSUME InOrder, Counted, Progress, ClientShape, PeerShape, Wires, [Next]_vars
             PROVE  InOrder'
  OBVIOUS
<1>0. /\ rx \in Seq(Cell) /\ s2c \in Seq(Cell) /\ Len(got) \in Nat /\ Len(sent) \in Nat
      /\ sent \in Seq(Nat) /\ peerWriting \in Side /\ pending \in Seq(Piece)
  BY DEF Wires, ClientShape, PeerShape
<1>1. ASSUME Stream0' = Stream0, got' = got, sent' = sent,
             pc' \in {"failed", "closed"} \/ pc \notin {"failed", "closed"}
      PROVE  InOrder'
  BY <1>1 DEF InOrder
<1>2. ASSUME pc' \in {"failed", "closed"} PROVE InOrder'
  BY <1>2 DEF InOrder
<1>3. CASE Connect \/ TakeHello \/ TakeFinished \/ Send
  <2>1. UNCHANGED <<rx, s2c, got, sent>> /\ pc \notin {"failed", "closed"}
    BY <1>3 DEF Connect, TakeHello, TakeFinished, Send, peerVars
  <2> QED BY <1>1, <2>1 DEF Stream0
<1>4. CASE SendFlight
  <2>1. UNCHANGED <<rx, s2c, got, sent>> /\ pc = "done"
    BY <1>4 DEF SendFlight, peerVars
  <2> QED BY <1>1, <2>1 DEF Stream0
<1>5. CASE \E n \in {1, Len(s2c)} : Fill(n)
  <2>1. Stream0' = Stream0
    BY <1>5, FillEffect DEF Stream0
  <2>2. UNCHANGED <<got, sent>> /\ pc \notin {"failed", "closed"}
    BY <1>5 DEF Fill, peerVars, Starved, Waiting, Reassembling
  <2> QED BY <1>1, <2>1, <2>2
<1>6. CASE LocalFails \/ Refuse \/ Close
  BY <1>2, <1>6, LocalFailsEffect DEF Refuse, Close, Fail
<1>7. CASE RecordTaken
  <2>1. Ready /\ rx' = SubSeq(rx, 3, Len(rx)) /\ s2c' = s2c /\ sent' = sent
    BY <1>7, RecordTakenEffect DEF peerVars
  <2>2. CASE Deliver
    <3>1. got' = Append(got, Len(got) + 1) /\ Ordered(Stream0', Len(got) + 1, Len(sent))
      BY <2>2, DeliverTakesNext
    <3>2. Len(got') = Len(got) + 1
      BY <3>1 DEF ClientShape
    <3> QED BY <2>1, <3>1, <3>2 DEF InOrder
  <2>3. CASE HandleAlert \/ TakeFragment \/ TakeChangeCipherSpec
    <3>1. got' = got /\ Record.type # "data"
      BY <2>3 DEF HandleAlert, TakeFragment, TakeChangeCipherSpec
    <3> QED BY <2>1, <3>1, DropKeepsOrder
  <2>4. CASE Unexpected
    BY <1>2, <2>4 DEF Unexpected, Fail
  <2> QED BY <1>7, <2>2, <2>3, <2>4 DEF RecordTaken
<1>8. ASSUME NEW n \in DOMAIN pending, PeerEmit(n) PROVE InOrder'
  <2>1. SubSeq(pending, 1, n) \in Seq(Piece) /\ SubSeq(pending, 1, n) \in SBody
    <3>1. n \in 0 .. Len(pending)
      BY <1>0
    <3> QED BY <1>0, <3>1, CutTypes, ServerBodies
  <2>2. /\ Alive /\ s2c' = s2c \o Cells(Protect(peerWriting, "handshake", SubSeq(pending, 1, n)))
        /\ UNCHANGED <<rx, got, pc, sent>>
    BY <1>8 DEF PeerEmit, Emit, clientVars
  <2> QED BY <2>1, <2>2, EmitKeepsOrder, ServerBodies
<1>9. CASE PeerRejects \/ (\E a \in Alerts : PeerAlerts(a))
  <2>1. "fatal" \in Alerts
    BY DEF Alerts
  <2>2. PICK a \in Alerts : Alive /\ s2c' = s2c \o Cells(Protect(peerWriting, "alert", <<a>>))
    BY <1>9, <2>1 DEF PeerRejects, PeerAlerts, Emit
  <2>3. UNCHANGED <<rx, got, pc>>
    BY <1>9 DEF PeerRejects, PeerAlerts, clientVars
  <2>4. sent' = sent
    BY <1>9 DEF PeerRejects, PeerAlerts
  <2> QED BY <2>2, <2>3, <2>4, EmitKeepsOrder, ServerBodies
<1>10. CASE PeerFinish
  <2>1. /\ Alive /\ s2c' = s2c \o Cells(Protect(peerWriting, "ccs", <<1>>))
        /\ UNCHANGED <<rx, got, pc, sent>>
    BY <1>10 DEF PeerFinish, clientVars
  <2> QED BY <2>1, EmitKeepsOrder, ServerBodies
<1>11. CASE PeerSends
  <2>1. /\ Alive /\ s2c' = s2c \o Cells(Protect(peerWriting, "data", <<Len(sent) + 1>>))
        /\ sent' = Append(sent, Len(sent) + 1) /\ UNCHANGED <<rx, got, pc>>
    BY <1>11 DEF PeerSends, Emit, clientVars
  <2>2. Len(sent) + 1 \in Nat
    BY <1>0
  <2>3. /\ <<Len(sent) + 1>> \in SBody /\ <<Len(sent) + 1>> \in Seq(Nat) /\ Len(<<Len(sent) + 1>>) = 1
        /\ <<Len(sent) + 1>>[1] = Len(sent) + 1
    BY <2>2, ServerBodies
  <2> QED BY <2>1, <2>3, EmitKeepsOrder, ServerBodies
<1>12. CASE (\E f \in Flights : PeerHello(f)) \/ PeerHandshake \/ PeerChangeCipherSpec \/ PeerHears
              \/ PeerHangsUp \/ UNCHANGED vars
  <2>1. UNCHANGED <<rx, s2c, got, sent, pc>>
    BY <1>12 DEF PeerHello, PeerHandshake, PeerChangeCipherSpec, PeerHears, PeerHangsUp, vars,
                 clientVars, peerVars
  <2> QED BY <2>1 DEF InOrder, Stream0
<1>13. CASE Damage
  <2>1. /\ s2c' \in Seq(Cell) /\ Len(s2c') = Len(s2c)
        /\ \A i \in 1 .. Len(s2c) :
             /\ s2c'[i].head = s2c[i].head /\ s2c'[i].rec.body = s2c[i].rec.body
             /\ ~s2c[i].head => s2c'[i].rec.type = s2c[i].rec.type
        /\ UNCHANGED <<rx, got, sent, pc>>
    BY <1>13, DamageEffect DEF clientVars, peerVars
  <2>2. pc \notin {"failed", "closed"}
    BY <1>13 DEF Damage, Alive
  <2>3. ASSUME NEW c \in Seq(Cell), Alike(s2c, c)
        PROVE  Ordered(rx \o c, Len(got), Len(sent))
    <3>1. Ordered(rx \o s2c, Len(got), Len(sent))
      BY <2>2 DEF InOrder, Stream0
    <3>2. rx \o s2c \in Seq(Cell) /\ rx \o c \in Seq(Cell) /\ Alike(rx \o s2c, rx \o c)
      BY <1>0, <2>3, StreamDamaged
    <3> QED BY <1>0, <3>1, <3>2, OrderedSame
  <2>5. Alike(s2c, s2c')
    BY <2>1 DEF Alike
  <2>4. Ordered(rx \o s2c', Len(got), Len(sent))
    BY ONLY <2>1, <2>3, <2>5, Zenon
  <2> QED BY <2>1, <2>4 DEF InOrder, Stream0
<1> QED
  BY <1>3, <1>4, <1>5, <1>6, <1>7, <1>8, <1>9, <1>10, <1>11, <1>12, <1>13, StepKinds DEF PeerSteps

\* Each datum the client takes is one the server has numbered.
LEMMA CountedInductive ==
  Counted /\ InOrder /\ Progress /\ ClientShape /\ PeerShape /\ Wires /\ [Next]_vars => Counted'
<1> SUFFICES ASSUME Counted, InOrder, Progress, ClientShape, PeerShape, Wires, [Next]_vars
             PROVE  Counted'
  OBVIOUS
<1>0. sent \in Seq(Nat) /\ got \in Seq(Nat)
  BY DEF ClientShape, PeerShape
<1>1. CASE UNCHANGED <<sent, got>>
  BY <1>1 DEF Counted
<1>2. CASE Deliver
  <2>1. got' = Append(got, Len(got) + 1) /\ Len(got) + 1 <= Len(sent) /\ sent' = sent
    BY <1>2, DeliverTakesNext DEF Deliver, peerVars
  <2>2. Len(got') = Len(got) + 1
    BY <1>0, <2>1
  <2> QED BY <2>1, <2>2 DEF Counted
<1>3. CASE PeerSends
  <2>1. sent' = Append(sent, Len(sent) + 1) /\ got' = got
    BY <1>3 DEF PeerSends, clientVars
  <2>2. /\ Len(sent') = Len(sent) + 1 /\ \A i \in 1 .. Len(sent) : sent'[i] = sent[i]
        /\ sent'[Len(sent) + 1] = Len(sent) + 1
    BY <1>0, <2>1
  <2>3. \A i \in 1 .. Len(sent') : sent'[i] = i
    BY <1>0, <2>2 DEF Counted
  <2>4. Len(got') <= Len(sent')
    BY <1>0, <2>1, <2>2 DEF Counted
  <2> QED BY <2>3, <2>4 DEF Counted
<1>4. CASE RecordTaken /\ ~Deliver
  BY <1>1, <1>4 DEF RecordTaken, HandleAlert, TakeFragment, TakeChangeCipherSpec, Unexpected, peerVars
<1>5. CASE Connect \/ TakeHello \/ SendFlight \/ TakeFinished \/ Refuse \/ Send \/ Close
  BY <1>1, <1>5 DEF Connect, TakeHello, SendFlight, TakeFinished, Refuse, Send, Close, peerVars
<1>6. CASE (\E n \in {1, Len(s2c)} : Fill(n)) \/ LocalFails
  BY <1>1, <1>6, LocalFailsEffect DEF Fill, peerVars
<1>7. CASE PeerSteps /\ ~PeerSends
  <2>1. got' = got
    BY <1>7, PeerLeavesClient DEF clientVars
  <2>2. sent' = sent
    BY <1>7 DEF PeerSteps, PeerHello, PeerEmit, PeerHandshake, PeerChangeCipherSpec, PeerRejects,
                PeerFinish, PeerHears, PeerAlerts, PeerHangsUp
  <2> QED BY <1>1, <2>1, <2>2
<1>8. CASE Damage \/ UNCHANGED vars
  BY <1>1, <1>8, PeerLeavesClient, ClientLeavesPeer DEF clientVars, peerVars
<1> QED BY <1>2, <1>3, <1>4, <1>5, <1>6, <1>7, <1>8, StepKinds

\* The invariant of the application's stream.
Delivery == InOrder /\ Counted

LEMMA InitDelivery == Init => Delivery
<1> SUFFICES ASSUME Init PROVE Delivery
  OBVIOUS
<1>1. rx = <<>> /\ s2c = <<>> /\ got = <<>> /\ sent = <<>>
  BY DEF Init
<1>2. Stream0 = <<>> /\ Len(got) = 0 /\ Len(sent) = 0
  BY <1>1 DEF Stream0
<1>3. DOMAIN Stream0 = {} /\ Len(Stream0) = 0
  BY <1>2
<1>4. Ordered(Stream0, Len(got), Len(sent))
  BY <1>2, <1>3 DEF Ordered
<1> QED BY <1>2, <1>4 DEF Delivery, InOrder, Counted


\* Every step is a step of the SecureStream the callers may take the client for, or
\* none of it.
LEMMA StreamStep ==
  Shapes /\ Handshake /\ Delivery /\ [Next]_vars => [Stream!Next]_(Stream!vars)
<1> SUFFICES ASSUME Shapes, Handshake, Delivery, [Next]_vars PROVE [Stream!Next]_(Stream!vars)
  OBVIOUS
<1>0. /\ ClientShape /\ PeerShape /\ Wires /\ Progress /\ InOrder /\ Counted /\ Bound
      /\ pc \in Stages /\ got \in Seq(Nat) /\ sent \in Seq(Nat)
  BY DEF Shapes, Handshake, Delivery, ClientShape, PeerShape
<1>s. ASSUME UNCHANGED <<connected, sent, got>>, pc \notin {"failed", "closed"},
             pc' \notin {"failed", "closed"}
      PROVE  UNCHANGED Stream!vars
  BY <1>s DEF Stream!vars
<1>e. ASSUME UNCHANGED <<connected, sent, got>>, pc' \in {"failed", "closed"}
      PROVE  Stream!End
  BY <1>e DEF Stream!End
<1>1. CASE LocalFails \/ Refuse \/ Close
  <2>1. UNCHANGED <<connected, sent, got>> /\ pc' \in {"failed", "closed"}
    BY <1>1, LocalFailsEffect DEF Refuse, Close, Fail, peerVars
  <2> QED BY <1>e, <2>1 DEF Stream!Next
<1>2. CASE Connect \/ TakeHello \/ Send \/ (\E n \in {1, Len(s2c)} : Fill(n))
  <2>1. UNCHANGED <<connected, sent, got>> /\ pc \notin {"failed", "closed"}
        /\ pc' \notin {"failed", "closed"}
    BY <1>2 DEF Connect, TakeHello, Send, Fill, peerVars, Starved, Waiting, Reassembling
  <2> QED BY <1>s, <2>1
<1>3. CASE SendFlight
  <2>1. UNCHANGED <<connected, sent, got>> /\ pc = "done" /\ pc' \in {"ccs", "failed"}
    BY <1>0, <1>3, FlightEffect DEF SendFlight, peerVars
  <2>2. CASE pc' = "ccs"
    BY <1>s, <2>1, <2>2
  <2>3. CASE pc' = "failed"
    BY <1>e, <2>1, <2>3 DEF Stream!Next
  <2> QED BY <2>1, <2>2, <2>3
<1>4. CASE TakeFinished
  <2>1. pc = "finished" /\ pc' = "open" /\ connected' = TRUE /\ UNCHANGED <<sent, got>>
    BY <1>4 DEF TakeFinished, peerVars
  <2>2. ~connected
    BY <1>0, <2>1 DEF Progress
  <2>3. Stream!Connect
    BY <2>1, <2>2 DEF Stream!Connect
  <2> QED BY <2>3 DEF Stream!Next
<1>5. CASE RecordTaken
  <2>1. Ready /\ UNCHANGED <<connected, sent>>
    BY <1>5, RecordTakenEffect DEF peerVars
  <2>2. pc \notin {"failed", "closed"}
    BY <2>1 DEF Ready, Waiting, Reassembling
  <2>3. CASE Deliver
    <3>1. got' = Append(got, Len(got) + 1) /\ Len(got) + 1 <= Len(sent)
      BY <1>0, <2>3, DeliverTakesNext
    <3>2. Len(got) + 1 \in 1 .. Len(sent)
      BY <1>0, <3>1
    <3>3. sent[Len(got) + 1] = Len(got) + 1 /\ Len(got) < Len(sent)
      BY <1>0, <3>2 DEF Counted
    <3>4. pc = "open" /\ pc' = pc
      BY <2>3 DEF Deliver
    <3>5. connected
      BY <1>0, <3>4 DEF Progress
    <3>6. Stream!Read
      BY <2>1, <3>1, <3>3, <3>4, <3>5 DEF Stream!Read
    <3> QED BY <3>6 DEF Stream!Next
  <2>4. CASE ~Deliver
    <3>1. got' = got /\ pc' \in {pc, "failed", "finished"}
      BY <1>5, <2>4 DEF RecordTaken, HandleAlert, TakeFragment, TakeChangeCipherSpec, Unexpected, Fail
    <3>2. CASE pc' = "failed"
      BY <1>e, <2>1, <3>1, <3>2 DEF Stream!Next
    <3>3. CASE pc' # "failed"
      BY <1>s, <2>1, <2>2, <3>1, <3>3
    <3> QED BY <3>2, <3>3
  <2> QED BY <2>3, <2>4
<1>6. CASE PeerSends
  <2>1. /\ sent' = Append(sent, Len(sent) + 1) /\ UNCHANGED <<pc, connected, got>> /\ Len(sent) < MaxData
    BY <1>6 DEF PeerSends, clientVars
  <2>2. Len(sent) + 1 \in 1 .. MaxData
    BY <1>0, <2>1, TlsAssumption
  <2>3. Stream!Write(Len(sent) + 1)
    BY <2>1 DEF Stream!Write
  <2> QED BY <2>2, <2>3 DEF Stream!Next
<1>7. CASE (PeerSteps /\ ~PeerSends) \/ Damage \/ UNCHANGED vars
  <2>1. UNCHANGED <<pc, connected, got>>
    BY <1>7, PeerLeavesClient DEF clientVars
  <2>2. sent' = sent
    <3>1. CASE PeerSteps /\ ~PeerSends
      BY <3>1 DEF PeerSteps, PeerHello, PeerEmit, PeerHandshake, PeerChangeCipherSpec, PeerRejects,
                PeerFinish, PeerHears, PeerAlerts, PeerHangsUp
    <3>2. CASE Damage \/ UNCHANGED vars
      BY <3>2, ClientLeavesPeer DEF peerVars
    <3> QED BY <1>7, <3>1, <3>2
  <2> QED BY <2>1, <2>2 DEF Stream!vars
<1> QED BY <1>1, <1>2, <1>3, <1>4, <1>5, <1>6, <1>7, StepKinds

\* All three invariants hold together.
LEMMA DeliveryHolds == Spec => [](Shapes /\ Handshake /\ Delivery)
<1>1. Shapes /\ Handshake /\ Delivery /\ [Next]_vars => Delivery'
  BY InOrderInductive, CountedInductive DEF Shapes, Handshake, Delivery
<1> QED BY <1>1, InitDelivery, ShapesAndHandshake, PTL DEF Spec

\* To its callers the client is a SecureStream: what recv() returns is what the server
\* sent, in order and whole, only after connect() succeeded and never after the end.
THEOREM ClientIsSecureStream == Spec => StreamSpec
<1>1. Init => Stream!Init
  BY DEF Init, Stream!Init
<1> QED BY <1>1, DeliveryHolds, StreamStep, PTL DEF Spec, StreamSpec, Stream!Spec

-----------------------------------------------------------------------------
(***************************************************************************)
(* Without damage on the way.                                              *)
(***************************************************************************)

\* The network has changed nothing so far, and the client has not given up.
Undamaged == "damage" \notin faults
Calm      == Undamaged /\ Alive

\* Nothing either side has read, and nothing on its way, was changed, so both derive
\* the same keys.
Clean(t) == \A i \in DOMAIN t : ~t[i].alt
\* A record nobody has touched, and a direction whose key, once on, is the shared one.
Sound(r) == r.whole /\ r.type # "invalid" /\ (r.type = "handshake" => Clean(r.body))
Keyed(w) == w.key = IF w.on THEN "shared" ELSE "none"

\* What was read or is still to be sent, what is on the way, and the keys.
CleanText  == Clean(transcript) /\ Clean(hs) /\ Clean(peerTranscript) /\ Clean(pending)
CleanWires == (\A i \in DOMAIN Stream0 : Sound(Stream0[i].rec)) /\ (\A i \in DOMAIN c2s : Sound(c2s[i]))
SameKeys   == Keyed(reading) /\ Keyed(writing) /\ Keyed(peerReading) /\ Keyed(peerWriting)
Pristine   == Undamaged => CleanText /\ CleanWires /\ SameKeys

\* The server's records the client has not taken yet.
Bodies(S) == [k \in 1 .. Len(S) \div 2 |-> S[2 * k].rec]
Underway  == Bodies(Stream0)

\* Records R lead from where the reader stands (w) to where the writer stands (v):
\* key, sequence number and position in the key stream of each follow those before.
Same(w, v) == w.on = v.on /\ (w.on => w.key = v.key /\ w.seq = v.seq /\ w.pos = v.pos)
\* Record r is the one a reader at w expects.
Fits(w, r) == (w.on <=> r.key # "none")
              /\ (w.on => r.key = w.key /\ r.seq = w.seq /\ r.pos = w.pos)
\* Where a reader stands once it has taken r.
After(r) ==
  IF r.type = "ccs" THEN Enable("shared", Null)
  ELSE IF r.key = "none" THEN Null
  ELSE [on |-> TRUE, key |-> r.key, seq |-> r.seq + 1, pos |-> r.pos + Len(r.body) + 1]
\* Each record fits where the one before it leaves the reader.
Chain(w, R, v) ==
  /\ R = <<>> => Same(w, v)
  /\ R # <<>> => Fits(w, R[1]) /\ Same(After(R[Len(R)]), v)
  /\ \A i \in DOMAIN R : i + 1 \in DOMAIN R => Fits(After(R[i]), R[i + 1])
\* The records from the server to the client, and those from the client to the server.
ReadInStep  == Calm => Chain(reading, Underway, peerWriting)
WriteInStep == Calm /\ peer # "gone" => Chain(peerReading, c2s, writing)

\* The cleartext handshake records of R hold the pieces of Q after the first lo and up
\* to hi, cut anywhere, and ChangeCipherSpec comes after them all.
Carries(r)       == r.type = "handshake" /\ r.key = "none"
\* Record r takes the count of pieces of Q from a to b.
Holds(Q, r, a, b) ==
  IF Carries(r)
  THEN b = a + Len(r.body) /\ b <= Len(Q) /\ \A j \in 1 .. Len(r.body) : r.body[j] = Q[a + j]
  ELSE b = a /\ (r.type = "ccs" => a = Len(Q))
\* Offsets lo to hi, record by record.
Flow(Q, R, lo, hi) ==
  \E off \in [0 .. Len(R) -> Nat] :
    /\ off[0] = lo /\ off[Len(R)] = hi
    /\ \A k \in 1 .. Len(R) : Holds(Q, R[k], off[k - 1], off[k])

-----------------------------------------------------------------------------
\* A record taken leaves the front of Bodies ...
LEMMA BodiesFront ==
  ASSUME NEW S \in Seq(Cell), NEW T \in Seq(Cell), Len(S) >= 2, Len(S) % 2 = 0,
         Len(T) = Len(S) - 2, \A i \in 1 .. Len(T) : T[i] = S[i + 2]
  PROVE  /\ Bodies(S) \in Seq(SRec) /\ Bodies(T) \in Seq(SRec)
         /\ Bodies(S) # <<>> /\ Bodies(S)[1] = S[2].rec /\ Bodies(T) = Tail(Bodies(S))
<1>1. PICK n \in Nat : Len(S) = 2 * n
  BY Z3
<1>2. n >= 1 /\ Len(S) \div 2 = n /\ Len(T) \div 2 = n - 1
  BY <1>1
<1>3. \A i \in DOMAIN S : S[i].rec \in SRec
  BY DEF Cell
<1>4. Bodies(S) = [k \in 1 .. n |-> S[2 * k].rec]
  BY <1>2 DEF Bodies
<1>5. Bodies(T) = [k \in 1 .. n - 1 |-> T[2 * k].rec]
  BY <1>2 DEF Bodies
<1>6. \A k \in 1 .. n : 2 * k \in DOMAIN S
  BY <1>1
<1>7. \A k \in 1 .. n - 1 : T[2 * k] = S[2 * (k + 1)] /\ k + 1 \in 1 .. n
  <2> SUFFICES ASSUME NEW k \in 1 .. n - 1 PROVE T[2 * k] = S[2 * (k + 1)] /\ k + 1 \in 1 .. n
    OBVIOUS
  <2>1. 2 * k \in 1 .. Len(T) /\ 2 * k + 2 = 2 * (k + 1)
    BY <1>1
  <2> QED BY <2>1
<1>8. Bodies(S) \in Seq(SRec) /\ Len(Bodies(S)) = n
  <2>1. \A k \in 1 .. n : S[2 * k].rec \in SRec
    BY <1>3, <1>6
  <2> QED BY <1>4, <2>1
<1>9. Bodies(T) \in Seq(SRec) /\ Len(Bodies(T)) = n - 1
  <2>1. \A k \in 1 .. n - 1 : T[2 * k].rec \in SRec
    BY <1>3, <1>6, <1>7
  <2>2. n - 1 \in Nat
    BY <1>2
  <2> QED BY <1>5, <2>1, <2>2
<1>10. \A k \in 1 .. n - 1 : Bodies(T)[k] = Bodies(S)[k + 1]
  BY <1>4, <1>5, <1>7
<1>11. Bodies(S)[1] = S[2].rec
  BY <1>2, <1>4
<1>12. Bodies(T) = Tail(Bodies(S))
  <2> DEFINE B == Bodies(S)
             C == Bodies(T)
  <2> HIDE DEF B, C
  <2>1. B \in Seq(SRec) /\ C \in Seq(SRec) /\ Len(B) = n /\ Len(C) = n - 1
        /\ \A k \in 1 .. n - 1 : C[k] = B[k + 1]
    BY <1>8, <1>9, <1>10 DEF B, C
  <2>2. Tail(B) \in Seq(SRec) /\ Len(Tail(B)) = n - 1 /\ \A k \in 1 .. n - 1 : Tail(B)[k] = B[k + 1]
    BY ONLY <1>2, <2>1
  <2>3. C = Tail(B)
    BY <2>1, <2>2, SeqEqual
  <2> QED BY <2>3 DEF B, C
<1>13. Bodies(S) # <<>>
  BY <1>2, <1>8
<1> QED BY <1>8, <1>9, <1>11, <1>12, <1>13

\* ... and one sent joins its back.
LEMMA BodiesBack ==
  ASSUME NEW S \in Seq(Cell), NEW T \in Seq(Cell), Len(S) % 2 = 0, Len(T) = Len(S) + 2,
         \A i \in 1 .. Len(S) : T[i] = S[i]
  PROVE  /\ Bodies(S) \in Seq(SRec) /\ T[Len(S) + 2].rec \in SRec
         /\ Bodies(T) = Append(Bodies(S), T[Len(S) + 2].rec)
<1>1. PICK n \in Nat : Len(S) = 2 * n
  BY Z3
<1>2. Len(S) \div 2 = n /\ Len(T) \div 2 = n + 1 /\ Len(S) + 2 = 2 * (n + 1)
  BY <1>1
<1>3. \A i \in DOMAIN T : T[i].rec \in SRec
  BY DEF Cell
<1>4. Bodies(S) = [k \in 1 .. n |-> S[2 * k].rec]
  BY <1>2 DEF Bodies
<1>5. Bodies(T) = [k \in 1 .. n + 1 |-> T[2 * k].rec]
  BY <1>2 DEF Bodies
<1>6. \A k \in 1 .. n + 1 : 2 * k \in DOMAIN T
  BY <1>1
<1>7. \A k \in 1 .. n : T[2 * k] = S[2 * k] /\ k \in 1 .. n + 1
  BY <1>1
<1>8. Bodies(T) \in Seq(SRec) /\ Len(Bodies(T)) = n + 1
  <2>1. \A k \in 1 .. n + 1 : T[2 * k].rec \in SRec
    BY <1>3, <1>6
  <2>2. n + 1 \in Nat
    OBVIOUS
  <2> QED BY <1>5, <2>1, <2>2
<1>9. Bodies(S) \in Seq(SRec) /\ Len(Bodies(S)) = n
  <2>1. \A k \in 1 .. n : S[2 * k].rec \in SRec
    BY <1>3, <1>6, <1>7
  <2> QED BY <1>4, <2>1
<1>10. \A k \in 1 .. n : Bodies(T)[k] = Bodies(S)[k]
  BY <1>4, <1>5, <1>7
<1>11. Bodies(T)[n + 1] = T[Len(S) + 2].rec /\ T[Len(S) + 2].rec \in SRec
  BY <1>2, <1>3, <1>5, <1>6
<1> DEFINE B == Bodies(S)
           C == Bodies(T)
           r == T[Len(S) + 2].rec
<1> HIDE DEF B, C, r
<1>12. B \in Seq(SRec) /\ C \in Seq(SRec) /\ Len(B) = n /\ Len(C) = n + 1 /\ r \in SRec
       /\ C[n + 1] = r /\ \A k \in 1 .. n : C[k] = B[k]
  BY <1>8, <1>9, <1>10, <1>11 DEF B, C, r
<1>13. C = Append(B, r)
  <2>1. /\ Append(B, r) \in Seq(SRec) /\ Len(Append(B, r)) = n + 1
        /\ Append(B, r)[n + 1] = r /\ \A k \in 1 .. n : Append(B, r)[k] = B[k]
    BY ONLY <1>12
  <2>2. \A k \in 1 .. n + 1 : C[k] = Append(B, r)[k]
    BY <1>12, <2>1
  <2> QED BY <1>12, <2>1, <2>2, SeqEqual
<1> QED BY <1>9, <1>11, <1>13 DEF B, C, r

\* The chain grows at the writer's end and shrinks at the reader's.
LEMMA ChainAppend ==
  ASSUME NEW X, NEW R \in Seq(X), NEW r \in X, NEW w, NEW v, NEW u,
         Chain(w, R, v), \A s : Same(s, v) => Fits(s, r), Same(After(r), u)
  PROVE  Chain(w, Append(R, r), u)
<1>1. /\ Append(R, r) \in Seq(X) /\ Len(Append(R, r)) = Len(R) + 1
      /\ \A i \in 1 .. Len(R) : Append(R, r)[i] = R[i]
      /\ Append(R, r)[Len(R) + 1] = r /\ Append(R, r) # <<>>
  BY AppendedRecord
<1> DEFINE T == Append(R, r)
<1> HIDE DEF T
<1>2. /\ T \in Seq(X) /\ Len(T) = Len(R) + 1 /\ DOMAIN T = 1 .. Len(R) + 1 /\ DOMAIN R = 1 .. Len(R)
      /\ \A i \in 1 .. Len(R) : T[i] = R[i]
      /\ T[Len(R) + 1] = r /\ T # <<>> /\ Len(R) \in Nat
  BY <1>1 DEF T
<1>3. CASE R = <<>>
  <2>1. Fits(w, r) /\ Len(R) = 0
    BY <1>3 DEF Chain
  <2>2. T[1] = r /\ T[Len(T)] = r
    BY <1>2, <2>1
  <2>3. \A i \in DOMAIN T : i + 1 \notin DOMAIN T
    BY <1>2, <2>1
  <2>4. Chain(w, T, u)
    BY <1>2, <2>1, <2>2, <2>3 DEF Chain
  <2> QED BY <2>4 DEF T
<1>4. CASE R # <<>>
  <2>1. Len(R) >= 1
    BY <1>4
  <2>2. Fits(w, R[1]) /\ Same(After(R[Len(R)]), v)
    BY <1>4 DEF Chain
  <2>3. T[1] = R[1] /\ T[Len(T)] = r /\ T[Len(R)] = R[Len(R)]
    BY <1>2, <2>1
  <2>4. Fits(After(T[Len(R)]), r)
    BY <2>2, <2>3
  <2>5. ASSUME NEW i \in DOMAIN T, i + 1 \in DOMAIN T PROVE Fits(After(T[i]), T[i + 1])
    <3>1. CASE i = Len(R)
      BY <1>2, <2>4, <3>1
    <3>2. CASE i # Len(R)
      <4>1. i \in DOMAIN R /\ i + 1 \in DOMAIN R
        BY <1>2, <2>5, <3>2
      <4> QED BY <1>2, <4>1 DEF Chain
    <3> QED BY <3>1, <3>2
  <2>6. Chain(w, T, u)
    BY <1>2, <2>2, <2>3, <2>5 DEF Chain
  <2> QED BY <2>6 DEF T
<1> QED BY <1>3, <1>4

\* A reader that takes the first record stands where the rest of the chain begins.
LEMMA ChainTail ==
  ASSUME NEW X, NEW R \in Seq(X), R # <<>>, NEW w, NEW v, NEW u, Chain(w, R, v),
         \A s : Same(After(R[1]), s) => Same(u, s), \A s : Fits(After(R[1]), s) => Fits(u, s)
  PROVE  Chain(u, Tail(R), v)
<1> DEFINE T == Tail(R)
<1>1. /\ T \in Seq(X) /\ Len(T) = Len(R) - 1 /\ Len(R) >= 1
      /\ \A i \in 1 .. Len(T) : T[i] = R[i + 1]
  OBVIOUS
<1> HIDE DEF T
<1>2. DOMAIN T = 1 .. Len(R) - 1 /\ DOMAIN R = 1 .. Len(R) /\ Len(R) \in Nat
  BY <1>1
<1>3. CASE T = <<>>
  <2>1. Len(R) = 1
    BY <1>1, <1>3
  <2>2. Same(After(R[1]), v)
    BY <2>1 DEF Chain
  <2>3. Chain(u, T, v)
    BY <1>2, <1>3, <2>1, <2>2 DEF Chain
  <2> QED BY <2>3 DEF T
<1>4. CASE T # <<>>
  <2>1. Len(R) >= 2
    BY <1>1, <1>4
  <2>2. 1 \in DOMAIN R /\ 1 + 1 \in DOMAIN R /\ T[1] = R[2] /\ T[Len(T)] = R[Len(R)]
    BY <1>1, <1>2, <2>1
  <2>3. Fits(After(R[1]), R[2]) /\ Same(After(R[Len(R)]), v)
    BY <2>2 DEF Chain
  <2>4. ASSUME NEW i \in DOMAIN T, i + 1 \in DOMAIN T PROVE Fits(After(T[i]), T[i + 1])
    <3>1. i + 1 \in DOMAIN R /\ (i + 1) + 1 \in DOMAIN R
      BY <1>1, <1>2, <2>4
    <3>2. T[i] = R[i + 1] /\ T[i + 1] = R[(i + 1) + 1]
      BY <1>1, <1>2, <2>4
    <3> QED BY <3>1, <3>2 DEF Chain
  <2>5. Chain(u, T, v)
    BY <1>4, <2>2, <2>3, <2>4 DEF Chain
  <2> QED BY <2>5 DEF T
<1> QED BY <1>3, <1>4

\* A record fits whoever stands where its writer stood, and leaves both where the
\* other is; one that fits and is whole opens.
LEMMA Steps ==
  ASSUME NEW v \in Side, Keyed(v), NEW type \in RecType, NEW body, Len(body) \in Nat
  PROVE  LET r == Protect(v, type, body)
         IN  /\ \A s : Same(s, v) => Fits(s, r)
             /\ type # "ccs" => Same(After(r), Advance(v, body)) /\ Keyed(Advance(v, body))
             /\ \A k : type = "ccs" => Same(After(r), Enable("shared", Advance(v, body)))
<1> DEFINE r == Protect(v, type, body)
<1>1. /\ r.type = type /\ r.body = body /\ r.key = v.key /\ r.pos = v.pos
      /\ r.seq = IF v.on THEN v.seq ELSE 0
  BY DEF Protect
<1>2. v.on \in BOOLEAN /\ v.seq \in Nat /\ v.pos \in Nat
  BY DEF Side
<1>3. r.key # "none" <=> v.on
  BY <1>1, <1>2 DEF Keyed
<1>4. ASSUME NEW s, Same(s, v) PROVE Fits(s, r)
  <2>1. s.on = v.on /\ (v.on => s.key = v.key /\ s.seq = v.seq /\ s.pos = v.pos)
    BY <1>4 DEF Same
  <2> QED BY <1>1, <1>2, <1>3, <2>1 DEF Fits
<1>5. /\ Advance(v, body).on = v.on /\ Advance(v, body).key = v.key
      /\ v.on => Advance(v, body).seq = v.seq + 1 /\ Advance(v, body).pos = v.pos + Len(body) + 1
  BY <1>2 DEF Advance, Side
<1>6. type # "ccs" => Same(After(r), Advance(v, body))
  <2>1. CASE v.on
    BY <1>1, <1>3, <1>5, <2>1 DEF Same, After
  <2>2. CASE ~v.on
    <3>1. type # "ccs" => After(r) = Null
      BY <1>1, <1>3, <2>2 DEF After
    <3> QED BY <1>2, <1>5, <2>2, <3>1, NullType DEF Same
  <2> QED BY <2>1, <2>2
<1>7. Keyed(Advance(v, body))
  BY <1>5 DEF Keyed
<1>8. type = "ccs" => Same(After(r), Enable("shared", Advance(v, body)))
  <2>1. /\ Enable("shared", Advance(v, body)).on = TRUE /\ Enable("shared", Advance(v, body)).key = "shared"
        /\ Enable("shared", Advance(v, body)).seq = 0 /\ Enable("shared", Advance(v, body)).pos = 0
    BY DEF Enable, Advance, Side
  <2>2. type = "ccs" => After(r) = Enable("shared", Null)
    BY <1>1 DEF After
  <2>3. /\ Enable("shared", Null).on = TRUE /\ Enable("shared", Null).key = "shared"
        /\ Enable("shared", Null).seq = 0 /\ Enable("shared", Null).pos = 0
    BY EnableTypes, NullType DEF Keys
  <2> QED BY <2>1, <2>2, <2>3 DEF Same
<1> QED BY <1>4, <1>6, <1>7, <1>8

\* A record that fits opens, and leaves the reader at After(r).
LEMMA ReadSteps ==
  ASSUME NEW w \in Side, Keyed(w), NEW r \in SRec \cup CRec, Len(r.body) \in Nat, Fits(w, r)
  PROVE  /\ r.whole => Opens(w, r)
         /\ ~w.on => r.key = "none"
         /\ r.type # "ccs" => Same(After(r), Advance(w, r.body))
         /\ \A x \in Side : r.type = "ccs" => Same(After(r), Enable("shared", x))
<1>1. w.on \in BOOLEAN /\ w.seq \in Nat /\ w.pos \in Nat
  BY DEF Side
<1>2. /\ Advance(w, r.body).on = w.on /\ Advance(w, r.body).key = w.key
      /\ w.on => Advance(w, r.body).seq = w.seq + 1 /\ Advance(w, r.body).pos = w.pos + Len(r.body) + 1
  BY <1>1 DEF Advance, Side
<1>3. r.type # "ccs" => Same(After(r), Advance(w, r.body))
  <2>1. CASE w.on
    BY <1>2, <2>1 DEF Same, After, Fits
  <2>2. CASE ~w.on
    BY <1>1, <1>2, <2>2 DEF Same, After, Null, Fits
  <2> QED BY <2>1, <2>2
<1>4. ASSUME NEW x \in Side, r.type = "ccs" PROVE Same(After(r), Enable("shared", x))
  <2>1. /\ Enable("shared", x).on = TRUE /\ Enable("shared", x).key = "shared"
        /\ Enable("shared", x).seq = 0 /\ Enable("shared", x).pos = 0
    BY DEF Enable, Side
  <2>2. After(r) = Enable("shared", Null)
    BY <1>4 DEF After
  <2>3. /\ Enable("shared", Null).on = TRUE /\ Enable("shared", Null).key = "shared"
        /\ Enable("shared", Null).seq = 0 /\ Enable("shared", Null).pos = 0
    BY EnableTypes, NullType DEF Keys
  <2> QED BY <2>1, <2>2, <2>3 DEF Same
<1>5. r.whole => Opens(w, r)
  BY DEF Opens, Fits
<1>6. ~w.on => r.key = "none"
  BY DEF Fits
<1> QED BY <1>3, <1>4, <1>5, <1>6

\* Same is an equivalence and keeps what fits.
LEMMA SameFits ==
  ASSUME NEW a, NEW b, Same(a, b), NEW s
  PROVE  (Same(a, s) => Same(b, s)) /\ (Fits(a, s) => Fits(b, s)) /\ Same(b, a)
  BY DEF Same, Fits

\* The flow grows by a record that holds the next pieces, or none.
LEMMA FlowAppend ==
  ASSUME NEW X, NEW R \in Seq(X), NEW r \in X, NEW Q, NEW lo \in Nat, NEW hi \in Nat,
         NEW top \in Nat, Flow(Q, R, lo, hi), Holds(Q, r, hi, top)
  PROVE  Flow(Q, Append(R, r), lo, top)
<1>1. PICK off \in [0 .. Len(R) -> Nat] :
        /\ off[0] = lo /\ off[Len(R)] = hi
        /\ \A k \in 1 .. Len(R) : Holds(Q, R[k], off[k - 1], off[k])
  BY DEF Flow
<1> DEFINE T == Append(R, r)
           new == [k \in 0 .. Len(R) + 1 |-> IF k = Len(R) + 1 THEN top ELSE off[k]]
<1>2. /\ T \in Seq(X) /\ Len(T) = Len(R) + 1 /\ Len(R) \in Nat
      /\ (\A i \in 1 .. Len(R) : T[i] = R[i]) /\ T[Len(R) + 1] = r
  BY AppendedRecord
<1>3. new \in [0 .. Len(R) + 1 -> Nat]
  BY <1>1, <1>2
<1>4. new[Len(R) + 1] = top /\ \A k \in 0 .. Len(R) : new[k] = off[k]
  BY <1>2
<1> HIDE DEF T, new
<1>5. ASSUME NEW k \in 1 .. Len(R) + 1 PROVE Holds(Q, T[k], new[k - 1], new[k])
  <2>1. CASE k = Len(R) + 1
    <3>1. k - 1 = Len(R) /\ Len(R) \in 0 .. Len(R)
      BY <1>2, <2>1
    <3>2. new[k - 1] = hi /\ new[k] = top /\ T[k] = r
      BY <1>1, <1>2, <1>4, <2>1, <3>1
    <3> QED BY <3>2
  <2>2. CASE k # Len(R) + 1
    <3>1. k \in 1 .. Len(R) /\ k \in 0 .. Len(R) /\ k - 1 \in 0 .. Len(R)
      BY <1>2, <2>2
    <3>2. new[k - 1] = off[k - 1] /\ new[k] = off[k] /\ T[k] = R[k]
      BY <1>2, <1>4, <3>1
    <3> QED BY <1>1, <3>1, <3>2
  <2> QED BY <2>1, <2>2
<1>6. new[0] = lo /\ 0 \in 0 .. Len(R)
  BY <1>1, <1>2, <1>4
<1>7. Flow(Q, T, lo, top)
  BY <1>2, <1>3, <1>4, <1>5, <1>6 DEF Flow
<1> QED BY <1>7 DEF T

\* A record taken: what it held is what comes next.
LEMMA FlowTail ==
  ASSUME NEW X, NEW R \in Seq(X), R # <<>>, NEW Q, NEW lo \in Nat, NEW hi \in Nat,
         Flow(Q, R, lo, hi)
  PROVE  \E low \in Nat : Holds(Q, R[1], lo, low) /\ Flow(Q, Tail(R), low, hi)
<1>1. PICK off \in [0 .. Len(R) -> Nat] :
        /\ off[0] = lo /\ off[Len(R)] = hi
        /\ \A k \in 1 .. Len(R) : Holds(Q, R[k], off[k - 1], off[k])
  BY DEF Flow
<1> DEFINE T == Tail(R)
           new == [k \in 0 .. Len(R) - 1 |-> off[k + 1]]
<1>2. /\ T \in Seq(X) /\ Len(T) = Len(R) - 1 /\ Len(R) >= 1 /\ Len(R) \in Nat
      /\ (\A i \in 1 .. Len(R) - 1 : T[i] = R[i + 1])
  OBVIOUS
<1>3. \A k \in 0 .. Len(R) - 1 : k + 1 \in 0 .. Len(R) /\ k + 1 \in 1 .. Len(R)
  BY <1>2
<1>4. new \in [0 .. Len(R) - 1 -> Nat]
  BY <1>1, <1>3
<1>5. \A k \in 0 .. Len(R) - 1 : new[k] = off[k + 1]
  OBVIOUS
<1> HIDE DEF T, new
<1>6. new[0] = off[1] /\ off[1] \in Nat /\ Holds(Q, R[1], lo, off[1])
  <2>1. 0 \in 0 .. Len(R) - 1 /\ 1 \in 1 .. Len(R) /\ 1 \in 0 .. Len(R) /\ 1 - 1 = 0 /\ 0 + 1 = 1
    BY <1>2
  <2> QED BY <1>1, <1>5, <2>1
<1>7. new[Len(R) - 1] = hi
  <2>1. Len(R) - 1 \in 0 .. Len(R) - 1 /\ (Len(R) - 1) + 1 = Len(R)
    BY <1>2
  <2> QED BY <1>1, <1>5, <2>1
<1>8. ASSUME NEW k \in 1 .. Len(R) - 1 PROVE Holds(Q, T[k], new[k - 1], new[k])
  <2>1. k \in 0 .. Len(R) - 1 /\ k - 1 \in 0 .. Len(R) - 1 /\ k + 1 \in 1 .. Len(R)
        /\ (k - 1) + 1 = k /\ (k + 1) - 1 = k
    BY <1>2
  <2>2. new[k - 1] = off[k] /\ new[k] = off[k + 1] /\ T[k] = R[k + 1]
    BY <1>2, <1>5, <2>1
  <2>3. Holds(Q, R[k + 1], off[(k + 1) - 1], off[k + 1])
    BY <1>1, <2>1
  <2> QED BY <2>1, <2>2, <2>3
<1>9. Flow(Q, T, off[1], hi)
  BY <1>2, <1>4, <1>6, <1>7, <1>8 DEF Flow
<1> QED BY <1>6, <1>9 DEF T

\* The flow of no records.
LEMMA FlowNone ==
  ASSUME NEW Q, NEW lo \in Nat
  PROVE  Flow(Q, <<>>, lo, lo)
<1> DEFINE off == [k \in 0 .. 0 |-> lo]
<1>1. off \in [0 .. 0 -> Nat] /\ off[0] = lo /\ Len(<<>>) = 0
  OBVIOUS
<1>2. \A k \in 1 .. 0 : FALSE
  OBVIOUS
<1> HIDE DEF off
<1> QED BY <1>1, <1>2 DEF Flow

-----------------------------------------------------------------------------
\* What went wrong is not forgotten.
LEMMA FaultsKept ==
  ASSUME [Next]_vars, Undamaged'
  PROVE  Undamaged /\ ~Damage
<1>1. ~Damage
  BY DEF Damage, Undamaged
<1>2. faults \subseteq faults'
  <2>1. CASE Connect \/ (\E n \in {1, Len(s2c)} : Fill(n)) \/ TakeHello \/ TakeFinished \/ Send \/ Close
    BY <2>1 DEF Connect, Fill, TakeHello, TakeFinished, Send, Close
  <2>2. CASE LocalFails
    BY <2>2 DEF LocalFails, FillEnds, FillFails, BadHeader, BadMac, GiveUp, Fail
  <2>3. CASE RecordTaken
    BY <2>3 DEF RecordTaken, HandleAlert, TakeFragment, TakeChangeCipherSpec, Deliver, Unexpected, Fail
  <2>4. CASE SendFlight \/ Refuse
    BY <2>4 DEF SendFlight, Refuse, Fail
  <2>5. CASE PeerSteps
    BY <2>5 DEF PeerSteps, PeerHello, PeerEmit, PeerHandshake, PeerChangeCipherSpec, PeerRejects,
                PeerFinish, PeerHears, PeerSends, PeerAlerts, PeerHangsUp
  <2>6. CASE UNCHANGED vars
    BY <2>6 DEF vars
  <2> QED BY <1>1, <2>1, <2>2, <2>3, <2>4, <2>5, <2>6, StepKinds
<1> QED BY <1>1, <1>2 DEF Undamaged

\* A record the client takes leaves the front of the stream ...
LEMMA StreamTaken ==
  ASSUME Wires, Len(rx) >= 2, rx' = SubSeq(rx, 3, Len(rx)), s2c' = s2c
  PROVE  /\ Stream0 \in Seq(Cell) /\ Stream0' \in Seq(Cell) /\ Len(Stream0) >= 2
         /\ Len(Stream0') = Len(Stream0) - 2 /\ Stream0[2].rec = Record
         /\ \A i \in 1 .. Len(Stream0') : Stream0'[i] = Stream0[i + 2]
<1>1. Len(rx) >= 2 /\ rx \in Seq(Cell) /\ s2c \in Seq(Cell)
  BY DEF Wires
<1> DEFINE T == SubSeq(rx, 3, Len(rx)) \o s2c
<1>2. /\ Stream0 \in Seq(Cell) /\ T \in Seq(Cell) /\ Len(Stream0) >= 2
      /\ Len(T) = Len(Stream0) - 2 /\ Stream0[2] = rx[2]
      /\ \A i \in 1 .. Len(T) : T[i] = Stream0[i + 2]
  BY <1>1, StreamFront DEF Stream0
<1>3. Stream0' = T
  BY DEF Stream0
<1> HIDE DEF T
<1> QED BY <1>2, <1>3 DEF Record

\* ... and one the server sends joins its back.
Sends(type, body) ==
  rx' = rx /\ s2c' = s2c \o Cells(Protect(peerWriting, type, body))

\* The cells of the record sent are the last two of the stream.
LEMMA StreamSent ==
  ASSUME Wires, peerWriting \in Side, NEW type \in RecType, NEW body \in SBody,
         type = "handshake" => body \in Seq(Piece),
         type = "data" => body \in Seq(Nat) /\ Len(body) = 1, Sends(type, body)
  PROVE  /\ Stream0 \in Seq(Cell) /\ Stream0' \in Seq(Cell) /\ Len(Stream0') = Len(Stream0) + 2
         /\ \A i \in 1 .. Len(Stream0) : Stream0'[i] = Stream0[i]
         /\ Stream0'[Len(Stream0) + 1].rec = Protect(peerWriting, type, body)
         /\ Stream0'[Len(Stream0) + 2].rec = Protect(peerWriting, type, body)
<1>0. rx \in Seq(Cell) /\ s2c \in Seq(Cell)
  BY DEF Wires
<1> DEFINE r == Protect(peerWriting, type, body)
<1>1. /\ s2c' \in Seq(Cell) /\ Len(s2c') = Len(s2c) + 2
      /\ \A i \in 1 .. Len(s2c) : s2c'[i] = s2c[i]
      /\ s2c'[Len(s2c) + 1] = [head |-> TRUE, rec |-> r]
      /\ s2c'[Len(s2c) + 2] = [head |-> FALSE, rec |-> r]
  BY <1>0, RecordSent DEF Sends
<1> HIDE DEF r
<1>2. ASSUME NEW c \in Seq(Cell), Len(c) = Len(s2c) + 2, \A i \in 1 .. Len(s2c) : c[i] = s2c[i]
      PROVE  /\ Stream0 \in Seq(Cell) /\ rx \o c \in Seq(Cell) /\ Len(rx \o c) = Len(Stream0) + 2
             /\ \A i \in 1 .. Len(Stream0) : (rx \o c)[i] = Stream0[i]
             /\ (rx \o c)[Len(Stream0) + 1] = c[Len(s2c) + 1]
             /\ (rx \o c)[Len(Stream0) + 2] = c[Len(s2c) + 2]
  <2>1. ASSUME NEW a \in Seq(Cell), NEW b \in Seq(Cell), Len(c) = Len(b) + 2,
               \A i \in 1 .. Len(b) : c[i] = b[i]
        PROVE  /\ a \o b \in Seq(Cell) /\ a \o c \in Seq(Cell) /\ Len(a \o c) = Len(a \o b) + 2
               /\ \A i \in 1 .. Len(a \o b) : (a \o c)[i] = (a \o b)[i]
               /\ (a \o c)[Len(a \o b) + 1] = c[Len(b) + 1]
               /\ (a \o c)[Len(a \o b) + 2] = c[Len(b) + 2]
    BY ONLY <2>1, StreamBack, SMTT(30)
  <2>2. Stream0 = rx \o s2c
    BY DEF Stream0
  <2> QED BY ONLY <1>0, <1>2, <2>1, <2>2, ZenonT(40)
<1>3. /\ Stream0 \in Seq(Cell) /\ rx \o s2c' \in Seq(Cell) /\ Len(rx \o s2c') = Len(Stream0) + 2
      /\ \A i \in 1 .. Len(Stream0) : (rx \o s2c')[i] = Stream0[i]
      /\ (rx \o s2c')[Len(Stream0) + 1] = s2c'[Len(s2c) + 1]
      /\ (rx \o s2c')[Len(Stream0) + 2] = s2c'[Len(s2c) + 2]
  BY ONLY <1>1, <1>2, Zenon
<1>4. Stream0' = rx \o s2c'
  BY DEF Stream0, Sends
<1>5. [head |-> TRUE, rec |-> r].rec = r /\ [head |-> FALSE, rec |-> r].rec = r
  OBVIOUS
<1>6. /\ Stream0' \in Seq(Cell) /\ Len(Stream0') = Len(Stream0) + 2
      /\ \A i \in 1 .. Len(Stream0) : Stream0'[i] = Stream0[i]
      /\ Stream0'[Len(Stream0) + 1].rec = r /\ Stream0'[Len(Stream0) + 2].rec = r
  BY ONLY <1>1, <1>3, <1>4, <1>5
<1> QED BY <1>3, <1>6 DEF r

\* The records the server sends, one by one.
Emission ==
  \E type \in RecType, body \in SBody :
    /\ Alive /\ pc' = pc /\ Sends(type, body)
    /\ type = "handshake" =>
         /\ body \in Seq(Piece)
         /\ \E n \in DOMAIN pending : PeerEmit(n) /\ body = SubSeq(pending, 1, n)
    /\ type = "data" => body \in Seq(Nat) /\ Len(body) = 1
    /\ type = "ccs" => PeerFinish /\ peerWriting' = Enable(PeerKey, Advance(peerWriting, body))
    /\ type # "ccs" => peerWriting' = Advance(peerWriting, body) /\ finOver' = finOver
    /\ type \notin {"handshake", "ccs"} => pending' = pending
    /\ Len(body) \in Nat

\* Each of the server's sending actions is an Emission.
LEMMA EmissionOf ==
  ASSUME PeerShape,
         (\E n \in DOMAIN pending : PeerEmit(n)) \/ PeerRejects \/ PeerFinish \/ PeerSends
           \/ (\E a \in Alerts : PeerAlerts(a))
  PROVE  Emission
<1>0. pending \in Seq(Piece) /\ sent \in Seq(Nat)
  BY DEF PeerShape
<1>1. ASSUME NEW n \in DOMAIN pending, PeerEmit(n) PROVE Emission
  <2> DEFINE b == SubSeq(pending, 1, n)
  <2>1. n \in 0 .. Len(pending)
    BY <1>0
  <2>2. b \in Seq(Piece) /\ Len(b) \in Nat
    BY <1>0, <2>1, CutTypes
  <2>3. /\ Alive /\ s2c' = s2c \o Cells(Protect(peerWriting, "handshake", b))
        /\ peerWriting' = Advance(peerWriting, b) /\ pc' = pc /\ rx' = rx /\ finOver' = finOver
    BY <1>1 DEF PeerEmit, Emit, clientVars
  <2>4. b \in SBody /\ "handshake" \in RecType
    BY <2>2, ServerBodies
  <2>5. \E m \in DOMAIN pending : PeerEmit(m) /\ b = SubSeq(pending, 1, m)
    BY <1>1
  <2> HIDE DEF b
  <2> QED BY <2>2, <2>3, <2>4, <2>5 DEF Emission, Sends
<1>2. CASE PeerRejects \/ (\E a \in Alerts : PeerAlerts(a))
  <2>1. "fatal" \in Alerts
    BY DEF Alerts
  <2>2. PICK a \in Alerts : /\ Alive /\ s2c' = s2c \o Cells(Protect(peerWriting, "alert", <<a>>))
                            /\ peerWriting' = Advance(peerWriting, <<a>>)
    BY <1>2, <2>1 DEF PeerRejects, PeerAlerts, Emit
  <2>3. UNCHANGED <<rx, pc>> /\ UNCHANGED <<pending, finOver>>
    BY <1>2 DEF PeerRejects, PeerAlerts, clientVars
  <2>4. <<a>> \in SBody /\ "alert" \in RecType /\ Len(<<a>>) \in Nat
    BY ServerBodies
  <2> QED BY <2>2, <2>3, <2>4 DEF Emission, Sends
<1>3. CASE PeerFinish
  <2>1. /\ Alive /\ s2c' = s2c \o Cells(Protect(peerWriting, "ccs", <<1>>))
        /\ peerWriting' = Enable(PeerKey, Advance(peerWriting, <<1>>)) /\ UNCHANGED <<rx, pc>>
    BY <1>3 DEF PeerFinish, clientVars
  <2>2. <<1>> \in SBody /\ "ccs" \in RecType /\ Len(<<1>>) \in Nat
    BY ServerBodies
  <2> QED BY <1>3, <2>1, <2>2 DEF Emission, Sends
<1>4. CASE PeerSends
  <2>1. /\ Alive /\ s2c' = s2c \o Cells(Protect(peerWriting, "data", <<Len(sent) + 1>>))
        /\ peerWriting' = Advance(peerWriting, <<Len(sent) + 1>>)
        /\ UNCHANGED <<rx, pc>> /\ UNCHANGED <<pending, finOver>>
    BY <1>4 DEF PeerSends, Emit, clientVars
  <2>2. Len(sent) + 1 \in Nat
    BY <1>0
  <2>3. /\ <<Len(sent) + 1>> \in SBody /\ <<Len(sent) + 1>> \in Seq(Nat) /\ Len(<<Len(sent) + 1>>) = 1
        /\ "data" \in RecType
    BY <2>2, ServerBodies
  <2> QED BY <2>1, <2>3 DEF Emission, Sends
<1> QED BY <1>1, <1>2, <1>3, <1>4

-----------------------------------------------------------------------------
\* Clean sequences stay clean, cut and joined.
LEMMA CleanJoin ==
  ASSUME NEW X, NEW s \in Seq(X), NEW t \in Seq(X), Clean(s), Clean(t)
  PROVE  Clean(s \o t)
<1>1. /\ s \o t \in Seq(X) /\ Len(s \o t) = Len(s) + Len(t)
      /\ \A i \in 1 .. Len(s) : (s \o t)[i] = s[i]
      /\ \A i \in 1 .. Len(t) : (s \o t)[Len(s) + i] = t[i]
      /\ DOMAIN (s \o t) = 1 .. Len(s) + Len(t)
  BY Joined
<1>2. DOMAIN s = 1 .. Len(s) /\ DOMAIN t = 1 .. Len(t) /\ Len(s) \in Nat /\ Len(t) \in Nat
  OBVIOUS
<1>3. ASSUME NEW i \in 1 .. Len(s) + Len(t) PROVE ~(s \o t)[i].alt
  <2>1. CASE i \in 1 .. Len(s)
    BY <1>1, <1>2, <2>1 DEF Clean
  <2>2. CASE i \notin 1 .. Len(s)
    <3>1. i - Len(s) \in 1 .. Len(t) /\ Len(s) + (i - Len(s)) = i
      BY <1>2, <2>2
    <3>2. (s \o t)[i] = t[i - Len(s)]
      BY <1>1, <3>1
    <3> QED BY <1>2, <3>1, <3>2 DEF Clean
  <2> QED BY <2>1, <2>2
<1> QED BY <1>1, <1>3 DEF Clean

\* Clean sequences: with one more message, cut in two, and after the first message.
LEMMA CleanAppend ==
  ASSUME NEW X, NEW s \in Seq(X), NEW m \in X, Clean(s), ~m.alt
  PROVE  Clean(Append(s, m)) /\ Clean(<<m>>)
<1>1. /\ Append(s, m) \in Seq(X) /\ Len(Append(s, m)) = Len(s) + 1
      /\ \A i \in 1 .. Len(s) : Append(s, m)[i] = s[i]
      /\ Append(s, m)[Len(s) + 1] = m
  BY AppendedRecord
<1>2. DOMAIN Append(s, m) = 1 .. Len(s) + 1 /\ DOMAIN s = 1 .. Len(s) /\ Len(s) \in Nat
  BY <1>1
<1>3. \A i \in 1 .. Len(s) + 1 : i \in 1 .. Len(s) \/ i = Len(s) + 1
  BY <1>2
<1>4. Clean(Append(s, m))
  BY <1>1, <1>2, <1>3 DEF Clean
<1>5. DOMAIN <<m>> = {1} /\ <<m>>[1] = m
  OBVIOUS
<1> QED BY <1>4, <1>5 DEF Clean

LEMMA CleanCut ==
  ASSUME NEW X, NEW s \in Seq(X), Clean(s), NEW n \in 0 .. Len(s)
  PROVE  Clean(SubSeq(s, 1, n)) /\ Clean(SubSeq(s, n + 1, Len(s)))
<1>1. /\ SubSeq(s, 1, n) \in Seq(X) /\ Len(SubSeq(s, 1, n)) = n
      /\ \A i \in 1 .. n : SubSeq(s, 1, n)[i] = s[i]
      /\ SubSeq(s, n + 1, Len(s)) \in Seq(X) /\ Len(SubSeq(s, n + 1, Len(s))) = Len(s) - n
      /\ \A i \in 1 .. Len(s) - n : SubSeq(s, n + 1, Len(s))[i] = s[n + i]
  BY CutTypes
<1> DEFINE a == SubSeq(s, 1, n)
           b == SubSeq(s, n + 1, Len(s))
<1> HIDE DEF a, b
<1>2. DOMAIN a = 1 .. n /\ DOMAIN b = 1 .. Len(s) - n /\ DOMAIN s = 1 .. Len(s) /\ Len(s) \in Nat
  BY <1>1 DEF a, b
<1>3. (\A i \in 1 .. n : a[i] = s[i]) /\ \A i \in 1 .. Len(s) - n : b[i] = s[n + i]
  BY <1>1 DEF a, b
<1>4. Clean(a)
  BY <1>2, <1>3 DEF Clean
<1>5. \A i \in 1 .. Len(s) - n : n + i \in DOMAIN s
  BY <1>2
<1>6. Clean(b)
  BY <1>2, <1>3, <1>5 DEF Clean
<1> QED BY <1>4, <1>6 DEF a, b

LEMMA CleanRest ==
  ASSUME NEW X, NEW s \in Seq(X), Clean(s), Len(s) >= 2
  PROVE  Clean(SubSeq(s, 3, Len(s)))
<1>1. 2 \in 0 .. Len(s) /\ 2 + 1 = 3
  OBVIOUS
<1>2. Clean(SubSeq(s, 2 + 1, Len(s)))
  BY <1>1, CleanCut
<1> QED BY <1>1, <1>2

\* What the server and the client send is clean.
LEMMA CleanPieces ==
  ASSUME NEW t \in Seq(Types)
  PROVE  /\ Clean(Pieces(t)) /\ Pieces(t) \in Seq(Piece) /\ Len(Pieces(t)) = 2 * Len(t)
         /\ \A c \in 1 .. Len(t) : /\ 2 * c \in 1 .. 2 * Len(t) /\ 2 * c - 1 \in 1 .. 2 * Len(t)
                                   /\ Pieces(t)[2 * c - 1].ht = t[c] /\ Pieces(t)[2 * c].ht = t[c]
<1>1. Pieces(t) \in Seq(Piece) /\ Len(Pieces(t)) = 2 * Len(t)
  BY PiecesTypes
<1>2. DOMAIN Pieces(t) = 1 .. 2 * Len(t)
  BY DEF Pieces
<1>3. \A i \in 1 .. 2 * Len(t) : Pieces(t)[i] = [ht |-> t[(i + 1) \div 2], alt |-> FALSE, head |-> i % 2 = 1]
  BY DEF Pieces
<1>4. \A i \in 1 .. 2 * Len(t) : Pieces(t)[i].alt = FALSE /\ Pieces(t)[i].ht = t[(i + 1) \div 2]
  <2> SUFFICES ASSUME NEW i \in 1 .. 2 * Len(t)
               PROVE  Pieces(t)[i].alt = FALSE /\ Pieces(t)[i].ht = t[(i + 1) \div 2]
    OBVIOUS
  <2> DEFINE h == i % 2 = 1
  <2>1. Pieces(t)[i] = [ht |-> t[(i + 1) \div 2], alt |-> FALSE, head |-> h]
    BY <1>3
  <2> HIDE DEF h
  <2> QED BY <2>1
<1>5. ASSUME NEW c \in 1 .. Len(t)
      PROVE  /\ 2 * c \in 1 .. 2 * Len(t) /\ 2 * c - 1 \in 1 .. 2 * Len(t)
             /\ Pieces(t)[2 * c - 1].ht = t[c] /\ Pieces(t)[2 * c].ht = t[c]
  <2>1. 2 * c \in 1 .. 2 * Len(t) /\ 2 * c - 1 \in 1 .. 2 * Len(t)
    OBVIOUS
  <2>2. (2 * c + 1) \div 2 = c /\ ((2 * c - 1) + 1) \div 2 = c
    OBVIOUS
  <2> QED BY <1>4, <2>1, <2>2
<1> QED BY <1>1, <1>2, <1>4, <1>5 DEF Clean

\* A fragment in the clear and whole is taken as it was sent.
LEMMA SoundFragment ==
  ASSUME NEW X, X = Msg \/ X = Piece, NEW r, r.type = "handshake", r.body \in Seq(X), Sound(r)
  PROVE  Fragment(r) = r.body /\ Clean(r.body)
  BY FragmentTypes DEF Sound

\* The record the client takes, and the one the server takes.
LEMMA SoundRecord ==
  ASSUME CleanWires, Wires, Len(rx) >= 2
  PROVE  Sound(Record) /\ Sound(rx[1].rec)
<1>1. rx \in Seq(Cell) /\ s2c \in Seq(Cell) /\ 2 \in 1 .. Len(rx) /\ 1 \in 1 .. Len(rx)
  BY DEF Wires
<1>2. /\ DOMAIN (rx \o s2c) = 1 .. Len(rx) + Len(s2c)
      /\ \A i \in 1 .. Len(rx) : (rx \o s2c)[i] = rx[i]
  BY <1>1, Joined
<1>3. 1 .. Len(rx) \subseteq 1 .. Len(rx) + Len(s2c)
  BY <1>1
<1> QED BY <1>1, <1>2, <1>3 DEF CleanWires, Stream0, Record

\* The record the server reads next is sound.
LEMMA SoundIncoming ==
  ASSUME CleanWires, Wires, c2s # <<>>
  PROVE  Sound(Incoming)
<1>1. 1 \in DOMAIN c2s /\ Incoming = c2s[1]
  BY IncomingTypes DEF Wires
<1> QED BY <1>1 DEF CleanWires

\* The message parsed from clean pieces.
LEMMA CleanParsed ==
  ASSUME Clean(hs), hs \in Seq(Piece), Len(hs) >= 2
  PROVE  ~Parsed.alt /\ Parsed = Message(hs[1].ht) /\ Parsed \in Msg
<1>1. 1 \in DOMAIN hs /\ 2 \in DOMAIN hs
  OBVIOUS
<1>2. ~hs[1].alt /\ ~hs[2].alt
  BY <1>1 DEF Clean
<1> QED BY <1>2, ParsedTypes

\* The client's flight.
LEMMA CleanFlight ==
  ASSUME Clean(transcript), transcript \in Seq(Msg), NEW m \in Msg, ~m.alt
  PROVE  Clean(Append(transcript, m)) /\ Clean(Append(transcript, m) \o ClearPart \o <<Finished>>)
<1>1. Append(transcript, m) \in Seq(Msg) /\ ClearPart \in Seq(Msg) /\ <<Finished>> \in Seq(Msg)
      /\ Finished \in Msg /\ ~Finished.alt
  BY ClearTypes, MessageTypes
<1>2. Clean(ClearPart)
  BY ClearTypes DEF Clean
<1>3. Clean(Append(transcript, m))
  BY CleanAppend
<1>4. Clean(<<Finished>>)
  BY <1>1, CleanAppend
<1>5. ASSUME NEW a \in Seq(Msg), NEW b \in Seq(Msg), NEW c \in Seq(Msg), Clean(a), Clean(b), Clean(c)
      PROVE  Clean(a \o b \o c)
  <2>1. a \o b \in Seq(Msg) /\ Clean(a \o b)
    BY <1>5, CleanJoin
  <2> QED BY <1>5, <2>1, CleanJoin
<1> QED BY ONLY <1>1, <1>2, <1>3, <1>4, <1>5, Zenon

\* From a clean transcript comes the shared key.
LEMMA CleanKeys ==
  /\ Clean(transcript) => ClientKey = "shared"
  /\ Clean(peerTranscript) => PeerKey = "shared"
  /\ Clean(Append(transcript, Parsed)) => FlightKey = "shared"
  BY DEF ClientKey, PeerKey, FlightKey, KeyOf, Clean

\* No step but Damage changes a message in a transcript or in a buffer.
LEMMA CleanTextInductive ==
  ASSUME Pristine, Shapes, Order, [Next]_vars, Undamaged'
  PROVE  CleanText'
<1>0. CleanText /\ CleanWires /\ ~Damage
  BY FaultsKept DEF Pristine
<1>1. /\ Clean(transcript) /\ Clean(hs) /\ Clean(peerTranscript) /\ Clean(pending)
      /\ transcript \in Seq(Msg) /\ hs \in Seq(Piece) /\ peerTranscript \in Seq(Msg)
      /\ pending \in Seq(Piece) /\ ClientShape /\ PeerShape /\ Wires
  BY <1>0 DEF CleanText, Shapes, ClientShape, PeerShape
<1>2. CASE Connect
  <2>1. Clean(<<ClientHello>>)
    BY MessageTypes, CleanAppend, <1>1
  <2> QED BY <1>1, <1>2, <2>1 DEF CleanText, Connect, peerVars
<1>3. CASE (\E n \in {1, Len(s2c)} : Fill(n)) \/ Send \/ Close
  BY <1>1, <1>3 DEF CleanText, Fill, Send, Close, peerVars
<1>4. CASE LocalFails
  BY <1>1, <1>4, LocalFailsEffect DEF CleanText, peerVars
<1>5. CASE RecordTaken
  <2>1. Ready /\ UNCHANGED <<transcript, peerTranscript, pending>>
    BY <1>5, RecordTakenEffect DEF peerVars
  <2>2. CASE TakeFragment
    <3>1. hs' = hs \o Fragment(Record) /\ Record.type = "handshake" /\ Len(rx) >= 2
      BY <2>1, <2>2 DEF TakeFragment, Ready
    <3>2. Sound(Record) /\ Record.body \in Seq(Piece)
      BY <1>0, <1>1, <3>1, SoundRecord, ReadyRecord DEF ServerHolds
    <3>3. Fragment(Record) = Record.body /\ Clean(Record.body)
      BY <3>1, <3>2, SoundFragment
    <3>4. Clean(hs')
      BY <1>1, <3>1, <3>2, <3>3, CleanJoin
    <3> QED BY <1>1, <2>1, <3>4 DEF CleanText
  <2>3. CASE HandleAlert \/ TakeChangeCipherSpec \/ Deliver \/ Unexpected
    <3>1. hs' = hs
      BY <2>3 DEF HandleAlert, TakeChangeCipherSpec, Deliver, Unexpected
    <3> QED BY <1>1, <2>1, <3>1 DEF CleanText
  <2> QED BY <1>5, <2>2, <2>3 DEF RecordTaken
<1>6. CASE TakeHello \/ TakeFinished \/ SendFlight \/ Refuse
  <2>1. Len(hs) >= 2 /\ hs' = SubSeq(hs, 3, Len(hs)) /\ UNCHANGED peerVars
    BY <1>6 DEF TakeHello, TakeFinished, SendFlight, Refuse, NextHandshake, HasMessage
  <2>2. Clean(hs')
    BY <1>1, <2>1, CleanRest
  <2>3. ~Parsed.alt /\ Parsed \in Msg
    BY <1>1, <2>1, CleanParsed
  <2>4. CASE TakeHello \/ TakeFinished
    <3>1. transcript' = Append(transcript, Parsed)
      BY <2>4 DEF TakeHello, TakeFinished, Absorb
    <3>2. Clean(transcript')
      BY <1>1, <2>3, <3>1, CleanAppend
    <3> QED BY <1>1, <2>1, <2>2, <3>2 DEF CleanText, peerVars
  <2>5. CASE SendFlight
    <3>1. transcript' = Append(transcript, Parsed) \o ClearPart \o <<Finished>>
      BY <1>1, <2>5, FlightEffect
    <3>2. Clean(transcript')
      BY <1>1, <2>3, <3>1, CleanFlight
    <3> QED BY <1>1, <2>1, <2>2, <3>2 DEF CleanText, peerVars
  <2>6. CASE Refuse
    BY <1>1, <2>1, <2>2, <2>6 DEF CleanText, peerVars, Refuse
  <2> QED BY <1>6, <2>4, <2>5, <2>6
<1>7. ASSUME NEW f \in Flights, PeerHello(f) PROVE CleanText'
  <2>1. /\ peer = "start" /\ c2s # <<>> /\ pending' = Pieces(f) /\ UNCHANGED <<transcript, hs>>
        /\ peerTranscript' = Fragment(Incoming) \o [i \in DOMAIN f |-> Message(f[i])]
    BY <1>7 DEF PeerHello, Incoming, clientVars
  <2>2. f \in Seq(Types)
    BY FlightMessages
  <2>3. Clean(pending')
    BY <2>1, <2>2, CleanPieces
  <2>4. Incoming.type = "handshake" /\ Incoming.body \in Seq(Msg)
    BY <1>1, <2>1, IncomingTypes DEF Order, IsHandshake, ClientHolds
  <2>5. Fragment(Incoming) = Incoming.body /\ Clean(Incoming.body)
    BY <1>0, <1>1, <2>1, <2>4, SoundIncoming, SoundFragment
  <2> DEFINE g == [i \in DOMAIN f |-> Message(f[i])]
  <2>6. g \in Seq(Msg) /\ Len(g) = Len(f) /\ (\A i \in 1 .. Len(f) : g[i] = Message(f[i]) /\ ~Message(f[i]).alt)
    BY FlightMessages
  <2> HIDE DEF g
  <2>7. Clean(g)
    BY <2>6 DEF Clean
  <2>8. Clean(peerTranscript')
    BY <2>1, <2>4, <2>5, <2>6, <2>7, CleanJoin DEF g
  <2> QED BY <1>1, <2>1, <2>3, <2>8 DEF CleanText
<1>8. ASSUME NEW n \in DOMAIN pending, PeerEmit(n) PROVE CleanText'
  <2>1. n \in 0 .. Len(pending)
    BY <1>1
  <2>2. pending' = SubSeq(pending, n + 1, Len(pending)) /\ UNCHANGED <<transcript, hs, peerTranscript>>
    BY <1>8 DEF PeerEmit, clientVars
  <2>3. Clean(pending')
    BY <1>1, <2>1, <2>2, CleanCut
  <2> QED BY <1>1, <2>2, <2>3 DEF CleanText
<1>9. CASE PeerHandshake
  <2>1. /\ c2s # <<>> /\ Incoming.type = "handshake" /\ UNCHANGED <<transcript, hs, pending>>
        /\ peerTranscript' = peerTranscript \o Fragment(Incoming)
    BY <1>9 DEF PeerHandshake, PeerTakes, clientVars
  <2>2. Incoming.body \in Seq(Msg)
    BY <1>1, <2>1, IncomingTypes DEF ClientHolds
  <2>3. Fragment(Incoming) = Incoming.body /\ Clean(Incoming.body)
    BY <1>0, <1>1, <2>1, <2>2, SoundIncoming, SoundFragment
  <2>4. Clean(peerTranscript')
    BY <1>1, <2>1, <2>2, <2>3, CleanJoin
  <2> QED BY <1>1, <2>1, <2>4 DEF CleanText
<1>10. CASE PeerFinish
  <2>1. /\ pending' = Pieces(<<"finished">>) /\ peerTranscript' = Append(peerTranscript, Finished)
        /\ UNCHANGED <<transcript, hs>>
    BY <1>10 DEF PeerFinish, clientVars
  <2>2. <<"finished">> \in Seq(Types)
    BY DEF Types
  <2>3. Clean(pending')
    BY <2>1, <2>2, CleanPieces
  <2>4. Clean(peerTranscript')
    BY <1>1, <2>1, MessageTypes, CleanAppend
  <2> QED BY <1>1, <2>1, <2>3, <2>4 DEF CleanText
<1>11. CASE PeerChangeCipherSpec \/ PeerRejects \/ PeerHears \/ PeerSends
              \/ (\E a \in Alerts : PeerAlerts(a)) \/ PeerHangsUp
  <2>1. UNCHANGED <<transcript, hs, peerTranscript, pending>>
    BY <1>11 DEF PeerChangeCipherSpec, PeerRejects, PeerHears, PeerSends, PeerAlerts, PeerHangsUp,
                 clientVars
  <2> QED BY <1>1, <2>1 DEF CleanText
<1>12. CASE UNCHANGED vars
  BY <1>1, <1>12 DEF CleanText, vars, clientVars, peerVars
<1> QED
  BY <1>0, <1>2, <1>3, <1>4, <1>5, <1>6, <1>7, <1>8, <1>9, <1>10, <1>11, <1>12, StepKinds DEF PeerSteps

\* A cipher side keeps its key while records go by.
LEMMA KeyedOn ==
  ASSUME NEW w \in Side, Keyed(w), NEW body \in SBody \cup CBody
  PROVE  Keyed(Advance(w, body))
  BY SideTypes DEF Keyed

\* ChangeCipherSpec turns on the shared key.
LEMMA KeyedEnable ==
  ASSUME NEW w \in Side
  PROVE  Keyed(Enable("shared", w))
  BY EnableTypes DEF Keyed, Keys

\* Every cipher that is on has the shared key.
LEMMA SameKeysInductive ==
  ASSUME Pristine, Shapes, [Next]_vars, Undamaged'
  PROVE  SameKeys'
<1>0. CleanText /\ CleanWires /\ SameKeys /\ ~Damage
  BY FaultsKept DEF Pristine
<1>1. /\ Keyed(reading) /\ Keyed(writing) /\ Keyed(peerReading) /\ Keyed(peerWriting)
      /\ reading \in Side /\ writing \in Side /\ peerReading \in Side /\ peerWriting \in Side
      /\ ClientShape /\ PeerShape /\ Wires /\ asked \in Nat /\ pending \in Seq(Piece) /\ sent \in Seq(Nat)
      /\ hs \in Seq(Piece) /\ transcript \in Seq(Msg)
  BY <1>0 DEF SameKeys, Shapes, ClientShape, PeerShape
<1>2. CASE Connect \/ Send \/ Close
  <2>1. <<ClientHello>> \in CBody /\ <<asked + 1>> \in CBody /\ <<"close_notify">> \in CBody
    BY <1>1, MessageTypes DEF CBody, Alerts
  <2>2. \E body \in CBody : writing' = Advance(writing, body)
    BY <1>2, <2>1 DEF Connect, Send, Close
  <2>3. Keyed(writing')
    BY <1>1, <2>2, KeyedOn
  <2>4. UNCHANGED reading /\ UNCHANGED <<peerReading, peerWriting>>
    BY <1>2 DEF Connect, Send, Close, peerVars
  <2> QED BY <1>1, <2>3, <2>4 DEF SameKeys
<1>3. CASE (\E n \in {1, Len(s2c)} : Fill(n)) \/ TakeHello \/ TakeFinished \/ Refuse
  <2>1. UNCHANGED <<reading, writing>> /\ UNCHANGED <<peerReading, peerWriting>>
    BY <1>3 DEF Fill, TakeHello, TakeFinished, Refuse, peerVars, cipherVars
  <2> QED BY <1>1, <2>1 DEF SameKeys
<1>4. CASE LocalFails
  BY <1>1, <1>4, LocalFailsEffect DEF SameKeys, peerVars
<1>5. CASE RecordTaken
  <2>1. Len(rx) >= 2 /\ UNCHANGED writing /\ UNCHANGED <<peerReading, peerWriting>>
    BY <1>5, RecordTakenEffect DEF peerVars, Ready
  <2>2. Record.body \in SBody \cup CBody
    BY <1>1, <2>1, ReadyRecord
  <2>3. Keyed(Advance(reading, Record.body)) /\ Advance(reading, Record.body) \in Side
    BY <1>1, <2>2, KeyedOn, SideTypes
  <2>4. ClientKey = "shared"
    BY <1>0, CleanKeys DEF CleanText
  <2>5. reading' = Advance(reading, Record.body) \/ reading' = Enable(ClientKey, Advance(reading, Record.body))
    BY <1>5 DEF RecordTaken, HandleAlert, TakeFragment, TakeChangeCipherSpec, Deliver, Unexpected
  <2>6. Keyed(reading')
    BY <2>3, <2>4, <2>5, KeyedEnable
  <2> QED BY <1>1, <2>1, <2>6 DEF SameKeys
<1>6. CASE SendFlight
  <2>1. HasMessage /\ writing' = Advance(Opened, <<Finished>>)
    BY <1>1, <1>6, FlightEffect
  <2>2. Parsed \in Msg /\ ~Parsed.alt
    BY <1>0, <1>1, <2>1, CleanParsed DEF CleanText, HasMessage
  <2>3. FlightKey = "shared"
    BY <1>0, <1>1, <2>2, CleanFlight, CleanKeys DEF CleanText
  <2>4. Opened \in Side /\ Keyed(Opened)
    BY <1>1, <2>3, OpenedTypes DEF Keyed
  <2>5. <<Finished>> \in SBody \cup CBody
    BY MessageTypes DEF CBody
  <2>6. Keyed(writing')
    BY <2>1, <2>4, <2>5, KeyedOn
  <2>7. UNCHANGED reading /\ UNCHANGED <<peerReading, peerWriting>>
    BY <1>6 DEF SendFlight, peerVars
  <2> QED BY <1>1, <2>6, <2>7 DEF SameKeys
<1>7. CASE (\E f \in Flights : PeerHello(f)) \/ PeerHandshake \/ PeerHears
  <2>1. c2s # <<>> /\ peerReading' = Advance(peerReading, Incoming.body)
    BY <1>7 DEF PeerHello, PeerHandshake, PeerHears, PeerTakes, Incoming
  <2>2. Keyed(peerReading')
    BY <1>1, <2>1, IncomingTypes, KeyedOn
  <2>3. UNCHANGED <<reading, writing>> /\ peerWriting' = peerWriting
    BY <1>7 DEF PeerHello, PeerHandshake, PeerHears, clientVars, cipherVars
  <2> QED BY <1>1, <2>2, <2>3 DEF SameKeys
<1>8. CASE PeerChangeCipherSpec
  <2>1. peerReading' = Enable(PeerKey, peerReading) /\ peerWriting' = peerWriting
        /\ UNCHANGED <<reading, writing>>
    BY <1>8 DEF PeerChangeCipherSpec, clientVars, cipherVars
  <2>2. PeerKey = "shared"
    BY <1>0, CleanKeys DEF CleanText
  <2>3. Keyed(peerReading')
    BY <1>1, <2>1, <2>2, KeyedEnable
  <2> QED BY <1>1, <2>1, <2>3 DEF SameKeys
<1>9. CASE (\E n \in DOMAIN pending : PeerEmit(n)) \/ PeerRejects \/ PeerFinish \/ PeerSends
             \/ (\E a \in Alerts : PeerAlerts(a))
  <2>1. PICK type \in RecType, body \in SBody :
          \/ peerWriting' = Advance(peerWriting, body)
          \/ peerWriting' = Enable(PeerKey, Advance(peerWriting, body))
    BY <1>1, <1>9, EmissionOf DEF Emission
  <2>2. PeerKey = "shared"
    BY <1>0, CleanKeys DEF CleanText
  <2>3. Keyed(Advance(peerWriting, body)) /\ Advance(peerWriting, body) \in Side
    BY <1>1, KeyedOn, SideTypes
  <2>4. Keyed(peerWriting')
    BY <2>1, <2>2, <2>3, KeyedEnable
  <2>5. UNCHANGED <<reading, writing>>
    BY <1>9 DEF PeerEmit, PeerRejects, PeerFinish, PeerSends, PeerAlerts, clientVars, cipherVars
  <2>6. peerReading' = peerReading
    BY <1>9 DEF PeerEmit, PeerRejects, PeerFinish, PeerSends, PeerAlerts
  <2> QED BY <1>1, <2>4, <2>5, <2>6 DEF SameKeys
<1>10. CASE PeerHangsUp
  BY <1>1, <1>10 DEF SameKeys, PeerHangsUp, clientVars, cipherVars
<1>11. CASE UNCHANGED vars
  BY <1>1, <1>11 DEF SameKeys, vars, clientVars, cipherVars, peerVars
<1> QED
  BY <1>0, <1>2, <1>3, <1>4, <1>5, <1>6, <1>7, <1>8, <1>9, <1>10, <1>11, StepKinds DEF PeerSteps

\* The stream from the server: unmoved, a record taken, or one sent.
LEMMA StreamMoves ==
  ASSUME Shapes, [Next]_vars, ~Damage
  PROVE  \/ Stream0' = Stream0 /\ ~RecordTaken
            /\ (peerWriting' = peerWriting /\ (pc' \in {"failed", "closed"} \/ reading' = reading))
         \/ RecordTaken
         \/ Emission /\ UNCHANGED clientVars
<1>0. Wires /\ PeerShape
  BY DEF Shapes
<1>1. CASE RecordTaken
  BY <1>1
<1>2. CASE (\E n \in DOMAIN pending : PeerEmit(n)) \/ PeerRejects \/ PeerFinish \/ PeerSends
             \/ (\E a \in Alerts : PeerAlerts(a))
  <2>1. UNCHANGED clientVars
    BY <1>2, PeerLeavesClient DEF PeerSteps
  <2> QED BY <1>0, <1>2, <2>1, EmissionOf
<1>3. CASE ~RecordTaken /\ \E n \in {1, Len(s2c)} : Fill(n)
  <2>1. Stream0' = Stream0
    BY <1>0, <1>3, FillEffect DEF Stream0
  <2>2. reading' = reading /\ peerWriting' = peerWriting
    BY <1>3 DEF Fill, cipherVars, peerVars
  <2> QED BY <1>3, <2>1, <2>2
<1>4. CASE ~RecordTaken /\ (Connect \/ TakeHello \/ SendFlight \/ TakeFinished \/ Refuse \/ Send \/ Close)
  <2>1. UNCHANGED <<rx, s2c>> /\ reading' = reading /\ peerWriting' = peerWriting
    BY <1>4 DEF Connect, TakeHello, SendFlight, TakeFinished, Refuse, Send, Close, cipherVars, peerVars
  <2> QED BY <1>4, <2>1 DEF Stream0
<1>5. CASE ~RecordTaken /\ LocalFails
  BY <1>5, LocalFailsEffect DEF Stream0, peerVars
<1>6. CASE ~RecordTaken /\ ((\E f \in Flights : PeerHello(f)) \/ PeerHandshake \/ PeerChangeCipherSpec
                            \/ PeerHears \/ PeerHangsUp \/ UNCHANGED vars)
  <2>1. UNCHANGED <<rx, s2c>> /\ reading' = reading /\ peerWriting' = peerWriting
    BY <1>6 DEF PeerHello, PeerHandshake, PeerChangeCipherSpec, PeerHears, PeerHangsUp, vars,
                clientVars, cipherVars, peerVars
  <2> QED BY <1>6, <2>1 DEF Stream0
<1> QED
  BY <1>1, <1>2, <1>3, <1>4, <1>5, <1>6, StepKinds DEF PeerSteps

\* A record as it is sent.
LEMMA SoundSent ==
  ASSUME NEW w, NEW type \in RecType, NEW body, type = "handshake" => Clean(body)
  PROVE  Sound(Protect(w, type, body))
<1>1. Protect(w, type, body).type = type /\ Protect(w, type, body).body = body
      /\ Protect(w, type, body).whole = TRUE
  BY DEF Protect
<1> QED BY <1>1 DEF Sound, RecType

\* What the server sends is sound, and so is what stays on the way.
LEMMA CleanStreamInductive ==
  ASSUME Pristine, Shapes, [Next]_vars, Undamaged'
  PROVE  \A i \in DOMAIN Stream0' : Sound(Stream0'[i].rec)
<1>0. CleanText /\ CleanWires /\ ~Damage
  BY FaultsKept DEF Pristine
<1>1. Wires /\ PeerShape /\ peerWriting \in Side /\ pending \in Seq(Piece) /\ Clean(pending)
      /\ \A i \in DOMAIN Stream0 : Sound(Stream0[i].rec)
  BY <1>0 DEF Shapes, PeerShape, CleanText, CleanWires
<1>2. CASE Stream0' = Stream0
  BY <1>1, <1>2
<1>3. CASE RecordTaken
  <2>1. Len(rx) >= 2 /\ rx' = SubSeq(rx, 3, Len(rx)) /\ s2c' = s2c
    BY <1>3, RecordTakenEffect DEF Ready
  <2>2. /\ Stream0 \in Seq(Cell) /\ Stream0' \in Seq(Cell) /\ Len(Stream0') = Len(Stream0) - 2
        /\ \A i \in 1 .. Len(Stream0') : Stream0'[i] = Stream0[i + 2]
    BY <1>1, <2>1, StreamTaken
  <2>3. \A i \in DOMAIN Stream0' : i \in 1 .. Len(Stream0') /\ i + 2 \in DOMAIN Stream0
    BY <2>2
  <2> QED BY <1>1, <2>2, <2>3
<1>4. CASE Emission
  <2>1. PICK type \in RecType, body \in SBody :
          /\ Sends(type, body)
          /\ type = "handshake" =>
               /\ body \in Seq(Piece)
               /\ \E n \in DOMAIN pending : PeerEmit(n) /\ body = SubSeq(pending, 1, n)
          /\ type = "data" => body \in Seq(Nat) /\ Len(body) = 1
    BY <1>4 DEF Emission
  <2>2. type = "handshake" => Clean(body)
    <3> SUFFICES ASSUME type = "handshake" PROVE Clean(body)
      OBVIOUS
    <3>1. PICK n \in DOMAIN pending : body = SubSeq(pending, 1, n)
      BY <2>1
    <3>2. n \in 0 .. Len(pending)
      BY <1>1
    <3> QED BY <1>1, <3>1, <3>2, CleanCut
  <2> DEFINE r == Protect(peerWriting, type, body)
  <2>3. Sound(r)
    BY <2>2, SoundSent
  <2>4. /\ Stream0 \in Seq(Cell) /\ Stream0' \in Seq(Cell) /\ Len(Stream0') = Len(Stream0) + 2
        /\ \A i \in 1 .. Len(Stream0) : Stream0'[i] = Stream0[i]
        /\ Stream0'[Len(Stream0) + 1].rec = r /\ Stream0'[Len(Stream0) + 2].rec = r
    BY <1>1, <2>1, StreamSent
  <2> HIDE DEF r
  <2>5. \A i \in DOMAIN Stream0' : i \in 1 .. Len(Stream0) \/ i = Len(Stream0) + 1 \/ i = Len(Stream0) + 2
    BY <2>4
  <2>6. DOMAIN Stream0 = 1 .. Len(Stream0)
    BY <2>4
  <2> QED BY <1>1, <2>3, <2>4, <2>5, <2>6
<1> QED BY <1>0, <1>2, <1>3, <1>4, StreamMoves

\* What the client sends is sound, and so is what stays on the way.
LEMMA CleanPostInductive ==
  ASSUME Pristine, Shapes, [Next]_vars, Undamaged'
  PROVE  \A i \in DOMAIN c2s' : Sound(c2s'[i])
<1>0. CleanText /\ CleanWires /\ ~Damage
  BY FaultsKept DEF Pristine
<1>1. /\ Wires /\ ClientShape /\ writing \in Side /\ c2s \in Seq(Sent) /\ asked \in Nat
      /\ \A i \in DOMAIN c2s : Sound(c2s[i])
  BY <1>0 DEF Shapes, ClientShape, CleanText, CleanWires, Wires
<1>2. CASE c2s' = c2s
  BY <1>1, <1>2
<1>3. ASSUME c2s # <<>>, c2s' = Tail(c2s) PROVE \A i \in DOMAIN c2s' : Sound(c2s'[i])
  <2>1. /\ c2s' \in Seq(Sent) /\ Len(c2s') = Len(c2s) - 1 /\ Len(c2s) \in Nat
        /\ \A i \in 1 .. Len(c2s) - 1 : c2s'[i] = c2s[i + 1]
    BY <1>1, <1>3, IncomingTypes
  <2>2. \A i \in DOMAIN c2s' : i \in 1 .. Len(c2s) - 1 /\ i + 1 \in DOMAIN c2s
    BY <1>1, <2>1
  <2> QED BY <1>1, <2>1, <2>2
<1>4. ASSUME NEW r \in Sent, Sound(r), c2s' = Append(c2s, r) PROVE \A i \in DOMAIN c2s' : Sound(c2s'[i])
  <2>1. /\ c2s' \in Seq(Sent) /\ Len(c2s') = Len(c2s) + 1 /\ c2s'[Len(c2s) + 1] = r
        /\ \A i \in 1 .. Len(c2s) : c2s'[i] = c2s[i]
    BY <1>1, <1>4, AppendedRecord
  <2>2. \A i \in DOMAIN c2s' : i \in DOMAIN c2s \/ i = Len(c2s) + 1
    BY <1>1, <2>1
  <2>3. DOMAIN c2s = 1 .. Len(c2s)
    BY <1>1
  <2> QED BY <1>1, <1>4, <2>1, <2>2, <2>3
<1>5. "handshake" \in RecType /\ "data" \in RecType /\ "alert" \in RecType /\ "ccs" \in RecType
  BY ServerBodies
<1>6. CASE Connect
  <2>1. Clean(<<ClientHello>>) /\ Protect(writing, "handshake", <<ClientHello>>) \in Sent
    BY <1>1, MessageTypes, CleanAppend, SentTypes, <1>0 DEF ClientTypes, CleanText, ClientShape
  <2>2. Sound(Protect(writing, "handshake", <<ClientHello>>))
    BY <1>5, <2>1, SoundSent
  <2> QED BY <1>4, <1>6, <2>1, <2>2 DEF Connect
<1>7. CASE Send
  <2>1. asked + 1 \in Nat
    BY <1>1
  <2>2. Protect(writing, "data", <<asked + 1>>) \in Sent
    BY <1>1, <2>1, SentTypes
  <2>3. Sound(Protect(writing, "data", <<asked + 1>>))
    BY <1>5, SoundSent
  <2> QED BY <1>4, <1>7, <2>2, <2>3 DEF Send
<1>8. CASE Close
  <2>1. Protect(writing, "alert", <<"close_notify">>) \in Sent
    BY <1>1, SentTypes
  <2>2. Sound(Protect(writing, "alert", <<"close_notify">>))
    BY <1>5, SoundSent
  <2> QED BY <1>4, <1>8, <2>1, <2>2 DEF Close
<1>9. CASE SendFlight
  <2> DEFINE F == FlightRecords
             k == Len(ClearPart)
  <2>1. c2s' = c2s \o F
    BY <1>1, <1>9, FlightEffect
  <2>2. /\ F \in Seq(Sent) /\ Len(F) = k + 2
        /\ \A i \in 1 .. k : F[i] = Protect(writing, "handshake", <<ClearPart[i]>>)
        /\ F[k + 1] = Protect(writing, "ccs", <<1>>)
        /\ F[k + 2] = Protect(Opened, "handshake", <<Finished>>)
    BY <1>1, FlightTypes
  <2>3. ClearPart \in Seq(Msg) /\ k \in Nat /\ \A i \in 1 .. k : ClearPart[i] \in Msg /\ ~ClearPart[i].alt
    BY ClearTypes
  <2>4. \A m \in Msg : ~m.alt => Clean(<<m>>)
    BY <1>0, CleanAppend DEF CleanText, ClientShape, Shapes
  <2>5. \A i \in 1 .. k : Sound(F[i])
    BY <1>5, <2>2, <2>3, <2>4, SoundSent
  <2>6. Sound(F[k + 1]) /\ Sound(F[k + 2])
    <3>1. Clean(<<Finished>>)
      BY <2>4, MessageTypes
    <3> QED BY <1>5, <2>2, <3>1, SoundSent
  <2> HIDE DEF F, k
  <2>7. \A i \in 1 .. Len(F) : Sound(F[i])
    <3>1. \A i \in 1 .. Len(F) : i \in 1 .. k \/ i = k + 1 \/ i = k + 2
      BY <2>2, <2>3
    <3> QED BY <2>5, <2>6, <3>1
  <2>8. /\ Len(c2s') = Len(c2s) + Len(F) /\ DOMAIN c2s' = 1 .. Len(c2s) + Len(F)
        /\ \A i \in 1 .. Len(c2s) : c2s'[i] = c2s[i]
        /\ \A i \in 1 .. Len(F) : c2s'[Len(c2s) + i] = F[i]
    <3>1. ASSUME NEW s \in Seq(Sent), NEW t \in Seq(Sent)
          PROVE  /\ Len(s \o t) = Len(s) + Len(t) /\ DOMAIN (s \o t) = 1 .. Len(s) + Len(t)
                 /\ \A i \in 1 .. Len(s) : (s \o t)[i] = s[i]
                 /\ \A i \in 1 .. Len(t) : (s \o t)[Len(s) + i] = t[i]
      BY Joined
    <3> QED BY ONLY <1>1, <2>1, <2>2, <3>1, Zenon
  <2>9. Len(c2s) \in Nat /\ DOMAIN c2s = 1 .. Len(c2s) /\ Len(F) \in Nat
    BY <1>1, <2>2
  <2>10. ASSUME NEW i \in 1 .. Len(c2s) + Len(F) PROVE Sound(c2s'[i])
    <3>1. CASE i \in 1 .. Len(c2s)
      BY <1>1, <2>8, <2>9, <3>1
    <3>2. CASE i \notin 1 .. Len(c2s)
      <4>1. i - Len(c2s) \in 1 .. Len(F) /\ Len(c2s) + (i - Len(c2s)) = i
        BY <2>9, <3>2
      <4>2. c2s'[Len(c2s) + (i - Len(c2s))] = F[i - Len(c2s)]
        BY <2>8, <4>1
      <4> QED BY <2>7, <4>1, <4>2
    <3> QED BY <3>1, <3>2
  <2> QED BY <2>8, <2>10
<1>10. CASE (\E f \in Flights : PeerHello(f)) \/ PeerHandshake \/ PeerChangeCipherSpec \/ PeerHears
              \/ PeerRejects
  <2>1. c2s # <<>> /\ c2s' = Tail(c2s)
    BY <1>10 DEF PeerHello, PeerHandshake, PeerChangeCipherSpec, PeerHears, PeerRejects, PeerTakes
  <2> QED BY <1>3, <2>1
<1>11. CASE (\E n \in {1, Len(s2c)} : Fill(n)) \/ TakeHello \/ TakeFinished \/ Refuse
  BY <1>2, <1>11 DEF Fill, TakeHello, TakeFinished, Refuse
<1>12. CASE LocalFails \/ RecordTaken
  BY <1>2, <1>12, LocalFailsEffect, RecordTakenEffect
<1>13. CASE (\E n \in DOMAIN pending : PeerEmit(n)) \/ PeerFinish \/ PeerSends
              \/ (\E a \in Alerts : PeerAlerts(a)) \/ PeerHangsUp \/ UNCHANGED vars
  BY <1>2, <1>13 DEF PeerEmit, PeerFinish, PeerSends, PeerAlerts, PeerHangsUp, vars
<1> QED
  BY <1>0, <1>6, <1>7, <1>8, <1>9, <1>10, <1>11, <1>12, <1>13, StepKinds DEF PeerSteps

\* All three parts together.
LEMMA PristineInductive ==
  Pristine /\ Shapes /\ Order /\ [Next]_vars => Pristine'
<1> SUFFICES ASSUME Pristine, Shapes, Order, [Next]_vars, Undamaged'
             PROVE  CleanText' /\ CleanWires' /\ SameKeys'
  BY DEF Pristine
<1>1. CleanText' /\ SameKeys'
  BY CleanTextInductive, SameKeysInductive
<1>2. CleanWires'
  BY CleanStreamInductive, CleanPostInductive DEF CleanWires
<1> QED BY <1>1, <1>2

-----------------------------------------------------------------------------
\* A connection that is over stays over.
LEMMA CalmBefore ==
  ASSUME [Next]_vars, Calm'
  PROVE  Calm
<1>1. Undamaged
  BY FaultsKept DEF Calm
<1>2. ASSUME pc \in {"failed", "closed"} PROVE pc' \in {"failed", "closed"}
  <2>1. CASE Connect \/ (\E n \in {1, Len(s2c)} : Fill(n)) \/ TakeHello \/ TakeFinished \/ Send
               \/ SendFlight
    BY <1>2, <2>1 DEF Connect, Fill, TakeHello, TakeFinished, Send, SendFlight, Starved, Waiting,
                      Reassembling
  <2>2. CASE LocalFails \/ Refuse \/ Close
    BY <2>2, LocalFailsEffect DEF Refuse, Close, Fail
  <2>3. CASE RecordTaken
    BY <1>2, <2>3, RecordTakenEffect DEF Ready, Waiting, Reassembling
  <2>4. CASE PeerSteps \/ Damage \/ UNCHANGED vars
    BY <1>2, <2>4, PeerLeavesClient DEF clientVars
  <2> QED BY <2>1, <2>2, <2>3, <2>4, StepKinds
<1> QED BY <1>1, <1>2 DEF Calm, Alive

\* The stream holds whole records while the connection is up.
LEMMA WholeRecords ==
  ASSUME InOrder, Alive
  PROVE  Len(Stream0) % 2 = 0
  BY DEF InOrder, Alive, Ordered

\* A record taken by the client is the first of those under way.
LEMMA UnderwayTaken ==
  ASSUME Wires, InOrder, Alive, Len(rx) >= 2, rx' = SubSeq(rx, 3, Len(rx)), s2c' = s2c
  PROVE  /\ Underway \in Seq(SRec) /\ Underway # <<>> /\ Underway[1] = Record
         /\ Underway' = Tail(Underway) /\ Record \in SRec /\ Len(Record.body) \in Nat
<1>1. /\ Stream0 \in Seq(Cell) /\ Stream0' \in Seq(Cell) /\ Len(Stream0) >= 2
      /\ Len(Stream0') = Len(Stream0) - 2 /\ Stream0[2].rec = Record
      /\ \A i \in 1 .. Len(Stream0') : Stream0'[i] = Stream0[i + 2]
  BY StreamTaken
<1>2. Len(Stream0) % 2 = 0
  BY WholeRecords
<1>3. ASSUME NEW T \in Seq(Cell), Len(T) = Len(Stream0) - 2,
             \A i \in 1 .. Len(T) : T[i] = Stream0[i + 2]
      PROVE  /\ Bodies(Stream0) \in Seq(SRec) /\ Bodies(Stream0) # <<>>
             /\ Bodies(Stream0)[1] = Stream0[2].rec /\ Bodies(T) = Tail(Bodies(Stream0))
  BY ONLY <1>1, <1>2, <1>3, BodiesFront
<1>4. /\ Bodies(Stream0) \in Seq(SRec) /\ Bodies(Stream0) # <<>>
      /\ Bodies(Stream0)[1] = Stream0[2].rec /\ Bodies(Stream0') = Tail(Bodies(Stream0))
  BY ONLY <1>1, <1>3, Zenon
<1>5. Underway = Bodies(Stream0) /\ Underway' = Bodies(Stream0')
  BY DEF Underway
<1>6. Record \in SRec /\ Record.body \in SBody \cup CBody
  BY ReadyRecord
<1>7. Len(Record.body) \in Nat
  BY <1>6 DEF SBody, CBody
<1> QED BY <1>1, <1>4, <1>5, <1>6, <1>7

\* A record sent by the server is the last of those under way.
LEMMA UnderwaySent ==
  ASSUME Wires, InOrder, Alive, peerWriting \in Side, NEW type \in RecType, NEW body \in SBody,
         type = "handshake" => body \in Seq(Piece),
         type = "data" => body \in Seq(Nat) /\ Len(body) = 1, Sends(type, body)
  PROVE  /\ Underway \in Seq(SRec) /\ Protect(peerWriting, type, body) \in SRec
         /\ Underway' = Append(Underway, Protect(peerWriting, type, body))
<1> DEFINE r == Protect(peerWriting, type, body)
<1>1. /\ Stream0 \in Seq(Cell) /\ Stream0' \in Seq(Cell) /\ Len(Stream0') = Len(Stream0) + 2
      /\ \A i \in 1 .. Len(Stream0) : Stream0'[i] = Stream0[i]
      /\ Stream0'[Len(Stream0) + 2].rec = r
  BY StreamSent
<1> HIDE DEF r
<1>2. Len(Stream0) % 2 = 0
  BY WholeRecords
<1>3. ASSUME NEW T \in Seq(Cell), Len(T) = Len(Stream0) + 2,
             \A i \in 1 .. Len(Stream0) : T[i] = Stream0[i]
      PROVE  /\ Bodies(Stream0) \in Seq(SRec) /\ T[Len(Stream0) + 2].rec \in SRec
             /\ Bodies(T) = Append(Bodies(Stream0), T[Len(Stream0) + 2].rec)
  BY ONLY <1>1, <1>2, <1>3, BodiesBack
<1>4. /\ Bodies(Stream0) \in Seq(SRec) /\ r \in SRec /\ Bodies(Stream0') = Append(Bodies(Stream0), r)
  BY ONLY <1>1, <1>3, Zenon
<1>5. Underway = Bodies(Stream0) /\ Underway' = Bodies(Stream0')
  BY DEF Underway
<1> QED BY <1>4, <1>5 DEF r

\* A step of the reader's and of the writer's along the chain.
LEMMA ChainRead ==
  ASSUME NEW X, X \subseteq SRec \cup CRec, NEW R \in Seq(X), R # <<>>, NEW w \in Side, Keyed(w),
         NEW v, Chain(w, R, v), Len(R[1].body) \in Nat, NEW u,
         \/ R[1].type # "ccs" /\ u = Advance(w, R[1].body)
         \/ R[1].type = "ccs" /\ \E x \in Side : u = Enable("shared", x)
  PROVE  Chain(u, Tail(R), v)
<1>1. R[1] \in SRec \cup CRec
  OBVIOUS
<1>2. Fits(w, R[1])
  BY DEF Chain
<1>3. Same(After(R[1]), u)
  BY <1>1, <1>2, ReadSteps
<1>4. \A s : (Same(After(R[1]), s) => Same(u, s)) /\ (Fits(After(R[1]), s) => Fits(u, s))
  BY <1>3, SameFits
<1> QED BY <1>4, ChainTail

\* A record protected at v extends a chain that ended at v.
LEMMA ChainWrite ==
  ASSUME NEW X, NEW R \in Seq(X), NEW v \in Side, Keyed(v), NEW type \in RecType, NEW body,
         Len(body) \in Nat, Protect(v, type, body) \in X, NEW w, Chain(w, R, v), NEW u,
         \/ type # "ccs" /\ u = Advance(v, body)
         \/ type = "ccs" /\ u = Enable("shared", Advance(v, body))
  PROVE  Chain(w, Append(R, Protect(v, type, body)), u)
<1> DEFINE r == Protect(v, type, body)
<1>1. \A s : Same(s, v) => Fits(s, r)
  BY Steps
<1>2. Same(After(r), u)
  BY Steps
<1> HIDE DEF r
<1>3. r \in X
  BY DEF r
<1>4. Chain(w, Append(R, r), u)
  BY <1>1, <1>2, <1>3, ChainAppend
<1> QED BY <1>4 DEF r

\* The client's reading side stays in step with the server's writing side.
LEMMA ReadInStepInductive ==
  ReadInStep /\ Pristine /\ Shapes /\ InOrder /\ [Next]_vars => ReadInStep'
<1> SUFFICES ASSUME ReadInStep, Pristine, Shapes, InOrder, [Next]_vars, Calm'
             PROVE  Chain(reading', Underway', peerWriting')
  BY DEF ReadInStep
<1>0. Calm /\ Alive /\ Undamaged /\ Alive' /\ ~Damage
  BY CalmBefore, FaultsKept DEF Calm
<1>1. /\ Chain(reading, Underway, peerWriting) /\ Wires /\ PeerShape /\ ClientShape
      /\ reading \in Side /\ peerWriting \in Side /\ Keyed(reading) /\ Keyed(peerWriting)
      /\ CleanText
  BY <1>0 DEF ReadInStep, Shapes, ClientShape, PeerShape, Pristine, SameKeys
<1>2. CASE Stream0' = Stream0 /\ peerWriting' = peerWriting
             /\ (pc' \in {"failed", "closed"} \/ reading' = reading)
  <2>1. reading' = reading
    BY <1>0, <1>2 DEF Alive
  <2>2. Underway' = Underway
    BY <1>2 DEF Underway
  <2> QED BY <1>1, <1>2, <2>1, <2>2
<1>3. CASE RecordTaken
  <2>1. Len(rx) >= 2 /\ rx' = SubSeq(rx, 3, Len(rx)) /\ s2c' = s2c /\ peerWriting' = peerWriting
    BY <1>3, RecordTakenEffect DEF Ready, peerVars
  <2>2. /\ Underway \in Seq(SRec) /\ Underway # <<>> /\ Underway[1] = Record
        /\ Underway' = Tail(Underway) /\ Len(Record.body) \in Nat /\ Record.body \in SBody \cup CBody
    BY <1>0, <1>1, <2>1, UnderwayTaken, ReadyRecord
  <2>3. ~Unexpected
    BY <1>0 DEF Unexpected, Fail, Alive
  <2>4. Advance(reading, Record.body) \in Side
    BY <1>1, <2>2, SideTypes
  <2>5. ClientKey = "shared"
    BY <1>1, CleanKeys DEF CleanText
  <2>6. \/ Record.type # "ccs" /\ reading' = Advance(reading, Record.body)
        \/ Record.type = "ccs" /\ reading' = Enable("shared", Advance(reading, Record.body))
    BY <1>3, <2>3, <2>5 DEF RecordTaken, HandleAlert, TakeFragment, TakeChangeCipherSpec, Deliver
  <2>7. ASSUME NEW R \in Seq(SRec), R # <<>>, R[1] = Record, Chain(reading, R, peerWriting)
        PROVE  Chain(reading', Tail(R), peerWriting)
    BY <1>1, <2>2, <2>4, <2>6, <2>7, ChainRead
  <2>8. Chain(reading', Tail(Underway), peerWriting)
    BY ONLY <1>1, <2>2, <2>7, Zenon
  <2> QED BY ONLY <2>1, <2>2, <2>8, Zenon
<1>4. CASE Emission /\ UNCHANGED clientVars
  <2>1. PICK type \in RecType, body \in SBody :
          /\ Sends(type, body) /\ Len(body) \in Nat
          /\ type = "handshake" => body \in Seq(Piece)
          /\ type = "data" => body \in Seq(Nat) /\ Len(body) = 1
          /\ type = "ccs" => peerWriting' = Enable(PeerKey, Advance(peerWriting, body))
          /\ type # "ccs" => peerWriting' = Advance(peerWriting, body)
    BY <1>4 DEF Emission
  <2> DEFINE r == Protect(peerWriting, type, body)
  <2>2. Underway \in Seq(SRec) /\ r \in SRec /\ Underway' = Append(Underway, r)
    BY <1>0, <1>1, <2>1, UnderwaySent
  <2>3. PeerKey = "shared"
    BY <1>1, CleanKeys DEF CleanText
  <2>4. \/ type # "ccs" /\ peerWriting' = Advance(peerWriting, body)
        \/ type = "ccs" /\ peerWriting' = Enable("shared", Advance(peerWriting, body))
    BY <2>1, <2>3
  <2>5. ASSUME NEW R \in Seq(SRec), Chain(reading, R, peerWriting), r \in SRec
        PROVE  Chain(reading, Append(R, r), peerWriting')
    BY <1>1, <2>1, <2>4, <2>5, ChainWrite
  <2> HIDE DEF r
  <2>6. Chain(reading, Append(Underway, r), peerWriting')
    BY ONLY <1>1, <2>2, <2>5, Zenon
  <2>7. reading' = reading
    BY <1>4 DEF clientVars, cipherVars
  <2> QED BY ONLY <2>2, <2>6, <2>7, Zenon
<1> QED BY <1>0, <1>2, <1>3, <1>4, StreamMoves

\* A sequence joined element by element.
LEMMA JoinLast ==
  ASSUME NEW X, NEW s \in Seq(X), NEW t \in Seq(X), NEW n \in Nat, n < Len(t)
  PROVE  /\ SubSeq(t, 1, n) \in Seq(X) /\ t[n + 1] \in X
         /\ s \o SubSeq(t, 1, n) \in Seq(X)
         /\ s \o SubSeq(t, 1, n + 1) = Append(s \o SubSeq(t, 1, n), t[n + 1])
<1> DEFINE a == SubSeq(t, 1, n)
           b == SubSeq(t, 1, n + 1)
<1>1. n \in 0 .. Len(t) /\ n + 1 \in 0 .. Len(t) /\ n + 1 \in 1 .. Len(t)
  OBVIOUS
<1>2. a \in Seq(X) /\ Len(a) = n /\ \A i \in 1 .. n : a[i] = t[i]
  BY <1>1, CutTypes
<1>3. b \in Seq(X) /\ Len(b) = n + 1 /\ \A i \in 1 .. n + 1 : b[i] = t[i]
  BY <1>1, CutTypes
<1>4. t[n + 1] \in X
  BY <1>1
<1> HIDE DEF a, b
<1>5. b = Append(a, t[n + 1])
  <2>1. /\ Append(a, t[n + 1]) \in Seq(X) /\ Len(Append(a, t[n + 1])) = n + 1
        /\ \A i \in 1 .. n : Append(a, t[n + 1])[i] = a[i]
        /\ Append(a, t[n + 1])[n + 1] = t[n + 1]
    BY <1>2, <1>4, AppendedRecord
  <2>2. \A i \in 1 .. n + 1 : b[i] = Append(a, t[n + 1])[i]
    BY <1>2, <1>3, <2>1
  <2> QED BY <1>3, <2>1, <2>2, SeqEqual
<1>6. ASSUME NEW c \in Seq(X), NEW x \in X PROVE s \o Append(c, x) = Append(s \o c, x)
  <2>1. Append(c, x) \in Seq(X) /\ Len(Append(c, x)) = Len(c) + 1 /\ s \o c \in Seq(X)
        /\ Len(s \o c) = Len(s) + Len(c)
    OBVIOUS
  <2>2. Len(s \o Append(c, x)) = Len(s) + Len(c) + 1 /\ s \o Append(c, x) \in Seq(X)
        /\ Append(s \o c, x) \in Seq(X) /\ Len(Append(s \o c, x)) = Len(s) + Len(c) + 1
    BY <2>1
  <2>3. \A i \in 1 .. Len(s) + Len(c) + 1 : (s \o Append(c, x))[i] = Append(s \o c, x)[i]
    OBVIOUS
  <2> QED BY <2>2, <2>3, SeqEqual
<1>7. s \o a \in Seq(X)
  BY <1>2
<1>8. s \o b = Append(s \o a, t[n + 1])
  BY ONLY <1>2, <1>4, <1>5, <1>6, Zenon
<1> QED BY <1>2, <1>4, <1>7, <1>8 DEF a, b

\* A cleartext record leaves the cipher where it was.
LEMMA ClearSteps ==
  ASSUME NEW v \in Side, Keyed(v), ~v.on, NEW type \in RecType, NEW body,
         NEW o \in Side, o.on, o.key = "shared", o.seq = 0, o.pos = 0
  PROVE  LET r == Protect(v, type, body)
         IN  /\ \A s : Same(s, v) => Fits(s, r)
             /\ type # "ccs" => Same(After(r), v)
             /\ type = "ccs" => Same(After(r), o)
<1> DEFINE r == Protect(v, type, body)
<1>1. r.type = type /\ r.key = v.key
  BY DEF Protect
<1>2. v.on = FALSE /\ v.key = "none" /\ o.on = TRUE
  BY DEF Keyed, Side
<1> HIDE DEF r
<1>3. ASSUME NEW s, Same(s, v) PROVE Fits(s, r)
  BY <1>1, <1>2, <1>3 DEF Same, Fits
<1>4. type # "ccs" => After(r) = Null
  BY <1>1, <1>2 DEF After
<1>5. type # "ccs" => Same(After(r), v)
  BY <1>2, <1>4, NullType DEF Same
<1>6. type = "ccs" => After(r) = Enable("shared", Null)
  BY <1>1 DEF After
<1>7. /\ Enable("shared", Null).on = TRUE /\ Enable("shared", Null).key = "shared"
      /\ Enable("shared", Null).seq = 0 /\ Enable("shared", Null).pos = 0
  BY EnableTypes, NullType DEF Keys
<1>8. type = "ccs" => Same(After(r), o)
  BY <1>2, <1>6, <1>7 DEF Same
<1> QED BY <1>3, <1>5, <1>8 DEF r

\* The flight is in step from the first record to the last.
LEMMA FlightInStep ==
  ASSUME Shapes, CleanText, SameKeys, SendFlight, Progress, NEW w, Chain(w, c2s, writing)
  PROVE  Chain(w, c2s', writing')
<1> DEFINE F == FlightRecords
           k == Len(ClearPart)
<1>0. /\ ClientShape /\ Wires /\ writing \in Side /\ c2s \in Seq(Sent) /\ Keyed(writing)
      /\ transcript \in Seq(Msg) /\ hs \in Seq(Piece)
  BY DEF Shapes, ClientShape, Wires, SameKeys
<1>1. pc = "done" /\ HasMessage /\ c2s' = c2s \o F /\ writing' = Advance(Opened, <<Finished>>)
  BY <1>0, FlightEffect
<1>2. ~writing.on
  BY <1>1 DEF Progress
<1>3. Parsed \in Msg /\ ~Parsed.alt
  BY <1>0, <1>1, CleanParsed DEF CleanText, HasMessage
<1>4. FlightKey = "shared"
  BY <1>0, <1>3, CleanFlight, CleanKeys DEF CleanText
<1>5. Opened \in Side /\ Opened.on /\ Opened.key = "shared" /\ Opened.seq = 0 /\ Opened.pos = 0
      /\ Keyed(Opened)
  BY <1>0, <1>4, OpenedTypes DEF Keyed
<1>6. /\ F \in Seq(Sent) /\ Len(F) = k + 2
      /\ \A i \in 1 .. k : F[i] = Protect(writing, "handshake", <<ClearPart[i]>>)
      /\ F[k + 1] = Protect(writing, "ccs", <<1>>)
      /\ F[k + 2] = Protect(Opened, "handshake", <<Finished>>)
  BY <1>0, FlightTypes
<1>7. k \in {1, 2}
  BY ClearTypes
<1>8. "handshake" \in RecType /\ "ccs" \in RecType
  BY ServerBodies
<1> DEFINE P(n) == c2s \o SubSeq(F, 1, n)
<1> HIDE DEF F, k
<1>9. ASSUME NEW n \in Nat, n < Len(F)
      PROVE  P(n) \in Seq(Sent) /\ F[n + 1] \in Sent /\ P(n + 1) = Append(P(n), F[n + 1])
  BY <1>0, <1>6, <1>9, JoinLast
<1>10. P(0) = c2s /\ P(k + 2) = c2s'
  <2>1. SubSeq(F, 1, 0) = <<>> /\ SubSeq(F, 1, Len(F)) = F
    BY <1>6
  <2>2. c2s \o <<>> = c2s
    BY <1>0, ConcatEmptySeq
  <2>3. c2s \o SubSeq(F, 1, 0) = c2s
    BY ONLY <2>1, <2>2, Zenon
  <2>4. c2s \o SubSeq(F, 1, k + 2) = c2s'
    BY ONLY <1>1, <1>6, <2>1, Zenon
  <2> QED BY <2>3, <2>4
<1> HIDE DEF P
<1>11. ASSUME NEW n \in Nat, n < k, Chain(w, P(n), writing) PROVE Chain(w, P(n + 1), writing)
  <2>1. n < Len(F) /\ n + 1 \in 1 .. k
    BY <1>6, <1>7, <1>11
  <2>2. /\ \A s : Same(s, writing) => Fits(s, F[n + 1])
        /\ Same(After(F[n + 1]), writing)
    BY <1>0, <1>2, <1>5, <1>6, <1>8, <2>1, ClearSteps
  <2>3. P(n) \in Seq(Sent) /\ F[n + 1] \in Sent /\ P(n + 1) = Append(P(n), F[n + 1])
    BY <1>9, <2>1
  <2>4. Chain(w, Append(P(n), F[n + 1]), writing)
    BY <1>11, <2>2, <2>3, ChainAppend
  <2> QED BY <2>3, <2>4
<1>12. Chain(w, P(k), writing)
  <2>1. Chain(w, P(0), writing)
    BY <1>10
  <2>2. Chain(w, P(0 + 1), writing)
    BY <1>7, <1>11, <2>1
  <2>3. 0 + 1 = 1
    OBVIOUS
  <2>4. CASE k = 1
    BY <2>2, <2>3, <2>4
  <2>5. CASE k = 2
    <3>1. Chain(w, P(1 + 1), writing)
      BY <1>11, <2>2, <2>3, <2>5
    <3>2. 1 + 1 = 2
      OBVIOUS
    <3> QED BY <2>5, <3>1, <3>2
  <2> QED BY <1>7, <2>4, <2>5
<1>13. Chain(w, P(k + 1), Opened)
  <2>1. /\ \A s : Same(s, writing) => Fits(s, F[k + 1])
        /\ Same(After(F[k + 1]), Opened)
    BY <1>0, <1>2, <1>5, <1>6, <1>8, ClearSteps
  <2>2. k \in Nat /\ k < Len(F)
    BY <1>6, <1>7
  <2>3. P(k) \in Seq(Sent) /\ F[k + 1] \in Sent /\ P(k + 1) = Append(P(k), F[k + 1])
    BY <1>9, <2>2
  <2>4. Chain(w, Append(P(k), F[k + 1]), Opened)
    BY <1>12, <2>1, <2>3, ChainAppend
  <2> QED BY <2>3, <2>4
<1>14. Chain(w, P(k + 2), writing')
  <2>1. k + 1 \in Nat /\ k + 1 < Len(F) /\ (k + 1) + 1 = k + 2
    BY <1>6, <1>7
  <2>2. P(k + 1) \in Seq(Sent) /\ F[(k + 1) + 1] \in Sent /\ P((k + 1) + 1) = Append(P(k + 1), F[(k + 1) + 1])
    BY <1>9, <2>1
  <2>3. P(k + 1) \in Seq(Sent) /\ F[k + 2] \in Sent /\ P(k + 2) = Append(P(k + 1), F[k + 2])
    BY <2>1, <2>2
  <2>4. Len(<<Finished>>) \in Nat
    OBVIOUS
  <2>5. Chain(w, Append(P(k + 1), F[k + 2]), Advance(Opened, <<Finished>>))
    BY <1>5, <1>6, <1>8, <1>13, <2>3, <2>4, ChainWrite
  <2> QED BY <1>1, <2>3, <2>5
<1> QED BY <1>10, <1>14

\* The server's reading side stays in step with the client's writing side.
LEMMA WriteInStepInductive ==
  WriteInStep /\ Pristine /\ Shapes /\ Progress /\ Order /\ [Next]_vars => WriteInStep'
<1> SUFFICES ASSUME WriteInStep, Pristine, Shapes, Progress, Order, [Next]_vars, Calm', peer' # "gone"
             PROVE  Chain(peerReading', c2s', writing')
  BY DEF WriteInStep
<1>0. Calm /\ Alive /\ Undamaged /\ Alive' /\ ~Damage
  BY CalmBefore, FaultsKept DEF Calm
<1>1. /\ Wires /\ PeerShape /\ ClientShape /\ c2s \in Seq(Sent) /\ asked \in Nat
      /\ peerReading \in Side /\ writing \in Side /\ Keyed(peerReading) /\ Keyed(writing)
      /\ CleanText /\ SameKeys
  BY <1>0 DEF Shapes, ClientShape, PeerShape, Wires, Pristine, SameKeys
<1>2. peer # "gone"
  <2>1. ASSUME peer = "gone" PROVE peer' = "gone"
    <3>1. CASE PeerSteps
      BY <2>1, <3>1 DEF PeerSteps, PeerHello, PeerEmit, PeerHandshake, PeerChangeCipherSpec,
                        PeerRejects, PeerFinish, PeerHears, PeerSends, PeerAlerts, PeerHangsUp, PeerTakes
    <3>2. CASE ~PeerSteps
      BY <2>1, <3>2, ClientLeavesPeer, StepKinds DEF peerVars
    <3> QED BY <3>1, <3>2
  <2> QED BY <2>1
<1>3. Chain(peerReading, c2s, writing)
  BY <1>0, <1>2 DEF WriteInStep
<1>4. ASSUME NEW type \in RecType, NEW body, Len(body) \in Nat, type # "ccs",
             Protect(writing, type, body) \in Sent, c2s' = Append(c2s, Protect(writing, type, body)),
             writing' = Advance(writing, body), peerReading' = peerReading
      PROVE  Chain(peerReading', c2s', writing')
  <2>1. Chain(peerReading, Append(c2s, Protect(writing, type, body)), Advance(writing, body))
    BY <1>1, <1>3, <1>4, ChainWrite
  <2> QED BY <1>4, <2>1
<1>5. "handshake" \in RecType /\ "data" \in RecType /\ "alert" \in RecType
  BY ServerBodies
<1>6. CASE Connect
  <2>1. Protect(writing, "handshake", <<ClientHello>>) \in Sent /\ Len(<<ClientHello>>) \in Nat
    BY <1>1, SentTypes, MessageTypes DEF ClientTypes
  <2> QED BY <1>4, <1>5, <1>6, <2>1 DEF Connect, peerVars
<1>7. CASE Send
  <2>1. asked + 1 \in Nat
    BY <1>1
  <2>2. Protect(writing, "data", <<asked + 1>>) \in Sent /\ Len(<<asked + 1>>) \in Nat
    BY <1>1, <2>1, SentTypes
  <2> QED BY <1>4, <1>5, <1>7, <2>2 DEF Send, peerVars
<1>8. CASE Close
  BY <1>0, <1>8 DEF Close, Alive
<1>9. CASE SendFlight
  <2>1. peerReading' = peerReading
    BY <1>9 DEF SendFlight, peerVars
  <2> QED BY <1>1, <1>3, <1>9, <2>1, FlightInStep
<1>10. CASE (\E f \in Flights : PeerHello(f)) \/ PeerHandshake \/ PeerChangeCipherSpec \/ PeerHears
  <2>1. c2s # <<>> /\ c2s' = Tail(c2s) /\ writing' = writing
    BY <1>10 DEF PeerHello, PeerHandshake, PeerChangeCipherSpec, PeerHears, PeerTakes, clientVars, cipherVars
  <2>2. /\ Incoming \in CRec /\ Incoming.body \in SBody \cup CBody /\ Incoming = c2s[1]
        /\ Len(Incoming.body) \in Nat /\ Head(c2s) = Incoming
    BY <1>1, <2>1, IncomingTypes, SideTypes DEF Incoming
  <2>3. PeerKey = "shared"
    BY <1>1, CleanKeys DEF CleanText
  <2>4. Sent \subseteq SRec \cup CRec
    BY DEF Sent
  <2>5. CASE c2s[1].type # "ccs" /\ peerReading' = Advance(peerReading, c2s[1].body)
    BY <1>1, <1>3, <2>1, <2>2, <2>4, <2>5, ChainRead
  <2>6. CASE PeerChangeCipherSpec
    <3>1. c2s[1].type = "ccs" /\ peerReading' = Enable("shared", peerReading)
      BY <2>2, <2>3, <2>6 DEF PeerChangeCipherSpec
    <3> QED BY <1>1, <1>3, <2>1, <2>2, <2>4, <3>1, ChainRead
  <2>7. CASE PeerHandshake \/ PeerHears
    <3>1. c2s[1].type # "ccs" /\ peerReading' = Advance(peerReading, c2s[1].body)
      BY <2>2, <2>7 DEF PeerHandshake, PeerHears
    <3> QED BY <2>5, <3>1
  <2>8. CASE \E f \in Flights : PeerHello(f)
    <3>1. peer = "start" /\ peerReading' = Advance(peerReading, c2s[1].body)
      BY <2>2, <2>8 DEF PeerHello, Incoming
    <3>2. c2s[1].type = "handshake"
      BY <2>1, <3>1 DEF Order, IsHandshake
    <3> QED BY <2>5, <3>1, <3>2
  <2> QED BY <1>10, <2>6, <2>7, <2>8
<1>11. CASE (\E n \in {1, Len(s2c)} : Fill(n)) \/ TakeHello \/ TakeFinished \/ Refuse
  BY <1>3, <1>11 DEF Fill, TakeHello, TakeFinished, Refuse, cipherVars, peerVars
<1>12. CASE LocalFails \/ RecordTaken
  BY <1>3, <1>12, LocalFailsEffect, RecordTakenEffect DEF peerVars
<1>13. CASE (\E n \in DOMAIN pending : PeerEmit(n)) \/ PeerFinish \/ PeerSends
              \/ (\E a \in Alerts : PeerAlerts(a)) \/ UNCHANGED vars
  BY <1>3, <1>13 DEF PeerEmit, PeerFinish, PeerSends, PeerAlerts, vars, clientVars, cipherVars, peerVars
<1>14. CASE PeerRejects \/ PeerHangsUp
  BY <1>14 DEF PeerRejects, PeerHangsUp
<1> QED
  BY <1>0, <1>6, <1>7, <1>8, <1>9, <1>10, <1>11, <1>12, <1>13, <1>14, StepKinds DEF PeerSteps

-----------------------------------------------------------------------------
(***************************************************************************)
(* What each side has absorbed, and what is still on its way.              *)
(***************************************************************************)

\* The stages before the server's ChangeCipherSpec is taken.
Early == {"hello", "cert", "done", "ccs"}

\* What the client adds to the handshake after the server's flight.
Mine == IF writing.on THEN ClearPart \o <<Finished>> ELSE <<>>

\* The transcript t: the ClientHello, n messages of flight f and k of m.
Tells(t, f, n, m, k) ==
  /\ Len(t) = 1 + n + k /\ t[1] = ClientHello
  /\ \A i \in 1 .. n : t[1 + i] = Message(f[i])
  /\ \A i \in 1 .. k : t[1 + n + i] = m[i]

\* The i-th record on the way to the server holds message m.
Holding(i, m) == i \in DOMAIN c2s /\ c2s[i].type = "handshake" /\ c2s[i].body = <<m>>

\* Before the server has read the ClientHello.
Unmet ==
  /\ peer \in {"start", "gone"} /\ ~peerWriting.on /\ pc \in {"start", "hello"}
  /\ Stream0 = <<>> /\ hs = <<>> /\ pending = <<>>
  /\ pc = "hello" => Len(transcript) = 1 /\ transcript[1] = ClientHello
  /\ pc = "hello" /\ peer = "start" => Len(c2s) = 1 /\ Holding(1, ClientHello)

\* After it: the client has absorbed n messages of flight f and its own, the server
\* all of f and k of the client's ...
ClientSaw(f, n) == n <= Len(f) /\ Tells(transcript, f, n, Mine, Len(Mine))
\* ... the server all of f and k of the client's messages; once its cipher is on, its
\* Finished is over the whole of both ...
ServerSaw(f, k) ==
  /\ peerWriting.on => writing.on /\ Tells(finOver, f, Len(f), Mine, Len(Mine))
  /\ ~peerWriting.on => k <= Len(Mine) /\ Tells(peerTranscript, f, Len(f), Mine, k)

\* ... the others are on their way to it ...
Posted(k) ==
  /\ peer # "start" /\ (peer \in {"keys", "fin", "finish"} => ~peerWriting.on)
  /\ peer = "keys" /\ ~writing.on => c2s = <<>>
  /\ peer = "keys" /\ writing.on =>
       /\ k <= Len(ClearPart) /\ \A j \in k + 1 .. Len(ClearPart) : Holding(j - k, ClearPart[j])
       /\ Len(ClearPart) + 1 - k \in DOMAIN c2s /\ c2s[Len(ClearPart) + 1 - k].type = "ccs"
       /\ Holding(Len(ClearPart) + 2 - k, Finished)
  /\ peer = "fin" => writing.on /\ k = Len(ClearPart) /\ Holding(1, Finished)
  /\ peer = "finish" => writing.on /\ k = Len(ClearPart) + 1

\* ... and the rest of f is in hs_, on its way to the client (in records R) and, until
\* its cipher is on, in the server's hands (p).
Left(f, lo, R, on, p) ==
  /\ on => Flow(Pieces(f), R, lo, 2 * Len(f))
  /\ ~on => /\ Len(p) <= 2 * Len(f)
            /\ \A i \in 1 .. Len(p) : p[i] = Pieces(f)[2 * Len(f) - Len(p) + i]
            /\ Flow(Pieces(f), R, lo, 2 * Len(f) - Len(p))
            /\ \A i \in DOMAIN R : R[i].type # "ccs"
\* What the client has not parsed yet starts at piece 2n of f.
Arrives(f, n) ==
  /\ 2 * n + Len(hs) <= 2 * Len(f) /\ \A i \in 1 .. Len(hs) : hs[i] = Pieces(f)[2 * n + i]
  /\ pc = "ccs" => hs = <<>>
  /\ Left(f, 2 * n + Len(hs), Underway, peerWriting.on, pending)

\* The four together, for a flight f and the counts n and k.
Met(f, n, k) == ClientSaw(f, n) /\ ServerSaw(f, k) /\ Posted(k) /\ Arrives(f, n)

\* The account by stage: before the server's hello, up to its ChangeCipherSpec, and then.
NotMet   == Calm /\ peerTranscript = <<>> => Unmet
Begun    == Calm /\ peerTranscript # <<>> => pc # "start"
BothTell == Calm /\ peerTranscript # <<>> /\ pc \in Early =>
              \E f \in Flights, n \in Nat, k \in Nat : Met(f, n, k)
FinTells == Calm /\ pc = "finished" => finOver = transcript
Account  == NotMet /\ Begun /\ BothTell /\ FinTells

-----------------------------------------------------------------------------
\* What the client adds, message by message.
LEMMA MineIs ==
  /\ ~writing.on => Mine = <<>> /\ Len(Mine) = 0
  /\ writing.on => /\ Mine \in Seq(Msg) /\ Len(Mine) = Len(ClearPart) + 1
                   /\ \A i \in 1 .. Len(ClearPart) : Mine[i] = ClearPart[i]
                   /\ Mine[Len(ClearPart) + 1] = Finished
  /\ ClearPart \in Seq(Msg) /\ Len(ClearPart) \in {1, 2} /\ Len(Mine) \in Nat
<1>1. ClearPart \in Seq(Msg) /\ Len(ClearPart) \in {1, 2} /\ Finished \in Msg
  BY ClearTypes, MessageTypes
<1>2. CASE ~writing.on
  <2>1. Mine = <<>>
    BY <1>2 DEF Mine
  <2>2. Len(Mine) = 0
    BY <2>1
  <2> QED BY <1>1, <1>2, <2>1, <2>2
<1>3. CASE writing.on
  <2> DEFINE C == ClearPart
             F == Finished
  <2>1. Mine = C \o <<F>>
    BY <1>3 DEF Mine
  <2> HIDE DEF C, F
  <2>2. C \in Seq(Msg) /\ F \in Msg
    BY <1>1 DEF C, F
  <2>3. /\ C \o <<F>> \in Seq(Msg) /\ Len(C \o <<F>>) = Len(C) + 1 /\ Len(C) \in Nat
        /\ \A i \in 1 .. Len(C) : (C \o <<F>>)[i] = C[i]
        /\ (C \o <<F>>)[Len(C) + 1] = F
    BY ONLY <2>2
  <2>4. /\ Mine \in Seq(Msg) /\ Len(Mine) = Len(C) + 1 /\ Len(Mine) \in Nat
        /\ \A i \in 1 .. Len(C) : Mine[i] = C[i]
        /\ Mine[Len(C) + 1] = F
    BY <2>1, <2>3
  <2> QED BY <1>1, <1>3, <2>4 DEF C, F
<1> QED BY <1>2, <1>3

\* A transcript that grows by the next message of the flight, ...
LEMMA TellsFlight ==
  ASSUME NEW t \in Seq(Msg), NEW f \in Seq(Types), NEW n \in Nat, n < Len(f), NEW m, NEW l,
         Tells(t, f, n, m, 0)
  PROVE  Tells(Append(t, Message(f[n + 1])), f, n + 1, l, 0)
<1> DEFINE x == Message(f[n + 1])
           u == Append(t, x)
<1>1. x \in Msg
  BY MessageTypes
<1>2. /\ u \in Seq(Msg) /\ Len(u) = Len(t) + 1 /\ u[Len(t) + 1] = x
      /\ \A i \in 1 .. Len(t) : u[i] = t[i]
  BY <1>1, AppendedRecord
<1>3. Len(t) = 1 + n /\ t[1] = ClientHello /\ \A i \in 1 .. n : t[1 + i] = Message(f[i])
  BY DEF Tells
<1> HIDE DEF u
<1>4. Len(u) = 1 + (n + 1) + 0 /\ u[1] = ClientHello
  BY <1>2, <1>3
<1>5. ASSUME NEW i \in 1 .. n + 1 PROVE u[1 + i] = Message(f[i])
  <2>1. CASE i = n + 1
    BY <1>2, <1>3, <2>1
  <2>2. CASE i # n + 1
    <3>1. i \in 1 .. n /\ 1 + i \in 1 .. Len(t)
      BY <1>3, <2>2
    <3> QED BY <1>2, <1>3, <3>1
  <2> QED BY <2>1, <2>2
<1>6. \A i \in 1 .. 0 : u[1 + (n + 1) + i] = l[i]
  OBVIOUS
<1>7. Tells(u, f, n + 1, l, 0)
  BY <1>4, <1>5, <1>6 DEF Tells
<1> QED BY <1>7 DEF u

\* ... by the next of the client's, ...
LEMMA TellsMine ==
  ASSUME NEW t \in Seq(Msg), NEW f, NEW n \in Nat, NEW m, NEW k \in Nat, NEW x \in Msg, x = m[k + 1],
         Tells(t, f, n, m, k)
  PROVE  Tells(t \o <<x>>, f, n, m, k + 1)
<1> DEFINE u == t \o <<x>>
<1>2. /\ u \in Seq(Msg) /\ Len(u) = Len(t) + 1 /\ u[Len(t) + 1] = x
      /\ \A i \in 1 .. Len(t) : u[i] = t[i]
  OBVIOUS
<1>3. /\ Len(t) = 1 + n + k /\ t[1] = ClientHello /\ \A i \in 1 .. n : t[1 + i] = Message(f[i])
      /\ \A i \in 1 .. k : t[1 + n + i] = m[i]
  BY DEF Tells
<1> HIDE DEF u
<1>4. Len(u) = 1 + n + (k + 1) /\ u[1] = ClientHello
  BY <1>2, <1>3
<1>5. \A i \in 1 .. n : u[1 + i] = Message(f[i])
  BY <1>2, <1>3
<1>6. ASSUME NEW i \in 1 .. k + 1 PROVE u[1 + n + i] = m[i]
  <2>1. CASE i = k + 1
    <3>1. 1 + n + i = Len(t) + 1
      BY <1>3, <2>1
    <3> QED BY <1>2, <2>1, <3>1
  <2>2. CASE i # k + 1
    <3>1. i \in 1 .. k /\ 1 + n + i \in 1 .. Len(t)
      BY <1>3, <2>2
    <3> QED BY <1>2, <1>3, <3>1
  <2> QED BY <2>1, <2>2
<1>7. Tells(u, f, n, m, k + 1)
  BY <1>4, <1>5, <1>6 DEF Tells
<1> QED BY <1>7 DEF u

\* ... or by all of the client's at once.
LEMMA TellsAll ==
  ASSUME NEW t \in Seq(Msg), NEW f, NEW n \in Nat, NEW l, Tells(t, f, n, l, 0),
         NEW c \in Seq(Msg), NEW x \in Msg, NEW m, NEW k \in Nat, k = Len(c) + 1,
         \A i \in 1 .. Len(c) : m[i] = c[i], m[Len(c) + 1] = x
  PROVE  Tells(t \o c \o <<x>>, f, n, m, k)
<1> DEFINE v == t \o c
           u == v \o <<x>>
<1>1. /\ v \in Seq(Msg) /\ Len(v) = Len(t) + Len(c) /\ Len(c) \in Nat
      /\ \A i \in 1 .. Len(t) : v[i] = t[i]
      /\ \A i \in 1 .. Len(c) : v[Len(t) + i] = c[i]
  BY Joined
<1> HIDE DEF v
<1>2. /\ u \in Seq(Msg) /\ Len(u) = Len(v) + 1 /\ u[Len(v) + 1] = x
      /\ \A i \in 1 .. Len(v) : u[i] = v[i]
  <2>1. x \in Msg
    OBVIOUS
  <2> QED BY ONLY <1>1, <2>1
<1>3. /\ Len(t) = 1 + n /\ t[1] = ClientHello /\ \A i \in 1 .. n : t[1 + i] = Message(f[i])
  BY DEF Tells
<1> HIDE DEF u
<1>4. Len(u) = 1 + n + k /\ u[1] = ClientHello
  BY <1>1, <1>2, <1>3
<1>5. ASSUME NEW i \in 1 .. n PROVE u[1 + i] = Message(f[i])
  <2>1. 1 + i \in 1 .. Len(t) /\ 1 + i \in 1 .. Len(v)
    BY <1>1, <1>3
  <2> QED BY <1>1, <1>2, <1>3, <2>1
<1>6. ASSUME NEW i \in 1 .. k PROVE u[1 + n + i] = m[i]
  <2>1. CASE i = k
    <3>1. 1 + n + i = Len(v) + 1 /\ i = Len(c) + 1
      BY <1>1, <1>3, <2>1
    <3> QED BY <1>2, <3>1
  <2>2. CASE i # k
    <3>1. i \in 1 .. Len(c) /\ 1 + n + i \in 1 .. Len(v) /\ 1 + n + i = Len(t) + i
      BY <1>1, <1>3, <2>2
    <3> QED BY <1>1, <1>2, <3>1
  <2> QED BY <2>1, <2>2
<1>7. Tells(u, f, n, m, k)
  BY <1>4, <1>5, <1>6 DEF Tells
<1> QED BY <1>7 DEF u, v

\* The same account, the same transcript.
LEMMA TellsSame ==
  ASSUME NEW t \in Seq(Msg), NEW u \in Seq(Msg), NEW f, NEW n \in Nat, NEW m, NEW k \in Nat,
         Tells(t, f, n, m, k), Tells(u, f, n, m, k)
  PROVE  t = u
<1>1. Len(t) = 1 + n + k /\ Len(u) = 1 + n + k
  BY DEF Tells
<1>2. ASSUME NEW i \in 1 .. Len(t) PROVE t[i] = u[i]
  <2>1. CASE i = 1
    BY <2>1 DEF Tells
  <2>2. CASE i > 1 /\ i <= 1 + n
    <3>1. i - 1 \in 1 .. n /\ 1 + (i - 1) = i
      BY <1>1, <2>2
    <3> QED BY <3>1 DEF Tells
  <2>3. CASE i > 1 + n
    <3>1. i - (1 + n) \in 1 .. k /\ 1 + n + (i - (1 + n)) = i
      BY <1>1, <2>3
    <3> QED BY <3>1 DEF Tells
  <2> QED BY <1>1, <2>1, <2>2, <2>3
<1> QED BY <1>1, <1>2, SeqEqual

\* The server's transcript after its flight.
LEMMA TellsHello ==
  ASSUME NEW f \in Flights, NEW m
  PROVE  /\ Tells(<<ClientHello>> \o [i \in DOMAIN f |-> Message(f[i])], f, Len(f), m, 0)
         /\ <<ClientHello>> \o [i \in DOMAIN f |-> Message(f[i])] # <<>>
<1> DEFINE g == [i \in DOMAIN f |-> Message(f[i])]
           u == <<ClientHello>> \o g
<1>1. g \in Seq(Msg) /\ Len(g) = Len(f) /\ \A i \in 1 .. Len(f) : g[i] = Message(f[i])
  BY FlightMessages
<1>2. <<ClientHello>> \in Seq(Msg) /\ Len(<<ClientHello>>) = 1 /\ <<ClientHello>>[1] = ClientHello
  BY MessageTypes
<1> HIDE DEF g
<1>3. /\ u \in Seq(Msg) /\ Len(u) = 1 + Len(g) /\ u[1] = ClientHello
      /\ \A i \in 1 .. Len(g) : u[1 + i] = g[i]
  BY <1>1, <1>2, Joined
<1> HIDE DEF u
<1>4. Len(f) \in Nat
  BY <1>1
<1>5. Tells(u, f, Len(f), m, 0) /\ u # <<>>
  BY <1>1, <1>3, <1>4 DEF Tells
<1> QED BY <1>5 DEF u, g

-----------------------------------------------------------------------------
\* Each part of the account depends on a part of the state only.
LEMMA ClientSawKept ==
  ASSUME NEW f, NEW n, ClientSaw(f, n), UNCHANGED <<transcript, certRequested, writing>>
  PROVE  ClientSaw(f, n)'
<1>1. Mine' = Mine
  BY DEF Mine, ClearPart
<1> QED BY <1>1 DEF ClientSaw, Tells

\* A step that leaves the server's transcript and cipher alone.
LEMMA ServerSawKept ==
  ASSUME NEW f, NEW k, ServerSaw(f, k), UNCHANGED <<certRequested, writing, peerTranscript, finOver>>,
         peerWriting'.on = peerWriting.on
  PROVE  ServerSaw(f, k)'
<1>1. Mine' = Mine
  BY DEF Mine, ClearPart
<1> QED BY <1>1 DEF ServerSaw, Tells

\* A step that leaves the client's records alone, the server hanging up included.
LEMMA PostedKept ==
  ASSUME NEW k, Posted(k), UNCHANGED <<certRequested, writing, c2s>>, peer' = peer \/ peer' = "gone",
         peerWriting'.on = peerWriting.on
  PROVE  Posted(k)'
<1>1. ClearPart' = ClearPart
  BY DEF ClearPart
<1>2. CASE peer' = peer
  BY <1>1, <1>2 DEF Posted, Holding
<1>3. CASE peer' = "gone"
  BY <1>3 DEF Posted
<1> QED BY <1>2, <1>3

\* A step that leaves the server's records and the client's buffer alone.
LEMMA ArrivesKept ==
  ASSUME NEW f, NEW n, Arrives(f, n), UNCHANGED <<hs, pc, pending>>, Underway' = Underway,
         peerWriting'.on = peerWriting.on
  PROVE  Arrives(f, n)'
<1>1. Left(f, 2 * n + Len(hs), Underway, peerWriting.on, pending)'
      = Left(f, 2 * n + Len(hs'), Underway', peerWriting'.on, pending')
  OBVIOUS
<1> QED BY <1>1 DEF Arrives

-----------------------------------------------------------------------------
\* The flight as pieces.
LEMMA FlightPieces ==
  ASSUME NEW f \in Flights
  PROVE  /\ f \in Seq(Types) /\ Len(f) \in Nat /\ Pieces(f) \in Seq(Piece) /\ Len(Pieces(f)) = 2 * Len(f)
         /\ \A c \in 1 .. Len(f) : Pieces(f)[2 * c - 1].ht = f[c]
<1>1. f \in Seq(Types)
  BY FlightMessages
<1>2. Len(f) \in Nat
  BY <1>1
<1> QED BY <1>1, <1>2, CleanPieces

\* A record taken.
LEMMA LeftTail ==
  ASSUME NEW f \in Flights, NEW lo \in Nat, NEW R \in Seq(SRec), R # <<>>, NEW on \in BOOLEAN,
         NEW p \in Seq(Piece), Left(f, lo, R, on, p)
  PROVE  /\ \E low \in Nat : Holds(Pieces(f), R[1], lo, low) /\ Left(f, low, Tail(R), on, p)
         /\ R[1].type = "ccs" => on
<1>1. Len(f) \in Nat /\ Len(p) \in Nat
  BY FlightPieces
<1>2. /\ Tail(R) \in Seq(SRec) /\ 1 \in DOMAIN R /\ DOMAIN Tail(R) = 1 .. Len(R) - 1
      /\ \A i \in 1 .. Len(R) - 1 : Tail(R)[i] = R[i + 1] /\ i + 1 \in DOMAIN R
  OBVIOUS
<1>3. CASE on
  <2>1. Flow(Pieces(f), R, lo, 2 * Len(f)) /\ 2 * Len(f) \in Nat
    BY <1>1, <1>3 DEF Left
  <2>2. PICK low \in Nat : Holds(Pieces(f), R[1], lo, low) /\ Flow(Pieces(f), Tail(R), low, 2 * Len(f))
    BY <2>1, FlowTail
  <2>3. Left(f, low, Tail(R), on, p)
    BY <1>3, <2>2 DEF Left
  <2> QED BY <1>3, <2>2, <2>3
<1>4. CASE ~on
  <2>1. /\ Flow(Pieces(f), R, lo, 2 * Len(f) - Len(p)) /\ Len(p) <= 2 * Len(f)
        /\ \A i \in DOMAIN R : R[i].type # "ccs"
        /\ \A i \in 1 .. Len(p) : p[i] = Pieces(f)[2 * Len(f) - Len(p) + i]
    BY <1>4 DEF Left
  <2>2. 2 * Len(f) - Len(p) \in Nat
    BY <1>1, <2>1
  <2>3. PICK low \in Nat : /\ Holds(Pieces(f), R[1], lo, low)
                           /\ Flow(Pieces(f), Tail(R), low, 2 * Len(f) - Len(p))
    BY <2>1, <2>2, FlowTail
  <2>4. \A i \in DOMAIN Tail(R) : Tail(R)[i].type # "ccs"
    BY <1>2, <2>1
  <2>5. Left(f, low, Tail(R), on, p)
    BY <1>4, <2>1, <2>3, <2>4 DEF Left
  <2> QED BY <1>2, <2>1, <2>3, <2>5
<1> QED BY <1>3, <1>4

\* A record sent that holds nothing of the flight, ...
LEMMA LeftOther ==
  ASSUME NEW f \in Flights, NEW lo \in Nat, NEW R \in Seq(SRec), NEW r \in SRec, NEW on \in BOOLEAN,
         NEW p \in Seq(Piece), NEW q, on \/ q = p, Left(f, lo, R, on, p), ~Carries(r), r.type # "ccs"
  PROVE  Left(f, lo, Append(R, r), on, q)
<1>1. Len(f) \in Nat /\ Len(p) \in Nat
  BY FlightPieces
<1>2. \A hi : Holds(Pieces(f), r, hi, hi)
  BY DEF Holds
<1>3. CASE on
  <2>1. Flow(Pieces(f), R, lo, 2 * Len(f)) /\ 2 * Len(f) \in Nat
    BY <1>1, <1>3 DEF Left
  <2>2. Flow(Pieces(f), Append(R, r), lo, 2 * Len(f))
    BY <1>2, <2>1, FlowAppend
  <2> QED BY <1>3, <2>2 DEF Left
<1>4. CASE ~on
  <2>1. /\ Flow(Pieces(f), R, lo, 2 * Len(f) - Len(p)) /\ Len(p) <= 2 * Len(f)
        /\ \A i \in DOMAIN R : R[i].type # "ccs"
        /\ \A i \in 1 .. Len(p) : p[i] = Pieces(f)[2 * Len(f) - Len(p) + i]
    BY <1>4 DEF Left
  <2>2. 2 * Len(f) - Len(p) \in Nat
    BY <1>1, <2>1
  <2>3. Flow(Pieces(f), Append(R, r), lo, 2 * Len(f) - Len(p))
    BY <1>2, <2>1, <2>2, FlowAppend
  <2>4. /\ DOMAIN Append(R, r) = 1 .. Len(R) + 1 /\ Append(R, r)[Len(R) + 1] = r /\ DOMAIN R = 1 .. Len(R)
        /\ \A i \in 1 .. Len(R) : Append(R, r)[i] = R[i]
    OBVIOUS
  <2>5. \A i \in DOMAIN Append(R, r) : Append(R, r)[i].type # "ccs"
    BY <2>1, <2>4
  <2> QED BY <1>4, <2>1, <2>3, <2>5 DEF Left
<1> QED BY <1>3, <1>4

\* ... one with the next m of the pieces the server holds, ...
LEMMA LeftEmit ==
  ASSUME NEW f \in Flights, NEW lo \in Nat, NEW R \in Seq(SRec), NEW r \in SRec,
         NEW p \in Seq(Piece), NEW m \in 0 .. Len(p), Left(f, lo, R, FALSE, p), Carries(r),
         r.body = SubSeq(p, 1, m)
  PROVE  Left(f, lo, Append(R, r), FALSE, SubSeq(p, m + 1, Len(p)))
<1> DEFINE q  == SubSeq(p, m + 1, Len(p))
           hi == 2 * Len(f) - Len(p)
<1>1. Len(f) \in Nat /\ Len(p) \in Nat /\ Len(Pieces(f)) = 2 * Len(f)
  BY FlightPieces
<1>2. /\ Len(r.body) = m /\ \A i \in 1 .. m : r.body[i] = p[i]
      /\ q \in Seq(Piece) /\ Len(q) = Len(p) - m /\ \A i \in 1 .. Len(p) - m : q[i] = p[m + i]
  BY CutTypes
<1>3. /\ Flow(Pieces(f), R, lo, hi) /\ Len(p) <= 2 * Len(f)
      /\ \A i \in DOMAIN R : R[i].type # "ccs"
      /\ \A i \in 1 .. Len(p) : p[i] = Pieces(f)[hi + i]
  BY DEF Left
<1> HIDE DEF q
<1>0. m \in Nat /\ m <= Len(p)
  OBVIOUS
<1>4. hi \in Nat /\ hi + m \in Nat /\ hi + m = 2 * Len(f) - Len(q) /\ hi + m <= 2 * Len(f)
  BY ONLY <1>0, <1>1, <1>2, <1>3
<1> HIDE DEF hi
<1>5. \A i \in 1 .. m : r.body[i] = Pieces(f)[hi + i]
  BY <1>1, <1>2, <1>3
<1>6. Holds(Pieces(f), r, hi, hi + m)
  BY <1>1, <1>2, <1>4, <1>5 DEF Holds
<1>7. Flow(Pieces(f), Append(R, r), lo, hi + m)
  BY <1>3, <1>4, <1>6, FlowAppend
<1>8. ASSUME NEW i \in 1 .. Len(q) PROVE q[i] = Pieces(f)[2 * Len(f) - Len(q) + i]
  <2>1. m + i \in 1 .. Len(p) /\ i \in 1 .. Len(p) - m /\ hi + (m + i) = 2 * Len(f) - Len(q) + i
    <3>1. i \in 1 .. Len(q)
      OBVIOUS
    <3>2. Len(q) = Len(p) - m /\ Len(q) \in Nat /\ i \in Nat
      BY ONLY <1>0, <1>1, <1>2, <3>1
    <3>3. m + i \in 1 .. Len(p) /\ i \in 1 .. Len(p) - m
      BY ONLY <1>0, <1>1, <3>1, <3>2
    <3>4. ASSUME NEW a \in Nat, NEW b \in Nat, hi + m = a - b
          PROVE  hi + (m + i) = a - b + i
      BY ONLY <1>0, <1>4, <3>2, <3>4
    <3>5. 2 * Len(f) \in Nat
      BY ONLY <1>1
    <3> QED BY ONLY <1>4, <3>2, <3>3, <3>4, <3>5
  <2>2. q[i] = p[m + i] /\ p[m + i] = Pieces(f)[hi + (m + i)]
    BY <1>2, <1>3, <2>1
  <2> QED BY <2>1, <2>2
<1>9. /\ DOMAIN Append(R, r) = 1 .. Len(R) + 1 /\ Append(R, r)[Len(R) + 1] = r /\ DOMAIN R = 1 .. Len(R)
      /\ \A i \in 1 .. Len(R) : Append(R, r)[i] = R[i]
  OBVIOUS
<1>10. \A i \in DOMAIN Append(R, r) : Append(R, r)[i].type # "ccs"
  BY <1>3, <1>9 DEF Carries
<1>11. Len(q) <= 2 * Len(f)
  BY <1>1, <1>2, <1>3
<1>12. Left(f, lo, Append(R, r), FALSE, q)
  BY <1>4, <1>7, <1>8, <1>10, <1>11 DEF Left
<1> QED BY <1>12 DEF q

\* ... and the ChangeCipherSpec, after the last of them.
LEMMA LeftFinish ==
  ASSUME NEW f \in Flights, NEW lo \in Nat, NEW R \in Seq(SRec), NEW r \in SRec, NEW q,
         Left(f, lo, R, FALSE, <<>>), r.type = "ccs"
  PROVE  Left(f, lo, Append(R, r), TRUE, q)
<1>1. Len(f) \in Nat /\ Len(Pieces(f)) = 2 * Len(f) /\ Len(<<>>) = 0
  BY FlightPieces
<1>2. Flow(Pieces(f), R, lo, 2 * Len(f) - Len(<<>>))
  BY DEF Left
<1>3. 2 * Len(f) - Len(<<>>) = 2 * Len(f) /\ 2 * Len(f) \in Nat
  BY <1>1
<1>4. Holds(Pieces(f), r, 2 * Len(f), 2 * Len(f))
  BY <1>1 DEF Holds, Carries
<1>5. Flow(Pieces(f), Append(R, r), lo, 2 * Len(f))
  BY <1>2, <1>3, <1>4, FlowAppend
<1> QED BY <1>5 DEF Left

-----------------------------------------------------------------------------
\* The client takes a record: what it held of the flight is now in hs_.
LEMMA ArrivesTaken ==
  ASSUME Shapes, InOrder, Alive, NEW f \in Flights, NEW n \in Nat, Arrives(f, n),
         Len(rx) >= 2, rx' = SubSeq(rx, 3, Len(rx)), s2c' = s2c, pc' = pc, pending' = pending,
         peerWriting' = peerWriting,
         \/ ~Carries(Record) /\ hs' = hs
         \/ Carries(Record) /\ Record.body \in Seq(Piece) /\ hs' = hs \o Record.body /\ pc # "ccs"
  PROVE  Arrives(f, n)'
<1> DEFINE R  == Underway
           Q  == Pieces(f)
           lo == 2 * n + Len(hs)
           on == peerWriting.on
           b  == Record.body
<1>1. R \in Seq(SRec) /\ R # <<>> /\ R[1] = Record /\ Underway' = Tail(R)
  BY UnderwayTaken DEF Shapes
<1>2. /\ hs \in Seq(Piece) /\ pending \in Seq(Piece) /\ on \in BOOLEAN
      /\ Len(f) \in Nat /\ Len(Q) = 2 * Len(f)
  BY FlightPieces DEF Shapes, ClientShape, PeerShape, Side
<1>3. lo \in Nat
  BY <1>2
<1>4. /\ lo <= 2 * Len(f) /\ \A i \in 1 .. Len(hs) : hs[i] = Q[2 * n + i]
      /\ Left(f, lo, R, on, pending)
  BY DEF Arrives
<1>41. pc = "ccs" => hs = <<>>
  BY DEF Arrives
<1> HIDE DEF R, Q, lo, on, b
<1>5. PICK low \in Nat : Holds(Q, R[1], lo, low) /\ Left(f, low, Tail(R), on, pending)
  <2>1. ASSUME NEW x \in Nat, NEW S \in Seq(SRec), S # <<>>, NEW o \in BOOLEAN, NEW p \in Seq(Piece),
               Left(f, x, S, o, p)
        PROVE  \E l \in Nat : Holds(Q, S[1], x, l) /\ Left(f, l, Tail(S), o, p)
    BY <2>1, LeftTail DEF Q
  <2> QED BY ONLY <1>1, <1>2, <1>3, <1>4, <2>1, Zenon
<1>6. CASE ~Carries(Record) /\ hs' = hs
  <2>1. low = lo
    BY <1>1, <1>5, <1>6 DEF Holds
  <2>2. Left(f, lo, Tail(R), on, pending)
    BY <1>5, <2>1
  <2>3. Left(f, 2 * n + Len(hs'), Underway', peerWriting'.on, pending')
    BY <1>1, <1>6, <2>2 DEF lo, on
  <2>4. 2 * n + Len(hs') <= 2 * Len(f) /\ \A i \in 1 .. Len(hs') : hs'[i] = Q[2 * n + i]
    BY <1>4, <1>6 DEF lo
  <2>5. pc' = "ccs" => hs' = <<>>
    BY <1>41, <1>6
  <2> QED BY <2>3, <2>4, <2>5 DEF Arrives, Q
<1>7. CASE Carries(Record) /\ b \in Seq(Piece) /\ hs' = hs \o b /\ pc # "ccs"
  <2>1. low = lo + Len(b) /\ low <= 2 * Len(f) /\ \A j \in 1 .. Len(b) : b[j] = Q[lo + j]
    BY <1>1, <1>2, <1>5, <1>7 DEF Holds, b
  <2>2. /\ hs \o b \in Seq(Piece) /\ Len(hs \o b) = Len(hs) + Len(b)
        /\ \A i \in 1 .. Len(hs) : (hs \o b)[i] = hs[i]
        /\ \A i \in 1 .. Len(b) : (hs \o b)[Len(hs) + i] = b[i]
    BY <1>2, <1>7, Joined, SMTT(30)
  <2>3. Len(hs) \in Nat /\ Len(b) \in Nat
    BY <1>2, <1>7
  <2>4. 2 * n + Len(hs') = low
    BY <1>7, <2>1, <2>2, <2>3 DEF lo
  <2>5. Left(f, 2 * n + Len(hs'), Underway', peerWriting'.on, pending')
    BY <1>1, <1>5, <2>4 DEF on
  <2>6. ASSUME NEW i \in 1 .. Len(hs') PROVE hs'[i] = Q[2 * n + i]
    <3>0. Len(hs') = Len(hs) + Len(b)
      BY <1>7, <2>2
    <3>1. CASE i <= Len(hs)
      <4>1. i \in 1 .. Len(hs)
        BY <2>3, <3>1
      <4> QED BY <1>4, <1>7, <2>2, <4>1
    <3>2. CASE ~(i <= Len(hs))
      <4>1. i - Len(hs) \in 1 .. Len(b) /\ Len(hs) + (i - Len(hs)) = i
        BY <2>3, <3>0, <3>2
      <4>2. lo + (i - Len(hs)) = 2 * n + i
        BY <2>3 DEF lo
      <4>3. hs'[i] = b[i - Len(hs)]
        BY <1>7, <2>2, <4>1
      <4> QED BY <2>1, <4>1, <4>2, <4>3
    <3> QED BY <3>1, <3>2
  <2>7. 2 * n + Len(hs') <= 2 * Len(f)
    BY <2>1, <2>4
  <2>8. pc' # "ccs"
    BY <1>7
  <2> QED BY <2>5, <2>6, <2>7, <2>8 DEF Arrives, Q
<1> QED BY <1>6, <1>7 DEF b

\* The server sends a record.
LEMMA ArrivesSent ==
  ASSUME Shapes, InOrder, Alive, NEW f \in Flights, NEW n \in Nat, Arrives(f, n), SameKeys,
         NEW type \in RecType, NEW body \in SBody,
         type = "handshake" => body \in Seq(Piece),
         type = "data" => body \in Seq(Nat) /\ Len(body) = 1, Sends(type, body), UNCHANGED <<pc, hs>>,
         type = "ccs" => ~peerWriting.on /\ pending = <<>> /\ peerWriting'.on,
         type # "ccs" => peerWriting'.on = peerWriting.on,
         type \in {"alert", "data"} => pending' = pending,
         type = "handshake" => \E m \in DOMAIN pending : body = SubSeq(pending, 1, m)
                                 /\ pending' = SubSeq(pending, m + 1, Len(pending))
  PROVE  Arrives(f, n)'
<1> DEFINE R  == Underway
           r  == Protect(peerWriting, type, body)
           lo == 2 * n + Len(hs)
           on == peerWriting.on
<1>0. peerWriting \in Side /\ hs \in Seq(Piece) /\ pending \in Seq(Piece) /\ on \in BOOLEAN
  BY DEF Shapes, ClientShape, PeerShape, Side
<1>1. R \in Seq(SRec) /\ r \in SRec /\ Underway' = Append(R, r)
  BY <1>0, UnderwaySent DEF Shapes
<1>2. r.type = type /\ r.body = body /\ r.key = peerWriting.key
  BY DEF Protect
<1>3. r.key = "none" <=> ~on
  BY <1>0, <1>2 DEF SameKeys, Keyed
<1>4. lo \in Nat /\ Len(hs) \in Nat
  BY <1>0
<1>5. Left(f, lo, R, on, pending)
  BY DEF Arrives
<1> HIDE DEF R, r, lo, on
<1>6. Left(f, lo, Append(R, r), peerWriting'.on, pending')
  <2>1. CASE type = "ccs"
    <3>1. on = FALSE /\ peerWriting'.on
      BY <1>0, <2>1 DEF on
    <3>2. Left(f, lo, R, FALSE, <<>>)
      BY <1>5, <2>1, <3>1
    <3>3. Left(f, lo, Append(R, r), TRUE, pending')
      BY <1>1, <1>2, <1>4, <2>1, <3>2, LeftFinish
    <3> QED BY <3>1, <3>3 DEF Left
  <2>2. CASE type \in {"alert", "data"} \/ (type = "handshake" /\ on)
    <3>1. ~Carries(r) /\ r.type # "ccs" /\ peerWriting'.on = on
      BY <1>2, <1>3, <2>2 DEF Carries, on
    <3>2. on \/ pending' = pending
      BY <2>2
    <3>3. Left(f, lo, Append(R, r), on, pending')
      BY <1>0, <1>1, <1>4, <1>5, <3>1, <3>2, LeftOther
    <3> QED BY <3>1, <3>3
  <2>3. CASE type = "handshake" /\ ~on
    <3>1. PICK m \in DOMAIN pending : /\ body = SubSeq(pending, 1, m)
                                      /\ pending' = SubSeq(pending, m + 1, Len(pending))
      BY <2>3
    <3>2. m \in 0 .. Len(pending)
      BY <1>0
    <3>3. Carries(r) /\ on = FALSE /\ peerWriting'.on = FALSE
      BY <1>0, <1>2, <1>3, <2>3 DEF Carries, on
    <3>4. Left(f, lo, R, FALSE, pending)
      BY <1>5, <3>3
    <3>5. Left(f, lo, Append(R, r), FALSE, SubSeq(pending, m + 1, Len(pending)))
      BY <1>0, <1>1, <1>2, <1>4, <3>1, <3>2, <3>3, <3>4, LeftEmit
    <3> QED BY <3>1, <3>3, <3>5
  <2> QED BY <2>1, <2>2, <2>3 DEF RecType
<1>7. Left(f, 2 * n + Len(hs'), Underway', peerWriting'.on, pending')
  BY <1>1, <1>6 DEF lo
<1> QED BY <1>7 DEF Arrives

-----------------------------------------------------------------------------
\* The server absorbs the client's next message ...
LEMMA ServerAbsorbs ==
  ASSUME Shapes, Order, CleanWires, NEW f \in Flights, NEW k \in Nat, ServerSaw(f, k), Posted(k),
         PeerHandshake
  PROVE  ServerSaw(f, k + 1)' /\ Posted(k + 1)'
<1> DEFINE C == ClearPart
<1>1. /\ c2s # <<>> /\ c2s' = Tail(c2s) /\ peer \in {"keys", "fin", "open"}
      /\ Incoming.type = "handshake" /\ peerTranscript' = peerTranscript \o Fragment(Incoming)
      /\ peer' = IF peer = "fin" THEN "finish" ELSE peer
      /\ UNCHANGED <<writing, certRequested>> /\ UNCHANGED <<peerWriting, finOver>>
  BY DEF PeerHandshake, PeerTakes, clientVars, cipherVars
<1>2. /\ Incoming = c2s[1] /\ ClientHolds(Incoming) /\ c2s \in Seq(Sent) /\ Len(c2s) \in Nat
      /\ Len(c2s') = Len(c2s) - 1 /\ \A i \in 1 .. Len(c2s) - 1 : c2s'[i] = c2s[i + 1]
      /\ DOMAIN c2s = 1 .. Len(c2s) /\ DOMAIN c2s' = 1 .. Len(c2s) - 1 /\ 1 \in DOMAIN c2s
  BY <1>1, IncomingTypes DEF Shapes, Wires
<1>3. Fragment(Incoming) = Incoming.body
  <2>1. Sound(Incoming) /\ Incoming.body \in Seq(Msg)
    BY <1>1, <1>2, SoundIncoming DEF Shapes, ClientHolds
  <2> QED BY <1>1, <2>1, SoundFragment
<1>4. C' = C /\ Mine' = Mine
  BY <1>1 DEF ClearPart, Mine
<1>5. peer \in {"keys", "fin"}
  BY <1>1, <1>2 DEF Order, IsHandshake
<1>6. ~peerWriting.on /\ peer # "start"
  BY <1>5 DEF Posted
<1>7. k <= Len(Mine) /\ Tells(peerTranscript, f, Len(f), Mine, k)
  BY <1>6 DEF ServerSaw
<1>8. writing.on
  BY <1>1, <1>5 DEF Posted
<1>9. /\ Len(Mine) = Len(C) + 1 /\ Mine \in Seq(Msg) /\ C \in Seq(Msg) /\ Len(C) \in Nat
      /\ \A i \in 1 .. Len(C) : Mine[i] = C[i]
      /\ Mine[Len(C) + 1] = Finished
  BY <1>8, MineIs
<1>10. peerTranscript \in Seq(Msg) /\ Len(f) \in Nat
  BY FlightPieces DEF Shapes, PeerShape
<1> HIDE DEF C
<1>11. ASSUME k < Len(Mine), Incoming.body = <<Mine[k + 1]>> PROVE ServerSaw(f, k + 1)'
  <2>1. Mine[k + 1] \in Msg
    BY <1>9, <1>11
  <2>2. peerTranscript' = peerTranscript \o <<Mine[k + 1]>>
    BY <1>1, <1>3, <1>11
  <2>3. ASSUME NEW m, NEW x \in Msg, x = m[k + 1], Tells(peerTranscript, f, Len(f), m, k)
        PROVE  Tells(peerTranscript \o <<x>>, f, Len(f), m, k + 1)
    BY <1>10, <2>3, TellsMine
  <2>4. Tells(peerTranscript \o <<Mine[k + 1]>>, f, Len(f), Mine, k + 1)
    BY ONLY <1>7, <2>1, <2>3, Zenon
  <2>5. Tells(peerTranscript', f, Len(f), Mine', k + 1)
    BY <1>4, <2>2, <2>4
  <2>6. k + 1 <= Len(Mine')
    BY <1>4, <1>9, <1>11
  <2> QED BY <1>1, <1>6, <2>5, <2>6 DEF ServerSaw
<1>12. CASE peer = "keys"
  <2>1. /\ k <= Len(C) /\ \A j \in k + 1 .. Len(C) : Holding(j - k, C[j])
        /\ Len(C) + 1 - k \in DOMAIN c2s /\ c2s[Len(C) + 1 - k].type = "ccs"
        /\ Holding(Len(C) + 2 - k, Finished)
    BY <1>8, <1>12 DEF Posted, C
  <2>2. k # Len(C)
    <3>1. ASSUME k = Len(C) PROVE FALSE
      <4>1. Len(C) + 1 - k = 1
        BY <1>9, <3>1
      <4> QED BY <1>1, <1>2, <2>1, <4>1
    <3> QED BY <3>1
  <2>3. k + 1 \in k + 1 .. Len(C) /\ (k + 1) - k = 1 /\ k < Len(Mine) /\ k + 1 \in 1 .. Len(C)
    BY <1>9, <2>1, <2>2
  <2>4. Holding(1, C[k + 1])
    BY <2>1, <2>3
  <2>5. Incoming.body = <<Mine[k + 1]>>
    BY <1>2, <1>9, <2>3, <2>4 DEF Holding
  <2>6. ServerSaw(f, k + 1)'
    BY <1>11, <2>3, <2>5
  <2>7. ASSUME NEW j \in (k + 1) + 1 .. Len(C) PROVE Holding(j - (k + 1), C[j])'
    <3>1. j \in k + 1 .. Len(C) /\ (j - (k + 1)) + 1 = j - k /\ j - (k + 1) >= 1
      BY <1>9
    <3>2. Holding(j - k, C[j])
      BY <2>1, <3>1
    <3>3. j - (k + 1) \in 1 .. Len(c2s) - 1
      BY <1>2, <1>9, <3>1, <3>2 DEF Holding
    <3>4. c2s'[j - (k + 1)] = c2s[j - k]
      BY <1>2, <3>1, <3>3
    <3> QED BY <1>2, <1>4, <3>2, <3>3, <3>4 DEF Holding
  <2>8. Len(C) + 1 - (k + 1) \in DOMAIN c2s' /\ c2s'[Len(C) + 1 - (k + 1)].type = "ccs"
    <3>1. (Len(C) + 1 - (k + 1)) + 1 = Len(C) + 1 - k /\ Len(C) + 1 - (k + 1) >= 1
      BY <1>9, <2>1, <2>3
    <3>2. Len(C) + 1 - (k + 1) \in 1 .. Len(c2s) - 1
      BY <1>2, <1>9, <2>1, <3>1
    <3> QED BY <1>2, <2>1, <3>1, <3>2
  <2>9. Holding(Len(C) + 2 - (k + 1), Finished)'
    <3>1. (Len(C) + 2 - (k + 1)) + 1 = Len(C) + 2 - k /\ Len(C) + 2 - (k + 1) >= 1
      BY <1>9, <2>1, <2>3
    <3>2. Len(C) + 2 - k \in 1 .. Len(c2s)
      BY <1>2, <2>1 DEF Holding
    <3>3. Len(C) + 2 - (k + 1) \in 1 .. Len(c2s) - 1
      BY <1>2, <1>9, <3>1, <3>2
    <3>4. c2s'[Len(C) + 2 - (k + 1)] = c2s[Len(C) + 2 - k]
      BY <1>2, <3>1, <3>3
    <3> QED BY <1>2, <1>4, <2>1, <3>3, <3>4 DEF Holding
  <2>10. k + 1 <= Len(C') /\ peer' = "keys"
    BY <1>1, <1>4, <1>12, <2>3
  <2>11. Posted(k + 1)'
    BY <1>1, <1>4, <1>6, <1>8, <2>7, <2>8, <2>9, <2>10 DEF Posted, C
  <2> QED BY <2>6, <2>11
<1>13. CASE peer = "fin"
  <2>1. k = Len(C) /\ Holding(1, Finished)
    BY <1>13 DEF Posted, C
  <2>2. k < Len(Mine) /\ Incoming.body = <<Mine[k + 1]>>
    BY <1>2, <1>9, <2>1 DEF Holding
  <2>3. peer' = "finish" /\ k + 1 = Len(C') + 1
    BY <1>1, <1>4, <1>13, <2>1
  <2>4. Posted(k + 1)'
    BY <1>1, <1>6, <1>8, <2>3 DEF Posted, C
  <2> QED BY <1>11, <2>2, <2>4
<1> QED BY <1>5, <1>12, <1>13

\* ... and takes its ChangeCipherSpec after the last one in the clear.
LEMMA ServerOpens ==
  ASSUME Shapes, NEW f, NEW k \in Nat, ServerSaw(f, k), Posted(k), PeerChangeCipherSpec
  PROVE  ServerSaw(f, k)' /\ Posted(k)'
<1> DEFINE C == ClearPart
<1>1. /\ c2s # <<>> /\ c2s' = Tail(c2s) /\ peer = "keys" /\ peer' = "fin" /\ Incoming.type = "ccs"
      /\ UNCHANGED <<writing, certRequested>> /\ UNCHANGED <<peerWriting, finOver, peerTranscript>>
  BY DEF PeerChangeCipherSpec, PeerTakes, clientVars, cipherVars
<1>2. /\ Incoming = c2s[1] /\ Len(c2s) \in Nat
      /\ \A i \in 1 .. Len(c2s) - 1 : c2s'[i] = c2s[i + 1]
      /\ DOMAIN c2s = 1 .. Len(c2s) /\ DOMAIN c2s' = 1 .. Len(c2s) - 1
  BY <1>1, IncomingTypes DEF Shapes, Wires
<1>3. ServerSaw(f, k)'
  BY <1>1, ServerSawKept
<1>4. C' = C /\ C \in Seq(Msg) /\ Len(C) \in Nat
  BY <1>1, MineIs DEF ClearPart
<1>5. writing.on /\ ~peerWriting.on
  BY <1>1 DEF Posted
<1>6. /\ k <= Len(C) /\ \A j \in k + 1 .. Len(C) : Holding(j - k, C[j])
      /\ Holding(Len(C) + 2 - k, Finished)
  BY <1>1, <1>5 DEF Posted
<1> HIDE DEF C
<1>7. k = Len(C)
  <2>1. ASSUME k # Len(C) PROVE FALSE
    <3>1. k + 1 \in k + 1 .. Len(C) /\ (k + 1) - k = 1
      BY <1>4, <1>6, <2>1
    <3>2. Holding(1, C[k + 1])
      BY <1>6, <3>1
    <3> QED BY <1>1, <1>2, <3>2 DEF Holding
  <2> QED BY <2>1
<1>8. Len(C) + 2 - k = 2
  BY <1>4, <1>7
<1>9. Holding(1, Finished)'
  <2>1. 2 \in 1 .. Len(c2s) /\ c2s[2].type = "handshake" /\ c2s[2].body = <<Finished>>
    BY <1>2, <1>6, <1>8 DEF Holding
  <2>2. 1 \in 1 .. Len(c2s) - 1 /\ c2s'[1] = c2s[2]
    BY <1>2, <2>1
  <2> QED BY <1>2, <2>1, <2>2 DEF Holding
<1>10. Posted(k)'
  BY <1>1, <1>4, <1>5, <1>7, <1>9 DEF Posted, C
<1> QED BY <1>3, <1>10

-----------------------------------------------------------------------------
\* The message next_handshake() returns is the next of the flight.
LEMMA NextOfFlight ==
  ASSUME Shapes, CleanText, NEW f \in Flights, NEW n \in Nat, Arrives(f, n), HasMessage,
         hs' = SubSeq(hs, 3, Len(hs))
  PROVE  /\ n < Len(f) /\ Parsed = Message(f[n + 1]) /\ Len(hs) = Len(hs') + 2 /\ Len(hs') \in Nat
         /\ 2 * (n + 1) + Len(hs') = 2 * n + Len(hs) /\ 2 * (n + 1) + Len(hs') <= 2 * Len(f)
         /\ \A i \in 1 .. Len(hs') : hs'[i] = Pieces(f)[2 * (n + 1) + i]
<1> DEFINE Q == Pieces(f)
<1>1. hs \in Seq(Piece) /\ Len(hs) >= 2 /\ Len(hs) \in Nat
  BY DEF Shapes, ClientShape, HasMessage
<1>2. Len(hs') = Len(hs) - 2 /\ \A i \in 1 .. Len(hs) - 2 : hs'[i] = hs[2 + i]
  BY <1>1, DropTwo
<1>3. Parsed = Message(hs[1].ht)
  BY <1>1, CleanParsed DEF CleanText
<1>4. Len(f) \in Nat /\ \A c \in 1 .. Len(f) : Q[2 * c - 1].ht = f[c]
  BY FlightPieces
<1>5. 2 * n + Len(hs) <= 2 * Len(f) /\ \A i \in 1 .. Len(hs) : hs[i] = Q[2 * n + i]
  BY DEF Arrives
<1> HIDE DEF Q
<1>6. n < Len(f) /\ n + 1 \in 1 .. Len(f) /\ 2 * (n + 1) - 1 = 2 * n + 1 /\ 1 \in 1 .. Len(hs)
  BY <1>1, <1>4, <1>5
<1>7. hs[1].ht = f[n + 1]
  BY <1>4, <1>5, <1>6
<1>8. /\ Len(hs) = Len(hs') + 2 /\ Len(hs') \in Nat /\ 2 * (n + 1) + Len(hs') = 2 * n + Len(hs)
      /\ 2 * (n + 1) + Len(hs') <= 2 * Len(f)
  <2>1. Len(hs') = Len(hs) - 2 /\ n \in Nat
    BY <1>2
  <2>2. Len(hs) = Len(hs') + 2 /\ Len(hs') \in Nat
    BY ONLY <1>1, <2>1
  <2>3. ASSUME NEW a \in Nat, NEW b \in Nat, a = b + 2 PROVE 2 * (n + 1) + b = 2 * n + a
    BY ONLY <2>1, <2>3
  <2>4. 2 * (n + 1) + Len(hs') = 2 * n + Len(hs)
    BY ONLY <1>1, <2>2, <2>3
  <2>5. 2 * n + Len(hs) <= 2 * Len(f)
    BY <1>5
  <2> QED BY ONLY <2>2, <2>4, <2>5
<1>9. ASSUME NEW i \in 1 .. Len(hs') PROVE hs'[i] = Q[2 * (n + 1) + i]
  <2>1. i \in 1 .. Len(hs) - 2 /\ 2 + i \in 1 .. Len(hs) /\ 2 * n + (2 + i) = 2 * (n + 1) + i
    BY <1>1, <1>2
  <2>2. hs[2 + i] = Q[2 * n + (2 + i)]
    BY <1>5, <2>1
  <2> QED BY <1>2, <2>1, <2>2
<1> QED BY <1>3, <1>6, <1>7, <1>8, <1>9 DEF Q

\* The client absorbs it: a message of the hello phase ...
LEMMA ClientAbsorbs ==
  ASSUME Shapes, CleanText, Progress, NEW f \in Flights, NEW n \in Nat, NEW k \in Nat, Met(f, n, k),
         TakeHello
  PROVE  Met(f, n + 1, k)'
<1>1. /\ HasMessage /\ hs' = SubSeq(hs, 3, Len(hs)) /\ transcript' = Append(transcript, Parsed)
      /\ UNCHANGED <<rx, s2c, c2s>> /\ UNCHANGED <<reading, writing>> /\ UNCHANGED peerVars
      /\ pc \in {"hello", "cert", "done"} /\ pc' \in {"cert", "done"}
  BY DEF TakeHello, NextHandshake, Absorb, cipherVars
<1>2. UNCHANGED <<peer, pending, peerTranscript, peerWriting, finOver>>
  BY <1>1 DEF peerVars
<1>3. ~writing.on /\ ~writing'.on
  BY <1>1 DEF Progress
<1>4. Mine = <<>> /\ Mine' = <<>> /\ Len(Mine) = 0 /\ Len(Mine') = 0
  BY <1>3 DEF Mine
<1>5. /\ n < Len(f) /\ Parsed = Message(f[n + 1]) /\ 2 * (n + 1) + Len(hs') = 2 * n + Len(hs)
      /\ 2 * (n + 1) + Len(hs') <= 2 * Len(f)
      /\ \A i \in 1 .. Len(hs') : hs'[i] = Pieces(f)[2 * (n + 1) + i]
  BY <1>1, NextOfFlight DEF Met
<1>6. transcript \in Seq(Msg) /\ f \in Seq(Types) /\ Len(f) \in Nat
  BY FlightPieces DEF Shapes, ClientShape
<1>7. ClientSaw(f, n + 1)'
  <2>1. Tells(transcript, f, n, Mine, 0)
    BY <1>4 DEF Met, ClientSaw
  <2>2. Tells(Append(transcript, Message(f[n + 1])), f, n + 1, Mine', 0)
    BY <1>5, <1>6, <2>1, TellsFlight
  <2>3. Tells(transcript', f, n + 1, Mine', Len(Mine'))
    BY <1>1, <1>4, <1>5, <2>2
  <2>4. n + 1 <= Len(f)
    BY <1>5, <1>6
  <2> QED BY <2>3, <2>4 DEF ClientSaw
<1>8. ServerSaw(f, k)'
  <2>1. ~peerWriting.on /\ k <= Len(Mine) /\ Tells(peerTranscript, f, Len(f), Mine, k)
    BY <1>3 DEF Met, ServerSaw
  <2>2. k <= Len(Mine') /\ Tells(peerTranscript', f, Len(f), Mine', k)
    BY <1>2, <1>4, <2>1
  <2> QED BY <1>2, <2>1, <2>2 DEF ServerSaw
<1>9. Posted(k)'
  <2>1. peer # "start" /\ (peer \in {"keys", "fin", "finish"} => ~peerWriting.on)
        /\ (peer = "keys" => c2s = <<>>) /\ peer # "fin" /\ peer # "finish"
    BY <1>3 DEF Met, Posted
  <2> QED BY <1>1, <1>2, <1>3, <2>1 DEF Posted
<1>10. Arrives(f, n + 1)'
  <2>1. Underway' = Underway
    BY <1>1 DEF Underway, Stream0
  <2>2. Left(f, 2 * n + Len(hs), Underway, peerWriting.on, pending)
    BY DEF Met, Arrives
  <2>3. Left(f, 2 * (n + 1) + Len(hs'), Underway', peerWriting'.on, pending')
    BY <1>2, <1>5, <2>1, <2>2
  <2>4. pc' # "ccs"
    BY <1>1
  <2> QED BY <1>5, <2>3, <2>4 DEF Arrives
<1> QED BY <1>7, <1>8, <1>9, <1>10 DEF Met

\* ... or the ServerHelloDone, after which it sends its own.
LEMMA ClientAnswers ==
  ASSUME Shapes, CleanText, Progress, NEW f \in Flights, NEW n \in Nat, NEW k \in Nat, Met(f, n, k),
         SendFlight, pc' = "ccs"
  PROVE  Met(f, n + 1, k)'
<1> DEFINE C == ClearPart
<1>1. /\ pc = "done" /\ HasMessage /\ hs' = SubSeq(hs, 3, Len(hs)) /\ c2s' = c2s \o FlightRecords
      /\ transcript' = Append(transcript, Parsed) \o C \o <<Finished>>
      /\ writing' = Advance(Opened, <<Finished>>)
  BY FlightEffect DEF Shapes
<1>2. /\ UNCHANGED <<rx, s2c, certRequested>> /\ UNCHANGED peerVars /\ hs' = <<>>
  BY DEF SendFlight, Fail
<1>3. UNCHANGED <<peer, pending, peerTranscript, peerWriting, finOver>>
  BY <1>2 DEF peerVars
<1>4. ~writing.on /\ writing \in Side
  BY <1>1 DEF Progress, Shapes, ClientShape
<1>5. writing'.on
  <2>1. Opened \in Side /\ Opened.on
    BY <1>4, OpenedTypes
  <2>2. <<Finished>> \in SBody \cup CBody
    BY MessageTypes DEF CBody
  <2> QED BY <1>1, <2>1, <2>2, SideTypes
<1>6. Mine = <<>> /\ Len(Mine) = 0
  BY <1>4 DEF Mine
<1>7. C' = C
  BY <1>2 DEF ClearPart
<1>8. /\ C \in Seq(Msg) /\ Len(C) \in Nat /\ Finished \in Msg
  BY MineIs, MessageTypes
<1>9. Mine' = C \o <<Finished>>
  BY <1>5, <1>7 DEF Mine
<1> HIDE DEF C
<1>10. /\ Len(Mine') = Len(C) + 1 /\ \A i \in 1 .. Len(C) : Mine'[i] = C[i]
       /\ Mine'[Len(C) + 1] = Finished
  <2>1. ASSUME NEW c \in Seq(Msg), NEW x \in Msg
        PROVE  /\ Len(c \o <<x>>) = Len(c) + 1 /\ \A i \in 1 .. Len(c) : (c \o <<x>>)[i] = c[i]
               /\ (c \o <<x>>)[Len(c) + 1] = x
    BY ONLY <2>1
  <2>2. /\ Len(C \o <<Finished>>) = Len(C) + 1 /\ \A i \in 1 .. Len(C) : (C \o <<Finished>>)[i] = C[i]
        /\ (C \o <<Finished>>)[Len(C) + 1] = Finished
    BY ONLY <1>8, <2>1, Zenon
  <2> QED BY <1>9, <2>2
<1>11. /\ n < Len(f) /\ Parsed = Message(f[n + 1]) /\ 2 * (n + 1) + Len(hs') = 2 * n + Len(hs)
       /\ 2 * (n + 1) + Len(hs') <= 2 * Len(f)
       /\ \A i \in 1 .. Len(hs') : hs'[i] = Pieces(f)[2 * (n + 1) + i]
  BY <1>1, NextOfFlight DEF Met
<1>12. transcript \in Seq(Msg) /\ f \in Seq(Types) /\ Len(f) \in Nat
  BY FlightPieces DEF Shapes, ClientShape
<1>13. ClientSaw(f, n + 1)'
  <2>1. Tells(transcript, f, n, Mine, 0)
    BY <1>6 DEF Met, ClientSaw
  <2>2. Tells(Append(transcript, Message(f[n + 1])), f, n + 1, Mine, 0)
    BY <1>11, <1>12, <2>1, TellsFlight
  <2>3. Append(transcript, Message(f[n + 1])) \in Seq(Msg) /\ n + 1 \in Nat /\ Len(C) + 1 \in Nat
    BY <1>8, <1>11, <1>12, MessageTypes
  <2>4. ASSUME NEW t \in Seq(Msg), Tells(t, f, n + 1, Mine, 0), NEW c \in Seq(Msg), NEW x \in Msg, NEW m,
               NEW l \in Nat, l = Len(c) + 1, \A i \in 1 .. Len(c) : m[i] = c[i], m[Len(c) + 1] = x
        PROVE  Tells(t \o c \o <<x>>, f, n + 1, m, l)
    BY <2>3, <2>4, TellsAll
  <2>5. Tells(Append(transcript, Message(f[n + 1])) \o C \o <<Finished>>, f, n + 1, Mine', Len(C) + 1)
    BY ONLY <1>8, <1>10, <2>2, <2>3, <2>4, Zenon
  <2>6. Tells(transcript', f, n + 1, Mine', Len(Mine'))
    BY <1>1, <1>10, <1>11, <2>5
  <2>7. n + 1 <= Len(f)
    BY <1>11, <1>12
  <2> QED BY <2>6, <2>7 DEF ClientSaw
<1>14. ServerSaw(f, k)' /\ k = 0
  <2>1. ~peerWriting.on /\ k <= Len(Mine) /\ Tells(peerTranscript, f, Len(f), Mine, k)
    BY <1>4 DEF Met, ServerSaw
  <2>2. k = 0 /\ 0 <= Len(Mine')
    BY <1>6, <1>8, <1>10, <2>1
  <2>3. Tells(peerTranscript', f, Len(f), Mine', 0)
    BY <1>3, <2>1, <2>2 DEF Tells
  <2> QED BY <1>3, <2>1, <2>2, <2>3 DEF ServerSaw
<1>15. Posted(k)'
  <2>1. peer # "start" /\ (peer \in {"keys", "fin", "finish"} => ~peerWriting.on)
        /\ (peer = "keys" => c2s = <<>>) /\ peer # "fin" /\ peer # "finish"
    BY <1>4 DEF Met, Posted
  <2>2. /\ FlightRecords \in Seq(Sent) /\ Len(FlightRecords) = Len(C) + 2
        /\ \A i \in 1 .. Len(C) : FlightRecords[i] = Protect(writing, "handshake", <<C[i]>>)
        /\ FlightRecords[Len(C) + 1] = Protect(writing, "ccs", <<1>>)
        /\ FlightRecords[Len(C) + 2] = Protect(Opened, "handshake", <<Finished>>)
    BY <1>4, FlightTypes DEF C
  <2>3. CASE peer = "keys"
    <3>1. c2s' = FlightRecords
      <4>1. ASSUME NEW r \in Seq(Sent) PROVE <<>> \o r = r
        BY <4>1, ConcatEmptySeq
      <4>2. c2s' = <<>> \o FlightRecords
        BY <1>1, <2>1, <2>3
      <4> QED BY <2>2, <4>1, <4>2
    <3>2. DOMAIN c2s' = 1 .. Len(C) + 2
      BY <2>2, <3>1
    <3>3. \A w, b : /\ Protect(w, "handshake", b).type = "handshake" /\ Protect(w, "handshake", b).body = b
                    /\ Protect(w, "ccs", b).type = "ccs"
      BY DEF Protect
    <3>4. ASSUME NEW j \in 0 + 1 .. Len(C) PROVE Holding(j - 0, C[j])'
      <4>1. j \in 1 .. Len(C) /\ j - 0 = j /\ j \in 1 .. Len(C) + 2
        BY <1>8
      <4>2. c2s'[j] = Protect(writing, "handshake", <<C[j]>>)
        BY <2>2, <3>1, <4>1
      <4>3. c2s'[j].type = "handshake" /\ c2s'[j].body = <<C[j]>>
        BY ONLY <3>3, <4>2
      <4> QED BY <1>7, <3>2, <4>1, <4>3 DEF Holding
    <3>5. Len(C) + 1 - 0 \in DOMAIN c2s' /\ c2s'[Len(C) + 1 - 0].type = "ccs"
      <4>1. Len(C) + 1 - 0 = Len(C) + 1 /\ Len(C) + 1 \in 1 .. Len(C) + 2
        BY <1>8
      <4> QED BY <2>2, <3>1, <3>2, <3>3, <4>1
    <3>6. Holding(Len(C) + 2 - 0, Finished)'
      <4>1. Len(C) + 2 - 0 = Len(C) + 2 /\ Len(C) + 2 \in 1 .. Len(C) + 2
        BY <1>8
      <4> QED BY <1>7, <2>2, <3>1, <3>2, <3>3, <4>1 DEF Holding
    <3>7. 0 <= Len(C') /\ peer' = "keys" /\ ~peerWriting'.on
      BY <1>3, <1>7, <1>8, <2>1, <2>3
    <3>8. Posted(0)'
      BY <1>5, <1>7, <3>4, <3>5, <3>6, <3>7 DEF Posted, C
    <3> QED BY <1>14, <3>8
  <2>4. CASE peer # "keys"
    BY <1>3, <2>1, <2>4 DEF Posted
  <2> QED BY <2>3, <2>4
<1>16. Arrives(f, n + 1)'
  <2>1. Underway' = Underway
    BY <1>2 DEF Underway, Stream0
  <2>2. Left(f, 2 * n + Len(hs), Underway, peerWriting.on, pending)
    BY DEF Met, Arrives
  <2>3. Left(f, 2 * (n + 1) + Len(hs'), Underway', peerWriting'.on, pending')
    BY <1>3, <1>11, <2>1, <2>2
  <2> QED BY <1>2, <1>11, <2>3 DEF Arrives
<1> QED BY <1>13, <1>14, <1>15, <1>16 DEF Met

\* When the client takes the server's ChangeCipherSpec all of the flight is absorbed.
LEMMA ChangeAgrees ==
  ASSUME Shapes, InOrder, NEW f \in Flights, NEW n \in Nat, NEW k \in Nat, Met(f, n, k),
         TakeChangeCipherSpec
  PROVE  finOver = transcript
<1> DEFINE R  == Underway
           lo == 2 * n + Len(hs)
<1>1. /\ pc = "ccs" /\ Len(rx) >= 2 /\ rx' = SubSeq(rx, 3, Len(rx)) /\ s2c' = s2c /\ Record.type = "ccs"
  BY DEF TakeChangeCipherSpec, Accept, Ready
<1>2. Alive
  BY <1>1 DEF Alive
<1>3. R \in Seq(SRec) /\ R # <<>> /\ R[1] = Record
  BY <1>1, <1>2, UnderwayTaken DEF Shapes
<1>4. /\ pending \in Seq(Piece) /\ peerWriting.on \in BOOLEAN /\ transcript \in Seq(Msg) /\ finOver \in Seq(Msg)
      /\ Len(f) \in Nat /\ Len(Pieces(f)) = 2 * Len(f)
  BY FlightPieces DEF Shapes, ClientShape, PeerShape, Side
<1>5. Left(f, lo, R, peerWriting.on, pending) /\ hs = <<>>
  BY <1>1 DEF Met, Arrives
<1>6. lo = 2 * n /\ lo \in Nat
  BY <1>5
<1> HIDE DEF R, lo
<1>7. peerWriting.on /\ \E low \in Nat : Holds(Pieces(f), R[1], lo, low)
  BY <1>1, <1>3, <1>4, <1>5, <1>6, LeftTail
<1>8. lo = 2 * Len(f)
  BY <1>1, <1>3, <1>4, <1>7 DEF Holds, Carries
<1>9. n = Len(f)
  BY <1>4, <1>6, <1>8
<1>10. Tells(transcript, f, n, Mine, Len(Mine))
  BY DEF Met, ClientSaw
<1>11. Tells(finOver, f, n, Mine, Len(Mine))
  BY <1>7, <1>9 DEF Met, ServerSaw
<1>12. Len(Mine) \in Nat
  BY MineIs
<1> QED BY <1>4, <1>10, <1>11, <1>12, TellsSame

\* The server answers the ClientHello.
LEMMA Greets ==
  ASSUME Shapes, Progress, CleanWires, Unmet, pc = "hello", NEW f \in Flights, PeerHello(f)
  PROVE  Met(f, 0, 0)' /\ peerTranscript' # <<>>
<1>1. /\ peer = "start" /\ c2s # <<>> /\ c2s' = Tail(c2s) /\ peer' = "keys" /\ pending' = Pieces(f)
      /\ peerTranscript' = Fragment(Head(c2s)) \o [i \in DOMAIN f |-> Message(f[i])]
      /\ UNCHANGED <<pc, hs, transcript, certRequested, writing>> /\ UNCHANGED <<rx, s2c, peerWriting>>
  BY DEF PeerHello, clientVars, cipherVars
<1>2. /\ Stream0 = <<>> /\ hs = <<>> /\ ~peerWriting.on /\ Len(transcript) = 1 /\ transcript[1] = ClientHello
      /\ Len(c2s) = 1 /\ c2s[1].type = "handshake" /\ c2s[1].body = <<ClientHello>>
  BY <1>1 DEF Unmet, Holding
<1>3. Incoming = c2s[1] /\ Head(c2s) = c2s[1] /\ Tail(c2s) \in Seq(Sent) /\ Len(Tail(c2s)) = 0
  BY <1>1, <1>2, IncomingTypes DEF Shapes
<1>4. Fragment(c2s[1]) = <<ClientHello>>
  <2>1. Sound(c2s[1]) /\ <<ClientHello>> \in Seq(Msg)
    BY <1>1, <1>3, SoundIncoming, MessageTypes DEF Shapes
  <2> QED BY <1>2, <2>1, SoundFragment
<1>5. ~writing.on /\ ~writing'.on
  BY <1>1 DEF Progress
<1>6. Mine' = <<>> /\ Len(Mine') = 0
  BY <1>5 DEF Mine
<1>7. peerTranscript' # <<>> /\ Tells(peerTranscript', f, Len(f), Mine', 0)
  BY <1>1, <1>3, <1>4, TellsHello
<1>8. Len(f) \in Nat /\ Pieces(f) \in Seq(Piece) /\ Len(Pieces(f)) = 2 * Len(f)
  BY FlightPieces
<1>9. ClientSaw(f, 0)'
  <2>1. Tells(transcript', f, 0, Mine', 0)
    BY <1>1, <1>2 DEF Tells
  <2> QED BY <1>6, <1>8, <2>1 DEF ClientSaw
<1>10. ServerSaw(f, 0)'
  BY <1>1, <1>2, <1>6, <1>7 DEF ServerSaw
<1>11. c2s' = <<>>
  BY <1>1, <1>3
<1>12. Posted(0)'
  BY <1>1, <1>2, <1>5, <1>11 DEF Posted
<1>13. Arrives(f, 0)'
  <2>1. Underway' = <<>>
    <3>1. Stream0' = <<>>
      BY <1>1, <1>2 DEF Stream0
    <3>2. Len(<<>>) \div 2 = 0
      OBVIOUS
    <3>3. Bodies(<<>>) = <<>>
      BY <3>2 DEF Bodies
    <3>4. Underway' = Bodies(Stream0')
      BY DEF Underway
    <3> QED BY <3>1, <3>3, <3>4
  <2>2. Flow(Pieces(f), <<>>, 0, 0)
    BY FlowNone
  <2>3. Len(<<>>) = 0 /\ 2 * 0 + Len(<<>>) = 0 /\ 2 * Len(f) - Len(Pieces(f)) = 0 /\ 2 * Len(f) \in Nat
    BY <1>8
  <2>4. \A i \in 1 .. Len(Pieces(f)) : 2 * Len(f) - Len(Pieces(f)) + i = i
    BY <1>8
  <2>5. Left(f, 0, <<>>, FALSE, Pieces(f))
    BY <1>8, <2>2, <2>3, <2>4 DEF Left
  <2>6. hs' = <<>> /\ pc' # "ccs" /\ peerWriting'.on = FALSE
    BY <1>1, <1>2 DEF Shapes, PeerShape, Side
  <2>7. Left(f, 2 * 0 + Len(hs'), Underway', peerWriting'.on, pending')
    BY <1>1, <2>1, <2>3, <2>5, <2>6
  <2>8. 2 * 0 + Len(hs') <= 2 * Len(f) /\ \A i \in 1 .. Len(hs') : hs'[i] = Pieces(f)[2 * 0 + i]
    BY <2>3, <2>6
  <2> QED BY <2>6, <2>7, <2>8 DEF Arrives
<1> QED BY <1>7, <1>9, <1>10, <1>12, <1>13 DEF Met

\* A record of the server's joins those on their way.
LEMMA SentKeepsAccount ==
  ASSUME Shapes, InOrder, SameKeys, NEW f \in Flights, NEW n \in Nat, NEW k \in Nat, Met(f, n, k),
         Emission, UNCHANGED clientVars, c2s' = c2s \/ peer' = "gone",
         peer' = peer \/ peer' = "gone" \/ PeerFinish,
         PeerFinish \/ UNCHANGED <<peerTranscript, finOver>>
  PROVE  Met(f, n, k)'
<1>1. PICK type \in RecType, body \in SBody :
        /\ Alive /\ pc' = pc /\ Sends(type, body)
        /\ type = "handshake" =>
             /\ body \in Seq(Piece)
             /\ \E m \in DOMAIN pending : PeerEmit(m) /\ body = SubSeq(pending, 1, m)
        /\ type = "data" => body \in Seq(Nat) /\ Len(body) = 1
        /\ type = "ccs" => PeerFinish /\ peerWriting' = Enable(PeerKey, Advance(peerWriting, body))
        /\ type # "ccs" => peerWriting' = Advance(peerWriting, body) /\ finOver' = finOver
        /\ type \notin {"handshake", "ccs"} => pending' = pending
        /\ Len(body) \in Nat
  BY DEF Emission
<1>2. UNCHANGED <<pc, hs, transcript, certRequested, writing>>
  BY DEF clientVars, cipherVars
<1>3. peerWriting \in Side /\ peerTranscript \in Seq(Msg)
  BY DEF Shapes, PeerShape
<1>4. type # "ccs" => peerWriting'.on = peerWriting.on
  BY <1>1, <1>3, SideTypes
<1>5. type = "ccs" => peerWriting'.on
  <2>1. Advance(peerWriting, body) \in Side /\ PeerKey \in Keys
    BY <1>3, SideTypes, KeyTypes
  <2>2. Enable(PeerKey, Advance(peerWriting, body)).on
    BY <2>1, EnableTypes
  <2> QED BY <1>1, <2>2
<1>6. type = "ccs" => peer = "finish" /\ pending = <<>> /\ peer' = "open" /\ finOver' = peerTranscript
  BY <1>1 DEF PeerFinish
<1>7. type = "ccs" => ~peerWriting.on /\ writing.on /\ k = Len(ClearPart) + 1
  BY <1>6 DEF Met, Posted
<1>8. type = "handshake" => \E m \in DOMAIN pending : body = SubSeq(pending, 1, m)
                              /\ pending' = SubSeq(pending, m + 1, Len(pending))
  BY <1>1 DEF PeerEmit
<1>9. Arrives(f, n)'
  BY <1>1, <1>2, <1>4, <1>5, <1>6, <1>7, <1>8, ArrivesSent DEF Met
<1>10. ClientSaw(f, n)'
  BY <1>2, ClientSawKept DEF Met
<1>11. CASE type = "ccs"
  <2>1. Mine' = Mine /\ Len(Mine) = k
    BY <1>2, <1>7, <1>11, MineIs DEF Mine, ClearPart
  <2>2. Tells(peerTranscript, f, Len(f), Mine, k)
    BY <1>7, <1>11 DEF Met, ServerSaw
  <2>3. Tells(finOver', f, Len(f), Mine', Len(Mine')) /\ writing'.on /\ peerWriting'.on
    BY <1>2, <1>5, <1>6, <1>7, <1>11, <2>1, <2>2
  <2>4. ServerSaw(f, k)'
    BY <2>3 DEF ServerSaw
  <2>5. Posted(k)'
    BY <1>6, <1>11 DEF Posted
  <2> QED BY <1>9, <1>10, <2>4, <2>5 DEF Met
<1>12. CASE type # "ccs"
  <2>1. ~PeerFinish
    <3>1. PeerFinish => finOver' = peerTranscript /\ peerTranscript' = Append(peerTranscript, Finished)
          /\ s2c' = s2c \o Cells(Protect(peerWriting, "ccs", <<1>>))
      BY DEF PeerFinish
    <3>2. s2c' = s2c \o Cells(Protect(peerWriting, type, body))
      BY <1>1 DEF Sends
    <3>3. ASSUME PeerFinish PROVE FALSE
      <4>1. s2c \in Seq(Cell)
        BY DEF Shapes, Wires
      <4>2. s2c'[Len(s2c) + 2] = [head |-> FALSE, rec |-> Protect(peerWriting, type, body)]
        BY <1>1, <1>3, <3>2, <4>1, RecordSent
      <4>3. <<1>> \in SBody /\ "ccs" \in RecType
        BY ServerBodies
      <4>4. s2c'[Len(s2c) + 2] = [head |-> FALSE, rec |-> Protect(peerWriting, "ccs", <<1>>)]
        BY <1>3, <3>1, <3>3, <4>1, <4>3, RecordSent
      <4>5. Protect(peerWriting, type, body).type = type /\ Protect(peerWriting, "ccs", <<1>>).type = "ccs"
        BY DEF Protect
      <4>6. s2c'[Len(s2c) + 2].rec = Protect(peerWriting, type, body)
            /\ s2c'[Len(s2c) + 2].rec = Protect(peerWriting, "ccs", <<1>>)
        BY ONLY <4>2, <4>4
      <4> QED BY ONLY <1>12, <4>5, <4>6
    <3> QED BY <3>3
  <2>2. ServerSaw(f, k)'
    BY <1>2, <1>4, <1>12, <2>1, ServerSawKept DEF Met
  <2>3. Posted(k)'
    <3>1. CASE peer' = "gone"
      BY <3>1 DEF Posted
    <3>2. CASE peer' # "gone"
      BY <1>2, <1>4, <1>12, <2>1, <3>2, PostedKept DEF Met
    <3> QED BY <3>1, <3>2
  <2> QED BY <1>9, <1>10, <2>2, <2>3 DEF Met
<1> QED BY <1>11, <1>12

-----------------------------------------------------------------------------
\* The server's transcript only grows.
LEMMA ServerRemembers ==
  ASSUME Shapes, Order, [Next]_vars, peerTranscript # <<>> \/ \E f \in Flights : PeerHello(f)
  PROVE  peerTranscript' # <<>>
<1>0. peerTranscript \in Seq(Msg)
  BY DEF Shapes, PeerShape
<1>1. ASSUME NEW f \in Flights, PeerHello(f) PROVE peerTranscript' # <<>>
  <2> DEFINE g == [i \in DOMAIN f |-> Message(f[i])]
             h == Fragment(c2s[1])
  <2>1. /\ peer = "start" /\ c2s # <<>> /\ peerTranscript' = Fragment(Head(c2s)) \o g
    BY <1>1 DEF PeerHello
  <2>2. Head(c2s) = c2s[1] /\ Incoming = c2s[1] /\ ClientHolds(Incoming)
    BY <2>1, IncomingTypes DEF Shapes
  <2>3. c2s[1].type = "handshake"
    BY <2>1 DEF Order, IsHandshake
  <2>4. c2s[1].body \in Seq(Msg) /\ Len(c2s[1].body) = 1
    BY <2>2, <2>3 DEF ClientHolds
  <2>5. h \in Seq(Msg) /\ Len(h) = 1
    BY <2>3, <2>4, FragmentTypes
  <2>6. g \in Seq(Msg)
    BY FlightMessages
  <2> HIDE DEF g, h
  <2>7. ASSUME NEW x \in Seq(Msg), NEW y \in Seq(Msg), Len(x) = 1 PROVE x \o y # <<>>
    BY ONLY <2>7
  <2>8. h \o g # <<>>
    BY ONLY <2>5, <2>6, <2>7, Zenon
  <2> QED BY <2>1, <2>2, <2>8 DEF h
<1>2. ASSUME peerTranscript # <<>>, PeerHandshake PROVE peerTranscript' # <<>>
  <2> DEFINE h == Fragment(Incoming)
  <2>1. c2s # <<>> /\ Incoming.type = "handshake" /\ peerTranscript' = peerTranscript \o h
    BY <1>2 DEF PeerHandshake, PeerTakes
  <2>2. Incoming.body \in Seq(Msg)
    BY <2>1, IncomingTypes DEF Shapes, ClientHolds
  <2>3. h \in Seq(Msg)
    BY <2>1, <2>2, FragmentTypes
  <2> HIDE DEF h
  <2>4. peerTranscript \o h # <<>>
    BY <1>0, <1>2, <2>3
  <2> QED BY <2>1, <2>4
<1>3. ASSUME PeerFinish PROVE peerTranscript' # <<>>
  BY <1>0, <1>3 DEF PeerFinish
<1>4. CASE PeerSteps /\ ~PeerHandshake /\ ~PeerFinish /\ ~\E f \in Flights : PeerHello(f)
  BY <1>4 DEF PeerSteps, PeerEmit, PeerChangeCipherSpec, PeerRejects, PeerHears, PeerSends, PeerAlerts,
              PeerHangsUp
<1>5. CASE ~PeerSteps
  <2>1. UNCHANGED peerVars
    BY <1>5, StepKinds, ClientLeavesPeer
  <2>2. ~\E f \in Flights : PeerHello(f)
    BY <1>5 DEF PeerSteps
  <2> QED BY <2>1, <2>2 DEF peerVars
<1> QED BY <1>1, <1>2, <1>3, <1>4, <1>5

\* Before the server has read the ClientHello only that is on its way.
LEMMA NotMetInductive ==
  NotMet /\ Begun /\ Shapes /\ Progress /\ Order /\ [Next]_vars => NotMet'
<1> SUFFICES ASSUME NotMet, Begun, Shapes, Progress, Order, [Next]_vars, Calm', peerTranscript' = <<>>
             PROVE  Unmet'
  BY DEF NotMet
<1>0. Calm /\ ~Damage
  BY CalmBefore, FaultsKept DEF Calm
<1>1. peerTranscript = <<>> /\ ~\E f \in Flights : PeerHello(f)
  BY ServerRemembers
<1>2. Unmet
  BY <1>0, <1>1 DEF NotMet
<1>3. rx = <<>> /\ s2c = <<>>
  <2>1. rx \o s2c = <<>> /\ rx \in Seq(Cell) /\ s2c \in Seq(Cell)
    BY <1>2 DEF Unmet, Stream0, Shapes, Wires
  <2> QED BY ONLY <2>1
<1>4. CASE Connect
  <2>1. /\ pc = "start" /\ pc' = "hello" /\ transcript' = <<ClientHello>>
        /\ c2s' = Append(c2s, Protect(writing, "handshake", <<ClientHello>>))
        /\ UNCHANGED <<rx, hs, s2c>> /\ UNCHANGED peerVars
    BY <1>4 DEF Connect
  <2>2. c2s = <<>>
    BY <2>1 DEF Order
  <2> DEFINE r == Protect(writing, "handshake", <<ClientHello>>)
  <2>3. r.type = "handshake" /\ r.body = <<ClientHello>>
    BY DEF Protect
  <2> HIDE DEF r
  <2>4. Len(c2s') = 1 /\ DOMAIN c2s' = {1} /\ c2s'[1] = r
    BY <2>1, <2>2 DEF r
  <2>5. Len(transcript') = 1 /\ transcript'[1] = ClientHello
    BY <2>1
  <2>6. UNCHANGED <<peer, pending, peerWriting>> /\ Stream0' = Stream0
    BY <2>1 DEF peerVars, Stream0
  <2>7. Holding(1, ClientHello)'
    BY <2>3, <2>4 DEF Holding
  <2> QED BY <1>2, <2>1, <2>4, <2>5, <2>6, <2>7 DEF Unmet
<1>5. CASE \E n \in {1, Len(s2c)} : Fill(n)
  BY <1>3, <1>5 DEF Fill
<1>6. CASE LocalFails \/ Refuse \/ Close
  BY <1>6, LocalFailsEffect DEF Refuse, Fail, Close, Calm, Alive
<1>7. CASE RecordTaken
  <2>1. Ready
    BY <1>7, RecordTakenEffect
  <2> QED BY <1>3, <2>1 DEF Ready
<1>8. CASE TakeHello \/ SendFlight \/ TakeFinished
  <2>1. HasMessage
    BY <1>8 DEF TakeHello, SendFlight, TakeFinished, NextHandshake
  <2> QED BY <1>2, <2>1 DEF Unmet, HasMessage
<1>9. CASE Send
  BY <1>2, <1>9 DEF Send, Unmet
<1>10. CASE PeerSteps
  <2>1. peer \in {"start", "gone"} /\ pending = <<>>
    BY <1>2 DEF Unmet
  <2>2. DOMAIN pending = {}
    BY <2>1
  <2>3. PeerHangsUp
    BY <1>1, <1>10, <2>1, <2>2 DEF PeerSteps, PeerHandshake, PeerChangeCipherSpec, PeerRejects, PeerFinish,
       PeerHears, PeerSends, PeerAlerts, PeerTakes
  <2>4. UNCHANGED <<pc, hs, transcript>> /\ UNCHANGED <<rx, s2c, c2s>> /\ UNCHANGED <<pending, peerWriting>>
        /\ peer' = "gone"
    BY <2>3 DEF PeerHangsUp, clientVars
  <2>5. Stream0' = Stream0
    BY <2>4 DEF Stream0
  <2> QED BY <1>2, <2>4, <2>5 DEF Unmet
<1>11. CASE UNCHANGED vars
  <2>1. UNCHANGED <<pc, hs, transcript>> /\ UNCHANGED <<rx, s2c, c2s>> /\ UNCHANGED <<peer, pending, peerWriting>>
    BY <1>11 DEF vars, clientVars, peerVars
  <2>2. Stream0' = Stream0 /\ (Holding(1, ClientHello)' <=> Holding(1, ClientHello))
    BY <2>1 DEF Stream0, Holding
  <2> QED BY <1>2, <2>1, <2>2 DEF Unmet
<1> QED BY <1>0, <1>4, <1>5, <1>6, <1>7, <1>8, <1>9, <1>10, <1>11, StepKinds

\* The server reads nothing before the client has sent it.
LEMMA BegunInductive ==
  NotMet /\ Begun /\ Shapes /\ Order /\ [Next]_vars => Begun'
<1> SUFFICES ASSUME NotMet, Begun, Shapes, Order, [Next]_vars, Calm', peerTranscript' # <<>>, pc' = "start"
             PROVE  FALSE
  BY DEF Begun
<1>0. Calm /\ ~Damage
  BY CalmBefore, FaultsKept DEF Calm
<1>1. PeerSteps \/ UNCHANGED vars
  <2>1. ~Connect /\ ~LocalFails /\ ~TakeHello /\ ~SendFlight /\ ~TakeFinished /\ ~Refuse /\ ~Send /\ ~Close
    BY LocalFailsEffect DEF Connect, TakeHello, SendFlight, TakeFinished, Refuse, Send, Close, Fail
  <2>2. ~\E n \in {1, Len(s2c)} : Fill(n)
    BY DEF Fill, Starved, Waiting, Reassembling
  <2>3. ~RecordTaken
    BY RecordTakenEffect DEF RecordTaken, HandleAlert, TakeFragment, TakeChangeCipherSpec, Deliver, Unexpected,
       Fail, Ready, Waiting, Reassembling
  <2> QED BY <1>0, <2>1, <2>2, <2>3, StepKinds
<1>2. pc = "start"
  BY <1>1, PeerLeavesClient DEF clientVars
<1>3. peerTranscript = <<>> /\ c2s = <<>>
  BY <1>0, <1>2 DEF Begun, Order
<1>4. peer \in {"start", "gone"}
  BY <1>0, <1>3 DEF NotMet, Unmet
<1>5. peerTranscript' = peerTranscript
  BY <1>1, <1>3, <1>4 DEF PeerSteps, PeerHello, PeerEmit, PeerHandshake, PeerChangeCipherSpec, PeerRejects,
     PeerFinish, PeerHears, PeerSends, PeerAlerts, PeerHangsUp, PeerTakes, vars, peerVars
<1> QED BY <1>3, <1>5

\* A record the client takes before the ChangeCipherSpec.
LEMMA TakenKeepsAccount ==
  ASSUME Shapes, InOrder, Progress, Calm, CleanWires, SameKeys, ReadInStep, NEW f \in Flights, NEW n \in Nat,
         NEW k \in Nat, Met(f, n, k), pc \in Early, RecordTaken, Alive', pc' # "finished"
  PROVE  Met(f, n, k)'
<1>1. /\ Ready /\ rx' = SubSeq(rx, 3, Len(rx)) /\ UNCHANGED <<transcript, certRequested, writing, s2c, c2s>>
      /\ UNCHANGED peerVars
  BY RecordTakenEffect
<1>2. UNCHANGED <<peer, pending, peerTranscript, peerWriting, finOver>>
  BY <1>1 DEF peerVars
<1>3. Len(rx) >= 2 /\ Alive
  BY <1>1 DEF Ready, Calm
<1>4. /\ Underway \in Seq(SRec) /\ Underway # <<>> /\ Underway[1] = Record /\ Record \in SRec
      /\ Len(Record.body) \in Nat /\ ServerHolds(Record)
  BY <1>1, <1>3, UnderwayTaken, ReadyRecord DEF Shapes
<1>5. Sound(Record) /\ reading \in Side /\ Keyed(reading) /\ Fits(reading, Record)
  <2>1. Chain(reading, Underway, peerWriting)
    BY DEF ReadInStep
  <2> QED BY <1>3, <1>4, <2>1, SoundRecord DEF Chain, Shapes, ClientShape, SameKeys
<1>6. pc' = pc /\ (\/ ~Carries(Record) /\ hs' = hs
                   \/ Carries(Record) /\ Record.body \in Seq(Piece) /\ hs' = hs \o Record.body /\ pc # "ccs")
  <2>1. CASE HandleAlert
    <3>1. Record.type = "alert" /\ hs' = hs /\ pc' = pc
      BY <2>1 DEF HandleAlert, Fail, Alive
    <3> QED BY <3>1 DEF Carries
  <2>2. CASE TakeFragment
    <3>1. /\ pc \in Reassembling /\ Record.type = "handshake" /\ pc' = pc /\ hs' = hs \o Fragment(Record)
      BY <2>2 DEF TakeFragment
    <3>2. pc \in {"hello", "cert", "done"}
      BY <3>1 DEF Early, Reassembling
    <3>3. Record.key = "none"
      BY <1>4, <1>5, <3>2, ReadSteps DEF Progress
    <3>4. Record.body \in Seq(Piece)
      BY <1>4, <3>1 DEF ServerHolds
    <3>5. Fragment(Record) = Record.body
      BY <1>5, <3>1, <3>4, SoundFragment
    <3> QED BY <3>1, <3>2, <3>3, <3>4, <3>5 DEF Carries
  <2>3. CASE TakeChangeCipherSpec \/ Deliver \/ Unexpected
    BY <2>3 DEF TakeChangeCipherSpec, Deliver, Unexpected, Fail, Early, Alive
  <2> QED BY <2>1, <2>2, <2>3 DEF RecordTaken
<1>7. Arrives(f, n)'
  BY <1>1, <1>2, <1>3, <1>6, ArrivesTaken DEF Met
<1>8. ClientSaw(f, n)' /\ ServerSaw(f, k)' /\ Posted(k)'
  BY <1>1, <1>2, ClientSawKept, ServerSawKept, PostedKept DEF Met
<1> QED BY <1>7, <1>8 DEF Met

\* The steps of the server before that.
LEMMA ServerKeepsAccount ==
  ASSUME Shapes, InOrder, Order, CleanWires, SameKeys, NEW f \in Flights, NEW n \in Nat,
         NEW k \in Nat, Met(f, n, k), PeerSteps
  PROVE  \E l \in Nat : Met(f, n, l)'
<1>0. peer # "start" /\ UNCHANGED clientVars
  BY PeerLeavesClient DEF Met, Posted
<1>1. UNCHANGED <<rx, pc, hs, transcript, certRequested, writing>>
  BY <1>0 DEF clientVars, cipherVars
<1>2. ASSUME NEW l \in Nat, ServerSaw(f, l)', Posted(l)', UNCHANGED <<s2c, pending, peerWriting>>
      PROVE  Met(f, n, l)'
  <2>1. Underway' = Underway
    BY <1>1, <1>2 DEF Underway, Stream0
  <2>2. Arrives(f, n)' /\ ClientSaw(f, n)'
    BY <1>1, <1>2, <2>1, ArrivesKept, ClientSawKept DEF Met
  <2> QED BY <1>2, <2>2 DEF Met
<1>3. CASE PeerHandshake
  <2>1. UNCHANGED <<s2c, pending, peerWriting>>
    BY <1>3 DEF PeerHandshake
  <2>2. ServerSaw(f, k + 1)' /\ Posted(k + 1)'
    BY <1>3, ServerAbsorbs DEF Met
  <2> QED BY <1>2, <2>1, <2>2
<1>4. CASE PeerChangeCipherSpec
  <2>1. UNCHANGED <<s2c, pending, peerWriting>>
    BY <1>4 DEF PeerChangeCipherSpec
  <2>2. ServerSaw(f, k)' /\ Posted(k)'
    BY <1>4, ServerOpens DEF Met
  <2> QED BY <1>2, <2>1, <2>2
<1>5. CASE PeerHears \/ PeerHangsUp
  <2>1. UNCHANGED <<s2c, pending, peerWriting>> /\ UNCHANGED <<peerTranscript, finOver>>
    BY <1>5 DEF PeerHears, PeerHangsUp
  <2>2. ServerSaw(f, k)'
    BY <1>1, <2>1, ServerSawKept DEF Met
  <2>3. peer' \in {"open", "gone"}
    BY <1>5 DEF PeerHears, PeerHangsUp
  <2>4. Posted(k)'
    BY <2>3 DEF Posted
  <2> QED BY <1>2, <2>1, <2>2, <2>4
<1>6. CASE (\E m \in DOMAIN pending : PeerEmit(m)) \/ PeerRejects \/ PeerFinish \/ PeerSends
             \/ (\E a \in Alerts : PeerAlerts(a))
  <2>1. Emission
    BY <1>6, EmissionOf DEF Shapes
  <2>2. c2s' = c2s \/ peer' = "gone"
    BY <1>6 DEF PeerEmit, PeerRejects, PeerFinish, PeerSends, PeerAlerts
  <2>3. peer' = peer \/ peer' = "gone" \/ PeerFinish
    BY <1>6 DEF PeerEmit, PeerRejects, PeerSends, PeerAlerts
  <2>4. PeerFinish \/ UNCHANGED <<peerTranscript, finOver>>
    BY <1>6 DEF PeerEmit, PeerRejects, PeerSends, PeerAlerts
  <2>5. Met(f, n, k)'
    BY <1>0, <2>1, <2>2, <2>3, <2>4, SentKeepsAccount
  <2> QED BY <2>5
<1>7. ~\E g \in Flights : PeerHello(g)
  BY <1>0 DEF PeerHello
<1> QED BY <1>3, <1>4, <1>5, <1>6, <1>7 DEF PeerSteps

\* Both transcripts tell the same flight until the client takes the ChangeCipherSpec.
LEMMA BothTellInductive ==
  BothTell /\ NotMet /\ Begun /\ Pristine /\ ReadInStep /\ Shapes /\ InOrder /\ Progress /\ Order /\ [Next]_vars
    => BothTell'
<1> SUFFICES ASSUME BothTell, NotMet, Begun, Pristine, ReadInStep, Shapes, InOrder, Progress, Order, [Next]_vars,
                    Calm', peerTranscript' # <<>>, pc' \in Early
             PROVE  (\E f \in Flights, n \in Nat, k \in Nat : Met(f, n, k))'
  BY DEF BothTell
<1> DEFINE Goal == \E f \in Flights, n \in Nat, k \in Nat : Met(f, n, k)'
<1>0. Calm /\ ~Damage
  BY CalmBefore, FaultsKept DEF Calm
<1>1. CleanText /\ CleanWires /\ SameKeys
  BY <1>0 DEF Pristine, Calm
<1>2. CASE peerTranscript = <<>>
  <2>1. Unmet
    BY <1>0, <1>2 DEF NotMet
  <2>2. peer \in {"start", "gone"}
    BY <2>1 DEF Unmet
  <2>3. PeerSteps
    <3>1. ~PeerSteps => UNCHANGED peerVars
      BY StepKinds, ClientLeavesPeer
    <3> QED BY <1>2, <3>1 DEF peerVars
  <2>4. PICK f \in Flights : PeerHello(f)
    BY <1>2, <2>2, <2>3 DEF PeerSteps, PeerEmit, PeerHandshake, PeerChangeCipherSpec, PeerRejects, PeerFinish,
       PeerHears, PeerSends, PeerAlerts, PeerHangsUp, PeerTakes
  <2>5. pc = "hello"
    <3>1. pc' = pc
      BY <2>3, PeerLeavesClient DEF clientVars
    <3> QED BY <2>1, <3>1 DEF Unmet, Early
  <2>6. Met(f, 0, 0)'
    BY <1>1, <2>1, <2>4, <2>5, Greets
  <2>7. Goal
    BY <2>6
  <2> QED BY <2>7
<1>3. CASE peerTranscript # <<>>
  <2>1. pc # "start"
    BY <1>0, <1>3 DEF Begun
  <2>2. ASSUME pc \in Early PROVE \E f \in Flights, n \in Nat, k \in Nat : Met(f, n, k)
    BY <1>0, <1>3, <2>2 DEF BothTell
  <2>3. CASE Connect \/ LocalFails \/ Refuse \/ Close \/ TakeFinished
    BY <2>1, <2>3, LocalFailsEffect DEF Connect, Refuse, Fail, Close, TakeFinished, Early
  <2>4. CASE \E m \in {1, Len(s2c)} : Fill(m)
    <3>0. PICK m \in {1, Len(s2c)} : Fill(m)
      BY <2>4
    <3>1. UNCHANGED <<pc, hs, transcript, certRequested, reading, writing, c2s>> /\ UNCHANGED peerVars
      BY <3>0 DEF Fill, cipherVars
    <3>2. UNCHANGED <<peer, pending, peerTranscript, peerWriting, finOver>>
      BY <3>1 DEF peerVars
    <3>3. Underway' = Underway
      BY <3>0, FillEffect DEF Underway, Stream0, Shapes
    <3>4. PICK f \in Flights, n \in Nat, k \in Nat : Met(f, n, k)
      BY <2>2, <3>1
    <3>5. Met(f, n, k)'
      BY <3>1, <3>2, <3>3, <3>4, ClientSawKept, ServerSawKept, PostedKept, ArrivesKept DEF Met
    <3>6. Goal
      BY <3>5
    <3> QED BY <3>6
  <2>5. CASE RecordTaken
    <3>1. pc \in Early
      BY <2>5 DEF RecordTaken, HandleAlert, TakeFragment, TakeChangeCipherSpec, Deliver, Unexpected, Fail, Early
    <3>2. PICK f \in Flights, n \in Nat, k \in Nat : Met(f, n, k)
      BY <2>2, <3>1
    <3>3. Alive' /\ pc' # "finished"
      BY DEF Calm, Early
    <3>4. Met(f, n, k)'
      BY <1>0, <1>1, <2>5, <3>1, <3>2, <3>3, TakenKeepsAccount
    <3>5. Goal
      BY <3>4
    <3> QED BY <3>5
  <2>6. CASE TakeHello
    <3>1. pc \in Early
      BY <2>6 DEF TakeHello, Early
    <3>2. PICK f \in Flights, n \in Nat, k \in Nat : Met(f, n, k)
      BY <2>2, <3>1
    <3>3. Met(f, n + 1, k)' /\ n + 1 \in Nat
      BY <1>1, <2>6, <3>2, ClientAbsorbs
    <3>4. Goal
      BY <3>3
    <3> QED BY <3>4
  <2>7. CASE SendFlight
    <3>1. pc \in Early /\ pc' = "ccs"
      BY <2>7 DEF SendFlight, Fail, Early
    <3>2. PICK f \in Flights, n \in Nat, k \in Nat : Met(f, n, k)
      BY <2>2, <3>1
    <3>3. Met(f, n + 1, k)' /\ n + 1 \in Nat
      BY <1>1, <2>7, <3>1, <3>2, ClientAnswers
    <3>4. Goal
      BY <3>3
    <3> QED BY <3>4
  <2>8. CASE Send
    BY <2>8 DEF Send, Early
  <2>9. CASE PeerSteps
    <3>1. pc' = pc
      BY <2>9, PeerLeavesClient DEF clientVars
    <3>2. PICK f \in Flights, n \in Nat, k \in Nat : Met(f, n, k)
      BY <2>2, <3>1
    <3>3. PICK l \in Nat : Met(f, n, l)'
      BY <1>1, <2>9, <3>2, ServerKeepsAccount
    <3>4. Goal
      BY <3>3
    <3> QED BY <3>4
  <2>10. CASE UNCHANGED vars
    <3>1. UNCHANGED <<pc, hs, transcript, certRequested, reading, writing, c2s>> /\ UNCHANGED <<rx, s2c>>
          /\ UNCHANGED peerVars
      BY <2>10 DEF vars, clientVars, cipherVars
    <3>2. UNCHANGED <<peer, pending, peerTranscript, peerWriting, finOver>>
      BY <3>1 DEF peerVars
    <3>3. Underway' = Underway
      BY <3>1 DEF Underway, Stream0
    <3>4. PICK f \in Flights, n \in Nat, k \in Nat : Met(f, n, k)
      BY <2>2, <3>1
    <3>5. Met(f, n, k)'
      BY <3>1, <3>2, <3>3, <3>4, ClientSawKept, ServerSawKept, PostedKept, ArrivesKept DEF Met
    <3>6. Goal
      BY <3>5
    <3> QED BY <3>6
  <2> QED BY <1>0, <2>3, <2>4, <2>5, <2>6, <2>7, <2>8, <2>9, <2>10, StepKinds
<1> QED BY <1>2, <1>3

\* From then on the client's transcript is the one the server's Finished is over.
LEMMA FinTellsInductive ==
  FinTells /\ BothTell /\ NotMet /\ Shapes /\ InOrder /\ Progress /\ Closed /\ [Next]_vars => FinTells'
<1> SUFFICES ASSUME FinTells, BothTell, NotMet, Shapes, InOrder, Progress, Closed, [Next]_vars, Calm',
                    pc' = "finished"
             PROVE  finOver' = transcript'
  BY DEF FinTells
<1>0. Calm /\ ~Damage
  BY CalmBefore, FaultsKept DEF Calm
<1>1. CASE TakeChangeCipherSpec
  <2>1. pc = "ccs"
    BY <1>1 DEF TakeChangeCipherSpec
  <2>2. peerTranscript # <<>>
    BY <1>0, <2>1 DEF NotMet, Unmet
  <2>3. PICK f \in Flights, n \in Nat, k \in Nat : Met(f, n, k)
    BY <1>0, <2>1, <2>2 DEF BothTell, Early
  <2>4. finOver = transcript
    BY <1>1, <2>3, ChangeAgrees
  <2>5. finOver' = finOver /\ transcript' = transcript
    BY <1>1 DEF TakeChangeCipherSpec, peerVars
  <2> QED BY <2>4, <2>5
<1>2. CASE ~TakeChangeCipherSpec
  <2>1. ~Connect /\ ~LocalFails /\ ~TakeHello /\ ~SendFlight /\ ~TakeFinished /\ ~Refuse /\ ~Send /\ ~Close
    BY LocalFailsEffect DEF Connect, TakeHello, SendFlight, TakeFinished, Refuse, Send, Close, Fail
  <2>2. pc = "finished" /\ transcript' = transcript
    <3>1. CASE \E n \in {1, Len(s2c)} : Fill(n)
      BY <3>1 DEF Fill
    <3>2. CASE RecordTaken
      BY <1>2, <3>2 DEF RecordTaken, HandleAlert, TakeFragment, Deliver, Unexpected, Fail
    <3>3. CASE PeerSteps \/ UNCHANGED vars
      BY <3>3, PeerLeavesClient DEF clientVars
    <3> QED BY <1>0, <2>1, <3>1, <3>2, <3>3, StepKinds
  <2>3. finOver = transcript /\ transcript # <<>>
    BY <1>0, <2>2 DEF FinTells, Progress
  <2>4. peer \in {"open", "gone"}
    BY <2>3 DEF Closed
  <2>5. finOver' = finOver
    <3>1. CASE PeerSteps
      BY <2>4, <3>1 DEF PeerSteps, PeerHello, PeerEmit, PeerHandshake, PeerChangeCipherSpec, PeerRejects,
         PeerFinish, PeerHears, PeerSends, PeerAlerts, PeerHangsUp
    <3>2. CASE ~PeerSteps
      BY <1>0, <3>2, StepKinds, ClientLeavesPeer DEF peerVars
    <3> QED BY <3>1, <3>2
  <2> QED BY <2>2, <2>3, <2>5
<1> QED BY <1>1, <1>2

-----------------------------------------------------------------------------
(***************************************************************************)
(* No false alarm.                                                         *)
(***************************************************************************)

\* What one side may hold against the other.
Charges == {"mac", "header", "malformed", "finished", "rejected"}

\* A record that is next in the stream and whole opens ...
LEMMA NoBadRecord ==
  ASSUME Undamaged, CleanWires, SameKeys, ReadInStep, Shapes, InOrder
  PROVE  ~BadMac /\ ~BadHeader
<1>1. ASSUME BadMac PROVE FALSE
  <2>1. Len(rx) >= 2 /\ pc \in Waiting /\ ~Opens(reading, Record)
    BY <1>1 DEF BadMac, Ready
  <2>2. Alive
    BY <2>1 DEF Alive, Waiting, Reassembling
  <2>3. Chain(reading, Underway, peerWriting)
    BY <2>2 DEF ReadInStep, Calm
  <2>4. Underway \in Seq(SRec) /\ Underway # <<>> /\ Underway[1] = Record
    <3>1. Stream0 \in Seq(Cell) /\ Len(Stream0) >= 2 /\ Stream0[2] = rx[2]
      BY <2>1, StreamFront DEF Stream0, Shapes, Wires
    <3> DEFINE T == SubSeq(Stream0, 3, Len(Stream0))
    <3>2. T \in Seq(Cell) /\ Len(T) = Len(Stream0) - 2 /\ \A i \in 1 .. Len(Stream0) - 2 : T[i] = Stream0[2 + i]
      BY <3>1, DropTwo
    <3> HIDE DEF T
    <3>3. Len(Stream0) % 2 = 0
      BY <2>2, WholeRecords
    <3>4. \A i \in 1 .. Len(T) : T[i] = Stream0[i + 2]
      BY <3>1, <3>2
    <3>5. Bodies(Stream0) \in Seq(SRec) /\ Bodies(Stream0) # <<>> /\ Bodies(Stream0)[1] = Stream0[2].rec
      BY <3>1, <3>2, <3>3, <3>4, BodiesFront
    <3> QED BY <3>1, <3>5 DEF Underway, Record
  <2>5. Fits(reading, Record) /\ Sound(Record)
    BY <2>1, <2>3, <2>4, SoundRecord DEF Chain, Shapes
  <2>6. Record.whole => Opens(reading, Record)
    BY <2>5 DEF Opens, Fits
  <2> QED BY <2>1, <2>5, <2>6 DEF Sound
<1>2. ASSUME BadHeader PROVE FALSE
  <2>1. rx # <<>> /\ rx[1].rec.type = "invalid"
    BY <1>2 DEF BadHeader
  <2>2. rx \in Seq(Cell) /\ s2c \in Seq(Cell) /\ 1 \in 1 .. Len(rx)
    BY <2>1 DEF Shapes, Wires
  <2>3. /\ DOMAIN (rx \o s2c) = 1 .. Len(rx) + Len(s2c) /\ (rx \o s2c)[1] = rx[1]
    BY <2>2, Joined
  <2>4. 1 \in 1 .. Len(rx) + Len(s2c)
    BY <2>2
  <2>5. Sound(rx[1].rec)
    BY <2>3, <2>4 DEF CleanWires, Stream0
  <2> QED BY <2>1, <2>5 DEF Sound
<1> QED BY <1>1, <1>2

\* ... at the server too ...
LEMMA NoRejection ==
  ASSUME Undamaged, CleanWires, SameKeys, WriteInStep, Shapes
  PROVE  ~PeerRejects
<1> SUFFICES ASSUME PeerRejects PROVE FALSE
  OBVIOUS
<1>1. /\ peer \in {"keys", "fin", "open"} /\ c2s # <<>> /\ Alive
      /\ ~Opens(peerReading, Incoming) \/ (Incoming.type = "ccs" /\ ~Incoming.whole)
  BY DEF PeerRejects, PeerTakes, Emit
<1>2. Incoming = c2s[1] /\ Sound(Incoming)
  BY <1>1, IncomingTypes, SoundIncoming DEF Shapes
<1>3. Chain(peerReading, c2s, writing)
  BY <1>1 DEF WriteInStep, Calm
<1>4. Fits(peerReading, Incoming)
  BY <1>1, <1>2, <1>3 DEF Chain
<1>5. Incoming.whole
  BY <1>2 DEF Sound
<1>6. Opens(peerReading, Incoming)
  BY <1>4, <1>5 DEF Opens, Fits
<1> QED BY <1>1, <1>5, <1>6

\* ... and a Finished that arrives unchanged verifies.
LEMMA NoRefusal ==
  ASSUME Undamaged, CleanText, FinTells, Shapes, Refuse
  PROVE  faults' = faults \cup {"unexpected"}
<1>1. HasMessage
  BY DEF Refuse, NextHandshake
<1>2. ~Parsed.alt /\ pc \in Reassembling
  BY <1>1, CleanParsed DEF HasMessage, CleanText, Shapes, ClientShape
<1>3. Alive
  BY <1>2 DEF Alive, Reassembling
<1>4. pc = "finished" => Verified
  BY <1>2, <1>3 DEF FinTells, Calm, Verified
<1> QED BY <1>2, <1>4 DEF Refuse, Fail

\* In step, no record is bad; with equal transcripts, no Finished is; so no alarm is new.
LEMMA NoFalseAlarmInductive ==
  /\ NoFalseAlarm /\ Pristine /\ ReadInStep /\ WriteInStep /\ FinTells /\ Shapes /\ InOrder
  /\ [Next]_vars
  => NoFalseAlarm'
<1> SUFFICES ASSUME NoFalseAlarm, Pristine, ReadInStep, WriteInStep, FinTells, Shapes, InOrder, [Next]_vars,
                    faults' \cap Charges # {}, Undamaged'
             PROVE  FALSE
  BY DEF NoFalseAlarm, Undamaged, Charges
<1>1. Undamaged /\ ~Damage
  BY FaultsKept
<1>2. CleanText /\ CleanWires /\ SameKeys /\ faults \cap Charges = {}
  BY <1>1 DEF Pristine, NoFalseAlarm, Undamaged, Charges
<1>3. ~BadMac /\ ~BadHeader /\ ~PeerRejects
  BY <1>1, <1>2, NoBadRecord, NoRejection
<1>4. CASE LocalFails
  <2>1. FillEnds \/ FillFails \/ GiveUp
    BY <1>3, <1>4 DEF LocalFails
  <2>2. faults' \subseteq faults \cup {"end", "timeout", "local"}
    BY <2>1 DEF FillEnds, FillFails, GiveUp, Fail
  <2> QED BY <1>2, <2>2 DEF Charges
<1>5. CASE Refuse
  <2>1. faults' = faults \cup {"unexpected"}
    BY <1>1, <1>2, <1>5, NoRefusal
  <2> QED BY <1>2, <2>1 DEF Charges
<1>6. CASE RecordTaken \/ SendFlight
  <2>1. faults' \subseteq faults \cup {"end", "alert", "unexpected"}
    BY <1>6 DEF RecordTaken, HandleAlert, TakeFragment, TakeChangeCipherSpec, Deliver, Unexpected, SendFlight, Fail
  <2> QED BY <1>2, <2>1 DEF Charges
<1>7. CASE Connect \/ (\E n \in {1, Len(s2c)} : Fill(n)) \/ TakeHello \/ TakeFinished \/ Send \/ Close
  <2>1. faults' = faults
    BY <1>7 DEF Connect, Fill, TakeHello, TakeFinished, Send, Close
  <2> QED BY <1>2, <2>1
<1>8. CASE PeerSteps
  <2>1. faults' \subseteq faults \cup {"flight", "hangup"} \cup Alerts
    BY <1>3, <1>8 DEF PeerSteps, PeerHello, PeerEmit, PeerHandshake, PeerChangeCipherSpec, PeerFinish,
       PeerHears, PeerSends, PeerAlerts, PeerHangsUp
  <2> QED BY <1>2, <2>1 DEF Charges, Alerts
<1>9. CASE UNCHANGED vars
  BY <1>2, <1>9 DEF vars
<1> QED BY <1>1, <1>4, <1>5, <1>6, <1>7, <1>8, <1>9, StepKinds

\* The first half of the invariant: nothing is changed, and the ciphers are in step.
InStep == Pristine /\ ReadInStep /\ WriteInStep

\* Before the socket is opened there is nothing to disagree about.
LEMMA InitInStep == Init => InStep /\ Account /\ NoFalseAlarm
<1> SUFFICES ASSUME Init PROVE InStep /\ Account /\ NoFalseAlarm
  OBVIOUS
<1>1. /\ pc = "start" /\ rx = <<>> /\ s2c = <<>> /\ c2s = <<>> /\ hs = <<>> /\ pending = <<>>
      /\ transcript = <<>> /\ peerTranscript = <<>> /\ peer = "start" /\ faults = {}
      /\ reading = Null /\ writing = Null /\ peerReading = Null /\ peerWriting = Null
  BY DEF Init
<1>2. Stream0 = <<>>
  BY <1>1 DEF Stream0
<1>3. Underway = <<>>
  <2>1. Len(<<>>) \div 2 = 0
    OBVIOUS
  <2>2. Bodies(<<>>) = <<>>
    BY <2>1 DEF Bodies
  <2> QED BY <1>2, <2>2 DEF Underway
<1>4. Null.on = FALSE /\ Null.key = "none"
  BY DEF Null
<1>5. CleanText /\ CleanWires
  BY <1>1, <1>2 DEF CleanText, CleanWires, Clean
<1>6. SameKeys
  BY <1>1, <1>4 DEF SameKeys, Keyed
<1>7. Same(Null, Null)
  BY DEF Same
<1>8. Chain(Null, <<>>, Null)
  BY <1>7 DEF Chain
<1>9. InStep
  BY <1>1, <1>3, <1>5, <1>6, <1>8 DEF InStep, Pristine, ReadInStep, WriteInStep
<1>10. Unmet
  BY <1>1, <1>2, <1>4 DEF Unmet
<1>11. Account
  BY <1>1, <1>10 DEF Account, NotMet, Begun, BothTell, FinTells
<1>12. NoFalseAlarm
  BY <1>1 DEF NoFalseAlarm
<1> QED BY <1>9, <1>11, <1>12

\* One step of the whole invariant.
LEMMA InStepInductive ==
  /\ InStep /\ Account /\ NoFalseAlarm /\ Shapes /\ Handshake /\ Delivery /\ [Next]_vars
  => InStep' /\ Account' /\ NoFalseAlarm'
<1> SUFFICES ASSUME InStep, Account, NoFalseAlarm, Shapes, Handshake, Delivery, [Next]_vars
             PROVE  InStep' /\ Account' /\ NoFalseAlarm'
  OBVIOUS
<1>1. Pristine /\ ReadInStep /\ WriteInStep /\ NotMet /\ Begun /\ BothTell /\ FinTells
  BY DEF InStep, Account
<1>2. Progress /\ Order /\ Closed /\ InOrder
  BY DEF Handshake, Delivery
<1>3. Pristine' /\ ReadInStep' /\ WriteInStep'
  BY <1>1, <1>2, PristineInductive, ReadInStepInductive, WriteInStepInductive
<1>4. NotMet' /\ Begun' /\ BothTell' /\ FinTells'
  BY <1>1, <1>2, NotMetInductive, BegunInductive, BothTellInductive, FinTellsInductive
<1>5. NoFalseAlarm'
  BY <1>1, <1>2, NoFalseAlarmInductive
<1> QED BY <1>3, <1>4, <1>5 DEF InStep, Account

\* Sequence numbers, key streams and transcripts of the two sides stay in step for every
\* flight, however it is cut into records and whenever either side acts: a bad_record_mac,
\* a malformed header or message, a Finished that does not verify or a record the server
\* rejects means that the network has damaged something.
THEOREM NoFalseAlarms == Spec => []NoFalseAlarm
<1>1. Init => InStep /\ Account /\ NoFalseAlarm
  BY InitInStep
<1>2. InStep /\ Account /\ NoFalseAlarm /\ Shapes /\ Handshake /\ Delivery /\ [Next]_vars
        => (InStep /\ Account /\ NoFalseAlarm)'
  BY InStepInductive
<1> QED BY <1>1, <1>2, DeliveryHolds, PTL DEF Spec

=============================================================================
