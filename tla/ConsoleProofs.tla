---------------------------- MODULE ConsoleProofs ----------------------------
(***************************************************************************)
(* The byte streams of a console session (ConsoleLink) and the window it is *)
(* shown in (FrontEnd).  The two have their own variables; nothing here    *)
(* relates them.                                                           *)
(*                                                                         *)
(* ConsoleLink, for any amount of text and video and any number of         *)
(* messages: the decoder gets the video the iLO enciphered                 *)
(* (DecoderSeesVideo), and the iLO deciphers what the client enciphered    *)
(* (OutboundUnbroken).  FrontEnd, for every set of servers and commands,   *)
(* every timeout and every old list: the workers serve one server          *)
(* (OneServer), no request is made but by two clicks on a button that      *)
(* stayed armed (TwoClicks), and a cancelled close leaves the program      *)
(* running (StaysOpen).                                                    *)
(***************************************************************************)
EXTENDS ConsoleLink, FrontEnd, SequenceTheorems, TLAPS

-----------------------------------------------------------------------------
(***************************************************************************)
(* ConsoleLink.                                                            *)
(***************************************************************************)

Cipher == [key : Nat, pos : Nat]
Byte   == [byte : TextBytes \cup VideoBytes, tag : Cipher]

\* The flags of a session, and the shape of its ciphers and streams.
LinkFlags ==
  /\ hooked \in BOOLEAN /\ keyed \in BOOLEAN /\ loggedIn \in BOOLEAN
  /\ announcing \in BOOLEAN /\ dvc \in BOOLEAN /\ ciphered \in BOOLEAN
  /\ crossed \in BOOLEAN
Streams ==
  /\ decrypter \in Cipher /\ encrypter \in Cipher /\ iloCipher \in Cipher
  /\ got \in Seq(TextBytes \cup VideoBytes \cup {"garbage"}) /\ out \in Seq(Cipher)
  /\ wire \in Seq(Byte) /\ said \in Seq(TextBytes) /\ shown \in Seq(VideoBytes)
  /\ iloDecrypter \in Cipher /\ heard \in Seq(Cipher)

\* The preamble is due exactly between CimSession::connect() and the login.
Announced == announcing => keyed /\ ~loggedIn

LEMMA CipherTypes ==
  /\ Fresh \in Cipher /\ InClear \in Cipher
  /\ \A k \in Cipher : Used(k) \in Cipher /\ Updated(k) \in Cipher
  /\ \A k \in Cipher : \A n \in Nat : [k EXCEPT !.pos = @ + n] \in Cipher
  BY DEF Cipher, Fresh, InClear, Used, Updated

LEMMA FlagsInductive == LinkFlags /\ [Next]_vars => LinkFlags'
<1> SUFFICES ASSUME LinkFlags, [Next]_vars PROVE LinkFlags'
  OBVIOUS
<1> USE DEF LinkFlags, session, feeding
<1>1. CASE Connect
  BY <1>1, Zenon DEF Connect
<1>2. CASE Login
  BY <1>2, Zenon DEF Login, Transmit
<1>3. CASE Send
  BY <1>3, Zenon DEF Send, Transmit
<1>4. CASE FeedText
  BY <1>4 DEF FeedText
<1>5. CASE FeedVideo
  BY <1>5, Zenon DEF FeedVideo
<1>6. CASE Ilo
  BY <1>6, Zenon DEF Ilo, IloText, IloVideo, IloReads
<1>7. CASE UNCHANGED vars
  BY <1>7, Zenon DEF vars
<1> QED
  BY <1>1, <1>2, <1>3, <1>4, <1>5, <1>6, <1>7 DEF Next, Client

\* A packet is a sequence of tags.
LEMMA TagsType ==
  ASSUME encrypter \in Cipher, NEW n \in Nat, NEW clear \in Nat
  PROVE  Tags(n, clear) \in Seq(Cipher) /\ Len(Tags(n, clear)) = n
<1>1. ASSUME NEW i \in 1 .. n
      PROVE  (IF i <= clear \/ ~keyed THEN InClear
              ELSE [encrypter EXCEPT !.pos = @ + (i - clear - 1)]) \in Cipher
  <2>1. CASE i <= clear \/ ~keyed
    BY <2>1, CipherTypes
  <2>2. CASE ~(i <= clear \/ ~keyed)
    <3>1. i - clear - 1 \in Nat
      BY <2>2
    <3> QED BY <2>2, <3>1, CipherTypes
  <2> QED BY <2>1, <2>2
<1> DEFINE F(i) == IF i <= clear \/ ~keyed THEN InClear
                   ELSE [encrypter EXCEPT !.pos = @ + (i - clear - 1)]
<1>2. \A i \in 1 .. n : F(i) \in Cipher
  BY <1>1
<1> HIDE DEF F
<1>3. [i \in 1 .. n |-> F(i)] \in Seq(Cipher) /\ Len([i \in 1 .. n |-> F(i)]) = n
  BY <1>2
<1> QED BY <1>3 DEF Tags, F

\* What the iLO makes of a byte it has not read yet.
LEMMA ExpectedType ==
  ASSUME Streams, NEW n \in Nat, n > Len(heard)
  PROVE  Expected(n) \in Cipher
<1> DEFINE from == IF Len(heard) < Preamble THEN Preamble ELSE Len(heard)
<1>1. CASE ~keyed \/ n <= Preamble
  BY <1>1, CipherTypes DEF Expected
<1>2. CASE ~(~keyed \/ n <= Preamble)
  <2>1. n - 1 - from \in Nat
    BY <1>2 DEF Streams, Preamble
  <2>2. Expected(n) = [iloDecrypter EXCEPT !.pos = @ + (n - 1 - from)]
    BY <1>2 DEF Expected
  <2> HIDE DEF from
  <2> QED BY <2>1, <2>2, CipherTypes DEF Streams
<1> QED BY <1>1, <1>2

\* The iLO reads what has arrived and was not read before.
LEMMA IloHears ==
  ASSUME Streams, IloReads
  PROVE  /\ heard' \in Seq(Cipher) /\ Len(heard') = Len(out) /\ Len(heard) < Len(out)
         /\ \A i \in 1 .. Len(heard) : heard'[i] = heard[i]
         /\ \A i \in Len(heard) + 1 .. Len(out) : heard'[i] = Expected(i)
<1> DEFINE F(n) == IF n <= Len(heard) THEN heard[n] ELSE Expected(n)
<1>1. heard' = [n \in 1 .. Len(out) |-> F(n)] /\ Len(heard) < Len(out)
  BY DEF IloReads
<1>2. Len(out) \in Nat /\ Len(heard) \in Nat
  BY DEF Streams
<1>3. ASSUME NEW n \in 1 .. Len(out) PROVE F(n) \in Cipher
  <2>1. CASE n <= Len(heard)
    BY <1>2, <2>1 DEF Streams
  <2>2. CASE ~(n <= Len(heard))
    BY <1>2, <2>2, ExpectedType
  <2> QED BY <2>1, <2>2
<1>4. /\ \A i \in 1 .. Len(heard) : F(i) = heard[i]
      /\ \A i \in Len(heard) + 1 .. Len(out) : F(i) = Expected(i)
  BY <1>2
<1> HIDE DEF F
<1> QED BY <1>1, <1>2, <1>3, <1>4

LEMMA StreamsInductive == Streams /\ Announced /\ [Next]_vars => Streams'
<1> SUFFICES ASSUME Streams, Announced, [Next]_vars PROVE Streams'
  OBVIOUS
<1> USE DEF Streams, sending, ilo, iloIn
<1>1. CASE Connect
  BY <1>1 DEF Connect
<1>2. CASE Login
  <2> DEFINE n == IF keyed THEN Preamble + 1 ELSE 1
             clear == IF announcing THEN Preamble ELSE 0
  <2>1. n \in Nat /\ clear \in Nat /\ n - clear \in Nat
    BY <1>2 DEF Login, Announced, Preamble
  <2>2. out' = out \o Tags(n, clear)
        /\ encrypter' \in {encrypter, [encrypter EXCEPT !.pos = @ + (n - clear)]}
    BY <1>2 DEF Login, Transmit
  <2>3. UNCHANGED <<decrypter, iloCipher, got, wire, said, shown, iloDecrypter, heard>>
    BY <1>2 DEF Login
  <2> HIDE DEF n, clear
  <2>4. Tags(n, clear) \in Seq(Cipher)
    BY <2>1, TagsType
  <2>5. encrypter' \in Cipher
    BY <2>1, <2>2, CipherTypes
  <2> QED
    BY <2>2, <2>3, <2>4, <2>5
<1>3. CASE Send
  <2>1. ~announcing
    BY <1>3 DEF Send, Announced
  <2>2. /\ out' = out \o Tags(1, 0)
        /\ encrypter' \in {encrypter, [encrypter EXCEPT !.pos = @ + 1]}
    BY <1>3, <2>1 DEF Send, Transmit
  <2>3. UNCHANGED <<decrypter, iloCipher, got, wire, said, shown, iloDecrypter, heard>>
    BY <1>3 DEF Send
  <2>4. Tags(1, 0) \in Seq(Cipher)
    BY TagsType
  <2>5. encrypter' \in Cipher
    BY <2>2, CipherTypes
  <2> QED
    BY <2>2, <2>3, <2>4, <2>5
<1>4. CASE FeedText
  BY <1>4 DEF FeedText
<1>5. CASE FeedVideo
  <2>1. PICK b \in Plain :
          LET after == IF Deciphers THEN Used(decrypter) ELSE decrypter IN
          /\ got' = Append(got, b)
          /\ decrypter' = IF Rekeys(b) THEN Updated(after) ELSE after
          /\ encrypter' = IF Rekeys(b) THEN Updated(encrypter) ELSE encrypter
    BY <1>5 DEF FeedVideo
  <2>2. decrypter' \in Cipher /\ encrypter' \in Cipher
    BY <2>1, CipherTypes
  <2>3. b \in TextBytes \cup VideoBytes \cup {"garbage"}
    <3>1. Head(wire) \in Byte
      BY <1>5 DEF FeedVideo
    <3> QED BY <3>1 DEF Plain, NextByte, Byte
  <2>4. wire' \in Seq(Byte) /\ UNCHANGED <<iloCipher, out, said, shown, iloDecrypter, heard>>
    BY <1>5 DEF FeedVideo
  <2> QED
    BY <2>1, <2>2, <2>3, <2>4
<1>6. CASE \E c \in TextBytes : IloText(c)
  BY <1>6, CipherTypes DEF IloText, Byte
<1>7. CASE \E c \in VideoBytes : IloVideo(c)
  BY <1>7, CipherTypes DEF IloVideo, Byte
<1>8. CASE IloReads
  <2>1. iloDecrypter' \in Cipher
    BY <1>8, ExpectedType DEF IloReads
  <2>2. heard' \in Seq(Cipher)
    BY <1>8, IloHears
  <2> QED BY <1>8, <2>1, <2>2 DEF IloReads
<1>9. CASE UNCHANGED vars
  BY <1>9 DEF vars
<1> QED
  BY <1>1, <1>2, <1>3, <1>4, <1>5, <1>6, <1>7, <1>8, <1>9 DEF Next, Client, Ilo

-----------------------------------------------------------------------------
(***************************************************************************)
(* The start of a session.                                                 *)
(***************************************************************************)

\* Before the login nothing has been sent or heard on either side, and the ciphers
\* of this direction are new.
Silent ==
  ~loggedIn => /\ wire = <<>> /\ said = <<>> /\ out = <<>> /\ heard = <<>>
               /\ ~dvc /\ encrypter = Fresh /\ iloDecrypter = Fresh

LEMMA SilentInductive ==
  Announced /\ Silent /\ [Next]_vars => Announced' /\ Silent'
<1> SUFFICES ASSUME Announced, Silent, [Next]_vars PROVE Announced' /\ Silent'
  OBVIOUS
<1> USE DEF Announced, Silent, session, feeding, sending, ilo, iloIn
<1>1. CASE Connect
  BY <1>1 DEF Connect
<1>2. CASE Login \/ Send
  BY <1>2 DEF Login, Send, Transmit
<1>3. CASE FeedText \/ FeedVideo
  BY <1>3 DEF FeedText, FeedVideo
<1>4. CASE \E c \in TextBytes : IloText(c)
  BY <1>4 DEF IloText
<1>5. CASE \E c \in VideoBytes : IloVideo(c)
  <2>1. Started(said) => said # <<>>
    BY DEF Started, Ends
  <2> QED BY <1>5, <2>1 DEF IloVideo
<1>6. CASE IloReads
  <2>1. loggedIn
    BY <1>6 DEF IloReads
  <2> QED BY <1>6, <2>1 DEF IloReads
<1>7. CASE UNCHANGED vars
  BY <1>7 DEF vars
<1> QED
  BY <1>1, <1>2, <1>3, <1>4, <1>5, <1>6, <1>7 DEF Next, Client, Ilo

\* The shape of a link in every reachable state.
THEOREM LinkTypes == Spec => [](LinkFlags /\ Streams)
<1>1. Init => LinkFlags /\ Announced
  BY Zenon DEF Init, LinkFlags, Announced
<1>2. Init => Silent /\ Streams
  BY CipherTypes DEF Init, Silent, Streams
<1> QED
  BY <1>1, <1>2, FlagsInductive, StreamsInductive, SilentInductive, PTL DEF Spec

-----------------------------------------------------------------------------
(***************************************************************************)
(* Receiving.  The wire holds what is left of the text and then of the     *)
(* video.  The text part is followed byte by byte against what the iLO     *)
(* said; the video part carries the cipher from the decrypter to the       *)
(* iLO's, one byte at a time.                                              *)
(***************************************************************************)

\* How much of the wire is text, and how much text has been fed.
Backlog == Len(wire) + Len(got) - Len(shown)
Fed     == Len(said) - Backlog

\* The sequence that starts the video ends at byte n of a text.
At(t, n, c)   == n >= 3 /\ t[n - 2] = "ESC" /\ t[n - 1] = "[" /\ t[n] = c
StartAt(t, n) == At(t, n, "R") \/ At(t, n, "r")
Enciphers     == keyed /\ At(said, Len(said), "R")

Counts ==
  /\ Len(got) <= Len(shown) /\ Backlog >= 0 /\ Backlog <= Len(said)
  /\ dvc => Backlog = 0
  /\ ~dvc => got = <<>>

\* The text on the wire is the end of what the iLO said; the sequence that starts
\* the video is at the very end of it, and no video comes before it.
TextAhead  == \A j \in 1 .. Backlog : wire[j].byte = said[Fed + j]
StartsLast ==
  /\ \A n \in 1 .. Len(said) - 1 : ~StartAt(said, n)
  /\ shown # <<>> => StartAt(said, Len(said))

\* feed() has matched as much of ESC [ R as the text fed so far ends with.
Matched ==
  IF dvc THEN StartAt(said, Len(said)) /\ (ciphered <=> At(said, Len(said), "R"))
  ELSE /\ ~StartAt(said, Fed)
       /\ esc = 1 <=> Fed >= 1 /\ said[Fed] = "ESC"
       /\ esc = 2 <=> Fed >= 2 /\ said[Fed - 1] = "ESC" /\ said[Fed] = "["

\* Neither end has used its cipher before the video starts.
Unused == (~dvc => decrypter = Fresh) /\ (shown = <<>> => iloCipher = Fresh)

Flow == Counts /\ TextAhead /\ StartsLast /\ Matched /\ Unused

NextKey(k, b) == IF b = "rekey" THEN Updated(k) ELSE Used(k)

\* What the decoder has, and what is on the wire for it, is what the iLO showed.
Pictures ==
  /\ \A i \in 1 .. Len(got) : got[i] = shown[i]
  /\ \A j \in 1 .. Len(shown) - Len(got) : wire[Backlog + j].byte = shown[Len(got) + j]

\* The tags of the video on the wire lead from the decrypter to the iLO's cipher.
Chain ==
  /\ \A j \in 1 .. Len(shown) - Len(got) - 1 :
       wire[Backlog + j + 1].tag = NextKey(wire[Backlog + j].tag, wire[Backlog + j].byte)
  /\ Len(wire) > Backlog =>
       /\ wire[Backlog + 1].tag = decrypter
       /\ iloCipher = NextKey(wire[Len(wire)].tag, wire[Len(wire)].byte)
  /\ Len(wire) = Backlog => iloCipher = decrypter

InTheClear ==
  /\ \A j \in 1 .. Len(shown) - Len(got) : wire[Backlog + j].tag = InClear
  /\ \A i \in DOMAIN shown : shown[i] # "rekey"

Video == InStep => Pictures /\ (IF Enciphers THEN Chain ELSE InTheClear)

\* The text ends with the sequence iff its last three bytes are it.
LEMMA EndsIsAt ==
  ASSUME NEW t \in Seq(TextBytes), NEW c
  PROVE  Ends(t, c) <=> At(t, Len(t), c)
<1>1. CASE Len(t) >= 3
  <2> DEFINE u == SubSeq(t, Len(t) - 2, Len(t))
  <2>1. /\ u \in Seq(TextBytes) /\ Len(u) = 3
        /\ u[1] = t[Len(t) - 2] /\ u[2] = t[Len(t) - 1] /\ u[3] = t[Len(t)]
    BY <1>1
  <2>2. (u = <<"ESC", "[", c>>) <=> (u[1] = "ESC" /\ u[2] = "[" /\ u[3] = c)
    <3> HIDE DEF u
    <3> QED BY <2>1
  <2> QED BY <1>1, <2>1, <2>2 DEF Ends, At
<1>2. CASE ~(Len(t) >= 3)
  BY <1>2 DEF Ends, At
<1> QED BY <1>1, <1>2

LEMMA StartedIsAt ==
  ASSUME Streams
  PROVE  /\ Started(said) <=> StartAt(said, Len(said))
         /\ (keyed /\ Ends(said, "R")) <=> Enciphers
  BY EndsIsAt DEF Streams, Started, StartAt, Enciphers

\* The sizes in question are numbers.
LEMMA Sizes ==
  ASSUME Streams
  PROVE  /\ Len(wire) \in Nat /\ Len(got) \in Nat /\ Len(shown) \in Nat
         /\ Len(said) \in Nat /\ Backlog \in Int /\ Fed \in Int
  BY DEF Streams, Backlog, Fed

\* A byte of text is fed only while there is text on the wire.
LEMMA TextIsThere ==
  ASSUME Streams, Flow, ~dvc, wire # <<>>
  PROVE  Backlog >= 1
<1>1. CASE Backlog = 0
  <2>1. ~StartAt(said, Len(said))
    BY <1>1, Sizes DEF Flow, Matched, Fed
  <2>2. shown = <<>> /\ got = <<>>
    BY <2>1 DEF Flow, StartsLast, Counts
  <2>3. Len(wire) = 0
    BY <1>1, <2>2, Sizes DEF Backlog
  <2> QED BY <2>3 DEF Streams
<1> QED BY <1>1, Sizes DEF Flow, Counts

LEMMA FeedTextFlows ==
  ASSUME Streams, Flow, FeedText
  PROVE  Flow'
<1> DEFINE b == said[Fed + 1]
<1>1. /\ ~dvc /\ wire # <<>> /\ wire' = Tail(wire)
      /\ UNCHANGED <<keyed, hooked, decrypter, got, said, shown, iloCipher>>
  BY DEF FeedText, session, ilo
<1>2. Backlog >= 1 /\ Backlog <= Len(said)
  BY <1>1, TextIsThere DEF Flow, Counts
<1>3. NextByte = b /\ Len(wire') = Len(wire) - 1
  BY <1>1, <1>2, Sizes DEF Flow, TextAhead, NextByte, Streams
<1>4. Backlog' = Backlog - 1 /\ Fed' = Fed + 1
  BY <1>1, <1>3, Sizes DEF Backlog, Fed
<1>5. Fed \in Nat /\ Fed + 1 <= Len(said)
  BY <1>2, Sizes DEF Fed
<1>6. dvc' <=> StartAt(said, Fed + 1)
  <2>1. dvc' <=> (esc = 2 /\ b \in {"R", "r"})
    BY <1>3 DEF FeedText
  <2>2. esc = 2 <=> Fed >= 2 /\ said[Fed - 1] = "ESC" /\ said[Fed] = "["
    BY <1>1 DEF Flow, Matched
  <2>3. \A c : At(said, Fed + 1, c)
                 <=> Fed >= 2 /\ said[Fed - 1] = "ESC" /\ said[Fed] = "[" /\ b = c
    BY <1>5 DEF At
  <2>4. StartAt(said, Fed + 1)
          <=> Fed >= 2 /\ said[Fed - 1] = "ESC" /\ said[Fed] = "[" /\ b \in {"R", "r"}
    BY <2>3 DEF StartAt
  <2> HIDE DEF b
  <2> QED BY <2>1, <2>2, <2>4
<1>7. dvc' => Fed + 1 = Len(said)
  BY <1>5, <1>6, Sizes DEF Flow, StartsLast
<1>8. Counts'
  BY <1>1, <1>2, <1>4, <1>7, Sizes DEF Flow, Counts, Fed
<1>9. TextAhead'
  BY <1>1, <1>2, <1>4, <1>5, Sizes DEF Flow, TextAhead, Streams, Counts, Backlog
<1>10. StartsLast'
  BY <1>1 DEF Flow, StartsLast
<1>11. Matched'
  <2>1. CASE dvc'
    <3>1. ciphered' <=> b = "R"
      BY <1>3, <2>1 DEF FeedText
    <3>2. StartAt(said, Len(said)) /\ (b = "R" <=> At(said, Len(said), "R"))
      BY <1>5, <1>6, <1>7, <2>1 DEF StartAt, At
    <3> QED BY <1>1, <2>1, <3>1, <3>2 DEF Matched
  <2>2. CASE ~dvc'
    <3>1. ~StartAt(said', Fed')
      BY <1>1, <1>4, <1>6, <2>2
    <3>2. /\ esc' = 1 <=> b = "ESC"
          /\ esc' = 2 <=> b = "[" /\ esc = 1
      <4>1. esc' = CASE b = "ESC" -> 1
                     [] b = "[" /\ esc = 1 -> 2
                     [] b \in {"R", "r"} /\ esc = 2 -> esc
                     [] OTHER -> 0
        BY <1>3 DEF FeedText
      <4>2. ~(b \in {"R", "r"} /\ esc = 2)
        BY <1>3, <2>2 DEF FeedText
      <4> QED BY <4>1, <4>2
    <3>3. esc = 1 <=> Fed >= 1 /\ said[Fed] = "ESC"
      BY <1>1 DEF Flow, Matched
    <3>4. /\ Fed' >= 1 /\ said'[Fed'] = b
          /\ Fed >= 1 <=> Fed' >= 2
          /\ Fed' - 1 = Fed
      BY <1>1, <1>4, <1>5
    <3>5. said'[Fed' - 1] = said[Fed]
      BY <1>1, <3>4
    <3> HIDE DEF b
    <3>6. /\ esc' = 1 <=> Fed' >= 1 /\ said'[Fed'] = "ESC"
          /\ esc' = 2 <=> Fed' >= 2 /\ said'[Fed' - 1] = "ESC" /\ said'[Fed'] = "["
      BY <3>2, <3>3, <3>4, <3>5
    <3> QED BY <2>2, <3>1, <3>6 DEF Matched
  <2> QED BY <2>1, <2>2
<1>12. Unused'
  BY <1>1 DEF Flow, Unused
<1> QED BY <1>8, <1>9, <1>10, <1>11, <1>12 DEF Flow

LEMMA FeedVideoFlows ==
  ASSUME Streams, Streams', Flow, FeedVideo
  PROVE  Flow' /\ Backlog = 0 /\ Backlog' = 0
<1>1. /\ dvc /\ wire # <<>> /\ wire' = Tail(wire) /\ Len(got') = Len(got) + 1
      /\ UNCHANGED <<keyed, hooked, dvc, ciphered, esc, said, shown, iloCipher>>
  BY DEF FeedVideo, session, feeding, ilo, Streams
<1>2. Backlog = 0 /\ Len(wire) >= 1 /\ Len(wire') = Len(wire) - 1
  BY <1>1 DEF Flow, Counts, Streams
<1>3. Backlog' = 0
  BY <1>1, <1>2, Sizes DEF Backlog
<1>4. Len(got) + 1 <= Len(shown)
  BY <1>2, Sizes DEF Backlog
<1>5. Counts'
  BY <1>1, <1>3, <1>4, Sizes DEF Counts
<1>6. TextAhead'
  BY <1>3 DEF TextAhead
<1>7. StartsLast' /\ Matched' /\ Unused'
  BY <1>1 DEF Flow, StartsLast, Matched, Unused
<1> QED BY <1>2, <1>3, <1>5, <1>6, <1>7 DEF Flow

LEMMA IloTextFlows ==
  ASSUME Streams, Flow, NEW c \in TextBytes, IloText(c)
  PROVE  Flow' /\ shown = <<>> /\ got = <<>> /\ decrypter = iloCipher /\ Len(wire') = Backlog'
<1>1. /\ said' = Append(said, c) /\ wire' = Append(wire, [byte |-> c, tag |-> InClear])
      /\ UNCHANGED <<keyed, hooked, dvc, ciphered, esc, decrypter, got, shown, iloCipher>>
      /\ ~StartAt(said, Len(said))
  BY StartedIsAt DEF IloText, session, feeding
<1>2. shown = <<>> /\ ~dvc /\ got = <<>>
  BY <1>1 DEF Flow, StartsLast, Matched, Counts
<1>3. decrypter = iloCipher
  BY <1>2 DEF Flow, Unused
<1>4. /\ Len(said') = Len(said) + 1 /\ \A i \in 1 .. Len(said) : said'[i] = said[i]
      /\ said'[Len(said) + 1] = c
  BY <1>1 DEF Streams
<1>5. /\ Len(wire') = Len(wire) + 1 /\ \A i \in 1 .. Len(wire) : wire'[i] = wire[i]
      /\ wire'[Len(wire) + 1].byte = c
  BY <1>1, CipherTypes DEF Streams, Byte
<1>6. /\ Backlog = Len(wire) /\ Backlog' = Len(wire) + 1 /\ Fed' = Fed
      /\ Fed \in 0 .. Len(said) /\ Fed + Backlog = Len(said)
  BY <1>1, <1>2, <1>4, <1>5, Sizes DEF Backlog, Fed, Flow, Counts
<1>7. Counts'
  BY <1>1, <1>2, <1>4, <1>6, Sizes DEF Flow, Counts
<1>8. TextAhead'
  <2> SUFFICES ASSUME NEW j \in 1 .. Len(wire) + 1 PROVE wire'[j].byte = said'[Fed + j]
    BY <1>6 DEF TextAhead
  <2>1. CASE j = Len(wire) + 1
    BY <1>4, <1>5, <1>6, <2>1, Sizes
  <2>2. CASE j \in 1 .. Len(wire)
    <3>1. Fed + j \in 1 .. Len(said)
      BY <1>6, <2>2, Sizes
    <3> QED BY <1>4, <1>5, <1>6, <2>2, <3>1 DEF Flow, TextAhead
  <2> QED BY <2>1, <2>2, Sizes
<1>9. ASSUME NEW n \in 0 .. Len(said) PROVE StartAt(said', n) <=> StartAt(said, n)
  BY <1>4, Sizes, SMTT(30) DEF StartAt, At
<1>10. StartsLast'
  <2> SUFFICES ASSUME NEW n \in 1 .. Len(said) PROVE ~StartAt(said', n)
    BY <1>1, <1>2, <1>4, Sizes DEF StartsLast
  <2>1. CASE n = Len(said)
    BY <1>1, <1>9, <2>1, Sizes
  <2>2. CASE n \in 1 .. Len(said) - 1
    BY <1>9, <2>2, Sizes DEF Flow, StartsLast
  <2> QED BY <2>1, <2>2, Sizes
<1>11. Matched'
  <2>1. ~dvc' /\ esc' = esc
    BY <1>1, <1>2
  <2>2. ~StartAt(said', Fed')
    BY <1>2, <1>6, <1>9 DEF Flow, Matched
  <2>3. /\ Fed >= 1 => said'[Fed] = said[Fed]
        /\ Fed >= 2 => said'[Fed - 1] = said[Fed - 1]
    BY <1>4, <1>6, Sizes
  <2>4. /\ esc' = 1 <=> Fed' >= 1 /\ said'[Fed'] = "ESC"
        /\ esc' = 2 <=> Fed' >= 2 /\ said'[Fed' - 1] = "ESC" /\ said'[Fed'] = "["
    BY <1>2, <1>6, <2>1, <2>3 DEF Flow, Matched
  <2> QED BY <2>1, <2>2, <2>4 DEF Matched
<1>12. Unused'
  BY <1>1 DEF Flow, Unused
<1> QED
  BY <1>2, <1>3, <1>5, <1>6, <1>7, <1>8, <1>10, <1>11, <1>12 DEF Flow

LEMMA IloVideoFlows ==
  ASSUME Streams, Flow, NEW c \in VideoBytes, IloVideo(c)
  PROVE  Flow' /\ Backlog' = Backlog
<1>1. /\ shown' = Append(shown, c) /\ UNCHANGED <<dvc, ciphered, esc, decrypter, got, said>>
      /\ StartAt(said, Len(said))
  BY StartedIsAt DEF IloVideo, feeding
<1>2. /\ Len(wire') = Len(wire) + 1 /\ \A i \in 1 .. Len(wire) : wire'[i] = wire[i]
  BY CipherTypes DEF IloVideo, Streams, Byte
<1>3. Len(shown') = Len(shown) + 1 /\ shown' # <<>>
  <2>1. shown \in Seq(VideoBytes)
    BY DEF Streams
  <2> QED BY <1>1, <2>1
<1>4. Backlog' = Backlog /\ Fed' = Fed
  BY <1>1, <1>2, <1>3, Sizes DEF Backlog, Fed
<1>5. Counts'
  BY <1>1, <1>3, <1>4, Sizes DEF Flow, Counts
<1>6. Backlog <= Len(wire)
  BY Sizes DEF Flow, Counts, Backlog
<1>7. TextAhead'
  <2> SUFFICES ASSUME NEW j \in 1 .. Backlog PROVE wire'[j].byte = said[Fed + j]
    BY <1>1, <1>4 DEF TextAhead
  <2>1. wire'[j] = wire[j]
    BY <1>2, <1>6, Sizes
  <2> QED BY <2>1 DEF Flow, TextAhead
<1>8. StartsLast' /\ Matched' /\ Unused'
  BY <1>1, <1>3, <1>4 DEF Flow, StartsLast, Matched, Unused
<1> QED BY <1>4, <1>5, <1>7, <1>8 DEF Flow

\* No part of this looks at anything else.
LEMMA FlowUnchanged ==
  ASSUME Flow, Video, UNCHANGED <<hooked, keyed, feeding, decrypter, got, wire, ilo>>
  PROVE  Flow' /\ Video'
  BY DEF Flow, Counts, TextAhead, StartsLast, Matched, Unused, Video, InStep, Pictures,
         Chain, InTheClear, Enciphers, Backlog, Fed, feeding, ilo

LEMMA FeedTextVideo ==
  ASSUME Streams, Flow, Video, FeedText
  PROVE  Video'
<1>1. /\ ~dvc /\ wire # <<>> /\ wire' = Tail(wire)
      /\ UNCHANGED <<keyed, hooked, decrypter, got, said, shown, iloCipher>>
  BY DEF FeedText, session, ilo
<1>2. Backlog >= 1
  BY <1>1, TextIsThere
<1>3. Len(wire') = Len(wire) - 1 /\ Backlog' = Backlog - 1
  BY <1>1, Sizes DEF Backlog, Streams
<1>4. Backlog + (Len(shown) - Len(got)) = Len(wire) /\ Len(got) <= Len(shown)
  BY Sizes DEF Backlog, Flow, Counts
<1>5. \A i \in 1 .. Len(wire) - 1 : wire'[i] = wire[i + 1]
  BY <1>1 DEF Streams
<1>6. ASSUME NEW j \in 1 .. Len(shown) - Len(got)
      PROVE  wire'[Backlog' + j] = wire[Backlog + j]
  <2>1. Backlog' + j \in 1 .. Len(wire) - 1 /\ Backlog' + j + 1 = Backlog + j
    BY <1>2, <1>3, <1>4, Sizes, SMTT(30)
  <2> QED BY <1>5, <2>1
<1>7. Enciphers' = Enciphers /\ InStep' = InStep
  BY <1>1 DEF Enciphers, InStep
<1>8. Pictures => Pictures'
  BY <1>1, <1>6 DEF Pictures
<1>9. InTheClear => InTheClear'
  BY <1>1, <1>6 DEF InTheClear
<1>10. ASSUME Chain PROVE Chain'
  <2>1. ASSUME NEW j \in 1 .. Len(shown) - Len(got) - 1
        PROVE  wire'[Backlog' + j + 1].tag
                 = NextKey(wire'[Backlog' + j].tag, wire'[Backlog' + j].byte)
    <3>1. wire'[Backlog' + j] = wire[Backlog + j]
      BY <1>6, Sizes, SMTT(30)
    <3>2. wire'[Backlog' + (j + 1)] = wire[Backlog + (j + 1)]
      BY <1>6, Sizes, SMTT(30)
    <3>3. Backlog' + j + 1 = Backlog' + (j + 1) /\ Backlog + j + 1 = Backlog + (j + 1)
      BY <1>3, Sizes
    <3> QED BY <1>10, <3>1, <3>2, <3>3 DEF Chain
  <2>2. ASSUME Len(wire') > Backlog'
        PROVE  /\ wire'[Backlog' + 1] = wire[Backlog + 1]
               /\ wire'[Len(wire')] = wire[Len(wire)] /\ Len(wire) > Backlog
    <3>1. Len(wire) > Backlog
      BY <1>3, <2>2, Sizes
    <3>2. /\ Backlog \in 1 .. Len(wire) - 1 /\ Backlog' + 1 = Backlog
          /\ Len(wire) - 1 \in 1 .. Len(wire) - 1 /\ Len(wire) - 1 + 1 = Len(wire)
      BY <1>2, <1>3, <3>1, Sizes
    <3> QED BY <1>3, <1>5, <3>1, <3>2
  <2>3. Len(wire') = Backlog' => Len(wire) = Backlog
    BY <1>3, Sizes
  <2> QED BY <1>1, <1>10, <2>1, <2>2, <2>3 DEF Chain
<1> QED BY <1>7, <1>8, <1>9, <1>10 DEF Video

\* In step, the next byte of video reads as what it is.
LEMMA HeadIsRead ==
  ASSUME LinkFlags, Streams, Streams', Flow, Video, InStep, FeedVideo
  PROVE  Plain = {NextByte}
<1>1. dvc /\ wire # <<>> /\ Backlog = 0
  BY FeedVideoFlows DEF FeedVideo
<1>2. Len(wire) >= 1 /\ Head(wire) = wire[1] /\ Len(shown) - Len(got) = Len(wire)
  BY <1>1, Sizes DEF Backlog, Streams
<1>3. Deciphers <=> Enciphers
  BY <1>1 DEF Deciphers, Enciphers, Flow, Matched
<1>4. IF Enciphers THEN Chain ELSE InTheClear
  BY DEF Video
<1>5. CASE Enciphers
  BY <1>1, <1>2, <1>3, <1>4, <1>5, Sizes DEF Chain, Plain, NextByte
<1>6. CASE ~Enciphers
  <2>1. wire[1].tag = InClear
    BY <1>1, <1>2, <1>4, <1>6, Sizes DEF InTheClear
  <2> QED BY <1>2, <1>3, <1>6, <2>1 DEF Plain
<1> QED BY <1>5, <1>6

LEMMA FeedVideoVideo ==
  ASSUME LinkFlags, Streams, Streams', Flow, Video, FeedVideo
  PROVE  Video'
<1> SUFFICES ASSUME InStep' PROVE Pictures' /\ (IF Enciphers' THEN Chain' ELSE InTheClear')
  BY DEF Video
<1> DEFINE n == Len(got)
<1>1. /\ dvc /\ wire # <<>> /\ wire' = Tail(wire)
      /\ UNCHANGED <<keyed, hooked, dvc, ciphered, said, shown, iloCipher>>
  BY DEF FeedVideo, session, feeding, ilo
<1>2. Backlog = 0 /\ Backlog' = 0
  BY FeedVideoFlows
<1>3. Enciphers' = Enciphers /\ InStep
  BY <1>1 DEF Enciphers, InStep
<1>4. Pictures /\ (IF Enciphers THEN Chain ELSE InTheClear)
  BY <1>3 DEF Video
<1>5. /\ Len(wire) >= 1 /\ Len(wire') = Len(wire) - 1 /\ Head(wire) = wire[1]
      /\ \A i \in 1 .. Len(wire) - 1 : wire'[i] = wire[i + 1]
  BY <1>1 DEF Streams
<1>6. Len(shown) - n = Len(wire)
  BY <1>2, Sizes DEF Backlog
<1>7. n + 1 \in 1 .. Len(shown) /\ wire[1].byte = shown[n + 1]
  <2>1. wire[Backlog + 1].byte = shown[Len(got) + 1]
    BY <1>4, <1>5, <1>6, Sizes, SMTT(30) DEF Pictures
  <2> QED BY <1>2, <1>5, <1>6, <2>1, Sizes
<1>8. Deciphers <=> Enciphers
  BY <1>1 DEF Deciphers, Enciphers, Flow, Matched
<1>9. Plain = {shown[n + 1]}
  BY <1>3, <1>5, <1>7, HeadIsRead DEF NextByte
<1>10. got' = Append(got, shown[n + 1])
  BY <1>9 DEF FeedVideo
<1>11. ASSUME Enciphers PROVE decrypter' = NextKey(decrypter, shown[n + 1])
  <2>1. Updated(Used(decrypter)) = Updated(decrypter)
    BY DEF Updated, Used, Streams, Cipher
  <2>2. shown[n + 1] = "rekey" => hooked /\ keyed
    BY <1>3, <1>7, <1>11 DEF InStep, Enciphers, Streams
  <2>3. Rekeys(shown[n + 1]) <=> shown[n + 1] = "rekey"
    BY <2>2 DEF Rekeys
  <2>4. decrypter' = IF Rekeys(shown[n + 1]) THEN Updated(Used(decrypter))
                     ELSE Used(decrypter)
    BY <1>8, <1>9, <1>11 DEF FeedVideo
  <2> QED BY <2>1, <2>3, <2>4 DEF NextKey
<1>12. Len(got') = n + 1 /\ (\A i \in 1 .. n : got'[i] = got[i]) /\ got'[n + 1] = shown[n + 1]
  BY <1>7, <1>10 DEF Streams
<1>13. Pictures'
  <2>1. \A i \in 1 .. n + 1 : got'[i] = shown[i]
    BY <1>4, <1>12, Sizes DEF Pictures
  <2>2. ASSUME NEW j \in 1 .. Len(shown) - (n + 1)
        PROVE  wire'[0 + j].byte = shown[n + 1 + j]
    <3>1. wire'[j] = wire[j + 1] /\ j + 1 \in 1 .. Len(shown) - n
      BY <1>5, <1>6, Sizes
    <3>2. wire[0 + (j + 1)].byte = shown[n + (j + 1)]
      BY <1>2, <1>4, <3>1 DEF Pictures
    <3> QED BY <3>1, <3>2, Sizes
  <2> QED BY <1>1, <1>2, <1>12, <2>1, <2>2 DEF Pictures
<1>14. ASSUME ~Enciphers PROVE InTheClear'
  <2>1. ASSUME NEW j \in 1 .. Len(shown) - (n + 1) PROVE wire'[0 + j].tag = InClear
    <3>1. wire'[j] = wire[j + 1] /\ j + 1 \in 1 .. Len(shown) - n
      BY <1>5, <1>6, Sizes
    <3>2. wire[0 + (j + 1)].tag = InClear
      BY <1>2, <1>4, <1>14, <3>1 DEF InTheClear
    <3> QED BY <3>1, <3>2, Sizes
  <2> QED BY <1>1, <1>2, <1>4, <1>12, <1>14, <2>1 DEF InTheClear
<1>15. ASSUME Enciphers PROVE Chain'
  <2>1. decrypter' = NextKey(wire[1].tag, wire[1].byte)
    BY <1>2, <1>4, <1>5, <1>7, <1>11, <1>15, Sizes DEF Chain
  <2>2. ASSUME NEW j \in 1 .. Len(wire) - 1
        PROVE  wire[j + 1].tag = NextKey(wire[j].tag, wire[j].byte)
    BY <1>2, <1>4, <1>6, <1>15, Sizes DEF Chain
  <2>3. ASSUME NEW j \in 1 .. Len(shown) - (n + 1) - 1
        PROVE  wire'[0 + j + 1].tag = NextKey(wire'[0 + j].tag, wire'[0 + j].byte)
    <3>1. j \in 1 .. Len(wire) - 1 /\ j + 1 \in 1 .. Len(wire) - 1
      BY <1>6, Sizes
    <3>2. wire'[j] = wire[j + 1] /\ wire'[j + 1] = wire[(j + 1) + 1]
      BY <1>5, <3>1
    <3> QED BY <2>2, <3>1, <3>2
  <2>4. ASSUME Len(wire') > 0
        PROVE  /\ wire'[1].tag = decrypter'
               /\ iloCipher = NextKey(wire'[Len(wire')].tag, wire'[Len(wire')].byte)
    <3>1. wire'[1] = wire[2] /\ wire'[Len(wire')] = wire[Len(wire)]
      BY <1>5, <2>4, Sizes
    <3>2. wire[2].tag = NextKey(wire[1].tag, wire[1].byte)
      BY <1>5, <2>2, <2>4, Sizes
    <3>3. iloCipher = NextKey(wire[Len(wire)].tag, wire[Len(wire)].byte)
      BY <1>2, <1>4, <1>5, <1>15, Sizes DEF Chain
    <3> QED BY <2>1, <3>1, <3>2, <3>3
  <2>5. ASSUME Len(wire') = 0 PROVE iloCipher = decrypter'
    <3>1. Len(wire) = 1
      BY <1>5, <2>5, Sizes
    <3>2. iloCipher = NextKey(wire[1].tag, wire[1].byte)
      BY <1>2, <1>4, <1>15, <3>1 DEF Chain
    <3> QED BY <2>1, <3>2
  <2>6. iloCipher' = iloCipher /\ Backlog' + 1 = 1 /\ Len(shown') = Len(shown)
    BY <1>1, <1>2
  <2> QED BY <1>2, <1>12, <2>3, <2>4, <2>5, <2>6 DEF Chain
<1> QED BY <1>3, <1>13, <1>14, <1>15

LEMMA IloTextVideo ==
  ASSUME Streams, Flow, NEW c \in TextBytes, IloText(c)
  PROVE  Video'
<1>1. /\ shown' = <<>> /\ got' = <<>> /\ decrypter' = iloCipher' /\ Len(wire') = Backlog'
  BY IloTextFlows DEF IloText
<1>2. Backlog' = Len(wire) + 1
  BY <1>1, CipherTypes DEF IloText, Streams, Byte
<1>3. Len(shown') - Len(got') = 0
  BY <1>1
<1> QED
  BY <1>1, <1>2, <1>3, Sizes DEF Video, Pictures, Chain, InTheClear

LEMMA IloVideoVideo ==
  ASSUME Streams, Flow, Video, NEW c \in VideoBytes, IloVideo(c)
  PROVE  Video'
<1> SUFFICES ASSUME InStep' PROVE Pictures' /\ (IF Enciphers' THEN Chain' ELSE InTheClear')
  BY DEF Video
<1> DEFINE t == IF Enciphers THEN iloCipher ELSE InClear
           n == Len(shown) - Len(got)
<1>1. /\ shown' = Append(shown, c) /\ UNCHANGED <<keyed, hooked, decrypter, got, said>>
      /\ (c = "rekey" => Enciphers)
      /\ wire' = Append(wire, [byte |-> c, tag |-> t])
      /\ iloCipher' = IF c = "rekey" THEN Updated(iloCipher)
                      ELSE IF Enciphers THEN Used(iloCipher) ELSE iloCipher
  BY StartedIsAt DEF IloVideo, session
<1>2. [byte |-> c, tag |-> t] \in Byte
  BY CipherTypes DEF Streams, Byte
<1>3. /\ Len(shown') = Len(shown) + 1 /\ shown'[Len(shown) + 1] = c
      /\ \A i \in 1 .. Len(shown) : shown'[i] = shown[i]
      /\ DOMAIN shown = 1 .. Len(shown) /\ DOMAIN shown' = 1 .. Len(shown) + 1
  <2>1. shown \in Seq(VideoBytes)
    BY DEF Streams
  <2> QED BY <1>1, <2>1
<1>4. /\ Len(wire') = Len(wire) + 1 /\ \A i \in 1 .. Len(wire) : wire'[i] = wire[i]
      /\ wire'[Len(wire) + 1].byte = c /\ wire'[Len(wire) + 1].tag = t
  <2>1. wire \in Seq(Byte)
    BY DEF Streams
  <2>2. wire'[Len(wire) + 1] = [byte |-> c, tag |-> t]
    BY <1>1, <1>2, <2>1
  <2> HIDE DEF t
  <2> QED BY <1>1, <1>2, <2>1, <2>2
<1>5. InStep
  BY <1>1, <1>3, Sizes DEF InStep
<1>6. Pictures /\ (IF Enciphers THEN Chain ELSE InTheClear) /\ (Enciphers' <=> Enciphers)
  BY <1>1, <1>5 DEF Video, Enciphers
<1>7. /\ Backlog' = Backlog /\ Backlog \in Nat /\ n \in Nat /\ Backlog + n = Len(wire)
      /\ Len(shown') - Len(got') = n + 1 /\ Len(got) + n = Len(shown) /\ Len(got) \in Nat
  <2>1. Backlog' = Backlog /\ Len(got') = Len(got)
    BY <1>1, IloVideoFlows
  <2>2. Len(got) <= Len(shown) /\ Backlog >= 0
    BY DEF Flow, Counts
  <2>3. Backlog \in Nat /\ Backlog + n = Len(wire)
    BY <2>2, Sizes DEF Backlog
  <2> QED BY <1>3, <2>1, <2>2, <2>3, Sizes
<1> HIDE DEF t, n
<1>8. ASSUME NEW j \in 1 .. n PROVE wire'[Backlog + j] = wire[Backlog + j]
  <2>1. Backlog + j \in 1 .. Len(wire)
    BY <1>7
  <2> QED BY <1>4, <2>1
<1>9. Pictures'
  <2>1. ASSUME NEW j \in 1 .. n + 1 PROVE wire'[Backlog + j].byte = shown'[Len(got) + j]
    <3>1. CASE j = n + 1
      <4>1. Backlog + j = Len(wire) + 1 /\ Len(got) + j = Len(shown) + 1
        BY <1>7, <3>1
      <4> QED BY <1>3, <1>4, <4>1
    <3>2. CASE j \in 1 .. n
      <4>1. Len(got) + j \in 1 .. Len(shown)
        BY <1>7, <3>2
      <4>2. wire[Backlog + j].byte = shown[Len(got) + j]
        BY <1>6, <3>2 DEF Pictures, n
      <4> QED BY <1>3, <1>8, <3>2, <4>1, <4>2
    <3> QED BY <1>7, <3>1, <3>2
  <2>2. \A i \in 1 .. Len(got) : got[i] = shown'[i]
    BY <1>3, <1>6, <1>7, Sizes DEF Pictures
  <2> QED BY <1>1, <1>7, <2>1, <2>2 DEF Pictures
<1>10. ASSUME ~Enciphers PROVE InTheClear'
  <2>1. ASSUME NEW j \in 1 .. n + 1 PROVE wire'[Backlog + j].tag = InClear
    <3>1. CASE j = n + 1
      <4>1. Backlog + j = Len(wire) + 1
        BY <1>7, <3>1
      <4> QED BY <1>4, <1>10, <4>1 DEF t
    <3>2. CASE j \in 1 .. n
      BY <1>6, <1>8, <1>10, <3>2 DEF InTheClear, n
    <3> QED BY <1>7, <3>1, <3>2
  <2>2. \A i \in DOMAIN shown' : shown'[i] # "rekey"
    BY <1>1, <1>3, <1>6, <1>10, Sizes DEF InTheClear
  <2> QED BY <1>7, <2>1, <2>2 DEF InTheClear
<1>11. ASSUME Enciphers PROVE Chain'
  <2>1. t = iloCipher /\ iloCipher' = NextKey(iloCipher, c)
    BY <1>1, <1>11 DEF NextKey, t
  <2>2. ASSUME NEW j \in 1 .. n
        PROVE  wire'[Backlog + j + 1].tag
                 = NextKey(wire'[Backlog + j].tag, wire'[Backlog + j].byte)
    <3>1. CASE j = n
      <4>1. Backlog + j + 1 = Len(wire) + 1 /\ Backlog + j = Len(wire) /\ Len(wire) > Backlog
        BY <1>7, <3>1
      <4>2. iloCipher = NextKey(wire[Len(wire)].tag, wire[Len(wire)].byte)
        BY <1>6, <1>11, <4>1 DEF Chain
      <4>3. wire'[Len(wire)] = wire[Len(wire)]
        BY <1>8, <4>1
      <4> QED BY <1>4, <2>1, <4>1, <4>2, <4>3
    <3>2. CASE j \in 1 .. n - 1
      <4>1. j + 1 \in 1 .. n /\ Backlog + j + 1 = Backlog + (j + 1)
        BY <1>7, <3>2
      <4>2. wire[Backlog + j + 1].tag = NextKey(wire[Backlog + j].tag, wire[Backlog + j].byte)
        BY <1>6, <1>11, <3>2 DEF Chain, n
      <4> QED BY <1>8, <4>1, <4>2
    <3> QED BY <1>7, <3>1, <3>2
  <2>3. wire'[Backlog + 1].tag = decrypter
    <3>1. CASE n = 0
      <4>1. Len(wire) = Backlog
        BY <1>7, <3>1
      <4> QED BY <1>4, <1>6, <1>11, <2>1, <4>1 DEF Chain
    <3>2. CASE n > 0
      <4>1. 1 \in 1 .. n /\ Len(wire) > Backlog
        BY <1>7, <3>2
      <4> QED BY <1>6, <1>8, <1>11, <4>1 DEF Chain
    <3> QED BY <1>7, <3>1, <3>2
  <2>4. iloCipher' = NextKey(wire'[Len(wire')].tag, wire'[Len(wire')].byte)
    BY <1>4, <2>1
  <2>5. ~(Len(wire') = Backlog') /\ Len(shown') - Len(got') - 1 = n
    BY <1>4, <1>7
  <2> QED BY <1>1, <1>7, <2>2, <2>3, <2>4, <2>5 DEF Chain
<1> QED BY <1>6, <1>9, <1>10, <1>11

LEMMA ReceivingInductive ==
  LinkFlags /\ Streams /\ Streams' /\ Flow /\ Video /\ [Next]_vars => Flow' /\ Video'
<1> SUFFICES ASSUME LinkFlags, Streams, Streams', Flow, Video, [Next]_vars
             PROVE  Flow' /\ Video'
  OBVIOUS
<1>1. CASE Connect \/ Login \/ Send
  BY <1>1, FlowUnchanged DEF Connect, Login, Send
<1>2. CASE FeedText
  BY <1>2, FeedTextFlows, FeedTextVideo
<1>3. CASE FeedVideo
  BY <1>3, FeedVideoFlows, FeedVideoVideo
<1>4. CASE \E c \in TextBytes : IloText(c)
  BY <1>4, IloTextFlows, IloTextVideo
<1>5. CASE \E c \in VideoBytes : IloVideo(c)
  BY <1>5, IloVideoFlows, IloVideoVideo
<1>6. CASE IloReads \/ UNCHANGED vars
  BY <1>6, FlowUnchanged DEF IloReads, vars, session
<1> QED
  BY <1>1, <1>2, <1>3, <1>4, <1>5, <1>6 DEF Next, Client, Ilo

\* Where the streams are, in every reachable state.
LEMMA ReceivingHolds == Spec => [](Flow /\ Video)
<1>1. Init => Flow
  BY DEF Init, Flow, Counts, TextAhead, StartsLast, Matched, Unused, Backlog, Fed,
         StartAt, At
<1>2. Init => Video
  BY DEF Init, Video, Pictures, Chain, InTheClear, Backlog
<1> QED
  BY <1>1, <1>2, LinkTypes, ReceivingInductive, PTL DEF Spec

\* The decoder gets exactly the bytes the iLO enciphered, after any text with any
\* false starts of ESC [ R, and across any number of changes of keys.
THEOREM DecoderGetsVideo == Spec => []DecoderSeesVideo
<1>1. Streams /\ Flow /\ Video => DecoderSeesVideo
  <2> SUFFICES ASSUME Streams, Flow, Video, InStep
               PROVE  Len(got) <= Len(shown) /\ got = SubSeq(shown, 1, Len(got))
    BY DEF DecoderSeesVideo
  <2> DEFINE u == SubSeq(shown, 1, Len(got))
             S == TextBytes \cup VideoBytes \cup {"garbage"}
  <2>1. Len(got) <= Len(shown) /\ \A i \in 1 .. Len(got) : got[i] = shown[i]
    BY DEF Flow, Counts, Video, Pictures
  <2>2. got \in Seq(S) /\ shown \in Seq(S)
    BY DEF Streams
  <2>3. u \in Seq(S) /\ Len(u) = Len(got) /\ \A i \in 1 .. Len(got) : u[i] = shown[i]
    BY <2>1, <2>2
  <2> HIDE DEF u, S
  <2>4. got = u
    BY <2>1, <2>2, <2>3, SeqEqual
  <2> QED BY <2>1, <2>4 DEF u
<1> QED
  BY <1>1, LinkTypes, ReceivingHolds, PTL

-----------------------------------------------------------------------------
(***************************************************************************)
(* Sending.  Both ends change both keys together, so the two directions    *)
(* have the same key number at either end; whether the client is behind    *)
(* the iLO is then a question of the video that is on the wire, which the  *)
(* invariant of receiving answers.  While a command 9 is under way nothing *)
(* of the client's is (or the two have crossed), and when the last one is  *)
(* read both ends are at the start of the same key.                        *)
(***************************************************************************)

\* Keys change in pairs.
Paired ==
  /\ encrypter.key = decrypter.key /\ decrypter.key >= 1
  /\ iloDecrypter.key = iloCipher.key

\* Video on the wire with no command 9 from it on is under the iLO's present key.
Quiet(j)  == \A i \in j .. Len(wire) : wire[i].byte # "rekey"
LateKeys == \A j \in 1 .. Len(wire) :
              wire[j].tag.key # 0 /\ Quiet(j) => wire[j].tag.key = iloCipher.key

\* A command 9 on the wire is enciphered and part of what the iLO showed.
RekeyShown == Rekeying => keyed /\ \E i \in DOMAIN shown : shown[i] = "rekey"

\* The login is longer than its preamble, and the iLO reads no more than was sent.
Lengths == (keyed /\ loggedIn => Len(out) > Preamble) /\ Len(heard) <= Len(out)

\* The bytes under way are the ones the iLO expects, and the encrypter is ready
\* for the one after them.
Awaited ==
  /\ \A i \in Len(heard) + 1 .. Len(out) : out[i] = Expected(i)
  /\ keyed /\ loggedIn => encrypter = Expected(Len(out) + 1)

Outgoing ==
  InStep /\ ~crossed =>
    /\ \A i \in 1 .. Len(heard) : heard[i] = out[i]
    /\ IF Rekeying THEN Len(heard) = Len(out) /\ iloDecrypter.pos = 0 ELSE Awaited

\* The login: a clear preamble and one enciphered byte, or one clear byte.
LEMMA LoginTags ==
  ASSUME Streams, Silent, Announced, Login
  PROVE  /\ keyed' = keyed /\ loggedIn'
         /\ keyed => /\ out' \in Seq(Cipher) /\ Len(out') = Preamble + 1
                     /\ \A i \in 1 .. Preamble : out'[i] = InClear
                     /\ out'[Preamble + 1] = Fresh /\ encrypter' = Used(Fresh)
         /\ ~keyed => \A i \in DOMAIN out' : out'[i] = InClear
<1> USE DEF Preamble
<1>1. keyed' = keyed /\ loggedIn' /\ ~loggedIn /\ announcing = keyed
  BY DEF Login
<1>2. encrypter = Fresh /\ out = <<>>
  BY <1>1 DEF Silent
<1>3. ASSUME keyed
      PROVE  /\ out' \in Seq(Cipher) /\ Len(out') = 7
             /\ \A i \in 1 .. 6 : out'[i] = InClear
             /\ out'[7] = Fresh /\ encrypter' = Used(Fresh)
  <2>1. out' = <<>> \o Tags(7, 6) /\ encrypter' = [Fresh EXCEPT !.pos = @ + (7 - 6)]
    BY <1>1, <1>2, <1>3 DEF Login, Transmit
  <2>2. Tags(7, 6) \in Seq(Cipher) /\ Len(Tags(7, 6)) = 7
    BY TagsType DEF Streams
  <2>3. \A i \in 1 .. 6 : Tags(7, 6)[i] = InClear
    BY <1>3 DEF Tags
  <2>4. Tags(7, 6)[7] = [Fresh EXCEPT !.pos = @ + (7 - 6 - 1)]
    BY <1>2, <1>3 DEF Tags
  <2>5. [Fresh EXCEPT !.pos = @ + (7 - 6 - 1)] = Fresh
        /\ [Fresh EXCEPT !.pos = @ + (7 - 6)] = Used(Fresh)
    BY DEF Fresh, Used
  <2>6. out' = Tags(7, 6)
    BY <2>1, <2>2
  <2> QED BY <2>1, <2>2, <2>3, <2>4, <2>5, <2>6
<1>4. ASSUME ~keyed PROVE \A i \in DOMAIN out' : out'[i] = InClear
  <2>1. out' = <<>> \o Tags(1, 0)
    BY <1>1, <1>2, <1>4 DEF Login, Transmit
  <2>2. Tags(1, 0) \in Seq(Cipher) /\ Len(Tags(1, 0)) = 1
    BY TagsType DEF Streams
  <2>3. \A i \in 1 .. 1 : Tags(1, 0)[i] = InClear
    BY <1>4 DEF Tags
  <2> QED BY <2>1, <2>2, <2>3
<1> QED BY <1>1, <1>3, <1>4

\* A later message is one byte under the encrypter.
LEMMA SendTags ==
  ASSUME Streams, Announced, Send
  PROVE  /\ keyed' = keyed /\ loggedIn' = loggedIn
         /\ out' = Append(out, IF keyed THEN encrypter ELSE InClear)
         /\ encrypter' = IF keyed THEN Used(encrypter) ELSE encrypter
<1>1. ~announcing /\ UNCHANGED <<keyed, loggedIn>>
  BY DEF Announced, Send
<1>2. /\ out' = out \o Tags(1, 0)
      /\ encrypter' = IF keyed THEN [encrypter EXCEPT !.pos = @ + (1 - 0)] ELSE encrypter
  BY <1>1 DEF Send, Transmit
<1>3. Tags(1, 0) = <<IF keyed THEN encrypter ELSE InClear>>
  <2>1. [encrypter EXCEPT !.pos = @ + (1 - 0 - 1)] = encrypter
    BY DEF Streams, Cipher
  <2>2. Tags(1, 0)[1] = IF keyed THEN encrypter ELSE InClear
    BY <2>1 DEF Tags
  <2>3. Tags(1, 0) \in Seq(Cipher) /\ Len(Tags(1, 0)) = 1
    BY TagsType DEF Streams
  <2> QED BY <2>2, <2>3
<1>4. out \o <<IF keyed THEN encrypter ELSE InClear>>
        = Append(out, IF keyed THEN encrypter ELSE InClear)
  BY CipherTypes DEF Streams
<1>5. [encrypter EXCEPT !.pos = @ + (1 - 0)] = Used(encrypter)
  BY DEF Streams, Cipher, Used
<1> QED BY <1>1, <1>2, <1>3, <1>4, <1>5

LEMMA KeyKept ==
  ASSUME NEW k \in Cipher
  PROVE  /\ Used(k).key = k.key /\ Updated(k).key = k.key + 1 /\ Updated(k).pos = 0
         /\ \A n : [k EXCEPT !.pos = @ + n].key = k.key
  BY DEF Cipher, Used, Updated

LEMMA PairedInductive ==
  Streams /\ Silent /\ Lengths /\ Paired /\ [Next]_vars => Paired'
<1> SUFFICES ASSUME Streams, Silent, Lengths, Paired, [Next]_vars PROVE Paired'
  OBVIOUS
<1> USE DEF Paired, sending, ilo, iloIn
<1>1. CASE Login \/ Send
  <2>1. UNCHANGED <<decrypter, iloDecrypter, iloCipher>>
    BY <1>1 DEF Login, Send
  <2>2. PICK n : Transmit(n)
    BY <1>1 DEF Login, Send
  <2>3. PICK m : encrypter' = encrypter \/ encrypter' = [encrypter EXCEPT !.pos = @ + m]
    BY <2>2 DEF Transmit
  <2>4. encrypter'.key = encrypter.key
    BY <2>3 DEF Streams, Cipher
  <2> QED BY <2>1, <2>4
<1>2. CASE FeedVideo
  <2>1. PICK b \in Plain :
          LET after == IF Deciphers THEN Used(decrypter) ELSE decrypter IN
          /\ decrypter' = IF Rekeys(b) THEN Updated(after) ELSE after
          /\ encrypter' = IF Rekeys(b) THEN Updated(encrypter) ELSE encrypter
    BY <1>2 DEF FeedVideo
  <2>2. /\ Used(decrypter) \in Cipher /\ Used(decrypter).key = decrypter.key
        /\ decrypter \in Cipher /\ encrypter \in Cipher /\ decrypter.key \in Nat
    BY KeyKept, CipherTypes DEF Streams, Cipher
  <2>3. /\ decrypter'.key = IF Rekeys(b) THEN decrypter.key + 1 ELSE decrypter.key
        /\ encrypter'.key = IF Rekeys(b) THEN encrypter.key + 1 ELSE encrypter.key
    BY <2>1, <2>2, KeyKept
  <2>4. UNCHANGED <<iloDecrypter, iloCipher>>
    BY <1>2 DEF FeedVideo
  <2> QED BY <2>2, <2>3, <2>4
<1>3. CASE \E c \in VideoBytes : IloVideo(c)
  <2>1. UNCHANGED <<encrypter, decrypter>>
    BY <1>3 DEF IloVideo
  <2>2. iloDecrypter'.key = iloCipher'.key
    BY <1>3, KeyKept DEF IloVideo, Streams
  <2> QED BY <2>1, <2>2
<1>4. CASE IloReads
  <2>1. UNCHANGED <<encrypter, decrypter, iloCipher>>
    BY <1>4 DEF IloReads
  <2>2. iloDecrypter'.key = iloDecrypter.key
    <3>1. CASE ~keyed
      BY <1>4, <3>1 DEF IloReads
    <3>2. CASE keyed
      <4>1. loggedIn /\ ~(Len(out) + 1 <= Preamble)
        BY <1>4, <3>2 DEF IloReads, Silent, Lengths, Preamble, Streams
      <4> QED BY <1>4, <3>2, <4>1, KeyKept DEF IloReads, Expected, Streams
    <3> QED BY <3>1, <3>2
  <2> QED BY <2>1, <2>2
<1>5. CASE Connect \/ FeedText \/ (\E c \in TextBytes : IloText(c)) \/ UNCHANGED vars
  BY <1>5 DEF Connect, FeedText, IloText, vars
<1> QED
  BY <1>1, <1>2, <1>3, <1>4, <1>5 DEF Next, Client, Ilo

\* One byte less on the wire, or one more.
LEMMA WirePops ==
  ASSUME Streams, wire # <<>>, wire' = Tail(wire)
  PROVE  /\ Len(wire) \in Nat /\ Len(wire) >= 1 /\ Len(wire') = Len(wire) - 1
         /\ DOMAIN wire = 1 .. Len(wire) /\ DOMAIN wire' = 1 .. Len(wire) - 1
         /\ \A i \in 1 .. Len(wire) - 1 : wire'[i] = wire[i + 1]
         /\ Head(wire) = wire[1]
  BY DEF Streams

LEMMA WireGrows ==
  ASSUME Streams, NEW x \in Byte, wire' = Append(wire, x)
  PROVE  /\ Len(wire) \in Nat /\ Len(wire') = Len(wire) + 1
         /\ DOMAIN wire = 1 .. Len(wire) /\ DOMAIN wire' = 1 .. Len(wire) + 1
         /\ \A i \in 1 .. Len(wire) : wire'[i] = wire[i]
         /\ wire'[Len(wire) + 1] = x
  BY DEF Streams

LEMMA LateKeysInductive == Streams /\ LateKeys /\ [Next]_vars => LateKeys'
<1> SUFFICES ASSUME Streams, LateKeys, [Next]_vars PROVE LateKeys'
  OBVIOUS
<1> USE DEF ilo
<1>1. CASE wire # <<>> /\ wire' = Tail(wire) /\ UNCHANGED iloCipher
  <2> SUFFICES ASSUME NEW j \in 1 .. Len(wire'), wire'[j].tag.key # 0, Quiet(j)'
               PROVE  wire'[j].tag.key = iloCipher.key
    BY <1>1 DEF LateKeys
  <2>1. j \in 1 .. Len(wire) - 1 /\ j + 1 \in 1 .. Len(wire) /\ wire'[j] = wire[j + 1]
    BY <1>1, WirePops
  <2>2. Quiet(j + 1)
    <3> SUFFICES ASSUME NEW i \in j + 1 .. Len(wire) PROVE wire[i].byte # "rekey"
      BY DEF Quiet
    <3>1. i - 1 \in j .. Len(wire') /\ wire'[i - 1] = wire[i]
      BY <1>1, <2>1, WirePops
    <3> QED BY <3>1 DEF Quiet
  <2> QED BY <2>1, <2>2 DEF LateKeys
<1>2. CASE \E c \in TextBytes : IloText(c)
  <2>1. PICK c \in TextBytes : IloText(c)
    BY <1>2
  <2> DEFINE x == [byte |-> c, tag |-> InClear]
  <2>2. x \in Byte /\ wire' = Append(wire, x) /\ iloCipher' = iloCipher
        /\ x.tag.key = 0
    BY <2>1, CipherTypes DEF IloText, Byte, InClear
  <2> HIDE DEF x
  <2> SUFFICES ASSUME NEW j \in 1 .. Len(wire'), wire'[j].tag.key # 0, Quiet(j)'
               PROVE  wire'[j].tag.key = iloCipher.key
    BY <2>2 DEF LateKeys
  <2>3. j \in 1 .. Len(wire) /\ wire'[j] = wire[j]
    BY <2>2, WireGrows
  <2>4. Quiet(j)
    BY <2>2, <2>3, WireGrows DEF Quiet
  <2> QED BY <2>3, <2>4 DEF LateKeys
<1>3. CASE \E c \in VideoBytes : IloVideo(c)
  <2>1. PICK c \in VideoBytes : IloVideo(c)
    BY <1>3
  <2> DEFINE e == keyed /\ Ends(said, "R")
             x == [byte |-> c, tag |-> IF e THEN iloCipher ELSE InClear]
  <2>2. /\ x \in Byte /\ wire' = Append(wire, x) /\ x.byte = c
        /\ (x.tag = iloCipher \/ x.tag.key = 0)
        /\ (c # "rekey" => iloCipher' \in {iloCipher, Used(iloCipher)})
    BY <2>1, CipherTypes DEF IloVideo, Byte, InClear, Streams
  <2>3. c # "rekey" => iloCipher'.key = iloCipher.key
    BY <2>2, KeyKept DEF Streams
  <2> HIDE DEF x, e
  <2> SUFFICES ASSUME NEW j \in 1 .. Len(wire'), wire'[j].tag.key # 0, Quiet(j)'
               PROVE  wire'[j].tag.key = iloCipher'.key
    BY DEF LateKeys
  <2>4. c # "rekey"
    <3>1. Len(wire) + 1 \in j .. Len(wire') /\ wire'[Len(wire) + 1] = x
      BY <2>2, WireGrows
    <3> QED BY <2>2, <3>1 DEF Quiet
  <2>5. CASE j = Len(wire) + 1
    BY <2>2, <2>3, <2>4, <2>5, WireGrows
  <2>6. CASE j \in 1 .. Len(wire)
    <3>1. wire'[j] = wire[j] /\ Quiet(j)
      BY <2>2, <2>6, WireGrows DEF Quiet
    <3> QED BY <2>3, <2>4, <2>6, <3>1 DEF LateKeys
  <2> QED BY <2>2, <2>5, <2>6, WireGrows
<1>4. CASE UNCHANGED <<wire, iloCipher>>
  BY <1>4 DEF LateKeys, Quiet
<1> QED
  BY <1>1, <1>2, <1>3, <1>4
  DEF Next, Client, Ilo, Connect, Login, Send, FeedText, FeedVideo, IloReads, vars

LEMMA RekeyShownInductive == Streams /\ RekeyShown /\ [Next]_vars => RekeyShown'
<1> SUFFICES ASSUME Streams, RekeyShown, [Next]_vars, Rekeying'
             PROVE  keyed' /\ \E i \in DOMAIN shown' : shown'[i] = "rekey"
  BY DEF RekeyShown
<1> USE DEF ilo, session
<1>1. CASE UNCHANGED <<keyed, shown>> /\ (wire' = wire \/ (wire # <<>> /\ wire' = Tail(wire)))
  <2>1. Rekeying
    BY <1>1, WirePops DEF Rekeying
  <2> QED BY <1>1, <2>1 DEF RekeyShown
<1>2. CASE \E c \in TextBytes : IloText(c)
  <2>1. PICK c \in TextBytes : IloText(c)
    BY <1>2
  <2> DEFINE x == [byte |-> c, tag |-> InClear]
  <2>2. x \in Byte /\ wire' = Append(wire, x) /\ UNCHANGED <<keyed, shown>>
        /\ x.byte # "rekey"
    BY <2>1, CipherTypes DEF IloText, Byte, TextBytes
  <2> HIDE DEF x
  <2>3. Rekeying
    BY <2>2, WireGrows DEF Rekeying
  <2> QED BY <2>2, <2>3 DEF RekeyShown
<1>3. CASE \E c \in VideoBytes : IloVideo(c)
  <2>1. PICK c \in VideoBytes : IloVideo(c)
    BY <1>3
  <2> DEFINE x == [byte |-> c,
                   tag |-> IF keyed /\ Ends(said, "R") THEN iloCipher ELSE InClear]
  <2>2. /\ x \in Byte /\ wire' = Append(wire, x) /\ x.byte = c /\ keyed' = keyed
        /\ shown' = Append(shown, c) /\ (c = "rekey" => keyed)
    BY <2>1, CipherTypes DEF IloVideo, Byte, Streams
  <2>3. /\ Len(shown) + 1 \in DOMAIN shown' /\ shown'[Len(shown) + 1] = c
        /\ \A i \in DOMAIN shown : i \in DOMAIN shown' /\ shown'[i] = shown[i]
    <3>1. shown \in Seq(VideoBytes)
      BY DEF Streams
    <3> QED BY <2>2, <3>1
  <2> HIDE DEF x
  <2>4. c = "rekey" \/ Rekeying
    BY <2>2, WireGrows DEF Rekeying
  <2> QED BY <2>2, <2>3, <2>4 DEF RekeyShown
<1> QED
  BY <1>1, <1>2, <1>3
  DEF Next, Client, Ilo, Connect, Login, Send, FeedText, FeedVideo, IloReads, vars

LEMMA LengthsInductive ==
  Streams /\ Announced /\ Silent /\ Lengths /\ [Next]_vars => Lengths'
<1> SUFFICES ASSUME Streams, Announced, Silent, Lengths, [Next]_vars PROVE Lengths'
  OBVIOUS
<1> USE DEF Lengths, session, sending, iloIn
<1>1. CASE Login
  BY <1>1, LoginTags DEF Login, Silent, Preamble
<1>2. CASE Send
  <2>1. out' = Append(out, IF keyed THEN encrypter ELSE InClear) /\ UNCHANGED heard
        /\ keyed' = keyed /\ loggedIn' = loggedIn
    BY <1>2, SendTags DEF Send
  <2>2. Len(out') = Len(out) + 1 /\ Len(out) \in Nat /\ Len(heard) \in Nat
    BY <2>1, CipherTypes DEF Streams
  <2> QED BY <2>1, <2>2 DEF Preamble
<1>3. CASE IloReads
  BY <1>3, IloHears DEF IloReads, Streams
<1>4. CASE Connect
  BY <1>4 DEF Connect, Silent
<1>5. CASE FeedText \/ FeedVideo \/ (\E c \in TextBytes : IloText(c))
             \/ (\E c \in VideoBytes : IloVideo(c)) \/ UNCHANGED vars
  <2>1. UNCHANGED <<keyed, loggedIn, out, heard>>
    BY <1>5 DEF FeedText, FeedVideo, IloText, IloVideo, vars
  <2> QED BY <2>1
<1> QED
  BY <1>1, <1>2, <1>3, <1>4, <1>5 DEF Next, Client, Ilo

\* m positions on, none, and one more.
LEMMA Shifted ==
  ASSUME NEW k \in Cipher
  PROVE  /\ \A m \in Nat : [k EXCEPT !.pos = @ + m] = [key |-> k.key, pos |-> k.pos + m]
         /\ [k EXCEPT !.pos = @ + 0] = k /\ Used(k) = [key |-> k.key, pos |-> k.pos + 1]
  BY DEF Used, Cipher

LEMMA UsedShift ==
  ASSUME NEW k \in Cipher, NEW m \in Nat
  PROVE  Used([k EXCEPT !.pos = @ + m]) = [k EXCEPT !.pos = @ + (m + 1)]
<1> DEFINE s == [k EXCEPT !.pos = @ + m]
           t == [k EXCEPT !.pos = @ + (m + 1)]
<1>1. s = [key |-> k.key, pos |-> k.pos + m] /\ k.pos \in Nat /\ s \in Cipher
  BY Shifted, CipherTypes DEF Cipher
<1>2. t = [key |-> k.key, pos |-> k.pos + (m + 1)]
  BY Shifted
<1> HIDE DEF s, t
<1>3. Used(s) = [key |-> s.key, pos |-> s.pos + 1]
  BY <1>1, Shifted
<1>4. s.key = k.key /\ s.pos + 1 = k.pos + (m + 1)
  BY <1>1
<1>5. Used(s) = t
  BY <1>2, <1>3, <1>4
<1> QED BY <1>5 DEF s, t

\* A message of the client's: the next byte the iLO expects.
LEMMA SendAwaited ==
  ASSUME Streams, Streams', Announced, Lengths, Awaited, Send
  PROVE  Awaited'
<1>1. /\ loggedIn /\ UNCHANGED <<keyed, loggedIn, heard, iloDecrypter>>
      /\ out' = Append(out, IF keyed THEN encrypter ELSE InClear)
      /\ encrypter' = IF keyed THEN Used(encrypter) ELSE encrypter
  BY SendTags DEF Send, iloIn
<1> DEFINE n == Len(out)
<1>2. /\ n \in Nat /\ Len(heard) \in Nat /\ Len(heard) <= n /\ Len(out') = n + 1
      /\ \A i \in 1 .. n : out'[i] = out[i]
      /\ out'[n + 1] = IF keyed THEN encrypter ELSE InClear
  BY <1>1, CipherTypes DEF Streams, Lengths
<1>3. \A i : Expected(i)' = Expected(i)
  BY <1>1 DEF Expected
<1>4. out'[n + 1] = Expected(n + 1)
  BY <1>1, <1>2 DEF Awaited, Expected
<1>5. ASSUME NEW i \in Len(heard) + 1 .. n + 1 PROVE out'[i] = Expected(i)
  <2>1. CASE i = n + 1
    BY <1>4, <2>1
  <2>2. CASE i \in Len(heard) + 1 .. n
    BY <1>2, <2>2 DEF Awaited
  <2> QED BY <1>2, <2>1, <2>2
<1>6. ASSUME keyed PROVE Used(Expected(n + 1)) = Expected(n + 2)
  <2> DEFINE from == IF Len(heard) < Preamble THEN Preamble ELSE Len(heard)
  <2>1. n > Preamble /\ from \in Nat /\ from <= n
    BY <1>1, <1>2, <1>6 DEF Lengths, Preamble
  <2> DEFINE m == (n + 1) - 1 - from
  <2>2. Expected(n + 1) = [iloDecrypter EXCEPT !.pos = @ + m]
    BY <1>2, <1>6, <2>1 DEF Expected, Preamble
  <2>3. Expected(n + 2) = [iloDecrypter EXCEPT !.pos = @ + ((n + 2) - 1 - from)]
    BY <1>2, <1>6, <2>1 DEF Expected, Preamble
  <2>4. m \in Nat /\ m + 1 = (n + 2) - 1 - from
    <3> HIDE DEF from, n
    <3> QED BY <1>2, <2>1
  <2>5. iloDecrypter \in Cipher
    BY DEF Streams
  <2> HIDE DEF m, from
  <2>6. Expected(n + 2) = [iloDecrypter EXCEPT !.pos = @ + (m + 1)]
    BY <2>3, <2>4
  <2> QED BY <2>2, <2>4, <2>5, <2>6, UsedShift
<1>7. keyed => encrypter' = Expected(n + 2)
  BY <1>1, <1>6 DEF Awaited
<1> HIDE DEF n
<1>8. Len(out') + 1 = n + 2
  BY <1>2
<1> QED BY <1>1, <1>2, <1>3, <1>5, <1>7, <1>8 DEF Awaited

\* The login: the preamble and the first byte of the first key.
LEMMA LoginAwaited ==
  ASSUME Streams, Silent, Announced, Login
  PROVE  Awaited' /\ heard' = <<>>
<1>1. heard' = <<>> /\ iloDecrypter' = Fresh /\ out = <<>> /\ UNCHANGED keyed
  BY DEF Login, Silent, iloIn
<1>2. CASE ~keyed
  <2>1. \A i \in DOMAIN out' : out'[i] = InClear
    BY <1>2, LoginTags
  <2>2. \A i : Expected(i)' = InClear
    BY <1>1, <1>2 DEF Expected
  <2>3. out' \in Seq(Cipher) /\ Len(heard') = 0
    <3>1. Tags(1, 0) \in Seq(Cipher)
      BY TagsType DEF Streams
    <3> QED BY <1>1, <1>2, <3>1 DEF Login, Transmit
  <2>4. DOMAIN out' = 1 .. Len(out')
    BY <2>3
  <2> QED BY <1>1, <1>2, <2>1, <2>2, <2>3, <2>4 DEF Awaited
<1>3. CASE keyed
  <2>1. /\ Len(out') = 7 /\ \A i \in 1 .. 6 : out'[i] = InClear
        /\ out'[7] = Fresh /\ encrypter' = Used(Fresh)
    BY <1>3, LoginTags DEF Preamble
  <2>2. Len(heard') = 0
    BY <1>1
  <2>3. \A i \in 1 .. 6 : Expected(i)' = InClear
    BY DEF Expected, Preamble
  <2>4. /\ Expected(7)' = [Fresh EXCEPT !.pos = @ + (7 - 1 - 6)]
        /\ Expected(8)' = [Fresh EXCEPT !.pos = @ + (8 - 1 - 6)]
    BY <1>1, <1>3, <2>2 DEF Expected, Preamble
  <2>5. Expected(7)' = Fresh /\ Expected(8)' = Used(Fresh)
    BY <2>4 DEF Fresh, Used
  <2>6. ASSUME NEW i \in 1 .. 7 PROVE out'[i] = Expected(i)'
    <3>1. CASE i \in 1 .. 6
      BY <2>1, <2>3, <3>1
    <3>2. CASE i = 7
      BY <2>1, <2>5, <3>2
    <3> QED BY <3>1, <3>2
  <2> QED BY <1>1, <2>1, <2>2, <2>5, <2>6 DEF Awaited
<1> QED BY <1>2, <1>3

\* The iLO reads what it expects.
LEMMA ReadsAwaited ==
  ASSUME Streams, Silent, Lengths, Awaited, IloReads,
         \A i \in 1 .. Len(heard) : heard[i] = out[i]
  PROVE  Awaited' /\ \A i \in 1 .. Len(heard') : heard'[i] = out'[i]
<1>1. /\ UNCHANGED <<keyed, loggedIn, out, encrypter>> /\ loggedIn
      /\ iloDecrypter' = IF keyed THEN Expected(Len(out) + 1) ELSE iloDecrypter
  BY DEF IloReads, session, sending, Silent
<1>2. /\ Len(heard') = Len(out) /\ Len(out) \in Nat /\ Len(heard) \in Nat
      /\ \A i \in 1 .. Len(heard) : heard'[i] = heard[i]
      /\ \A i \in Len(heard) + 1 .. Len(out) : heard'[i] = Expected(i)
  BY IloHears DEF Streams
<1>3. \A i \in 1 .. Len(out) : heard'[i] = out[i]
  BY <1>2 DEF Awaited
<1>4. ASSUME keyed PROVE Expected(Len(out) + 1)' = encrypter
  <2>1. Len(out) > Preamble /\ encrypter = Expected(Len(out) + 1)
    BY <1>1, <1>4 DEF Lengths, Awaited
  <2>2. iloDecrypter' = encrypter
    BY <1>1, <1>4, <2>1
  <2>3. /\ ~(Len(heard') < Preamble) /\ ~(Len(out') + 1 <= Preamble)
        /\ (Len(out') + 1) - 1 - Len(heard') = 0
    BY <1>1, <1>2, <2>1 DEF Preamble
  <2>4. Expected(Len(out) + 1)' = [encrypter EXCEPT !.pos = @ + 0]
    BY <1>1, <1>4, <2>2, <2>3 DEF Expected
  <2> QED BY <2>4 DEF Streams, Cipher
<1> QED BY <1>1, <1>2, <1>3, <1>4 DEF Awaited

\* The client reads a byte of video.  Only the last command 9 on the wire matters:
\* it takes the client to the key the iLO is at the start of.
LEMMA FeedVideoOutgoing ==
  ASSUME LinkFlags, Streams, Streams', Flow, Video, Video', Flow', Lengths, Paired',
         RekeyShown, LateKeys', Outgoing, InStep, ~crossed, FeedVideo
  PROVE  Outgoing'
<1>1. /\ wire # <<>> /\ wire' = Tail(wire) /\ dvc
      /\ UNCHANGED <<hooked, keyed, loggedIn, dvc, ciphered, said, shown, out, heard,
                     iloDecrypter, iloCipher, crossed>>
  BY DEF FeedVideo, session, feeding, ilo, iloIn
<1>2. PICK b \in Plain :
        /\ encrypter' = IF Rekeys(b) THEN Updated(encrypter) ELSE encrypter
  BY DEF FeedVideo
<1>3. b = NextByte
  BY <1>2, HeadIsRead
<1>4. /\ Len(wire) \in Nat /\ Len(wire) >= 1 /\ Len(wire') = Len(wire) - 1
      /\ DOMAIN wire = 1 .. Len(wire) /\ DOMAIN wire' = 1 .. Len(wire) - 1
      /\ \A i \in 1 .. Len(wire) - 1 : wire'[i] = wire[i + 1]
      /\ NextByte = wire[1].byte
  BY <1>1, WirePops DEF NextByte
<1>5. Rekeying <=> NextByte = "rekey" \/ Rekeying'
  <2>1. Rekeying' => Rekeying
    BY <1>4 DEF Rekeying
  <2>2. NextByte = "rekey" => Rekeying
    <3>1. 1 \in DOMAIN wire
      BY <1>4
    <3> QED BY <1>4, <3>1 DEF Rekeying
  <2>3. ASSUME Rekeying, NextByte # "rekey" PROVE Rekeying'
    <3>1. PICK i \in 1 .. Len(wire) : wire[i].byte = "rekey"
      BY <1>4, <2>3 DEF Rekeying
    <3>2. i - 1 \in 1 .. Len(wire) - 1 /\ wire'[i - 1] = wire[i]
      BY <1>4, <2>3, <3>1
    <3> QED BY <1>4, <3>1, <3>2 DEF Rekeying
  <2> QED BY <2>1, <2>2, <2>3
<1>6. \A i : Expected(i)' = Expected(i)
  BY <1>1 DEF Expected
<1>7. CASE NextByte # "rekey"
  <2>1. encrypter' = encrypter /\ Rekeying' = Rekeying
    BY <1>2, <1>3, <1>5, <1>7 DEF Rekeys, Rekeying
  <2>2. Awaited => Awaited'
    BY <1>1, <1>6, <2>1 DEF Awaited
  <2> QED BY <1>1, <2>1, <2>2 DEF Outgoing
<1>8. CASE NextByte = "rekey"
  <2>1. /\ Len(heard) = Len(out) /\ iloDecrypter.pos = 0
        /\ \A i \in 1 .. Len(heard) : heard[i] = out[i]
    BY <1>5, <1>8 DEF Outgoing
  <2>2. keyed /\ hooked /\ encrypter' = Updated(encrypter)
    BY <1>2, <1>3, <1>5, <1>8 DEF RekeyShown, InStep, Rekeys
  <2>3. ASSUME ~Rekeying', loggedIn PROVE encrypter' = iloDecrypter
    <3>1. Enciphers'
      <4>1. Enciphers
        <5>1. ~InTheClear
          BY <1>5, <1>8 DEF RekeyShown, InTheClear
        <5> QED BY <5>1 DEF Video
      <4> QED BY <1>1, <4>1 DEF Enciphers
    <3>2. Chain' /\ Backlog' = 0
      BY <1>1, <3>1, FeedVideoFlows DEF Video, InStep
    <3>3. decrypter'.key = iloCipher'.key
      <4>1. CASE Len(wire') = 0
        BY <3>2, <4>1 DEF Chain
      <4>2. CASE Len(wire') # 0
        <5>1. Len(wire') > 0 /\ 1 \in 1 .. Len(wire')
          BY <1>4, <4>2
        <5>2. wire'[1].tag = decrypter'
          BY <3>2, <5>1 DEF Chain
        <5>3. decrypter'.key >= 1 /\ decrypter'.key \in Nat
          BY DEF Paired, Streams, Cipher
        <5>4. Quiet(1)'
          BY <1>4, <2>3 DEF Quiet, Rekeying
        <5> QED BY <5>1, <5>2, <5>3, <5>4 DEF LateKeys
      <4> QED BY <4>1, <4>2
    <3>4. encrypter'.key = iloDecrypter.key
      BY <1>1, <3>3 DEF Paired
    <3>5. encrypter'.pos = 0 /\ encrypter' \in Cipher /\ iloDecrypter \in Cipher
      BY <2>2 DEF Updated, Streams
    <3> QED BY <2>1, <3>4, <3>5 DEF Cipher
  <2>4. ASSUME loggedIn PROVE Expected(Len(out) + 1) = iloDecrypter
    <3>1. /\ ~(Len(heard) < Preamble) /\ ~(Len(out) + 1 <= Preamble)
          /\ (Len(out) + 1) - 1 - Len(heard) = 0
      BY <2>1, <2>2, <2>4 DEF Lengths, Preamble, Streams
    <3>2. Expected(Len(out) + 1) = [iloDecrypter EXCEPT !.pos = @ + 0]
      BY <2>2, <3>1 DEF Expected
    <3> QED BY <3>2, Shifted DEF Streams
  <2>5. ASSUME ~Rekeying' PROVE Awaited'
    <3>1. \A i \in Len(heard') + 1 .. Len(out') : FALSE
      BY <1>1, <2>1 DEF Streams
    <3>2. keyed' /\ loggedIn' => encrypter' = Expected(Len(out) + 1)'
      BY <1>1, <1>6, <2>3, <2>4, <2>5
    <3> QED BY <3>1, <3>2 DEF Awaited
  <2> QED BY <1>1, <2>1, <2>5 DEF Outgoing
<1> QED BY <1>7, <1>8

LEMMA OutgoingInductive ==
  /\ LinkFlags /\ Streams /\ Streams' /\ Announced /\ Silent /\ Flow /\ Flow' /\ Video /\ Video'
  /\ Lengths /\ Paired' /\ RekeyShown /\ LateKeys' /\ Outgoing /\ [Next]_vars
  => Outgoing'
<1> SUFFICES ASSUME LinkFlags, Streams, Streams', Announced, Silent, Flow, Flow', Video,
                    Video', Lengths, Paired', RekeyShown, LateKeys', Outgoing, [Next]_vars,
                    InStep', ~crossed'
             PROVE  Outgoing'
  BY DEF Outgoing
<1> USE DEF session, sending, ilo, iloIn
<1>1. CASE Login
  <2>1. Awaited' /\ heard' = <<>> /\ wire' = <<>>
    BY <1>1, LoginAwaited DEF Login, Silent
  <2>2. ~Rekeying'
    BY <2>1 DEF Rekeying
  <2> QED BY <2>1, <2>2 DEF Outgoing
<1>2. CASE Send
  <2>1. ~crossed /\ ~Rekeying /\ InStep /\ UNCHANGED <<wire, heard>>
    BY <1>2 DEF Send, Transmit, InStep
  <2>2. Awaited /\ \A i \in 1 .. Len(heard) : heard[i] = out[i]
    BY <2>1 DEF Outgoing
  <2>3. Awaited' /\ ~Rekeying'
    BY <1>2, <2>1, <2>2, SendAwaited DEF Rekeying
  <2>4. \A i \in 1 .. Len(heard) : out'[i] = out[i]
    <3>1. out' = Append(out, IF keyed THEN encrypter ELSE InClear)
      BY <1>2, SendTags
    <3> QED BY <3>1, CipherTypes DEF Streams, Lengths
  <2> QED BY <2>1, <2>2, <2>3, <2>4 DEF Outgoing
<1>3. CASE FeedVideo
  <2>1. InStep /\ ~crossed
    BY <1>3 DEF FeedVideo, InStep
  <2> QED BY <1>3, <2>1, FeedVideoOutgoing
<1>4. CASE IloReads
  <2>1. InStep /\ ~crossed /\ Len(heard) < Len(out) /\ Rekeying' = Rekeying
    BY <1>4 DEF IloReads, InStep, Rekeying
  <2>2. ~Rekeying
    BY <2>1 DEF Outgoing, Streams
  <2>3. Awaited /\ \A i \in 1 .. Len(heard) : heard[i] = out[i]
    BY <2>1, <2>2 DEF Outgoing
  <2> QED BY <1>4, <2>1, <2>2, <2>3, ReadsAwaited DEF Outgoing
<1>5. CASE \E c \in VideoBytes : IloVideo(c)
  <2>1. PICK c \in VideoBytes : IloVideo(c)
    BY <1>5
  <2> DEFINE x == [byte |-> c,
                   tag |-> IF keyed /\ Ends(said, "R") THEN iloCipher ELSE InClear]
  <2>2. /\ x \in Byte /\ wire' = Append(wire, x) /\ x.byte = c
        /\ shown' = Append(shown, c) /\ shown \in Seq(VideoBytes)
        /\ UNCHANGED <<hooked, keyed, loggedIn, out, heard, encrypter>> /\ ~crossed
        /\ iloDecrypter' = IF c = "rekey" THEN Updated(iloDecrypter) ELSE iloDecrypter
        /\ (c = "rekey" => ~(Len(heard) < Len(out)))
    BY <2>1, CipherTypes DEF IloVideo, Byte, Streams
  <2>3. InStep
    BY <2>2 DEF InStep
  <2> HIDE DEF x
  <2>4. Rekeying' <=> Rekeying \/ c = "rekey"
    BY <2>2, WireGrows DEF Rekeying
  <2>5. CASE c = "rekey"
    <3>1. Len(heard) = Len(out) /\ iloDecrypter'.pos = 0
      BY <2>2, <2>5 DEF Lengths, Streams, Updated
    <3> QED BY <2>2, <2>3, <2>4, <2>5, <3>1 DEF Outgoing
  <2>6. CASE c # "rekey"
    <3>1. Awaited => Awaited'
      BY <2>2, <2>6 DEF Awaited, Expected
    <3> QED BY <2>2, <2>3, <2>4, <2>6, <3>1 DEF Outgoing
  <2> QED BY <2>5, <2>6
<1>6. CASE \E c \in TextBytes : IloText(c)
  <2>1. PICK c \in TextBytes : IloText(c)
    BY <1>6
  <2> DEFINE x == [byte |-> c, tag |-> InClear]
  <2>2. /\ x \in Byte /\ wire' = Append(wire, x) /\ x.byte # "rekey"
        /\ UNCHANGED <<hooked, keyed, loggedIn, shown, out, heard, encrypter, iloDecrypter,
                       crossed>>
    BY <2>1, CipherTypes DEF IloText, Byte, TextBytes
  <2> HIDE DEF x
  <2>3. Rekeying' <=> Rekeying
    BY <2>2, WireGrows DEF Rekeying
  <2>4. InStep /\ ~crossed /\ (Awaited => Awaited')
    BY <2>2 DEF InStep, Awaited, Expected
  <2> QED BY <2>2, <2>3, <2>4 DEF Outgoing
<1>7. CASE FeedText
  <2>1. /\ wire # <<>> /\ wire' = Tail(wire) /\ ~dvc
        /\ UNCHANGED <<hooked, keyed, loggedIn, shown, out, heard, encrypter, iloDecrypter,
                       crossed>>
    BY <1>7 DEF FeedText
  <2>2. NextByte # "rekey"
    <3>1. Backlog >= 1 /\ Backlog <= Len(said)
      BY <2>1, TextIsThere DEF Flow, Counts
    <3>2. Head(wire) = wire[1]
      BY <2>1, WirePops
    <3>3. wire[1].byte = said[Fed + 1] /\ Fed + 1 \in 1 .. Len(said)
      BY <3>1, Sizes DEF Flow, TextAhead, Fed
    <3>4. said[Fed + 1] \in TextBytes
      BY <3>3 DEF Streams
    <3> QED BY <3>2, <3>3, <3>4 DEF NextByte, TextBytes
  <2>3. Rekeying' <=> Rekeying
    <3>1. Rekeying' => Rekeying
      BY <2>1, WirePops DEF Rekeying
    <3>2. ASSUME Rekeying PROVE Rekeying'
      <4>1. PICK i \in 1 .. Len(wire) : wire[i].byte = "rekey"
        BY <2>1, <3>2, WirePops DEF Rekeying
      <4>2. i - 1 \in 1 .. Len(wire) - 1 /\ wire'[i - 1] = wire[i]
        BY <2>1, <2>2, <4>1, WirePops DEF NextByte
      <4> QED BY <2>1, <4>1, <4>2, WirePops DEF Rekeying
    <3> QED BY <3>1, <3>2
  <2>4. InStep /\ ~crossed /\ (Awaited => Awaited')
    BY <2>1 DEF InStep, Awaited, Expected
  <2> QED BY <2>1, <2>3, <2>4 DEF Outgoing
<1>8. CASE Connect \/ UNCHANGED vars
  <2>1. UNCHANGED <<hooked, keyed, loggedIn, shown, out, heard, encrypter, iloDecrypter,
                    crossed, wire>>
    BY <1>8 DEF Connect, vars
  <2>2. InStep /\ ~crossed /\ (Awaited => Awaited') /\ Rekeying' = Rekeying
    BY <2>1 DEF InStep, Awaited, Expected, Rekeying
  <2> QED BY <2>1, <2>2 DEF Outgoing
<1> QED
  BY <1>1, <1>2, <1>3, <1>4, <1>5, <1>6, <1>7, <1>8 DEF Next, Client, Ilo

\* The iLO deciphers what it reads with the key and at the position it was
\* enciphered with, for any number of messages and of changes of keys between
\* them, as long as the session is told of every change and none is crossed.
THEOREM OutboundDecipherable == Spec => []OutboundUnbroken
<1>1. Init => Announced /\ Silent /\ Lengths
  BY DEF Init, Announced, Silent, Lengths
<1>2. Init => Paired /\ LateKeys /\ RekeyShown
  BY DEF Init, Paired, LateKeys, RekeyShown, Rekeying, Fresh
<1>3. Init => Outgoing
  BY DEF Init, Outgoing, Awaited, Rekeying
<1>4. Streams /\ Outgoing => OutboundUnbroken
  <2>1. Streams => DOMAIN heard = 1 .. Len(heard)
    BY DEF Streams
  <2> QED BY <2>1 DEF Outgoing, OutboundUnbroken
<1> QED
  BY <1>1, <1>2, <1>3, <1>4, LinkTypes, ReceivingHolds, SilentInductive, LengthsInductive,
     PairedInductive, LateKeysInductive, RekeyShownInductive, OutgoingInductive, PTL
  DEF Spec

-----------------------------------------------------------------------------
(***************************************************************************)
(* FrontEnd.  Three invariants, each inductive given the ones before it:   *)
(* what the window knows of its workers, of its armed buttons, and of a    *)
(* close under way.                                                        *)
(***************************************************************************)

\* Before the program runs, it has no workers.
Down == ~up => core = NoCore /\ power = None /\ media = None /\ ~recorded

\* Power and media run only beside a console thread that has not been joined, for
\* the same server; while the form is hidden the fields name that server.
Session ==
  /\ Down /\ power = media
  /\ power # None => power = core.server /\ core.joinable
  /\ core.state \in {"Connecting", "Connected"} => fields = core.server /\ core.joinable
  /\ recorded => noted = core.server

LEMMA SessionInductive == Session /\ [UiNext]_uiVars => Session'
<1> SUFFICES ASSUME Session, [UiNext]_uiVars PROVE Session'
  OBVIOUS
<1> USE DEF Session, Down
<1>1. CASE Launch
  BY <1>1 DEF Launch, workers, NoCore
<1>2. CASE Exit
  BY <1>2 DEF Exit, NoCore
<1>3. CASE Edit
  BY <1>3 DEF Edit, Clicking, Frame, FormShown, program, workers, list
<1>4. CASE DoConnect
  <2>1. up /\ up' = up /\ ~recorded' /\ fields' = fields
    BY <1>4 DEF DoConnect, Clicking, Frame, program
  <2>2. CASE UNCHANGED workers
    BY <2>1, <2>2 DEF workers
  <2>3. CASE replay /\ ~core.joinable /\ CoreStarts /\ UNCHANGED <<power, media, url>>
    BY <2>1, <2>3 DEF CoreStarts
  <2>4. CASE /\ fields # None /\ ~core.joinable /\ CoreStarts
             /\ power' = fields /\ media' = fields
    BY <2>1, <2>4 DEF CoreStarts
  <2> QED
    BY <1>4, <2>2, <2>3, <2>4 DEF DoConnect
<1>5. CASE DoDisconnect
  <2>1. up /\ up' = up /\ power' = None /\ media' = None
    BY <1>5 DEF DoDisconnect, Clicking, Frame, program
  <2>2. core'.server = core.server /\ core'.state \in {"Failed", "Stopped"}
    BY <1>5 DEF DoDisconnect, CoreStops
  <2> QED
    BY <1>5, <2>1, <2>2 DEF DoDisconnect, list
<1>6. CASE Record
  BY <1>6 DEF Record, Frame, program, workers
<1>7. CASE \E i \in 1 .. Cap : Forget(i)
  BY <1>7 DEF Forget, program, workers
<1>8. CASE Arming \/ (\E p \in Panels : \E c \in CommandsOf(p) : Confirm(p, c)) \/ Tick
  BY <1>8 DEF Arming, Disarm, Arm, Confirm, Tick, program, workers, list
<1>9. CASE Close
  BY <1>9 DEF Close, CloseRequested, GuardDecides, EjectAndClose, KeepRunning,
              program, workers, list
<1>10. CASE CoreMoves
  <2>1. up /\ up' = up /\ power' = power /\ media' = media /\ fields' = fields
        /\ recorded' = recorded /\ noted' = noted
    BY <1>10 DEF CoreMoves, program, list
  <2>2. core'.server = core.server /\ core'.joinable = core.joinable
    BY <1>10 DEF CoreMoves
  <2>3. core.state \in {"Connecting", "Connected"}
    BY <1>10 DEF CoreMoves
  <2> QED
    BY <2>1, <2>2, <2>3
<1>11. CASE MediaMoves
  BY <1>11 DEF MediaMoves, program, list
<1>12. CASE UNCHANGED uiVars
  BY <1>12 DEF uiVars, program, workers, list
<1> QED
  BY <1>1, <1>2, <1>3, <1>4, <1>5, <1>6, <1>7, <1>8, <1>9, <1>10, <1>11, <1>12
     DEF UiNext, SideColumn, Others

LEMMA SessionAlways == UiSpec => []Session
<1>1. UiInit => Session
  BY DEF UiInit, Session, Down, NoCore
<1> QED
  BY <1>1, SessionInductive, PTL DEF UiSpec

\* Power, media and the recorded entry are always about the server of the console
\* session, through failures, edits of the fields and restarts.
THEOREM WorkersAgree == UiSpec => []OneServer
<1>1. Session => OneServer
  BY DEF Session, OneServer
<1> QED
  BY <1>1, SessionAlways, PTL

-----------------------------------------------------------------------------
\* A button is armed only while the worker of its panel runs, for the server that
\* worker works for, and no longer than the timeout.
Armed ==
  /\ arm = [p \in Panels |-> arm[p]]
  /\ \A p \in Panels : arm[p].cmd # None =>
       /\ WorkerOf(p) # None /\ arm[p].for = WorkerOf(p)
       /\ arm[p].age \in 0 .. ArmTimeout

LEMMA ArmedInductive == Session /\ Armed /\ TwoClicks /\ [UiNext]_uiVars => Armed' /\ TwoClicks'
<1> SUFFICES ASSUME Session, Armed, TwoClicks, [UiNext]_uiVars PROVE Armed' /\ TwoClicks'
  OBVIOUS
<1>u. Unarmed.cmd = None
  BY DEF Unarmed
<1>q. asked' = NoRequest => TwoClicks'
  BY DEF TwoClicks
<1>1. CASE \E p \in Panels : \E c \in CommandsOf(p) : Confirm(p, c)
  <2>1. PICK p \in Panels : \E c \in CommandsOf(p) : Confirm(p, c)
    BY <1>1
  <2>2. PICK c \in CommandsOf(p) : Confirm(p, c)
    BY <2>1
  <2>3. power' = power /\ media' = media /\ arm' = [arm EXCEPT ![p] = Unarmed]
    BY <2>2 DEF Confirm, workers
  <2>4. Armed'
    BY <2>3, <1>u DEF Armed, WorkerOf
  <2>5. WorkerOf(p) # None /\ arm[p].cmd = c /\ c # None
    BY <2>2, FrontEndAssumption DEF Confirm, Shown, CommandsOf
  <2>6. arm[p].for = WorkerOf(p) /\ arm[p].age <= ArmTimeout
    BY <2>5, FrontEndAssumption DEF Armed
  <2>7. asked'.cmd = c /\ asked'.server = WorkerOf(p) /\ asked'.arm = arm[p]
    BY <2>2 DEF Confirm
  <2> QED
    BY <2>4, <2>5, <2>6, <2>7 DEF TwoClicks
<1>2. CASE asked' = NoRequest /\ UNCHANGED <<arm, power, media>>
  BY <1>2, <1>q DEF Armed, WorkerOf
<1>3. CASE asked' = NoRequest /\ arm' = [p \in Panels |-> Unarmed]
  BY <1>3, <1>q, <1>u DEF Armed
<1>4. CASE asked' = NoRequest /\ DoConnect
  <2>1. CASE UNCHANGED <<power, media>>
    BY <1>4, <2>1, <1>2 DEF DoConnect
  <2>2. CASE ~core.joinable
    <3>1. power = None /\ media = None
      BY <2>2 DEF Session
    <3>2. \A p \in Panels : arm[p].cmd = None
      BY <3>1 DEF Armed, WorkerOf
    <3> QED
      BY <1>4, <3>2, <1>q DEF Armed, DoConnect
  <2> QED
    BY <1>4, <2>1, <2>2 DEF DoConnect, workers
<1>5. CASE asked' = NoRequest /\ Arming
  <2>1. power' = power /\ media' = media
    BY <1>5 DEF Arming, Disarm, Arm, workers
  <2>2. CASE \E p \in Panels : Disarm(p)
    BY <1>5, <2>1, <2>2, <1>q, <1>u DEF Disarm, Armed, WorkerOf
  <2>3. CASE \E p \in Panels : \E c \in CommandsOf(p) : Arm(p, c)
    <3>1. PICK p \in Panels : \E c \in CommandsOf(p) : Arm(p, c)
      BY <2>3
    <3>2. PICK c \in CommandsOf(p) : Arm(p, c)
      BY <3>1
    <3>3. WorkerOf(p) # None /\ WorkerOf(p)' = WorkerOf(p)
      BY <3>2, <2>1 DEF Arm, Shown, WorkerOf
    <3>4. arm' = [arm EXCEPT ![p] = [cmd |-> c, age |-> 0, for |-> WorkerOf(p)]]
      BY <3>2 DEF Arm
    <3> QED
      BY <1>5, <2>1, <3>3, <3>4, <1>q, FrontEndAssumption DEF Armed, WorkerOf
  <2> QED
    BY <1>5, <2>2, <2>3 DEF Arming
<1>6. CASE asked' = NoRequest /\ Tick
  <2>1. power' = power /\ media' = media
    BY <1>6 DEF Tick, workers
  <2>2. \A p \in Panels : arm'[p].cmd # None =>
          /\ arm[p].cmd # None /\ arm[p].age < ArmTimeout
          /\ arm'[p].for = arm[p].for /\ arm'[p].age = arm[p].age + 1
    BY <1>6, <1>u DEF Tick
  <2>3. arm' = [p \in Panels |-> arm'[p]]
    BY <1>6 DEF Tick
  <2> QED
    BY <1>6, <2>1, <2>2, <2>3, <1>q, FrontEndAssumption DEF Armed, WorkerOf
<1>7. CASE UNCHANGED uiVars
  BY <1>7 DEF uiVars, workers, Armed, WorkerOf, TwoClicks
<1>8. ASSUME Launch PROVE UNCHANGED <<arm, power, media>>
  BY <1>8 DEF Launch, workers
<1>9. ASSUME Exit \/ DoDisconnect PROVE arm' = [p \in Panels |-> Unarmed]
  BY <1>9 DEF Exit, DoDisconnect
<1>10. ASSUME Edit \/ Record \/ (\E i \in 1 .. Cap : Forget(i)) \/ Close
       PROVE  UNCHANGED <<arm, power, media>>
  BY <1>10 DEF Edit, Record, Forget, Close, CloseRequested, GuardDecides,
               EjectAndClose, KeepRunning, workers
<1>11. ASSUME CoreMoves \/ MediaMoves PROVE UNCHANGED <<arm, power, media>>
  BY <1>11 DEF CoreMoves, MediaMoves
<1> QED
  BY <1>1, <1>2, <1>3, <1>4, <1>5, <1>6, <1>7, <1>8, <1>9, <1>10, <1>11
     DEF UiNext, SideColumn, Others

\* No destructive request without two clicks on the same button, within the
\* timeout and in the connection it goes to.
THEOREM NoStrayRequest == UiSpec => []TwoClicks
<1>1. UiInit => Armed /\ TwoClicks
  BY DEF UiInit, Armed, Unarmed, TwoClicks
<1> QED
  BY <1>1, ArmedInductive, SessionAlways, PTL DEF UiSpec

-----------------------------------------------------------------------------
\* A close that was cancelled is neither requested nor asked about.
Closing ==
  /\ kept \in BOOLEAN /\ closing \in BOOLEAN /\ guard \in BOOLEAN /\ quit \in BOOLEAN
  /\ kept => ~closing
  /\ guard => closing

LEMMA ClosingInductive == Closing /\ StaysOpen /\ [UiNext]_uiVars => Closing' /\ StaysOpen'
<1> SUFFICES ASSUME Closing, StaysOpen, [UiNext]_uiVars PROVE Closing' /\ StaysOpen'
  OBVIOUS
<1> USE DEF Closing, StaysOpen
<1>1. CASE UNCHANGED <<quit, window>>
  BY <1>1 DEF window
<1>2. CASE Exit
  BY <1>2 DEF Exit
<1>3. CASE CloseRequested
  BY <1>3 DEF CloseRequested, Frame, program
<1>4. CASE GuardDecides
  BY <1>4 DEF GuardDecides, Frame
<1>5. CASE EjectAndClose
  BY <1>5 DEF EjectAndClose, Frame
<1>6. CASE KeepRunning
  BY <1>6 DEF KeepRunning, Frame, program
<1>7. ASSUME Launch \/ SideColumn \/ UNCHANGED uiVars PROVE UNCHANGED <<quit, window>>
  BY <1>7 DEF Launch, SideColumn, Edit, DoConnect, DoDisconnect, Record, Forget,
              program, uiVars
<1>8. ASSUME \/ Arming \/ Others
             \/ \E p \in Panels : \E c \in CommandsOf(p) : Confirm(p, c)
      PROVE UNCHANGED <<quit, window>>
  BY <1>8 DEF Arming, Disarm, Arm, Confirm, Others, CoreMoves, MediaMoves, Tick, program
<1> QED
  BY <1>1, <1>2, <1>3, <1>4, <1>5, <1>6, <1>7, <1>8 DEF UiNext, Close

\* The program never quits on a close that was cancelled.
THEOREM CancelHolds == UiSpec => []StaysOpen
<1>1. UiInit => Closing /\ StaysOpen
  BY DEF UiInit, Closing, StaysOpen
<1> QED
  BY <1>1, ClosingInductive, PTL DEF UiSpec
=============================================================================
