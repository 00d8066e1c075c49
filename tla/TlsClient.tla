------------------------------ MODULE TlsClient ------------------------------
(***************************************************************************)
(* The TLS 1.0 client of tls/client.hpp with the record layer of           *)
(* tls/record.hpp and the messages of tls/handshake.hpp, against a server  *)
(* and a network that are external.                                        *)
(*                                                                         *)
(* A handshake message is two pieces (header, body); the server packs the  *)
(* pieces of its flight into records as it likes, so a record may hold     *)
(* several messages and a message may span records.  A record is two cells *)
(* (header, body) and TCP delivers cells in portions of any size.  Keys    *)
(* are "shared" if both sides derived the same; a Finished is the          *)
(* transcript it was built over.  The network may damage one cell or       *)
(* record on its way; it never loses or reorders (TCP).                    *)
(***************************************************************************)
EXTENDS Naturals, Sequences, FiniteSets

CONSTANTS
  Flights,   \* server flights from ServerHello to ServerHelloDone to consider
  MaxData,   \* bound: application records the server sends
  MaxSend,   \* bound: application records the client sends
  MaxFaults  \* bound: damages, alerts and illegal flights per connection

HelloTypes == {"server_hello", "bad_hello", "certificate", "certificate_request",
               "server_key_exchange", "server_hello_done"}
Types      == HelloTypes \cup {"client_hello", "client_key_exchange", "finished"}

ASSUME TlsAssumption ==
  /\ Flights \subseteq Seq(HelloTypes)
  /\ MaxData \in Nat /\ MaxSend \in Nat /\ MaxFaults \in Nat

VARIABLES
  pc,             \* what the client waits for (see Stages)
  rx,             \* rx_: cells read from the socket
  hs,             \* hs_: handshake pieces not yet consumed
  transcript,     \* transcript_
  certRequested,  \* cert_requested
  reading,        \* rec_: the read side
  writing,        \* rec_: the write side
  connected,      \* connected_
  eof,            \* eof_
  got,            \* history: application data recv() returned (0: garbled)
  asked,          \* history: application records sent
  s2c, c2s,       \* the two directions of the connection (external)
  peer,           \* the server's stage (external), as is all that follows
  pending,        \* pieces of its flight not yet in a record
  peerTranscript, peerReading, peerWriting,
  heard, sent,    \* application data it received and sent
  finOver,        \* history: the transcript the server's Finished was built over
  faults          \* history: what went wrong so far

cipherVars == <<reading, writing>>
clientVars == <<pc, rx, hs, transcript, certRequested, cipherVars, connected, eof,
                got, asked>>
peerVars   == <<peer, pending, peerTranscript, peerReading, peerWriting, heard, sent,
                finOver>>
vars       == <<clientVars, s2c, c2s, peerVars, faults>>

Stages       == {"start", "hello", "cert", "done", "ccs", "finished", "open",
                 "failed", "closed"}
Reassembling == {"hello", "cert", "done", "finished"}
Waiting      == Reassembling \cup {"ccs", "open"}

\* A handshake message as it reads at one end; alt: its bytes were changed.
Message(t) == [ht |-> t, alt |-> FALSE]

ClientHello       == Message("client_hello")
EmptyCertificate  == Message("certificate")
ClientKeyExchange == Message("client_key_exchange")
Finished          == Message("finished")

-----------------------------------------------------------------------------
(***************************************************************************)
(* The record layer: a key, a sequence number and a key-stream position    *)
(* per direction.  A protected record opens only if all three fit.         *)
(***************************************************************************)

Null == [on |-> FALSE, key |-> "none", seq |-> 0, pos |-> 0]

\* Mutant: the count of cleartext records runs on under the cipher.
EnableKeepsSeq(k, w) == [w EXCEPT !.on = TRUE, !.key = k, !.pos = 0]

\* enable_write_cipher, enable_read_cipher: a new key stream, sequence number 0.
Enable(k, w) == [w EXCEPT !.on = TRUE, !.key = k, !.seq = 0, !.pos = 0]

\* protect(): under a cipher the MAC covers the sequence number.
Protect(w, type, body) ==
  [type |-> type, key |-> w.key, seq |-> IF w.on THEN w.seq ELSE 0, pos |-> w.pos,
   body |-> body, whole |-> TRUE]

\* The record is counted, and the key stream runs on over fragment and MAC.
Advance(w, body) ==
  [w EXCEPT !.seq = @ + 1, !.pos = IF w.on THEN @ + Len(body) + 1 ELSE @]

\* Mutant: the MAC is computed and not compared.
OpensUnchecked(w, r) == w.on => r.key = w.key /\ r.pos = w.pos

\* unprotect(): without a cipher every record is taken as it is.
Opens(w, r) ==
  w.on => r.key = w.key /\ r.pos = w.pos /\ r.seq = w.seq /\ r.whole

\* The fragment a receiver reads; damage in the clear changes its messages.
Fragment(r) ==
  IF r.type = "handshake" /\ ~r.whole
  THEN [i \in DOMAIN r.body |-> [r.body[i] EXCEPT !.alt = TRUE]]
  ELSE r.body

Cells(r) == <<[head |-> TRUE, rec |-> r], [head |-> FALSE, rec |-> r]>>

\* frame(): a header and a body for each message.
Pieces(types) ==
  [i \in 1 .. 2 * Len(types) |->
     [ht |-> types[(i + 1) \div 2], alt |-> FALSE, head |-> i % 2 = 1]]

\* derive_master_secret, derive_key_block: both sides agree if what each took
\* from the other arrived unchanged.
KeyOf(t, inputs, own) ==
  IF \E i \in DOMAIN t : t[i].alt /\ t[i].ht \in inputs THEN own ELSE "shared"
ClientKey == KeyOf(transcript, {"server_hello", "certificate"}, "client")
PeerKey   == KeyOf(peerTranscript, {"client_hello", "client_key_exchange"}, "server")

Init ==
  /\ pc = "start" /\ rx = <<>> /\ hs = <<>> /\ transcript = <<>>
  /\ certRequested = FALSE /\ reading = Null /\ writing = Null
  /\ connected = FALSE /\ eof = FALSE /\ got = <<>> /\ asked = 0
  /\ s2c = <<>> /\ c2s = <<>>
  /\ peer = "start" /\ pending = <<>> /\ peerTranscript = <<>>
  /\ peerReading = Null /\ peerWriting = Null /\ heard = <<>> /\ sent = <<>>
  /\ finOver = <<>> /\ faults = {}

-----------------------------------------------------------------------------
(***************************************************************************)
(* The client: bytes.                                                      *)
(***************************************************************************)

\* connect() or recv() returns false.
Fail(why) == pc' = "failed" /\ faults' = faults \cup {why}

\* connect(): the socket, then the ClientHello.
Connect ==
  LET m == <<ClientHello>> IN
  /\ pc = "start" /\ pc' = "hello"
  /\ transcript' = m
  /\ c2s' = Append(c2s, Protect(writing, "handshake", m))
  /\ writing' = Advance(writing, m)
  /\ UNCHANGED <<rx, hs, certRequested, reading, connected, eof, got, asked, s2c,
                 peerVars, faults>>

\* next_handshake() looks at hs_ before it reads a record.
HasMessage == pc \in Reassembling /\ Len(hs) >= 2

\* read_record() needs more bytes: for the header, or for the body of a record
\* whose header is well formed.
Starved ==
  /\ pc \in Waiting /\ ~HasMessage
  /\ rx = <<>> \/ (Len(rx) = 1 /\ rx[1].rec.type # "invalid")

\* fill(): recv returns what has arrived, or part of it ...
Fill(n) ==
  /\ Starved /\ s2c # <<>>
  /\ rx' = rx \o SubSeq(s2c, 1, n) /\ s2c' = SubSeq(s2c, n + 1, Len(s2c))
  /\ UNCHANGED <<pc, hs, transcript, certRequested, cipherVars, connected, eof, got,
                 asked, c2s, peerVars, faults>>

\* ... or the end of the stream ...
FillEnds ==
  /\ Starved /\ s2c = <<>> /\ peer = "gone"
  /\ eof' = TRUE /\ Fail("end")
  /\ UNCHANGED <<rx, hs, transcript, certRequested, cipherVars, connected, got, asked,
                 s2c, c2s, peerVars>>

\* ... or it times out or fails.
FillFails ==
  /\ Starved /\ Fail("timeout")
  /\ UNCHANGED <<rx, hs, transcript, certRequested, cipherVars, connected, eof, got,
                 asked, s2c, c2s, peerVars>>

\* "malformed record header", "invalid record content type"
BadHeader ==
  /\ pc \in Waiting /\ ~HasMessage
  /\ rx # <<>> /\ rx[1].rec.type = "invalid" /\ Fail("header")
  /\ UNCHANGED <<rx, hs, transcript, certRequested, cipherVars, connected, eof, got,
                 asked, s2c, c2s, peerVars>>

-----------------------------------------------------------------------------
(***************************************************************************)
(* The client: records.                                                    *)
(***************************************************************************)

\* read_record() has a whole record.
Ready == /\ pc \in Waiting /\ ~HasMessage
         /\ Len(rx) >= 2 /\ rx[1].rec.type # "invalid"
Record == rx[2].rec

\* The record opened: it leaves rx_ and the read side moves on.
Accept == /\ Ready /\ Opens(reading, Record)
          /\ rx' = SubSeq(rx, 3, Len(rx))

\* "record failed authentication (bad_record_mac)"
BadMac ==
  /\ Ready /\ ~Opens(reading, Record) /\ Fail("mac")
  /\ UNCHANGED <<rx, hs, transcript, certRequested, cipherVars, connected, eof, got,
                 asked, s2c, c2s, peerVars>>

\* The alert as read; damaged in the clear it may read as any.
Alerts == {"warning", "fatal", "close_notify"}
AlertRead == IF Record.whole THEN {Record.body[1]} ELSE Alerts

\* Mutant: a warning ends the handshake like any other alert.
HandleAlertStrict ==
  /\ Accept /\ Record.type = "alert"
  /\ reading' = Advance(reading, Record.body)
  /\ \E a \in AlertRead :
       \/ a = "close_notify" /\ eof' = TRUE /\ Fail("end")
       \/ a # "close_notify" /\ UNCHANGED eof /\ Fail("alert")
  /\ UNCHANGED <<hs, transcript, certRequested, writing, connected, got, asked, s2c,
                 c2s, peerVars>>

\* handle_alert(): a warning is ignored, close_notify and fatal alerts end it.
HandleAlert ==
  /\ Accept /\ Record.type = "alert"
  /\ reading' = Advance(reading, Record.body)
  /\ \E a \in AlertRead :
       \/ a = "warning" /\ UNCHANGED <<pc, eof, faults>>
       \/ a = "close_notify" /\ eof' = TRUE /\ Fail("end")
       \/ a = "fatal" /\ UNCHANGED eof /\ Fail("alert")
  /\ UNCHANGED <<hs, transcript, certRequested, writing, connected, got, asked, s2c,
                 c2s, peerVars>>

\* next_handshake() takes the fragment of a handshake record.
TakeFragment ==
  /\ pc \in Reassembling /\ Accept /\ Record.type = "handshake"
  /\ hs' = hs \o Fragment(Record) /\ reading' = Advance(reading, Record.body)
  /\ UNCHANGED <<pc, transcript, certRequested, writing, connected, eof, got, asked,
                 s2c, c2s, peerVars, faults>>

\* expect_change_cipher_spec(), and enable_read_cipher() after it.
TakeChangeCipherSpec ==
  /\ pc = "ccs" /\ Accept /\ Record.type = "ccs" /\ Record.whole
  /\ reading' = Enable(ClientKey, Advance(reading, Record.body))
  /\ pc' = "finished"
  /\ UNCHANGED <<hs, transcript, certRequested, writing, connected, eof, got, asked,
                 s2c, c2s, peerVars, faults>>

\* recv() returns one record of application data.
Deliver ==
  /\ pc = "open" /\ Accept /\ Record.type = "data"
  /\ got' = Append(got, IF Record.whole THEN Record.body[1] ELSE 0)
  /\ reading' = Advance(reading, Record.body)
  /\ UNCHANGED <<pc, hs, transcript, certRequested, writing, connected, eof, asked,
                 s2c, c2s, peerVars, faults>>

\* A record of a type that does not belong here, or a malformed ChangeCipherSpec.
Unexpected ==
  /\ Accept /\ Record.type # "alert"
  /\ \/ pc \in Reassembling /\ Record.type # "handshake"
     \/ pc = "ccs" /\ ~(Record.type = "ccs" /\ Record.whole)
     \/ pc = "open" /\ Record.type # "data"
  /\ reading' = Advance(reading, Record.body) /\ Fail("unexpected")
  /\ UNCHANGED <<hs, transcript, certRequested, writing, connected, eof, got, asked,
                 s2c, c2s, peerVars>>

-----------------------------------------------------------------------------
(***************************************************************************)
(* The client: handshake messages.                                         *)
(***************************************************************************)

\* parse_handshake() on hs_.
Parsed == [ht |-> hs[1].ht, alt |-> hs[1].alt \/ hs[2].alt]

\* next_handshake() returns the first complete message of hs_.
NextHandshake == HasMessage /\ hs' = SubSeq(hs, 3, Len(hs))

Absorb == transcript' = Append(transcript, Parsed)

\* parse_server_hello, and the version, suite and compression we offered.
IsServerHello == Parsed.ht = "server_hello"
\* parse_certificate_list, and an RSA key in the first entry.
IsCertificate == Parsed.ht = "certificate"

TakeHello ==
  /\ NextHandshake /\ Absorb
  /\ \/ pc = "hello" /\ IsServerHello /\ pc' = "cert" /\ UNCHANGED certRequested
     \/ pc = "cert" /\ IsCertificate /\ pc' = "done" /\ UNCHANGED certRequested
     \/ pc = "done" /\ Parsed.ht = "certificate_request" /\ certRequested' = TRUE
        /\ UNCHANGED pc
  /\ UNCHANGED <<rx, cipherVars, connected, eof, got, asked, s2c, c2s, peerVars, faults>>

\* ServerHelloDone: our flight, in the clear up to ChangeCipherSpec.  Handshake
\* data left in hs_ is then an error.
SendFlight ==
  LET before == Append(transcript, Parsed)
      clear  == (IF certRequested THEN <<EmptyCertificate>> ELSE <<>>)
                  \o <<ClientKeyExchange>>
      fin    == <<Finished>>
      key    == KeyOf(before, {"server_hello", "certificate"}, "client")
      opened == Enable(key, [writing EXCEPT !.seq = @ + Len(clear) + 1])
  IN
  /\ pc = "done" /\ NextHandshake /\ Parsed.ht = "server_hello_done"
  /\ transcript' = before \o clear \o fin
  /\ c2s' = c2s \o [i \in DOMAIN clear |-> Protect(writing, "handshake", <<clear[i]>>)]
                \o <<Protect(writing, "ccs", <<1>>), Protect(opened, "handshake", fin)>>
  /\ writing' = Advance(opened, fin)
  /\ IF hs' = <<>> THEN pc' = "ccs" /\ UNCHANGED faults ELSE Fail("unexpected")
  /\ UNCHANGED <<rx, certRequested, reading, connected, eof, got, asked, s2c, peerVars>>

\* Mutant: any Finished will do.
VerifiedAlways == TRUE

\* check_finished(): over the transcript before this message is absorbed.
Verified == ~Parsed.alt /\ finOver = transcript

\* The server's Finished.
TakeFinished ==
  /\ pc = "finished" /\ NextHandshake /\ Parsed.ht = "finished" /\ Verified
  /\ Absorb /\ pc' = "open" /\ connected' = TRUE
  /\ UNCHANGED <<rx, certRequested, cipherVars, eof, got, asked, s2c, c2s, peerVars,
                 faults>>

\* A message out of place, malformed, or with parameters we did not offer; one
\* whose bytes were changed may be any of these.
Refuse ==
  /\ NextHandshake
  /\ \/ Parsed.alt /\ Fail("malformed")
     \/ pc = "hello" /\ ~IsServerHello /\ Fail("unexpected")
     \/ pc = "cert" /\ ~IsCertificate /\ Fail("unexpected")
     \/ pc = "done" /\ Parsed.ht \notin {"certificate_request", "server_hello_done"}
        /\ Fail("unexpected")
     \/ pc = "finished" /\ Parsed.ht # "finished" /\ Fail("unexpected")
     \/ pc = "finished" /\ Parsed.ht = "finished" /\ ~Verified /\ Fail("finished")
  /\ UNCHANGED <<rx, transcript, certRequested, cipherVars, connected, eof, got, asked,
                 s2c, c2s, peerVars>>

\* Nothing is sent: no socket, no randomness, no usable key, or a failed write.
GiveUp ==
  /\ \/ pc = "start"
     \/ pc = "done" /\ HasMessage /\ Parsed.ht = "server_hello_done"
     \/ pc = "open" /\ asked < MaxSend
  /\ Fail("local")
  /\ UNCHANGED <<rx, hs, transcript, certRequested, cipherVars, connected, eof, got,
                 asked, s2c, c2s, peerVars>>

\* send(): one record of application data.
Send ==
  /\ pc = "open" /\ asked < MaxSend /\ asked' = asked + 1
  /\ c2s' = Append(c2s, Protect(writing, "data", <<asked + 1>>))
  /\ writing' = Advance(writing, <<asked + 1>>)
  /\ UNCHANGED <<pc, rx, hs, transcript, certRequested, reading, connected, eof, got,
                 s2c, peerVars, faults>>

\* close() after a successful connect(): close_notify, then the socket.
Close ==
  /\ connected /\ pc \in {"open", "failed"} /\ pc' = "closed"
  /\ c2s' = Append(c2s, Protect(writing, "alert", <<"close_notify">>))
  /\ writing' = Advance(writing, <<"close_notify">>)
  /\ UNCHANGED <<rx, hs, transcript, certRequested, reading, connected, eof, got, asked,
                 s2c, peerVars, faults>>

-----------------------------------------------------------------------------
(***************************************************************************)
(* The server and the network (external).                                  *)
(***************************************************************************)

\* The client's socket is open.
Alive == pc \notin {"failed", "closed"}

Emit(type, body) ==
  /\ Alive
  /\ s2c' = s2c \o Cells(Protect(peerWriting, type, body))
  /\ peerWriting' = Advance(peerWriting, body)

LegalFlights ==
  {<<"server_hello", "certificate", "server_hello_done">>,
   <<"server_hello", "certificate", "certificate_request", "server_hello_done">>}

\* The ClientHello is answered by a flight.
PeerHello(f) ==
  /\ Alive /\ peer = "start" /\ c2s # <<>> /\ c2s' = Tail(c2s) /\ peer' = "keys"
  /\ peerTranscript' = Fragment(Head(c2s)) \o [i \in DOMAIN f |-> Message(f[i])]
  /\ pending' = Pieces(f)
  /\ peerReading' = Advance(peerReading, Head(c2s).body)
  /\ faults' = IF f \in LegalFlights THEN faults ELSE faults \cup {"flight"}
  /\ UNCHANGED <<clientVars, s2c, peerWriting, heard, sent, finOver>>

\* A record with the next n pieces.
PeerEmit(n) ==
  /\ peer # "gone"
  /\ Emit("handshake", SubSeq(pending, 1, n))
  /\ pending' = SubSeq(pending, n + 1, Len(pending))
  /\ UNCHANGED <<clientVars, c2s, peer, peerTranscript, peerReading, heard, sent,
                 finOver, faults>>

\* The server takes a record of the client's.
PeerTakes == /\ peer \in {"keys", "fin", "open"} /\ c2s # <<>> /\ c2s' = Tail(c2s)
Incoming  == Head(c2s)

PeerHandshake ==
  /\ PeerTakes /\ Opens(peerReading, Incoming) /\ Incoming.type = "handshake"
  /\ peerTranscript' = peerTranscript \o Fragment(Incoming)
  /\ peerReading' = Advance(peerReading, Incoming.body)
  /\ peer' = IF peer = "fin" THEN "finish" ELSE peer
  /\ UNCHANGED <<clientVars, s2c, pending, peerWriting, heard, sent, finOver, faults>>

PeerChangeCipherSpec ==
  /\ PeerTakes /\ peer = "keys" /\ Incoming.type = "ccs" /\ Incoming.whole
  /\ peerReading' = Enable(PeerKey, peerReading) /\ peer' = "fin"
  /\ UNCHANGED <<clientVars, s2c, pending, peerTranscript, peerWriting, heard, sent,
                 finOver, faults>>

\* Application data, or the client's close_notify.
PeerHears ==
  /\ PeerTakes /\ peer = "open" /\ Opens(peerReading, Incoming)
  /\ Incoming.type \in {"data", "alert"}
  /\ heard' = IF Incoming.type = "data" THEN Append(heard, Incoming.body[1]) ELSE heard
  /\ peerReading' = Advance(peerReading, Incoming.body)
  /\ UNCHANGED <<clientVars, s2c, peer, pending, peerTranscript, peerWriting, sent,
                 finOver, faults>>

\* A record of the client's that does not open.
PeerRejects ==
  /\ PeerTakes
  /\ \/ ~Opens(peerReading, Incoming) \/ (Incoming.type = "ccs" /\ ~Incoming.whole)
  /\ peer' = "gone" /\ Emit("alert", <<"fatal">>)
  /\ faults' = faults \cup {"rejected"}
  /\ UNCHANGED <<clientVars, pending, peerTranscript, peerReading, heard, sent, finOver>>

\* ChangeCipherSpec and Finished.  Whether old firmware verifies the client's
\* Finished is not known; it is not relied on.
PeerFinish ==
  /\ Alive /\ peer = "finish" /\ pending = <<>> /\ peer' = "open"
  /\ s2c' = s2c \o Cells(Protect(peerWriting, "ccs", <<1>>))
  /\ peerWriting' = Enable(PeerKey, Advance(peerWriting, <<1>>))
  /\ pending' = Pieces(<<"finished">>) /\ finOver' = peerTranscript
  /\ peerTranscript' = Append(peerTranscript, Finished)
  /\ UNCHANGED <<clientVars, c2s, peerReading, heard, sent, faults>>

PeerSends ==
  /\ peer = "open" /\ pending = <<>> /\ Len(sent) < MaxData
  /\ sent' = Append(sent, Len(sent) + 1) /\ Emit("data", <<Len(sent) + 1>>)
  /\ UNCHANGED <<clientVars, c2s, peer, pending, peerTranscript, peerReading, heard,
                 finOver, faults>>

\* One warning at most; any other alert is the last thing the server sends.
PeerAlerts(a) ==
  /\ peer \notin {"start", "gone"} /\ a \notin faults /\ Cardinality(faults) < MaxFaults
  /\ Emit("alert", <<a>>) /\ faults' = faults \cup {a}
  /\ peer' = IF a = "warning" THEN peer ELSE "gone"
  /\ UNCHANGED <<clientVars, c2s, pending, peerTranscript, peerReading, heard, sent,
                 finOver>>

\* The server closes the connection without a word.
PeerHangsUp ==
  /\ Alive /\ peer # "gone" /\ peer' = "gone" /\ faults' = faults \cup {"hangup"}
  /\ UNCHANGED <<clientVars, s2c, c2s, pending, peerTranscript, peerReading, peerWriting,
                 heard, sent, finOver>>

\* One cell of the last record sent is damaged, in either direction.  (Which cell
\* is hit matters, when it is hit does not.)
Damage ==
  /\ Alive /\ "damage" \notin faults /\ Cardinality(faults) < MaxFaults
  /\ faults' = faults \cup {"damage"}
  /\ \/ /\ \E i \in {Len(s2c) - 1, Len(s2c)} \cap DOMAIN s2c :
             s2c' = [s2c EXCEPT ![i].rec =
                       IF s2c[i].head THEN [@ EXCEPT !.type = "invalid"]
                                      ELSE [@ EXCEPT !.whole = FALSE]]
        /\ UNCHANGED c2s
     \/ /\ \E i \in DOMAIN c2s : c2s' = [c2s EXCEPT ![i].whole = FALSE]
        /\ UNCHANGED s2c
  /\ UNCHANGED <<clientVars, peerVars>>

-----------------------------------------------------------------------------
Reads    == (\E n \in {1, Len(s2c)} : Fill(n)) \/ FillEnds \/ BadHeader \/ BadMac
Records  == HandleAlert \/ TakeFragment \/ TakeChangeCipherSpec \/ Deliver \/ Unexpected
Handles  == TakeHello \/ SendFlight \/ TakeFinished \/ Refuse
Client   == Connect \/ Reads \/ Records \/ Handles
User     == Send \/ Close
PeerDoes == (\E f \in Flights : PeerHello(f)) \/ (\E n \in DOMAIN pending : PeerEmit(n))
              \/ PeerHandshake \/ PeerChangeCipherSpec \/ PeerRejects \/ PeerFinish
Peer     == PeerHears \/ PeerSends
Misfortune == GiveUp \/ FillFails \/ (\E a \in Alerts : PeerAlerts(a)) \/ PeerHangsUp \/ Damage

Next == Client \/ User \/ PeerDoes \/ Peer \/ Misfortune

\* The client runs, and a server that has something to say in the handshake says it.
Spec     == Init /\ [][Next]_vars
FairSpec == Spec /\ WF_vars(Client) /\ WF_vars(PeerDoes)

-----------------------------------------------------------------------------
(***************************************************************************)
(* Properties.                                                             *)
(***************************************************************************)

\* A connected client and its server saw the same handshake, byte for byte, and
\* derived the same keys, however the messages were cut into records, whatever
\* the network did to them, and even if the server verifies nothing.
Agreement ==
  connected => /\ transcript = peerTranscript
               /\ reading.key = "shared" /\ writing.key = "shared"

\* Sequence numbers and key streams of both directions stay in step: without
\* damage on the way neither side ever refuses the other's records or Finished.
NoFalseAlarm ==
  faults \cap {"mac", "header", "malformed", "finished", "rejected"} # {}
    => "damage" \in faults

\* What the client cannot help: damage on the way, a flight that is not legal, an
\* alert that ends the connection or a server that closes it, a socket that fails
\* or stays silent for the whole receive timeout, and no randomness, usable key or
\* write of its own.  What the client makes of what it reads is not among them.
Outside == {"damage", "flight", "fatal", "close_notify", "hangup", "timeout", "local"}

\* A handshake with a server that keeps to the protocol, warnings included, ends
\* with a connection: the client neither waits for something that has come nor
\* refuses a message, a record, a Finished or an alert it should take, and the
\* server never has to refuse one of its records.
HandshakeCompletes ==
  (pc = "hello") ~> (connected \/ faults \cap Outside # {})

\* The application sees a SecureStream.
Stream == INSTANCE SecureStream
            WITH Data <- 1 .. MaxData, open <- connected,
                 over <- pc \in {"failed", "closed"}
StreamSpec == Stream!Spec
=============================================================================
