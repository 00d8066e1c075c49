----------------------------- MODULE ConsoleLink -----------------------------
(***************************************************************************)
(* The console port's two byte streams: Telnet::feed of ilo/telnet.hpp,    *)
(* the login and the ciphers of ilo/ilo2_session.hpp over the RC4 of       *)
(* crypto/rc4.hpp.                                                         *)
(*                                                                         *)
(* A cipher is its key's number and its position in the key stream; two    *)
(* ends that agree on both agree on the byte.  The decoder (DvcDecoder) is *)
(* what its properties say it is: it takes a byte, and after the byte that *)
(* ends command 9 it asks for new keys with no bit left over.  The iLO is  *)
(* external.  "Firmware cmd 9 rekeys BOTH directions" (ilo2_session.hpp    *)
(* 83): after the byte with command 9 it enciphers what it sends, and      *)
(* deciphers what it reads, with its next key.                             *)
(***************************************************************************)
EXTENDS Naturals, Sequences

CONSTANTS
  MaxText,   \* bound: bytes the iLO sends before it starts the video
  MaxVideo,  \* bound: bytes of video
  MaxSent    \* bound: messages the client sends after its login

ASSUME LinkAssumption ==
  MaxText \in Nat /\ MaxVideo \in Nat /\ MaxSent \in Nat

VARIABLES
  hooked,      \* the decoder's on_change_key reaches the session: it does in
               \* tools/capture_dvc.cpp, it does not in ui/console_core.hpp
  keyed,       \* both ciphers exist (infoa)
  loggedIn,    \* connect() has sent the login
  announcing,  \* sending_encrypt_command_
  esc,         \* esc_state_
  dvc,         \* dvc_mode_
  ciphered,    \* dvc_encryption_
  decrypter,   \* rc4_decrypter_
  encrypter,   \* rc4_encrypter_
  got,         \* history: what the decoder was given
  out,         \* history: how each byte sent was enciphered
  messages,    \* history: messages sent after the login
  wire,        \* bytes on their way to the client (external), as is the rest
  said,        \* text the iLO has sent
  shown,       \* video bytes the iLO has sent, in the clear
  iloCipher,   \* its encrypter
  iloDecrypter,\* its decrypter
  heard,       \* history: how it deciphered each byte it has read
  crossed      \* history: bytes of the client's met a command 9 on its way

session  == <<hooked, keyed, loggedIn, announcing>>
feeding  == <<esc, dvc, ciphered>>
sending  == <<encrypter, out, messages>>
ilo      == <<said, shown, iloCipher>>
iloIn    == <<iloDecrypter, heard>>
vars     == <<session, feeding, decrypter, got, sending, wire, ilo, iloIn, crossed>>

TextBytes  == {"ESC", "[", "R", "r", "other"}
VideoBytes == {"video", "rekey"}
Fresh      == [key |-> 1, pos |-> 0]
InClear    == [key |-> 0, pos |-> 0]

\* RC4::randomValue() and RC4::update_key().
Used(k)    == [k EXCEPT !.pos = @ + 1]
Updated(k) == [key |-> k.key + 1, pos |-> 0]

Init ==
  /\ hooked \in BOOLEAN /\ keyed \in BOOLEAN /\ loggedIn = FALSE /\ announcing = FALSE
  /\ esc = 0 /\ dvc = FALSE /\ ciphered = FALSE
  /\ decrypter = Fresh /\ encrypter = Fresh
  /\ got = <<>> /\ out = <<>> /\ messages = 0
  /\ wire = <<>> /\ said = <<>> /\ shown = <<>> /\ iloCipher = Fresh
  /\ iloDecrypter = Fresh /\ heard = <<>> /\ crossed = FALSE

-----------------------------------------------------------------------------
(***************************************************************************)
(* Sending.                                                                *)
(***************************************************************************)

\* A packet of n bytes, the first `clear' of them as they are.
Tags(n, clear) ==
  [i \in 1 .. n |-> IF i <= clear \/ ~keyed THEN InClear
                    ELSE [encrypter EXCEPT !.pos = @ + (i - clear - 1)]]

\* FF C0 and four bytes of key index.
Preamble == 6

\* A command 9 is on its way to the client.
Rekeying == \E i \in DOMAIN wire : wire[i].byte = "rekey"

\* Mutant: the key stream runs under the preamble too.
TransmitThrough(n) ==
  LET clear == IF announcing THEN Preamble ELSE 0 IN
  /\ out' = out \o Tags(n, clear) /\ announcing' = FALSE
  /\ encrypter' = IF keyed THEN [encrypter EXCEPT !.pos = @ + n] ELSE encrypter
  /\ crossed' = (crossed \/ Rekeying)

\* CimSession::transmit(): the preamble of the first packet is not enciphered.
Transmit(n) ==
  LET clear == IF announcing THEN Preamble ELSE 0 IN
  /\ out' = out \o Tags(n, clear) /\ announcing' = FALSE
  /\ encrypter' = IF keyed THEN [encrypter EXCEPT !.pos = @ + (n - clear)] ELSE encrypter
  /\ crossed' = (crossed \/ Rekeying)

\* CimSession::connect(): with keys the login gets room for the preamble.
Connect ==
  /\ ~loggedIn /\ ~announcing /\ keyed /\ announcing' = TRUE
  /\ UNCHANGED <<hooked, keyed, loggedIn, feeding, decrypter, got, sending, wire, ilo,
                 iloIn, crossed>>

\* Telnet::connect() sends the login; its token is short here.
Login ==
  /\ ~loggedIn /\ announcing = keyed /\ loggedIn' = TRUE
  /\ Transmit(IF keyed THEN Preamble + 1 ELSE 1)
  /\ UNCHANGED <<hooked, keyed, feeding, decrypter, got, messages, wire, ilo, iloIn>>

\* Input, a refresh or a keep-alive.
Send ==
  /\ loggedIn /\ messages < MaxSent /\ messages' = messages + 1 /\ Transmit(1)
  /\ UNCHANGED <<hooked, keyed, loggedIn, feeding, decrypter, got, wire, ilo, iloIn>>

-----------------------------------------------------------------------------
(***************************************************************************)
(* feed(): one byte.                                                       *)
(***************************************************************************)

NextByte == Head(wire).byte

\* Mutant: an ESC inside a sequence ends it.
FeedTextOnce ==
  /\ wire # <<>> /\ ~dvc /\ wire' = Tail(wire)
  /\ esc' = CASE NextByte = "ESC" /\ esc = 0 -> 1
              [] NextByte = "[" /\ esc = 1 -> 2
              [] NextByte \in {"R", "r"} /\ esc = 2 -> esc
              [] OTHER -> 0
  /\ dvc' = (esc = 2 /\ NextByte \in {"R", "r"})
  /\ ciphered' = IF dvc' THEN NextByte = "R" ELSE ciphered
  /\ UNCHANGED <<session, decrypter, got, sending, ilo, iloIn, crossed>>

\* Outside DVC mode: ESC [ R and ESC [ r start it.
FeedText ==
  /\ wire # <<>> /\ ~dvc /\ wire' = Tail(wire)
  /\ esc' = CASE NextByte = "ESC" -> 1
              [] NextByte = "[" /\ esc = 1 -> 2
              [] NextByte \in {"R", "r"} /\ esc = 2 -> esc
              [] OTHER -> 0
  /\ dvc' = (esc = 2 /\ NextByte \in {"R", "r"})
  /\ ciphered' = IF dvc' THEN NextByte = "R" ELSE ciphered
  /\ UNCHANGED <<session, decrypter, got, sending, ilo, iloIn, crossed>>

\* The byte as the decoder gets it: under the wrong key or at the wrong position
\* it is garbage, and garbage may read as anything.
Deciphers == ciphered /\ keyed
Plain ==
  IF Head(wire).tag = (IF Deciphers THEN decrypter ELSE InClear)
    THEN {NextByte} ELSE VideoBytes \cup {"garbage"}

\* CimSession::change_key(): the encrypter, then the decrypter, if they exist and
\* the decoder's hook is connected.
Rekeys(b) == b = "rekey" /\ hooked /\ keyed

\* Mutant: the new key comes before the byte that asks for it is used up.
FeedVideoRekeysFirst ==
  /\ wire # <<>> /\ dvc /\ wire' = Tail(wire)
  /\ \E b \in Plain :
       LET after == IF Rekeys(b) THEN Updated(decrypter) ELSE decrypter IN
       /\ got' = Append(got, b)
       /\ decrypter' = IF Deciphers THEN Used(after) ELSE after
       /\ encrypter' = IF Rekeys(b) THEN Updated(encrypter) ELSE encrypter
  /\ UNCHANGED <<session, feeding, out, messages, ilo, iloIn, crossed>>

\* Mutant: command 9 renews the decrypter only.
FeedVideoRekeysIn ==
  /\ wire # <<>> /\ dvc /\ wire' = Tail(wire)
  /\ \E b \in Plain :
       LET after == IF Deciphers THEN Used(decrypter) ELSE decrypter IN
       /\ got' = Append(got, b)
       /\ decrypter' = IF Rekeys(b) THEN Updated(after) ELSE after
  /\ UNCHANGED <<session, feeding, sending, ilo, iloIn, crossed>>

\* In DVC mode: decipher, then process_dvc(), which never leaves DVC mode.
FeedVideo ==
  /\ wire # <<>> /\ dvc /\ wire' = Tail(wire)
  /\ \E b \in Plain :
       LET after == IF Deciphers THEN Used(decrypter) ELSE decrypter IN
       /\ got' = Append(got, b)
       /\ decrypter' = IF Rekeys(b) THEN Updated(after) ELSE after
       /\ encrypter' = IF Rekeys(b) THEN Updated(encrypter) ELSE encrypter
  /\ UNCHANGED <<session, feeding, out, messages, ilo, iloIn, crossed>>

-----------------------------------------------------------------------------
(***************************************************************************)
(* The iLO (external).                                                     *)
(***************************************************************************)

\* The sequence that starts the video ends a text.
Ends(t, c) ==
  /\ Len(t) >= 3
  /\ SubSeq(t, Len(t) - 2, Len(t)) = <<"ESC", "[", c>>
Started(t) == Ends(t, "R") \/ Ends(t, "r")

IloText(c) ==
  /\ loggedIn /\ ~Started(said) /\ Len(said) < MaxText
  /\ said' = Append(said, c)
  /\ wire' = Append(wire, [byte |-> c, tag |-> InClear])
  /\ UNCHANGED <<session, feeding, decrypter, got, sending, shown, iloCipher, iloIn, crossed>>

IloVideo(c) ==
  LET enciphers == keyed /\ Ends(said, "R") IN
  /\ Started(said) /\ Len(shown) < MaxVideo /\ (c = "rekey" => enciphers)
  /\ shown' = Append(shown, c)
  /\ wire' = Append(wire, [byte |-> c, tag |-> IF enciphers THEN iloCipher ELSE InClear])
  /\ iloCipher' = IF c = "rekey" THEN Updated(iloCipher)
                  ELSE IF enciphers THEN Used(iloCipher) ELSE iloCipher
  /\ iloDecrypter' = IF c = "rekey" THEN Updated(iloDecrypter) ELSE iloDecrypter
  /\ crossed' = (crossed \/ (c = "rekey" /\ Len(heard) < Len(out)))
  /\ UNCHANGED <<session, feeding, decrypter, got, sending, said, heard>>

\* Byte n of what the client sends, as the iLO deciphers it: the preamble, which
\* names the key, as it is, and the rest at the next position of its key.
Expected(n) ==
  IF ~keyed \/ n <= Preamble THEN InClear
  ELSE [iloDecrypter EXCEPT
          !.pos = @ + (n - 1 - (IF Len(heard) < Preamble THEN Preamble ELSE Len(heard)))]

\* The iLO reads all that has arrived.
IloReads ==
  /\ Len(heard) < Len(out)
  /\ heard' = [n \in 1 .. Len(out) |-> IF n <= Len(heard) THEN heard[n] ELSE Expected(n)]
  /\ iloDecrypter' = IF keyed THEN Expected(Len(out) + 1) ELSE iloDecrypter
  /\ UNCHANGED <<session, feeding, decrypter, got, sending, wire, ilo, crossed>>

-----------------------------------------------------------------------------
Client == Connect \/ Login \/ FeedText \/ FeedVideo
Ilo    == (\E c \in TextBytes : IloText(c)) \/ (\E c \in VideoBytes : IloVideo(c)) \/ IloReads
Next   == Client \/ Send \/ Ilo

\* What has arrived is read and fed; nothing makes the iLO or the user send.
Spec     == Init /\ [][Next]_vars
FairSpec == Spec /\ WF_vars(Client)

-----------------------------------------------------------------------------
(***************************************************************************)
(* Properties.                                                             *)
(***************************************************************************)

\* Up to a change of keys that the session is not told of.
InStep == hooked \/ \A i \in DOMAIN shown : shown[i] # "rekey"

\* ilo2_session.hpp:83 "firmware cmd 9 rekeys BOTH directions": the decoder gets
\* exactly the bytes the iLO enciphered, from the first one after ESC [ R, through
\* false starts of that sequence and across every change of keys it tells the
\* session of.
DecoderSeesVideo ==
  InStep => Len(got) <= Len(shown) /\ got = SubSeq(shown, 1, Len(got))

\* The iLO deciphers every byte with the key and at the position it was enciphered
\* with: the clear preamble first if there are keys, then the key stream without a
\* gap, and the next key on both ends after each command 9.  Two cases are left
\* out: a command 9 the session is not told of (InStep), after which the client
\* keeps its old key, and bytes that crossed a command 9, for which neither the
\* code nor its protocol provides.
OutboundUnbroken ==
  InStep /\ ~crossed => \A i \in DOMAIN heard : heard[i] = out[i]

\* Every byte of video the iLO sends reaches the decoder.
VideoArrives == \A n \in 1 .. MaxVideo : (Len(shown) >= n) ~> (Len(got) >= n)
=============================================================================
