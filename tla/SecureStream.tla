---------------------------- MODULE SecureStream ----------------------------
(***************************************************************************)
(* What tls/client.hpp promises its callers (https_get, the RIBCL          *)
(* exchange): after a successful connect() the peer's application data     *)
(* arrives exactly as sent and in order, until the stream is over; nothing *)
(* arrives before connect() succeeded or after a failure or a close.       *)
(***************************************************************************)
EXTENDS Naturals, Sequences

CONSTANT Data

VARIABLES
  open,   \* connect() succeeded
  over,   \* connect() or recv() failed, or the stream was closed
  sent,   \* what the peer has written
  got     \* what recv() has returned

vars == <<open, over, sent, got>>

Init == open = FALSE /\ over = FALSE /\ sent = <<>> /\ got = <<>>

Connect ==
  /\ ~open /\ ~over /\ open' = TRUE
  /\ UNCHANGED <<over, sent, got>>

Write(d) ==
  /\ sent' = Append(sent, d)
  /\ UNCHANGED <<open, over, got>>

Read ==
  /\ open /\ ~over /\ Len(got) < Len(sent)
  /\ got' = Append(got, sent[Len(got) + 1])
  /\ UNCHANGED <<open, over, sent>>

End ==
  /\ over' = TRUE
  /\ UNCHANGED <<open, sent, got>>

Next == Connect \/ (\E d \in Data : Write(d)) \/ Read \/ End

Spec == Init /\ [][Next]_vars
=============================================================================
