------------------------- MODULE ConsoleCoreProofs -------------------------
(***************************************************************************)
(* For every capacity of the outbox and any number of inputs and sessions: *)
(* the input methods and pump() neither lose nor reorder an input          *)
(* (InputInOrder), and whichever thread gets through disconnect() first,   *)
(* stop() leaves nothing of the session behind (StopCleansUp).             *)
(***************************************************************************)
EXTENDS ConsoleCore, SequenceTheorems, TLAPS

\* The shape of the places, that of the flags, and that of the outbox.
Spots ==
  /\ ui \in {"idle", "exited"} \cup Stopping /\ worker \in Places
  /\ state \in {"Idle", "Connecting", "Connected", "Stopped", "Failed"}
  /\ sock \in {"invalid", "open", "stale"}
Flags ==
  /\ quit \in BOOLEAN /\ running \in BOOLEAN /\ session \in BOOLEAN
  /\ connected \in BOOLEAN /\ looping \in BOOLEAN /\ peer \in BOOLEAN
  /\ stalled \in BOOLEAN
  /\ want \in BOOLEAN /\ redraw \in BOOLEAN
Boxes ==
  /\ outbox \in Seq(Nat) /\ pending \in Seq(Nat) /\ sent \in Seq(Nat)
  /\ inputs \in Nat /\ sessions \in Nat

LEMMA TypeParts == TypeOK <=> Spots /\ Flags /\ Boxes
  BY DEF TypeOK, Spots, Flags, Boxes

LEMMA BoxesInductive == Boxes /\ [Next]_vars => Boxes'
<1> SUFFICES ASSUME Boxes, [Next]_vars PROVE Boxes'
  OBVIOUS
<1> USE DEF Boxes, boxVars
<1>1. CASE Input
  BY <1>1 DEF Input
<1>2. CASE PumpSend
  BY <1>2 DEF PumpSend
<1>3. CASE PumpSwap
  BY <1>3 DEF PumpSwap
<1>4. CASE \E place \in {"acquire", "replay"} : StartWith(place)
  BY <1>4 DEF StartWith
<1>5. CASE UNCHANGED <<outbox, pending, sent, inputs, sessions>>
  BY <1>5
<1>6. CASE UiStop \/ Login \/ Ending \/ Replay \/ PeerClose \/ PeerStalls \/ UNCHANGED vars
  BY <1>5, <1>6 DEF UiStop, UiDisconnect, StopReturn, Login, Fail, Acquire, Connect,
         Publish, Announce, Ending, Leave, WorkerDisconnect, Finish, Replay, ReplayChunk,
         ReplayEnd, PeerClose, PeerStalls, vars
<1> QED
  BY <1>1, <1>2, <1>3, <1>4, <1>5, <1>6
  DEF Next, Worker, UiCalls, Start, StartReplay, RequestRefresh, Stop, Receive,
      EnterRun, LoopTest, PumpDone, SendBlocks, SendReturns, RecvAgain, RecvEnds

LEMMA SpotsInductive == Spots /\ [Next]_vars => Spots'
<1> SUFFICES ASSUME Spots, [Next]_vars PROVE Spots'
  OBVIOUS
<1> USE DEF Spots, Places, Stopping, uiVars, telVars
<1>1. CASE UiCalls
  BY <1>1 DEF UiCalls, Start, StartReplay, StartWith, Input, RequestRefresh, Stop
<1>2. CASE UiStop
  BY <1>2 DEF UiStop, UiDisconnect, Disconnect, DiscTest, DiscClear, DiscClose,
              DiscForget, StopReturn
<1>3. CASE Login
  BY <1>3 DEF Login, Fail, Acquire, Connect, Publish, Announce
<1>4. CASE Receive
  BY <1>4 DEF Receive, EnterRun, LoopTest, PumpSwap, PumpSend, PumpDone, SendBlocks,
              SendReturns, RecvAgain, RecvEnds
<1>5. CASE Ending
  BY <1>5 DEF Ending, Leave, WorkerDisconnect, Disconnect, DiscTest, DiscClear,
              DiscClose, DiscForget, Finish
<1>6. CASE Replay \/ PeerClose \/ PeerStalls
  BY <1>6 DEF Replay, ReplayChunk, ReplayEnd, PeerClose, PeerStalls
<1>7. CASE UNCHANGED vars
  BY <1>7 DEF vars
<1> QED BY <1>1, <1>2, <1>3, <1>4, <1>5, <1>6, <1>7 DEF Next, Worker

LEMMA FlagsInductive == Flags /\ [Next]_vars => Flags'
<1> SUFFICES ASSUME Flags, [Next]_vars PROVE Flags'
  OBVIOUS
<1> USE DEF Flags, uiVars, telVars, boxVars
<1>1. CASE UiCalls
  BY <1>1, Zenon DEF UiCalls, Start, StartReplay, StartWith, Input, RequestRefresh, Stop
<1>2. CASE UiStop
  BY <1>2, Zenon DEF UiStop, UiDisconnect, Disconnect, DiscTest, DiscClear, DiscClose,
              DiscForget, StopReturn
<1>3. CASE Login
  BY <1>3, Zenon DEF Login, Fail, Acquire, Connect, Publish, Announce
<1>4. CASE Receive
  BY <1>4, Zenon DEF Receive, EnterRun, LoopTest, PumpSwap, PumpSend, PumpDone, SendBlocks,
              SendReturns, RecvAgain, RecvEnds
<1>5. CASE Ending
  BY <1>5, Zenon DEF Ending, Leave, WorkerDisconnect, Disconnect, DiscTest, DiscClear,
              DiscClose, DiscForget, Finish
<1>6. CASE Replay \/ PeerClose \/ PeerStalls
  BY <1>6, Zenon DEF Replay, ReplayChunk, ReplayEnd, PeerClose, PeerStalls
<1>7. CASE UNCHANGED vars
  BY <1>7, Zenon DEF vars
<1> QED BY <1>1, <1>2, <1>3, <1>4, <1>5, <1>6, <1>7 DEF Next, Worker

\* ConsoleCore and its Telnet are well typed in every reachable state.
THEOREM TypeCorrect == Spec => []TypeOK
<1>1. Init => Boxes
  BY DEF Init, Boxes
<1>2. Init => Flags
  BY Zenon DEF Init, Flags
<1>3. Init => Spots
  BY DEF Init, Spots, Stopping, Places
<1> QED
  BY <1>1, <1>2, <1>3, BoxesInductive, FlagsInductive, SpotsInductive, TypeParts, PTL
  DEF Spec

-----------------------------------------------------------------------------
(***************************************************************************)
(* Teardown.  Either thread may be in disconnect(), each at its own place, *)
(* so the invariant says who still owes what: an open descriptor that is   *)
(* not connected any more is about to be closed, and one that is closed    *)
(* and still stored is about to be forgotten.                              *)
(***************************************************************************)

BeforePublish == {"none", "acquire", "connect", "replay", "publish"}
UpPlaces      == {"publish", "announce", "enter", "loop", "pump", "flush", "blocked",
                  "recv", "leave", "discCheck", "discClear"}

\* The session object exists only for a worker that published it, and stop() is
\* inside disconnect() only on such a session.
SessionHeld ==
  /\ session => worker \notin BeforePublish
  /\ ui \in Stopping \ {"join"} => session

\* A worker past disconnect() has connected_ cleared.
ConnectedHeld == connected => worker \in UpPlaces

\* What either thread has still to do for the descriptor.
SocketOwed ==
  /\ sock = "open" => connected \/ "discClose" \in {ui, worker}
  /\ sock = "stale" => "discForget" \in {ui, worker}

\* Without a worker the state is a resting one.
AtRest == worker = "none" => state \in {"Idle", "Stopped", "Failed"}

Teardown == SessionHeld /\ ConnectedHeld /\ SocketOwed /\ AtRest

LEMMA TeardownInductive == Teardown /\ [Next]_vars => Teardown'
<1> SUFFICES ASSUME Teardown, [Next]_vars PROVE Teardown'
  OBVIOUS
<1> USE DEF Teardown, SessionHeld, ConnectedHeld, SocketOwed, AtRest, BeforePublish,
            UpPlaces, Stopping, uiVars, telVars
<1>1. CASE UiCalls
  BY <1>1 DEF UiCalls, Start, StartReplay, StartWith, Input, RequestRefresh, Stop
<1>2. CASE UiDisconnect
  BY <1>2 DEF UiDisconnect, Disconnect, DiscTest, DiscClear, DiscClose, DiscForget
<1>3. CASE StopReturn
  BY <1>3 DEF StopReturn
<1>4. CASE Login
  BY <1>4 DEF Login, Fail, Acquire, Connect, Publish, Announce
<1>5. CASE Receive
  BY <1>5 DEF Receive, EnterRun, LoopTest, PumpSwap, PumpSend, PumpDone, SendBlocks,
              SendReturns, RecvAgain, RecvEnds
<1>6. CASE Leave \/ Finish
  BY <1>6 DEF Leave, Finish
<1>7. CASE WorkerDisconnect
  BY <1>7 DEF WorkerDisconnect, Disconnect, DiscTest, DiscClear, DiscClose, DiscForget
<1>8. CASE Replay \/ PeerClose \/ PeerStalls
  BY <1>8 DEF Replay, ReplayChunk, ReplayEnd, PeerClose, PeerStalls
<1>9. CASE UNCHANGED vars
  BY <1>9 DEF vars
<1> QED
  BY <1>1, <1>2, <1>3, <1>4, <1>5, <1>6, <1>7, <1>8, <1>9
  DEF Next, UiStop, Worker, Ending

\* Once stop() has returned nothing of the session is left, whichever of the two
\* threads got through disconnect() first and wherever the other one was.
THEOREM StopLeavesNothing == Spec => []StopCleansUp
<1>1. Init => Teardown
  BY DEF Init, Teardown, SessionHeld, ConnectedHeld, SocketOwed, AtRest, BeforePublish,
         UpPlaces, Stopping
<1>2. Spots /\ Teardown => StopCleansUp
  BY DEF Spots, Teardown, SessionHeld, ConnectedHeld, SocketOwed, AtRest, BeforePublish,
         UpPlaces, Stopping, Places, StopCleansUp
<1>3. TypeOK => Spots
  BY TypeParts
<1> QED
  BY <1>1, <1>2, <1>3, TeardownInductive, TypeCorrect, PTL DEF Spec

-----------------------------------------------------------------------------
(***************************************************************************)
(* Input.                                                                  *)
(***************************************************************************)

\* pump() holds input only between taking the outbox and the last transmit().
PumpHolds == worker \notin {"flush", "blocked"} => pending = <<>>

LEMMA PumpHoldsInductive == PumpHolds /\ [Next]_vars => PumpHolds'
<1> SUFFICES ASSUME PumpHolds, [Next]_vars PROVE PumpHolds'
  OBVIOUS
<1> USE DEF PumpHolds, boxVars
<1>1. CASE UiCalls
  BY <1>1 DEF UiCalls, Start, StartReplay, StartWith, Input, RequestRefresh, Stop
<1>2. CASE UiStop
  BY <1>2 DEF UiStop, UiDisconnect, StopReturn
<1>3. CASE Login \/ Replay \/ PeerClose \/ PeerStalls
  BY <1>3 DEF Login, Fail, Acquire, Connect, Publish, Announce, Replay, ReplayChunk,
              ReplayEnd, PeerClose, PeerStalls
<1>4. CASE Receive
  BY <1>4 DEF Receive, EnterRun, LoopTest, PumpSwap, PumpSend, PumpDone, SendBlocks,
              SendReturns, RecvAgain, RecvEnds
<1>5. CASE Ending
  BY <1>5 DEF Ending, Leave, WorkerDisconnect, Disconnect, DiscTest, DiscClear,
              DiscClose, DiscForget, Finish
<1>6. CASE UNCHANGED vars
  BY <1>6 DEF vars
<1> QED
  BY <1>1, <1>2, <1>3, <1>4, <1>5, <1>6 DEF Next, Worker

\* Queueing at the end of the outbox is queueing at the end of everything.
LEMMA ConcatAppend ==
  ASSUME NEW t \in Seq(Nat), NEW o \in Seq(Nat), NEW x \in Nat
  PROVE  t \o Append(o, x) = Append(t \o o, x)
  OBVIOUS

LEMMA CountOn ==
  ASSUME NEW n \in Nat
  PROVE  Append([i \in 1 .. n |-> i], n + 1) = [i \in 1 .. n + 1 |-> i]
<1>1. [i \in 1 .. n |-> i] \in Seq(Nat) /\ Len([i \in 1 .. n |-> i]) = n
  OBVIOUS
<1> QED BY <1>1

\* Moving one input from the front of pump()'s hands to what was sent.
LEMMA SendKeepsOrder ==
  ASSUME NEW s \in Seq(Nat), NEW p \in Seq(Nat), NEW o \in Seq(Nat), p # <<>>
  PROVE  Append(s, Head(p)) \o Tail(p) \o o = s \o p \o o
<1>1. Append(s, Head(p)) \o Tail(p) = s \o p
  <2>1. Len(Append(s, Head(p)) \o Tail(p)) = Len(s \o p)
    OBVIOUS
  <2>2. \A i \in 1 .. Len(s \o p) : (Append(s, Head(p)) \o Tail(p))[i] = (s \o p)[i]
    OBVIOUS
  <2> QED
    BY <2>1, <2>2, SeqEqual
<1> QED BY <1>1

LEMMA InputInOrderInductive ==
  Boxes /\ PumpHolds /\ InputInOrder /\ [Next]_vars => InputInOrder'
<1> SUFFICES ASSUME Boxes, PumpHolds, InputInOrder, [Next]_vars PROVE InputInOrder'
  OBVIOUS
<1>1. CASE UNCHANGED <<sent, pending, outbox, inputs>>
  BY <1>1 DEF InputInOrder
<1>2. CASE Input
  <2>1. /\ sent' = sent /\ pending' = pending
        /\ outbox' = Append(outbox, inputs + 1) /\ inputs' = inputs + 1
    BY <1>2 DEF Input
  <2>2. (sent \o pending) \o Append(outbox, inputs + 1)
          = Append((sent \o pending) \o outbox, inputs + 1)
    BY ConcatAppend DEF Boxes
  <2>3. Append((sent \o pending) \o outbox, inputs + 1) = [n \in 1 .. inputs + 1 |-> n]
    BY CountOn DEF InputInOrder, Boxes
  <2> QED
    BY <2>1, <2>2, <2>3 DEF InputInOrder
<1>3. CASE PumpSend
  BY <1>3, SendKeepsOrder DEF PumpSend, InputInOrder, Boxes
<1>4. CASE PumpSwap
  <2>1. pending = <<>> /\ outbox' = <<>> /\ pending' = outbox /\ sent' = sent /\ inputs' = inputs
    BY <1>4 DEF PumpSwap, PumpHolds
  <2>2. sent \o <<>> \o outbox = sent \o outbox \o <<>>
    BY DEF Boxes
  <2> QED BY <2>1, <2>2 DEF InputInOrder
<1>5. CASE UiStop \/ Login \/ Ending \/ Replay \/ PeerClose \/ PeerStalls \/ UNCHANGED vars
  BY <1>1, <1>5 DEF UiStop, UiDisconnect, StopReturn, Login, Fail, Acquire, Connect,
         Publish, Announce, Ending, Leave, WorkerDisconnect, Finish, Replay, ReplayChunk,
         ReplayEnd, PeerClose, PeerStalls, vars, boxVars
<1> QED
  BY <1>1, <1>2, <1>3, <1>4, <1>5
  DEF Next, Worker, UiCalls, Start, StartReplay, StartWith, RequestRefresh, Stop, Receive,
      EnterRun, LoopTest, PumpDone, SendBlocks, SendReturns, RecvAgain, RecvEnds, boxVars

\* Every input accepted is sent once and in order, however the input methods and
\* pump() interleave and however large the outbox is.
THEOREM InputNeitherLostNorReordered == Spec => []InputInOrder
<1>1. Init => PumpHolds
  BY DEF Init, PumpHolds
<1>2. Init => InputInOrder
  BY DEF Init, InputInOrder
<1>3. TypeOK => Boxes
  BY TypeParts
<1> QED
  BY <1>1, <1>2, <1>3, PumpHoldsInductive, InputInOrderInductive, TypeCorrect, PTL DEF Spec
=============================================================================
