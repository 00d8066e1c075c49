---------------------------- MODULE ConsoleCore ----------------------------
(***************************************************************************)
(* The lifecycle of a console session: ConsoleCore of ui/console_core.hpp  *)
(* (start, start_replay, stop, live_thread, replay_thread, the outbox and  *)
(* pump) with the receive loop and disconnect() of ilo/telnet.hpp.         *)
(*                                                                         *)
(* The UI thread runs start(), stop() and the input methods; the worker    *)
(* runs live_thread() or replay_thread().  Both may be inside              *)
(* Telnet::disconnect() at once, so its steps are separate actions of each *)
(* thread.  The peer (the iLO's console port) is external: it sends, stays *)
(* silent, stops reading, or closes.                                       *)
(***************************************************************************)
EXTENDS Naturals, Sequences

CONSTANTS
  OutboxCap,   \* queue_locked drops input once the outbox holds more than this
  MaxInput,    \* bound: inputs queued over the whole behaviour
  MaxSessions, \* bound: sessions started over the whole behaviour
  MayStall     \* whether the peer may stop reading while it stays up (external)

ASSUME ConsoleAssumption ==
  OutboxCap \in Nat /\ MaxInput \in Nat /\ MaxSessions \in Nat /\ MayStall \in BOOLEAN

VARIABLES
  ui,        \* "idle", the places inside stop(), or "exited"
  quit,      \* the window was closed: stop() is the last call
  worker,    \* worker_: "none" (not joinable), a place in its thread, "done"
  running,   \* ConsoleCore::running_
  state,     \* state_
  session,   \* session_ is set
  connected, \* Telnet::connected_
  looping,   \* Telnet::running_
  sock,      \* Telnet::sock_: "invalid", "open", or "stale" (closed, still stored)
  peer,      \* the far end still has the connection open (external)
  stalled,   \* it has stopped reading for good and the buffers between are full;
             \* a shorter stall only delays a send (external)
  outbox,    \* outbox_, each input named by its number
  want,      \* want_refresh_
  pending,   \* pump()'s local deque
  redraw,    \* pump()'s local refresh flag
  sent,      \* history: inputs transmit() has returned for
  inputs,    \* history: inputs accepted so far
  sessions   \* history: sessions started

uiVars   == <<ui, quit>>
telVars  == <<connected, looping, sock, peer, stalled>>
boxVars  == <<outbox, want, pending, redraw, sent, inputs>>
vars     == <<uiVars, worker, running, state, session, telVars, boxVars, sessions>>

Stopping == {"discCheck", "discClear", "discClose", "discForget", "join"}
Places   == {"none", "acquire", "connect", "publish", "announce", "enter", "loop",
             "pump", "flush", "blocked", "recv", "leave", "discCheck", "discClear",
             "discClose", "discForget", "finish", "replay", "done"}

Init ==
  /\ ui = "idle" /\ quit = FALSE /\ worker = "none" /\ running = FALSE
  /\ state = "Idle" /\ session = FALSE
  /\ connected = FALSE /\ looping = FALSE /\ sock = "invalid" /\ peer = FALSE
  /\ stalled = FALSE
  /\ outbox = <<>> /\ want = FALSE /\ pending = <<>> /\ redraw = FALSE
  /\ sent = <<>> /\ inputs = 0
  /\ sessions = 0

-----------------------------------------------------------------------------
(***************************************************************************)
(* The UI thread.  start() and start_replay() return "already running"     *)
(* while worker_ is joinable, which also covers a thread that has ended.   *)
(***************************************************************************)

StartWith(place) ==
  /\ ui = "idle" /\ worker = "none" /\ sessions < MaxSessions
  /\ worker' = place /\ running' = TRUE /\ state' = "Connecting"
  /\ sessions' = sessions + 1
  /\ UNCHANGED <<uiVars, session, telVars, boxVars>>

Start       == StartWith("acquire")
StartReplay == StartWith("replay")

\* The input methods: queue_locked under mu_.  The front end looks at the state
\* first, but the worker may end the session between that look and the call.
Input ==
  /\ ui = "idle" /\ sessions > 0 /\ inputs < MaxInput
  /\ Len(outbox) <= OutboxCap
  /\ inputs' = inputs + 1 /\ outbox' = Append(outbox, inputs + 1)
  /\ UNCHANGED <<uiVars, worker, running, state, session, telVars, want, pending,
                 redraw, sent, sessions>>

\* The Refresh button: request_refresh().
RequestRefresh ==
  /\ ui = "idle" /\ state \in {"Connecting", "Connected"} /\ want' = TRUE
  /\ UNCHANGED <<uiVars, worker, running, state, session, telVars, outbox, pending,
                 redraw, sent, inputs, sessions>>

\* stop(), from the Disconnect button (shown while Connecting or Connected) or
\* on the way out of main(): clear running_, disconnect if there is a session.
Stop(last) ==
  /\ ui = "idle" /\ (last \/ state \in {"Connecting", "Connected"})
  /\ running' = FALSE /\ quit' = last
  /\ ui' = IF session THEN "discCheck" ELSE "join"
  /\ UNCHANGED <<worker, state, session, telVars, boxVars, sessions>>

\* join() returned; drop the session; Stopped unless it Failed.
StopReturn ==
  /\ ui = "join" /\ worker \in {"none", "done"}
  /\ worker' = "none" /\ session' = FALSE
  /\ state' = IF state = "Failed" THEN state ELSE "Stopped"
  /\ ui' = IF quit THEN "exited" ELSE "idle"
  /\ UNCHANGED <<quit, running, telVars, boxVars, sessions>>

-----------------------------------------------------------------------------
(***************************************************************************)
(* Telnet::disconnect(), the same for both threads: `place' is where the   *)
(* thread is, `after' where it goes.                                       *)
(***************************************************************************)

\* if (!connected_) return;
DiscTest(place, placeNext, after) ==
  /\ place = "discCheck"
  /\ placeNext = IF connected THEN "discClear" ELSE after
  /\ UNCHANGED telVars

\* Mutant: only the receive loop's own flag is cleared.
DiscClearRunning(place, placeNext) ==
  /\ place = "discClear" /\ placeNext = "discClose"
  /\ looping' = FALSE
  /\ UNCHANGED <<connected, sock, peer, stalled>>

\* connected_ = 0; running_ = false;
DiscClear(place, placeNext) ==
  /\ place = "discClear" /\ placeNext = "discClose"
  /\ connected' = FALSE /\ looping' = FALSE
  /\ UNCHANGED <<sock, peer, stalled>>

\* Mutant: disconnect() clears the flags and leaves the descriptor to the
\* destructor, which returns at once because connected_ is already 0.
DiscCloseSkipped(place, placeNext) ==
  /\ place = "discClose" /\ placeNext = "discForget"
  /\ UNCHANGED telVars

\* if (sock_ != INVALID_SOCK) close_sock(sock_)
DiscClose(place, placeNext) ==
  /\ place = "discClose" /\ placeNext = "discForget"
  /\ sock' = IF sock = "invalid" THEN sock ELSE "stale"
  /\ UNCHANGED <<connected, looping, peer, stalled>>

\* sock_ = INVALID_SOCK; set_status("Offline")
DiscForget(place, placeNext, after) ==
  /\ place = "discForget" /\ placeNext = after
  /\ sock' = IF sock = "stale" THEN "invalid" ELSE sock
  /\ UNCHANGED <<connected, looping, peer, stalled>>

Disconnect(place, placeNext, after) ==
  \/ DiscTest(place, placeNext, after)
  \/ DiscClear(place, placeNext)
  \/ DiscClose(place, placeNext)
  \/ DiscForget(place, placeNext, after)

UiDisconnect ==
  /\ Disconnect(ui, ui', "join")
  /\ UNCHANGED <<quit, worker, running, state, session, boxVars, sessions>>

WorkerDisconnect ==
  /\ Disconnect(worker, worker', "finish")
  /\ UNCHANGED <<uiVars, running, state, session, boxVars, sessions>>

-----------------------------------------------------------------------------
(***************************************************************************)
(* The worker: live_thread().                                              *)
(***************************************************************************)

\* Any of the early returns: no session from the iLO, no info0, malformed keys,
\* or no connection to the console port.
Fail ==
  /\ worker \in {"acquire", "connect"}
  /\ state' = "Failed" /\ running' = FALSE /\ worker' = "done"
  /\ UNCHANGED <<uiVars, session, telVars, boxVars, sessions>>

\* acquire_console_session() and the session keys.
Acquire ==
  /\ worker = "acquire" /\ worker' = "connect"
  /\ UNCHANGED <<uiVars, running, state, session, telVars, boxVars, sessions>>

\* CimSession::connect() of a new session object, and the mouse-mode command; the
\* few bytes both send fit into the new connection's buffers.
Connect ==
  /\ worker = "connect" /\ worker' = "publish"
  /\ connected' = TRUE /\ looping' = FALSE /\ sock' = "open"
  /\ peer' = TRUE /\ stalled' = FALSE
  /\ UNCHANGED <<uiVars, running, state, session, boxVars, sessions>>

\* session_ = std::move(sess)
Publish ==
  /\ worker = "publish" /\ worker' = "announce" /\ session' = TRUE
  /\ UNCHANGED <<uiVars, running, state, telVars, boxVars, sessions>>

Announce ==
  /\ worker = "announce" /\ worker' = "enter" /\ state' = "Connected"
  /\ UNCHANGED <<uiVars, running, session, telVars, boxVars, sessions>>

\* Telnet::run() sets its own running_ ...
EnterRun ==
  /\ worker = "enter" /\ worker' = "loop" /\ looping' = TRUE
  /\ UNCHANGED <<uiVars, running, state, session, connected, sock, peer,
                 stalled, boxVars, sessions>>

\* ... and loops while running_ && connected_.
LoopTest ==
  /\ worker = "loop"
  /\ worker' = IF looping /\ connected THEN "pump" ELSE "leave"
  /\ UNCHANGED <<uiVars, running, state, session, telVars, boxVars, sessions>>

\* Mutant: pump() copies the outbox and empties it only after transmitting.
PumpCopies ==
  /\ worker = "pump" /\ worker' = "flush"
  /\ pending' = outbox /\ redraw' = want /\ want' = FALSE
  /\ UNCHANGED <<uiVars, running, state, session, telVars, outbox, sent, inputs,
                 sessions>>

\* on_idle() -> pump(): take the whole outbox under mu_ ...
PumpSwap ==
  /\ worker = "pump" /\ worker' = "flush"
  /\ pending' = outbox /\ outbox' = <<>>
  /\ redraw' = want /\ want' = FALSE
  /\ UNCHANGED <<uiVars, running, state, session, telVars, sent, inputs, sessions>>

\* send_all() waits in ::send for room in the buffers: the socket has a receive
\* timeout and none for sending.  On a closed descriptor, or once the peer has
\* closed, it fails at once.
Blocks == stalled /\ peer /\ sock = "open"

\* ... and transmit it without the lock, one input after the other.
PumpSend ==
  /\ worker = "flush" /\ pending # <<>> /\ ~Blocks
  /\ sent' = Append(sent, Head(pending)) /\ pending' = Tail(pending)
  /\ UNCHANGED <<uiVars, worker, running, state, session, telVars, outbox, want,
                 redraw, inputs, sessions>>

\* refresh_screen() if it was asked for or the period has passed; then recv.
PumpDone ==
  /\ worker = "flush" /\ pending = <<>> /\ (redraw => ~Blocks)
  /\ worker' = "recv" /\ redraw' = FALSE
  /\ UNCHANGED <<uiVars, running, state, session, telVars, outbox, want, pending,
                 sent, inputs, sessions>>

\* The thread waits in ::send, in transmit() of an input or in refresh_screen() ...
SendBlocks ==
  /\ worker = "flush" /\ Blocks /\ worker' = "blocked"
  /\ UNCHANGED <<uiVars, running, state, session, telVars, boxVars, sessions>>

\* ... and only the end of the connection wakes it: close() of the descriptor by
\* the UI thread does not reach a ::send that is already waiting.
SendReturns ==
  /\ worker = "blocked" /\ ~peer /\ worker' = "flush"
  /\ UNCHANGED <<uiVars, running, state, session, telVars, boxVars, sessions>>

\* Mutant: a receive timeout goes straight back to receiving.
RecvRetries ==
  /\ worker = "recv" /\ worker' = "recv"
  /\ UNCHANGED <<uiVars, running, state, session, telVars, boxVars, sessions>>

\* recv returns data (fed to the decoder) or times out after a second: again.
\* A recv() already blocked when the descriptor is closed may also time out.
RecvAgain ==
  /\ worker = "recv" /\ (peer \/ sock # "open") /\ worker' = "loop"
  /\ UNCHANGED <<uiVars, running, state, session, telVars, boxVars, sessions>>

\* recv reports EOF or an error: leave the loop.
RecvEnds ==
  /\ worker = "recv" /\ (~peer \/ sock # "open") /\ worker' = "leave"
  /\ UNCHANGED <<uiVars, running, state, session, telVars, boxVars, sessions>>

\* if (connected_) disconnect();
Leave ==
  /\ worker = "leave" /\ worker' = IF connected THEN "discCheck" ELSE "finish"
  /\ UNCHANGED <<uiVars, running, state, session, telVars, boxVars, sessions>>

Finish ==
  /\ worker = "finish" /\ worker' = "done"
  /\ running' = FALSE
  /\ state' = IF state = "Failed" THEN state ELSE "Stopped"
  /\ UNCHANGED <<uiVars, session, telVars, boxVars, sessions>>

-----------------------------------------------------------------------------
(***************************************************************************)
(* The worker: replay_thread(), which checks running_ between chunks.      *)
(***************************************************************************)

ReplayChunk ==
  /\ worker = "replay" /\ running /\ state = "Connecting"
  /\ state' = "Connected"
  /\ UNCHANGED <<uiVars, worker, running, session, telVars, boxVars, sessions>>

ReplayEnd ==
  /\ worker = "replay" /\ worker' = "done"
  /\ running' = FALSE /\ state' = "Stopped"
  /\ UNCHANGED <<uiVars, session, telVars, boxVars, sessions>>

\* The far end closes the connection (external).
PeerClose ==
  /\ peer /\ peer' = FALSE
  /\ UNCHANGED <<uiVars, worker, running, state, session, connected, looping, sock,
                 stalled, boxVars, sessions>>

\* The far end stays up and reads no more (external).
PeerStalls ==
  /\ MayStall /\ peer /\ ~stalled /\ stalled' = TRUE
  /\ UNCHANGED <<uiVars, worker, running, state, session, connected, looping, sock,
                 peer, boxVars, sessions>>

-----------------------------------------------------------------------------
UiCalls  == Start \/ StartReplay \/ Input \/ RequestRefresh
              \/ (\E last \in BOOLEAN : Stop(last))
UiStop   == UiDisconnect \/ StopReturn
Login    == Fail \/ Acquire \/ Connect \/ Publish \/ Announce
Receive  == EnterRun \/ LoopTest \/ PumpSwap \/ PumpSend \/ PumpDone
              \/ SendBlocks \/ SendReturns \/ RecvAgain \/ RecvEnds
Ending   == Leave \/ WorkerDisconnect \/ Finish
Replay   == ReplayChunk \/ ReplayEnd
Worker   == Login \/ Receive \/ Ending \/ Replay

Next == UiCalls \/ UiStop \/ Worker \/ PeerClose \/ PeerStalls

\* Both threads are scheduled; acquire ends by the TLS receive timeouts, connect by
\* the system's own, recv after a second.  A ::send ends when the connection lets
\* it (SendReturns).  Neither the user nor the peer owes anything.
Spec     == Init /\ [][Next]_vars
FairSpec == Spec /\ WF_vars(UiStop) /\ WF_vars(Worker)

-----------------------------------------------------------------------------
(***************************************************************************)
(* Properties.                                                             *)
(***************************************************************************)

\* The shape of the state of ConsoleCore and its Telnet.
TypeOK ==
  /\ ui \in {"idle", "exited"} \cup Stopping /\ quit \in BOOLEAN
  /\ worker \in Places /\ running \in BOOLEAN
  /\ state \in {"Idle", "Connecting", "Connected", "Stopped", "Failed"}
  /\ session \in BOOLEAN /\ connected \in BOOLEAN /\ looping \in BOOLEAN
  /\ sock \in {"invalid", "open", "stale"} /\ peer \in BOOLEAN
  /\ stalled \in BOOLEAN
  /\ outbox \in Seq(Nat) /\ pending \in Seq(Nat) /\ sent \in Seq(Nat)
  /\ want \in BOOLEAN /\ redraw \in BOOLEAN
  /\ inputs \in Nat /\ sessions \in Nat

\* Every input accepted goes through transmit() once and in the order it was
\* queued, also when it is queued while pump() is transmitting; what was not
\* sent is still in the outbox or in pump()'s hands.
InputInOrder ==
  sent \o pending \o outbox = [n \in 1 .. inputs |-> n]

\* Once stop() has returned nothing of the session is left: no thread, no
\* session object, no open descriptor, and the state is a final one.
StopCleansUp ==
  (worker = "none" /\ ui # "join" /\ state # "Idle") =>
     ~session /\ ~connected /\ sock = "invalid" /\ state \in {"Stopped", "Failed"}

Held(q)  == {q[i] : i \in DOMAIN q}
Ended    == worker \in {"none", "done"}

\* In ::send on a connection whose peer stays up and does not read.
Stuck == worker = "blocked" /\ stalled /\ peer

\* Input queued, or a redraw asked for, while a session is up is sent or taken up
\* by the receive thread, unless the session ends or the thread is for ever inside
\* send_all(), which has no timeout (telnet.hpp:277).
InputFlushed ==
  /\ \A n \in 1 .. MaxInput :
       (state = "Connected" /\ n \in Held(outbox)) ~> (n \in Held(sent) \/ Ended \/ []Stuck)
  /\ (state = "Connected" /\ want) ~> (~want \/ Ended \/ []Stuck)

\* console_core.hpp:193 "unblocks run()'s recv", tests/test_console_core.cpp:182
\* "stop() joins the worker": stop() returns even if the peer never closes.
StopReturns == (ui \in Stopping) ~> (ui \in {"idle", "exited"})

\* The part of it that holds: a stop() that finds the session published returns,
\* also when it disconnects just before run() raises running_ again, and so does
\* one that joins a replay or a thread that has ended.  The thread it joins may be
\* stuck in send_all(), which disconnect() does not wake; nothing else holds it up.
SessionStopReturns ==
  (ui = "discCheck" \/ (ui = "join" /\ worker \in {"none", "done", "replay"}))
    ~> (ui \in {"idle", "exited"} \/ []Stuck)
=============================================================================
