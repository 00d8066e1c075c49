---------------------------- MODULE PowerControl ----------------------------
(***************************************************************************)
(* ui/power_control.hpp: the worker thread that runs RIBCL power commands  *)
(* for the UI.  Two threads share m_, queue_, snap_ and run_:              *)
(*                                                                         *)
(*   - the UI thread calls start(), stop() and request();                  *)
(*   - the worker waits on the condition variable, takes one command under *)
(*     the lock, runs it WITHOUT the lock (ribcl_run), and publishes the   *)
(*     outcome under the lock.                                             *)
(*                                                                         *)
(* The iLO is external: it executes a command, refuses it, or the exchange *)
(* fails at transport level before or after the firmware executed it.  The *)
(* host's power state also changes on its own (the power button, the host  *)
(* OS shutting down after a momentary press).                              *)
(***************************************************************************)
EXTENDS Naturals, Sequences

CONSTANTS
  PowerWrites,   \* write commands that leave the host on or off
  OtherWrites,   \* write commands with no effect on power (the UID light)
  PollEnabled,   \* cfg_.poll_sec > 0
  HealthEnabled, \* cfg_.health_sec > 0
  MaxRequests    \* bound: request() calls per session

Status   == "GetPowerStatus"
Health   == "GetEmbeddedHealth"
Readings == "GetPowerReadings"
Reads    == {Status, Health, Readings}
Writes   == PowerWrites \cup OtherWrites
Commands == Reads \cup Writes
Nothing  == "none"          \* no command: nothing in flight, nothing reported
Unknown  == "unknown"       \* an empty host_power

ASSUME CommandsDisjoint ==
  /\ Writes \cap (Reads \cup {Nothing}) = {}
  /\ PollEnabled \in BOOLEAN /\ HealthEnabled \in BOOLEAN
  /\ MaxRequests \in Nat

\* ribcl_is_write
IsWrite(cmd) == cmd \notin Reads

VARIABLES
  run,       \* run_
  thread,    \* thread_ and the worker's place: "none" (not joinable), "top",
             \* "flight" (inside ribcl_run), "answered" (reply in hand), "done"
  ui,        \* UI thread: "idle", or inside stop() ("stopping"), start() ("starting")
  queue,     \* queue_
  pollDue,   \* the worker's local poll_due
  cmd,       \* the worker's local cmd while it is in ribcl_run
  reply,     \* the reply the firmware produced
  snap,      \* snap_
  power,     \* the host's real power state (external)
  settled,   \* from here on no exchange fails and power moves only by writes
  requested, \* history: the commands request()ed since start()
  taken      \* history: how many of them the worker took off the queue

vars == <<run, thread, ui, queue, pollDue, cmd, reply, snap, power, settled,
          requested, taken>>

NoReply   == [ok |-> FALSE, power |-> Unknown]
EmptySnap == [power |-> Unknown, action |-> Nothing, result |-> Nothing,
              busy |-> FALSE, error |-> FALSE, known |-> {}]

Init ==
  /\ run = FALSE /\ thread = "none" /\ ui = "idle"
  /\ queue = <<>> /\ pollDue = FALSE /\ cmd = Nothing /\ reply = NoReply
  /\ snap = EmptySnap
  /\ power \in {"ON", "OFF"} /\ settled = FALSE
  /\ requested = <<>> /\ taken = 0

-----------------------------------------------------------------------------
(***************************************************************************)
(* The UI thread.                                                          *)
(***************************************************************************)

\* request(): append under the lock and notify.  The UI only asks for writes.
Request(c) ==
  /\ ui = "idle" /\ Len(requested) < MaxRequests
  /\ queue' = Append(queue, c)
  /\ requested' = Append(requested, c)
  /\ UNCHANGED <<run, thread, ui, pollDue, cmd, reply, snap, power, settled,
                 taken>>

\* Mutant: stop() that forgets to clear run_.
StopWithoutClearing ==
  /\ ui = "idle" /\ ui' = "stopping"
  /\ UNCHANGED <<run, thread, queue, pollDue, cmd, reply, snap, power, settled,
                 requested, taken>>

\* stop(), first half: clear run_, notify, then block in join().
Stop ==
  /\ ui = "idle"
  /\ run' = FALSE /\ ui' = "stopping"
  /\ UNCHANGED <<thread, queue, pollDue, cmd, reply, snap, power, settled,
                 requested, taken>>

\* start() begins with the same stop().
Start ==
  /\ ui = "idle"
  /\ run' = FALSE /\ ui' = "starting"
  /\ UNCHANGED <<thread, queue, pollDue, cmd, reply, snap, power, settled,
                 requested, taken>>

\* thread_ is not joinable, or its function has returned.
Joined == thread \in {"none", "done"}

\* stop(), second half: join() returns.
StopReturn ==
  /\ ui = "stopping" /\ Joined
  /\ thread' = "none" /\ ui' = "idle"
  /\ UNCHANGED <<run, queue, pollDue, cmd, reply, snap, power, settled,
                 requested, taken>>

\* Mutant: start() that keeps the commands of the previous session queued.
StartKeepsQueue ==
  /\ ui = "starting" /\ Joined
  /\ run' = TRUE /\ ui' = "idle"
  /\ snap' = EmptySnap
  /\ thread' = "top" /\ pollDue' = TRUE
  /\ requested' = <<>> /\ taken' = 0
  /\ UNCHANGED <<queue, cmd, reply, power, settled>>

\* start() after its stop(): a fresh snapshot, an empty queue, a new worker.
StartReturn ==
  /\ ui = "starting" /\ Joined
  /\ run' = TRUE /\ ui' = "idle"
  /\ snap' = EmptySnap /\ queue' = <<>>
  /\ thread' = "top" /\ pollDue' = TRUE
  /\ requested' = <<>> /\ taken' = 0
  /\ UNCHANGED <<cmd, reply, power, settled>>

-----------------------------------------------------------------------------
(***************************************************************************)
(* The worker.  The critical section that ends the wait is one step; the   *)
(* wait ends when run_ is cleared, the queue is not empty, or it times out.*)
(* A timeout with nothing to do (poll_sec = 0) changes nothing.            *)
(***************************************************************************)

WorkerExit ==
  /\ thread = "top" /\ ~run
  /\ thread' = "done"
  /\ UNCHANGED <<run, ui, queue, pollDue, cmd, reply, snap, power, settled,
                 requested, taken>>

\* Mutant: every command is followed by a health report.
RideAfterAnything(c, healthDue, q) ==
  IF healthDue THEN <<Health, Readings>> \o q ELSE q

\* Health rides along after a status poll, as two reads ahead of the queue.
RideAlong(c, healthDue, q) ==
  IF c = Status /\ healthDue THEN <<Health, Readings>> \o q ELSE q

\* Common end of the critical section: c was chosen, q is what is left of
\* queue_; a write names the action, and the exchange starts.
Launch(c, q) ==
  /\ thread = "top" /\ run
  /\ \E healthDue \in (IF HealthEnabled THEN BOOLEAN ELSE {FALSE}) :
        queue' = RideAlong(c, healthDue, q)
  /\ pollDue' = FALSE
  /\ cmd' = c /\ thread' = "flight"
  /\ snap' = [snap EXCEPT !.busy = TRUE,
                          !.action = IF IsWrite(c) THEN c ELSE @]
  /\ UNCHANGED <<run, ui, reply, power, settled, requested>>

TakeQueued ==
  /\ queue # <<>>
  /\ taken' = IF IsWrite(Head(queue)) THEN taken + 1 ELSE taken
  /\ Launch(Head(queue), Tail(queue))

TakePoll ==
  /\ queue = <<>> /\ (pollDue \/ PollEnabled)
  /\ Launch(Status, <<>>)
  /\ UNCHANGED taken

-----------------------------------------------------------------------------
(***************************************************************************)
(* The exchange.  Three actions are the firmware's (external); a transport *)
(* failure may come before the firmware saw the command or after it        *)
(* executed it (the answer is lost).                                       *)
(***************************************************************************)

FwExecute ==
  /\ thread = "flight"
  /\ power' \in IF cmd \in PowerWrites THEN {"ON", "OFF"} ELSE {power}
  /\ reply' = [ok |-> TRUE, power |-> IF cmd = Status THEN power ELSE Unknown]
  /\ thread' = "answered"
  /\ UNCHANGED <<run, ui, queue, pollDue, cmd, snap, settled, requested, taken>>

FwRefuse ==
  /\ thread = "flight" /\ ~settled
  /\ reply' = NoReply
  /\ thread' = "answered"
  /\ UNCHANGED <<run, ui, queue, pollDue, cmd, snap, power, settled, requested,
                 taken>>

\* The firmware breaks off before it carries the command out; the stages it has
\* reported until then are good, and the reply passes for success.
FwCut ==
  /\ thread = "flight" /\ ~settled
  /\ reply' = [ok |-> TRUE, power |-> Unknown]
  /\ thread' = "answered"
  /\ UNCHANGED <<run, ui, queue, pollDue, cmd, snap, power, settled, requested,
                 taken>>

\* ribcl_run returned false.  poll_due keeps the value it had.
TransportFail ==
  /\ thread \in {"flight", "answered"} /\ ~settled
  /\ snap' = [snap EXCEPT !.busy = FALSE, !.error = TRUE, !.result = "transport",
                          !.power = IF cmd = Status THEN Unknown ELSE @]
  /\ thread' = "top" /\ cmd' = Nothing /\ reply' = NoReply
  /\ UNCHANGED <<run, ui, queue, pollDue, power, settled, requested, taken>>

\* Mutant: the power state is only filled in while it is unknown.
OutcomeKeepsPower(s, c, r, parses) ==
  [s EXCEPT !.busy = FALSE,
            !.power = IF s.power = Unknown THEN r.power ELSE @]

\* What the snapshot becomes for a reply that arrived: health and wattage reads
\* touch only their own fields (and only if the report parses), a write reports
\* its outcome, a status read reports only a failure.
Outcome(s, c, r, parses) ==
  LET seen == [s EXCEPT !.busy = FALSE,
                        !.power = IF r.power = Unknown THEN @ ELSE r.power]
  IN  IF c \in {Health, Readings}
      THEN [seen EXCEPT !.known = IF parses THEN @ \cup {c} ELSE @]
      ELSE IF IsWrite(c)
      THEN [seen EXCEPT !.error = ~r.ok, !.result = IF r.ok THEN "ok" ELSE "failed"]
      ELSE IF ~r.ok
      THEN [seen EXCEPT !.error = TRUE, !.result = "failed"]
      ELSE [seen EXCEPT !.error = FALSE]

Answered ==
  /\ thread = "answered"
  /\ \E parses \in BOOLEAN :
        snap' = Outcome(snap, cmd, reply, parses)
  /\ pollDue' = (pollDue \/ IsWrite(cmd))
  /\ thread' = "top" /\ cmd' = Nothing /\ reply' = NoReply
  /\ UNCHANGED <<run, ui, queue, power, settled, requested, taken>>

-----------------------------------------------------------------------------
(***************************************************************************)
(* The environment.                                                        *)
(***************************************************************************)

PowerChanges ==
  /\ ~settled
  /\ power' = IF power = "ON" THEN "OFF" ELSE "ON"
  /\ UNCHANGED <<run, thread, ui, queue, pollDue, cmd, reply, snap, settled,
                 requested, taken>>

Settle ==
  /\ ~settled /\ settled' = TRUE
  /\ UNCHANGED <<run, thread, ui, queue, pollDue, cmd, reply, snap, power,
                 requested, taken>>

UiNext == (\E c \in Writes : Request(c)) \/ Stop \/ Start
UiJoin == StopReturn \/ StartReturn
Take   == TakeQueued \/ TakePoll
Reply  == TransportFail \/ Answered
Worker == WorkerExit \/ Take \/ Reply
Firmware == FwExecute \/ FwRefuse \/ FwCut
Environment == PowerChanges \/ Settle

Next == UiNext \/ UiJoin \/ Worker \/ Firmware \/ Environment

\* The worker is scheduled, its timed waits end, every exchange ends (each
\* receive has a timeout), and join() returns once the thread has.  The user and
\* the environment owe nothing.
Fairness == WF_vars(Worker) /\ WF_vars(Firmware) /\ WF_vars(UiJoin)

Spec     == Init /\ [][Next]_vars
FairSpec == Spec /\ Fairness

-----------------------------------------------------------------------------
(***************************************************************************)
(* Properties.                                                             *)
(***************************************************************************)

ReplyType == [ok : BOOLEAN, power : {"ON", "OFF", Unknown}]
SnapType  == [power  : {"ON", "OFF", Unknown}, action : Writes \cup {Nothing},
              result : {Nothing, "ok", "failed", "transport"},
              busy   : BOOLEAN, error : BOOLEAN, known : SUBSET Reads]

\* The shape of the state of PowerControl: fields of the class and of worker().
TypeOK ==
  /\ run \in BOOLEAN
  /\ thread \in {"none", "top", "flight", "answered", "done"}
  /\ ui \in {"idle", "stopping", "starting"}
  /\ queue \in Seq(Commands)
  /\ pollDue \in BOOLEAN
  /\ cmd \in Commands \cup {Nothing}
  /\ reply \in ReplyType /\ snap \in SnapType
  /\ power \in {"ON", "OFF"} /\ settled \in BOOLEAN
  /\ requested \in Seq(Writes) /\ taken \in Nat

\* How many ride-along reads stand at the front of queue_.
Riding ==
  IF Len(queue) > 0 /\ queue[1] = Health THEN 2
  ELSE IF Len(queue) > 0 /\ queue[1] = Readings THEN 1 ELSE 0

\* queue_ is the ride-along reads still to do (both, the second, or none)
\* followed by exactly the commands requested and not yet taken, in the order
\* of the request() calls: no command is lost, repeated, reordered, or stuck
\* behind reads that pile up.
Fifo ==
  /\ taken <= Len(requested)
  /\ Len(queue) = Riding + (Len(requested) - taken)
  /\ Riding = 2 => queue[2] = Readings
  /\ \A i \in 1 .. (Len(requested) - taken) :
        queue[Riding + i] = requested[taken + i]

\* stop() and start() return: the worker sees run_ cleared from wherever it is.
StopReturns == (ui # "idle") ~> (ui = "idle")

\* Once exchanges stop failing and nobody else touches the power button, a wrong
\* or unknown power state on the screen does not stay: it is corrected, or the
\* worker was stopped, whatever went wrong before.
ShownPowerRecovers ==
  (settled /\ snap.power # power) ~> (snap.power = power \/ ~run)

\* Seen from the UI the worker is a JobQueue of the commands request()ed: the
\* reads it adds for itself are invisible, and they never reorder, repeat or
\* starve a request.
Waiting == SubSeq(queue, Riding + 1, Len(queue))
Running == IF cmd # Nothing /\ IsWrite(cmd) THEN cmd ELSE Nothing

Jobs == INSTANCE JobQueue
          WITH Jobs <- Writes, todo <- Waiting, current <- Running, open <- run

JobQueueSpec == Jobs!Spec
=============================================================================
