------------------------- MODULE PowerControlProofs -------------------------
(***************************************************************************)
(* TypeOK and Fifo hold of PowerControl for every set of commands, every   *)
(* configuration and every number of requests, and every step of it is a   *)
(* step of JobQueue or leaves the abstract queue alone.                    *)
(***************************************************************************)
EXTENDS PowerControl, SequenceTheorems, TLAPS

\* The values start() and a finished exchange leave behind are well typed.
LEMMA BlankTypes == EmptySnap \in SnapType /\ NoReply \in ReplyType
  BY DEF EmptySnap, SnapType, NoReply, ReplyType

\* What a transport failure publishes is a snapshot.
LEMMA FailedSnap ==
  ASSUME NEW s \in SnapType, NEW c
  PROVE  [s EXCEPT !.busy = FALSE, !.error = TRUE, !.result = "transport",
                   !.power = IF c = Status THEN Unknown ELSE @] \in SnapType
  BY DEF SnapType

\* What a launch publishes is a snapshot: reads do not become last_action.
LEMMA LaunchedSnap ==
  ASSUME NEW s \in SnapType, NEW c \in Commands
  PROVE  [s EXCEPT !.busy = TRUE,
                   !.action = IF IsWrite(c) THEN c ELSE @] \in SnapType
  BY DEF SnapType, Commands, IsWrite

\* What a reply publishes is a snapshot, for every command.
LEMMA OutcomeType ==
  ASSUME NEW s \in SnapType, NEW c, NEW r \in ReplyType, NEW parses
  PROVE  Outcome(s, c, r, parses) \in SnapType
<1> DEFINE seen == [s EXCEPT !.busy = FALSE,
                             !.power = IF r.power = Unknown THEN @ ELSE r.power]
<1>1. seen \in SnapType
  BY DEF SnapType, ReplyType
<1> HIDE DEF seen
<1>2. ASSUME c \in {Health, Readings}
      PROVE  [seen EXCEPT !.known = IF parses THEN @ \cup {c} ELSE @] \in SnapType
  BY <1>1, <1>2 DEF SnapType, Reads
<1>3. [seen EXCEPT !.error = ~r.ok, !.result = IF r.ok THEN "ok" ELSE "failed"]
         \in SnapType
  BY <1>1 DEF SnapType
<1>4. /\ [seen EXCEPT !.error = TRUE, !.result = "failed"] \in SnapType
      /\ [seen EXCEPT !.error = FALSE] \in SnapType
  BY <1>1 DEF SnapType
<1> QED
  BY <1>2, <1>3, <1>4 DEF Outcome, seen

\* Putting the ride-along reads in front keeps queue_ a queue of commands.
LEMMA RideAlongType ==
  ASSUME NEW c, NEW due, NEW q \in Seq(Commands)
  PROVE  RideAlong(c, due, q) \in Seq(Commands)
<1>1. <<Health, Readings>> \in Seq(Commands)
  BY DEF Commands, Reads
<1>2. <<Health, Readings>> \o q \in Seq(Commands)
  BY <1>1
<1> QED
  BY <1>2 DEF RideAlong

\* Every step keeps the types: in particular last_action only ever names a
\* write, although the worker also runs reads of its own.
THEOREM TypeCorrect == Spec => []TypeOK
<1>1. Init => TypeOK
  <2> SUFFICES ASSUME Init PROVE TypeOK
    OBVIOUS
  <2>1. queue \in Seq(Commands) /\ requested \in Seq(Writes) /\ taken \in Nat
    BY DEF Init
  <2>2. reply \in ReplyType /\ snap \in SnapType
    BY BlankTypes DEF Init
  <2> QED
    BY <2>1, <2>2 DEF Init, TypeOK
<1>2. TypeOK /\ [Next]_vars => TypeOK'
  <2> SUFFICES ASSUME TypeOK, [Next]_vars PROVE TypeOK'
    OBVIOUS
  <2> USE DEF TypeOK
  <2>1. ASSUME NEW c \in Writes, Request(c) PROVE TypeOK'
    BY <2>1 DEF Request, Commands
  <2>2. CASE Stop \/ Start
    BY <2>2 DEF Stop, Start
  <2>3. CASE StopReturn
    BY <2>3 DEF StopReturn
  <2>13. CASE StartReturn
    <3>1. queue' \in Seq(Commands) /\ requested' \in Seq(Writes) /\ taken' \in Nat
      BY <2>13 DEF StartReturn
    <3> QED
      BY <2>13, <3>1, BlankTypes DEF StartReturn
  <2>4. CASE WorkerExit
    BY <2>4 DEF WorkerExit
  <2>5. CASE TakeQueued
    <3>1. Head(queue) \in Commands /\ Tail(queue) \in Seq(Commands)
      BY <2>5 DEF TakeQueued
    <3>2. snap' \in SnapType
      BY <2>5, <3>1, LaunchedSnap DEF TakeQueued, Launch
    <3>4. queue' \in Seq(Commands)
      BY <2>5, <3>1, RideAlongType DEF TakeQueued, Launch
    <3>3. taken' \in Nat
      BY <2>5 DEF TakeQueued
    <3> QED
      BY <2>5, <3>1, <3>2, <3>3, <3>4 DEF TakeQueued, Launch
  <2>6. CASE TakePoll
    <3>1. Status \in Commands /\ <<>> \in Seq(Commands)
      BY DEF Commands, Reads
    <3>2. snap' \in SnapType
      BY <2>6, <3>1, LaunchedSnap DEF TakePoll, Launch
    <3>3. queue' \in Seq(Commands)
      BY <2>6, <3>1, RideAlongType DEF TakePoll, Launch
    <3> QED
      BY <2>6, <3>1, <3>2, <3>3 DEF TakePoll, Launch
  <2>7. CASE TransportFail
    BY <2>7, FailedSnap, BlankTypes DEF TransportFail
  <2>8. CASE Answered
    <3>1. snap' \in SnapType
      BY <2>8, OutcomeType DEF Answered
    <3> QED
      BY <2>8, <3>1, BlankTypes DEF Answered
  <2>9. CASE FwExecute
    <3>1. reply' \in ReplyType
      BY <2>9 DEF FwExecute, ReplyType
    <3> QED
      BY <2>9, <3>1 DEF FwExecute
  <2>10. CASE FwRefuse
    BY <2>10, BlankTypes DEF FwRefuse
  <2>14. CASE FwCut
    <3>1. reply' \in ReplyType
      BY <2>14 DEF FwCut, ReplyType
    <3> QED
      BY <2>14, <3>1 DEF FwCut
  <2>11. CASE PowerChanges \/ Settle
    BY <2>11 DEF PowerChanges, Settle
  <2>12. CASE UNCHANGED vars
    BY <2>12 DEF vars
  <2> QED
    BY <2>1, <2>2, <2>3, <2>4, <2>5, <2>6, <2>7, <2>8, <2>9, <2>10, <2>11, <2>12,
       <2>13, <2>14 DEF Next, UiNext, UiJoin, Worker, Take, Reply, Firmware, Environment
<1> QED
  BY <1>1, <1>2, PTL DEF Spec

-----------------------------------------------------------------------------
\* A write is none of the ride-along reads: what IsWrite decides on.
LEMMA WritesAreNotReads == \A c \in Writes : c \notin Reads /\ c # Nothing
  BY CommandsDisjoint

\* Fifo is inductive relative to the types.  The interesting cases are the two
\* Take steps, where the front of queue_ is removed and, for a status read,
\* two ride-along reads may be put in front of what is left.
LEMMA FifoInductive == TypeOK /\ Fifo /\ [Next]_vars => Fifo'
<1> SUFFICES ASSUME TypeOK, Fifo, [Next]_vars PROVE Fifo'
  OBVIOUS
<1> USE DEF Fifo
<1>t. /\ queue \in Seq(Commands) /\ requested \in Seq(Writes) /\ taken \in Nat
      /\ Len(queue) \in Nat /\ Len(requested) \in Nat
  BY DEF TypeOK
<1>r. /\ Riding \in 0 .. 2
      /\ Riding = 2 => queue[1] = Health /\ Len(queue) > 0
      /\ Riding = 1 => queue[1] = Readings /\ Len(queue) > 0
      /\ Riding = 0 => Len(queue) = 0 \/ queue[1] \notin {Health, Readings}
  BY <1>t DEF Riding
<1>1. ASSUME NEW c \in Writes, Request(c) PROVE Fifo'
  <2>1. /\ Len(queue') = Len(queue) + 1 /\ queue'[Len(queue) + 1] = c
        /\ \A i \in 1 .. Len(queue) : queue'[i] = queue[i]
    BY <1>1, <1>t DEF Request, Commands
  <2>2. /\ Len(requested') = Len(requested) + 1
        /\ requested'[Len(requested) + 1] = c
        /\ \A i \in 1 .. Len(requested) : requested'[i] = requested[i]
    BY <1>1, <1>t DEF Request
  <2>3. c # Health /\ c # Readings /\ taken' = taken
    BY <1>1, WritesAreNotReads DEF Request, Reads
  <2>4. Riding' = Riding
    <3>1. CASE Len(queue) = 0
      BY <3>1, <2>1, <2>3, <1>t DEF Riding
    <3>2. CASE Len(queue) > 0
      <4>1. queue'[1] = queue[1] /\ Len(queue') > 0
        BY <3>2, <2>1, <1>t
      <4> QED
        BY <3>2, <4>1 DEF Riding
    <3> QED
      BY <3>1, <3>2, <1>t
  <2>5. Len(queue') = Riding' + (Len(requested') - taken')
    BY <2>1, <2>2, <2>3, <2>4, <1>t, <1>r
  <2>6. Riding' = 2 => queue'[2] = Readings
    BY <2>1, <2>4, <1>t, <1>r
  <2>7. ASSUME NEW i \in 1 .. (Len(requested') - taken')
        PROVE  queue'[Riding' + i] = requested'[taken' + i]
    <3>1. CASE i = Len(requested) + 1 - taken
      BY <3>1, <2>1, <2>2, <2>3, <2>4, <1>t, <1>r
    <3>2. CASE i \in 1 .. (Len(requested) - taken)
      <4>1. queue[Riding + i] = requested[taken + i]
        BY <3>2
      <4>2. Riding + i \in 1 .. Len(queue) /\ taken + i \in 1 .. Len(requested)
        BY <3>2, <1>t, <1>r
      <4> QED
        BY <4>1, <4>2, <2>1, <2>2, <2>3, <2>4
    <3>3. Len(requested') - taken' = (Len(requested) - taken) + 1
      BY <2>2, <2>3, <1>t
    <3>4. i \in Nat /\ 1 <= i /\ i <= (Len(requested) - taken) + 1
      BY <3>3, <1>t
    <3>5. i = Len(requested) + 1 - taken \/ i \in 1 .. (Len(requested) - taken)
      BY <3>4, <1>t
    <3> QED
      BY <3>1, <3>2, <3>5
  <2>8. taken' <= Len(requested')
    BY <2>2, <2>3, <1>t
  <2> QED
    BY <2>5, <2>6, <2>7, <2>8
<1>2. CASE StartReturn
  BY <1>2 DEF StartReturn, Riding
<1>3. CASE TakeQueued
  <2>1. /\ queue # <<>> /\ Len(queue) > 0 /\ Head(queue) = queue[1]
        /\ Len(Tail(queue)) = Len(queue) - 1
        /\ \A i \in 1 .. (Len(queue) - 1) : Tail(queue)[i] = queue[i + 1]
    BY <1>3, <1>t DEF TakeQueued
  <2>2. Head(queue) # Status
    <3>1. CASE Riding = 0
      BY <3>1, <2>1, <1>t, WritesAreNotReads DEF Reads
    <3> QED
      BY <3>1, <2>1, <1>r DEF Status, Health, Readings
  <2>3. queue' = Tail(queue) /\ requested' = requested
    BY <1>3, <2>2 DEF TakeQueued, Launch, RideAlong
  <2>4. CASE Riding = 0
    <3>1. queue[1] = requested[taken + 1] /\ Len(requested) - taken > 0
      BY <2>1, <2>4, <1>t
    <3>2. taken' = taken + 1
      BY <1>3, <2>1, <3>1, <1>t, WritesAreNotReads DEF TakeQueued, IsWrite
    <3>3. \A i \in 1 .. (Len(requested) - taken') :
             queue'[i] = requested[taken' + i]
      <4> TAKE i \in 1 .. (Len(requested) - taken')
      <4>1. i + 1 \in 1 .. (Len(requested) - taken)
        BY <3>2, <1>t
      <4>2. queue[Riding + (i + 1)] = requested[taken + (i + 1)]
        BY <4>1
      <4> QED
        BY <4>1, <4>2, <2>1, <2>3, <2>4, <3>2, <1>t
    <3>4. Riding' = 0
      <4>1. Len(queue') > 0 => queue'[1] \in Writes
        BY <2>1, <2>3, <2>4, <3>2, <3>3, <1>t
      <4> QED
        BY <4>1, WritesAreNotReads DEF Reads, Riding
    <3> QED
      BY <2>1, <2>3, <2>4, <3>1, <3>2, <3>3, <3>4, <1>t
  <2>5. CASE Riding # 0
    <3>1. taken' = taken
      BY <1>3, <2>1, <2>5, <1>r DEF TakeQueued, IsWrite, Reads
    <3>2. Riding' = Riding - 1
      <4>1. CASE Riding = 2
        <5>1. Len(queue') > 0 /\ queue'[1] = Readings
          BY <4>1, <2>1, <2>3, <1>t
        <5> QED
          BY <4>1, <5>1 DEF Riding, Health, Readings
      <4>2. CASE Riding = 1
        <5>1. Len(queue') > 0 => queue'[1] = requested[taken + 1]
          BY <4>2, <2>1, <2>3, <1>t
        <5>2. Len(queue') > 0 => queue'[1] \in Writes
          BY <4>2, <5>1, <2>1, <2>3, <1>t
        <5> QED
          BY <4>2, <5>2, WritesAreNotReads DEF Reads, Riding
      <4> QED
        BY <4>1, <4>2, <2>5, <1>r
    <3>3. ASSUME NEW i \in 1 .. (Len(requested) - taken)
          PROVE  queue'[Riding' + i] = requested[taken + i]
      <4>1. queue[Riding + i] = requested[taken + i]
        OBVIOUS
      <4> QED
        BY <4>1, <2>1, <2>3, <2>5, <3>2, <1>t, <1>r
    <3> QED
      <4>1. Len(queue') = Riding' + (Len(requested') - taken')
        BY <2>1, <2>3, <3>1, <3>2, <1>t, <1>r
      <4>2. Riding' # 2
        BY <3>2, <1>r
      <4>3. \A i \in 1 .. (Len(requested') - taken') :
               queue'[Riding' + i] = requested'[taken' + i]
        BY <2>3, <3>1, <3>3
      <4> QED
        BY <4>1, <4>2, <4>3, <2>3, <3>1
  <2> QED
    BY <2>4, <2>5
<1>4. CASE TakePoll
  <2>1. requested' = requested /\ taken' = taken /\ queue = <<>>
    BY <1>4 DEF TakePoll, Launch
  <2>2. Len(requested) = taken
    <3>1. Len(queue) = 0 /\ Riding = 0
      BY <2>1 DEF Riding
    <3> QED
      BY <3>1, <1>t
  <2>3. queue' = <<>> \/ queue' = <<Health, Readings>>
    BY <1>4 DEF TakePoll, Launch, RideAlong
  <2> QED
    BY <2>1, <2>2, <2>3, <1>t DEF Health, Readings, Riding
<1>5. CASE UNCHANGED <<queue, requested, taken>>
  BY <1>5 DEF Riding
<1> QED
  BY <1>1, <1>2, <1>3, <1>4, <1>5
     DEF Next, UiNext, UiJoin, Worker, Take, Reply, Firmware, Environment, vars,
         Stop, Start, StopReturn, WorkerExit, FwExecute, FwRefuse, FwCut,
         TransportFail, Answered, PowerChanges, Settle

\* Requests are run once each and in the order they were made, behind at most
\* the two ride-along reads, whatever the firmware and the UI do.
THEOREM RequestsInOrder == Spec => []Fifo
<1>1. Init => Fifo
  BY DEF Init, Fifo, Riding
<1> QED
  BY <1>1, FifoInductive, TypeCorrect, PTL DEF Spec
-----------------------------------------------------------------------------
\* The worker has a command in hand only during an exchange, and run_ stays clear
\* while stop() or start() waits for the thread.
InHand ==
  /\ thread \in {"none", "top", "done"} => cmd = Nothing
  /\ ui # "idle" => ~run

LEMMA InHandInductive == InHand /\ [Next]_vars => InHand'
<1> SUFFICES ASSUME InHand, [Next]_vars PROVE InHand'
  OBVIOUS
<1> USE DEF InHand
<1>1. CASE UiNext \/ UiJoin \/ UNCHANGED vars
  BY <1>1 DEF UiNext, UiJoin, Request, Stop, Start, StopReturn, StartReturn, Joined, vars
<1>2. CASE Worker
  <2>1. CASE Take
    BY <2>1 DEF Take, TakeQueued, TakePoll, Launch
  <2>2. CASE WorkerExit \/ Reply
    BY <2>2 DEF WorkerExit, Reply, TransportFail, Answered
  <2> QED
    BY <1>2, <2>1, <2>2 DEF Worker
<1>3. CASE Firmware \/ Environment
  BY <1>3 DEF Firmware, FwExecute, FwRefuse, FwCut, Environment, PowerChanges, Settle
<1> QED
  BY <1>1, <1>2, <1>3 DEF Next

\* What waits behind the ride-along reads is what was requested and not taken.
Pending ==
  /\ Waiting \in Seq(Writes)
  /\ Len(Waiting) = Len(requested) - taken
  /\ \A i \in 1 .. (Len(requested) - taken) : Waiting[i] = requested[taken + i]

LEMMA WaitingIsPending == TypeOK /\ Fifo => Pending
<1> SUFFICES ASSUME TypeOK, Fifo PROVE Pending
  OBVIOUS
<1>t. /\ queue \in Seq(Commands) /\ requested \in Seq(Writes) /\ taken \in Nat
      /\ Len(queue) \in Nat /\ Len(requested) \in Nat
  BY DEF TypeOK
<1>f. /\ taken <= Len(requested)
      /\ Len(queue) = Riding + (Len(requested) - taken)
      /\ \A i \in 1 .. (Len(requested) - taken) : queue[Riding + i] = requested[taken + i]
  BY DEF Fifo
<1>r. Riding \in Nat
  BY DEF Riding
<1>1. ASSUME NEW i \in (Riding + 1) .. Len(queue) PROVE queue[i] \in Writes
  <2>1. i - Riding \in 1 .. (Len(requested) - taken)
    BY <1>t, <1>f, <1>r
  <2>2. queue[Riding + (i - Riding)] = requested[taken + (i - Riding)]
    BY <2>1, <1>f
  <2>3. taken + (i - Riding) \in 1 .. Len(requested)
    BY <2>1, <1>t, <1>f, <1>r
  <2>4. requested[taken + (i - Riding)] \in Writes
    BY <2>3, <1>t, ElementOfSeq
  <2>5. Riding + (i - Riding) = i
    BY <1>r, <1>t
  <2> QED
    BY <2>2, <2>4, <2>5
<1>2. /\ Waiting \in Seq(Writes)
      /\ Len(Waiting) = IF Riding + 1 <= Len(queue) THEN Len(queue) - (Riding + 1) + 1 ELSE 0
      /\ \A i \in 1 .. (Len(queue) - (Riding + 1) + 1) : Waiting[i] = queue[(Riding + 1) + i - 1]
  <2>1. Riding + 1 \in Int /\ Len(queue) \in Int
    BY <1>r, <1>t
  <2> HIDE DEF Riding
  <2> QED
    BY <1>1, <2>1, SubSeqProperties DEF Waiting
<1>3. Len(Waiting) = Len(requested) - taken
  BY <1>2, <1>t, <1>f, <1>r
<1>4. ASSUME NEW i \in 1 .. (Len(requested) - taken) PROVE Waiting[i] = requested[taken + i]
  <2>1. (Riding + 1) + i - 1 = Riding + i /\ i \in 1 .. (Len(queue) - (Riding + 1) + 1)
    BY <1>t, <1>f, <1>r
  <2> QED
    BY <2>1, <1>2, <1>f
<1> QED
  BY <1>2, <1>3, <1>4 DEF Pending

\* Every step of the UI, the worker and the firmware is a step of the JobQueue of the
\* requests, or none of it: the reads the worker adds do not show.
LEMMA QueueStep ==
  TypeOK /\ Fifo /\ InHand /\ Pending /\ Pending' /\ [Next]_vars => [Jobs!Next]_(Jobs!vars)
<1> SUFFICES ASSUME TypeOK, Fifo, InHand, Pending, Pending', [Next]_vars
             PROVE  [Jobs!Next]_(Jobs!vars)
  OBVIOUS
<1> USE DEF Jobs!vars
<1>t. /\ queue \in Seq(Commands) /\ requested \in Seq(Writes) /\ taken \in Nat
      /\ Len(requested) \in Nat /\ taken <= Len(requested)
  BY DEF TypeOK, Fifo
<1>w. /\ Waiting \in Seq(Writes)
      /\ Len(Waiting) = Len(requested) - taken
      /\ \A i \in 1 .. (Len(requested) - taken) : Waiting[i] = requested[taken + i]
  BY DEF Pending
<1>v. /\ Waiting' \in Seq(Writes)
      /\ Len(Waiting') = Len(requested') - taken'
      /\ \A i \in 1 .. (Len(requested') - taken') : Waiting'[i] = requested'[taken' + i]
  BY DEF Pending
<1>q. ASSUME requested' = requested, taken' = taken PROVE Waiting' = Waiting
  <2>1. Len(Waiting') = Len(Waiting) /\ \A i \in 1 .. Len(Waiting') : Waiting'[i] = Waiting[i]
    BY <1>q, <1>w, <1>v
  <2> QED
    BY <2>1, <1>w, <1>v, SeqEqual
<1>1. ASSUME NEW c \in Writes, Request(c) PROVE Jobs!Submit(c)
  <2>1. requested' = Append(requested, c) /\ taken' = taken /\ UNCHANGED <<cmd, run>>
    BY <1>1 DEF Request
  <2>2. /\ Len(requested') = Len(requested) + 1 /\ requested'[Len(requested) + 1] = c
        /\ \A i \in 1 .. Len(requested) : requested'[i] = requested[i]
    BY <2>1, <1>t, AppendProperties
  <2>3. /\ Append(Waiting, c) \in Seq(Writes) /\ Len(Append(Waiting, c)) = Len(Waiting) + 1
        /\ \A i \in 1 .. Len(Waiting) : Append(Waiting, c)[i] = Waiting[i]
        /\ Append(Waiting, c)[Len(Waiting) + 1] = c
    BY <1>w, AppendProperties
  <2>4. ASSUME NEW i \in 1 .. Len(Waiting') PROVE Waiting'[i] = Append(Waiting, c)[i]
    <3>1. Waiting'[i] = requested'[taken + i] /\ Len(Waiting') = Len(Waiting) + 1
      BY <1>v, <1>w, <1>t, <2>1, <2>2
    <3>2. CASE i = Len(Waiting) + 1
      BY <3>1, <3>2, <2>2, <2>3, <1>w, <1>t
    <3>3. CASE i \in 1 .. Len(Waiting)
      <4>1. taken + i \in 1 .. Len(requested) /\ Waiting[i] = requested[taken + i]
        BY <3>3, <1>w, <1>t
      <4> QED
        BY <4>1, <3>1, <3>3, <2>2, <2>3
    <3> QED
      BY <3>1, <3>2, <3>3, <1>w, <1>t
  <2>5. Waiting' = Append(Waiting, c)
    <3>1. Len(Waiting') = Len(Append(Waiting, c))
      BY <1>v, <1>w, <1>t, <2>1, <2>2, <2>3
    <3> QED
      BY <3>1, <2>3, <2>4, <1>v, SeqEqual
  <2> QED
    BY <2>1, <2>5 DEF Jobs!Submit, Running
<1>2. ASSUME Stop \/ Start PROVE Jobs!Close
  <2>1. requested' = requested /\ taken' = taken /\ cmd' = cmd /\ run' = FALSE
    BY <1>2 DEF Stop, Start
  <2> QED
    BY <2>1, <1>q DEF Jobs!Close, Running
<1>3. ASSUME StartReturn PROVE Jobs!Open
  <2>1. requested' = <<>> /\ taken' = 0 /\ cmd' = cmd /\ cmd = Nothing /\ ~run /\ run' = TRUE
    BY <1>3 DEF StartReturn, Joined, InHand
  <2>2. Waiting' = <<>>
    BY <2>1, <1>v, EmptySeq
  <2> QED
    BY <2>1, <2>2 DEF Jobs!Open, Running
<1>4. CASE TakeQueued
  <2>1. /\ requested' = requested /\ run /\ run' = run /\ cmd = Nothing /\ cmd' = Head(queue)
        /\ taken' = IF IsWrite(Head(queue)) THEN taken + 1 ELSE taken
    BY <1>4 DEF TakeQueued, Launch, InHand
  <2>2. CASE ~IsWrite(Head(queue))
    BY <2>1, <2>2, <1>q DEF Running
  <2>3. CASE IsWrite(Head(queue))
    <3>0. taken' = taken + 1
      BY <2>1, <2>3
    <3>1. queue # <<>> /\ Head(queue) = queue[1] /\ Len(queue) > 0
      BY <1>4, <1>t DEF TakeQueued
    <3>2. Riding = 0
      BY <2>3, <3>1 DEF Riding, IsWrite, Reads
    <3>3. Len(requested) - taken > 0 /\ queue[1] = requested[taken + 1]
      BY <3>1, <3>2, <1>t DEF Fifo
    <3>4. Waiting # <<>> /\ Waiting[1] = Head(queue)
      BY <3>1, <3>3, <1>w, <1>t
    <3>5. /\ Tail(Waiting) \in Seq(Writes) /\ Len(Tail(Waiting)) = Len(Waiting) - 1
          /\ \A i \in 1 .. Len(Tail(Waiting)) : Tail(Waiting)[i] = Waiting[i + 1]
      BY <3>4, <1>w, HeadTailProperties
    <3>6. Head(Waiting) = Waiting[1]
      BY <3>4, <1>w
    <3>7. Len(Waiting') = Len(Tail(Waiting))
      BY <2>1, <3>0, <3>5, <1>v, <1>w, <1>t
    <3>8. ASSUME NEW i \in 1 .. Len(Waiting') PROVE Waiting'[i] = Tail(Waiting)[i]
      <4>1. i + 1 \in 1 .. (Len(requested) - taken) /\ i \in 1 .. (Len(requested) - taken')
        BY <2>1, <3>0, <1>v, <1>t
      <4>2. Waiting[i + 1] = requested[taken + (i + 1)] /\ Waiting'[i] = requested[(taken + 1) + i]
        BY <4>1, <2>1, <3>0, <1>v, <1>w
      <4>3. taken + (i + 1) = (taken + 1) + i
        BY <1>t
      <4> QED
        BY <4>2, <4>3, <3>5, <3>7
    <3>9. Waiting' = Tail(Waiting)
      BY <3>5, <3>7, <3>8, <1>v, SeqEqual
    <3>10. Head(queue) # Nothing
      BY <3>4, <3>3, <1>w, <1>t, ElementOfSeq, WritesAreNotReads
    <3>11. Running = Nothing /\ Running' = Head(Waiting)
      BY <2>1, <2>3, <3>4, <3>6, <3>10 DEF Running
    <3>12. Jobs!Begin
      BY <2>1, <3>4, <3>9, <3>11 DEF Jobs!Begin
    <3> QED
      BY <3>12 DEF Jobs!Next
  <2> QED
    BY <2>2, <2>3
<1>5. CASE TakePoll
  <2>1. requested' = requested /\ taken' = taken /\ run' = run /\ cmd = Nothing /\ cmd' = Status
    BY <1>5 DEF TakePoll, Launch, InHand
  <2> QED
    BY <2>1, <1>q DEF Running, IsWrite, Reads
<1>6. CASE Reply
  <2>1. requested' = requested /\ taken' = taken /\ run' = run /\ cmd' = Nothing
    BY <1>6 DEF Reply, TransportFail, Answered
  <2>2. Running' = Nothing /\ Waiting' = Waiting
    BY <2>1, <1>q DEF Running
  <2> QED
    BY <2>1, <2>2 DEF Jobs!Finish, Jobs!Next
<1>7. CASE StopReturn \/ WorkerExit \/ Firmware \/ Environment \/ UNCHANGED vars
  <2>1. UNCHANGED <<requested, taken, run, cmd>>
    BY <1>7 DEF StopReturn, WorkerExit, Firmware, FwExecute, FwRefuse, FwCut, Environment,
                PowerChanges, Settle, vars
  <2> QED
    BY <2>1, <1>q DEF Running
<1> QED
  BY <1>1, <1>2, <1>3, <1>4, <1>5, <1>6, <1>7
     DEF Next, UiNext, UiJoin, Worker, Take, Jobs!Next

\* The worker implements the JobQueue its header promises, as far as safety goes: one
\* request at a time, in the order of the calls, none begun after stop() was called.
\* That it also has the fairness of a JobQueue is checked by the run.
THEOREM WorkerIsJobQueue == Spec => Jobs!Init /\ [][Jobs!Next]_(Jobs!vars)
<1>1. Init => InHand /\ Jobs!Init
  <2> SUFFICES ASSUME Init PROVE InHand /\ Jobs!Init
    OBVIOUS
  <2>1. Riding = 0 /\ Len(queue) = 0
    BY DEF Init, Riding
  <2>2. Waiting = <<>>
    BY <2>1, SubSeqEmpty DEF Waiting
  <2> QED
    BY <2>2 DEF Init, InHand, Jobs!Init, Running
<1> QED
  BY <1>1, InHandInductive, QueueStep, WaitingIsPending, TypeCorrect, RequestsInOrder, PTL DEF Spec
=============================================================================
