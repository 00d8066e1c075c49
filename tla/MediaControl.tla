---------------------------- MODULE MediaControl ----------------------------
(***************************************************************************)
(* ui/media_control.hpp: the worker that mounts a local image on the iLO,  *)
(* with the HTTP server it owns (ilo/media_server.hpp, here only which     *)
(* image it serves), the Media tab of ui/sdl_main.cpp that feeds it, and   *)
(* the iLO's virtual-media state (external).                               *)
(*                                                                         *)
(* The UI thread and the worker share queue_, snap_ and run_ under m_.     *)
(* Every critical section is one step; between two of them the other       *)
(* thread and the firmware may act.                                        *)
(***************************************************************************)
EXTENDS Naturals, Sequences

CONSTANTS
  Images,     \* local images the user may choose
  None,       \* no image: an empty url, an empty drive, a stopped server
  Foreign,    \* an image somebody else left in the drive
  MayLose,    \* exchanges may fail at transport level
  MayRefuse,  \* the firmware may refuse any command, not only impossible ones
  MaxJobs     \* bound: buttons pressed per session

ASSUME MediaAssumption ==
  /\ None \notin Images /\ Foreign \notin Images /\ None # Foreign
  /\ MayLose \in BOOLEAN /\ MayRefuse \in BOOLEAN
  /\ MaxJobs \in Nat

Job(k, i) == [kind |-> k, iso |-> i]
NoJob     == Job("none", None)
AllJobs   == [kind : {"Mount"}, iso : Images]
               \cup {Job("Eject", None), Job("ArmBoot", None), Job("Refresh", None)}

VARIABLES
  run,      \* run_
  pc,       \* thread_ and the worker's place (see Places)
  ui,       \* "idle", or inside stop() ("stopping") or start() ("starting")
  queue,    \* queue_
  job,      \* the worker's local job
  reply,    \* progress of the exchange under way: "sent", "ok", "cut" or "refused"
  sees,     \* the IMAGE_INSERTED a GET_VM_STATUS reply carries
  snap,     \* snap_
  server,   \* the image server_ serves, or None
  ilo,      \* the firmware (external): drive, boot settings, licence
  view,     \* the snapshot the UI's current frame was drawn from
  pushed,   \* history: buttons pressed since start()
  blind,    \* history: a click found jobs pending or did not see the drive as it was
  unsure,   \* history: the last insert or eject is not known to be carried out
  broken    \* history: a step of an arm was not carried out and passed for done

vars == <<run, pc, ui, queue, job, reply, sees, snap, server, ilo, view,
          pushed, blind, unsure, broken>>

\* Places with an exchange under way, and the RIBCL command each has sent.
Sending == {"readFw", "readStatus", "insert", "eject", "bootOption",
            "oneTimeBoot", "lastEject"}
Places  == Sending \cup {"none", "top", "job", "inserted", "insertFailed",
                         "ejected", "armed", "leaving", "stopServer", "done"}

\* What of a snapshot decides which buttons a frame enables.
Drawn(s) == [busy |-> s.busy, inserted |-> s.inserted, licence |-> s.licence]

EmptySnap == [url |-> None, busy |-> FALSE, error |-> FALSE, armed |-> FALSE,
              inserted |-> FALSE, licence |-> "unknown"]

Init ==
  /\ run = FALSE /\ pc = "none" /\ ui = "idle"
  /\ queue = <<>> /\ job = NoJob /\ reply = "sent" /\ sees = FALSE
  /\ snap = EmptySnap /\ view = Drawn(EmptySnap) /\ server = None
  /\ ilo \in [drive : {None, Foreign}, bootOnce : {FALSE}, oneTime : {FALSE},
              licensed : BOOLEAN]
  /\ pushed = 0 /\ blind = FALSE /\ unsure = FALSE /\ broken = FALSE

-----------------------------------------------------------------------------
(***************************************************************************)
(* The UI thread.                                                          *)
(***************************************************************************)

\* A frame of the Media tab is drawn from a snapshot taken under the lock.
Frame ==
  /\ ui = "idle" /\ pc # "none" /\ view # Drawn(snap)
  /\ view' = Drawn(snap)
  /\ UNCHANGED <<run, pc, ui, queue, job, reply, sees, snap, server, ilo, pushed,
                 blind, unsure, broken>>

\* The buttons a frame enables: ms.busy and ms.vm.image_inserted decide.
Enabled(j) ==
  /\ view.licence # "no" /\ ~view.busy
  /\ j.kind = "Mount" => ~view.inserted
  /\ j.kind \in {"Eject", "ArmBoot"} => view.inserted

\* mount(), eject(), arm_boot(), refresh(): push a job and notify.  A click uses
\* up its frame: the next one needs a new snapshot.
Push(j) ==
  /\ ui = "idle" /\ pc # "none" /\ pushed < MaxJobs
  /\ Enabled(j)
  /\ queue' = Append(queue, j) /\ pushed' = pushed + 1
  /\ view' = [view EXCEPT !.busy = TRUE]
  /\ blind' = (blind \/ queue # <<>> \/ pc # "top" \/ view.inserted # (ilo.drive # None))
  /\ UNCHANGED <<run, pc, ui, job, reply, sees, snap, server, ilo, unsure,
                 broken>>

\* stop(), and the stop() start() begins with: clear run_, notify, join.
Stop(why) ==
  /\ ui = "idle"
  /\ run' = FALSE /\ ui' = why
  /\ UNCHANGED <<pc, queue, job, reply, sees, snap, server, ilo, view, pushed,
                 blind, unsure, broken>>

\* MediaServer::start(), once it listens, serves the new image under every path;
\* it and a failed start begin with stop().
ServerStarts(iso) == server' = iso
ServerStops       == server' = None

Joined == pc \in {"none", "done"}

\* join() returned; stop() ends with server_.stop().
StopReturn ==
  /\ ui = "stopping" /\ Joined
  /\ pc' = "none" /\ ui' = "idle" /\ ServerStops
  /\ UNCHANGED <<run, queue, job, reply, sees, snap, ilo, view, pushed, blind,
                 unsure, broken>>

\* The rest of start(): fresh snapshot, empty queue, a worker whose first act is
\* read_fw().
StartReturn ==
  /\ ui = "starting" /\ Joined
  /\ run' = TRUE /\ ui' = "idle" /\ ServerStops
  /\ queue' = <<>> /\ job' = NoJob
  /\ pc' = "readFw" /\ reply' = "sent"
  /\ snap' = [EmptySnap EXCEPT !.busy = TRUE] /\ view' = Drawn(EmptySnap)
  /\ pushed' = 0 /\ blind' = FALSE /\ broken' = FALSE
  /\ UNCHANGED <<sees, ilo, unsure>>

-----------------------------------------------------------------------------
(***************************************************************************)
(* The worker.  run() takes three steps: it sets busy and sends (Send),    *)
(* the firmware acts, and it publishes the outcome and returns (Sent).     *)
(***************************************************************************)

\* Enter run() for the command of place p.
Send(p, s) ==
  /\ pc' = p /\ reply' = "sent" /\ snap' = [s EXCEPT !.busy = TRUE]

\* run() returns true: busy off, error off.  A reply cut short after stages that
\* all said "No error" passes for success.
Succeeded(p) == pc = p /\ reply \in {"ok", "cut"}
\* run() returns false: refused by the firmware, or the exchange failed.
Failed(p) ==
  /\ pc = p
  /\ \/ reply = "refused"
     \/ MayLose /\ reply \in {"sent", "ok", "cut"}

Good(s) == [s EXCEPT !.busy = FALSE, !.error = FALSE]
Bad(s)  == [s EXCEPT !.busy = FALSE, !.error = TRUE]

\* read_fw() done, whatever the answer; read_status() follows.  The licence is
\* stored if the reply parses, which one cut short does not.
ReadFwDone ==
  /\ \/ /\ Succeeded("readFw") /\ reply = "ok"
        /\ Send("readStatus",
                [Good(snap) EXCEPT !.licence = IF ilo.licensed THEN "yes" ELSE "no"])
     \/ Succeeded("readFw") /\ reply = "cut" /\ Send("readStatus", Good(snap))
     \/ Failed("readFw") /\ Send("readStatus", Bad(snap))
  /\ UNCHANGED <<run, ui, queue, job, sees, server, ilo, view, pushed, blind,
                 unsure, broken>>

\* read_status() done; every caller of it goes back to the top of the loop.
ReadStatusDone ==
  /\ \/ Succeeded("readStatus") /\ reply = "ok" /\ snap' = [Good(snap) EXCEPT !.inserted = sees]
     \/ Succeeded("readStatus") /\ reply = "cut" /\ snap' = Good(snap)
     \/ Failed("readStatus") /\ snap' = Bad(snap)
  /\ pc' = "top" /\ job' = NoJob /\ reply' = "sent" /\ sees' = FALSE
  /\ UNCHANGED <<run, ui, queue, server, ilo, view, pushed, blind, unsure,
                 broken>>

\* Mutant: the newest job is taken first.
TakeNewest ==
  /\ pc = "top" /\ run /\ queue # <<>>
  /\ job' = queue[Len(queue)] /\ queue' = SubSeq(queue, 1, Len(queue) - 1)
  /\ pc' = "job"
  /\ UNCHANGED <<run, ui, reply, sees, snap, server, ilo, view, pushed, blind,
                 unsure, broken>>

\* The wait ends on a job.
Take ==
  /\ pc = "top" /\ run /\ queue # <<>>
  /\ job' = Head(queue) /\ queue' = Tail(queue) /\ pc' = "job"
  /\ UNCHANGED <<run, ui, reply, sees, snap, server, ilo, view, pushed, blind,
                 unsure, broken>>

\* The wait ends by timeout: poll the media state.
Poll ==
  /\ pc = "top" /\ run /\ queue = <<>>
  /\ Send("readStatus", snap)
  /\ UNCHANGED <<run, ui, queue, job, sees, server, ilo, view, pushed, blind,
                 unsure, broken>>

\* Refresh is read_status().
DoRefresh ==
  /\ pc = "job" /\ job.kind = "Refresh"
  /\ Send("readStatus", snap)
  /\ UNCHANGED <<run, ui, queue, job, sees, server, ilo, view, pushed, blind,
                 unsure, broken>>

\* do_mount() up to the insert fails: no licence (nothing was touched), or
\* server_.start() or local_address_towards() failed (the server is stopped).
MountGivesUp ==
  /\ pc = "job" /\ job.kind = "Mount"
  /\ IF snap.licence = "no" THEN UNCHANGED server ELSE ServerStops
  /\ snap' = [snap EXCEPT !.error = TRUE]
  /\ pc' = "top" /\ job' = NoJob
  /\ UNCHANGED <<run, ui, queue, reply, sees, ilo, view, pushed, blind, unsure,
                 broken>>

\* do_mount() up to the insert: server_.start() replaces whatever was served.
MountServes ==
  /\ pc = "job" /\ job.kind = "Mount" /\ snap.licence # "no"
  /\ ServerStarts(job.iso)
  /\ Send("insert", snap)
  /\ UNCHANGED <<run, ui, queue, job, sees, ilo, view, pushed, blind, unsure,
                 broken>>

InsertDone ==
  /\ \/ Succeeded("insert") /\ snap' = Good(snap) /\ pc' = "inserted"
        /\ unsure' = (reply = "cut")
     \/ Failed("insert") /\ snap' = Bad(snap) /\ pc' = "insertFailed"
        /\ unsure' = (unsure \/ reply # "refused")
  /\ reply' = "sent"
  /\ UNCHANGED <<run, ui, queue, job, sees, server, ilo, view, pushed, blind,
                 broken>>

\* "nothing is mounted; do not keep serving"
InsertFailed ==
  /\ pc = "insertFailed"
  /\ ServerStops /\ pc' = "top" /\ job' = NoJob
  /\ UNCHANGED <<run, ui, queue, reply, sees, snap, ilo, view, pushed, blind,
                 unsure, broken>>

\* Mutant: the url is forgotten when the drive is not read back at once.
InsertedUnpublished ==
  /\ pc = "inserted"
  /\ Send("readStatus", [snap EXCEPT !.armed = FALSE])
  /\ UNCHANGED <<run, ui, queue, job, sees, server, ilo, view, pushed, blind,
                 unsure, broken>>

\* Publish the url; a fresh image is not armed; read_status().
Inserted ==
  /\ pc = "inserted"
  /\ Send("readStatus", [snap EXCEPT !.url = job.iso, !.armed = FALSE])
  /\ UNCHANGED <<run, ui, queue, job, sees, server, ilo, view, pushed, blind,
                 unsure, broken>>

\* Mutant: the server is stopped before the eject is sent.
DoEjectStopsFirst ==
  /\ pc = "job" /\ job.kind = "Eject"
  /\ ServerStops
  /\ Send("eject", snap)
  /\ UNCHANGED <<run, ui, queue, job, sees, ilo, view, pushed, blind, unsure,
                 broken>>

DoEject ==
  /\ pc = "job" /\ job.kind = "Eject"
  /\ Send("eject", snap)
  /\ UNCHANGED <<run, ui, queue, job, sees, server, ilo, view, pushed, blind,
                 unsure, broken>>

\* The outcome of the eject decides nothing but the error flag.
EjectDone ==
  /\ \/ Succeeded("eject") /\ snap' = Good(snap) /\ unsure' = (reply = "cut")
     \/ Failed("eject") /\ snap' = Bad(snap) /\ unsure' = TRUE
  /\ pc' = "ejected" /\ reply' = "sent"
  /\ UNCHANGED <<run, ui, queue, job, sees, server, ilo, view, pushed, blind,
                 broken>>

\* Mutant: an eject leaves boot_armed set.
EjectedStaysArmed ==
  /\ pc = "ejected"
  /\ ServerStops
  /\ Send("readStatus", [snap EXCEPT !.url = None])
  /\ UNCHANGED <<run, ui, queue, job, sees, ilo, view, pushed, blind, unsure,
                 broken>>

\* server_.stop() "whether or not the eject succeeded"; forget the url.
Ejected ==
  /\ pc = "ejected"
  /\ ServerStops
  /\ Send("readStatus", [snap EXCEPT !.url = None, !.armed = FALSE])
  /\ UNCHANGED <<run, ui, queue, job, sees, ilo, view, pushed, blind, unsure,
                 broken>>

DoArmBoot ==
  /\ pc = "job" /\ job.kind = "ArmBoot"
  /\ Send("bootOption", snap)
  /\ UNCHANGED <<run, ui, queue, job, sees, server, ilo, view, pushed, blind,
                 unsure, broken>>

\* BOOT_ONCE set: go on to the one-time boot.
BootOptionDone ==
  /\ Succeeded("bootOption")
  /\ Send("oneTimeBoot", Good(snap))
  /\ UNCHANGED <<run, ui, queue, job, sees, server, ilo, view, pushed, blind,
                 unsure, broken>>

OneTimeBootDone ==
  /\ Succeeded("oneTimeBoot")
  /\ snap' = Good(snap) /\ pc' = "armed" /\ reply' = "sent"
  /\ UNCHANGED <<run, ui, queue, job, sees, server, ilo, view, pushed, blind,
                 unsure, broken>>

\* Either of the two failed: return at once, whatever the first one did.
ArmFailed ==
  /\ Failed("bootOption") \/ Failed("oneTimeBoot")
  /\ snap' = Bad(snap) /\ pc' = "top" /\ job' = NoJob /\ reply' = "sent"
  /\ UNCHANGED <<run, ui, queue, sees, server, ilo, view, pushed, blind, unsure,
                 broken>>

Armed ==
  /\ pc = "armed"
  /\ Send("readStatus", [snap EXCEPT !.armed = TRUE])
  /\ UNCHANGED <<run, ui, queue, job, sees, server, ilo, view, pushed, blind,
                 unsure, broken>>

\* Mutant: the worker only leaves with an empty queue.
LeaveWhenDrained ==
  /\ pc = "top" /\ ~run /\ queue = <<>>
  /\ pc' = "leaving"
  /\ UNCHANGED <<run, ui, queue, job, reply, sees, snap, server, ilo, view,
                 pushed, blind, unsure, broken>>

\* run_ was cleared: leave the loop, dropping what is queued.
Leave ==
  /\ pc = "top" /\ ~run
  /\ pc' = "leaving"
  /\ UNCHANGED <<run, ui, queue, job, reply, sees, snap, server, ilo, view,
                 pushed, blind, unsure, broken>>

\* Mutant: leaving ejects only if the last status read saw the image.
LastEjectIfSeen ==
  /\ pc = "leaving"
  /\ IF snap.inserted
     THEN Send("lastEject", snap)
     ELSE pc' = "stopServer" /\ UNCHANGED <<reply, snap>>
  /\ UNCHANGED <<run, ui, queue, job, sees, server, ilo, view, pushed, blind,
                 unsure, broken>>

\* Eject once if a url was handed out.
LastEject ==
  /\ pc = "leaving"
  /\ IF snap.url # None
     THEN Send("lastEject", snap)
     ELSE pc' = "stopServer" /\ UNCHANGED <<reply, snap>>
  /\ UNCHANGED <<run, ui, queue, job, sees, server, ilo, view, pushed, blind,
                 unsure, broken>>

LastEjectDone ==
  /\ \/ Succeeded("lastEject") /\ snap' = Good(snap) /\ unsure' = (reply = "cut")
     \/ Failed("lastEject") /\ snap' = Bad(snap) /\ unsure' = TRUE
  /\ pc' = "stopServer" /\ reply' = "sent"
  /\ UNCHANGED <<run, ui, queue, job, sees, server, ilo, view, pushed, blind,
                 broken>>

StopServer ==
  /\ pc = "stopServer"
  /\ ServerStops /\ pc' = "done"
  /\ UNCHANGED <<run, ui, queue, job, reply, sees, snap, ilo, view, pushed, blind,
                 unsure, broken>>

-----------------------------------------------------------------------------
(***************************************************************************)
(* The firmware (external).  INSERT records the url; it may be refused     *)
(* without a licence or with an image already inserted (whether a second   *)
(* insert replaces the first is not documented: both are allowed).  EJECT  *)
(* may be refused when the drive is empty.                                 *)
(***************************************************************************)

FwExecute ==
  /\ pc \in Sending /\ reply = "sent"
  /\ pc = "insert" => ilo.licensed
  /\ ilo' = CASE pc = "insert"                -> [ilo EXCEPT !.drive = job.iso]
              [] pc \in {"eject", "lastEject"} -> [ilo EXCEPT !.drive = None]
              [] pc = "bootOption"            -> [ilo EXCEPT !.bootOnce = TRUE]
              [] pc = "oneTimeBoot"           -> [ilo EXCEPT !.oneTime = TRUE]
              [] OTHER                        -> ilo
  /\ sees' = IF pc = "readStatus" THEN ilo.drive # None ELSE sees
  /\ reply' = "ok"
  /\ UNCHANGED <<run, pc, ui, queue, job, snap, server, view, pushed, blind,
                 unsure, broken>>

FwRefuse ==
  /\ pc \in Sending /\ reply = "sent"
  /\ \/ MayRefuse
     \/ pc = "insert" /\ (~ilo.licensed \/ ilo.drive # None)
     \/ pc \in {"eject", "lastEject"} /\ ilo.drive = None
  /\ reply' = "refused"
  /\ UNCHANGED <<run, pc, ui, queue, job, sees, snap, server, ilo, view, pushed,
                 blind, unsure, broken>>

\* The firmware breaks off before it carries the command out; the stages it has
\* reported until then are good.
FwCut ==
  /\ MayLose /\ pc \in Sending /\ reply = "sent" /\ reply' = "cut"
  /\ unsure' = (unsure \/ pc \in {"insert", "eject", "lastEject"})
  /\ broken' = (broken \/ pc \in {"bootOption", "oneTimeBoot"})
  /\ UNCHANGED <<run, pc, ui, queue, job, sees, snap, server, ilo, view, pushed,
                 blind>>

-----------------------------------------------------------------------------
Buttons == Frame \/ (\E j \in AllJobs : Push(j))
             \/ (\E w \in {"stopping", "starting"} : Stop(w))
UiJoin == StopReturn \/ StartReturn
DoMount == MountGivesUp \/ MountServes \/ InsertDone \/ InsertFailed \/ Inserted
EjectJob == DoEject \/ EjectDone \/ Ejected
ArmJob == DoArmBoot \/ BootOptionDone \/ OneTimeBootDone \/ ArmFailed \/ Armed
Loop == ReadFwDone \/ ReadStatusDone \/ Take \/ Poll \/ DoRefresh
Exit == Leave \/ LastEject \/ LastEjectDone \/ StopServer
Worker == Loop \/ DoMount \/ EjectJob \/ ArmJob \/ Exit
Firmware == FwExecute \/ FwRefuse \/ FwCut

Next == Buttons \/ UiJoin \/ Worker \/ Firmware

\* The worker is scheduled, its wait times out, every exchange ends, join()
\* returns.  The user owes nothing.
Fairness == WF_vars(Worker) /\ WF_vars(Firmware) /\ WF_vars(UiJoin)

Spec     == Init /\ [][Next]_vars
FairSpec == Spec /\ Fairness

-----------------------------------------------------------------------------
(***************************************************************************)
(* Properties.                                                             *)
(***************************************************************************)

SnapType == [url : Images \cup {None}, busy : BOOLEAN, error : BOOLEAN,
             armed : BOOLEAN, inserted : BOOLEAN,
             licence : {"unknown", "yes", "no"}]
ViewType == [busy : BOOLEAN, inserted : BOOLEAN, licence : {"unknown", "yes", "no"}]
IloType  == [drive : Images \cup {None, Foreign}, bootOnce : BOOLEAN,
             oneTime : BOOLEAN, licensed : BOOLEAN]

\* The shape of the state of MediaControl, its server and the iLO.
TypeOK ==
  /\ run \in BOOLEAN /\ pc \in Places
  /\ ui \in {"idle", "stopping", "starting"}
  /\ queue \in Seq(AllJobs) /\ job \in AllJobs \cup {NoJob}
  /\ reply \in {"sent", "ok", "cut", "refused"} /\ sees \in BOOLEAN
  /\ snap \in SnapType /\ view \in ViewType
  /\ server \in Images \cup {None} /\ ilo \in IloType
  /\ pushed \in Nat /\ blind \in BOOLEAN /\ unsure \in BOOLEAN /\ broken \in BOOLEAN

\* The drive's content as far as it is ours.
Tracked == ilo.drive \in Images => snap.url = ilo.drive

\* What the worker knows of the drive at each of its places: once the firmware
\* has confirmed an insert or eject the drive is as ordered, and in between
\* snap_.url is right unless a failed exchange left the worker unsure.  The
\* worker, its shutdown and the window's close guard all decide by snap_.url.
Knows ==
  /\ pc = "insert" /\ reply = "ok" => ilo.drive = job.iso
  /\ pc \in {"eject", "lastEject"} /\ reply = "ok" => ilo.drive = None
  /\ ~unsure =>
       /\ pc = "inserted" => ilo.drive = job.iso
       /\ pc = "ejected" => ilo.drive = None
       /\ pc \in {"stopServer", "done", "none"} => ilo.drive \notin Images
       /\ \/ Tracked
          \/ pc \in {"inserted", "ejected", "stopServer", "done", "none"}
          \/ pc \in {"insert", "eject", "lastEject"} /\ reply = "ok"

\* media_control.hpp:81 "Ejects and stops serving before returning": unless
\* an insert or eject went unconfirmed, a stopped MediaControl leaves none of its images
\* in the drive, whatever was queued or under way when stop() was called.
StopEjects ==
  (pc = "none" /\ ui = "idle" /\ ~unsure) => ilo.drive \notin Images

\* media_control.hpp:9 "the firmware reads the image for as long as it is mounted,
\* so stopping the server out from under a running install would break it": while
\* one of our images is in the drive it is the one being served, unless a click was
\* blind or an insert or eject went unconfirmed.
MountedImageServed ==
  (ilo.drive \in Images /\ ~blind /\ ~unsure) => server = ilo.drive

\* stop() and start() return.
StopReturns == (ui # "idle") ~> (ui = "idle")

\* sdl_main.cpp:915 "armed: the next reboot will use this image": an idle worker
\* reports the boot as armed only with an image in the drive and with both of the
\* firmware's settings made, never with one of the two, unless a click was blind or
\* a command that was not carried out, or may not have been, passed for done.
ArmedMeansMounted ==
  (snap.armed /\ pc = "top" /\ ~blind /\ ~unsure /\ ~broken) =>
    ilo.drive # None /\ ilo.bootOnce /\ ilo.oneTime

\* Seen from the UI, the worker is a JobQueue of the buttons pressed.
JobQueue == INSTANCE JobQueue
              WITH Jobs <- AllJobs, Nothing <- NoJob, todo <- queue,
                   current <- job, open <- run
JobQueueSpec == JobQueue!Spec
=============================================================================
