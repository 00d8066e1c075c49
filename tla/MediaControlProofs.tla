------------------------- MODULE MediaControlProofs -------------------------
(***************************************************************************)
(* For every set of images, every bound, every way the firmware refuses    *)
(* and the transport fails: the types, what the worker knows of the drive  *)
(* (Knows), and from it that stop() leaves none of its images in the drive *)
(* unless an exchange went unconfirmed (StopEjects), that an image in the  *)
(* drive is being served, that a boot from it is armed only while it is    *)
(* there, and that the worker is a job queue in the sense of JobQueue.     *)
(***************************************************************************)
EXTENDS MediaControl, TLAPS

USE DEF ServerStarts, ServerStops

\* The records the actions build are well typed.
LEMMA SnapTypes ==
  ASSUME NEW s \in SnapType
  PROVE  /\ EmptySnap \in SnapType
         /\ [s EXCEPT !.busy = TRUE] \in SnapType
         /\ Good(s) \in SnapType /\ Bad(s) \in SnapType
         /\ [s EXCEPT !.error = TRUE] \in SnapType
         /\ [s EXCEPT !.armed = TRUE] \in SnapType
         /\ \A b \in BOOLEAN : [s EXCEPT !.inserted = b] \in SnapType
         /\ \A l \in {"yes", "no"} : [s EXCEPT !.licence = l] \in SnapType
         /\ \A i \in Images \cup {None} :
               [s EXCEPT !.url = i, !.armed = FALSE] \in SnapType
         /\ Drawn(s) \in ViewType
  BY DEF SnapType, EmptySnap, Good, Bad, Drawn, ViewType

\* None of these records changes the url except the one that sets it.
LEMMA SnapUrls ==
  ASSUME NEW s \in SnapType
  PROVE  /\ [s EXCEPT !.busy = TRUE].url = s.url
         /\ Good(s).url = s.url /\ Bad(s).url = s.url
         /\ [s EXCEPT !.error = TRUE].url = s.url
         /\ [s EXCEPT !.armed = TRUE].url = s.url
         /\ \A b : [s EXCEPT !.inserted = b].url = s.url
         /\ \A l : [s EXCEPT !.licence = l].url = s.url
         /\ \A i : [s EXCEPT !.url = i, !.armed = FALSE].url = i
  BY DEF SnapType, Good, Bad

\* The firmware's record stays well typed, and only insert and eject move the
\* drive.
LEMMA IloTypes ==
  ASSUME NEW f \in IloType
  PROVE  /\ \A i \in Images \cup {None, Foreign} :
               /\ [f EXCEPT !.drive = i] \in IloType
               /\ [f EXCEPT !.drive = i].drive = i
         /\ [f EXCEPT !.bootOnce = TRUE] \in IloType
         /\ [f EXCEPT !.bootOnce = TRUE].drive = f.drive
         /\ [f EXCEPT !.oneTime = TRUE] \in IloType
         /\ [f EXCEPT !.oneTime = TRUE].drive = f.drive
  BY DEF IloType

\* A job's image is one of the images, or None.
LEMMA JobImages ==
  ASSUME NEW j \in AllJobs \cup {NoJob}
  PROVE  /\ j.iso \in Images \cup {None}
         /\ j.kind = "Mount" => j.iso \in Images
  BY DEF AllJobs, NoJob, Job
-----------------------------------------------------------------------------
\* Send leaves a well typed snapshot behind.
LEMMA SendTypes ==
  ASSUME NEW p \in Places, NEW s \in SnapType, Send(p, s)
  PROVE  pc' \in Places /\ reply' = "sent" /\ snap' \in SnapType
  BY SnapTypes DEF Send

\* The UI's steps keep the types.
LEMMA TypeButtons == TypeOK /\ (Buttons \/ UiJoin) => TypeOK'
<1> SUFFICES ASSUME TypeOK, Buttons \/ UiJoin PROVE TypeOK'
  OBVIOUS
<1> USE DEF TypeOK
<1>1. CASE Frame
  BY <1>1, SnapTypes DEF Frame
<1>2. ASSUME NEW j \in AllJobs, Push(j) PROVE TypeOK'
  <2>1. [view EXCEPT !.busy = TRUE] \in ViewType
    BY DEF ViewType
  <2>2. blind' \in BOOLEAN
    BY <1>2 DEF Push
  <2> QED
    BY <1>2, <2>1, <2>2 DEF Push
<1>3. ASSUME NEW w \in {"stopping", "starting"}, Stop(w) PROVE TypeOK'
  BY <1>3 DEF Stop
<1>4. CASE StopReturn
  BY <1>4 DEF StopReturn, Places
<1>5. CASE StartReturn
  <2>1. queue' \in Seq(AllJobs) /\ pushed' \in Nat
    BY <1>5 DEF StartReturn
  <2>2. EmptySnap \in SnapType
    BY SnapTypes
  <2>3. snap' \in SnapType /\ view' \in ViewType
    BY <1>5, <2>2, SnapTypes DEF StartReturn
  <2> QED
    BY <1>5, <2>1, <2>3 DEF StartReturn, Places, Sending
<1> QED
  BY <1>1, <1>2, <1>3, <1>4, <1>5 DEF Buttons, UiJoin

\* The steps of the loop and of the two reads keep the types.
LEMMA TypeLoop == TypeOK /\ Loop => TypeOK'
<1> SUFFICES ASSUME TypeOK, Loop PROVE TypeOK'
  OBVIOUS
<1> USE DEF TypeOK
<1>p. {"readStatus", "top", "job"} \subseteq Places
  BY DEF Places, Sending
<1>1. CASE ReadFwDone
  <2>1. Good(snap) \in SnapType /\ Bad(snap) \in SnapType
    BY SnapTypes
  <2>2. [Good(snap) EXCEPT !.licence = IF ilo.licensed THEN "yes" ELSE "no"] \in SnapType
    BY <2>1, SnapTypes
  <2>3. pc' \in Places /\ reply' = "sent" /\ snap' \in SnapType
    BY <1>1, <1>p, <2>1, <2>2, SendTypes DEF ReadFwDone
  <2> QED
    BY <1>1, <2>3 DEF ReadFwDone
<1>2. CASE ReadStatusDone
  <2>1. Good(snap) \in SnapType /\ Bad(snap) \in SnapType
    BY SnapTypes
  <2>2. snap' \in SnapType
    BY <1>2, <2>1, SnapTypes DEF ReadStatusDone
  <2> QED
    BY <1>2, <1>p, <2>2 DEF ReadStatusDone
<1>3. CASE Take
  <2>1. Head(queue) \in AllJobs /\ Tail(queue) \in Seq(AllJobs)
    BY <1>3 DEF Take
  <2> QED
    BY <1>3, <1>p, <2>1 DEF Take
<1>4. CASE Poll \/ DoRefresh
  <2>1. pc' \in Places /\ reply' = "sent" /\ snap' \in SnapType
    BY <1>4, <1>p, SendTypes DEF Poll, DoRefresh
  <2> QED
    BY <1>4, <2>1 DEF Poll, DoRefresh
<1> QED
  BY <1>1, <1>2, <1>3, <1>4 DEF Loop

\* The steps of do_mount keep the types.
LEMMA TypeMount == TypeOK /\ DoMount => TypeOK'
<1> SUFFICES ASSUME TypeOK, DoMount PROVE TypeOK'
  OBVIOUS
<1> USE DEF TypeOK
<1>p. {"readStatus", "insert", "top", "inserted", "insertFailed"} \subseteq Places
  BY DEF Places, Sending
<1>1. CASE MountGivesUp
  BY <1>1, <1>p, SnapTypes DEF MountGivesUp
<1>2. CASE MountServes
  <2>1. pc' \in Places /\ reply' = "sent" /\ snap' \in SnapType
    BY <1>2, <1>p, SendTypes DEF MountServes
  <2> QED
    BY <1>2, <2>1, JobImages DEF MountServes
<1>3. CASE InsertDone
  <2>1. unsure' \in BOOLEAN
    BY <1>3 DEF InsertDone
  <2>2. snap' \in SnapType
    BY <1>3, SnapTypes DEF InsertDone
  <2> QED
    BY <1>3, <1>p, <2>1, <2>2 DEF InsertDone
<1>4. CASE InsertFailed
  BY <1>4, <1>p DEF InsertFailed
<1>5. CASE Inserted
  <2>1. [snap EXCEPT !.url = job.iso, !.armed = FALSE] \in SnapType
    BY JobImages, SnapTypes
  <2>2. pc' \in Places /\ reply' = "sent" /\ snap' \in SnapType
    BY <1>5, <1>p, <2>1, SendTypes DEF Inserted
  <2> QED
    BY <1>5, <2>2 DEF Inserted
<1> QED
  BY <1>1, <1>2, <1>3, <1>4, <1>5 DEF DoMount

\* The steps of do_eject and do_arm_boot keep the types.
LEMMA TypeEjectArm == TypeOK /\ (EjectJob \/ ArmJob) => TypeOK'
<1> SUFFICES ASSUME TypeOK, EjectJob \/ ArmJob PROVE TypeOK'
  OBVIOUS
<1> USE DEF TypeOK
<1>p. {"readStatus", "eject", "ejected", "bootOption", "oneTimeBoot", "armed",
       "top"} \subseteq Places
  BY DEF Places, Sending
<1>1. CASE DoEject \/ DoArmBoot
  <2>1. pc' \in Places /\ reply' = "sent" /\ snap' \in SnapType
    BY <1>1, <1>p, SendTypes DEF DoEject, DoArmBoot
  <2> QED
    BY <1>1, <2>1 DEF DoEject, DoArmBoot
<1>2. CASE EjectDone
  BY <1>2, <1>p, SnapTypes DEF EjectDone
<1>3. CASE Ejected
  <2>1. [snap EXCEPT !.url = None, !.armed = FALSE] \in SnapType
    BY SnapTypes
  <2>2. pc' \in Places /\ reply' = "sent" /\ snap' \in SnapType
    BY <1>3, <1>p, <2>1, SendTypes DEF Ejected
  <2> QED
    BY <1>3, <2>2 DEF Ejected
<1>4. CASE BootOptionDone
  <2>1. pc' \in Places /\ reply' = "sent" /\ snap' \in SnapType
    BY <1>4, <1>p, SnapTypes, SendTypes DEF BootOptionDone
  <2> QED
    BY <1>4, <2>1 DEF BootOptionDone
<1>5. CASE OneTimeBootDone \/ ArmFailed
  BY <1>5, <1>p, SnapTypes DEF OneTimeBootDone, ArmFailed
<1>6. CASE Armed
  <2>1. pc' \in Places /\ reply' = "sent" /\ snap' \in SnapType
    BY <1>6, <1>p, SnapTypes, SendTypes DEF Armed
  <2> QED
    BY <1>6, <2>1 DEF Armed
<1> QED
  BY <1>1, <1>2, <1>3, <1>4, <1>5, <1>6 DEF EjectJob, ArmJob

\* The steps of the shutdown keep the types.
LEMMA TypeExit == TypeOK /\ Exit => TypeOK'
<1> SUFFICES ASSUME TypeOK, Exit PROVE TypeOK'
  OBVIOUS
<1> USE DEF TypeOK
<1>p. {"leaving", "lastEject", "stopServer", "done"} \subseteq Places
  BY DEF Places, Sending
<1>1. CASE Leave \/ StopServer
  BY <1>1, <1>p DEF Leave, StopServer
<1>2. CASE LastEject
  <2>1. /\ pc' \in Places /\ snap' \in SnapType
        /\ reply' \in {"sent", "ok", "cut", "refused"}
    BY <1>2, <1>p, SendTypes DEF LastEject
  <2> QED
    BY <1>2, <2>1 DEF LastEject
<1>3. CASE LastEjectDone
  BY <1>3, <1>p, SnapTypes DEF LastEjectDone
<1> QED
  BY <1>1, <1>2, <1>3 DEF Exit

\* The firmware's steps keep the types.
LEMMA TypeFirmware == TypeOK /\ Firmware => TypeOK'
<1> SUFFICES ASSUME TypeOK, Firmware PROVE TypeOK'
  OBVIOUS
<1> USE DEF TypeOK
<1>1. CASE FwExecute
  <2>1. ilo' \in IloType
    BY <1>1, IloTypes, JobImages DEF FwExecute
  <2>2. sees' \in BOOLEAN
    BY <1>1 DEF FwExecute
  <2> QED
    BY <1>1, <2>1, <2>2 DEF FwExecute
<1>2. CASE FwRefuse
  BY <1>2 DEF FwRefuse
<1>3. CASE FwCut
  BY <1>3 DEF FwCut
<1> QED
  BY <1>1, <1>2, <1>3 DEF Firmware

\* The state of MediaControl keeps its types, whatever the firmware answers.
THEOREM TypeCorrect == Spec => []TypeOK
<1>1. Init => TypeOK
  <2> SUFFICES ASSUME Init PROVE TypeOK
    OBVIOUS
  <2>1. EmptySnap \in SnapType
    BY DEF EmptySnap, SnapType
  <2>2. snap \in SnapType /\ view \in ViewType
    BY <2>1, SnapTypes DEF Init
  <2>3. ilo \in IloType
    BY DEF Init, IloType
  <2>4. queue \in Seq(AllJobs) /\ pushed \in Nat
    BY DEF Init
  <2> QED
    BY <2>2, <2>3, <2>4 DEF Init, TypeOK, Places
<1>2. TypeOK /\ [Next]_vars => TypeOK'
  <2>1. TypeOK /\ UNCHANGED vars => TypeOK'
    BY DEF TypeOK, vars
  <2> QED
    BY <2>1, TypeButtons, TypeLoop, TypeMount, TypeEjectArm, TypeExit,
       TypeFirmware DEF Next, Worker
<1> QED
  BY <1>1, <1>2, PTL DEF Spec
-----------------------------------------------------------------------------
\* Knows is kept by the steps that touch neither the drive nor the url and move
\* between places where the same is known.
LEMMA KnowsCarries ==
  ASSUME Knows, ilo'.drive = ilo.drive, snap'.url = snap.url, unsure' = unsure,
         pc \notin {"insert", "eject", "lastEject", "inserted", "ejected",
                    "stopServer", "done", "none"},
         pc' \notin {"inserted", "ejected", "stopServer", "done", "none"},
         reply' = "sent" \/ pc' \notin {"insert", "eject", "lastEject"}
  PROVE  Knows'
  BY DEF Knows, Tracked

\* Knows is inductive relative to the types.
LEMMA KnowsInductive == TypeOK /\ Knows /\ [Next]_vars => Knows'
<1> SUFFICES ASSUME TypeOK, Knows, [Next]_vars PROVE Knows'
  OBVIOUS
<1>s. snap \in SnapType /\ ilo \in IloType
  BY DEF TypeOK
<1>g. Good(snap) \in SnapType /\ Bad(snap) \in SnapType
  BY <1>s, SnapTypes
<1>1. CASE Frame \/ (\E j \in AllJobs : Push(j))
        \/ (\E w \in {"stopping", "starting"} : Stop(w)) \/ UNCHANGED vars
  BY <1>1 DEF Frame, Push, Stop, vars, Knows, Tracked
<1>2. CASE StopReturn
  BY <1>2 DEF StopReturn, Joined, Knows, Tracked
<1>3. CASE StartReturn
  BY <1>3 DEF StartReturn, Joined, Knows, Tracked
<1>4. CASE ReadFwDone
  <2>1. snap'.url = snap.url
    BY <1>4, <1>s DEF ReadFwDone, Send, SnapType, Good, Bad
  <2> QED
    BY <1>4, <2>1, KnowsCarries DEF ReadFwDone, Send, Succeeded, Failed
<1>5. CASE ReadStatusDone
  <2>1. snap'.url = snap.url
    BY <1>5, <1>s DEF ReadStatusDone, SnapType, Good, Bad
  <2> QED
    BY <1>5, <2>1, KnowsCarries DEF ReadStatusDone, Succeeded, Failed
<1>6. CASE Take
  BY <1>6, KnowsCarries DEF Take
<1>7. CASE Poll \/ DoRefresh \/ MountServes \/ DoEject \/ DoArmBoot
  <2>1. snap'.url = snap.url
    BY <1>7, <1>s, SnapUrls DEF Poll, DoRefresh, MountServes, DoEject, DoArmBoot, Send
  <2> QED
    BY <1>7, <2>1, KnowsCarries
       DEF Poll, DoRefresh, MountServes, DoEject, DoArmBoot, Send
<1>8. CASE MountGivesUp
  <2>1. snap'.url = snap.url
    BY <1>8, <1>s, SnapUrls DEF MountGivesUp
  <2> QED
    BY <1>8, <2>1, KnowsCarries DEF MountGivesUp
<1>9. CASE InsertDone
  <2>1. snap'.url = snap.url
    BY <1>9, <1>s, SnapUrls DEF InsertDone
  <2> QED
    BY <1>9, <2>1 DEF InsertDone, Succeeded, Failed, Knows, Tracked
<1>10. CASE InsertFailed
  BY <1>10, KnowsCarries DEF InsertFailed
<1>11. CASE Inserted
  <2>1. [snap EXCEPT !.url = job.iso, !.armed = FALSE] \in SnapType
    BY <1>s, SnapTypes, JobImages DEF TypeOK
  <2>2. snap'.url = job.iso
    BY <1>11, <1>s, <2>1, SnapUrls DEF Inserted, Send
  <2> QED
    BY <1>11, <2>2 DEF Inserted, Send, Knows, Tracked
<1>12. CASE EjectDone
  <2>1. snap'.url = snap.url
    BY <1>12, <1>s, SnapUrls DEF EjectDone
  <2> QED
    BY <1>12, <2>1 DEF EjectDone, Succeeded, Failed, Knows, Tracked
<1>13. CASE Ejected
  <2>1. [snap EXCEPT !.url = None, !.armed = FALSE] \in SnapType
    BY <1>s, SnapTypes
  <2>2. snap'.url = None
    BY <1>13, <1>s, <2>1, SnapUrls DEF Ejected, Send
  <2> QED
    BY <1>13, <2>2, MediaAssumption DEF Ejected, Send, Knows, Tracked
<1>14. CASE BootOptionDone
  <2>1. snap'.url = snap.url
    BY <1>14, <1>s, <1>g, SnapUrls DEF BootOptionDone, Send
  <2> QED
    BY <1>14, <2>1, KnowsCarries DEF BootOptionDone, Send, Succeeded
<1>15. CASE OneTimeBootDone \/ ArmFailed
  <2>1. snap'.url = snap.url
    BY <1>15, <1>s, SnapUrls DEF OneTimeBootDone, ArmFailed
  <2> QED
    BY <1>15, <2>1, KnowsCarries DEF OneTimeBootDone, ArmFailed, Succeeded, Failed
<1>16. CASE Armed
  <2>1. [snap EXCEPT !.armed = TRUE] \in SnapType
    BY <1>s, SnapTypes
  <2>2. snap'.url = snap.url
    BY <1>16, <1>s, <2>1, SnapUrls DEF Armed, Send
  <2> QED
    BY <1>16, <2>2, KnowsCarries DEF Armed, Send
<1>17. CASE Leave
  BY <1>17, KnowsCarries DEF Leave
<1>18. CASE LastEject
  <2>1. CASE snap.url # None
    <3>1. snap'.url = snap.url
      BY <1>18, <2>1, <1>s, SnapUrls DEF LastEject, Send
    <3> QED
      BY <1>18, <2>1, <3>1, KnowsCarries DEF LastEject, Send
  <2>2. CASE snap.url = None
    BY <1>18, <2>2, MediaAssumption DEF LastEject, Knows, Tracked
  <2> QED
    BY <2>1, <2>2
<1>19. CASE LastEjectDone
  <2>1. snap'.url = snap.url
    BY <1>19, <1>s, SnapUrls DEF LastEjectDone
  <2> QED
    BY <1>19, <2>1, MediaAssumption DEF LastEjectDone, Succeeded, Failed, Knows, Tracked
<1>20. CASE StopServer
  BY <1>20 DEF StopServer, Knows, Tracked
<1>21. CASE FwExecute
  <2>j. job.iso \in Images \cup {None}
    BY JobImages DEF TypeOK
  <2>1. CASE pc = "insert"
    <3>1. ilo'.drive = job.iso
      BY <1>21, <2>1, <2>j, <1>s, IloTypes DEF FwExecute
    <3> QED
      BY <1>21, <2>1, <3>1 DEF FwExecute, Knows
  <2>2. CASE pc \in {"eject", "lastEject"}
    <3>1. ilo'.drive = None
      BY <1>21, <2>2, <1>s, IloTypes DEF FwExecute
    <3> QED
      BY <1>21, <2>2, <3>1 DEF FwExecute, Knows
  <2>3. CASE pc \notin {"insert", "eject", "lastEject"}
    <3>1. ilo'.drive = ilo.drive
      BY <1>21, <2>3, <1>s, IloTypes DEF FwExecute
    <3> QED
      BY <1>21, <2>3, <3>1 DEF FwExecute, Knows, Tracked, Sending
  <2> QED
    BY <2>1, <2>2, <2>3
<1>22. CASE FwRefuse
  BY <1>22 DEF FwRefuse, Knows, Tracked
<1>23. CASE FwCut
  BY <1>23 DEF FwCut, Knows, Tracked
<1> QED
  BY <1>1, <1>2, <1>3, <1>4, <1>5, <1>6, <1>7, <1>8, <1>9, <1>10, <1>11, <1>12,
     <1>13, <1>14, <1>15, <1>16, <1>17, <1>18, <1>19, <1>20, <1>21, <1>22,
     <1>23
     DEF Next, Buttons, UiJoin, Worker, Loop, DoMount, EjectJob, ArmJob, Exit,
         Firmware

\* At each of its places the worker is right about the drive, unless an insert
\* or eject went unconfirmed.
THEOREM WorkerKnowsDrive == Spec => []Knows
<1>1. Init => Knows
  <2> SUFFICES ASSUME Init PROVE Knows
    OBVIOUS
  <2>1. ilo.drive \notin Images
    BY MediaAssumption DEF Init
  <2> QED
    BY <2>1 DEF Init, Knows, Tracked
<1> QED
  BY <1>1, KnowsInductive, TypeCorrect, PTL DEF Spec

\* stop() leaves none of our images in the drive unless an insert or eject went
\* unconfirmed, for every interleaving of buttons, worker and firmware.
THEOREM StopLeavesNothing == Spec => []StopEjects
<1>1. Knows => StopEjects
  BY DEF Knows, StopEjects
<1> QED
  BY <1>1, WorkerKnowsDrive, PTL
-----------------------------------------------------------------------------
\* The image a frame showed when the button of job j was pressed is still there:
\* nothing to replace for a mount, something to boot from for an arm.
Saw(j) ==
  /\ j.kind = "Mount" => ilo.drive = None
  /\ j.kind = "ArmBoot" => ilo.drive # None

\* While no click was blind at most one job waits, only for an idle or a leaving
\* worker, and what its button showed stays true until the firmware acts on it.
Sighted ==
  ~blind =>
    /\ queue # <<>> =>
         /\ pc \in {"top", "leaving", "lastEject", "stopServer", "done", "none"}
         /\ Len(queue) = 1
         /\ pc = "top" => Saw(Head(queue))
    /\ pc = "job" => Saw(job)
    /\ pc = "insert" /\ reply # "ok" => ilo.drive = None
    /\ pc = "insertFailed" => ilo.drive = None \/ unsure
    /\ pc \in {"bootOption", "oneTimeBoot", "armed"} => ilo.drive # None

\* The image of a mount under way is the one served.
Serving ==
  pc \in {"insert", "inserted"} => job.kind = "Mount" /\ server = job.iso

BothSet == ilo.bootOnce /\ ilo.oneTime

\* The worker's progress through the two settings, in the firmware.
Booting ==
  broken \/
    /\ pc = "bootOption" => reply # "cut" /\ (reply = "ok" => ilo.bootOnce)
    /\ pc = "oneTimeBoot" => ilo.bootOnce /\ reply # "cut" /\ (reply = "ok" => ilo.oneTime)
    /\ pc = "armed" \/ snap.armed => BothSet

\* The boot is shown as armed with something in the drive, but for the end of an
\* eject.
ArmedDrive ==
  (snap.armed /\ ~blind /\ ~unsure) =>
     \/ ilo.drive # None
     \/ pc \in {"eject", "ejected", "lastEject", "stopServer", "done", "none"}

\* What the firmware's acting changes of the drive and of the boot settings.
LEMMA FirmwareActs ==
  ASSUME TypeOK, FwExecute
  PROVE  /\ pc = "insert" => ilo'.drive = job.iso
         /\ pc \in {"eject", "lastEject"} => ilo'.drive = None
         /\ pc \notin {"insert", "eject", "lastEject"} => ilo'.drive = ilo.drive
         /\ pc = "bootOption" => ilo'.bootOnce
         /\ pc = "oneTimeBoot" => ilo'.oneTime
         /\ ilo.bootOnce => ilo'.bootOnce
         /\ ilo.oneTime => ilo'.oneTime
<1>1. ilo \in IloType
  BY DEF TypeOK
<1> QED
  BY <1>1 DEF FwExecute, IloType

\* Publishing a url or its end disarms; setting the boot apart, no other step of
\* the worker changes whether it is armed.
LEMMA ArmedCleared ==
  ASSUME TypeOK, Inserted \/ Ejected
  PROVE  ~snap'.armed
<1>1. snap \in SnapType
  BY DEF TypeOK
<1> QED
  BY <1>1 DEF Inserted, Ejected, Send, SnapType

LEMMA ArmedKept ==
  ASSUME TypeOK,
         \/ Loop \/ MountGivesUp \/ MountServes \/ InsertDone \/ InsertFailed
         \/ DoEject \/ EjectDone \/ DoArmBoot \/ BootOptionDone \/ OneTimeBootDone
         \/ ArmFailed \/ Exit
  PROVE  snap'.armed = snap.armed
<1>s. snap \in SnapType
  BY DEF TypeOK
<1> USE DEF SnapType, Good, Bad, Send
<1>1. CASE ReadFwDone
  BY <1>1, <1>s DEF ReadFwDone
<1>2. CASE ReadStatusDone
  BY <1>2, <1>s DEF ReadStatusDone
<1>3. CASE Take \/ Poll \/ DoRefresh
  BY <1>3, <1>s DEF Take, Poll, DoRefresh
<1>4. CASE MountGivesUp \/ MountServes \/ InsertDone \/ InsertFailed
  BY <1>4, <1>s DEF MountGivesUp, MountServes, InsertDone, InsertFailed
<1>5. CASE DoEject \/ EjectDone
  BY <1>5, <1>s DEF DoEject, EjectDone
<1>6. CASE DoArmBoot \/ BootOptionDone \/ OneTimeBootDone \/ ArmFailed
  BY <1>6, <1>s DEF DoArmBoot, BootOptionDone, OneTimeBootDone, ArmFailed
<1>7. CASE Leave \/ LastEjectDone \/ StopServer
  BY <1>7, <1>s DEF Leave, LastEjectDone, StopServer
<1>8. CASE LastEject
  BY <1>8, <1>s DEF LastEject
<1> QED
  BY <1>1, <1>2, <1>3, <1>4, <1>5, <1>6, <1>7, <1>8 DEF Loop, Exit

LEMMA SightedInductive == TypeOK /\ Sighted /\ [Next]_vars => Sighted'
<1> SUFFICES ASSUME TypeOK, Sighted, [Next]_vars, ~blind' PROVE Sighted'
  BY DEF Sighted
<1>q. queue \in Seq(AllJobs)
  BY DEF TypeOK
<1> USE DEF Sighted, Saw
<1>1. ASSUME NEW j \in AllJobs, Push(j) PROVE Sighted'
  <2>1. /\ ~blind /\ queue = <<>> /\ pc = "top" /\ pc' = pc /\ ilo' = ilo
        /\ view.inserted = (ilo.drive # None)
    BY <1>1 DEF Push
  <2>2. queue' = <<j>>
    BY <1>1, <2>1 DEF Push
  <2>3. Len(queue') = 1 /\ Head(queue') = j
    BY <2>2
  <2>4. Saw(j)
    BY <1>1, <2>1 DEF Push, Enabled
  <2> QED
    BY <2>1, <2>3, <2>4
<1>2. CASE Frame \/ (\E w \in {"stopping", "starting"} : Stop(w)) \/ UNCHANGED vars
  BY <1>2 DEF Frame, Stop, vars
<1>3. CASE StopReturn
  BY <1>3 DEF StopReturn, Joined
<1>4. CASE StartReturn
  BY <1>4 DEF StartReturn
<1>5. CASE Take
  <2>1. Len(queue) = 1 /\ Saw(Head(queue)) /\ ~blind /\ ilo' = ilo
    BY <1>5 DEF Take
  <2>2. queue' = <<>>
    BY <1>5, <1>q, <2>1 DEF Take
  <2> QED
    BY <1>5, <2>1, <2>2 DEF Take
<1>6. CASE ReadFwDone \/ ReadStatusDone \/ Poll \/ DoRefresh
  BY <1>6 DEF ReadFwDone, ReadStatusDone, Poll, DoRefresh, Send, Succeeded, Failed
<1>7. CASE MountGivesUp \/ MountServes \/ InsertFailed \/ Inserted
  BY <1>7 DEF MountGivesUp, MountServes, InsertFailed, Inserted, Send
<1>8. CASE InsertDone
  BY <1>8 DEF InsertDone, Succeeded, Failed
<1>9. CASE EjectJob
  BY <1>9 DEF EjectJob, DoEject, EjectDone, Ejected, Send, Succeeded, Failed
<1>10. CASE ArmJob
  BY <1>10 DEF ArmJob, DoArmBoot, BootOptionDone, OneTimeBootDone, ArmFailed, Armed,
               Send, Succeeded, Failed
<1>11. CASE Exit
  BY <1>11 DEF Exit, Leave, LastEject, LastEjectDone, StopServer, Send, Succeeded, Failed
<1>12. CASE FwExecute
  <2>1. UNCHANGED <<pc, queue, job, blind, unsure>> /\ reply' = "ok" /\ pc \in Sending
    BY <1>12 DEF FwExecute
  <2> QED
    BY <1>12, <2>1, FirmwareActs DEF Sending
<1>13. CASE FwRefuse \/ FwCut
  BY <1>13 DEF FwRefuse, FwCut
<1> QED
  BY <1>1, <1>2, <1>3, <1>4, <1>5, <1>6, <1>7, <1>8, <1>9, <1>10, <1>11, <1>12, <1>13
     DEF Next, Buttons, UiJoin, Worker, Loop, DoMount, Firmware

LEMMA ServingInductive == Serving /\ [Next]_vars => Serving'
<1> SUFFICES ASSUME Serving, [Next]_vars PROVE Serving'
  OBVIOUS
<1> USE DEF Serving
<1>1. CASE Buttons \/ UNCHANGED vars
  BY <1>1 DEF Buttons, Frame, Push, Stop, vars
<1>2. CASE UiJoin
  BY <1>2 DEF UiJoin, StopReturn, StartReturn
<1>3. CASE Loop
  BY <1>3 DEF Loop, ReadFwDone, ReadStatusDone, Take, Poll, DoRefresh, Send
<1>4. CASE DoMount
  BY <1>4 DEF DoMount, MountGivesUp, MountServes, InsertDone, InsertFailed, Inserted,
              Send, Succeeded, Failed
<1>5. CASE EjectJob \/ ArmJob
  BY <1>5 DEF EjectJob, DoEject, EjectDone, Ejected, ArmJob, DoArmBoot, BootOptionDone,
              OneTimeBootDone, ArmFailed, Armed, Send
<1>6. CASE Exit
  BY <1>6 DEF Exit, Leave, LastEject, LastEjectDone, StopServer, Send
<1>7. CASE Firmware
  BY <1>7 DEF Firmware, FwExecute, FwRefuse, FwCut
<1> QED
  BY <1>1, <1>2, <1>3, <1>4, <1>5, <1>6, <1>7 DEF Next, Worker

\* One step keeps the mounted image served, whoever takes it.
LEMMA ServedInductive ==
  TypeOK /\ Knows /\ Sighted /\ Serving /\ MountedImageServed /\ [Next]_vars
    => MountedImageServed'
<1> SUFFICES ASSUME TypeOK, Knows, Sighted, Serving, MountedImageServed, [Next]_vars,
                    ilo'.drive \in Images, ~blind', ~unsure'
             PROVE  server' = ilo'.drive
  BY DEF MountedImageServed
<1>n. None \notin Images
  BY MediaAssumption
<1>b. blind \in BOOLEAN /\ unsure \in BOOLEAN
  BY DEF TypeOK
<1> USE DEF MountedImageServed
<1>1. CASE /\ UNCHANGED <<ilo, server>> /\ ~unsure
           /\ UNCHANGED blind \/ \E j \in AllJobs : Push(j)
  BY <1>1, <1>b DEF Push
<1>2. CASE UiJoin
  <2>1. ilo' = ilo /\ pc \in {"none", "done"} /\ unsure' = unsure
    BY <1>2 DEF UiJoin, StopReturn, StartReturn, Joined
  <2> QED
    BY <2>1 DEF Knows
<1>3. CASE MountGivesUp \/ MountServes
  <2>1. ilo' = ilo /\ ~blind /\ pc = "job" /\ job.kind = "Mount"
    BY <1>3 DEF MountGivesUp, MountServes
  <2> QED
    BY <2>1, <1>n DEF Sighted, Saw
<1>4. CASE InsertDone
  <2>1. UNCHANGED <<ilo, server, blind>> /\ pc = "insert"
    BY <1>4 DEF InsertDone, Succeeded, Failed
  <2>2. CASE reply = "ok"
    BY <2>1, <2>2 DEF Knows, Serving
  <2>3. CASE reply # "ok"
    BY <2>1, <2>3, <1>n DEF Sighted
  <2> QED
    BY <2>2, <2>3
<1>5. CASE InsertFailed
  BY <1>5, <1>n DEF InsertFailed, Sighted
<1>6. CASE EjectDone \/ LastEjectDone
  <2>1. UNCHANGED ilo /\ pc \in {"eject", "lastEject"} /\ reply = "ok"
    <3>1. reply # "cut" /\ reply # "sent" /\ reply # "refused"
      BY <1>6 DEF EjectDone, LastEjectDone, Succeeded, Failed
    <3> QED
      BY <1>6, <3>1 DEF EjectDone, LastEjectDone, Succeeded, Failed, TypeOK
  <2> QED
    BY <2>1, <1>n DEF Knows
<1>7. CASE Ejected
  BY <1>7, <1>n DEF Ejected, Knows
<1>8. CASE StopServer
  BY <1>8, <1>n DEF StopServer, Knows
<1>9. CASE FwExecute
  <2>1. UNCHANGED <<server, blind, unsure>>
    BY <1>9 DEF FwExecute
  <2>2. CASE pc = "insert"
    BY <1>9, <2>1, <2>2, FirmwareActs DEF Serving
  <2>3. CASE pc # "insert"
    BY <1>9, <2>1, <2>3, <1>n, FirmwareActs
  <2> QED
    BY <2>2, <2>3
<1>10. ASSUME Buttons \/ UNCHANGED vars \/ Loop
       PROVE  /\ UNCHANGED <<ilo, server, unsure>>
              /\ UNCHANGED blind \/ \E j \in AllJobs : Push(j)
  BY <1>10 DEF Buttons, Frame, Stop, Push, vars, Loop, ReadFwDone, ReadStatusDone, Take,
               Poll, DoRefresh
<1>11. ASSUME Inserted \/ DoEject \/ ArmJob \/ Leave \/ LastEject
       PROVE  UNCHANGED <<ilo, server, unsure, blind>>
  BY <1>11 DEF Inserted, DoEject, ArmJob, DoArmBoot, BootOptionDone, OneTimeBootDone,
               ArmFailed, Armed, Leave, LastEject
<1>12. ASSUME FwRefuse \/ FwCut PROVE UNCHANGED <<ilo, server, blind>> /\ ~unsure
  BY <1>12, <1>b DEF FwRefuse, FwCut
<1> QED
  BY <1>1, <1>2, <1>3, <1>4, <1>5, <1>6, <1>7, <1>8, <1>9, <1>10, <1>11, <1>12
     DEF Next, UiJoin, Worker, DoMount, EjectJob, Exit, Firmware

LEMMA SightedAlways == Spec => [](TypeOK /\ Knows /\ Sighted /\ Serving)
<1>1. Init => Sighted /\ Serving
  BY DEF Init, Sighted, Serving
<1> QED
  BY <1>1, SightedInductive, ServingInductive, TypeCorrect, WorkerKnowsDrive, PTL DEF Spec

\* While one of our images is in the drive it is being served, unless a click was
\* blind or an insert or eject went unconfirmed.
THEOREM MountedStaysServed == Spec => []MountedImageServed
<1>1. Init => MountedImageServed
  BY MediaAssumption DEF Init, MountedImageServed
<1> QED
  BY <1>1, ServedInductive, SightedAlways, PTL DEF Spec
\* Each of the two settings is made before the worker counts it as made.
LEMMA BootingInductive == TypeOK /\ Booting /\ [Next]_vars => Booting'
<1> SUFFICES ASSUME TypeOK, Booting, [Next]_vars, ~broken' PROVE Booting'
  BY DEF Booting
<1>s. broken \in BOOLEAN
  BY DEF TypeOK
<1> USE DEF Booting, BothSet
<1>1. CASE Buttons \/ UNCHANGED vars
  BY <1>1 DEF Buttons, Frame, Push, Stop, vars
<1>2. CASE StopReturn
  BY <1>2 DEF StopReturn
<1>3. CASE StartReturn
  <2>1. ~snap'.armed /\ pc' = "readFw"
    BY <1>3 DEF StartReturn, EmptySnap
  <2> QED
    BY <2>1
<1>4. ASSUME snap'.armed => snap.armed, UNCHANGED <<ilo, broken>>,
             pc' \notin {"oneTimeBoot", "armed"}, pc' = "bootOption" => reply' = "sent"
      PROVE  Booting'
  BY <1>4
<1>5. CASE Loop
  BY <1>4, <1>5, ArmedKept DEF Loop, ReadFwDone, ReadStatusDone, Take, Poll, DoRefresh, Send
<1>6. CASE MountGivesUp \/ MountServes \/ InsertDone \/ InsertFailed
  BY <1>4, <1>6, ArmedKept DEF MountGivesUp, MountServes, InsertDone, InsertFailed, Send
<1>7. CASE Inserted \/ Ejected
  BY <1>4, <1>7, ArmedCleared DEF Inserted, Ejected, Send
<1>8. CASE DoEject \/ EjectDone \/ DoArmBoot \/ ArmFailed
  BY <1>4, <1>8, ArmedKept DEF DoEject, EjectDone, DoArmBoot, ArmFailed, Send
<1>9. CASE BootOptionDone
  BY <1>9, ArmedKept DEF BootOptionDone, Send, Succeeded
<1>10. CASE OneTimeBootDone
  BY <1>10, ArmedKept DEF OneTimeBootDone, Succeeded
<1>11. CASE Armed
  BY <1>11 DEF Armed, Send
<1>12. CASE Exit
  BY <1>4, <1>12, ArmedKept DEF Exit, Leave, LastEject, LastEjectDone, StopServer, Send
<1>13. CASE FwExecute
  <2>1. UNCHANGED <<pc, snap, broken>> /\ reply' = "ok"
    BY <1>13 DEF FwExecute
  <2> QED
    BY <1>13, <2>1, FirmwareActs
<1>14. CASE FwRefuse \/ FwCut
  BY <1>14, <1>s DEF FwRefuse, FwCut
<1> QED
  BY <1>1, <1>2, <1>3, <1>5, <1>6, <1>7, <1>8, <1>9, <1>10, <1>11, <1>12, <1>13, <1>14
     DEF Next, UiJoin, Worker, DoMount, EjectJob, ArmJob, Firmware

\* Nothing empties the drive of an armed boot but an eject, which disarms it.
LEMMA ArmedDriveInductive ==
  TypeOK /\ Knows /\ Sighted /\ Serving /\ ArmedDrive /\ [Next]_vars => ArmedDrive'
<1> SUFFICES ASSUME TypeOK, Knows, Sighted, Serving, ArmedDrive, [Next]_vars,
                    snap'.armed, ~blind', ~unsure', ilo'.drive = None
             PROVE  pc' \in {"eject", "ejected", "lastEject", "stopServer", "done", "none"}
  BY DEF ArmedDrive
<1>s. blind \in BOOLEAN /\ unsure \in BOOLEAN
  BY DEF TypeOK
<1>n. None \notin Images
  BY MediaAssumption
<1> USE DEF ArmedDrive
<1>1. CASE Buttons \/ UNCHANGED vars
  BY <1>1, <1>s DEF Buttons, Frame, Push, Stop, vars
<1>2. CASE StopReturn
  BY <1>2 DEF StopReturn
<1>3. CASE StartReturn
  BY <1>3 DEF StartReturn, EmptySnap
<1>4. CASE Loop
  <2>1. UNCHANGED <<ilo, blind, unsure>> /\ pc \in {"readFw", "readStatus", "top", "job"}
    BY <1>4 DEF Loop, ReadFwDone, ReadStatusDone, Take, Poll, DoRefresh, Succeeded, Failed
  <2> QED
    BY <1>4, <2>1, ArmedKept
<1>5. CASE MountGivesUp \/ MountServes \/ InsertFailed
  <2>1. UNCHANGED <<ilo, blind, unsure>> /\ pc \in {"job", "insertFailed"}
    BY <1>5 DEF MountGivesUp, MountServes, InsertFailed
  <2> QED
    BY <1>5, <2>1, ArmedKept
<1>6. CASE InsertDone
  <2>1. snap'.armed = snap.armed /\ UNCHANGED <<ilo, blind>> /\ pc = "insert"
    BY <1>6, ArmedKept DEF InsertDone, Succeeded, Failed
  <2>2. CASE reply = "ok"
    <3>1. ilo.drive = job.iso /\ job.iso \in Images
      BY <2>1, <2>2, JobImages DEF Knows, Serving, TypeOK
    <3> QED
      BY <2>1, <3>1, <1>n
  <2>3. CASE reply # "ok"
    <3>1. ~unsure
      BY <1>6, <2>3, <1>s DEF InsertDone, Succeeded, Failed
    <3> QED
      BY <2>1, <3>1
  <2> QED
    BY <2>2, <2>3
<1>7. CASE Inserted \/ Ejected
  BY <1>7, ArmedCleared
<1>8. CASE DoEject \/ EjectDone
  BY <1>8 DEF DoEject, EjectDone, Send
<1>9. CASE ArmJob
  <2>1. UNCHANGED <<ilo, blind>>
    BY <1>9 DEF ArmJob, DoArmBoot, BootOptionDone, OneTimeBootDone, ArmFailed, Armed
  <2>2. pc \in {"bootOption", "oneTimeBoot", "armed"} \/ (pc = "job" /\ job.kind = "ArmBoot")
    BY <1>9 DEF ArmJob, DoArmBoot, BootOptionDone, OneTimeBootDone, ArmFailed, Armed,
                Succeeded, Failed
  <2> QED
    BY <2>1, <2>2 DEF Sighted, Saw
<1>10. CASE Exit
  <2>1. CASE Leave
    BY <1>10, <2>1, ArmedKept DEF Leave
  <2> QED
    BY <1>10, <2>1 DEF Exit, LastEject, LastEjectDone, StopServer, Send
<1>11. CASE FwExecute
  <2>1. UNCHANGED <<pc, snap, blind, unsure>>
    BY <1>11 DEF FwExecute
  <2>2. CASE pc = "insert"
    <3>1. ilo'.drive \in Images
      BY <1>11, <2>2, FirmwareActs, JobImages DEF Serving, TypeOK
    <3> QED
      BY <3>1, <1>n
  <2>3. CASE pc # "insert"
    BY <1>11, <2>1, <2>3, FirmwareActs
  <2> QED
    BY <2>2, <2>3
<1>12. CASE FwRefuse \/ FwCut
  BY <1>12, <1>s DEF FwRefuse, FwCut
<1> QED
  BY <1>1, <1>2, <1>3, <1>4, <1>5, <1>6, <1>7, <1>8, <1>9, <1>10, <1>11, <1>12
     DEF Next, UiJoin, Worker, DoMount, EjectJob, Firmware

\* A boot shown as armed is armed in full and has something to boot from, unless a
\* click was blind or a command that was not carried out passed for done.
THEOREM ArmedIsBootable == Spec => []ArmedMeansMounted
<1>1. Init => Booting /\ ArmedDrive
  BY DEF Init, Booting, ArmedDrive, EmptySnap
<1>2. Booting /\ ArmedDrive => ArmedMeansMounted
  BY DEF Booting, BothSet, ArmedDrive, ArmedMeansMounted
<1> QED
  BY <1>1, <1>2, BootingInductive, ArmedDriveInductive, SightedAlways, PTL DEF Spec
-----------------------------------------------------------------------------
\* No job is under way at the top of the loop or in its shutdown, and run_ stays
\* clear while stop() or start() waits for the thread.
JobPlaces ==
  /\ pc \in {"top", "leaving", "lastEject", "stopServer", "done", "none"} => job = NoJob
  /\ ui # "idle" => ~run

LEMMA JobPlacesInductive == JobPlaces /\ [Next]_vars => JobPlaces'
<1> SUFFICES ASSUME JobPlaces, [Next]_vars PROVE JobPlaces'
  OBVIOUS
<1> USE DEF JobPlaces
<1>1. CASE Buttons \/ UiJoin \/ UNCHANGED vars
  BY <1>1 DEF Buttons, Frame, Push, Stop, vars, UiJoin, StopReturn, StartReturn, Joined
<1>2. CASE Loop
  BY <1>2 DEF Loop, ReadFwDone, ReadStatusDone, Take, Poll, DoRefresh, Send
<1>3. CASE DoMount
  BY <1>3 DEF DoMount, MountGivesUp, MountServes, InsertDone, InsertFailed, Inserted, Send
<1>4. CASE EjectJob \/ ArmJob
  BY <1>4 DEF EjectJob, DoEject, EjectDone, Ejected, ArmJob, DoArmBoot, BootOptionDone,
              OneTimeBootDone, ArmFailed, Armed, Send
<1>5. CASE Exit
  BY <1>5 DEF Exit, Leave, LastEject, LastEjectDone, StopServer, Send, Succeeded, Failed
<1>6. CASE Firmware
  BY <1>6 DEF Firmware, FwExecute, FwRefuse, FwCut
<1> QED
  BY <1>1, <1>2, <1>3, <1>4, <1>5, <1>6 DEF Next, Worker

\* Every step of the buttons, the worker and the firmware is a step of the JobQueue
\* that the UI may take the worker for, or none of it.
LEMMA QueueStep == JobPlaces /\ [Next]_vars => [JobQueue!Next]_(JobQueue!vars)
<1> SUFFICES ASSUME JobPlaces, [Next]_vars PROVE [JobQueue!Next]_(JobQueue!vars)
  OBVIOUS
<1> USE DEF JobQueue!vars
<1>s. ASSUME UNCHANGED <<queue, job, run>> PROVE UNCHANGED JobQueue!vars
  BY <1>s
<1>f. ASSUME job' = NoJob, UNCHANGED <<queue, run>> PROVE JobQueue!Finish \/ UNCHANGED JobQueue!vars
  BY <1>f DEF JobQueue!Finish
<1>1. ASSUME NEW j \in AllJobs, Push(j) PROVE JobQueue!Submit(j)
  BY <1>1 DEF Push, JobQueue!Submit
<1>2. ASSUME NEW w \in {"stopping", "starting"}, Stop(w) PROVE JobQueue!Close
  BY <1>2 DEF Stop, JobQueue!Close
<1>3. CASE Frame \/ StopReturn \/ UNCHANGED vars
  BY <1>3, <1>s DEF Frame, StopReturn, vars
<1>4. ASSUME StartReturn PROVE JobQueue!Open
  BY <1>4 DEF StartReturn, Joined, JobPlaces, JobQueue!Open
<1>5. ASSUME Take PROVE JobQueue!Begin
  BY <1>5 DEF Take, JobPlaces, JobQueue!Begin
<1>6. CASE ReadStatusDone \/ MountGivesUp \/ InsertFailed \/ ArmFailed
  BY <1>6, <1>f DEF ReadStatusDone, MountGivesUp, InsertFailed, ArmFailed, JobQueue!Next
<1>7. CASE ReadFwDone \/ Poll \/ DoRefresh \/ MountServes \/ InsertDone \/ Inserted
  BY <1>7, <1>s DEF ReadFwDone, Poll, DoRefresh, MountServes, InsertDone, Inserted
<1>8. CASE EjectJob \/ DoArmBoot \/ BootOptionDone \/ OneTimeBootDone \/ Armed
  BY <1>8, <1>s DEF EjectJob, DoEject, EjectDone, Ejected, DoArmBoot, BootOptionDone,
                    OneTimeBootDone, Armed
<1>9. CASE Exit \/ Firmware
  BY <1>9, <1>s DEF Exit, Leave, LastEject, LastEjectDone, StopServer,
                    Firmware, FwExecute, FwRefuse, FwCut
<1> QED
  BY <1>1, <1>2, <1>3, <1>4, <1>5, <1>6, <1>7, <1>8, <1>9
     DEF Next, Buttons, UiJoin, Worker, Loop, DoMount, ArmJob, JobQueue!Next

\* The worker implements the JobQueue its header promises, as far as safety goes: one
\* job at a time, in the order of the buttons, none begun after stop() was called.
\* JobQueue's fairness, too, is checked by the run.
THEOREM WorkerIsJobQueue == Spec => JobQueue!Init /\ [][JobQueue!Next]_(JobQueue!vars)
<1>1. Init => JobPlaces /\ JobQueue!Init
  BY DEF Init, JobPlaces, JobQueue!Init
<1> QED
  BY <1>1, JobPlacesInductive, QueueStep, PTL DEF Spec
=============================================================================
