------------------------------ MODULE FrontEnd ------------------------------
(***************************************************************************)
(* ui/sdl_main.cpp, main(): what the window does with the three workers    *)
(* (connect, disconnect), the buttons that take two clicks, the question *)
(* before closing while an image is served, and the list of recent servers *)
(* of ui/connections.hpp with its file, over restarts of the program.      *)
(*                                                                         *)
(* One UI action is one step: a click is handled where its button is drawn *)
(* and reads the workers there.  The workers are ConsoleCore, PowerControl *)
(* and MediaControl; here they are the server they talk to and what the    *)
(* window reads of them.                                                   *)
(***************************************************************************)
EXTENDS Naturals, Sequences, SequencesExt

CONSTANTS
  Servers,      \* host and user, as they are typed, listed and connected to
  None,
  PowerCommands, \* the commands of the Power tab that take two clicks
  BootOnce,     \* the Media tab's two-click button
  Cap,          \* MAX_SAVED_CONNECTIONS
  ArmTimeout,   \* ARM_TIMEOUT_MS, in ticks
  Typed,        \* the servers the user types; others are met in the lists only
  LegacyLists   \* what the old preferences directory may hold

ASSUME FrontEndAssumption ==
  /\ None \notin Servers /\ None \notin PowerCommands
  /\ BootOnce \notin PowerCommands \cup {None}
  /\ Cap \in Nat \ {0} /\ ArmTimeout \in Nat
  /\ Typed \subseteq Servers /\ LegacyLists \subseteq Seq(Servers)

VARIABLES
  up,        \* the program runs
  quit,      \* quit
  replay,    \* --replay was given
  fields,    \* host_buf and user_buf; None with no host
  core,      \* ConsoleCore: its state, whether worker_ is joinable, its server
  power,     \* the server PowerControl works for, None when it is not running
  media,     \* the same of MediaControl
  url,       \* MediaControl's snapshot has a url: an image is served
  recorded,  \* connection_recorded
  recent,    \* recent
  file,      \* connections.txt
  legacy,    \* the old connections.txt
  arm,       \* armed, armed_cmd and armed_at; boot_armed_click and boot_armed_at
  asked,     \* what the last step requested of a worker
  closing,   \* close_requested
  guard,     \* close_guard_up
  kept,      \* history: the last close was cancelled
  noted,     \* history: the server recorded for the present connection
  used,      \* history: the last Cap servers recorded, last one first
  gone,      \* history: servers forgotten since they were last recorded
  saved      \* history: the last attempt to save the list succeeded

program == <<up, quit, replay>>
workers == <<core, power, media, url>>
list    == <<recorded, noted, recent, file, legacy, used, gone, saved>>
window  == <<closing, guard, kept>>
uiVars  == <<program, fields, workers, list, arm, asked, window>>

Panels     == {"power", "boot"}
Unarmed    == [cmd |-> None, age |-> 0, for |-> None]
NoRequest  == [cmd |-> None, server |-> None, arm |-> Unarmed]
NoCore     == [state |-> "Idle", joinable |-> FALSE, server |-> None]

UiInit ==
  /\ up = FALSE /\ quit = FALSE /\ replay = FALSE /\ fields = None
  /\ core = NoCore /\ power = None /\ media = None /\ url = FALSE
  /\ recorded = FALSE /\ noted = None /\ recent = <<>> /\ file = <<>> /\ legacy \in LegacyLists
  /\ arm = [p \in Panels |-> Unarmed] /\ asked = NoRequest
  /\ closing = FALSE /\ guard = FALSE /\ kept = FALSE
  /\ used = <<>> /\ gone = {} /\ saved = TRUE

\* A frame is drawn; the guard's dialog is modal and blocks every other button.
Frame    == up /\ ~quit
Clicking == Frame /\ ~guard
\* The connect form is drawn instead of Disconnect.
FormShown == core.state \in {"Idle", "Failed", "Stopped"}

-----------------------------------------------------------------------------
(***************************************************************************)
(* ui/connections.hpp.                                                     *)
(***************************************************************************)

Capped(s) == IF Len(s) > Cap THEN SubSeq(s, 1, Cap) ELSE s

\* load_connections() and parse_connections(): a missing file is an empty list.
Load(f) == Capped(f)

Without(s, x) == SelectSeq(s, LAMBDA y : y # x)

\* remember_connection()
Remember(s, x) == Capped(<<x>> \o Without(s, x))

\* What fwrite() leaves of the line after the first n: nothing, or a shorter line,
\* which parse_connections() takes for an entry like any other.
Torn(s, n) == {<<>>} \cup (IF n < Len(s) THEN {<<x>> : x \in Servers \ ToSet(s)} ELSE {})

\* save_connections(): the file may not open, or be cut short anywhere; nobody
\* looks at the result.
Save(s) ==
  /\ file' \in {file} \cup UNION {{SubSeq(s, 1, n) \o t : t \in Torn(s, n)} : n \in 0 .. Len(s)}
  /\ saved' = (file' = s)

-----------------------------------------------------------------------------
(***************************************************************************)
(* The program.                                                            *)
(***************************************************************************)

\* main() up to its loop.  The list is read from the old place if the new one has
\* none; the first entry fills the fields unless --host does.
Launch ==
  LET mine  == Load(file)
      found == IF mine = <<>> THEN Load(legacy) ELSE mine
      keeps == saved /\ (mine # <<>> \/ legacy = <<>>)
  IN
  /\ ~up /\ up' = TRUE /\ replay' \in BOOLEAN
  /\ recent' = found
  /\ fields' \in Typed \cup {IF found = <<>> THEN None ELSE found[1]}
  /\ used' = IF keeps THEN used ELSE <<>>
  /\ gone' = IF keeps THEN gone ELSE {}
  /\ saved' = TRUE
  /\ UNCHANGED <<quit, workers, recorded, noted, file, legacy, arm, window>>

\* The process is gone: after the loop (core.stop(), media.stop(), then the
\* destructors), or killed.
Exit ==
  /\ up /\ up' = FALSE /\ quit' = FALSE /\ fields' = None
  /\ core' = NoCore /\ power' = None /\ media' = None /\ url' = FALSE
  /\ arm' = [p \in Panels |-> Unarmed]
  /\ closing' = FALSE /\ guard' = FALSE /\ kept' = FALSE
  /\ recorded' = FALSE /\ noted' = None /\ recent' = <<>> /\ replay' = FALSE
  /\ UNCHANGED <<file, legacy, used, gone, saved>>

-----------------------------------------------------------------------------
(***************************************************************************)
(* The side column.                                                        *)
(***************************************************************************)

\* The fields are typed into, or filled by a click on a recent server.
Edit ==
  /\ Clicking /\ FormShown
  /\ fields' \in Typed \cup ToSet(recent) \cup {None} /\ fields' # fields
  /\ UNCHANGED <<program, workers, list, arm, window>>

\* core.start() or core.start_replay() succeeds: it refuses while worker_ is
\* joinable, also if the thread has ended.
CoreStarts == core' = [state |-> "Connecting", joinable |-> TRUE, server |-> fields]

\* Mutant: the other workers are started before the console.
DoConnectWorkersFirst ==
  /\ Clicking /\ FormShown /\ recorded' = FALSE /\ noted' = None
  /\ fields # None /\ ~replay
  /\ power' = fields /\ media' = fields /\ url' = FALSE
  /\ IF core.joinable THEN UNCHANGED core ELSE CoreStarts
  /\ UNCHANGED <<program, fields, recent, file, legacy, used, gone, saved, arm, window>>

\* do_connect(): nothing but connection_recorded changes without a host, without a
\* password, or if the console does not start; a replay starts the console only.
DoConnect ==
  /\ Clicking /\ FormShown /\ recorded' = FALSE /\ noted' = None
  /\ \/ UNCHANGED workers
     \/ /\ replay /\ ~core.joinable /\ CoreStarts
        /\ UNCHANGED <<power, media, url>>
     \/ /\ ~replay /\ fields # None /\ ~core.joinable /\ CoreStarts
        /\ power' = fields /\ media' = fields /\ url' = FALSE
  /\ UNCHANGED <<program, fields, recent, file, legacy, used, gone, saved, arm, window>>

\* core.stop(): the thread has ended, Failed if it failed before it was joined.
CoreStops ==
  \E s \in IF core.state = "Connecting" THEN {"Failed", "Stopped"}
           ELSE IF core.state = "Failed" THEN {"Failed"} ELSE {"Stopped"} :
    core' = [state |-> s, joinable |-> FALSE, server |-> core.server]

\* Mutant: an armed button survives the connection.
DoDisconnectArmed ==
  /\ Clicking /\ ~FormShown
  /\ CoreStops /\ power' = None /\ media' = None
  /\ UNCHANGED <<program, fields, url, list, arm, window>>

\* do_disconnect(): all three stop; nothing stays armed.
DoDisconnect ==
  /\ Clicking /\ ~FormShown
  /\ CoreStops /\ power' = None /\ media' = None
  /\ arm' = [p \in Panels |-> Unarmed]
  /\ UNCHANGED <<program, fields, url, list, window>>

\* Every frame: once the console is up the server is recorded, from the fields.
Record ==
  /\ Frame /\ core.state = "Connected" /\ ~recorded /\ ~replay
  /\ recent' = Remember(recent, fields) /\ Save(recent') /\ recorded' = TRUE /\ noted' = fields
  /\ used' = Capped(<<fields>> \o Without(used, fields)) /\ gone' = gone \ {fields}
  /\ UNCHANGED <<program, fields, workers, legacy, arm, window>>

\* Mutant: the list is not written back.
ForgetUnsaved(i) ==
  /\ Clicking /\ FormShown /\ i \in DOMAIN recent
  /\ recent' = RemoveAt(recent, i)
  /\ gone' = gone \cup {recent[i]}
  /\ UNCHANGED <<program, fields, workers, recorded, noted, file, legacy, used, saved, arm, window>>

\* The small button of an entry: forget_connection() and save.
Forget(i) ==
  /\ Clicking /\ FormShown /\ i \in DOMAIN recent
  /\ recent' = RemoveAt(recent, i) /\ Save(recent')
  /\ gone' = gone \cup {recent[i]}
  /\ UNCHANGED <<program, fields, workers, recorded, noted, legacy, used, arm, window>>

-----------------------------------------------------------------------------
(***************************************************************************)
(* Buttons that take two clicks.  A panel shows them while its worker      *)
(* runs; which of them depends on the power state and the drive.  The arm  *)
(* is dropped when the panel is drawn after the timeout, before its        *)
(* buttons are: one that is too old is as good as none (Tick).             *)
(***************************************************************************)

WorkerOf(p)   == IF p = "power" THEN power ELSE media
CommandsOf(p) == IF p = "power" THEN PowerCommands ELSE {BootOnce}
Shown(p)      == Clicking /\ WorkerOf(p) # None

\* The first click.
Arm(p, c) ==
  /\ Shown(p) /\ arm[p].cmd # c
  /\ arm' = [arm EXCEPT ![p] = [cmd |-> c, age |-> 0, for |-> WorkerOf(p)]]
  /\ UNCHANGED <<program, fields, workers, list, window>>

\* The second: power.request() or media.arm_boot().
Confirm(p, c) ==
  /\ Shown(p) /\ arm[p].cmd = c
  /\ asked' = [cmd |-> c, server |-> WorkerOf(p), arm |-> arm[p]]
  /\ arm' = [arm EXCEPT ![p] = Unarmed]
  /\ UNCHANGED <<program, fields, workers, list, window>>

\* "cancel"
Disarm(p) ==
  /\ Shown(p) /\ arm[p].cmd # None
  /\ arm' = [arm EXCEPT ![p] = Unarmed]
  /\ UNCHANGED <<program, fields, workers, list, window>>

-----------------------------------------------------------------------------
(***************************************************************************)
(* Closing.                                                                *)
(***************************************************************************)

CloseRequested ==
  /\ Frame /\ ~closing
  /\ closing' = TRUE /\ kept' = FALSE
  /\ UNCHANGED <<program, fields, workers, list, arm, guard>>

\* The frame after it: with nothing served the program ends, else it asks.  The
\* url is read only of a running MediaControl.
GuardDecides ==
  /\ Frame /\ closing /\ ~guard
  /\ IF media # None /\ url
     THEN guard' = TRUE /\ UNCHANGED <<quit, closing>>
     ELSE quit' = TRUE /\ closing' = FALSE /\ UNCHANGED guard
  /\ UNCHANGED <<up, replay, fields, workers, list, arm, kept>>

\* "Eject and close"
EjectAndClose ==
  /\ Frame /\ guard
  /\ quit' = TRUE /\ guard' = FALSE /\ closing' = FALSE
  /\ UNCHANGED <<up, replay, fields, workers, list, arm, kept>>

\* Mutant: Escape takes the dialog away and leaves the request.
KeepRunningForgets ==
  /\ Frame /\ guard
  /\ guard' = FALSE /\ kept' = TRUE
  /\ UNCHANGED <<program, fields, workers, list, arm, closing>>

\* "Keep it running", or Escape: both cancel the close.
KeepRunning ==
  /\ Frame /\ guard
  /\ guard' = FALSE /\ closing' = FALSE /\ kept' = TRUE
  /\ UNCHANGED <<program, fields, workers, list, arm>>

-----------------------------------------------------------------------------
(***************************************************************************)
(* The workers and time.                                                   *)
(***************************************************************************)

\* The console's thread: live_thread() or replay_thread().
CoreMoves ==
  /\ up
  /\ \E s \in {"Connected", "Failed", "Stopped"} :
       /\ core' = [state |-> s, joinable |-> core.joinable, server |-> core.server]
       /\ \/ core.state = "Connecting" /\ s = "Connected"
          \/ core.state = "Connecting" /\ s = "Failed" /\ ~replay
          \/ core.state = "Connected" /\ s = "Stopped"
  /\ UNCHANGED <<program, fields, power, media, url, list, arm, window>>

\* A mount or an eject is done.
MediaMoves ==
  /\ media # None /\ url' = ~url
  /\ UNCHANGED <<program, fields, core, power, media, list, arm, window>>

\* Time passes for the arms; ARM_TIMEOUT_MS ends them.
Tick ==
  /\ Frame /\ \E p \in Panels : arm[p].cmd # None
  /\ arm' = [p \in Panels |->
       IF arm[p].cmd # None /\ arm[p].age < ArmTimeout
       THEN [cmd |-> arm[p].cmd, age |-> arm[p].age + 1, for |-> arm[p].for]
       ELSE Unarmed]
  /\ UNCHANGED <<program, fields, workers, list, window>>

SideColumn == Edit \/ DoConnect \/ DoDisconnect \/ Record
                \/ (\E i \in 1 .. Cap : Forget(i))
Arming     == \E p \in Panels : Disarm(p) \/ (\E c \in CommandsOf(p) : Arm(p, c))
Close      == CloseRequested \/ GuardDecides \/ EjectAndClose \/ KeepRunning
Others     == CoreMoves \/ MediaMoves \/ Tick

UiNext ==
  \/ \E p \in Panels : \E c \in CommandsOf(p) : Confirm(p, c)
  \/ /\ Launch \/ Exit \/ SideColumn \/ Arming \/ Close \/ Others
     /\ asked' = NoRequest
UiSpec == UiInit /\ [][UiNext]_uiVars

-----------------------------------------------------------------------------
(***************************************************************************)
(* Properties.                                                             *)
(***************************************************************************)

Hosts    == Servers \cup {None}
CoreType == [state : {"Idle", "Connecting", "Connected", "Failed", "Stopped"},
             joinable : BOOLEAN, server : Hosts]
ArmType  == [cmd : PowerCommands \cup {BootOnce, None}, age : Nat, for : Hosts]

\* The shape of the window's state, the lists apart.
TypeOK ==
  /\ up \in BOOLEAN /\ quit \in BOOLEAN /\ replay \in BOOLEAN /\ fields \in Hosts
  /\ core \in CoreType /\ power \in Hosts /\ media \in Hosts /\ url \in BOOLEAN
  /\ recorded \in BOOLEAN /\ noted \in Hosts
  /\ arm \in [Panels -> ArmType]
  /\ closing \in BOOLEAN /\ guard \in BOOLEAN /\ kept \in BOOLEAN

\* The three workers and the list agree on the server: power and media work for
\* the server of the console session, also when that has failed and another host
\* is typed, and what is recorded is that server, whatever the fields say.
OneServer ==
  /\ power = media
  /\ power # None => power = core.server
  /\ recorded => noted = core.server

\* sdl_main.cpp:681 "The destructive commands arm on the first click and act on the
\* second, so a stray click on the panel can never reset the server": a request
\* was armed by a click for the same command, at most ARM_TIMEOUT_MS before, and
\* for the server that it goes to.
TwoClicks ==
  asked # NoRequest =>
    /\ asked.arm.cmd = asked.cmd /\ asked.arm.age <= ArmTimeout
    /\ asked.arm.for = asked.server

\* connections.hpp:4 "most recent first": recorded servers are listed in the order of
\* their last use and before all others, each once; the last Cap of them are listed
\* unless they were forgotten; a forgotten one is not listed again.  All of it
\* holds over restarts, unless a save failed or the emptied list made the program
\* read the old one again.
RecentList ==
  LET listed == ToSet(recent)
      Use(x) == CHOOSE n \in DOMAIN used : used[n] = x
  IN  up =>
  /\ \A n \in DOMAIN used : n <= Cap => used[n] \in listed \cup gone
  /\ listed \cap gone = {}
  /\ \A i, j \in DOMAIN recent :
       (i < j /\ recent[j] \in ToSet(used)) =>
         recent[i] \in ToSet(used) /\ Use(recent[i]) < Use(recent[j])

\* sdl_main.cpp:1011 "Read that as cancelling the close": a close that was cancelled
\* is forgotten.  The program does not quit on it later, when the image has
\* been ejected.
StaysOpen == quit => ~kept
=============================================================================
