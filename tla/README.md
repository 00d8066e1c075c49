# Verification of ilo2ctl

ilo2ctl is a client for HP iLO 2 management processors: a remote console
(keyboard, mouse, DVC video), power control, health reports and virtual media,
with its own TLS 1.0 client. This directory holds TLA+ models of its parts, the
TLC configurations that check them on small instances, and TLAPS proofs of the
properties that matter most. `PROJECT.json` maps every definition to the source
lines it models.

## 1. The system

### Components

| Component | Source | State | Operations |
|---|---|---|---|
| Power control worker | `ui/power_control.hpp` | `run_`, `queue_`, `snap_`, the worker's `poll_due` | `start`, `stop`, `request`, the worker loop |
| Media control worker | `ui/media_control.hpp` | `run_`, `queue_`, `snap_`, the HTTP server it owns | `start`, `stop`, `mount`, `eject`, `arm_boot`, `refresh`, the worker loop |
| HTTP media server | `ilo/media_server.hpp` | the file served, the read map | `start`, `stop`, reads, `stats` |
| Console session | `ui/console_core.hpp`, `ilo/telnet.hpp` | `worker_`, `running_`, `state_`, `session_`, `outbox_`, the socket and its flags | `start`, `start_replay`, `stop`, input methods, receive loop, `disconnect` |
| Framebuffer | `ui/console_core.hpp` (`on_set_dimensions`, `on_paste`, `pull`) | two pixel buffers, dirty tiles | paste, resize, pull |
| DVC colour cache | `ilo/dvc_cache.hpp` | slots, usage ranks, pixcode | `cache_lru`, `cache_find`, `cache_prune`, `cache_reset` |
| DVC decoder | `ilo/dvc_decoder.hpp`, `ilo/dvc_bits.hpp` | bit buffer, decoder state, screen position | `process_bits` |
| Receive state machine, RC4 session | `ilo/telnet.hpp`, `ilo/ilo2_session.hpp`, `crypto/rc4.hpp` | escape state, key streams | `feed`, `transmit`, `change_key` |
| RIBCL | `ilo/ribcl.hpp` | none between calls | build, exchange, parse |
| iLO web session | `ilo/ilo_session.hpp` | cookies and parameters | login, scraping |
| TLS client, HTTPS | `tls/*.hpp` | record buffers, sequence numbers, key streams, transcript | `connect`, `send`, `recv`, `close`, `https_get` |
| Recent connections | `ui/connections.hpp` | a list and its file | remember, forget, load, save |
| SDL front end | `ui/sdl_main.cpp` | the form's fields, armed buttons, the close guard | connect, disconnect, two-click buttons, close; drawing and events |
| Crypto primitives | `crypto/*.hpp` | hash and cipher state | MD5, SHA-1, HMAC, RSA, RC4 |
| Command-line tools | `tools/*.cpp` | none | bring-up helpers |

### How they interact

The UI thread owns the front end. It talks to three workers, each of which has a
thread of its own: `PowerControl` and `MediaControl` through a job queue and a
snapshot under a mutex, `ConsoleCore` through an outbox and a framebuffer under a
mutex plus atomic flags. The workers talk to the iLO by TLS (RIBCL documents and
web pages, one connection each) and by the console port (telnet with RC4). The iLO
itself calls back: after an insert it reads the image from the media server.

### What is hard

* Two threads per worker. `stop()` may be called at any point of the worker's
  work; the UI decides from snapshots that are older than the queue.
* Every exchange with the iLO may be refused, fail before the firmware saw it, fail
  after the firmware carried it out, or be cut short and pass for done.
* `Telnet::disconnect()` runs on two threads without a lock.
* The receive loop is the only place that sends console input.
* The front end copies only tiles that are marked dirty, and the resolution changes
  under it.
* The colour cache keeps ranks and slots consistent across an in-place prune.
* The video decoder is a table of 48 states fed bit by bit, and a reset marker may
  come in the middle of anything.
* Two RC4 key streams and, in TLS, two record sequences have to stay in step with a
  peer; nothing resynchronises them.
* Sending on the console port has no timeout, and the iLO need not read.
* Nothing marks the end of most RIBCL replies: silence does, and so does a failure.
* Three threads share the read map without a lock, and its clock wraps.
* Buttons, fields and a pending close outlive the session they were meant for.
* Handshake messages and records are cut independently of each other, and TCP cuts
  both again.

The hazards, each at its line, are listed in `PROJECT.json`.

## 2. Modules

| Module | Models | Composed with |
|---|---|---|
| `JobQueue` | abstract: jobs are taken in order, one at a time, and dropped only when the queue is closed | implemented by `PowerControl`, `MediaControl` |
| `PowerControl` | the power worker, the UI thread, the firmware, the host's power | `JobQueue` |
| `MediaControl` | the media worker, the Media tab's buttons, the server's lifetime, the firmware's drive | `JobQueue` |
| `ConsoleCore` | session lifecycle, outbox, receive loop, disconnect | |
| `ConsoleLink` | the bytes of a console session: `Telnet::feed`, the login preamble, both ciphers, rekeying | takes `RekeyAligned`, proved of `DvcDecoder`, as the decoder's promise |
| `DvcDecoder` | `process_dvc`, `process_bits` and the bit reader | takes the palette's size from `DvcCache` |
| `MediaServer` | `start`, `stop`, `mark_read`, `stats` of the HTTP server and the ages the UI draws from them | `MediaControl` has which image is served and for how long |
| `FrontEnd` | `main()`: connect, disconnect, two-click buttons, the close guard, the recent list and its file, over restarts | reads what `ConsoleCore`, `PowerControl` and `MediaControl` publish |
| `Framebuffer` | `on_set_dimensions`, `on_paste`, `pull` at pixel level | |
| `Palette` | abstract: a most-recently-used list of colours | implemented by `DvcCache` |
| `DvcCache` | the four cache operations on slots and usage ranks | `Palette` |
| `SecureStream` | abstract: after a successful connect, data in order until the stream is over | implemented by `TlsClient` |
| `TlsClient` | connect, send, recv, close: handshake, record layer, reassembly, alerts | `SecureStream` |
| `IloRequests` | `https_get`, `ribcl_run`, `acquire_console_session`: one request after the other | runs on a stream that keeps `SecureStream`'s promise; stands for the exchange that is a step of `PowerControl` and `MediaControl`, and for acquiring a session in `ConsoleCore` |
| `*Proofs` | theorems and proofs about the module they extend | `ConsoleProofs` is about `ConsoleLink` and `FrontEnd`, `ExchangeProofs` about `IloRequests` and `MediaServer` |
| `MC*` | the small instances | |

### State and actions

**PowerControl.** A critical section is one step. `thread` is the worker's place:
`top` (waiting), `flight` (inside `ribcl_run`, without the lock), `answered` (the
firmware has replied), `done`. `TakeQueued` and `TakePoll` are the wait's two ways
to end with work, `RideAlong` the health reads pushed ahead of the queue, `Outcome`
the snapshot update. A transport failure may come before or after the firmware acted,
and a reply may be cut short before the firmware acted and still pass for success
(`FwCut`; this is what `IloRequests` shows of `ribcl.hpp:409`).

**MediaControl.** `run()` of the source takes three steps here: `Send`, a firmware
step, and `...Done`. The UI has a `view`, the snapshot its current frame was drawn
from, so buttons are pressed on old information. The firmware's behaviour on a second
insert is not documented, so both outcomes are allowed. Three history variables serve the properties:
`unsure` (the last insert or eject was not confirmed, or was cut short and passed for
done), `blind` (a click found jobs pending, or a frame that did not show the drive as it
was), `broken` (a step of an arm was cut short and passed for done).

**ConsoleCore.** `worker` and `ui` are the places of the two threads. The four steps
of `disconnect()` are parameterised by the thread that runs them. Inputs are numbers
in the order they were queued. Receiving is: data or timeout (`RecvAgain`), end or
error (`RecvEnds`). A peer that is `stalled` stays up and no longer reads; `send_all()` then
waits (`blocked`) until that peer closes. A peer that only reads slowly lets the wait end
and is not told apart from one that reads.

**Framebuffer.** Pixels are indices into a flat buffer as in the source; tiles, runs
of dirty tiles and clipping are computed by the same integer arithmetic. `dest` and
`rects` are what the front end holds after the last `pull()`.

**DvcCache.** Slots carry a colour, a usage rank and a flag. `cache_prune` is a
recursive function over the slots, with the in-place moves of the source.

**DvcDecoder.** One turn of `process_bits`' loop is one step; an action stands for the
states whose `case` it translates, and `Go` for the end of the loop's body. The tables
are the source's. The bit buffer is its length: a field's value is chosen when it is
read, and whether a byte completes 31 zero bits when it is added. That allows more
than real bit streams do, never less. Of the palette only its size is kept, so a prune
may keep any number of colours, and of a tile the number of its pixels. The parameter bytes
of a firmware command (`cmd_p_buff` and its index `cmd_p_count`, `dvc_decoder.hpp:209`), which
only `set_framerate` uses, are left out; the source does not bound that index.

**ConsoleLink.** A cipher is a key number and a position. A byte on the wire carries
what it was enciphered with; deciphered with anything else it is garbage, and garbage
may read as any byte. `hooked`, chosen once, says whether the decoder's `on_change_key`
reaches the session. The iLO starts the video with `ESC [ R` or `ESC [ r` after any text and
rekeys after a byte with command 9, both what it sends and what it reads
(`ilo2_session.hpp:83`). `out` is how the client enciphered each byte it sent, `heard` how
the iLO deciphered each byte it has read, with its own `iloDecrypter`. That the iLO changes
that key as it sends command 9 is an assumption about the firmware. `crossed` is set when
bytes of the client's are under way at that moment, or are sent before the client has read
the command.

**MediaServer.** `map` holds wrapped stamps, `when` what each of them stands for. Every
load and every store of a bucket is one step, so the worker's clearing loop, the stamps
of two reads and the UI's copy interleave. `Newest` and `Age` are the two computations of
`sdl_main.cpp` (the strip and the close guard) over any range of buckets.

**FrontEnd.** One UI action is one step. Of the workers it has the server they were
started for and what the window reads: the console's state, whether its thread can be
joined, and whether media has a url. A step of `Save` may leave the file as it was or cut
it anywhere; a line cut in the middle reads as an entry (`Torn`), though never as one that is
also on another line, which would list it twice. `Exit` is a normal end as well as a kill. An armed button remembers the
server it was armed for (`for`, history), and `asked` is what the last step requested.

**TlsClient.** `pc` is what the client waits for. A handshake message is two pieces, a
record two cells; the server packs pieces into records in every way and TCP delivers
one cell or all of them. Keys are *shared* if both sides derived the same ones, and
cryptography is ideal: a record opens exactly under the right key, sequence number and
key stream position, and a Finished verifies exactly over the transcript it was made
from.

**IloRequests.** One call at a time, `job` being a RIBCL command or one of the two pages.
An answer is a sequence of pieces that tell apart what the code tells apart: documents
with and without an error, the texts that serve as markers, the values, the header's end,
the last chunk. `todo` is what the iLO is going to send; a `recv()` takes any number of
pieces. Time appears only where it matters: a *pause* is a silence of `PauseMs`, longer
than the receive timeout of most commands and shorter than that of virtual media writes,
which are the only ones the firmware pauses for. The connection may end at any point,
also between the prolog and the document, with some of what was sent still arriving.

## 3. Runs

Times are for two TLC workers.

| Run | Question | Instance |
|---|---|---|
| `power` | Are requests executed once and in order, whatever the polls do? Does `stop()` return? Is a wrong power display corrected? | one power and one UID command, 2 requests per session, any number of sessions |
| `media` | Does the worker know what is in the drive? Does stopping leave the drive empty? Is the mounted image the served one? Is an armed boot armed? Does `stop()` return? | 2 images, 2 clicks per session, losses, refusals and cut replies; 940 000 states, two minutes |
| `console` | Is input sent once and in order, is it flushed, does a stopped core hold nothing, does `stop()` of a session return? | 2 sessions, 3 inputs, outbox limit 1, a peer that may close or stop reading; 31 000 states |
| `console_stop_early` | *violation*: does `stop()` return when pressed while connecting? | 1 session |
| `requests` | Is what a call reports as done, read or acquired whole? Does `https_get` stop at the end of the response? Does every call return? | all 17 commands and both pages, every cut; 5000 states |
| `console_link` | Does the decoder get exactly the iLO's video, all of it? Does the iLO decipher what it is sent? | 5 bytes of text, 3 of video, 1 message, with and without the rekey hook; 570 000 states, one minute |
| `decoder` | Are tiles whole, bits never lost, rows on the screen? Does a latched decoder keep asking? | tiles of 4 pixels, 4 colours; 1.4 million states, two minutes |
| `framebuffer` | Does the front end see every change? Are the rectangles apart and on the screen? | tiles of 2x2 pixels, screens of 4x3, 2x6 and 2x1, 2 colours |
| `tls` | Do client and server agree once connected, does a handshake complete unless something outside the client is at fault, is the stream a `SecureStream`? | 6 flights, 2 of them legal; 2 records of data in, 1 out, 1 fault |
| `colour_cache` | Is the cache a most-recently-used list, also after a prune, and read by indices of the right width? | 5 colours, 4 slots |
| `media_server` | Are the ages right across the wrap of the clock? Is what was read marked, and nothing else? | 2 server threads, 2 buckets, 3 bytes, a clock of 8 ticks that wraps once; 1.1 million states, half a minute |
| `front_end` | Are all three workers about one server? Does a destructive request take two clicks for it? Is the recent list in order over restarts? Does a cancelled close stay cancelled? | 2 servers that are typed (symmetric) and one in the old list, a list of 2; 2 million states, one minute |

### Bounds

* Requests and clicks are bounded per session; the number of sessions is not bounded
  in `power` and `media`, because `start()` resets the count. Two jobs are enough for
  one to be queued while another runs, and for two clicks on one stale frame.
* The outbox limit is 1 (4096 in the source), so it is reached with three inputs.
* The heights of two framebuffer screens are not multiples of the tile size, so the last
  row of tiles is cut (widths always are multiples, as the decoder sets them), and two
  screens have the same area, so their vectors have the same length.
* The cache has 4 slots of 17, and one colour more than slots, so it overflows.
* The decoder's codes are 0, 1, 2 and the ones the states test for (6, 7, 9); tiles of 4
  pixels are reached, filled and overrun by them. The palette's 4 slots reach four of
  the six index widths, and not states 7 and 32; the proofs cover the rest. The refresh thresholds are 2, 3 and
  4, restarting at 1 (11681, 120000, 12000000 and 41 in the source). `MaxLastx` stops
  a row from being overrun further; the overrun itself is reached.
* Five bytes of text hold every false start of the three-byte sequence followed by the
  sequence; three bytes of video hold two rekeys and a byte after them.
* `requests`: no bound on the number of calls; `MaxRaw = 5` is the longest answer that is
  not a flood (1 MB and 8 MB in the source), `PauseMs = 3000` lies between the two
  timeouts.
* `media_server`: 3 bytes in 2 buckets make reads that start, end and lie across a bucket's
  edge that is not at a byte's. The clock runs from 6 to 10 and wraps at 8, so stamps and
  `now` lie on either side of the wrap and one of them is the 0 that becomes 1.
* `front_end`: two servers that are typed and a third that the old list may hold overflow a
  list of two (10 in the source). `ArmTimeout = 0`
  ticks: an arm is live until time passes. Two power commands and the boot button are
  enough for one panel to be re-armed for another command and for two panels to be armed.
  Launches, connections and edits are not bounded.
* TLS: one fault per connection, anywhere; two handshake pieces per message and two
  cells per record are the least that can be cut in the middle.

### Fairness

* `WF(Worker)`: threads are scheduled, condition-variable waits are timed, and receive
  calls have a timeout. Sending has none. On the console port that matters:
  `Telnet::send_all()` (`telnet.hpp:277`) may wait for ever for a peer that stays up and does
  not read, so `ConsoleCore` makes that wait a place of its own that fairness does not leave,
  and `InputFlushed` and `SessionStopReturns` leave it out (`Stuck`). A TLS connection, whose
  socket has only a receive timeout too (`tls/socket.hpp:158`), sends a handshake and one
  small request, a few kilobytes that fit a fresh connection's send buffer without the
  peer's help.
* `WF(Firmware)`: an exchange ends, by an answer or by that timeout (modelled as a
  lost answer).
* `WF(Turn \/ ChangeKey)` of the decoder: `process_bits` is sequential code.
* `WF(Client)` of `ConsoleLink` and `TlsClient`: what has arrived is read and handled.
* `WF(Client)` and `WF(Resume)` of `IloRequests`: receive calls return by their timeout,
  sends because of the buffer, as above, and a pause is over before the timeout chosen for it.
* `WF(PeerDoes)` of `TlsClient`: a server that owes a handshake message sends it; used by
  `HandshakeCompletes` only, which excuses what is outside the client (`Outside`: damage, a
  flight that is not legal, alerts that end it, a hang-up, a timeout, no randomness or usable
  key) and none of the client's own refusals.
* `WF(UiJoin)`, `WF(UiStop)`: once the thread has ended, `join()` returns.
* Nothing is assumed of the user, of the peer that sends video, or of the host.

`ShownPowerRecovers` speaks of the time after `Settle`, an external step after which
no exchange fails; it may never happen.

### What the violation shows, and what was met on the way

* `console_stop_early`: Disconnect pressed while `live_thread()` is connecting finds
  no session, and then joins a thread that enters the receive loop and stays there
  until the iLO closes.

Met while modelling and not given a run of their own. In the workers and the link:

* `do_eject()` forgets the url even if the eject was refused (`media_control.hpp:218`), so
  the worker's exit does not eject, although `media_control.hpp:10` says "stopping the
  worker ejects". `StopEjects` excuses it by `unsure`.
* The UI's `TrackingFramebuffer` does not override `on_change_key`, so firmware command 9
  changes no key and every later byte is deciphered with the old one;
  `ilo2_session.hpp:83` says "firmware cmd 9 rekeys BOTH directions". With
  `hooked = FALSE` `DecoderSeesVideo` and `OutboundUnbroken` hold only up to the first rekey
  (`InStep`): after it neither end deciphers what the other sends.
  `tools/capture_dvc.cpp` connects the hook.
* Input that is under way when the iLO sends command 9, or is sent before the client has read
  it, is enciphered with the old key. If the iLO changes the key it reads with as it sends the
  command, nothing ever brings the two ends together again; the code has no provision for it.
  `OutboundUnbroken` leaves it out (`crossed`).
* A console peer that stays up and stops reading holds the session thread in `::send`
  (`telnet.hpp:277`). `disconnect()` closes the descriptor, which does not wake it, and
  `stop()` waits in `join()` with the window frozen; `console_core.hpp:193` only speaks of
  `recv`.
* `stats()` takes the time before it loads the map. A read stamped in between gets an age
  of 2^32 - 1 ms: the strip is drawn dim and the close guard says "last read 71582 min ago"
  of an image being read. `AgeRight` excludes it (`Comparable`). So are stamps more than
  half the clock's range (25 days) apart, which the signed comparison takes the wrong way
  round.
* The boot stays shown as armed after the reboot that used it up; nothing reads it back.
* `snapshot()` copies the server's strings while the worker assigns them in
  `MediaServer::start()` (`media_control.hpp:103`): the mutex does not cover the server.
* Input queued while connecting or after a session ended, Ctrl-Alt-Del included, stays in
  the outbox and goes to the next host (`console_core.hpp:417`).

In the window:

* A session that failed or ended by itself leaves `worker_` joinable. The form is shown,
  but `start()` answers "already running" and there is no Disconnect button, so after a
  mistyped password the program has to be restarted; `sdl_main.cpp:527` says "Enter in any
  field connects". Power and media go on working for the old server.
* Forgetting the last entry saves an empty list, and the old list is read again at the
  next start, although `sdl_main.cpp:316` says "once". `RecentList` starts over there.
* Disconnect ejects in the middle of an install without the question a close asks. A close
  while an insert is under way is not asked about either: the url is published only after
  the reply.
* An arm of the boot button outlives an eject and a mount of another image, up to its
  timeout.

Elsewhere: a RIBCL connection that ends after the first stages
passes for a complete reply, since `ribcl_exchange` takes any failure after the first byte
for the end and `ok` only needs one `STATUS` (`ribcl.hpp:409`; excluded from `ReplyWhole`
by `cut`; `FwCut` of the workers' models is its effect there);
`HOST_POWER=` ends a status read even if its value is still in the next record, although
`ribcl.hpp:376` calls the answer "usable the moment HOST_POWER shows up"; the marker
`LICENSE_TYPE=` never matches, because the firmware writes a space before the sign
(`testdata/fw_version.xml`), so that read always ends by silence; a page with a
Content-Length that is cut short is accepted (`client.hpp:553`; excluded from
`AcquiredWhole`, and the iLO chunks every page); `stop()` and the worker may both
pass the test of `connected_` in `disconnect()` and close the same descriptor
(`telnet.hpp:128`); no decoder overrides `on_refresh_screen`, so the refresh a latched
decoder asks for is never sent; command 10 is said to drop the session
(`dvc_decoder.hpp:88`), but nothing reads `seized`; the decoder's state survives into the
next session; `eof_` is set by a bare TCP close as well, although `client.hpp:82` says it
"distinguishes a clean close_notify from a failure"; `y_clipped` counts from the wrong
end of a cut tile when more than 8 of its lines are visible (`dvc_decoder.hpp:272`, as in
HP's client); a second mount queued from a
stale frame replaces the image under the one in the drive (this is what `blind`
excludes from `MountedImageServed`); an arm queued behind an eject reports the boot
as armed with an empty drive; a transport failure of a second write loses the prompt
re-read the first one asked for (`power_control.hpp:129`); a successful poll clears
the error flag and leaves the error's text (`power_control.hpp:152`); `pull()` clears
the caller's dirty vector before it returns false (`console_core.hpp:243`).

## 4. Proofs

The proofs hold for every value of the constants that satisfies the modules' ASSUMEs
(commands of different kinds are different, images differ from `None` and `Foreign`,
bounds are natural numbers, tile and palette sizes and the limit on an answer are positive,
0 and 1 are codes, a pause of the firmware lasts between the two receive timeouts, an
image has at least as many bytes as the read map has buckets).

| Theorem | Statement | Argument |
|---|---|---|
| `PowerControlProofs!TypeCorrect` | `Spec => []TypeOK` | inductive as it stands |
| `PowerControlProofs!RequestsInOrder` | `Spec => []Fifo` | `Fifo` is stated so that it is inductive relative to `TypeOK`: it says exactly what the queue is, so every step either shortens it at the front, lengthens it at the back, or puts both reads in front of a queue that has none |
| `PowerControlProofs!WorkerIsJobQueue` | `Spec => Jobs!Init /\ [][Jobs!Next]_(Jobs!vars)` | from `TypeOK` and `Fifo`: a request adds a job, `TakeQueued` takes the first, everything else leaves the mapped queue alone |
| `MediaControlProofs!TypeCorrect` | `Spec => []TypeOK` | inductive, records by lemma |
| `MediaControlProofs!WorkerKnowsDrive` | `Spec => []Knows` | `Knows` is the inductive invariant: what is known of the drive at each place of the worker |
| `MediaControlProofs!StopLeavesNothing` | `Spec => []StopEjects` | follows from `Knows` at place `none`; it is not inductive itself, because it says nothing of the places in between |
| `MediaControlProofs!MountedStaysServed` | `Spec => []MountedImageServed` | with `Sighted` and `Serving`, below |
| `MediaControlProofs!ArmedIsBootable` | `Spec => []ArmedMeansMounted` | with `Sighted`, `Booting` and `ArmedDrive`, below |
| `MediaControlProofs!WorkerIsJobQueue` | `Spec => JobQueue!Init /\ [][JobQueue!Next]_(JobQueue!vars)` | step by step, as for power |
| `FramebufferProofs!TypeCorrect` | `Spec => []TypeOK` | the arithmetic of tiles: every rectangle lies on the screen and has positive size |
| `FramebufferProofs!FrontEndSeesEveryChange` | `Spec => []CleanTileShown` | inductive relative to `TypeOK`; a pull needs the lemma that the runs of dirty tiles cover every dirty tile (`RectsCover`), which uses a least-element argument |
| `FramebufferProofs!PullComplete` | `Spec => PullDelivers` | from `CleanTileShown` and `RectsCover` |
| `FramebufferProofs!RectanglesApart` | `Spec => []RectsApart` | two runs of a row that cannot be made longer are equal or apart (`RunsApart`), and a rectangle ends within the tiles of its run, cut or not (`RectBounds`) |
| `DvcDecoderProofs!TypeCorrect` | `Spec => []TypeOK` | from `IInv`, below |
| `DvcDecoderProofs!TilesWhole` | `Spec => []TileBoundary` | from `IInv` |
| `DvcDecoderProofs!NeverStuck` | `Spec => []LeftByCommand` | from `IInv` |
| `DvcDecoderProofs!BufferNeverFull` | `Spec => []LessThanAByte` | from `BitsLeft` |
| `DvcDecoderProofs!RowsOnScreen` | `Spec => []RowOnScreen` | from `RowKept` |
| `DvcDecoderProofs!RekeyOnByteBoundary` | `Spec => RekeyAligned` | from `BitsLeft` at state 46 |
| `ConsoleProofs!WorkersAgree` | `UiSpec => []OneServer` | from `Session`, which adds that power and media run only beside a console thread not yet joined, and that the fields name its server while the form is hidden |
| `ConsoleProofs!NoStrayRequest` | `UiSpec => []TwoClicks` | with `Armed`: a button is armed only while its worker runs and for that worker's server. A connection that starts needs `Session`: nothing ran before, so nothing is armed |
| `ConsoleProofs!CancelHolds` | `UiSpec => []StaysOpen` | with `Closing`: a cancelled close is neither requested nor asked about |
| `ConsoleCoreProofs!TypeCorrect` | `Spec => []TypeOK` | places, flags and boxes one after the other |
| `ConsoleCoreProofs!StopLeavesNothing` | `Spec => []StopCleansUp` | from `Teardown`, below |
| `ConsoleCoreProofs!InputNeitherLostNorReordered` | `Spec => []InputInOrder` | inductive with the fact that `pump()` swaps only into empty hands |
| `ConsoleProofs!LinkTypes` | the flags, ciphers and streams keep their types | `Streams` needs `Announced`: the preamble is due only before the login |
| `ConsoleProofs!OutboundDecipherable` | `Spec => []OutboundUnbroken` | with `Paired`, `LateKeys`, `RekeyShown`, `Lengths` and `Outgoing`, over `Flow` and `Video`, below |
| `ConsoleProofs!DecoderGetsVideo` | `Spec => []DecoderSeesVideo` | from `Flow` and `Video`, below |
| `ExchangeProofs!ReplyTakenWhole` | `Spec => []ReplyWhole` | with `Stage` and `ReplyFlow`, below |
| `ExchangeProofs!AcquiredWithEverything` | `Spec => []AcquiredWhole` | with `Stage` and `PageFlow` |
| `ExchangeProofs!PagesNeverStall` | `Spec => []NeverStalls` | with `Stage` and `PageFlow` |
| `TlsClientProofs!HandshakeAgreement` | `Spec => []Agreement` | from `Shapes` and `Handshake`, below |
| `TlsClientProofs!ClientIsSecureStream` | `Spec => StreamSpec`, the abstract specification | from `Shapes`, `Handshake` and `Delivery`, step by step |
| `TlsClientProofs!NoFalseAlarms` | `Spec => []NoFalseAlarm` | with all of these, `InStep` and `Account`, below |
| `ExchangeProofs!MapTellsWhatWasRead` | `ServerSpec => []MarkedIsRead` | with `ServerTypes`, `Loops`, `Cleared` and `Marks`, below |

**DvcDecoder.** The invariant is `TypeOK /\ TileBoundary /\ LeftByCommand /\ BitsLeft /\
RowKept`. None of the last four is inductive alone. A full tile at START would send
state 1 to itself, so `LeftByCommand` needs `TileBoundary`. An early return is the only
way to leave bits behind, so `LessThanAByte` needs to know that error 6 never happens and
that command 1 ends with at most 7 bits, which `BitsLeft` follows back through states 46
and 24. `RowKept` says where the row may be off the screen: between the two halves of a
size change, and in the reset marker that may interrupt them. What the tables say is
stated once, in lemmas over all states (`NoLoops`, `TileNexts`, `CommandNexts`); TLC has
checked the whole invariant on the instance of run `decoder`.

**MediaControl.** `MountedImageServed` and `ArmedMeansMounted` say nothing of the time
between a click and the firmware's acting on it, so neither is inductive. `Sighted` fills
that in: while no click was blind at most one job waits, and what its button showed of the
drive stays true until the job is done. `Serving` ties the server to the mount under way,
`Booting` follows the two boot settings, `ArmedDrive` allows the moment in which an eject has
emptied the drive and the snapshot still says armed.

**ConsoleCore.** `stop()` and the receive thread may both be inside `disconnect()`, each
between two of its steps. `Teardown` says what one of them still owes: an open descriptor
has `connected_` set or someone about to close it, a closed one that is not yet forgotten has
someone about to forget it, `connected_` has a worker that has not been through
`disconnect()`, and the session object has a worker that published it. `StopCleansUp` is
what is left when neither thread is anywhere.

**ConsoleLink.** For what the decoder gets, everything between the iLO and the decoder has to
be accounted for. `Flow` is about the text: what is on the wire is the end of what the iLO
said, the sequence that starts the video is at its very end, and `feed()` has matched as much
of it as the text fed so far ends with (a false start such as `ESC ESC [ R` is why this needs
a proof). `Video` is about the bytes after it: they lead, tag by tag, from where the
decrypter stands to where the iLO's cipher stands.

For what the iLO reads, `Outgoing` says which bytes are under way: while a command 9 is on the
wire none are, and the iLO's decrypter is at the start of its new key; otherwise they are, byte
by byte, what the iLO expects next, and the encrypter stands where the last of them leaves it
(`Awaited`). The step that needs an argument is the client reading a command 9. That its new
key is then the iLO's comes from the other direction: keys change in pairs (`Paired`), and
video with no command 9 behind it is under the iLO's present key (`LateKeys`), which `Video`
has the decrypter follow.

**IloRequests.** What was received and what is still coming always make up an answer the iLO
may have given: `PageFlow` for a page (the start of one if the connection ended early, and
never complete yet, or the loop would have ended) and `ReplyFlow` for a RIBCL reply, by
place. `Stage` is what the earlier steps of a request leave alone. A read up to the marker has
the value or ends at it; a read to the end of the reply, which only silence marks, is whole
because the one command the firmware pauses for has the longer timeout (`PauseOver`).

**TlsClient.** A damaged handshake message is read by one side only, and neither side knows.
`Handshake` says where in each transcript such a message can be: in the client's only up to
ServerHelloDone, in the server's only the ClientHello or what comes after its own
ServerHelloDone (`ClientPart`, `PeerPart`). With the ClientHello, which the client absorbs
as it wrote it, two transcripts that are equal hold no changed message at all, and the keys
derived from them are shared. `Order` is what may be on the way to the server at each of its stages, which
ties the server's ChangeCipherSpec and Finished to what it had read (`Closed`, `Bound`); a
Finished that verifies then makes the transcripts equal, whatever the server itself checks.
`Delivery` follows the application data: as long as the client reads, the data in `rx_` and
on the wire are exactly what the server wrote and `recv()` has not returned, each once and in
order.

`NoFalseAlarm` is about a stream nobody damaged, and says nothing of what is under way, so
it is far from inductive. `Pristine` says that nothing anywhere is changed and that all
ciphers that are on have the shared key. `ReadInStep` and `WriteInStep` are chains, one per
direction: the first record under way is the one the reader expects (key, sequence number
and key-stream position), each record leaves the reader where the next one fits, and the last
leaves it where the writer stands. So no MAC and no header is ever refused. For the Finished
messages `Account` compares the two transcripts: both tell the ClientHello, the same flight
and the client's part of the handshake, the client up to the n-th message of the flight, the
server up to the k-th of the client's; the remaining pieces of the flight are, in order, in
`hs_`, in the records under way (cut anywhere: `Flow` gives each record its offset) and in the
server's hands; the remaining messages of the client are on the wire. When the client has taken
ChangeCipherSpec nothing remains, so the Finished it reads next was built over its transcript
(`FinTells`).

**MediaServer.** The stores into the map are loops of single relaxed stores on several
threads, so the property, which is about moments when no loop runs, says nothing of the steps
it depends on. `Marks` fills them in: a bucket is marked only for a byte that was read, and a
bucket with a byte that was read is marked or lies ahead of the loop of a reader. `Cleared`
is the same of `start()`: while it runs there is no reader's loop, and a bucket still marked
lies ahead of its loop. The
first and the last bucket of a read are integer quotients; that the buckets between them are
exactly those with a byte of the read needs a bucket to be at least one byte wide, the
assumption `Size >= Buckets` (in the source, an image of at least as many bytes as the map
has entries).

Two proof modules hold the theorems of two components each, `ConsoleProofs` and
`ExchangeProofs`. The components keep their own variables and specifications (`UiSpec` and
`ServerSpec` are those of `FrontEnd` and `MediaServer`); nothing in a proof relates them.

The invariants above were invariants of TLC runs on the same instances before they were
proved.

Only model-checked:

* every liveness property, `JobQueueSpec`'s fairness among them: the prover does not do
  fairness;
* `PaletteSpec` and what the recursive `cache_prune` computes, `RecentList` (`SelectSeq`) and
  `AgeRight` (the fold over a range of buckets): these need induction over data.

## 5. Not modelled, and plan

Open: `DvcDecoder` composed with `DvcCache` and `Framebuffer`. Every invariant and step
property a run checks is proved, except those listed at the end of section 4.

Not planned:

* The cryptographic primitives and the DER parser: arithmetic and parsing of long byte
  strings, covered by test vectors.
* The health report parser and the input encoding: stateless.
* The rest of the window: drawing, the file picker, the forwarding of keys and mouse moves
  (a button released off the image is not released at the server), the screenshot and
  frame-count options, which quit without the guard.
* The host's own reboots, and other clients of the same iLO beyond an image they left in
  the drive.
* The command-line tools: thin sequential drivers of the same library.
