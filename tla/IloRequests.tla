---------------------------- MODULE IloRequests ----------------------------
(***************************************************************************)
(* The two kinds of request the program makes of an iLO over TLS, one      *)
(* connection each: a RIBCL command (ilo/ribcl.hpp) and a web page         *)
(* (https_get in tls/client.hpp), the latter twice in a row to acquire a   *)
(* console session (ilo/ilo_session.hpp).  The connection is a             *)
(* SecureStream: pieces arrive in order, cut anywhere, until it ends.      *)
(*                                                                         *)
(* The question is when an answer is over.  A page says so itself; a RIBCL *)
(* reply mostly does not, and silence ends it.                             *)
(*                                                                         *)
(* Pieces of a RIBCL reply: "ok" and "err" are the documents that answer   *)
(* a stage, "done" is the ok document of a write that was carried out,     *)
(* "marker" the text ribcl_reply_complete looks for, "value" what the      *)
(* command asked for, "pause" no data but a silence of PauseMs.  Pieces of *)
(* a page: the "line" with the status, the "head" with the remaining       *)
(* headers, what the scrapers look for, "text", and the "last" chunk.      *)
(***************************************************************************)
EXTENDS Naturals, Sequences

CONSTANTS
  PauseMs,   \* how long the firmware is silent while it opens an image's URL
  MaxRaw     \* pieces of an answer beyond which it is too large

ASSUME PauseAssumption == PauseMs \in 1001 .. 4999
ASSUME MaxRawAssumption == MaxRaw \in Nat \ {0}

VARIABLES
  pc,       \* where the calling thread is
  job,      \* the command, or "login" or "frame" for a page
  raw,      \* raw: what has been received
  cookie,   \* whether the login cookie has been assembled
  params,   \* ConsoleParams::info, by name
  outcome,  \* what the last call returned
  ended,    \* history: how its last receive loop ended
  link,     \* external: "up", "eof" (closed by the iLO) or "broken"
  todo,     \* external: what the iLO is still going to send
  promise,  \* external: what the page's headers say of status and length
  cut       \* history: the connection ended before the whole answer came

vars == <<pc, job, raw, cookie, params, outcome, ended, link, todo, promise, cut>>
iLO  == <<link, todo, promise, cut>>

(***************************************************************************)
(* The commands.                                                           *)
(***************************************************************************)
AttrReads == {"GetPowerStatus", "GetVmStatus"}
TagReads  == {"GetEmbeddedHealth", "GetPowerReadings", "GetOneTimeBoot"}
Reads     == AttrReads \cup TagReads \cup {"GetFwVersion"}
RibInfo   == {"GetVmStatus", "GetFwVersion", "InsertVirtualMedia",
              "EjectVirtualMedia", "SetVmBootOption"}
Commands  == Reads \cup RibInfo \cup
             {"PowerOn", "PowerOff", "ForcePowerOff", "Reset", "ColdBoot",
              "UidOn", "UidOff", "SetOneTimeBoot"}

IsWrite(c) == c \notin Reads
Wrapper(c) == IF c \in RibInfo THEN "RIB_INFO" ELSE "SERVER_INFO"
IsMedia(c) == Wrapper(c) = "RIB_INFO" /\ IsWrite(c)

(* ribcl_run's receive timeout, in milliseconds. *)
TimeoutMsShort(c) == 1000
TimeoutMs(c) == IF IsMedia(c) THEN 5000 ELSE 1000

(* The element that answers a read.  Two are one element whose last        *)
(* attribute is the marker, so the value comes after it; three have a      *)
(* closing tag; GET_FW_VERSION writes LICENSE_TYPE = with a space, which   *)
(* the marker does not match.                                              *)
Element(c) ==
  CASE c \in AttrReads -> <<"marker", "value">>
    [] c \in TagReads  -> <<"value", "marker">>
    [] OTHER           -> <<"value">>

(* What the firmware may answer: the stages before the command, a refusal  *)
(* of the login or of the command, or its result; a virtual media write    *)
(* may be preceded by a pause.  It is never the firmware's habit to talk   *)
(* without end, but ribcl_exchange provides for it.                        *)
Stages(c)   == {<<"ok">>} \cup (IF IsMedia(c) THEN {<<"ok", "pause">>} ELSE {})
Result(c)   == IF IsWrite(c) THEN <<"done">> ELSE Element(c) \o <<"ok">>
Flood       == [i \in 1 .. MaxRaw + 1 |-> "ok"]
Replies(c)  == {s \o r : s \in Stages(c), r \in {Result(c), <<"err">>}} \cup {Flood}

(***************************************************************************)
(* The pages.                                                              *)
(***************************************************************************)
Pages == {"login", "frame"}
Infos == {"info0", "infod"}

(* With every session slot in use login.htm has a key of NONEAVAILABLE;    *)
(* when the login was rejected drc2fram.htm looks normal but has no info0; *)
(* and some page may be larger than https_get allows.                      *)
Bodies(p) ==
  {<<"text">>, [i \in 1 .. MaxRaw |-> "text"]} \cup
  (IF p = "login" THEN {<<"key", "index">>, <<"none", "index">>}
                  ELSE {<<"info0", "infod">>})

(* "chunked", "length" or neither; a body may go on after its length.      *)
Promises(b) ==
  [status : {200, 503}, framing : {"chunked", "length", "none"}, length : {Len(b)}]
Ends(f) ==
  CASE f = "chunked" -> {<<"last">>}
    [] f = "length"  -> {<<>>, <<"text">>}
    [] OTHER         -> {<<>>}

NoPromise == [status |-> 0, framing |-> "none", length |-> 0]

(***************************************************************************)
(* What has been received.                                                 *)
(***************************************************************************)
Holds(s, x) == \E i \in 1 .. Len(s) : s[i] = x

(* The pieces after the header's end: the head is always the second.       *)
AfterHead(r) == SubSeq(r, 3, Len(r))
HasHead(r)   == Holds(r, "head")

(* dechunk() succeeds only at the terminating chunk. *)
DechunkToEnd(b) == Len(b) > 0
Dechunk(b) == Holds(b, "last")

(* The completeness test at the top of https_get's loop. *)
HttpCompleteBeyond(r) ==
  /\ HasHead(r)
  /\ \/ promise.framing = "chunked" /\ Dechunk(AfterHead(r))
     \/ promise.framing = "length" /\ Len(AfterHead(r)) > promise.length
HttpComplete(r) ==
  /\ HasHead(r)
  /\ \/ promise.framing = "chunked" /\ Dechunk(AfterHead(r))
     \/ promise.framing = "length" /\ Len(AfterHead(r)) >= promise.length

(* After the loop: an empty response and a chunked body that does not end  *)
(* are failures; a body longer than its length is cut to it.               *)
HttpAccepted(r) ==
  /\ r # <<>>
  /\ HasHead(r) /\ promise.framing = "chunked" => Dechunk(AfterHead(r))
HttpBody(r) ==
  LET b == AfterHead(r) IN
  IF promise.framing = "length" /\ Len(b) > promise.length
  THEN SubSeq(b, 1, promise.length)
  ELSE b

(* scrape_info_params on the body. *)
Scraped(r) == {i \in Infos : Holds(HttpBody(r), i)}

(* ribcl_reply_complete, and ribcl_parse's ok. *)
ReplyComplete(r) == Holds(r, "marker")
ReplyOk(r) == (Holds(r, "ok") \/ Holds(r, "done")) /\ ~Holds(r, "err")

(* parse_vm_status, parse_fw_version and host_power find the value. *)
ValueParsed(r) == Holds(r, "value")

-----------------------------------------------------------------------------
Init ==
  /\ pc = "idle" /\ job = "login" /\ raw = <<>> /\ cookie = FALSE
  /\ params = {} /\ outcome = "none" /\ ended = "none"
  /\ link = "up" /\ todo = <<>> /\ promise = NoPromise /\ cut = FALSE

(* Every request has a connection of its own. *)
Opening(j) ==
  /\ pc' = "connect" /\ job' = j /\ raw' = <<>> /\ ended' = "none"
  /\ link' = "up" /\ todo' = <<>> /\ promise' = NoPromise /\ cut' = FALSE

(* The call returns, its connection closed. *)
Returns(o) ==
  /\ pc' = "idle" /\ outcome' = o
  /\ todo' = <<>> /\ UNCHANGED <<job, link, promise, cut>>

(* ribcl_run or acquire_console_session is called. *)
Call(j) ==
  /\ pc = "idle" /\ Opening(j)
  /\ cookie' = FALSE /\ params' = {} /\ outcome' = "none"

Connected ==
  /\ pc = "connect"
  /\ pc' = IF job \in Pages THEN "request" ELSE "prolog"
  /\ UNCHANGED <<job, raw, cookie, params, outcome, ended, iLO>>

ConnectFails ==
  /\ pc = "connect" /\ Returns("failed")
  /\ UNCHANGED <<raw, cookie, params, ended>>

(* The prolog goes out by itself, 300 ms before the document, and is       *)
(* answered by itself.                                                     *)
SendProlog ==
  /\ pc = "prolog" /\ pc' = "request"
  /\ todo' = IF link = "up" THEN <<"ok">> ELSE todo
  /\ UNCHANGED <<job, raw, cookie, params, outcome, ended, link, promise, cut>>

(* The document or the GET request goes out; the iLO decides on an answer. *)
SendDocument ==
  /\ pc = "request" /\ link = "up" /\ job \notin Pages
  /\ pc' = "receive"
  /\ \E r \in Replies(job) : todo' = todo \o r
  /\ UNCHANGED <<job, raw, cookie, params, outcome, ended, link, promise, cut>>

SendGet ==
  /\ pc = "request" /\ link = "up" /\ job \in Pages
  /\ pc' = "receive"
  /\ \E b \in Bodies(job) : \E p \in Promises(b) : \E e \in Ends(p.framing) :
       promise' = p /\ todo' = <<"line", "head">> \o b \o e
  /\ UNCHANGED <<job, raw, cookie, params, outcome, ended, link, cut>>

(* A send on a connection that has ended fails, or goes unheard. *)
SendUnheard ==
  /\ pc = "request" /\ link # "up" /\ pc' = "receive"
  /\ UNCHANGED <<job, raw, cookie, params, outcome, ended, iLO>>

SendFails ==
  /\ pc \in {"prolog", "request"} /\ link # "up" /\ Returns("failed")
  /\ UNCHANGED <<raw, cookie, params, ended>>

-----------------------------------------------------------------------------
(* A recv() that returns data: the first n pieces of what is coming. *)
Arrives(n) ==
  /\ pc = "receive" /\ ~Holds(SubSeq(todo, 1, n), "pause")
Got(n) == raw \o SubSeq(todo, 1, n)

(* The receive loop goes round. *)
KeepReading(n) ==
  /\ raw' = Got(n) /\ todo' = SubSeq(todo, n + 1, Len(todo))
  /\ UNCHANGED <<pc, job, cookie, params, outcome, ended, link, promise, cut>>

TooLarge(n) ==
  /\ Len(Got(n)) > MaxRaw /\ Returns("failed")
  /\ raw' = Got(n) /\ ended' = "large" /\ UNCHANGED <<cookie, params>>

(* A recv() that fails: closed by the iLO, or an error.  A silence longer  *)
(* than the receive timeout is an error too; https_get keeps the 15 s of   *)
(* connect(), and no page has a pause.                                     *)
Paused == todo # <<>> /\ Head(todo) = "pause"
Closed == pc = "receive" /\ link = "eof" /\ todo = <<>>
Errs   ==
  /\ pc = "receive" /\ link # "eof"
  /\ \/ todo = <<>>
     \/ Paused /\ TimeoutMs(job) < PauseMs

-----------------------------------------------------------------------------
(* ribcl_run after the loop: an empty reply is a failure. *)
RibclReturn(r, how) ==
  /\ Returns(IF r = <<>> THEN "failed" ELSE IF ReplyOk(r) THEN "ok" ELSE "refused")
  /\ raw' = r /\ ended' = how /\ UNCHANGED <<cookie, params>>

(* ribcl_exchange's loop. *)
RibclRecv(n) ==
  /\ job \notin Pages /\ Arrives(n)
  /\ \/ ReplyComplete(Got(n)) /\ RibclReturn(Got(n), "complete")
     \/ ~ReplyComplete(Got(n)) /\ TooLarge(n)
     \/ ~ReplyComplete(Got(n)) /\ Len(Got(n)) <= MaxRaw /\ KeepReading(n)

RibclClosed ==
  /\ job \notin Pages /\ Closed /\ RibclReturn(raw, "eof")

(* Once something has been received an error is the end of the reply. *)
RibclErrsRetried ==
  /\ job \notin Pages /\ Errs
  /\ \/ raw = <<>> /\ RibclReturn(raw, "error")
     \/ raw # <<>> /\ UNCHANGED vars
RibclErrs ==
  /\ job \notin Pages /\ Errs /\ RibclReturn(raw, "error")

-----------------------------------------------------------------------------
(* ilo_login with the response; with a cookie acquire_console_session goes *)
(* on to fetch_console_params.                                             *)
LoginUsable(r) ==
  /\ HttpAccepted(r) /\ promise.status = 200
  /\ Holds(HttpBody(r), "key") /\ Holds(HttpBody(r), "index")

LoginDone(r, how) ==
  /\ job = "login"
  /\ \/ /\ LoginUsable(r)
        /\ Opening("frame") /\ cookie' = TRUE
        /\ UNCHANGED <<params, outcome>>
     \/ /\ ~LoginUsable(r) /\ Returns("failed")
        /\ raw' = r /\ ended' = how /\ UNCHANGED <<cookie, params>>

(* fetch_console_params with the response. *)
FrameDone(r, how) ==
  /\ job = "frame" /\ raw' = r /\ ended' = how /\ UNCHANGED cookie
  /\ \/ /\ HttpAccepted(r) /\ promise.status = 200
        /\ params' = Scraped(r)
        /\ Returns(IF "info0" \in Scraped(r) THEN "acquired" ELSE "failed")
     \/ /\ ~(HttpAccepted(r) /\ promise.status = 200)
        /\ Returns("failed") /\ UNCHANGED params

PageDone(r, how) == LoginDone(r, how) \/ FrameDone(r, how)

(* https_get's loop. *)
PageRecv(n) ==
  /\ job \in Pages /\ Arrives(n)
  /\ \/ TooLarge(n)
     \/ Len(Got(n)) <= MaxRaw /\ HttpComplete(Got(n)) /\ PageDone(Got(n), "complete")
     \/ Len(Got(n)) <= MaxRaw /\ ~HttpComplete(Got(n)) /\ KeepReading(n)

PageClosed == job \in Pages /\ Closed /\ PageDone(raw, "eof")

PageErrs ==
  /\ job \in Pages /\ Errs /\ Returns("failed")
  /\ ended' = "error" /\ UNCHANGED <<raw, cookie, params>>

-----------------------------------------------------------------------------
(* The iLO, external. The pause is over before the receive timeout is.     *)
Resume ==
  /\ pc = "receive" /\ link = "up" /\ Paused
  /\ TimeoutMs(job) >= PauseMs
  /\ todo' = Tail(todo)
  /\ UNCHANGED <<pc, job, raw, cookie, params, outcome, ended, link, promise, cut>>

(* It closes, or the connection breaks or falls silent for good, before or *)
(* after its last byte; some of what is on its way may still arrive.       *)
LinkEnds ==
  /\ pc \in {"prolog", "request", "receive"} /\ link = "up"
  /\ link' \in {"eof", "broken"}
  /\ \E k \in 0 .. Len(todo) :
       /\ ~Holds(SubSeq(todo, 1, k), "pause")
       /\ todo' = SubSeq(todo, 1, k)
       /\ cut' = (k < Len(todo) \/ pc # "receive")
  /\ UNCHANGED <<pc, job, raw, cookie, params, outcome, ended, promise>>

Receive ==
  \/ \E n \in 1 .. Len(todo) : RibclRecv(n) \/ PageRecv(n)
  \/ RibclClosed \/ RibclErrs \/ PageClosed \/ PageErrs

Client ==
  \/ Connected \/ ConnectFails \/ SendProlog \/ SendDocument \/ SendGet
  \/ SendUnheard \/ SendFails \/ Receive

Next ==
  \/ \E j \in Commands \cup {"login"} : Call(j)
  \/ Client \/ Resume \/ LinkEnds

Spec == Init /\ [][Next]_vars

(* Every system call of the client returns, receive by its timeout; the    *)
(* firmware's pause is shorter than the timeout chosen for it.             *)
FairSpec == Spec /\ WF_vars(Client) /\ WF_vars(Resume)

-----------------------------------------------------------------------------
(* A RIBCL command reported as done was done, and a value reported as read *)
(* is all there, although in most replies nothing but silence says that    *)
(* they are over (ribcl_exchange, ribcl_run).  Two exceptions, both the    *)
(* code's: a connection that ends before the whole reply has come, and a   *)
(* read cut right after the attribute's name that serves as its marker.    *)
ReplyWhole ==
  outcome = "ok" /\ ~cut =>
    IF IsWrite(job) THEN Holds(raw, "done")
                    ELSE ValueParsed(raw) \/ raw[Len(raw)] = "marker"

(* A console session is acquired with all the parameters on the page, or   *)
(* not at all, wherever the connection ends; a page that is not chunked    *)
(* may be cut short (https_get, fetch_console_params).                     *)
AcquiredWhole ==
  outcome = "acquired" /\ (cut => promise.framing = "chunked") =>
    cookie /\ params = Infos

(* The iLO announces that it closes and does not: https_get never waits    *)
(* for more than the response says there is.  A timeout on a working       *)
(* connection is only possible when the response does not give its length. *)
NeverStalls ==
  ended = "error" /\ job \in Pages /\ link = "up" => promise.framing = "none"

(* Every request returns to its caller, whatever the iLO sends or leaves   *)
(* out (ribcl_run, acquire_console_session).                               *)
RequestReturns == pc # "idle" ~> pc = "idle"
=============================================================================
