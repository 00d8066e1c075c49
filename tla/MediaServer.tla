----------------------------- MODULE MediaServer -----------------------------
(***************************************************************************)
(* ilo/media_server.hpp: the HTTP server the iLO reads an image from, and  *)
(* its read map, with the two places of ui/sdl_main.cpp that turn the map  *)
(* into ages (the strip of the Media tab and the close guard).             *)
(*                                                                         *)
(* Three threads meet in the map without a lock: the media worker calls    *)
(* start() and stop(), server threads stamp the buckets of every read,     *)
(* and the UI thread copies the map in stats().  A stamp is a wrapping     *)
(* 32-bit clock; `time' is the clock without the wrap, and `when' and      *)
(* `taken' are what the wrapped values stand for.                          *)
(***************************************************************************)
EXTENDS Integers, Sequences, SequencesExt

CONSTANTS
  Readers,   \* threads of the server's pool
  Worker,    \* the media worker, which clears the map
  Buckets,   \* kMapBuckets (512)
  Size,      \* size_, bytes of the image
  Chunk,     \* the most one call of the content provider reads (65536)
  Wrap,      \* the clock's range (2^32)
  FirstTime, \* the clock when the server is made
  LastTime   \* bound: the clock's end

ASSUME ServerAssumption ==
  /\ Worker \notin Readers
  /\ Buckets \in Nat \ {0} /\ Size \in Nat /\ Size >= Buckets
  /\ Chunk \in Nat \ {0} /\ Wrap \in Nat /\ Wrap >= 4
  /\ FirstTime \in Nat \ {0} /\ LastTime \in Nat

VARIABLES
  time,     \* the steady clock in milliseconds
  serving,  \* "off", "starting" (inside start()) or "on" (svr_ listens)
  store,    \* per thread, the loop under way that stores into map_, or Idle
  map,      \* map_: one stamp per bucket, 0 for never
  when,     \* history: the time each stamp stands for
  read,     \* history: the bytes read since start()
  stats     \* the Stats being copied or, once `next' is past the end, in use

serverVars == <<time, serving, store, map, when, read, stats>>

\* now_ms(): never 0, which is the mark of a bucket not read.
NowMs(t) == IF t % Wrap = 0 THEN 1 ELSE t % Wrap

Idle     == [next |-> 1, last |-> 0, stamp |-> 0, when |-> 0]
Threads  == Readers \cup {Worker}
Quiet    == \A t \in Threads : store[t] = Idle
AllNever == [b \in 1 .. Buckets |-> 0]
NoStats  == [next |-> Buckets + 1, now |-> 1, taken |-> FirstTime,
             map |-> AllNever, when |-> AllNever]

ServerInit ==
  /\ time = FirstTime /\ serving = "off" /\ store = [t \in Threads |-> Idle]
  /\ map = AllNever /\ when = AllNever /\ read = {} /\ stats = NoStats

-----------------------------------------------------------------------------
(***************************************************************************)
(* The worker's calls.                                                     *)
(***************************************************************************)

\* stop(): the listening thread is joined, and with it the handlers.
Stop ==
  /\ serving = "on" /\ Quiet /\ serving' = "off"
  /\ UNCHANGED <<time, store, map, when, read, stats>>

\* start(): stop(), then the file is there and the map is cleared, bucket by bucket.
Start ==
  /\ serving # "starting" /\ Quiet
  /\ serving' = "starting" /\ read' = {}
  /\ store' = [store EXCEPT ![Worker].last = Buckets]
  /\ UNCHANGED <<time, map, when, stats>>

\* The rest of start(): the port is free or not.
Bind ==
  /\ serving = "starting" /\ Quiet
  /\ serving' \in {"on", "off"}
  /\ UNCHANGED <<time, store, map, when, read, stats>>

-----------------------------------------------------------------------------
(***************************************************************************)
(* The server's threads.                                                   *)
(***************************************************************************)

Bucket(x) == (x * Buckets) \div Size

\* Mutant: the end of the read taken for its last byte.
BucketsOfPast(offset, n) == [first |-> Bucket(offset), last |-> Bucket(offset + n)]

\* mark_read(): the buckets of the n bytes from offset on.
BucketsOf(offset, n) == [first |-> Bucket(offset), last |-> Bucket(offset + n - 1)]

\* The content provider has read n bytes; mark_read() takes the time.
Read(r, offset, n) ==
  /\ serving = "on" /\ store[r] = Idle
  /\ read' = read \cup (offset .. (offset + n - 1))
  /\ LET b == BucketsOf(offset, n) IN
       store' = [store EXCEPT ![r] =
                   [next |-> b.first + 1, stamp |-> NowMs(time), when |-> time,
                    last |-> IF b.last > Buckets - 1 THEN Buckets ELSE b.last + 1]]
  /\ UNCHANGED <<time, serving, map, when, stats>>

\* One store of either loop; the last one ends it.
Store(t) ==
  LET loop == store[t] IN
  /\ loop.next <= loop.last
  /\ map' = [map EXCEPT ![loop.next] = loop.stamp]
  /\ when' = [when EXCEPT ![loop.next] = loop.when]
  /\ store' = [store EXCEPT ![t] =
                 IF loop.next = loop.last THEN Idle ELSE [loop EXCEPT !.next = @ + 1]]
  /\ UNCHANGED <<time, serving, read, stats>>

-----------------------------------------------------------------------------
(***************************************************************************)
(* The UI thread: stats() takes the time, then loads the buckets in order. *)
(***************************************************************************)

StatsNow ==
  /\ stats.next > Buckets
  /\ stats' = [next |-> 1, now |-> NowMs(time), taken |-> time,
               map |-> AllNever, when |-> AllNever]
  /\ UNCHANGED <<time, serving, store, map, when, read>>

StatsLoad ==
  /\ stats.next <= Buckets
  /\ stats' = [stats EXCEPT !.next = @ + 1, !.map[stats.next] = map[stats.next],
                            !.when[stats.next] = when[stats.next]]
  /\ UNCHANGED <<time, serving, store, map, when, read>>

\* Mutant: stamps compared as numbers.
LaterUnsigned(t, n) == t > n

\* int32_t(t - n) > 0
Later(t, n) == (t - n) % Wrap \in 1 .. (Wrap \div 2 - 1)

\* The newest stamp among the buckets lo .. hi, or 0.
Newest(m, lo, hi) ==
  FoldLeft(LAMBDA n, t : IF t # 0 /\ (n = 0 \/ Later(t, n)) THEN t ELSE n,
           0, SubSeq(m, lo, hi))

\* What a column of the strip (some of the buckets) and ms_since_last_read (all
\* of them) take for the time since the last read; -1 if there was none.
Age(s, lo, hi) ==
  LET n == Newest(s.map, lo, hi) IN IF n = 0 THEN -1 ELSE (s.now - n) % Wrap

-----------------------------------------------------------------------------
Tick ==
  /\ time < LastTime /\ time' = time + 1
  /\ UNCHANGED <<serving, store, map, when, read, stats>>

Calls  == Stop \/ Start \/ Bind
Server == (\E t \in Threads : Store(t))
            \/ (\E r \in Readers : \E o \in 0 .. (Size - 1) : \E n \in 1 .. Chunk :
                  o + n <= Size /\ Read(r, o, n))
Ui     == StatsNow \/ StatsLoad

ServerNext == Calls \/ Server \/ Ui \/ Tick
ServerSpec == ServerInit /\ [][ServerNext]_serverVars

-----------------------------------------------------------------------------
(***************************************************************************)
(* Properties.                                                             *)
(***************************************************************************)

\* The shape of the server's state.
TypeOK ==
  /\ time \in Nat /\ serving \in {"off", "starting", "on"}
  /\ \A t \in Threads :
       /\ store[t].next \in 1 .. Buckets /\ store[t].last \in 0 .. Buckets
       /\ store[t].stamp \in 0 .. (Wrap - 1) /\ store[t].when \in Nat
  /\ map \in [1 .. Buckets -> 0 .. (Wrap - 1)] /\ when \in [1 .. Buckets -> Nat]
  /\ read \subseteq 0 .. (Size - 1)
  /\ stats.next \in 1 .. (Buckets + 1) /\ stats.now \in 1 .. (Wrap - 1)
  /\ stats.map \in [1 .. Buckets -> 0 .. (Wrap - 1)]

\* The stamps of the buckets lo .. hi of a copy, without the wrap.
Stamps(s, lo, hi) == {s.when[b] : b \in lo .. hi} \ {0}

\* What the arithmetic needs of a copy: no stamp later than `now' (a read between
\* now_ms() and the load of its bucket), no two stamps half the clock's range
\* apart, and none a whole range old.
Comparable(s, stamps) ==
  /\ \A t \in stamps : t <= s.taken /\ s.taken - t < Wrap - 1
  /\ \A t, u \in stamps : t - u < Wrap \div 2 - 1

\* media_server.hpp:162 "Wrapping after ~49 days is harmless": in every column of
\* the strip and in the close guard the age is the time since the last read, give
\* or take the millisecond by which now_ms() avoids 0, also across the wrap; and
\* "not read" means just that.
AgeRight ==
  stats.next > Buckets =>
    \A lo, hi \in 1 .. Buckets :
      LET stamps == Stamps(stats, lo, hi) IN
      lo <= hi /\ Comparable(stats, stamps) =>
        IF stamps = {} THEN Age(stats, lo, hi) = -1
        ELSE \E t \in stamps :
               /\ \A u \in stamps : u <= t
               /\ Age(stats, lo, hi) - (stats.taken - t) \in -1 .. 1

\* sdl_main.cpp:101 "this is an upper bound on coverage": between two reads, a
\* bucket is marked exactly if a byte of it has been read since start(), so the
\* percentage never leaves out what was read, or keeps what was read of an
\* earlier image.
MarkedIsRead ==
  (serving = "on" /\ Quiet) =>
    \A b \in 1 .. Buckets :
      (map[b] # 0) <=> (\E x \in read : (b - 1) * Size <= x * Buckets /\ x * Buckets < b * Size)
=============================================================================
