--------------------------- MODULE TrafficCounter ---------------------------
(***************************************************************************)
(* The byte counter data_flow (applutil.cpp, lines 621-696): a ring of     *)
(* data_flow_size per-second buckets.  add(count) sweeps the buckets that *)
(* aged out since the last add and adds count to the bucket of the current *)
(* second; get() sweeps and returns the sum.  The io threads of a session  *)
(* call add (remoteclient.cpp, lines 234 and 444); the status page calls   *)
(* get (remoteclient.cpp, lines 842-843).  Both hold m_mutex, so each is   *)
(* one step.                                                               *)
(*                                                                         *)
(* add and get hold m_mutex (a std::mutex, as the lock_guard<std::mutex>  *)
(* in cleanup requires) and call cleanup, which locks it again: undefined  *)
(* behaviour.  It is a choice: the thread blocks on its own mutex for      *)
(* ever, or the second lock goes through.                                  *)
(*                                                                         *)
(* hist records the bytes added in each second, for the reference window.  *)
(***************************************************************************)
EXTENDS Integers, Functions

CONSTANTS
    N,          \* data_flow_size: buckets in the ring
    MaxTime,    \* bound on the clock (seconds of steady_clock)
    Counts,     \* byte counts an add may bring
    MaxPerSec   \* bound on the bytes added within one second

ASSUME N \in Nat \ {0} /\ MaxTime \in Nat /\ Counts \subseteq Nat \ {0}

VARIABLES
    buf,     \* m_buffer
    mstamp,  \* m_stamp: the second of the last add
    now,     \* timestamp()
    hist,    \* history: bytes added in each second
    got,     \* the last get(): its result, and the reference window then
    hung     \* m_mutex is held for ever by a thread blocked on it

vars == << buf, mstamp, now, hist, got, hung >>

Slots == 0..(N - 1)

-----------------------------------------------------------------------------
(* The loop of lines 664-670: starting at index, step to the next bucket   *)
(* and zero it, until index_stop is reached.                               *)
RECURSIVE Walk(_, _, _)
Walk(b, index, stop) ==
    IF index = stop THEN b
    ELSE Walk([b EXCEPT ![(index + 1) % N] = 0], (index + 1) % N, stop)

(* data_flow::cleanup with the whole-ring test off by one.                 *)
CleanupOffByOne(b, ms, stamp) ==
    IF stamp > ms + N
    THEN [i \in Slots |-> 0]
    ELSE Walk(b, ms % N, stamp % N)

(* data_flow::cleanup, lines 652-672: zero every bucket when a whole ring  *)
(* of seconds has passed, else the buckets after m_stamp up to stamp.      *)
Cleanup(b, ms, stamp) ==
    IF stamp >= ms + N
    THEN [i \in Slots |-> 0]
    ELSE Walk(b, ms % N, stamp % N)

(* The bytes added in the seconds of the window ending at t: the reference *)
(* the ring stands for.                                                    *)
WindowSum(t) == SumFunctionOnSet(hist, {s \in DOMAIN hist : t - N < s /\ s <= t})

(* data_flow::data_flow, lines 630-639: zero buckets, m_stamp = now.       *)
Init ==
    /\ buf = [i \in Slots |-> 0]
    /\ mstamp = 0
    /\ now = 0
    /\ hist = [s \in 0..MaxTime |-> 0]
    /\ got = [value |-> 0, window |-> 0]
    /\ hung = FALSE

(* data_flow::add without the call to cleanup.                             *)
AddNoSweep(c) ==
    /\ ~hung
    /\ hist[now] + c <= MaxPerSec
    /\ buf' = [buf EXCEPT ![now % N] = @ + c]
    /\ mstamp' = now
    /\ hist' = [hist EXCEPT ![now] = @ + c]
    /\ UNCHANGED << now, got, hung >>

(* data_flow::add, lines 675-682.                                          *)
Add(c) ==
    /\ ~hung
    /\ hist[now] + c <= MaxPerSec
    /\ \/ /\ hung' = TRUE
          /\ UNCHANGED << buf, mstamp, hist >>
       \/ /\ buf' = LET b == Cleanup(buf, mstamp, now)
                    IN [b EXCEPT ![now % N] = @ + c]
          /\ mstamp' = now
          /\ hist' = [hist EXCEPT ![now] = @ + c]
          /\ UNCHANGED hung
    /\ UNCHANGED << now, got >>

(* data_flow::get, lines 685-696: sweep, leave m_stamp, sum the buckets.   *)
(* Like add, it holds m_mutex when cleanup (line 654) locks it again, and  *)
(* either hangs there or goes through.                                     *)
Get ==
    /\ ~hung
    /\ \/ /\ hung' = TRUE
          /\ UNCHANGED << buf, got >>
       \/ /\ buf' = Cleanup(buf, mstamp, now)
          /\ got' = [value  |-> SumFunction(Cleanup(buf, mstamp, now)),
                    window |-> WindowSum(now)]
          /\ UNCHANGED hung
    /\ UNCHANGED << mstamp, now, hist >>

(* steady_clock advances by one second or more; gaps of a whole ring and   *)
(* beyond happen when no byte moves.                                       *)
Tick(d) ==
    /\ now + d <= MaxTime
    /\ now' = now + d
    /\ UNCHANGED << buf, mstamp, hist, got, hung >>

Next ==
    \/ \E c \in Counts : Add(c)
    \/ Get
    \/ \E d \in 1..(N + 1) : Tick(d)

Spec == Init /\ [][Next]_vars

-----------------------------------------------------------------------------
TypeOK ==
    /\ buf \in [Slots -> 0..MaxPerSec]
    /\ mstamp \in 0..MaxTime /\ now \in 0..MaxTime
    /\ hist \in [0..MaxTime -> 0..MaxPerSec]
    /\ got \in [value : Nat, window : Nat]
    /\ hung \in BOOLEAN

(* get() returns the bytes added in the last data_flow_size seconds, the   *)
(* second of the call included, whatever the pattern of adds, gets and     *)
(* clock gaps before it.                                                   *)
GetIsWindow == got.value = got.window
====
