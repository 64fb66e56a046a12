------------------------------- MODULE Bench -------------------------------
(***************************************************************************)
(* internal/bench's RunApply: the engine is fed a prepared feed at a fixed *)
(* rate and each event's latency goes into a histogram.  took[i] is the    *)
(* time Apply takes for the i-th recorded event; the warm-up events leave  *)
(* nothing behind.  The clock starts at 0, and moves while the harness     *)
(* waits or the engine works; reading it takes no time.                    *)
(***************************************************************************)
EXTENDS Integers, SequencesExt

CONSTANTS
    Interval,       \* the time between two events, a second by the rate
    Trackable       \* the longest latency the histogram takes (60 seconds)

ASSUME BenchAssumption == Interval \in Nat \ {0} /\ Trackable \in Nat

\* Mutant: an event is due an interval after the last one was done.
scheduledAfter(i, clock) == IF i = 1 THEN 0 ELSE clock + Interval

\* The i-th event is due on the schedule, wherever the clock is.
scheduled(i, clock) == (i - 1) * Interval

\* waitUntil returns at the time given, at once if it is past.
waitUntil(t, clock) == Max({t, clock})

\* A run starts with the histogram reset; n counts the events recorded so far.
Start(mode) == [mode |-> mode, n |-> 0, clock |-> 0, hist |-> <<>>, dropped |-> 0]

\* RecordValue: a value out of range is counted.
RecordValue(run, v) ==
    IF v > Trackable THEN [run EXCEPT !.dropped = @ + 1]
    ELSE [run EXCEPT !.hist = Append(@, v)]

\* The library's RecordCorrectedValue: v, then v less one interval, less two, as
\* long as an interval is left; nothing more once a value is out of range.
RecordCorrectedValue(run, v) ==
    LET missed == IF v > Trackable THEN 0 ELSE Max({0, (v \div Interval) - 1})
    IN FoldLeft(RecordValue, run, [k \in 1..missed + 1 |-> v - (k - 1) * Interval])

\* One turn of the loop: the intended mode measures from the scheduled time, the
\* corrected mode from the moment Apply was called.
Turn(run, took) ==
    LET due == scheduled(run.n + 1, run.clock)
        t0 == waitUntil(due, run.clock)
        done == [run EXCEPT !.n = @ + 1, !.clock = t0 + took]
    IN IF run.mode = "corrected" THEN RecordCorrectedValue(done, took)
       ELSE RecordValue(done, done.clock - due)

\* The loop, after which a dropped sample makes the run an error, as a resync
\* during the replay would.
RunApply(mode, took, resyncs) ==
    LET run == FoldLeft(Turn, Start(mode), took)
    IN [ok |-> took # <<>> /\ resyncs = 0 /\ run.dropped = 0, hist |-> run.hist]
=============================================================================
