------------------------------ MODULE Latency ------------------------------
(***************************************************************************)
(* What internal/bench's latencies are to mean: the open-loop latency of   *)
(* an event, and what becomes of a stall in each of the two modes.         *)
(***************************************************************************)
EXTENDS Bench

AddTime(total, t) == total + t

\* By how much the work from event k to event i overruns the time since k was due.
Overrun(took, k, i) == FoldLeft(AddTime, 0, SubSeq(took, k, i)) - (i - k) * Interval

\* What event i waits and takes on a fixed schedule, whatever held it up.
OpenLoop(took, i) == Max({Overrun(took, k, i) : k \in 1..i})

KeepDelayed(kept, v) == IF v >= Interval THEN Append(kept, v) ELSE kept

Delayed(hist) == FoldLeft(KeepDelayed, <<>>, hist)

-----------------------------------------------------------------------------
(* A feed, prepared event by event.                                        *)

CONSTANTS
    ApplyTimes,     \* the times Apply may take
    LongestFeed     \* bound: events in the feed

ASSUME TimesAssumption == ApplyTimes \subseteq Nat

VARIABLE feed   \* feed[i]: the time Apply takes for the i-th event

LatencyInit == feed = <<>>

Prepare(t) == Len(feed) < LongestFeed /\ feed' = Append(feed, t)

LatencyNext == \E t \in ApplyTimes : Prepare(t)

LatencySpec == LatencyInit /\ [][LatencyNext]_feed

\* What the two modes make of the times took.
Charged(took) ==
    LET intended == RunApply("intended", took, 0)
        corrected == RunApply("corrected", took, 0)
        n == Len(took)
    IN /\ intended.ok = (took # <<>> /\ \A i \in 1..n : OpenLoop(took, i) <= Trackable)
       /\ intended.ok =>
            /\ intended.hist = [i \in 1..n |-> OpenLoop(took, i)]
            /\ OpenLoop(took, n) < Interval =>
                 \A j \in 1..n : (\A i \in 1..n \ {j} : took[i] = 0) =>
                     /\ corrected.ok
                     /\ Delayed(corrected.hist) = Delayed(intended.hist)

\* A stall is charged to every event it delays, not only to the one that was being
\* applied (harness.go:3-8): the intended mode records the open-loop latency of
\* every event, or fails when one is beyond the histogram; and of a single stall
\* with time to catch up the corrected mode reports the same latencies, from an
\* interval up, as the intended mode.
StallIsCharged == Charged(feed)
=============================================================================
