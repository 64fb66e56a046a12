----------------------------- MODULE Resilience -----------------------------
(***************************************************************************)
(* cmd/tcastudy's measure of how fast the depth at the touch comes back:   *)
(* observe is called with the ask ladder after every event of the tape.    *)
(* Times are integers, the fields those of the resilience struct.          *)
(***************************************************************************)
EXTENDS Integers, SequencesExt

NoResilience == [last |-> 0, peak |-> 0, depletedAt |-> 0, inEvent |-> FALSE,
                 events |-> 0, recovered |-> 0, totalRec |-> 0, worst |-> 0]

AddAtTouch(touch, lv) ==
    IF lv.price = touch.price THEN [touch EXCEPT !.qty = @ + lv.qty] ELSE touch

\* The size at the best price of a ladder, both venues' levels together.
AtTouch(l) == FoldLeft(AddAtTouch, [price |-> l[1].price, qty |-> 0], l).qty

\* Less than half the peak, the half cut off.
Depletes(r, size) == size < r.peak \div 2

StartEvent(r, now, size) ==
    [r EXCEPT !.inEvent = TRUE, !.depletedAt = now, !.events = @ + 1, !.last = size]

\* Mutant: the event is not closed.
RecoverOpen(r, now, size) ==
    [r EXCEPT !.recovered = @ + 1, !.totalRec = @ + now - r.depletedAt,
              !.worst = Max({@, now - r.depletedAt}), !.last = size]

Recover(r, now, size) ==
    [r EXCEPT !.recovered = @ + 1, !.totalRec = @ + now - r.depletedAt,
              !.worst = Max({@, now - r.depletedAt}), !.inEvent = FALSE, !.last = size]

\* A ladder without a level is not an observation, the first one sets the peak.
observe(r, now, l) ==
    LET size == AtTouch(l)
    IN IF l = <<>> THEN r
       ELSE IF r.last = 0 THEN [r EXCEPT !.last = size, !.peak = size]
       ELSE IF ~r.inEvent /\ Depletes(r, size) THEN StartEvent(r, now, size)
       ELSE IF ~r.inEvent THEN [r EXCEPT !.peak = Max({@, size}), !.last = size]
       ELSE IF size >= r.peak THEN Recover(r, now, size)
       ELSE [r EXCEPT !.last = size]

mean(r) == IF r.recovered = 0 THEN 0 ELSE r.totalRec \div r.recovered

-----------------------------------------------------------------------------
(* What the measure is for.                                                *)

\* A watch sees the measure observe a ladder at a time, and keeps how long it has
\* been below the peak.
Unwatched == [r |-> NoResilience, at |-> 0, below |-> 0]

Watch(w, o) ==
    [r |-> observe(w.r, o.at, o.ladder), at |-> o.at,
     below |-> IF w.r.inEvent THEN w.below + o.at - w.at ELSE w.below]

-----------------------------------------------------------------------------
(* The events of the tape, observed one after the other.                   *)

\* A level of the consolidated ladder; which venue's it is makes no difference.
SeenLevel == [price : Nat, qty : Nat \ {0}]

Observation == [at : Int, ladder : Seq(SeenLevel)]

CONSTANTS
    Observations,   \* what may be observed: a ladder at a time
    MaxEvents       \* bound: depletions begun

ASSUME ObservationsAssumption == Observations \subseteq Observation

VARIABLE watched

ResilienceInit == watched = Unwatched

\* The wall clock that stamps the records may step back.
ObserveNext(o) ==
    /\ watched.r.events < MaxEvents
    /\ watched' = Watch(watched, o)

ResilienceNext == \E o \in Observations : ObserveNext(o)

ResilienceSpec == ResilienceInit /\ [][ResilienceNext]_watched

\* No depletion is counted twice or forgotten: those begun are those recovered and
\* one still open; the recovery times add up to the time spent below the peak; the
\* mean is no longer than the worst; and the touch is below the peak while an event
\* is open and not below half of it while none is (main.go:379-419).
RecoveriesAddUp ==
    LET r == watched.r
        open == IF r.inEvent THEN 1 ELSE 0
    IN /\ r.events = r.recovered + open
       /\ r.totalRec + open * (watched.at - r.depletedAt) = watched.below
       /\ mean(r) <= r.worst
       /\ IF r.inEvent THEN r.last < r.peak ELSE r.last >= r.peak \div 2
=============================================================================
