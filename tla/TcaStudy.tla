------------------------------ MODULE TcaStudy ------------------------------
(***************************************************************************)
(* cmd/tcastudy replaying a tape, which TapeStudy supplies: onRecord feeds *)
(* the engine, works the sliced parent orders whose time has come, and     *)
(* starts a decision every interval; a gap record drops the parents in     *)
(* flight.                                                                 *)
(*                                                                         *)
(* What the engine's books show after an event is any ladder of Ladders.   *)
(* Times are integers, sizes and amounts fixed point.  Of a row the arm A  *)
(* and B figures, which are Walk's, are left out; so are floating point    *)
(* slippage and fees.                                                      *)
(***************************************************************************)
EXTENDS ExecCost

CONSTANTS
    Side,       \* the side walked: "ask" for a purchase, "bid" for a sale
    Sizes,      \* the order sizes, a sequence
    Slices,     \* slices of a parent order
    Horizon,    \* over this time
    Every,      \* time between decisions
    Ladders     \* what the books may show

ASSUME StudyAssumption ==
    /\ Slices \in Nat \ {0} /\ Horizon \in Nat /\ Every \in Nat \ {0}
    /\ Sizes \in Seq(Nat \ {0})

\* Merge leaves no level without a price or a size.
LadderLevel == [venue : {Coinbase, Kraken}, price : Nat \ {0}, qty : Nat \ {0}]

ASSUME LaddersAssumption == Ladders \subseteq Seq(LadderLevel)

VARIABLES
    wall,       \* wall clock of the last record of the tape
    now,        \* study.now: that of the last event
    nextDec,    \* study.nextDec, 0 for the zero time
    rows,       \* study.rows, of which err is SlicedErr; see NewRow
    pendings,   \* study.pendings: the parent orders in flight
    gaps,       \* gap records so far (study.skipped)
    ended       \* the tape is over and finish has run

vars == <<wall, now, nextDec, rows, pendings, gaps, ended>>

\* priced: settle has computed the sliced cost, of which filled and notional
\* are the basis; dry: a slice met books with no level.  at and gaps: the time
\* of the decision and the gaps before it.
NewRow(size, at) ==
    [at |-> at, size |-> size, err |-> "none", priced |-> FALSE, filled |-> 0,
     notional |-> 0, dry |-> FALSE, gaps |-> gaps]

Step == Horizon \div Slices

NewPending(i, size, at) ==
    [rowIdx |-> i, size |-> size, remaining |-> size, nextAt |-> at, left |-> Slices,
     notional |-> 0, err |-> "none", dry |-> FALSE]

Init ==
    /\ wall = 0 /\ now = 0 /\ nextDec = 0
    /\ rows = <<>> /\ pendings = <<>>
    /\ gaps = 0
    /\ ended = FALSE

-----------------------------------------------------------------------------
\* Mutant: every slice gets an even share, the last one too.
SliceQtyEven(p) == p.size \div Slices

\* An even share of what remains; the last slice mops up the rounding.
SliceQty(p) == IF p.left = 1 THEN p.remaining ELSE p.remaining \div p.left

\* Mutant: the next slice is timed from this record.
AfterSliceFromNow(p, at) == [p EXCEPT !.left = @ - 1, !.nextAt = at + Step]

\* Whether or not the slice filled, the schedule moves on.
AfterSlice(p, at) == [p EXCEPT !.left = @ - 1, !.nextAt = @ + Step]

\* A slice of qty whose walk gave c; a refused walk fails the whole parent.
Filled(p, qty, c, at) ==
    IF c.err # "none" THEN [p EXCEPT !.err = c.err, !.left = 0]
    ELSE AfterSlice([p EXCEPT !.notional = @ + c.notional, !.remaining = @ - qty], at)

\* One slice against ladder l; without depth or anything to fill it is skipped.
WorkSlice(p, l, at) ==
    IF SliceQty(p) = 0 \/ l = <<>> THEN AfterSlice([p EXCEPT !.dry = @ \/ l = <<>>], at)
    ELSE Filled(p, SliceQty(p), Walk(l, Side, SliceQty(p)), at)

\* The next slice of a parent, if it is due.
DueSlice(p, t) == IF p.left > 0 /\ p.nextAt <= t.at THEN WorkSlice(p, t.ladder, t.at) ELSE p

\* Every slice of one parent that is due at time at.
Worked(p, l, at) == FoldLeft(DueSlice, p, [i \in 1..p.left |-> [ladder |-> l, at |-> at]])

\* settle, or the error of the slice that failed.
Settled(row, p) ==
    LET filled == p.size - p.remaining
    IN IF p.err # "none" THEN [row EXCEPT !.err = p.err]
       ELSE IF filled <= 0 \/ p.notional <= 0 THEN [row EXCEPT !.err = "nofill"]
       ELSE [row EXCEPT !.priced = TRUE, !.filled = filled, !.notional = p.notional,
                        !.dry = p.dry]

\* The rows, those of the parents that are finished settled.
SettledRows(worked) ==
    [i \in 1..Len(rows) |->
        LET done == {k \in 1..Len(worked) : worked[k].rowIdx = i /\ worked[k].left = 0}
        IN IF done = {} THEN rows[i] ELSE Settled(rows[i], worked[Min(done)])]

KeepLive(live, p) == IF p.left > 0 THEN Append(live, p) ELSE live

\* advanceSlices: the parents still at work, and the rows of the others settled.
AdvanceSlices(l, at) ==
    LET worked == [k \in 1..Len(pendings) |-> Worked(pendings[k], l, at)]
    IN [live |-> FoldLeft(KeepLive, <<>>, worked), rows |-> SettledRows(worked)]

\* startDecision: a row and a parent for each size, if the books show anything.
StartDecision(l, at, rs, live) ==
    LET n == IF l = <<>> THEN 0 ELSE Len(Sizes)
    IN /\ rows' = rs \o [i \in 1..n |-> NewRow(Sizes[i], at)]
       /\ pendings' = live \o [i \in 1..n |-> NewPending(Len(rs) + i, Sizes[i], at)]

\* onRecord of an event: apply, advance, then decide if the interval is over;
\* the first event only starts the first interval.
OnEvent(l, at) ==
    /\ ~ended
    /\ wall' = at /\ now' = at
    /\ \E adv \in {AdvanceSlices(l, at)} :
        IF nextDec # 0 /\ at >= nextDec
        THEN /\ nextDec' = at + Every
             /\ StartDecision(l, at, adv.rows, adv.live)
        ELSE /\ nextDec' = IF nextDec = 0 THEN at + Every ELSE nextDec
             /\ rows' = adv.rows /\ pendings' = adv.live
    /\ UNCHANGED <<gaps, ended>>

\* Mutant: the parents in flight go on over the gap.
OnGapKeeps(at) ==
    /\ ~ended
    /\ wall' = at
    /\ gaps' = gaps + 1
    /\ UNCHANGED <<now, nextDec, rows, pendings, ended>>

\* onRecord of a gap: the parents in flight crossed a hole.
OnGap(at) ==
    /\ ~ended
    /\ wall' = at
    /\ gaps' = gaps + 1
    /\ pendings' = <<>>
    /\ UNCHANGED <<now, nextDec, rows, ended>>

\* Mutant: the parents in flight are forgotten.
FinishForgets ==
    /\ ~ended
    /\ ended' = TRUE
    /\ pendings' = <<>>
    /\ UNCHANGED <<wall, now, nextDec, rows, gaps>>

\* finish: parents that never completed are marked.
Finish ==
    /\ ~ended
    /\ ended' = TRUE
    /\ rows' = [i \in 1..Len(rows) |->
                   IF \E k \in 1..Len(pendings) : pendings[k].rowIdx = i
                   THEN [rows[i] EXCEPT !.err = "tape-ended"] ELSE rows[i]]
    /\ pendings' = <<>>
    /\ UNCHANGED <<wall, now, nextDec, gaps>>

-----------------------------------------------------------------------------
InFlight(i) == {k \in 1..Len(pendings) : pendings[k].rowIdx = i}

\* Every row is in one state only: priced, failed, worked by exactly one parent,
\* or its parent was dropped at a gap; after the end none is being worked.
RowsAccountedFor ==
    \A i \in 1..Len(rows) :
        LET states == <<rows[i].priced, rows[i].err # "none", InFlight(i) # {},
                        rows[i].gaps < gaps /\ InFlight(i) = {}
                            /\ ~rows[i].priced /\ rows[i].err = "none">>
        IN /\ Cardinality({s \in 1..4 : states[s]}) = 1
           /\ Cardinality(InFlight(i)) <= 1
           /\ ended => InFlight(i) = {}

\* No sliced order is priced across a gap: what settles has met none since its
\* decision.
NothingPricedAcrossGap ==
    [][\A i \in 1..Len(rows) :
           ~rows[i].priced /\ rows'[i].priced => rows[i].gaps = gaps]_vars

\* The slices of an order add up to it, whatever the rounding: when it settles
\* it is filled, unless the books were empty at a slice (a last slice that meets
\* none leaves a part of the order unfilled and the row priced: main.go:289, 321).
SlicesAddUp ==
    \A i \in 1..Len(rows) :
        rows[i].priced => /\ rows[i].filled <= rows[i].size
                          /\ ~rows[i].dry => rows[i].filled = rows[i].size

\* Slices keep to the schedule laid down at the decision, however late records
\* come, and none that is due waits for another record.
SlicesKeepSchedule ==
    \A k \in 1..Len(pendings) :
        LET p == pendings[k]
            at == rows[p.rowIdx].at
        IN /\ p.nextAt = at + (Slices - p.left) * Step
           /\ p.nextAt > now \/ (p.left = Slices /\ at = now)

\* A row without an error is a sliced order that was priced, not a zero-cost fill.
NoErrorMeansPriced ==
    ended => \A i \in 1..Len(rows) : rows[i].err = "none" => rows[i].priced
=============================================================================
