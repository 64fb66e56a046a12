------------------------------ MODULE ExecCost ------------------------------
(***************************************************************************)
(* internal/execcost: one side of the consolidated book as a ladder sorted *)
(* best first, and the cost of walking it for a size.  Amounts are fixed   *)
(* point at Scale, and refused beyond MaxInt64.  Venue fees and the        *)
(* slippage, which are floating point, are left out.                       *)
(***************************************************************************)
EXTENDS Integers, SequencesExt

CONSTANTS
    Coinbase, Kraken,
    Scale,      \* fixed-point scale (10^8)
    MaxInt64    \* largest amount (2^63 - 1)

ASSUME ScaleAssumption == Scale \in Nat \ {0} /\ MaxInt64 \in Nat
ASSUME VenuesDiffer == Coinbase # Kraken

\* A result of mulDiv beyond MaxInt64.
Overflow == -1

\* a * b / denom, rounded down.  An intermediate product of 128 bits whose
\* quotient does not fit is refused with the same error as one that does not fit.
mulDiv(a, b, denom) ==
    IF denom = 0 \/ (a * b) \div denom > MaxInt64 THEN Overflow ELSE (a * b) \div denom

\* Mutant: the sides swapped.
betterSwapped(side, a, b) == IF side = "ask" THEN a > b ELSE a < b

\* Price a is better than b for who takes from that side.
better(side, a, b) == IF side = "ask" THEN a < b ELSE a > b

\* The order of a ladder: by price, then larger sizes, then the venues' order.
Before(side, a, b) ==
    \/ better(side, a.price, b.price)
    \/ a.price = b.price /\ a.qty > b.qty
    \/ a.price = b.price /\ a.qty = b.qty /\ a.venue = Coinbase /\ b.venue = Kraken

\* The ladder over per, a set of levels for each venue: those with a size, sorted.
Merge(side, per) ==
    LET levels == UNION {{[venue |-> v, price |-> l.price, qty |-> l.qty] : l \in per[v]} :
                             v \in DOMAIN per}
    IN CHOOSE l \in SetToSeqs({l \in levels : l.qty > 0 /\ l.price > 0}) :
           \A i, j \in DOMAIN l : i < j => ~Before(side, l[j], l[i])

AddQty(total, lv) == total + lv.qty

TotalDepth(l) == FoldLeft(AddQty, 0, l)

SortedBestFirst(side, l) ==
    \A i \in 2..Len(l) : ~better(side, l[i].price, l[i - 1].price)

Refused(why) == [err |-> why, filled |-> 0, notional |-> 0, avg |-> 0, fills |-> <<>>]

Begun(q) == [err |-> "none", left |-> q, notional |-> 0, fills |-> <<>>]

\* A fill of take at level lv.
Fill(c, lv, take) ==
    LET n == mulDiv(lv.price, take, Scale)
    IN IF n = Overflow \/ c.notional > MaxInt64 - n
       THEN [c EXCEPT !.err = "overflow"]
       ELSE [c EXCEPT !.left = @ - take, !.notional = @ + n,
                      !.fills = Append(@, [lv EXCEPT !.qty = take])]

\* Mutant: the whole level is taken, whatever is left to fill.
TakeWhole(c, lv) == IF c.err # "none" \/ c.left <= 0 THEN c ELSE Fill(c, lv, lv.qty)

\* One level of the walk: take what it has, or what is left to fill.
TakeLevel(c, lv) ==
    IF c.err # "none" \/ c.left <= 0 THEN c ELSE Fill(c, lv, Min({lv.qty, c.left}))

\* The result of a walk for q that went as far as c.
Costed(c, q) ==
    LET filled == q - c.left
        avg == IF filled > 0 THEN mulDiv(c.notional, Scale, filled) ELSE 0
        result == [err |-> c.err, filled |-> filled, notional |-> c.notional,
                   avg |-> avg, fills |-> c.fills]
    IN IF c.err # "none" THEN [result EXCEPT !.notional = 0, !.avg = 0]
       ELSE IF avg = Overflow THEN [result EXCEPT !.err = "overflow", !.avg = 0]
       ELSE IF c.left > 0 THEN [result EXCEPT !.err = "depth"]
       ELSE result

\* Walk: the cost of q, or why it is refused.  A walk that runs out of depth
\* still reports what filled; one that overflows reports no amount.
Walk(l, side, q) ==
    IF q <= 0 THEN Refused("quantity")
    ELSE IF l = <<>> THEN Refused("empty")
    ELSE IF ~SortedBestFirst(side, l) THEN Refused("unsorted")
    ELSE Costed(FoldLeft(TakeLevel, Begun(q), l), q)

-----------------------------------------------------------------------------
(* What a walk is for.                                                     *)

AddWorth(total, fl) == total + fl.price * fl.qty

\* What fills cost, in Scale-ths and without rounding.
Worth(fills) == FoldLeft(AddWorth, 0, fills)

\* The fills that take f[i] of each level.
Taking(l, f) == [i \in 1..Len(l) |-> [l[i] EXCEPT !.qty = f[i]]]

\* Every way to take q from the ladder.
Allocations(l, q) ==
    LET largest == Max({0} \cup {l[i].qty : i \in 1..Len(l)})
    IN {Taking(l, f) : f \in {f \in [1..Len(l) -> 0..largest] :
                                 /\ \A i \in 1..Len(l) : f[i] <= l[i].qty
                                 /\ TotalDepth(Taking(l, f)) = q}}

\* The walk of a size on display is the best execution there is: it takes that size
\* level by level from the touch, no other way to take it is cheaper (for a sale,
\* dearer), each level is rounded down once, and the average lies no worse than
\* some level that it took.
BestExecution(l, side, q) ==
    LET c == Walk(l, side, q)
    IN c.err = "none" =>
        /\ c.filled = q /\ TotalDepth(c.fills) = q
        /\ \A i \in 1..Len(c.fills) : /\ c.fills[i] = [l[i] EXCEPT !.qty = c.fills[i].qty]
                                      /\ c.fills[i].qty <= l[i].qty
        /\ \A a \in Allocations(l, q) :
               IF side = "ask" THEN Worth(c.fills) <= Worth(a) ELSE Worth(c.fills) >= Worth(a)
        /\ c.notional * Scale <= Worth(c.fills)
        /\ Worth(c.fills) < (c.notional + Len(c.fills)) * Scale
        /\ \E i \in 1..Len(c.fills) : c.avg <= c.fills[i].price

\* Size the ladder does not display is refused, with all that is displayed filled;
\* size it does display is refused only for an amount beyond MaxInt64.
RefusedBeyond(l, side, q) ==
    LET c == Walk(l, side, q)
    IN q > 0 /\ l # <<>> /\ c.err # "overflow" =>
        /\ (c.err = "depth") = (q > TotalDepth(l))
        /\ c.filled = Min({q, TotalDepth(l)})

KeepDisplayed(l, lv) == IF lv.qty > 0 THEN Append(l, lv) ELSE l

\* The ladder after a walk's fills, if nothing refills it.
Depleted(l, fills) ==
    LET took(i) == IF i \in DOMAIN fills THEN fills[i].qty ELSE 0
    IN FoldLeft(KeepDisplayed, <<>>, [i \in DOMAIN l |-> [l[i] EXCEPT !.qty = @ - took(i)]])

\* The impact band of the study (docs/TCA.md, cmd/tcastudy/main.go:253-254), a size
\* worked in two slices that are not refused if the whole is not: against books that
\* do not refill it costs the same but for the rounding of the level the two share;
\* against books that do a purchase costs no more, and a sale brings in no less, but
\* for the rounding of each level once.
SlicedWithin(l, side, q) ==
    LET whole == Walk(l, side, q)
        slice(n) == Walk(l, side, n)
        rest(n) == Walk(Depleted(l, slice(n).fills), side, q - n)
        roundings(n) == Len(slice(n).fills) + Len(slice(q - n).fills)
    IN whole.err = "none" =>
        \A n \in 1..q - 1 :
            /\ slice(n).err = "none" /\ rest(n).err = "none"
            /\ slice(n).notional + rest(n).notional \in whole.notional - 1..whole.notional
            /\ LET refilled == slice(n).notional + slice(q - n).notional
               IN IF side = "ask" THEN refilled < whole.notional + Len(whole.fills)
                  ELSE whole.notional < refilled + roundings(n)
=============================================================================
