------------------------------ MODULE Pricing ------------------------------
(***************************************************************************)
(* Orders priced against both venues' books as these come and go: what the *)
(* ladder, the walk, the slices and the fees of internal/execcost are to   *)
(* mean, whatever the books and the order are.                             *)
(***************************************************************************)
EXTENDS Fees

CONSTANTS
    VenueBooks,     \* the sides of a venue's book there may be: sets of [price, qty]
    Orders,         \* the orders: [side, size]
    Volumes,        \* the 30-day volumes
    ScheduleSets    \* the venues' schedules there may be

ASSUME PricingAssumption ==
    /\ RateUnit \in Nat \ {0}
    /\ \A S \in VenueBooks : IsFiniteSet(S) /\ S \subseteq [price : 1..MaxInt64, qty : 0..MaxInt64]
    /\ \A o \in Orders : o.size \in Int
    /\ Volumes \subseteq Int
    /\ \A scheds \in ScheduleSets : /\ DOMAIN scheds \subseteq {Coinbase, Kraken}
                                   /\ \A v \in DOMAIN scheds : IsSchedule(scheds[v])

VARIABLES
    per,    \* per[v]: the side of venue v's book the order takes from
    order   \* the order to price

PricingInit == /\ per = [v \in {Coinbase, Kraken} |-> {}]
               /\ order \in Orders

ChangeBook(v) == /\ \E S \in VenueBooks : per' = [per EXCEPT ![v] = S]
                 /\ UNCHANGED order

PricingNext == \E v \in {Coinbase, Kraken} : ChangeBook(v)

PricingSpec == PricingInit /\ [][PricingNext]_<<per, order>>

Ladder == Merge(order.side, per)

\* A walk of a size on display is the best execution there is (ladder.go:162-222).
WalkIsBestExecution == BestExecution(Ladder, order.side, order.size)

\* Size the books do not display is refused, with what they do display filled.
RefusesBeyondDisplay == RefusedBeyond(Ladder, order.side, order.size)

\* Slicing costs no more than one walk, and no less if nothing refills: the band that
\* docs/TCA.md states of the study's arms.
SlicingWithinBand == SlicedWithin(Ladder, order.side, order.size)

\* Each venue charges its own tier on what its own fills cost (fees.go:171-217).
FeesFollowFills ==
    \A volume \in Volumes, scheds \in ScheduleSets :
        FeeFollows(volume, scheds, Walk(Ladder, order.side, order.size))
=============================================================================
