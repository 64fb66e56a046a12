-------------------------------- MODULE Fees --------------------------------
(***************************************************************************)
(* internal/execcost's fee schedules: a table of the venues' tiers at one  *)
(* 30-day volume, and the taker fee of a walk.  A rate is an integer in    *)
(* units of 1/RateUnit; the code's are floating point, whose products this *)
(* module cuts off without their representation error.  Maker rates, which *)
(* no walk pays, and the caveats printed with a result are left out.       *)
(***************************************************************************)
EXTENDS ExecCost

CONSTANT RateUnit       \* what a rate of 1 stands for

Tier == [min : Int, taker : Nat]

\* What a venue's schedule lists: some tier, and no threshold twice.
IsSchedule(s) ==
    /\ s \in [verified : BOOLEAN, tiers : Seq(Tier)]
    /\ s.tiers # <<>>
    /\ \A i, j \in 1..Len(s.tiers) : s.tiers[i].min = s.tiers[j].min => i = j

sortedTiers(tiers) ==
    CHOOSE t \in SetToSeqs(ToSet(tiers)) :
        \A i, j \in DOMAIN t : i < j => t[i].min < t[j].min

\* scheds: a schedule for some of the venues.
NewFeeTable(volume, scheds) ==
    [volume |-> volume,
     schedules |-> [v \in DOMAIN scheds |-> [scheds[v] EXCEPT !.tiers = sortedTiers(@)]]]

\* Mutant: a tier is reached only beyond its threshold.
tierBeyond(s, volume) == s.tiers[Max({1} \cup {i \in DOMAIN s.tiers : volume > s.tiers[i].min})]

\* The last tier whose threshold the volume reaches, or the first.
tierFor(s, volume) == s.tiers[Max({1} \cup {i \in DOMAIN s.tiers : volume >= s.tiers[i].min})]

NoSchedule == [rate |-> 0, verified |-> FALSE, ok |-> FALSE]

TakerRate(f, v) ==
    IF v \notin DOMAIN f.schedules THEN NoSchedule
    ELSE [rate |-> tierFor(f.schedules[v], f.volume).taker,
          verified |-> f.schedules[v].verified, ok |-> TRUE]

\* What a fill costs, or Overflow.
FillCost(fl) == mulDiv(fl.price, fl.qty, Scale)

AddFill(perVenue, fl) == [perVenue EXCEPT ![fl.venue] = @ + FillCost(fl)]

\* What the fills on each venue cost; 0 where there are none.
PerVenue(fills) == FoldLeft(AddFill, [v \in {Coinbase, Kraken} |-> 0], fills)

Routed(fills) == {fills[i].venue : i \in DOMAIN fills}

FeeError == -1

\* TakerFee: each venue's part of the notional at its own rate.
TakerFee(f, c) ==
    LET fee(v) == (PerVenue(c.fills)[v] * TakerRate(f, v).rate) \div RateUnit
    IN IF \/ \E i \in DOMAIN c.fills : FillCost(c.fills[i]) = Overflow
          \/ \E v \in Routed(c.fills) : ~TakerRate(f, v).ok
       THEN FeeError ELSE fee(Coinbase) + fee(Kraken)

TotalCost(f, c) ==
    IF TakerFee(f, c) = FeeError THEN FeeError ELSE c.notional + TakerFee(f, c)

\* Basis points of the notional, rounded down; a walk that cost nothing has none.
FeeBps(f, c) ==
    IF c.notional = 0 THEN 0
    ELSE IF TakerFee(f, c) = FeeError THEN FeeError
    ELSE (TakerFee(f, c) * 10000) \div c.notional

-----------------------------------------------------------------------------
(* What a fee is for.                                                      *)

\* The rate that tiers in any order give at a volume: of the highest threshold the
\* volume reaches, or of the lowest there is if it reaches none.
RateAt(tiers, volume) ==
    LET all == ToSet(tiers)
        reached == {t \in all : t.min <= volume}
        applies(t) == IF reached = {} THEN \A u \in all : t.min <= u.min
                      ELSE t \in reached /\ \A u \in reached : u.min <= t.min
    IN (CHOOSE t \in all : applies(t)).taker

AddCharge(total, charge) == total + charge

\* The taker fee of a walk is what each fill cost at its own venue's tier, the
\* highest the volume reaches however the tiers were listed, less than one unit cut
\* off per venue; quantity at different prices is not proportional to it
\* (fees.go:171-177).  A fill on a venue without a schedule makes it an error.
FeeFollows(volume, scheds, c) ==
    LET f == NewFeeTable(volume, scheds)
        fee == TakerFee(f, c)
        routed == Routed(c.fills)
        rate(v) == RateAt(scheds[v].tiers, volume)
        charged == FoldLeft(AddCharge, 0, [i \in 1..Len(c.fills) |->
                       FillCost(c.fills[i]) * rate(c.fills[i].venue)])
    IN IF routed \subseteq DOMAIN scheds
       THEN /\ fee * RateUnit <= charged
            /\ routed # {} => charged < (fee + Cardinality(routed)) * RateUnit
            /\ TotalCost(f, c) = c.notional + fee
            /\ FeeBps(f, c) * RateUnit <= 10000 * Max({0} \cup {rate(v) : v \in routed})
       ELSE fee = FeeError /\ TotalCost(f, c) = FeeError
=============================================================================
