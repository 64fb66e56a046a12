----------------------------- MODULE MCPricing -----------------------------
(* TLC instance of Pricing: books of up to two levels at prices 1 to 3 and  *)
(* sizes 0 to 2, orders of either side for -1 to 5, and rates in tenths at  *)
(* volumes -1 to 2, with tiers listed in no order and possibly no schedule  *)
(* for a venue.                                                             *)
EXTENDS Pricing

SmallBooks == {S \in SUBSET [price : 1..3, qty : 0..2] :
                  Cardinality(S) <= 2 /\ \A k, l \in S : k.price = l.price => k = l}

SmallOrders == [side : {"ask", "bid"}, size : -1..5]

SomeVolumes == -1..2

Both ==
    (Kraken :> [verified |-> TRUE,
                tiers |-> <<[min |-> 2, taker |-> 1], [min |-> 0, taker |-> 8],
                            [min |-> 1, taker |-> 5]>>])
    @@ (Coinbase :> [verified |-> TRUE,
                     tiers |-> <<[min |-> 0, taker |-> 3], [min |-> 2, taker |-> 2]>>])

SomeSchedules == {Both, Restrict(Both, {Kraken})}
=============================================================================
