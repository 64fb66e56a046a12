------------------------------ MODULE MCEngine ------------------------------
(* TLC instances of Engine: every uncrossed market over a few prices.      *)
EXTENDS Engine

Two == {Coinbase, Kraken}
FivePrices == 1..5

Sides(prices, sizes) == UNION {[P -> sizes] : P \in SUBSET prices}

Uncrossed(m) == \A b \in DOMAIN m.bids, a \in DOMAIN m.asks : b < a

MarketsOver(bidPrices, askPrices, sizes) ==
    {m \in [bids : Sides(bidPrices, sizes), asks : Sides(askPrices, sizes)] : Uncrossed(m)}

\* The levels of a side that differ.
Differ(e, f) == {p \in DOMAIN e \cup DOMAIN f :
                    ~(p \in DOMAIN e /\ p \in DOMAIN f /\ e[p] = f[p])}

\* Frames that change one or two levels.
MovesOf(markets) ==
    [m \in markets |-> {n \in markets :
        Cardinality(Differ(m.bids, n.bids)) + Cardinality(Differ(m.asks, n.asks)) \in 1..2}]

\* Kraken: three bids for a depth of two, the middle one of either size, and
\* an ask.
KrakenMarkets == {m \in MarketsOver(1..3, {4}, {1, 2}) :
                     /\ \A p \in DOMAIN m.bids : m.bids[p] = 2 => p = 2
                     /\ \A p \in DOMAIN m.asks : m.asks[p] = 1}

\* Coinbase: an ask above Kraken's; no bid, one at Kraken's ask, or three.
CoinbaseMarkets == {[bids |-> [p \in B |-> 1], asks |-> (5 :> 1)] : B \in {{}, {4}, 2..4}}

TheMarkets == [v \in Two |-> IF v = Kraken THEN KrakenMarkets ELSE CoinbaseMarkets]
TheMoves == [v \in Two |-> MovesOf(TheMarkets[v])]

\* A snapshot that arrives locked, and one that arrives crossed.
TheGarbage == [v \in Two |-> IF v = Kraken THEN {[bids |-> (4 :> 1), asks |-> (4 :> 1)]}
                             ELSE {[bids |-> (5 :> 1), asks |-> (4 :> 1)]}]
=============================================================================
