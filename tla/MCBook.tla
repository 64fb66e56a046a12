------------------------------- MODULE MCBook -------------------------------
(* TLC instance of Book: three prices, sizes 0 to 2 for bids and 0 to 1    *)
(* for asks, messages of up to two levels, every truncation depth.         *)
EXTENDS Book

ThreePrices == 1..3
BidLevels == [price : ThreePrices, qty : 0..2]
AskLevels == [price : ThreePrices, qty : 0..1]
SmallBatches ==
    [bids : BoundedSeq(BidLevels, 2), asks : {<<>>}]
    \cup [bids : {<<>>}, asks : BoundedSeq(AskLevels, 2)]
    \cup [bids : {<<[price |-> p, qty |-> 2]>> : p \in ThreePrices},
          asks : {<<l>> : l \in AskLevels}]
SomeDepths == -1..3
=============================================================================
