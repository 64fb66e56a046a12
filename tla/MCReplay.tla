------------------------------ MODULE MCReplay ------------------------------
(* TLC instance of Replay: four prices, snapshots with or without a level,  *)
(* updates that add one, and removals near the touch, each with the         *)
(* checksum of any top level a side may have; the recorded engine keeps two *)
(* levels, the study's three, and the checksum covers one.                  *)
EXTENDS Replay

FourPrices == 1..4

Update(bids, asks) == [kind |-> "update", bids |-> bids, asks |-> asks]
One(p, q) == <<[price |-> p, qty |-> q]>>

Changes ==
    {[kind |-> "snapshot", bids |-> b, asks |-> One(2, 1)] : b \in {<<>>, One(1, 1)}}
    \cup {Update(One(p, 1), <<>>) : p \in 1..2} \cup {Update(One(1, 0), <<>>)}
    \cup {Update(<<>>, One(p, 1)) : p \in FourPrices}
    \cup {Update(<<>>, One(p, 0)) : p \in FourPrices} \cup {Update(<<>>, One(3, 2))}

\* The best ask a checksum covers, with the best bid at 1 (a bid at 2 crosses
\* or locks all but asks at 3 and 4).
Tops ==
    {[bids |-> b :> 1, asks |-> a :> 1] : b \in 1..2, a \in 2..4}
    \cup {[bids |-> 1 :> 1, asks |-> 3 :> 2]}

SomeMessages ==
    {[kind |-> c.kind, bids |-> c.bids, asks |-> c.asks, checksum |-> t] : c \in Changes, t \in Tops}
=============================================================================
