---------------------------- MODULE MCResilience ----------------------------
(* TLC instance of Resilience: ladders without a level, with one venue at   *)
(* the touch, with both, or with a deeper level too, at any of four times.  *)
EXTENDS Resilience

Lv(p, q) == [price |-> p, qty |-> q]

AskLadders == {<<>>, <<Lv(1, 1)>>, <<Lv(2, 2), Lv(3, 4)>>, <<Lv(1, 4)>>, <<Lv(2, 3), Lv(2, 2)>>}

SomeObservations == [at : {0, 1, 2, 5}, ladder : AskLadders]
=============================================================================
