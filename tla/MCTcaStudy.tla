---------------------------- MODULE MCTcaStudy ----------------------------
(* TcaStudy for TLC: a purchase against no depth, a thin book, a deep one.  *)
EXTENDS TapeStudy

TwoSizes == <<2, 5>>
OneSize == <<3>>

Lv(v, p, q) == [venue |-> v, price |-> p, qty |-> q]

Thin == <<Lv(Coinbase, 1, 2)>>
Deep == <<Lv(Coinbase, 1, 2), Lv(Kraken, 2, 4)>>

AnyBooks == {<<>>, Thin, Deep}
=============================================================================
