------------------------------ MODULE BookMap ------------------------------
(***************************************************************************)
(* What internal/book promises: each side is a map from price to size, of  *)
(* which a message gives the new sizes.  There is no order, no slice and   *)
(* no fold: the last size a message gives for a price is its size.         *)
(***************************************************************************)
EXTENDS Integers, SequencesExt

CONSTANTS Prices, Batches, Depths

VARIABLES bidMap, askMap, readyFlag

Init == bidMap = <<>> /\ askMap = <<>> /\ readyFlag = FALSE

\* The size a message leaves at p, given what was there.
Given(m, p) == {i \in 1..Len(m) : m[i].price = p}

SizeAfter(f, m, p) ==
    IF Given(m, p) # {} THEN m[Max(Given(m, p))].qty
    ELSE IF p \in DOMAIN f THEN f[p] ELSE 0

Overwrite(f, m) ==
    [p \in {q \in Prices : SizeAfter(f, m, q) # 0} |-> SizeAfter(f, m, p)]

Best(f, n, better(_, _)) ==
    Restrict(f, {p \in DOMAIN f : Cardinality({q \in DOMAIN f : better(q, p)}) < n})

Snapshot(m) ==
    /\ bidMap' = Overwrite(<<>>, m.bids)
    /\ askMap' = Overwrite(<<>>, m.asks)
    /\ readyFlag' = TRUE

Update(m) ==
    /\ bidMap' = Overwrite(bidMap, m.bids)
    /\ askMap' = Overwrite(askMap, m.asks)
    /\ UNCHANGED readyFlag

Shrink(n) ==
    /\ bidMap' = Best(bidMap, n, >)
    /\ askMap' = Best(askMap, n, <)
    /\ UNCHANGED readyFlag

Forget == bidMap' = <<>> /\ askMap' = <<>> /\ readyFlag' = FALSE

Next ==
    \/ \E m \in Batches : Snapshot(m) \/ Update(m)
    \/ \E n \in Depths : Shrink(n)
    \/ Forget

Spec == Init /\ [][Next]_<<bidMap, askMap, readyFlag>>
=============================================================================
