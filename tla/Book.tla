-------------------------------- MODULE Book --------------------------------
(***************************************************************************)
(* One venue's book under its four mutating methods, in any order and with *)
(* any message: several levels for one price, sizes of 0 for absent        *)
(* prices, crossed sides.                                                  *)
(***************************************************************************)
EXTENDS BookOps

CONSTANTS
    Batches,    \* the messages: records of two sequences of levels
    Depths      \* the depths a book may be truncated to

ASSUME LevelsAssumption ==
    /\ Batches \subseteq [bids : Seq(Level), asks : Seq(Level)]
    /\ Depths \subseteq Int

VARIABLE book

Init == book = NewBook

OnSnapshot(m) == book' = ApplySnapshot(book, m.bids, m.asks)
OnUpdate(m) == book' = ApplyUpdate(book, m.bids, m.asks)
OnTruncate(n) == book' = Truncate(book, n)
OnInvalidate == book' = Invalidate(book)

Next ==
    \/ \E m \in Batches : OnSnapshot(m) \/ OnUpdate(m)
    \/ \E n \in Depths : OnTruncate(n)
    \/ OnInvalidate

Spec == Init /\ [][Next]_book

-----------------------------------------------------------------------------
\* The map and the slice of each side agree, and the slice is in order.
SidesConsistent ==
    /\ ~book.bids.isAsk /\ SideOK(book.bids)
    /\ book.asks.isAsk /\ SideOK(book.asks)

\* The map a reader of a side would reconstruct from its slice of prices.
ReadBack(s) == [p \in ToSet(s.prices) |-> s.levels[p]]

\* The book implements the plain map from price to size, read through the slice:
\* upserts are absolute, the last level of a message wins, truncation keeps
\* the best, a snapshot replaces everything.
Map == INSTANCE BookMap WITH bidMap <- ReadBack(book.bids), askMap <- ReadBack(book.asks),
                             readyFlag <- book.ready

ImplementsMap == Map!Spec
=============================================================================
