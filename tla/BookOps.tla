------------------------------ MODULE BookOps ------------------------------
(***************************************************************************)
(* internal/book: one side of a book is a map from price to level and a    *)
(* slice of prices sorted worst to best, so that the best price is the     *)
(* last; a book is two sides and a ready flag.  A level is [price, qty];   *)
(* its wire strings, which travel with it, are not modelled apart.         *)
(***************************************************************************)
EXTENDS Integers, SequencesExt

CONSTANT Prices     \* the prices a level may have, as integers

ASSUME PricesAssumption == Prices \subseteq Int

\* What the decoders hand over: a size is never negative.
Level == [price : Prices, qty : Nat]

EmptySide(ask) == [levels |-> <<>>, prices |-> <<>>, isAsk |-> ask]

\* a is further from the touch than b.
worse(s, a, b) == IF s.isAsk THEN a > b ELSE a < b

\* sort.Search over the prices: the number of the first that is not worse
\* than p (counted from 0), or their count.
searchIdx(s, p) ==
    Min({i \in 0..Len(s.prices) : i = Len(s.prices) \/ ~worse(s, s.prices[i + 1], p)})

\* The map f with q at p.
Put(f, p, q) == [x \in DOMAIN f \cup {p} |-> IF x = p THEN q ELSE f[x]]

\* Mutant: a new price goes to the end of the slice.
setUnsorted(s, lv) ==
    [s EXCEPT !.levels = Put(@, lv.price, lv.qty),
              !.prices = IF lv.price \in DOMAIN s.levels THEN @ ELSE Append(@, lv.price)]

\* Upsert: overwrite the size of a known price, insert a new one in order.
set(s, lv) ==
    [s EXCEPT !.levels = Put(@, lv.price, lv.qty),
              !.prices = IF lv.price \in DOMAIN s.levels THEN @
                         ELSE InsertAt(@, searchIdx(s, lv.price) + 1, lv.price)]

\* Remove a level; an absent price is a no-op.
del(s, p) ==
    IF p \in DOMAIN s.levels
    THEN [s EXCEPT !.levels = Restrict(@, DOMAIN @ \ {p}),
                   !.prices = RemoveAt(@, searchIdx(s, p) + 1)]
    ELSE s

clear(s) == EmptySide(s.isAsk)

hasBest(s) == s.prices # <<>>
best(s) == [price |-> Last(s.prices), qty |-> s.levels[Last(s.prices)]]

\* Mutant: the best levels are evicted instead of the worst.
truncateBest(s, n) ==
    IF n < 0 \/ Len(s.prices) <= n THEN s
    ELSE LET kept == SubSeq(s.prices, 1, n)
         IN [s EXCEPT !.levels = Restrict(@, ToSet(kept)), !.prices = kept]

\* Keep the best n levels, the tail of the slice.
truncate(s, n) ==
    IF n < 0 \/ Len(s.prices) <= n THEN s
    ELSE LET kept == SubSeq(s.prices, Len(s.prices) - n + 1, Len(s.prices))
         IN [s EXCEPT !.levels = Restrict(@, ToSet(kept)), !.prices = kept]

\* The best n levels, best first.
topN(s, n) ==
    LET m == Min({n, Len(s.prices)})
        price(i) == s.prices[Len(s.prices) - i + 1]
    IN [i \in 1..m |-> [price |-> price(i), qty |-> s.levels[price(i)]]]

\* Both parts of a side say the same: the slice lists the map's prices, each
\* once, from worst to best, and no level has size 0.  Every read (best, topN,
\* the crossed test) and every binary search relies on it.
SideOK(s) ==
    /\ \A i, j \in 1..Len(s.prices) : i < j => worse(s, s.prices[i], s.prices[j])
    /\ ToSet(s.prices) = DOMAIN s.levels
    /\ \A p \in DOMAIN s.levels : p \in Prices /\ s.levels[p] > 0

-----------------------------------------------------------------------------
NewBook == [bids |-> EmptySide(FALSE), asks |-> EmptySide(TRUE), ready |-> FALSE]

\* One level of a message: size 0 deletes, any other size is absolute.
applyLevel(s, lv) == IF lv.qty = 0 THEN del(s, lv.price) ELSE set(s, lv)

applyLevels(b, bs, as) ==
    [bids |-> FoldLeft(applyLevel, b.bids, bs),
     asks |-> FoldLeft(applyLevel, b.asks, as), ready |-> b.ready]

\* Mutant: the levels go over those of the session before.
ApplySnapshotOver(b, bs, as) == applyLevels([b EXCEPT !.ready = TRUE], bs, as)

\* The levels go into cleared sides.
ApplySnapshot(b, bs, as) ==
    applyLevels([bids |-> clear(b.bids), asks |-> clear(b.asks), ready |-> TRUE], bs, as)

ApplyUpdate(b, bs, as) == applyLevels(b, bs, as)

Truncate(b, n) ==
    [bids |-> truncate(b.bids, n), asks |-> truncate(b.asks, n), ready |-> b.ready]

Invalidate(b) == [bids |-> clear(b.bids), asks |-> clear(b.asks), ready |-> FALSE]

Depth(b, ask) == Len(IF ask THEN b.asks.prices ELSE b.bids.prices)

TopN(b, ask, n) == topN(IF ask THEN b.asks ELSE b.bids, n)

IsCrossedOrLocked(b) ==
    /\ hasBest(b.bids) /\ hasBest(b.asks)
    /\ best(b.bids).price >= best(b.asks).price
=============================================================================
