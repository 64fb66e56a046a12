---------------------------- MODULE Consolidate ----------------------------
(***************************************************************************)
(* internal/consolidate: the cross-venue best bid and offer over the ready *)
(* venues that have both sides.  A venue's top is [ready, hasBid, hasAsk,  *)
(* bid, ask], a level [price, qty].  The loop over venueOrder (Coinbase,   *)
(* then Kraken) is written as its two steps.                               *)
(***************************************************************************)
EXTENDS Integers, FiniteSetsExt

CONSTANTS Coinbase, Kraken

ASSUME TwoVenues == Coinbase # Kraken

ZeroLevel == [price |-> 0, qty |-> 0]

NoQuote == [valid |-> FALSE, bid |-> ZeroLevel, bidVenue |-> Coinbase,
            ask |-> ZeroLevel, askVenue |-> Coinbase]

Quotes(top) == top.ready /\ top.hasBid /\ top.hasAsk

\* Mutant: a tie keeps the first venue's size.
MergeBidNoSum(out, v, l) ==
    IF l.price > out.bid.price
    THEN [out EXCEPT !.bid = l, !.bidVenue = v]
    ELSE out

\* Best bid: the maximum; sizes at a shared best add up, and the tie goes to
\* the larger size, then to the earlier venue.
MergeBid(out, v, l) ==
    IF l.price > out.bid.price
    THEN [out EXCEPT !.bid = l, !.bidVenue = v]
    ELSE IF l.price = out.bid.price
    THEN [out EXCEPT !.bid.qty = @ + l.qty,
                     !.bidVenue = IF l.qty > out.bid.qty THEN v ELSE @]
    ELSE out

\* Best ask: the minimum, likewise.
MergeAsk(out, v, l) ==
    IF l.price < out.ask.price
    THEN [out EXCEPT !.ask = l, !.askVenue = v]
    ELSE IF l.price = out.ask.price
    THEN [out EXCEPT !.ask.qty = @ + l.qty,
                     !.askVenue = IF l.qty > out.ask.qty THEN v ELSE @]
    ELSE out

Merge(out, v, tops) ==
    IF v \notin DOMAIN tops \/ ~Quotes(tops[v]) THEN out
    ELSE IF ~out.valid
    THEN [valid |-> TRUE, bid |-> tops[v].bid, bidVenue |-> v,
          ask |-> tops[v].ask, askVenue |-> v]
    ELSE MergeAsk(MergeBid(out, v, tops[v].bid), v, tops[v].ask)

\* The venues merged in venueOrder.
BestOf(tops) == Merge(Merge(NoQuote, Coinbase, tops), Kraken, tops)

\* The result with its derived fields; Mid truncates the half tick.
Finish(out) ==
    [bbo |-> out,
     spread |-> IF out.valid THEN out.ask.price - out.bid.price ELSE 0,
     mid |-> IF out.valid THEN (out.bid.price + out.ask.price) \div 2 ELSE 0,
     crossed |-> out.valid /\ out.bid.price >= out.ask.price]

ConsolidateTops(tops) == Finish(BestOf(tops))

-----------------------------------------------------------------------------
(* The reference: the definition a reader of a best bid and offer expects.  *)

Quoting(tops) == {v \in {Coinbase, Kraken} \cap DOMAIN tops : Quotes(tops[v])}

\* Of the venues that share the best price, v has the largest size, and is the
\* first of those that do.
Leads(sizes, v) ==
    \A w \in DOMAIN sizes : sizes[w] < sizes[v] \/ (sizes[w] = sizes[v] /\ w # Coinbase) \/ w = v

SizeOf(levels, S) == MapThenSumSet(LAMBDA w : levels[w].qty, S)

\* l is the price of some of the levels with their sizes added, and v leads them.
IsShared(levels, l, v) ==
    LET sharing == {w \in DOMAIN levels : levels[w].price = l.price}
    IN /\ v \in sharing
       /\ l.qty = SizeOf(levels, sharing)
       /\ Leads([w \in sharing |-> levels[w].qty], v)

\* Valid exactly when some venue quotes; each side is the best price over the
\* quoting venues, with their sizes at that price added and the largest named.
IsConsolidated(tops, c) ==
    LET Q == Quoting(tops)
        out == c.bbo
    IN /\ out.valid = (Q # {})
       /\ Q # {} =>
            /\ \A w \in Q : out.bid.price >= tops[w].bid.price
                          /\ out.ask.price <= tops[w].ask.price
            /\ IsShared([w \in Q |-> tops[w].bid], out.bid, out.bidVenue)
            /\ IsShared([w \in Q |-> tops[w].ask], out.ask, out.askVenue)
            /\ c.crossed = (\E v, w \in Q : tops[v].bid.price >= tops[w].ask.price)
            /\ ~c.crossed => c.spread > 0 /\ out.bid.price <= c.mid /\ c.mid < out.ask.price
       /\ Q = {} => ~c.crossed
=============================================================================
