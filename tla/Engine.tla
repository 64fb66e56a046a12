------------------------------- MODULE Engine -------------------------------
(***************************************************************************)
(* internal/engine over real levels: the single writer applies a venue's   *)
(* frames to its book, truncates, tests and verifies it, invalidates what  *)
(* it cannot trust, and publishes tops and the consolidated BBO.           *)
(*                                                                         *)
(* The venues are external: each has a book of its own and streams it      *)
(* session by session, a snapshot and then the changes, of which any may   *)
(* be lost on the way.  Kraken streams the best Depth levels a side: a     *)
(* level pushed out of them is not mentioned, one that moves up into them  *)
(* is.  Pipeline.tla models the channel, the tokens and the sessions.      *)
(***************************************************************************)
EXTENDS TopChecksum, Consolidate

CONSTANTS
    Venues,         \* the configured venues
    KrakenDepth,    \* subscribed depth of the Kraken book (Engine.depth)
    Markets,        \* by venue, the uncrossed books it may have,
    Moves,          \* for each of these those it may become by one frame,
    Garbage         \* and crossed or locked books it may send as a snapshot

\* The levels of a side: any number of prices, with sizes.
IsMarketSide(f) ==
    /\ DOMAIN f \subseteq Prices /\ IsFiniteSet(DOMAIN f)
    /\ f \in [DOMAIN f -> Nat \ {0}]

IsMarket(m) ==
    m = [bids |-> m.bids, asks |-> m.asks] /\ IsMarketSide(m.bids) /\ IsMarketSide(m.asks)

ASSUME VenuesKnown == Venues \subseteq {Coinbase, Kraken}
ASSUME MarketsAssumption ==
    \A v \in Venues :
        /\ \A m \in Markets[v] :
            IsMarket(m) /\ \A b \in DOMAIN m.bids, a \in DOMAIN m.asks : b < a
        /\ \A m \in Garbage[v] : IsMarket(m)
ASSUME MovesAssumption == \A v \in Venues : Moves[v] \in [Markets[v] -> SUBSET Markets[v]]
ASSUME DepthsAssumption ==
    KrakenDepth \in Nat /\ KrakenDepth >= ChecksumDepth

VARIABLES
    market,     \* the venue's own book: [bids, asks], maps from price to size
    synced,     \* this session's snapshot has been sent
    missed,     \* a frame of this session was lost, or its snapshot was garbage
    shown,      \* the checksum sent with the last frame that arrived
    books,      \* Engine.books
    snap        \* the last published Snapshot

vars == <<market, synced, missed, shown, books, snap>>

-----------------------------------------------------------------------------
(* The venue (external).                                                   *)

\* The best n levels of a side.
TopOf(f, n, isAsk) ==
    LET better(p) == {q \in DOMAIN f : IF isAsk THEN q < p ELSE q > p}
    IN Restrict(f, {p \in DOMAIN f : Cardinality(better(p)) < n})

\* What a venue streams of its book.
Streamed(v, m) ==
    IF v = Kraken
    THEN [bids |-> TopOf(m.bids, KrakenDepth, FALSE), asks |-> TopOf(m.asks, KrakenDepth, TRUE)]
    ELSE m

LevelsOf(f) == SetToSeq({[price |-> p, qty |-> f[p]] : p \in DOMAIN f})

\* The checksum, taken as injective: the levels it covers.  Coinbase sends none.
Checksum(v, m) ==
    LET n == IF v = Kraken THEN ChecksumDepth ELSE 0
    IN [bids |-> TopOf(m.bids, n, FALSE), asks |-> TopOf(m.asks, n, TRUE)]

\* The levels of f that a frame must carry to turn e into it; a level that left
\* is deleted only if it is gone from the venue's whole book g.
Changes(e, f, g) ==
    LET upserts == {p \in DOMAIN f : p \notin DOMAIN e \/ e[p] # f[p]}
        gone == DOMAIN e \ DOMAIN g
    IN SetToSeq({[price |-> p, qty |-> f[p]] : p \in upserts}
                \cup {[price |-> p, qty |-> 0] : p \in gone})

SnapshotFrame(v, m) ==
    [venue |-> v, kind |-> "snapshot", bids |-> LevelsOf(Streamed(v, m).bids),
     asks |-> LevelsOf(Streamed(v, m).asks), checksum |-> Checksum(v, m)]

UpdateFrame(v, m, n) ==
    [venue |-> v, kind |-> "update",
     bids |-> Changes(Streamed(v, m).bids, Streamed(v, n).bids, n.bids),
     asks |-> Changes(Streamed(v, m).asks, Streamed(v, n).asks, n.asks),
     checksum |-> Checksum(v, n)]

-----------------------------------------------------------------------------
(* The engine.                                                             *)

\* Mutant: both venues' books are truncated.
TruncatedAll(v, b) == Truncate(b, KrakenDepth)

\* Kraken's book is kept to the subscribed depth.
Truncated(v, b) == IF v = Kraken THEN Truncate(b, KrakenDepth) ELSE b

\* Mutant: a locked book passes.
CheckedCrossOnly(ev, b) ==
    LET t == Truncated(ev.venue, b)
        crossed == hasBest(t.bids) /\ hasBest(t.asks)
                   /\ best(t.bids).price > best(t.asks).price
    IN IF crossed \/ (ev.venue = Kraken /\ ~verifyChecksum(t, ev))
       THEN Invalidate(t) ELSE t

\* After the levels: truncate, then invalidate a crossed, locked or
\* unverifiable book (the resync it asks for is the venue's next session).
Checked(ev, b) ==
    LET t == Truncated(ev.venue, b)
    IN IF IsCrossedOrLocked(t) \/ (ev.venue = Kraken /\ ~verifyChecksum(t, ev))
       THEN Invalidate(t) ELSE t

\* Updates on a book that is not ready wait for its snapshot.
Applied(b, ev) ==
    IF ev.kind = "snapshot" THEN Checked(ev, ApplySnapshot(b, ev.bids, ev.asks))
    ELSE IF b.ready THEN Checked(ev, ApplyUpdate(b, ev.bids, ev.asks))
    ELSE b

VenueTop(b) ==
    [ready |-> b.ready,
     hasBid |-> hasBest(b.bids), hasAsk |-> hasBest(b.asks),
     bid |-> IF hasBest(b.bids) THEN best(b.bids) ELSE ZeroLevel,
     ask |-> IF hasBest(b.asks) THEN best(b.asks) ELSE ZeroLevel]

Snapshot(bs) ==
    LET tops == [v \in Venues |-> VenueTop(bs[v])]
    IN [tops |-> tops, consolidated |-> ConsolidateTops(tops)]

\* Mutant: the snapshot is built before the event is applied.
ApplyAfterPublish(ev) ==
    /\ books' = [books EXCEPT ![ev.venue] = Applied(@, ev)]
    /\ snap' = Snapshot(books)
    /\ shown' = [shown EXCEPT ![ev.venue] = ev.checksum]

\* Apply: the venue's book and a fresh snapshot of all books.
Apply(ev) ==
    /\ books' = [books EXCEPT ![ev.venue] = Applied(@, ev)]
    /\ snap' = Snapshot(books')
    /\ shown' = [shown EXCEPT ![ev.venue] = ev.checksum]

-----------------------------------------------------------------------------
EmptyMarket == [bids |-> <<>>, asks |-> <<>>]

Init ==
    /\ market \in {m \in [Venues -> UNION {Markets[v] : v \in Venues}] :
                       \A v \in Venues : m[v] \in Markets[v]}
    /\ synced = [v \in Venues |-> FALSE]
    /\ missed = [v \in Venues |-> FALSE]
    /\ shown = [v \in Venues |-> Checksum(v, EmptyMarket)]
    /\ books = [v \in Venues |-> NewBook]
    /\ snap = Snapshot(books)

\* A session starts: its snapshot arrives.
RecvSnapshot(v) ==
    /\ ~synced[v]
    /\ synced' = [synced EXCEPT ![v] = TRUE]
    /\ missed' = [missed EXCEPT ![v] = FALSE]
    /\ Apply(SnapshotFrame(v, market[v]))
    /\ UNCHANGED market

\* A garbled snapshot: a bid at or above the ask.
RecvGarbage(v) ==
    /\ ~synced[v]
    /\ synced' = [synced EXCEPT ![v] = TRUE]
    /\ missed' = [missed EXCEPT ![v] = TRUE]
    /\ \E m \in Garbage[v] : Apply(SnapshotFrame(v, m))
    /\ UNCHANGED market

\* The venue's book changes, by any number of levels, and the frame arrives.
RecvUpdate(v) ==
    /\ synced[v]
    /\ \E n \in Moves[v][market[v]] :
        /\ market' = [market EXCEPT ![v] = n]
        /\ Apply(UpdateFrame(v, market[v], n))
    /\ UNCHANGED <<synced, missed>>

\* The venue's book changes and the frame is lost (or no session is up).
LoseUpdate(v) ==
    /\ \E n \in Moves[v][market[v]] : market' = [market EXCEPT ![v] = n]
    /\ missed' = [missed EXCEPT ![v] = synced[v]]
    /\ UNCHANGED <<synced, shown, books, snap>>

\* The session ends, for whatever reason; the next starts with a snapshot.
Reconnect(v) ==
    /\ synced[v]
    /\ synced' = [synced EXCEPT ![v] = FALSE]
    /\ missed' = [missed EXCEPT ![v] = FALSE]
    /\ UNCHANGED <<market, shown, books, snap>>

Next == \E v \in Venues : RecvSnapshot(v) \/ RecvGarbage(v) \/ RecvUpdate(v)
                          \/ LoseUpdate(v) \/ Reconnect(v)

Spec == Init /\ [][Next]_vars

-----------------------------------------------------------------------------
\* A book that missed no frame of its session is, level for level, what the
\* venue streams, and stays ready: deletes, absolute sizes and truncation keep
\* it in step, and no checksum or crossed test raises a false alarm.
FaithfulBook ==
    \A v \in Venues : synced[v] /\ ~missed[v] =>
        /\ books[v].ready
        /\ books[v].bids.levels = Streamed(v, market[v]).bids
        /\ books[v].asks.levels = Streamed(v, market[v]).asks

\* Even after lost frames, a ready Kraken book with full sides shows the top
\* levels the venue had at the last frame that arrived.
VerifiedTop ==
    \A v \in Venues \cap {Kraken} :
        books[v].ready /\ ~ThinBook(books[v]) => BookChecksum(books[v]) = shown[v]

\* No crossed or locked book is ever ready, and only a ready book has levels.
ReadyBookUncrossed ==
    \A v \in Venues : /\ books[v].ready => ~IsCrossedOrLocked(books[v])
                      /\ ~books[v].ready => Depth(books[v], FALSE) + Depth(books[v], TRUE) = 0

\* A crossed or locked consolidated quote is always one between two venues:
\* no lost frame or garbage makes a venue cross itself in what is published.
CrossIsAcrossVenues ==
    LET c == snap.consolidated
    IN c.crossed => c.bbo.bidVenue # c.bbo.askVenue

\* What is published is what the books hold: each side of the BBO is the best
\* level of a book that is ready now.
QuotesAreLive ==
    LET c == snap.consolidated.bbo
        Shows(v, s, l) == books[v].ready /\ hasBest(s) /\ best(s).price = l.price
    IN c.valid => /\ Shows(c.bidVenue, books[c.bidVenue].bids, c.bid)
                  /\ Shows(c.askVenue, books[c.askVenue].asks, c.ask)

\* The loop over the venues computes the best bid and offer as defined, from the books
\* as they are now: best price, sizes at a shared best added, the larger venue named,
\* the first on a tie, and a cross reported exactly when some quoting venues cross.
ConsolidatesTops ==
    /\ IsConsolidated(snap.tops, snap.consolidated)
    /\ snap.tops = [v \in Venues |-> VenueTop(books[v])]
=============================================================================
