---------------------------- MODULE EngineProofs ----------------------------
(* What the engine's books and its published quotes promise, for every set  *)
(* of venues, depth and streamed content.                                   *)
EXTENDS Engine, BookLaws

\* The BBO names, for each side, a quoting venue whose own best has its price.
LEMMA BestOfVenues ==
    ASSUME NEW tops, BestOf(tops).valid
    PROVE  LET out == BestOf(tops) IN
           /\ out.bidVenue \in DOMAIN tops /\ Quotes(tops[out.bidVenue])
           /\ out.bid.price = tops[out.bidVenue].bid.price
           /\ out.askVenue \in DOMAIN tops /\ Quotes(tops[out.askVenue])
           /\ out.ask.price = tops[out.askVenue].ask.price
  <1> DEFINE first == Merge(NoQuote, Coinbase, tops)
             Named(out) == /\ out.bidVenue \in DOMAIN tops /\ Quotes(tops[out.bidVenue])
                           /\ out.bid.price = tops[out.bidVenue].bid.price
                           /\ out.askVenue \in DOMAIN tops /\ Quotes(tops[out.askVenue])
                           /\ out.ask.price = tops[out.askVenue].ask.price
  <1>1. first.valid => Named(first)
    <2>1. CASE Coinbase \notin DOMAIN tops \/ ~Quotes(tops[Coinbase])
      BY <2>1 DEF Merge, NoQuote
    <2>2. CASE Coinbase \in DOMAIN tops /\ Quotes(tops[Coinbase])
      <3>1. first = [valid |-> TRUE, bid |-> tops[Coinbase].bid, bidVenue |-> Coinbase,
                     ask |-> tops[Coinbase].ask, askVenue |-> Coinbase]
        BY <2>2, SMTT(30) DEF Merge, NoQuote
      <3> HIDE DEF first
      <3> QED
        BY <2>2, <3>1
    <2> QED
      BY <2>1, <2>2
  <1>2. CASE Kraken \notin DOMAIN tops \/ ~Quotes(tops[Kraken])
    BY <1>1, <1>2 DEF BestOf, Merge
  <1>3. CASE Kraken \in DOMAIN tops /\ Quotes(tops[Kraken]) /\ ~first.valid
    BY <1>3 DEF BestOf, Merge
  <1>4. CASE Kraken \in DOMAIN tops /\ Quotes(tops[Kraken]) /\ first.valid
    <2> DEFINE mid == MergeBid(first, Kraken, tops[Kraken].bid)
    <2>1. first = [valid |-> TRUE, bid |-> tops[Coinbase].bid, bidVenue |-> Coinbase,
                   ask |-> tops[Coinbase].ask, askVenue |-> Coinbase]
      BY <1>4 DEF Merge, NoQuote
    <2>2. Coinbase \in DOMAIN tops /\ Quotes(tops[Coinbase])
      BY <1>4 DEF Merge, NoQuote
    <2>3. BestOf(tops) = MergeAsk(mid, Kraken, tops[Kraken].ask)
      BY <1>4 DEF BestOf, Merge
    <2> QED
      BY <1>4, <2>1, <2>2, <2>3 DEF MergeBid, MergeAsk
  <1> QED
    BY <1>2, <1>3, <1>4

-----------------------------------------------------------------------------
\* A record with the three fields of a Book, and what is promised of it.
IsBook(b) == b = [bids |-> b.bids, asks |-> b.asks, ready |-> b.ready]

BookInv(b) ==
    /\ IsBook(b)
    /\ b.ready \in BOOLEAN
    /\ b.ready => ~IsCrossedOrLocked(b)
    /\ ~b.ready => Depth(b, FALSE) + Depth(b, TRUE) = 0

\* Invalidate leaves an empty book, which is one.
LEMMA InvalidatedBook ==
    ASSUME NEW b
    PROVE  BookInv(Invalidate(b))
  BY DEF BookInv, IsBook, Invalidate, Depth, clear, EmptySide

\* Messages change the sides only, and a snapshot makes the book ready.
LEMMA LevelsKeepBook ==
    ASSUME NEW b, NEW bs, NEW as
    PROVE  /\ IsBook(ApplyUpdate(b, bs, as)) /\ ApplyUpdate(b, bs, as).ready = b.ready
           /\ IsBook(ApplySnapshot(b, bs, as)) /\ ApplySnapshot(b, bs, as).ready = TRUE
  <1>1. ASSUME NEW c
        PROVE  IsBook(applyLevels(c, bs, as)) /\ applyLevels(c, bs, as).ready = c.ready
    BY DEF IsBook, applyLevels
  <1> QED
    BY <1>1 DEF ApplyUpdate, ApplySnapshot

\* Whatever the frame, the book that comes out is uncrossed or empty: nothing
\* is assumed of the levels the frame carries.
LEMMA AppliedBook ==
    ASSUME NEW b, NEW ev, BookInv(b)
    PROVE  BookInv(Applied(b, ev))
  <1>1. ASSUME NEW c, IsBook(c), c.ready = TRUE
        PROVE  BookInv(Checked(ev, c))
    <2> DEFINE t == Truncated(ev.venue, c)
    <2>1. IsBook(t) /\ t.ready = TRUE
      BY <1>1 DEF Truncated, Truncate, IsBook
    <2>2. CASE IsCrossedOrLocked(t) \/ (ev.venue = Kraken /\ ~verifyChecksum(t, ev))
      <3>1. Checked(ev, c) = Invalidate(t)
        BY <2>2 DEF Checked
      <3> QED
        BY <3>1, InvalidatedBook
    <2>3. CASE ~(IsCrossedOrLocked(t) \/ (ev.venue = Kraken /\ ~verifyChecksum(t, ev)))
      <3>1. Checked(ev, c) = t
        BY <2>3 DEF Checked
      <3> HIDE DEF t
      <3> QED
        BY <2>1, <2>3, <3>1 DEF BookInv
    <2> QED
      BY <2>2, <2>3
  <1>2. CASE ev.kind = "snapshot"
    <2>1. Applied(b, ev) = Checked(ev, ApplySnapshot(b, ev.bids, ev.asks))
      BY <1>2 DEF Applied
    <2> QED
      BY <1>1, <2>1, LevelsKeepBook DEF BookInv
  <1>3. CASE ev.kind # "snapshot" /\ b.ready
    <2>1. Applied(b, ev) = Checked(ev, ApplyUpdate(b, ev.bids, ev.asks))
      BY <1>3 DEF Applied
    <2> QED
      BY <1>1, <1>3, <2>1, LevelsKeepBook DEF BookInv
  <1>4. CASE ev.kind # "snapshot" /\ ~b.ready
    BY <1>4 DEF Applied
  <1> QED
    BY <1>2, <1>3, <1>4

-----------------------------------------------------------------------------
\* The inductive invariant: every venue has a book, a ready one is uncrossed,
\* one that is not ready is empty, and the snapshot shows these books.
EngineInv ==
    /\ books = [v \in Venues |-> books[v]]
    /\ \A v \in Venues : BookInv(books[v])
    /\ snap = Snapshot(books)

\* The new books are empty, and the first snapshot says so.
LEMMA InitEngineInv == Init => EngineInv
  <1>1. BookInv(NewBook)
    BY DEF BookInv, IsBook, NewBook, EmptySide, Depth
  <1> QED
    BY <1>1 DEF Init, EngineInv

\* Every frame leaves sound books and a snapshot of them.
LEMMA NextEngineInv == EngineInv /\ [Next]_vars => EngineInv'
  <1> SUFFICES ASSUME EngineInv, [Next]_vars
               PROVE  EngineInv'
    OBVIOUS
  <1>1. ASSUME NEW ev, Apply(ev)
        PROVE  EngineInv'
    <2>1. books' = [books EXCEPT ![ev.venue] = Applied(books[ev.venue], ev)]
      BY <1>1 DEF Apply
    <2>2. books' = [v \in Venues |-> books'[v]]
      BY <2>1 DEF EngineInv
    <2>3. ASSUME NEW v \in Venues
          PROVE  BookInv(books'[v])
      <3>1. BookInv(books[v])
        BY DEF EngineInv
      <3>2. CASE v = ev.venue
        <4>1. books'[v] = Applied(books[v], ev)
          BY <2>1, <3>2 DEF EngineInv
        <4> QED
          BY <3>1, <4>1, AppliedBook
      <3>3. CASE v # ev.venue
        <4>1. books'[v] = books[v]
          BY <2>1, <3>3 DEF EngineInv
        <4> QED
          BY <3>1, <4>1
      <3> QED
        BY <3>2, <3>3
    <2>4. snap' = Snapshot(books')
      BY <1>1 DEF Apply
    <2> QED
      BY <2>2, <2>3, <2>4 DEF EngineInv
  <1>2. ASSUME UNCHANGED <<books, snap>>
        PROVE  EngineInv'
    BY <1>2 DEF EngineInv
  <1>3. ASSUME NEW v \in Venues, RecvSnapshot(v) \/ RecvGarbage(v) \/ RecvUpdate(v)
        PROVE  EngineInv'
    <2>1. PICK ev : Apply(ev)
      BY <1>3 DEF RecvSnapshot, RecvGarbage, RecvUpdate
    <2> QED
      BY <1>1, <2>1
  <1>4. ASSUME NEW v \in Venues, LoseUpdate(v) \/ Reconnect(v)
        PROVE  EngineInv'
    BY <1>2, <1>4 DEF LoseUpdate, Reconnect
  <1> QED
    BY <1>2, <1>3, <1>4 DEF Next, vars

\* The engine invariant holds in every behaviour.
LEMMA EngineInvariant == Spec => []EngineInv
  BY InitEngineInv, NextEngineInv, PTL DEF Spec

-----------------------------------------------------------------------------
\* No ready book is crossed or locked, whatever the venues send and however
\* many frames are lost.
THEOREM ReadyBooksUncrossed == Spec => []ReadyBookUncrossed
  <1>1. EngineInv => ReadyBookUncrossed
    BY DEF EngineInv, BookInv, ReadyBookUncrossed
  <1> QED
    BY <1>1, EngineInvariant, PTL

\* What a quoting venue of the published snapshot shows is its book's.
LEMMA PublishedQuote ==
    ASSUME EngineInv, NEW v, v \in DOMAIN snap.tops, Quotes(snap.tops[v])
    PROVE  /\ books[v].ready /\ ~IsCrossedOrLocked(books[v])
           /\ hasBest(books[v].bids) /\ best(books[v].bids) = snap.tops[v].bid
           /\ hasBest(books[v].asks) /\ best(books[v].asks) = snap.tops[v].ask
  <1>1. snap.tops = [w \in Venues |-> VenueTop(books[w])]
    BY DEF EngineInv, Snapshot
  <1>2. v \in Venues /\ snap.tops[v] = VenueTop(books[v])
    BY <1>1
  <1>3. BookInv(books[v])
    BY <1>2 DEF EngineInv
  <1> QED
    BY <1>2, <1>3 DEF VenueTop, Quotes, BookInv

\* The published BBO names quoting venues with their own best prices.
LEMMA PublishedBBO ==
    ASSUME EngineInv
    PROVE  /\ snap.consolidated.bbo = BestOf(snap.tops)
           /\ snap.consolidated.crossed =
                 (/\ BestOf(snap.tops).valid
                  /\ BestOf(snap.tops).bid.price >= BestOf(snap.tops).ask.price)
  BY DEF EngineInv, Snapshot, ConsolidateTops, Finish

\* A crossed or locked consolidated quote is between two different venues.
THEOREM CrossedOnlyAcrossVenues == Spec => []CrossIsAcrossVenues
  <1>1. EngineInv => CrossIsAcrossVenues
    <2> DEFINE out == BestOf(snap.tops)
    <2> SUFFICES ASSUME EngineInv, snap.consolidated.crossed, out.bidVenue = out.askVenue
                 PROVE  FALSE
      BY PublishedBBO DEF CrossIsAcrossVenues
    <2>1. out.valid /\ out.bid.price >= out.ask.price
      BY PublishedBBO
    <2>2. PICK v : v = out.bidVenue
      OBVIOUS
    <2>3. /\ v \in DOMAIN snap.tops /\ Quotes(snap.tops[v])
          /\ snap.tops[v].bid.price >= snap.tops[v].ask.price
      BY <2>1, <2>2, BestOfVenues
    <2> QED
      BY <2>3, PublishedQuote DEF IsCrossedOrLocked
  <1> QED
    BY <1>1, EngineInvariant, PTL

\* Each side of a published BBO is the best level of a ready book.
THEOREM PublishedQuotesAreLive == Spec => []QuotesAreLive
  <1>1. EngineInv => QuotesAreLive
    <2> DEFINE out == BestOf(snap.tops)
    <2> SUFFICES ASSUME EngineInv, out.valid
                 PROVE  /\ books[out.bidVenue].ready /\ hasBest(books[out.bidVenue].bids)
                        /\ best(books[out.bidVenue].bids).price = out.bid.price
                        /\ books[out.askVenue].ready /\ hasBest(books[out.askVenue].asks)
                        /\ best(books[out.askVenue].asks).price = out.ask.price
      BY PublishedBBO DEF QuotesAreLive
    <2> QED
      BY BestOfVenues, PublishedQuote
  <1> QED
    BY <1>1, EngineInvariant, PTL

-----------------------------------------------------------------------------
\* What verification promises of one book and the checksum last shown.
VerifiedBook(b, c) == b.ready /\ ~ThinBook(b) => BookChecksum(b) = c

\* A frame leaves a Kraken book that is not ready, too thin to verify, or of
\* the frame's own checksum.
LEMMA AppliedBookVerified ==
    ASSUME NEW b, NEW ev, ev.venue = Kraken
    PROVE  VerifiedBook(Applied(b, ev), ev.checksum)
  <1>1. ASSUME NEW c
        PROVE  VerifiedBook(Checked(ev, c), ev.checksum)
    <2> DEFINE t == Truncated(ev.venue, c)
    <2>1. Checked(ev, c) = IF IsCrossedOrLocked(t) \/ ~verifyChecksum(t, ev)
                           THEN Invalidate(t) ELSE t
      BY DEF Checked
    <2> HIDE DEF t
    <2>2. CASE IsCrossedOrLocked(t) \/ ~verifyChecksum(t, ev)
      BY <2>1, <2>2 DEF VerifiedBook, Invalidate
    <2>3. CASE ~IsCrossedOrLocked(t) /\ verifyChecksum(t, ev)
      BY <2>1, <2>3 DEF VerifiedBook, verifyChecksum
    <2> QED
      BY <2>2, <2>3
  <1>2. ASSUME ~b.ready
        PROVE  VerifiedBook(b, ev.checksum)
    BY <1>2 DEF VerifiedBook
  <1> QED
    BY <1>1, <1>2 DEF Applied

\* Every venue has a checksum last shown, and Kraken's is its book's.
ShownInv ==
    /\ shown = [v \in Venues |-> shown[v]]
    /\ \A v \in Venues \cap {Kraken} : VerifiedBook(books[v], shown[v])

\* Lost frames or not, a ready Kraken book that is deep enough to verify shows
\* the levels whose checksum came with the last frame that arrived.
THEOREM ReadyBooksVerified == Spec => []VerifiedTop
  <1>1. Init => ShownInv
    BY DEF Init, ShownInv, VerifiedBook, NewBook
  <1>2. EngineInv /\ ShownInv /\ [Next]_vars => ShownInv'
    <2> SUFFICES ASSUME EngineInv, ShownInv, [Next]_vars
                 PROVE  ShownInv'
      OBVIOUS
    <2>1. ASSUME NEW ev, Apply(ev)
          PROVE  ShownInv'
      <3>1. /\ books' = [books EXCEPT ![ev.venue] = Applied(books[ev.venue], ev)]
            /\ shown' = [shown EXCEPT ![ev.venue] = ev.checksum]
        BY <2>1 DEF Apply
      <3>2. shown' = [v \in Venues |-> shown'[v]]
        BY <3>1 DEF ShownInv
      <3>3. ASSUME NEW v \in Venues \cap {Kraken}
            PROVE  VerifiedBook(books'[v], shown'[v])
        <4>1. CASE v = ev.venue
          <5>1. books'[v] = Applied(books[v], ev) /\ shown'[v] = ev.checksum
            BY <3>1, <4>1 DEF EngineInv, ShownInv
          <5> QED
            BY <4>1, <5>1, AppliedBookVerified
        <4>2. CASE v # ev.venue
          <5>1. books'[v] = books[v] /\ shown'[v] = shown[v]
            BY <3>1, <4>2 DEF EngineInv, ShownInv
          <5> QED
            BY <5>1 DEF ShownInv
        <4> QED
          BY <4>1, <4>2
      <3> QED
        BY <3>2, <3>3 DEF ShownInv
    <2>2. ASSUME UNCHANGED <<books, shown>>
          PROVE  ShownInv'
      BY <2>2 DEF ShownInv
    <2>3. ASSUME NEW v \in Venues, RecvSnapshot(v) \/ RecvGarbage(v) \/ RecvUpdate(v)
          PROVE  ShownInv'
      <3>1. PICK ev : Apply(ev)
        BY <2>3 DEF RecvSnapshot, RecvGarbage, RecvUpdate
      <3> QED
        BY <2>1, <3>1
    <2>4. ASSUME NEW v \in Venues, LoseUpdate(v) \/ Reconnect(v)
          PROVE  ShownInv'
      BY <2>2, <2>4 DEF LoseUpdate, Reconnect
    <2> QED
      BY <2>2, <2>3, <2>4 DEF Next, vars
  <1>3. ShownInv => VerifiedTop
    BY DEF ShownInv, VerifiedBook, VerifiedTop
  <1> QED
    BY <1>1, <1>2, <1>3, EngineInvariant, PTL DEF Spec

-----------------------------------------------------------------------------
(* The best levels of a side.                                              *)

\* The prices of D that are better than p.
Better(D, p, isAsk) == {q \in D : IF isAsk THEN q < p ELSE q > p}

Best(D, n, isAsk) == {p \in D : Cardinality(Better(D, p, isAsk)) < n}

\* Prices that hold the best n of N have the same best n: what lies behind the
\* best does not matter.
LEMMA BestStay ==
    ASSUME NEW N \in SUBSET Int, IsFiniteSet(N), NEW n \in Nat, NEW ask \in BOOLEAN,
           NEW D \in SUBSET N, Best(N, n, ask) \subseteq D
    PROVE  Best(D, n, ask) = Best(N, n, ask)
  <1> DEFINE F == Best(N, n, ask)
             Size(S) == Cardinality(S)
  <1>1. ASSUME NEW S \in SUBSET N
        PROVE  /\ IsFiniteSet(S) /\ Size(S) \in Nat
               /\ \A T \in SUBSET S : /\ Size(T) \in Nat /\ Size(T) <= Size(S)
                                      /\ T # S => Size(T) < Size(S)
    <2>1. IsFiniteSet(S) /\ Size(S) \in Nat
      BY FS_Subset, FS_CardinalityType
    <2>2. ASSUME NEW T \in SUBSET S
          PROVE  /\ Size(T) \in Nat /\ Size(T) <= Size(S)
                 /\ T # S => Size(T) < Size(S)
      <3>1. /\ IsFiniteSet(T) /\ Size(T) <= Size(S)
            /\ Size(S) = Size(T) => S = T
        BY <2>1, FS_Subset
      <3>2. Size(T) \in Nat
        BY <3>1, FS_CardinalityType
      <3> QED
        BY <2>1, <3>1, <3>2
    <2> QED
      BY <2>1, <2>2
  <1> HIDE DEF Size
  <1>2. \A p \in N : Better(N, p, ask) \in SUBSET N /\ Better(D, p, ask) \in SUBSET Better(N, p, ask)
    BY DEF Better
  <1>3. \A p \in N : p \in F <=> Size(Better(N, p, ask)) < n
    BY DEF Best, Size
  <1>4. \A p \in D : p \in Best(D, n, ask) <=> Size(Better(D, p, ask)) < n
    BY DEF Best, Size
  <1>5. F \subseteq N /\ F \subseteq D /\ Best(D, n, ask) \subseteq D
    BY DEF Best
  <1> HIDE DEF F
  <1>6. ASSUME NEW p \in N, NEW q \in Better(N, p, ask)
        PROVE  Better(N, q, ask) \in SUBSET Better(N, p, ask) /\ q \notin Better(N, q, ask)
    <2>1. p \in Int /\ q \in Int /\ (IF ask THEN q < p ELSE q > p)
      BY DEF Better
    <2>2. ASSUME NEW r \in Better(N, q, ask)
          PROVE  r \in Better(N, p, ask) /\ r # q
      <3>1. r \in N /\ r \in Int /\ (IF ask THEN r < q ELSE r > q)
        BY DEF Better
      <3>2. (IF ask THEN r < p ELSE r > p) /\ r # q
        BY <2>1, <3>1
      <3> QED
        BY <3>1, <3>2 DEF Better
    <2> QED
      BY <2>2
  <1>7. \A p, q \in N : p = q \/ p \in Better(N, q, ask) \/ q \in Better(N, p, ask)
    BY DEF Better
  <1>8. ASSUME NEW p \in F
        PROVE  p \in Best(D, n, ask)
    <2>1. /\ Size(Better(N, p, ask)) < n /\ Size(Better(N, p, ask)) \in Nat
          /\ Size(Better(D, p, ask)) <= Size(Better(N, p, ask)) /\ Size(Better(D, p, ask)) \in Nat
      BY <1>1, <1>2, <1>3, <1>5
    <2> QED
      BY <1>4, <1>5, <2>1
  <1>9. ASSUME NEW p \in D, Size(Better(D, p, ask)) < n, p \notin F
        PROVE  FALSE
    <2>1. p \in N /\ Better(D, p, ask) \in SUBSET N
      BY <1>2
    <2>2. ASSUME NEW q \in F
          PROVE  q \in Better(D, p, ask)
      <3>1. q \in N /\ q \in D /\ q # p
        BY <1>5, <1>9
      <3>2. CASE p \in Better(N, q, ask)
        <4>1. /\ Size(Better(N, p, ask)) <= Size(Better(N, q, ask)) /\ Size(Better(N, q, ask)) < n
              /\ Size(Better(N, p, ask)) \in Nat /\ Size(Better(N, q, ask)) \in Nat
          BY <1>1, <1>2, <1>3, <1>6, <2>1, <3>1, <3>2
        <4> QED
          BY <1>3, <1>9, <2>1, <4>1
      <3>3. CASE q \in Better(N, p, ask)
        BY <3>1, <3>3 DEF Better
      <3> QED
        BY <1>7, <2>1, <3>1, <3>2, <3>3
    <2>3. Size(F) \in Nat /\ Size(F) < n
      <3>1. F \in SUBSET Better(D, p, ask)
        BY <2>2
      <3>2. Size(F) \in Nat /\ Size(F) <= Size(Better(D, p, ask)) /\ Size(Better(D, p, ask)) \in Nat
        BY <1>1, <2>1, <3>1
      <3> QED
        BY <1>9, <3>2
    <2> DEFINE T == {Size(Better(N, q, ask)) : q \in N \ F}
    <2>4. T \in SUBSET Nat /\ T # {}
      BY <1>1, <1>2, <1>9, <2>1
    <2>5. PICK k \in T : \A j \in T : k <= j
      BY <2>4, Levels!LeastNatural
    <2>6. PICK b \in N \ F : k = Size(Better(N, b, ask))
      BY <2>5
    <2>7. Better(N, b, ask) \in SUBSET F
      <3> SUFFICES ASSUME NEW r \in Better(N, b, ask), r \notin F
                   PROVE  FALSE
        OBVIOUS
      <3>1. r \in N /\ Size(Better(N, r, ask)) \in T
        BY <1>2
      <3>2. Size(Better(N, r, ask)) < Size(Better(N, b, ask)) /\ Size(Better(N, r, ask)) \in Nat
            /\ Size(Better(N, b, ask)) \in Nat
        BY <1>1, <1>2, <1>6, <3>1
      <3> QED
        BY <2>5, <2>6, <3>1, <3>2
    <2>8. Size(Better(N, b, ask)) <= Size(F) /\ Size(Better(N, b, ask)) \in Nat
      BY <1>1, <1>5, <2>7
    <2> QED
      BY <1>3, <2>3, <2>6, <2>8
  <1> QED
    BY <1>4, <1>5, <1>8, <1>9 DEF F

\* The best levels of a side are a side.
LEMMA TopOfSide ==
    ASSUME NEW f, IsMarketSide(f), NEW n \in Nat, NEW ask \in BOOLEAN
    PROVE  /\ IsMarketSide(TopOf(f, n, ask))
           /\ DOMAIN TopOf(f, n, ask) = Best(DOMAIN f, n, ask)
           /\ DOMAIN TopOf(f, n, ask) \subseteq DOMAIN f
           /\ \A p \in DOMAIN TopOf(f, n, ask) : TopOf(f, n, ask)[p] = f[p]
  <1> DEFINE D == DOMAIN f
             B == Best(D, n, ask)
  <1>1. TopOf(f, n, ask) = [p \in B |-> f[p]]
    BY DEF TopOf, Restrict, Best, Better
  <1>2. B \subseteq D /\ D \subseteq Prices /\ IsFiniteSet(D) /\ f \in [D -> Nat \ {0}]
    BY DEF Best, IsMarketSide
  <1>3. IsFiniteSet(B)
    BY <1>2, FS_Subset
  <1> HIDE DEF B
  <1> QED
    BY <1>1, <1>2, <1>3 DEF IsMarketSide, B

\* A side with the best levels of g, and no other price than g, has the same
\* best levels.
LEMMA TopOfAgain ==
    ASSUME NEW f, NEW g, IsMarketSide(f), IsMarketSide(g), NEW n \in Nat, NEW ask \in BOOLEAN,
           DOMAIN TopOf(g, n, ask) \subseteq DOMAIN f, DOMAIN f \subseteq DOMAIN g,
           \A p \in DOMAIN TopOf(g, n, ask) : f[p] = g[p]
    PROVE  TopOf(f, n, ask) = TopOf(g, n, ask)
  <1> DEFINE B == Best(DOMAIN g, n, ask)
  <1>1. DOMAIN TopOf(g, n, ask) = B
    BY TopOfSide
  <1>2. DOMAIN g \subseteq Int /\ IsFiniteSet(DOMAIN g)
    BY PricesAssumption DEF IsMarketSide
  <1>3. Best(DOMAIN f, n, ask) = B
    BY <1>1, <1>2, BestStay
  <1>4. TopOf(f, n, ask) = [p \in B |-> f[p]]
    BY <1>3 DEF TopOf, Restrict, Best, Better
  <1>5. TopOf(g, n, ask) = [p \in B |-> g[p]]
    BY DEF TopOf, Restrict, Best, Better
  <1> HIDE DEF B
  <1> QED
    BY <1>1, <1>4, <1>5

\* The side f has the levels of s, and no price that g has not.
Covers(f, s, g) ==
    /\ IsMarketSide(f)
    /\ DOMAIN s \subseteq DOMAIN f /\ DOMAIN f \subseteq DOMAIN g
    /\ \A p \in DOMAIN s : f[p] = s[p]

\* A side that has the best levels of g, with their sizes, and no other price
\* than g has them as its own best.
LEMMA BestOfMore ==
    ASSUME NEW ask \in BOOLEAN, NEW n \in Nat, NEW f, NEW g,
           IsMarketSide(g), Covers(f, TopOf(g, n, ask), g)
    PROVE  TopOf(f, n, ask) = TopOf(g, n, ask)
  <1> DEFINE s == TopOf(g, n, ask)
  <1>1. \A p \in DOMAIN s : s[p] = g[p]
    BY TopOfSide
  <1>2. /\ IsMarketSide(f) /\ DOMAIN s \subseteq DOMAIN f /\ DOMAIN f \subseteq DOMAIN g
        /\ \A p \in DOMAIN s : f[p] = s[p]
    BY DEF Covers
  <1>3. \A p \in DOMAIN s : f[p] = g[p]
    BY <1>1, <1>2
  <1> QED
    BY <1>2, <1>3, TopOfAgain

\* Truncation keeps the best levels of a side.
LEMMA TruncatedSide ==
    ASSUME NEW ask \in BOOLEAN, NEW s \in Sides(ask), NEW n \in Nat
    PROVE  truncate(s, n) \in Sides(ask) /\ truncate(s, n).levels = TopOf(s.levels, n, ask)
  <1> DEFINE f == s.levels
  <1>1. truncate(s, n) \in Sides(ask)
    BY TruncateKeepsSide
  <1>2. truncate(s, n).levels
          = Restrict(f, {p \in DOMAIN f : Cardinality({q \in DOMAIN f : worse(s, p, q)}) < n})
    BY TruncateKeepsBest
  <1>3. s.isAsk = ask /\ DOMAIN f \subseteq Int
    BY PricesAssumption DEF Sides
  <1> HIDE DEF f
  <1>4. ASSUME NEW p \in DOMAIN f
        PROVE  {q \in DOMAIN f : worse(s, p, q)} = Better(DOMAIN f, p, ask)
    BY <1>3 DEF worse, Better
  <1>5. {p \in DOMAIN f : Cardinality({q \in DOMAIN f : worse(s, p, q)}) < n}
          = Best(DOMAIN f, n, ask)
    BY <1>4 DEF Best
  <1>6. TopOf(f, n, ask) = Restrict(f, Best(DOMAIN f, n, ask))
    BY DEF TopOf, Best, Better
  <1> QED
    BY <1>1, <1>2, <1>5, <1>6 DEF f

-----------------------------------------------------------------------------
(* Messages made of sets of levels.                                        *)

\* SetToSeq lists a finite set.
LEMMA ListedSet ==
    ASSUME NEW T, NEW S \in SUBSET T, IsFiniteSet(S)
    PROVE  /\ SetToSeq(S) \in Seq(T)
           /\ \A i \in 1..Len(SetToSeq(S)) : SetToSeq(S)[i] \in S
           /\ \A l \in S : \E i \in 1..Len(SetToSeq(S)) : SetToSeq(S)[i] = l
  <1> DEFINE n == Cardinality(S)
             f == SetToSeq(S)
  <1>1. n \in Nat /\ ExistsBijection(1..n, S)
    BY FS_CardinalityType
  <1>2. PICK g \in [1..n -> S] : IsInjective(g)
    BY <1>1 DEF ExistsBijection, Bijection, Injection
  <1>3. f \in [1..n -> S] /\ IsInjective(f)
    BY <1>2 DEF SetToSeq
  <1> HIDE DEF f
  <1>4. f \in Seq(T) /\ Len(f) = n
    BY <1>1, <1>3
  <1>5. f \in Surjection(1..n, S)
    <2>1. f \in Injection(1..n, S)
      BY <1>3 DEF Injection
    <2>2. Cardinality(1..n) = Cardinality(S)
      <3>1. 1 \in Int /\ n \in Int /\ (IF 1 > n THEN 0 ELSE n - 1 + 1) = n
        BY <1>1
      <3> HIDE DEF n
      <3>2. Cardinality(1..n) = n
        BY <3>1, FS_Interval
      <3> QED
        BY <3>2 DEF n
    <2> HIDE DEF n
    <2> QED
      BY <2>1, <2>2, FS_Injection
  <1>6. \A l \in S : \E i \in 1..n : f[i] = l
    BY <1>5 DEF Surjection
  <1> QED
    BY <1>3, <1>4, <1>6 DEF f

\* A message that gives each price one size sets these sizes and no others.
LEMMA MessageSetsSizes ==
    ASSUME NEW ask \in BOOLEAN, NEW s \in Sides(ask), NEW S \in SUBSET Level, IsFiniteSet(S),
           \A k, l \in S : k.price = l.price => k = l
    PROVE  /\ SetToSeq(S) \in Seq(Level)
           /\ FoldLeft(applyLevel, s, SetToSeq(S)) \in Sides(ask)
           /\ \A l \in S : SizeIn(FoldLeft(applyLevel, s, SetToSeq(S)), l.price) = l.qty
           /\ \A p \in Prices : (\A l \in S : l.price # p) =>
                 SizeIn(FoldLeft(applyLevel, s, SetToSeq(S)), p) = SizeIn(s, p)
  <1> DEFINE m == SetToSeq(S)
             t == FoldLeft(applyLevel, s, m)
             n == Len(m)
  <1>1. /\ m \in Seq(Level)
        /\ \A i \in 1..n : m[i] \in S
        /\ \A l \in S : \E i \in 1..n : m[i] = l
    BY ListedSet
  <1> HIDE DEF m
  <1>2. t \in Sides(ask) /\ n \in Nat
    BY <1>1, LevelsKeepSide
  <1>3. \A p \in Prices : SizeIn(t, p) = SizeAfter(s.levels, m, p)
    BY <1>1, LevelsSetSizes
  <1> HIDE DEF t, n
  <1>4. ASSUME NEW l \in S
        PROVE  SizeIn(t, l.price) = l.qty
    <2> DEFINE p == l.price
               G == Given(m, p)
    <2>1. p \in Prices
      BY DEF Level
    <2>2. G \in SUBSET (1..n) /\ G # {}
      BY <1>1 DEF Given, n
    <2>3. Max(G) \in G
      <3>1. Max(G) = Levels!Largest(G)
        BY DEF Max, Levels!Largest
      <3> HIDE DEF G
      <3> QED
        BY <1>2, <2>2, <3>1, Levels!MaxOfBounded
    <2>4. Max(G) \in 1..n /\ m[Max(G)].price = p
      BY <2>2, <2>3 DEF Given
    <2>5. m[Max(G)] = l
      BY <1>1, <2>4
    <2> QED
      BY <1>3, <2>1, <2>2, <2>5 DEF SizeAfter
  <1>5. ASSUME NEW p \in Prices, \A l \in S : l.price # p
        PROVE  SizeIn(t, p) = SizeIn(s, p)
    <2>1. Given(m, p) = {}
      BY <1>1, <1>5 DEF Given, n
    <2> QED
      BY <1>3, <2>1 DEF SizeAfter, SizeIn
  <1> QED
    BY <1>1, <1>2, <1>4, <1>5 DEF m, t

\* A well-formed side with the sizes of a market side has its levels.
LEMMA SideWithSizes ==
    ASSUME NEW ask \in BOOLEAN, NEW t \in Sides(ask), NEW f, IsMarketSide(f),
           \A p \in Prices : SizeIn(t, p) = IF p \in DOMAIN f THEN f[p] ELSE 0
    PROVE  t.levels = f
  <1>1. t.levels = [p \in {q \in Prices : SizeIn(t, q) # 0} |-> SizeIn(t, p)]
    BY SideSizes
  <1>2. DOMAIN f \subseteq Prices /\ f \in [DOMAIN f -> Nat \ {0}]
    BY DEF IsMarketSide
  <1>3. {q \in Prices : SizeIn(t, q) # 0} = DOMAIN f
    BY <1>2
  <1>4. f = [p \in DOMAIN f |-> f[p]] /\ \A p \in DOMAIN f : SizeIn(t, p) = f[p]
    BY <1>2
  <1> QED
    BY <1>1, <1>3, <1>4

\* The levels of some prices of a side, as a set: one for each price.
LEMMA LevelsOfPrices ==
    ASSUME NEW f, IsMarketSide(f), NEW D \in SUBSET DOMAIN f
    PROVE  LET S == {[price |-> p, qty |-> f[p]] : p \in D}
           IN  S \in SUBSET Level /\ IsFiniteSet(S)
  <1> DEFINE S == {[price |-> p, qty |-> f[p]] : p \in D}
             g == [p \in D |-> [price |-> p, qty |-> f[p]]]
  <1>1. S \in SUBSET Level
    BY DEF IsMarketSide, Level
  <1>2. IsFiniteSet(D)
    BY FS_Subset DEF IsMarketSide
  <1>3. g \in Surjection(D, S)
    BY DEF Surjection
  <1> HIDE DEF g, S
  <1>4. IsFiniteSet(S)
    BY <1>2, <1>3, FS_Surjection
  <1> QED
    BY <1>1, <1>4 DEF S

\* A snapshot of a side makes it the book's.
LEMMA SnapshotOfSide ==
    ASSUME NEW ask \in BOOLEAN, NEW f, IsMarketSide(f)
    PROVE  /\ LevelsOf(f) \in Seq(Level)
           /\ FoldLeft(applyLevel, EmptySide(ask), LevelsOf(f)) \in Sides(ask)
           /\ FoldLeft(applyLevel, EmptySide(ask), LevelsOf(f)).levels = f
  <1> DEFINE S == {[price |-> p, qty |-> f[p]] : p \in DOMAIN f}
             e == EmptySide(ask)
             t == FoldLeft(applyLevel, e, SetToSeq(S))
  <1>1. S \in SUBSET Level /\ IsFiniteSet(S)
    BY LevelsOfPrices
  <1>2. \A k, l \in S : k.price = l.price => k = l
    OBVIOUS
  <1>3. LevelsOf(f) = SetToSeq(S)
    BY DEF LevelsOf
  <1>4. \A p \in DOMAIN f : \E l \in S : l.price = p /\ l.qty = f[p]
    <2> TAKE p \in DOMAIN f
    <2> WITNESS [price |-> p, qty |-> f[p]] \in S
    <2> QED
      OBVIOUS
  <1>5. \A l \in S : l.price \in DOMAIN f
    OBVIOUS
  <1>6. e \in Sides(ask) /\ \A p \in Prices : SizeIn(e, p) = 0
    BY EmptySideIsSide DEF EmptySide, SizeIn
  <1> HIDE DEF S, e
  <1>7. /\ SetToSeq(S) \in Seq(Level) /\ t \in Sides(ask)
        /\ \A l \in S : SizeIn(t, l.price) = l.qty
        /\ \A p \in Prices : (\A l \in S : l.price # p) => SizeIn(t, p) = SizeIn(e, p)
    BY <1>1, <1>2, <1>6, MessageSetsSizes
  <1> HIDE DEF t
  <1>8. \A p \in Prices : SizeIn(t, p) = IF p \in DOMAIN f THEN f[p] ELSE 0
    BY <1>4, <1>5, <1>6, <1>7
  <1>9. t.levels = f
    BY <1>7, <1>8, SideWithSizes
  <1> QED
    BY <1>3, <1>7, <1>9 DEF t, e

\* The changes from e to f make a side with e's levels one that has f's, and
\* besides only levels of e that the whole book g still has.
LEMMA ChangesOfSide ==
    ASSUME NEW ask \in BOOLEAN, NEW e, NEW f, NEW g,
           IsMarketSide(e), IsMarketSide(f), IsMarketSide(g), DOMAIN f \subseteq DOMAIN g, NEW s
    PROVE  LET t == FoldLeft(applyLevel, s, Changes(e, f, g))
           IN  /\ Changes(e, f, g) \in Seq(Level)
               /\ (s \in Sides(ask) /\ s.levels = e) => t \in Sides(ask) /\ Covers(t.levels, f, g)
  <1> DEFINE upserts == {p \in DOMAIN f : p \notin DOMAIN e \/ e[p] # f[p]}
             gone == DOMAIN e \ DOMAIN g
             A == {[price |-> p, qty |-> f[p]] : p \in upserts}
             B == {[price |-> p, qty |-> 0] : p \in gone}
             S == A \cup B
             m == Changes(e, f, g)
  <1>1. m = SetToSeq(S)
    BY DEF Changes
  <1>2. /\ DOMAIN e \subseteq Prices /\ IsFiniteSet(DOMAIN e) /\ e \in [DOMAIN e -> Nat \ {0}]
        /\ DOMAIN f \subseteq Prices /\ IsFiniteSet(DOMAIN f) /\ f \in [DOMAIN f -> Nat \ {0}]
        /\ DOMAIN g \subseteq Prices
    BY DEF IsMarketSide
  <1>3. A \in SUBSET Level /\ IsFiniteSet(A)
    <2>1. upserts \in SUBSET DOMAIN f
      OBVIOUS
    <2> HIDE DEF upserts
    <2> QED
      BY <2>1, LevelsOfPrices
  <1>4. B \in SUBSET Level /\ IsFiniteSet(B)
    <2> DEFINE h == [p \in gone |-> [price |-> p, qty |-> 0]]
    <2>1. B \in SUBSET Level
      BY <1>2 DEF Level
    <2>2. gone \in SUBSET DOMAIN e
      OBVIOUS
    <2> HIDE DEF gone
    <2>3. h \in Surjection(gone, B)
      BY DEF Surjection
    <2>4. IsFiniteSet(gone)
      BY <1>2, <2>2, FS_Subset
    <2> HIDE DEF h, B
    <2>5. IsFiniteSet(B)
      BY <2>3, <2>4, FS_Surjection
    <2> QED
      BY <2>1, <2>5
  <1>5. S \in SUBSET Level /\ IsFiniteSet(S)
    <2> HIDE DEF A, B
    <2> QED
      BY <1>3, <1>4, FS_Union
  <1>6. \A l \in S : \/ l.price \in upserts /\ l.qty = f[l.price] /\ l = [price |-> l.price, qty |-> f[l.price]]
                     \/ l.price \in gone /\ l.qty = 0 /\ l = [price |-> l.price, qty |-> 0]
    OBVIOUS
  <1>7. \A p \in upserts : \E l \in S : l.price = p /\ l.qty = f[p]
    <2> TAKE p \in upserts
    <2> WITNESS [price |-> p, qty |-> f[p]] \in S
    <2> QED
      OBVIOUS
  <1>8. \A p \in gone : \E l \in S : l.price = p /\ l.qty = 0
    <2> TAKE p \in gone
    <2> WITNESS [price |-> p, qty |-> 0] \in S
    <2> QED
      OBVIOUS
  <1>9. \A p \in upserts : p \notin gone
    OBVIOUS
  <1> HIDE DEF S
  <1>10. \A k, l \in S : k.price = l.price => k = l
    <2> HIDE DEF upserts, gone
    <2> QED
      BY <1>6, <1>9
  <1>11. m \in Seq(Level)
    BY <1>1, <1>5, ListedSet
  <1> DEFINE t == FoldLeft(applyLevel, s, m)
  <1>12. ASSUME s \in Sides(ask), s.levels = e
         PROVE  /\ t \in Sides(ask) /\ IsMarketSide(t.levels)
                /\ DOMAIN f \subseteq DOMAIN t.levels /\ DOMAIN t.levels \subseteq DOMAIN g
                /\ \A p \in DOMAIN f : t.levels[p] = f[p]
    <2>1. /\ t \in Sides(ask)
          /\ \A l \in S : SizeIn(t, l.price) = l.qty
          /\ \A p \in Prices : (\A l \in S : l.price # p) => SizeIn(t, p) = SizeIn(s, p)
      BY <1>1, <1>5, <1>10, <1>12, MessageSetsSizes
    <2> HIDE DEF t, m
    <2>2. \A p \in Prices : SizeIn(s, p) = IF p \in DOMAIN e THEN e[p] ELSE 0
      BY <1>12 DEF SizeIn
    <2>3. ASSUME NEW p \in DOMAIN f
          PROVE  SizeIn(t, p) = f[p]
      <3>1. CASE p \in upserts
        <4>1. PICK l \in S : l.price = p /\ l.qty = f[p]
          BY <1>7, <3>1
        <4> QED
          BY <2>1, <4>1
      <3>2. CASE p \notin upserts
        <4>1. p \in DOMAIN e /\ e[p] = f[p] /\ p \notin gone /\ p \in Prices
          BY <1>2, <3>2
        <4>2. \A l \in S : l.price # p
          BY <1>6, <3>2, <4>1
        <4> QED
          BY <2>1, <2>2, <4>1, <4>2
      <3> QED
        BY <3>1, <3>2
    <2>4. ASSUME NEW p \in Prices, p \notin DOMAIN g
          PROVE  SizeIn(t, p) = 0
      <3>1. CASE p \in DOMAIN e
        <4>1. PICK l \in S : l.price = p /\ l.qty = 0
          BY <1>8, <2>4, <3>1
        <4> QED
          BY <2>1, <4>1
      <3>2. CASE p \notin DOMAIN e
        <4>1. p \notin upserts /\ p \notin gone
          BY <2>4, <3>2
        <4>2. \A l \in S : l.price # p
          BY <1>6, <4>1
        <4> QED
          BY <2>1, <2>2, <3>2, <4>2
      <3> QED
        BY <3>1, <3>2
    <2>5. PICK E \in SUBSET Prices : t.levels \in [E -> Nat \ {0}]
      BY <2>1 DEF Sides
    <2>6. \A p \in Prices : (p \in E <=> SizeIn(t, p) # 0) /\ (p \in E => SizeIn(t, p) = t.levels[p])
      BY <2>5 DEF SizeIn
    <2>7. DOMAIN f \subseteq E
      BY <1>2, <2>3, <2>6
    <2>8. E \subseteq DOMAIN g
      BY <2>4, <2>6
    <2>9. IsMarketSide(t.levels)
      <3>1. IsFiniteSet(E)
        BY <2>8, FS_Subset DEF IsMarketSide
      <3> QED
        BY <2>5, <3>1 DEF IsMarketSide
    <2> QED
      BY <2>1, <2>3, <2>5, <2>6, <2>7, <2>8, <2>9, <1>2
  <1> HIDE DEF t
  <1> QED
    BY <1>11, <1>12 DEF m, t, Covers

-----------------------------------------------------------------------------
(* What a book shows of its levels.                                        *)

\* The sizes of a side's best n levels, as the checksum reads them.
LEMMA TopNIsTopOf ==
    ASSUME NEW ask \in BOOLEAN, NEW s \in Sides(ask), NEW n \in Nat
    PROVE  LET t == topN(s, n)
           IN  [p \in {l.price : l \in ToSet(t)} |-> (CHOOSE l \in ToSet(t) : l.price = p).qty]
                  = TopOf(s.levels, n, ask)
  <1> DEFINE f == s.levels
             k == Len(s.prices)
             m == IF n < k THEN n ELSE k
             at(i) == s.prices[k - i + 1]
             t == topN(s, n)
             tail == SubSeq(s.prices, k - m + 1, k)
             B == Best(DOMAIN f, m, ask)
  <1>1. /\ k \in Nat /\ m \in 0..k /\ s.prices \in Seq(Prices) /\ s.isAsk = ask
        /\ DOMAIN f \subseteq Int
    BY PricesAssumption DEF Sides
  <1>2. Min({n, k}) = m
    <2> HIDE DEF k
    <2>1. \A x \in {n, k} : m <= x
      BY <1>1
    <2>2. m \in {n, k}
      OBVIOUS
    <2>3. \A x \in {n, k} : (\A y \in {n, k} : x <= y) => x = m
      BY <1>1, <2>1, <2>2
    <2> QED
      BY <2>1, <2>2, <2>3 DEF Min
  <1>3. t = [i \in 1..m |-> [price |-> at(i), qty |-> f[at(i)]]]
    BY <1>2 DEF topN
  <1>4. ToSet(tail) = B
    <2>1. ToSet(tail) = {p \in DOMAIN f : Cardinality({q \in DOMAIN f : worse(s, p, q)}) < m}
      <3>1. m \in 0..Len(s.prices)
        BY <1>1
      <3> HIDE DEF m
      <3> QED
        BY <3>1, TailIsBest
    <2> HIDE DEF f
    <2>2. ASSUME NEW p \in DOMAIN f
          PROVE  {q \in DOMAIN f : worse(s, p, q)} = Better(DOMAIN f, p, ask)
      BY <1>1 DEF worse, Better
    <2> QED
      BY <2>1, <2>2 DEF Best
  <1>5. B \subseteq DOMAIN f
    BY DEF Best
  <1> HIDE DEF B, f
  <1>6. DOMAIN tail = 1..m /\ \A j \in 1..m : tail[j] = s.prices[k - m + j]
    <2> DEFINE a == k - m + 1
    <2>1. a \in Int /\ k \in Int /\ k - a + 1 = m /\ (a <= k \/ m = 0) /\ 1 <= a
          /\ \A j \in 1..m : a + j - 1 = k - m + j
      BY <1>1
    <2>2. \A i \in a..k : s.prices[i] \in Prices
      <3>1. \A i \in 1..k : s.prices[i] \in Prices
        BY <1>1, ElementOfSeq
      <3> HIDE DEF k
      <3> QED
        BY <1>1, <2>1, <3>1
    <2> HIDE DEF a, k, m
    <2>3. /\ SubSeq(s.prices, a, k) \in Seq(Prices) /\ Len(SubSeq(s.prices, a, k)) = m
          /\ \A j \in 1..k - a + 1 : SubSeq(s.prices, a, k)[j] = s.prices[a + j - 1]
      BY <1>1, <2>1, <2>2, SubSeqProperties, SMTT(30)
    <2>4. DOMAIN SubSeq(s.prices, a, k) = 1..m
      BY <2>3
    <2> QED
      BY <2>1, <2>3, <2>4 DEF a
  <1> HIDE DEF tail
  <1>7. \A p \in B : \E i \in 1..m : at(i) = p
    <2> TAKE p \in B
    <2> HIDE DEF k, m
    <2>1. PICK j \in 1..m : tail[j] = p
      BY <1>4, <1>6 DEF ToSet
    <2>2. m - j + 1 \in 1..m /\ k - (m - j + 1) + 1 = k - m + j
      BY <1>1
    <2> QED
      BY <1>6, <2>1, <2>2
  <1>8. /\ \A i \in 1..m : at(i) \in B
        /\ DOMAIN t = 1..m /\ \A i \in 1..m : t[i] = [price |-> at(i), qty |-> f[at(i)]]
    <2> HIDE DEF k, m
    <2>1. ASSUME NEW i \in 1..m
          PROVE  at(i) \in B
      <3>1. m - i + 1 \in 1..m /\ k - m + (m - i + 1) = k - i + 1
        BY <1>1
      <3>2. tail[m - i + 1] = at(i)
        BY <1>6, <3>1
      <3>3. tail[m - i + 1] \in ToSet(tail)
        BY <1>6, <3>1 DEF ToSet
      <3> QED
        BY <1>4, <3>2, <3>3
    <2> HIDE DEF at, t
    <2> QED
      BY <1>3, <2>1
  <1> HIDE DEF m, at, t
  <1> DEFINE lv(p) == [price |-> p, qty |-> f[p]]
  <1>9. /\ \A p : lv(p).price = p /\ lv(p).qty = f[p]
         /\ \A i \in 1..m : t[i] = lv(at(i))
    BY <1>8
  <1> HIDE DEF lv
  <1>10. /\ \A l \in ToSet(t) : \E p \in B : l = lv(p)
         /\ \A p \in B : lv(p) \in ToSet(t)
    <2>1. \A l \in ToSet(t) : \E i \in 1..m : l = t[i]
      BY <1>8 DEF ToSet
    <2>2. \A i \in 1..m : t[i] \in ToSet(t)
      BY <1>8 DEF ToSet
    <2> QED
      BY <1>7, <1>8, <1>9, <2>1, <2>2
  <1>11. {l.price : l \in ToSet(t)} = B
    BY <1>9, <1>10
  <1>12. \A p \in B : (CHOOSE l \in ToSet(t) : l.price = p).qty = f[p]
    <2> TAKE p \in B
    <2>1. lv(p) \in ToSet(t) /\ lv(p).price = p
      BY <1>9, <1>10
    <2>2. \A l \in ToSet(t) : l.price = p => l.qty = f[p]
      BY <1>9, <1>10
    <2> QED
      BY <2>1, <2>2
  <1>13. Best(DOMAIN f, n, ask) = B
    <2>1. CASE n < k
      BY <2>1 DEF B, m
    <2>2. CASE n >= k
      <3>1. m = k
        BY <1>1, <2>2 DEF m
      <3>2. B = DOMAIN f
        <4>1. tail = s.prices
          BY <1>1, <3>1 DEF tail, k
        <4>2. ToSet(s.prices) = DOMAIN f
          BY DEF Sides, SideOK, f
        <4> QED
          BY <1>4, <4>1, <4>2
      <3>3. \A p \in DOMAIN f : Cardinality(Better(DOMAIN f, p, ask)) < k
        BY <3>1, <3>2 DEF B, Best
      <3>4. \A p \in DOMAIN f : Cardinality(Better(DOMAIN f, p, ask)) \in Int
        <4>1. 0 \in 0..Len(s.prices)
          BY <1>1 DEF k
        <4>2. \A p \in DOMAIN f : Cardinality({q \in DOMAIN f : worse(s, p, q)}) \in Nat
          BY <4>1, TailIsBest DEF f
        <4>3. ASSUME NEW p \in DOMAIN f
              PROVE  {q \in DOMAIN f : worse(s, p, q)} = Better(DOMAIN f, p, ask)
          BY <1>1 DEF worse, Better
        <4> QED
          BY <4>2, <4>3
      <3>5. \A p \in DOMAIN f : Cardinality(Better(DOMAIN f, p, ask)) < n
        BY <1>1, <2>2, <3>3, <3>4
      <3> QED
        BY <3>2, <3>5 DEF Best
    <2> QED
      BY <1>1, <2>1, <2>2
  <1>14. TopOf(f, n, ask) = [p \in B |-> f[p]]
    BY <1>13 DEF TopOf, Restrict, Best, Better
  <1> QED
    BY <1>11, <1>12, <1>14 DEF t, f

\* The best price of a side is one of its levels.
LEMMA BestIsLevel ==
    ASSUME NEW ask \in BOOLEAN, NEW s \in Sides(ask), hasBest(s)
    PROVE  best(s).price \in DOMAIN s.levels
  <1>1. s.prices \in Seq(Prices) /\ s.prices # <<>> /\ ToSet(s.prices) = DOMAIN s.levels
    BY DEF Sides, SideOK, hasBest
  <1>2. Len(s.prices) \in DOMAIN s.prices
    BY <1>1
  <1> QED
    BY <1>1, <1>2 DEF best, Last, ToSet

-----------------------------------------------------------------------------
(* A book that misses nothing.                                             *)

\* A venue streams a side of its book, the best levels of it or all of it.
LEMMA StreamedSides ==
    ASSUME NEW v, NEW m, IsMarket(m)
    PROVE  LET s == Streamed(v, m)
           IN  /\ IsMarketSide(m.bids) /\ IsMarketSide(m.asks)
               /\ IsMarketSide(s.bids) /\ DOMAIN s.bids \subseteq DOMAIN m.bids
               /\ IsMarketSide(s.asks) /\ DOMAIN s.asks \subseteq DOMAIN m.asks
               /\ (v = Kraken => /\ s.bids = TopOf(m.bids, KrakenDepth, FALSE)
                                 /\ s.asks = TopOf(m.asks, KrakenDepth, TRUE))
               /\ (v # Kraken => s = m)
  <1>1. IsMarketSide(m.bids) /\ IsMarketSide(m.asks)
    BY DEF IsMarket
  <1>2. FALSE \in BOOLEAN /\ TRUE \in BOOLEAN /\ KrakenDepth \in Nat
    BY DepthsAssumption, ChecksumAssumption
  <1>3. /\ IsMarketSide(TopOf(m.bids, KrakenDepth, FALSE))
        /\ DOMAIN TopOf(m.bids, KrakenDepth, FALSE) \subseteq DOMAIN m.bids
        /\ IsMarketSide(TopOf(m.asks, KrakenDepth, TRUE))
        /\ DOMAIN TopOf(m.asks, KrakenDepth, TRUE) \subseteq DOMAIN m.asks
    BY <1>1, <1>2, TopOfSide
  <1>4. CASE v = Kraken
    <2>1. Streamed(v, m) = [bids |-> TopOf(m.bids, KrakenDepth, FALSE),
                            asks |-> TopOf(m.asks, KrakenDepth, TRUE)]
      BY <1>4 DEF Streamed
    <2> DEFINE b == TopOf(m.bids, KrakenDepth, FALSE)
               a == TopOf(m.asks, KrakenDepth, TRUE)
    <2>2. Streamed(v, m).bids = b /\ Streamed(v, m).asks = a
      BY <2>1
    <2> HIDE DEF a, b
    <2>3. /\ IsMarketSide(b) /\ DOMAIN b \subseteq DOMAIN m.bids
          /\ IsMarketSide(a) /\ DOMAIN a \subseteq DOMAIN m.asks
      BY <1>3 DEF a, b
    <2> QED
      BY <1>1, <1>4, <2>2, <2>3 DEF a, b
  <1>5. CASE v # Kraken
    BY <1>1, <1>5 DEF Streamed
  <1> QED
    BY <1>4, <1>5

\* The best levels among the best are the best, down to a smaller depth.
LEMMA TopOfTop ==
    ASSUME NEW f, IsMarketSide(f), NEW n \in Nat, NEW k \in Nat, k <= n, NEW ask \in BOOLEAN
    PROVE  TopOf(TopOf(f, n, ask), k, ask) = TopOf(f, k, ask)
  <1> DEFINE t == TopOf(f, n, ask)
             b == TopOf(f, k, ask)
  <1>1. /\ IsMarketSide(t) /\ DOMAIN t \subseteq DOMAIN f /\ DOMAIN t = Best(DOMAIN f, n, ask)
        /\ \A p \in DOMAIN t : t[p] = f[p]
    BY TopOfSide
  <1>2. /\ DOMAIN b \subseteq DOMAIN f /\ DOMAIN b = Best(DOMAIN f, k, ask)
        /\ \A p \in DOMAIN b : b[p] = f[p]
    BY TopOfSide
  <1> HIDE DEF t
  <1>3. DOMAIN b \subseteq DOMAIN t
    <2> SUFFICES ASSUME NEW p \in DOMAIN f, Cardinality(Better(DOMAIN f, p, ask)) < k
                 PROVE  Cardinality(Better(DOMAIN f, p, ask)) < n
      BY <1>1, <1>2 DEF Best
    <2>1. IsFiniteSet(Better(DOMAIN f, p, ask))
      <3>1. Better(DOMAIN f, p, ask) \in SUBSET DOMAIN f /\ IsFiniteSet(DOMAIN f)
        BY DEF Better, IsMarketSide
      <3> QED
        BY <3>1, FS_Subset
    <2>2. Cardinality(Better(DOMAIN f, p, ask)) \in Nat
      BY <2>1, FS_CardinalityType
    <2> QED
      BY <2>2
  <1>4. \A p \in DOMAIN b : t[p] = f[p]
    BY <1>1, <1>3
  <1>5. TopOf(t, k, ask) = b
    BY <1>1, <1>3, <1>4, TopOfAgain
  <1> QED
    BY <1>5 DEF t

\* A book that holds what its venue streams of an uncrossed market passes the
\* crossed test and the checksum: neither raises a false alarm.
LEMMA TrueBookPasses ==
    ASSUME NEW v \in Venues, NEW n, IsMarket(n),
           \A p \in DOMAIN n.bids, q \in DOMAIN n.asks : p < q,
           NEW b \in Books, NEW ev, ev.venue = v, ev.checksum = Checksum(v, n),
           Truncated(v, b) \in Books,
           Truncated(v, b).bids.levels = Streamed(v, n).bids,
           Truncated(v, b).asks.levels = Streamed(v, n).asks
    PROVE  Checked(ev, b) = Truncated(v, b)
  <1> DEFINE t == Truncated(v, b)
             s == Streamed(v, n)
  <1>1. t.bids \in Sides(FALSE) /\ t.asks \in Sides(TRUE)
    BY DEF Books
  <1>2. /\ IsMarketSide(n.bids) /\ IsMarketSide(n.asks)
        /\ DOMAIN s.bids \subseteq DOMAIN n.bids /\ DOMAIN s.asks \subseteq DOMAIN n.asks
        /\ (v = Kraken => /\ s.bids = TopOf(n.bids, KrakenDepth, FALSE)
                          /\ s.asks = TopOf(n.asks, KrakenDepth, TRUE))
    BY StreamedSides
  <1>3. t.bids.levels = s.bids /\ t.asks.levels = s.asks
    OBVIOUS
  <1>4. Checked(ev, b) = IF IsCrossedOrLocked(t) \/ (v = Kraken /\ ~verifyChecksum(t, ev))
                         THEN Invalidate(t) ELSE t
    BY DEF Checked
  <1> HIDE DEF t, s
  <1>5. ~IsCrossedOrLocked(t)
    <2> SUFFICES ASSUME hasBest(t.bids), hasBest(t.asks)
                 PROVE  best(t.bids).price < best(t.asks).price
                        /\ best(t.bids).price \in Int /\ best(t.asks).price \in Int
      BY DEF IsCrossedOrLocked
    <2>1. best(t.bids).price \in DOMAIN n.bids /\ best(t.asks).price \in DOMAIN n.asks
      BY <1>1, <1>2, <1>3, BestIsLevel
    <2> QED
      BY <1>2, <2>1, PricesAssumption DEF IsMarketSide
  <1>6. ASSUME v = Kraken
        PROVE  BookChecksum(t) = ev.checksum
    <2>1. ChecksumDepth \in Nat /\ KrakenDepth \in Nat /\ ChecksumDepth <= KrakenDepth
          /\ FALSE \in BOOLEAN /\ TRUE \in BOOLEAN
      BY DepthsAssumption, ChecksumAssumption
    <2> DEFINE k == ChecksumDepth
    <2>2. /\ TopOf(TopOf(n.bids, KrakenDepth, FALSE), k, FALSE) = TopOf(n.bids, k, FALSE)
          /\ TopOf(TopOf(n.asks, KrakenDepth, TRUE), k, TRUE) = TopOf(n.asks, k, TRUE)
      BY <1>2, <2>1, TopOfTop
    <2>3. s.bids = TopOf(n.bids, KrakenDepth, FALSE) /\ s.asks = TopOf(n.asks, KrakenDepth, TRUE)
      BY <1>2, <1>6
    <2>4. BookChecksum(t).bids = TopOf(t.bids.levels, k, FALSE)
      <3> DEFINE l == topN(t.bids, k)
                 c == [p \in {x.price : x \in ToSet(l)} |->
                         (CHOOSE x \in ToSet(l) : x.price = p).qty]
      <3>1. BookChecksum(t).bids = c
        BY DEF BookChecksum, TopN
      <3>2. c = TopOf(t.bids.levels, k, FALSE)
        BY <1>1, <2>1, TopNIsTopOf
      <3> QED
        BY <3>1, <3>2
    <2>5. BookChecksum(t).asks = TopOf(t.asks.levels, k, TRUE)
      <3> DEFINE l == topN(t.asks, k)
                 c == [p \in {x.price : x \in ToSet(l)} |->
                         (CHOOSE x \in ToSet(l) : x.price = p).qty]
      <3>1. BookChecksum(t).asks = c
        BY DEF BookChecksum, TopN
      <3>2. c = TopOf(t.asks.levels, k, TRUE)
        BY <1>1, <2>1, TopNIsTopOf
      <3> QED
        BY <3>1, <3>2
    <2>6. BookChecksum(t) = [bids |-> BookChecksum(t).bids, asks |-> BookChecksum(t).asks]
      BY DEF BookChecksum
    <2>7. Checksum(v, n) = [bids |-> TopOf(n.bids, k, FALSE), asks |-> TopOf(n.asks, k, TRUE)]
      BY <1>6 DEF Checksum
    <2> HIDE DEF k
    <2> QED
      BY <1>3, <2>2, <2>3, <2>4, <2>5, <2>6, <2>7
  <1>7. v = Kraken => verifyChecksum(t, ev)
    BY <1>6 DEF verifyChecksum
  <1> QED
    BY <1>4, <1>5, <1>7 DEF t

\* What is promised of a venue's book while its session has missed nothing.
Mirrors(v, b, m) ==
    b.ready /\ b.bids.levels = Streamed(v, m).bids /\ b.asks.levels = Streamed(v, m).asks

\* The depth kept, and an invalidation, leave a book.
LEMMA CheckedIsBook ==
    ASSUME NEW b \in Books, NEW ev
    PROVE  Truncated(ev.venue, b) \in Books /\ Checked(ev, b) \in Books
  <1>1. KrakenDepth \in Int
    BY DepthsAssumption, ChecksumAssumption
  <1>2. Truncated(ev.venue, b) \in Books
    BY <1>1, BookKept DEF Truncated
  <1> QED
    BY <1>2, BookKept DEF Checked

\* A snapshot of any market makes a book, and of an uncrossed one its mirror.
LEMMA SnapshotMirrors ==
    ASSUME NEW v \in Venues, NEW n, IsMarket(n), NEW b \in Books
    PROVE  /\ Applied(b, SnapshotFrame(v, n)) \in Books
           /\ (\A p \in DOMAIN n.bids, q \in DOMAIN n.asks : p < q) =>
                 Mirrors(v, Applied(b, SnapshotFrame(v, n)), n)
  <1> DEFINE s == Streamed(v, n)
             ev == SnapshotFrame(v, n)
             bs == FoldLeft(applyLevel, EmptySide(FALSE), LevelsOf(s.bids))
             as == FoldLeft(applyLevel, EmptySide(TRUE), LevelsOf(s.asks))
             c == [bids |-> bs, asks |-> as, ready |-> TRUE]
             t == Truncated(v, c)
  <1>1. /\ IsMarketSide(n.bids) /\ IsMarketSide(n.asks)
        /\ IsMarketSide(s.bids) /\ IsMarketSide(s.asks)
        /\ (v = Kraken => /\ s.bids = TopOf(n.bids, KrakenDepth, FALSE)
                          /\ s.asks = TopOf(n.asks, KrakenDepth, TRUE))
    BY StreamedSides
  <1>2. ev.venue = v /\ ev.checksum = Checksum(v, n)
    BY DEF SnapshotFrame
  <1>3. Applied(b, ev) = Checked(ev, c)
    <2>1. ev.kind = "snapshot" /\ ev.bids = LevelsOf(s.bids) /\ ev.asks = LevelsOf(s.asks)
      BY DEF SnapshotFrame
    <2>2. clear(b.bids) = EmptySide(FALSE) /\ clear(b.asks) = EmptySide(TRUE)
      <3>1. b.bids.isAsk = FALSE /\ b.asks.isAsk = TRUE
        BY DEF Books, Sides
      <3> QED
        BY <3>1 DEF clear
    <2> HIDE DEF ev, s
    <2> QED
      BY <2>1, <2>2 DEF Applied, ApplySnapshot, applyLevels
  <1>4. /\ bs \in Sides(FALSE) /\ bs.levels = s.bids
        /\ as \in Sides(TRUE) /\ as.levels = s.asks
    BY <1>1, SnapshotOfSide
  <1> HIDE DEF s, bs, as, ev
  <1>5. c \in Books
    BY <1>4 DEF Books
  <1>6. t \in Books /\ Checked(ev, c) \in Books
    BY <1>2, <1>5, CheckedIsBook
  <1>7. t.ready = TRUE /\ t.bids.levels = s.bids /\ t.asks.levels = s.asks
    <2>1. CASE v = Kraken
      <3>1. t = [bids |-> truncate(bs, KrakenDepth), asks |-> truncate(as, KrakenDepth),
                 ready |-> TRUE]
        BY <2>1 DEF Truncated, Truncate
      <3>2. KrakenDepth \in Nat /\ KrakenDepth <= KrakenDepth
        BY DepthsAssumption, ChecksumAssumption
      <3>3. /\ truncate(bs, KrakenDepth).levels = TopOf(s.bids, KrakenDepth, FALSE)
            /\ truncate(as, KrakenDepth).levels = TopOf(s.asks, KrakenDepth, TRUE)
        BY <1>4, <3>2, TruncatedSide
      <3>4. /\ TopOf(TopOf(n.bids, KrakenDepth, FALSE), KrakenDepth, FALSE)
                  = TopOf(n.bids, KrakenDepth, FALSE)
            /\ TopOf(TopOf(n.asks, KrakenDepth, TRUE), KrakenDepth, TRUE)
                  = TopOf(n.asks, KrakenDepth, TRUE)
        BY <1>1, <3>2, TopOfTop
      <3> HIDE DEF t
      <3> QED
        BY <1>1, <2>1, <3>1, <3>3, <3>4
    <2>2. CASE v # Kraken
      BY <1>4, <2>2 DEF Truncated
    <2> QED
      BY <2>1, <2>2
  <1> HIDE DEF c, t
  <1>8. ASSUME \A p \in DOMAIN n.bids, q \in DOMAIN n.asks : p < q
        PROVE  Mirrors(v, Checked(ev, c), n)
    <2>1. Checked(ev, c) = t
      BY <1>2, <1>5, <1>6, <1>7, <1>8, TrueBookPasses DEF s, t
    <2> QED
      BY <1>7, <2>1 DEF Mirrors, s
  <1> QED
    BY <1>3, <1>6, <1>8 DEF ev

\* The frame of a change keeps a book, and a mirror of the venue's book before
\* it becomes one of the book after it.
LEMMA UpdateMirrors ==
    ASSUME NEW v \in Venues, NEW m, IsMarket(m), NEW n, IsMarket(n),
           \A p \in DOMAIN n.bids, q \in DOMAIN n.asks : p < q, NEW b \in Books
    PROVE  /\ Applied(b, UpdateFrame(v, m, n)) \in Books
           /\ Mirrors(v, b, m) => Mirrors(v, Applied(b, UpdateFrame(v, m, n)), n)
  <1> DEFINE e == Streamed(v, m)
             s == Streamed(v, n)
             ev == UpdateFrame(v, m, n)
             mb == Changes(e.bids, s.bids, n.bids)
             ma == Changes(e.asks, s.asks, n.asks)
             bs == FoldLeft(applyLevel, b.bids, mb)
             as == FoldLeft(applyLevel, b.asks, ma)
             c == ApplyUpdate(b, mb, ma)
             t == Truncated(v, c)
  <1>1. /\ IsMarketSide(e.bids) /\ IsMarketSide(e.asks)
        /\ IsMarketSide(n.bids) /\ IsMarketSide(n.asks)
        /\ IsMarketSide(s.bids) /\ DOMAIN s.bids \subseteq DOMAIN n.bids
        /\ IsMarketSide(s.asks) /\ DOMAIN s.asks \subseteq DOMAIN n.asks
        /\ (v = Kraken => /\ s.bids = TopOf(n.bids, KrakenDepth, FALSE)
                          /\ s.asks = TopOf(n.asks, KrakenDepth, TRUE))
        /\ (v # Kraken => s = n)
    BY StreamedSides
  <1>2. /\ ev.venue = v /\ ev.checksum = Checksum(v, n) /\ ev.kind # "snapshot"
        /\ ev.bids = mb /\ ev.asks = ma
    BY DEF UpdateFrame
  <1>3. Applied(b, ev) = IF b.ready THEN Checked(ev, c) ELSE b
    BY <1>2 DEF Applied
  <1>4. /\ mb \in Seq(Level)
        /\ (b.bids \in Sides(FALSE) /\ b.bids.levels = e.bids) =>
             bs \in Sides(FALSE) /\ Covers(bs.levels, s.bids, n.bids)
    <2> HIDE DEF e, s
    <2> QED
      BY <1>1, ChangesOfSide
  <1>5. /\ ma \in Seq(Level)
        /\ (b.asks \in Sides(TRUE) /\ b.asks.levels = e.asks) =>
             as \in Sides(TRUE) /\ Covers(as.levels, s.asks, n.asks)
    <2> HIDE DEF e, s
    <2> QED
      BY <1>1, ChangesOfSide
  <1> HIDE DEF mb, ma, ev, e, s
  <1>6. c \in Books
    BY <1>4, <1>5, BookKept
  <1>7. c = [bids |-> bs, asks |-> as, ready |-> b.ready]
    BY DEF ApplyUpdate, applyLevels
  <1> HIDE DEF c
  <1>8. t \in Books /\ Checked(ev, c) \in Books
    BY <1>2, <1>6, CheckedIsBook
  <1>9. ASSUME Mirrors(v, b, m)
        PROVE  t.ready /\ t.bids.levels = s.bids /\ t.asks.levels = s.asks
    <2>1. /\ b.ready /\ b.bids \in Sides(FALSE) /\ b.asks \in Sides(TRUE)
          /\ b.bids.levels = e.bids /\ b.asks.levels = e.asks
      BY <1>9 DEF Mirrors, Books, e
    <2>2. bs \in Sides(FALSE) /\ Covers(bs.levels, s.bids, n.bids)
      BY <1>4, <2>1
    <2>3. as \in Sides(TRUE) /\ Covers(as.levels, s.asks, n.asks)
      BY <1>5, <2>1
    <2> HIDE DEF bs, as
    <2>4. CASE v = Kraken
      <3>1. t = [bids |-> truncate(bs, KrakenDepth), asks |-> truncate(as, KrakenDepth),
                 ready |-> b.ready]
        BY <1>7, <2>4 DEF Truncated, Truncate
      <3>2. KrakenDepth \in Nat
        BY DepthsAssumption, ChecksumAssumption
      <3>3. /\ truncate(bs, KrakenDepth).levels = TopOf(bs.levels, KrakenDepth, FALSE)
            /\ truncate(as, KrakenDepth).levels = TopOf(as.levels, KrakenDepth, TRUE)
        BY <2>2, <2>3, <3>2, TruncatedSide
      <3>4. /\ s.bids = TopOf(n.bids, KrakenDepth, FALSE)
            /\ s.asks = TopOf(n.asks, KrakenDepth, TRUE)
        BY <1>1, <2>4
      <3>5. TopOf(bs.levels, KrakenDepth, FALSE) = s.bids
        BY <1>1, <2>2, <3>2, <3>4, BestOfMore
      <3>6. TopOf(as.levels, KrakenDepth, TRUE) = s.asks
        BY <1>1, <2>3, <3>2, <3>4, BestOfMore
      <3> HIDE DEF t
      <3> QED
        BY <2>1, <3>1, <3>3, <3>5, <3>6
    <2>5. CASE v # Kraken
      <3>1. t = c
        BY <2>5 DEF Truncated
      <3>2. DOMAIN bs.levels = DOMAIN s.bids /\ DOMAIN as.levels = DOMAIN s.asks
        BY <1>1, <2>2, <2>3, <2>5 DEF Covers
      <3>3. bs.levels = s.bids /\ as.levels = s.asks
        <4>1. /\ bs.levels = [p \in DOMAIN bs.levels |-> bs.levels[p]]
              /\ as.levels = [p \in DOMAIN as.levels |-> as.levels[p]]
          BY <2>2, <2>3 DEF Covers, IsMarketSide
        <4>2. s.bids = [p \in DOMAIN s.bids |-> s.bids[p]] /\ s.asks = [p \in DOMAIN s.asks |-> s.asks[p]]
          BY <1>1 DEF IsMarketSide
        <4> QED
          BY <2>2, <2>3, <3>2, <4>1, <4>2 DEF Covers
      <3> HIDE DEF t
      <3> QED
        BY <1>7, <2>1, <3>1, <3>3
    <2> QED
      BY <2>4, <2>5
  <1> HIDE DEF t
  <1>10. ASSUME Mirrors(v, b, m)
         PROVE  Mirrors(v, Checked(ev, c), n)
    <2>1. t.ready /\ t.bids.levels = s.bids /\ t.asks.levels = s.asks
      BY <1>9, <1>10
    <2>2. Checked(ev, c) = t
      BY <1>2, <1>6, <1>8, <2>1, TrueBookPasses DEF s, t
    <2> QED
      BY <2>1, <2>2 DEF Mirrors, s
  <1> QED
    BY <1>3, <1>8, <1>10 DEF ev, Mirrors

-----------------------------------------------------------------------------
\* The inductive invariant of faithful books: a venue has one of its markets,
\* its book is one, and mirrors that market while no frame was missed.
MirrorInv ==
    /\ market = [v \in Venues |-> market[v]] /\ books = [v \in Venues |-> books[v]]
    /\ synced = [v \in Venues |-> synced[v]] /\ missed = [v \in Venues |-> missed[v]]
    /\ \A v \in Venues :
        /\ market[v] \in Markets[v]
        /\ books[v] \in Books
        /\ (synced[v] /\ ~missed[v]) => Mirrors(v, books[v], market[v])

\* Before its first snapshot a venue is not synced and its book is empty.
LEMMA InitMirror == Init => MirrorInv
  <1>1. NewBook \in Books
    BY EmptySideIsSide DEF NewBook, Books
  <1> QED
    BY <1>1 DEF Init, MirrorInv

\* A venue that keeps its book, market and session keeps what was true of it;
\* so a step is good that is good for the one venue it is of.
LEMMA OneVenue ==
    ASSUME NEW v \in Venues, MirrorInv, NEW m, NEW b, NEW s, NEW l,
           market' = [market EXCEPT ![v] = m], books' = [books EXCEPT ![v] = b],
           synced' = [synced EXCEPT ![v] = s], missed' = [missed EXCEPT ![v] = l],
           m \in Markets[v], b \in Books, (s /\ ~l) => Mirrors(v, b, m)
    PROVE  MirrorInv'
  <1>1. /\ market' = [w \in Venues |-> market'[w]] /\ books' = [w \in Venues |-> books'[w]]
        /\ synced' = [w \in Venues |-> synced'[w]] /\ missed' = [w \in Venues |-> missed'[w]]
    BY DEF MirrorInv
  <1>2. ASSUME NEW w \in Venues
        PROVE  /\ market'[w] \in Markets[w]
               /\ books'[w] \in Books
               /\ (synced'[w] /\ ~missed'[w]) => Mirrors(w, books'[w], market'[w])
    <2>1. CASE w = v
      <3>1. market'[w] = m /\ books'[w] = b /\ synced'[w] = s /\ missed'[w] = l
        BY <2>1 DEF MirrorInv
      <3> QED
        BY <2>1, <3>1
    <2>2. CASE w # v
      <3>1. /\ market'[w] = market[w] /\ books'[w] = books[w]
            /\ synced'[w] = synced[w] /\ missed'[w] = missed[w]
        BY <2>2 DEF MirrorInv
      <3> QED
        BY <3>1 DEF MirrorInv
    <2> QED
      BY <2>1, <2>2
  <1>3. \A w \in Venues : Mirrors(w, books[w], market[w])' <=> Mirrors(w, books'[w], market'[w])
    BY DEF Mirrors, Streamed
  <1> QED
    BY <1>1, <1>2, <1>3 DEF MirrorInv

\* Every step of the venues and the engine keeps the mirrors.
LEMMA NextMirror == MirrorInv /\ [Next]_vars => MirrorInv'
  <1> SUFFICES ASSUME MirrorInv, [Next]_vars
               PROVE  MirrorInv'
    OBVIOUS
  <1>1. CASE UNCHANGED vars
    BY <1>1 DEF vars, MirrorInv, Mirrors, Streamed
  <1>2. CASE Next
    <2> PICK v \in Venues : RecvSnapshot(v) \/ RecvGarbage(v) \/ RecvUpdate(v)
                            \/ LoseUpdate(v) \/ Reconnect(v)
      BY <1>2 DEF Next
    <2> DEFINE m == market[v]
               b == books[v]
    <2>0. /\ m \in Markets[v] /\ b \in Books
          /\ (synced[v] /\ ~missed[v]) => Mirrors(v, b, m)
          /\ market = [market EXCEPT ![v] = m] /\ books = [books EXCEPT ![v] = b]
          /\ synced = [synced EXCEPT ![v] = synced[v]]
          /\ missed = [missed EXCEPT ![v] = missed[v]]
      BY DEF MirrorInv
    <2>1. \A n \in Markets[v] :
            IsMarket(n) /\ \A p \in DOMAIN n.bids, q \in DOMAIN n.asks : p < q
      BY MarketsAssumption
    <2>2. ASSUME NEW n, NEW ev, ev.venue = v, Apply(ev)
          PROVE  books' = [books EXCEPT ![v] = Applied(b, ev)]
      BY <2>2 DEF Apply
    <2>3. Moves[v] \in [Markets[v] -> SUBSET Markets[v]]
      BY MovesAssumption
    <2> HIDE DEF m, b
    <2>4. CASE RecvSnapshot(v)
      <3> DEFINE ev == SnapshotFrame(v, m)
      <3>1. ev.venue = v
        BY DEF SnapshotFrame
      <3>2. Applied(b, ev) \in Books /\ Mirrors(v, Applied(b, ev), m)
        BY <2>0, <2>1, SnapshotMirrors
      <3> HIDE DEF ev
      <3>3. /\ synced' = [synced EXCEPT ![v] = TRUE] /\ missed' = [missed EXCEPT ![v] = FALSE]
            /\ market' = market /\ Apply(ev)
        BY <2>4 DEF RecvSnapshot, ev, m
      <3>4. books' = [books EXCEPT ![v] = Applied(b, ev)]
        BY <2>2, <3>1, <3>3
      <3> QED
        BY <2>0, <3>2, <3>3, <3>4, OneVenue
    <2>5. CASE RecvGarbage(v)
      <3> PICK n \in Garbage[v] : Apply(SnapshotFrame(v, n))
        BY <2>5 DEF RecvGarbage
      <3> DEFINE ev == SnapshotFrame(v, n)
      <3>1. ev.venue = v
        BY DEF SnapshotFrame
      <3>2. Applied(b, ev) \in Books
        BY <2>0, MarketsAssumption, SnapshotMirrors
      <3> HIDE DEF ev
      <3>3. /\ synced' = [synced EXCEPT ![v] = TRUE] /\ missed' = [missed EXCEPT ![v] = TRUE]
            /\ market' = market /\ Apply(ev)
        BY <2>5 DEF RecvGarbage, ev
      <3>4. books' = [books EXCEPT ![v] = Applied(b, ev)]
        BY <2>2, <3>1, <3>3
      <3> QED
        BY <2>0, <3>2, <3>3, <3>4, OneVenue
    <2>6. CASE RecvUpdate(v)
      <3> PICK n \in Moves[v][m] : /\ market' = [market EXCEPT ![v] = n]
                                   /\ Apply(UpdateFrame(v, m, n))
        BY <2>6 DEF RecvUpdate, m
      <3> DEFINE ev == UpdateFrame(v, m, n)
      <3>1. ev.venue = v
        BY DEF UpdateFrame
      <3>2. n \in Markets[v]
        BY <2>0, <2>3
      <3>3. Applied(b, ev) \in Books /\ (Mirrors(v, b, m) => Mirrors(v, Applied(b, ev), n))
        BY <2>0, <2>1, <3>2, UpdateMirrors
      <3>4. Apply(ev)
        OBVIOUS
      <3> HIDE DEF ev
      <3>5. synced' = synced /\ missed' = missed
        BY <2>6 DEF RecvUpdate
      <3>6. books' = [books EXCEPT ![v] = Applied(b, ev)]
        BY <2>2, <3>1, <3>4
      <3> QED
        BY <2>0, <3>2, <3>3, <3>5, <3>6, OneVenue, ZenonT(30)
    <2>7. CASE LoseUpdate(v)
      <3> PICK n \in Moves[v][m] : market' = [market EXCEPT ![v] = n]
        BY <2>7 DEF LoseUpdate, m
      <3>1. n \in Markets[v]
        BY <2>0, <2>3
      <3>2. missed' = [missed EXCEPT ![v] = synced[v]] /\ synced' = synced /\ books' = books
        BY <2>7 DEF LoseUpdate
      <3> QED
        BY <2>0, <3>1, <3>2, OneVenue
    <2>8. CASE Reconnect(v)
      <3>1. /\ synced' = [synced EXCEPT ![v] = FALSE] /\ missed' = [missed EXCEPT ![v] = FALSE]
            /\ market' = market /\ books' = books
        BY <2>8 DEF Reconnect
      <3> QED
        BY <2>0, <3>1, OneVenue
    <2> QED
      BY <2>4, <2>5, <2>6, <2>7, <2>8
  <1> QED
    BY <1>1, <1>2

\* Whatever the venues' books, their moves and the frames lost: a book that
\* missed no frame of its session is what its venue streams, and is never
\* invalidated by a checksum or crossed test.
THEOREM FaithfulBooks == Spec => []FaithfulBook
  <1>1. MirrorInv => FaithfulBook
    BY DEF MirrorInv, Mirrors, FaithfulBook
  <1> QED
    BY <1>1, InitMirror, NextMirror, PTL DEF Spec

-----------------------------------------------------------------------------
(* Consolidation: the loop over the venues computes the definition.        *)

\* The sizes of any of the two venues, added up.
LEMMA SumOfSizes ==
    ASSUME NEW levels, NEW Q \in SUBSET {Coinbase, Kraken}, \A v \in Q : levels[v].qty \in Int
    PROVE  SizeOf(levels, Q)
             = (IF Coinbase \in Q THEN levels[Coinbase].qty ELSE 0)
               + (IF Kraken \in Q THEN levels[Kraken].qty ELSE 0)
  <1> DEFINE size(v, T) == IF v \in T THEN levels[v].qty ELSE 0
             g == [T \in SUBSET Q |-> size(Coinbase, T) + size(Kraken, T)]
             x(T) == CHOOSE v \in T : TRUE
             f == CHOOSE f : f = [T \in SUBSET Q |->
                                     IF T = {} THEN 0 ELSE levels[x(T)].qty + f[T \ {x(T)}]]
  <1>1. ASSUME NEW T \in SUBSET Q
        PROVE  g[T] = IF T = {} THEN 0 ELSE levels[x(T)].qty + g[T \ {x(T)}]
    <2>1. CASE T = {}
      BY <2>1
    <2>2. CASE T # {}
      <3> DEFINE y == x(T)
                 U == T \ {y}
      <3>1. y \in T
        BY <2>2
      <3>2. U \in SUBSET Q /\ y \notin U /\ T = U \cup {y}
        BY <3>1
      <3>3. g[T] = size(Coinbase, T) + size(Kraken, T) /\ g[U] = size(Coinbase, U) + size(Kraken, U)
        BY <3>2
      <3>4. y \in {Coinbase, Kraken} /\ y \in Q
        BY <3>1
      <3> HIDE DEF y, U, g
      <3>5. g[T] = levels[y].qty + g[U]
        BY <3>2, <3>3, <3>4, TwoVenues
      <3> QED
        BY <2>2, <3>5 DEF y, U
    <2> QED
      BY <2>1, <2>2
  <1>2. g = [T \in SUBSET Q |-> IF T = {} THEN 0 ELSE levels[x(T)].qty + g[T \ {x(T)}]]
    BY <1>1
  <1>3. f = [T \in SUBSET Q |-> IF T = {} THEN 0 ELSE levels[x(T)].qty + f[T \ {x(T)}]]
    <2> HIDE DEF g
    <2> QED
      BY <1>2, ZenonT(30)
  <1>4. SizeOf(levels, Q) = f[Q]
    BY DEF SizeOf, MapThenSumSet, MapThenFoldSet
  <1> HIDE DEF f
  <1>5. ASSUME NEW T \in SUBSET Q, \A U \in SUBSET T : U # T => f[U] = g[U]
        PROVE  f[T] = g[T]
    <2>1. CASE T = {}
      <3>1. f[T] = 0
        BY <1>3, <2>1
      <3>2. g[T] = 0
        BY <1>1, <2>1
      <3> QED
        BY <3>1, <3>2
    <2>2. CASE T # {}
      <3> DEFINE U == T \ {x(T)}
      <3>1. x(T) \in T
        BY <2>2
      <3>2. U \in SUBSET T /\ U # T
        BY <3>1
      <3>3. f[U] = g[U]
        BY <1>5, <3>2
      <3>4. f[T] = levels[x(T)].qty + f[U]
        BY <1>3, <2>2
      <3>5. g[T] = levels[x(T)].qty + g[U]
        BY <1>1, <2>2
      <3> QED
        BY <3>3, <3>4, <3>5
    <2> QED
      BY <2>1, <2>2
  <1>6. f[Q] = g[Q]
    <2> HIDE DEF g
    <2>1. f[{}] = g[{}]
      BY <1>5
    <2>2. ASSUME NEW v \in Q
          PROVE  f[{v}] = g[{v}]
      <3>1. \A U \in SUBSET {v} : U # {v} => U = {}
        OBVIOUS
      <3>2. {v} \in SUBSET Q
        OBVIOUS
      <3> QED
        BY <1>5, <2>1, <3>1, <3>2
    <2>3. ASSUME NEW U \in SUBSET Q, U # Q
          PROVE  f[U] = g[U]
      <3>1. U = {} \/ \E v \in Q : U = {v}
        BY <2>3
      <3> QED
        BY <2>1, <2>2, <3>1
    <2>4. Q \in SUBSET Q
      OBVIOUS
    <2> QED
      BY <1>5, <2>3, <2>4
  <1>7. g[Q] = size(Coinbase, Q) + size(Kraken, Q)
    OBVIOUS
  <1> QED
    BY <1>4, <1>6, <1>7

\* A level of whatever price and size.
AnyLevel == [price : Int, qty : Int]

\* One venue's level is the best of that venue alone.
LEMMA BestOfOne ==
    ASSUME NEW v \in {Coinbase, Kraken}, NEW levels, DOMAIN levels = {v}, levels[v] \in AnyLevel
    PROVE  IsShared(levels, levels[v], v)
  <1> DEFINE l == levels[v]
             sharing == {w \in DOMAIN levels : levels[w].price = l.price}
  <1>1. sharing = {v} /\ l.price \in Int /\ l.qty \in Int
    BY DEF AnyLevel
  <1>2. SizeOf(levels, sharing) = l.qty
    <2>1. sharing \in SUBSET {Coinbase, Kraken} /\ \A w \in sharing : levels[w].qty \in Int
      BY <1>1
    <2>2. SizeOf(levels, sharing)
             = (IF Coinbase \in sharing THEN levels[Coinbase].qty ELSE 0)
               + (IF Kraken \in sharing THEN levels[Kraken].qty ELSE 0)
      <3> HIDE DEF sharing
      <3> QED
        BY <2>1, SumOfSizes
    <2> HIDE DEF sharing
    <2> QED
      BY <1>1, <2>2, TwoVenues
  <1>3. Leads([w \in sharing |-> levels[w].qty], v)
    <2> HIDE DEF sharing
    <2> QED
      BY <1>1 DEF Leads
  <1>4. v \in sharing
    BY <1>1
  <1> QED
    BY <1>2, <1>3, <1>4 DEF IsShared

\* Of two venues' levels: what the loop makes of them, whichever way is better.
TwoMerged(levels, l, v, isBid) ==
    LET c == levels[Coinbase]
        k == levels[Kraken]
    IN IF (IF isBid THEN k.price > c.price ELSE k.price < c.price)
       THEN l = k /\ v = Kraken
       ELSE IF k.price = c.price
       THEN l = [price |-> c.price, qty |-> c.qty + k.qty]
            /\ v = IF k.qty > c.qty THEN Kraken ELSE Coinbase
       ELSE l = c /\ v = Coinbase

\* That is the best of the two.
LEMMA BestOfTwo ==
    ASSUME NEW levels, DOMAIN levels = {Coinbase, Kraken},
           levels[Coinbase] \in AnyLevel, levels[Kraken] \in AnyLevel,
           NEW l, NEW v
    PROVE  /\ TwoMerged(levels, l, v, TRUE) =>
                 /\ IsShared(levels, l, v)
                 /\ \A w \in DOMAIN levels : l.price >= levels[w].price
           /\ TwoMerged(levels, l, v, FALSE) =>
                 /\ IsShared(levels, l, v)
                 /\ \A w \in DOMAIN levels : l.price <= levels[w].price
  <1> DEFINE c == levels[Coinbase]
             k == levels[Kraken]
             sharing == {w \in DOMAIN levels : levels[w].price = l.price}
             sum == (IF Coinbase \in sharing THEN c.qty ELSE 0)
                    + (IF Kraken \in sharing THEN k.qty ELSE 0)
  <1>1. c.price \in Int /\ c.qty \in Int /\ k.price \in Int /\ k.qty \in Int
    BY DEF AnyLevel
  <1>2. SizeOf(levels, sharing) = sum
    <2>1. sharing \in SUBSET {Coinbase, Kraken} /\ \A w \in sharing : levels[w].qty \in Int
      BY <1>1
    <2> HIDE DEF sharing
    <2> QED
      BY <2>1, SumOfSizes
  <1>3. ASSUME \/ TwoMerged(levels, l, v, TRUE)
               \/ TwoMerged(levels, l, v, FALSE)
        PROVE  v \in sharing /\ l.qty = sum /\ Leads([w \in sharing |-> levels[w].qty], v)
    <2>1. CASE k.price = c.price
      <3>1. l = [price |-> c.price, qty |-> c.qty + k.qty]
            /\ v = IF k.qty > c.qty THEN Kraken ELSE Coinbase
        <4> HIDE DEF c, k
        <4> QED
          BY <1>1, <1>3, <2>1 DEF TwoMerged, c, k
      <3>2. sharing = {Coinbase, Kraken}
        BY <2>1, <3>1
      <3>3. l.qty = sum
        <4> HIDE DEF sharing
        <4> QED
          BY <3>1, <3>2
      <3>4. Leads([w \in sharing |-> levels[w].qty], v)
        <4> HIDE DEF sharing
        <4> QED
          BY <1>1, <3>1, <3>2, TwoVenues DEF Leads
      <3> QED
        BY <3>1, <3>2, <3>3, <3>4
    <2>2. CASE k.price # c.price
      <3>1. v \in {Coinbase, Kraken} /\ l = levels[v]
        BY <1>1, <1>3, <2>2 DEF TwoMerged
      <3>2. sharing = {v}
        BY <2>2, <3>1
      <3>3. l.qty = sum
        <4> HIDE DEF sharing
        <4> QED
          BY <1>1, <3>1, <3>2, TwoVenues
      <3>4. Leads([w \in sharing |-> levels[w].qty], v)
        <4> HIDE DEF sharing
        <4> QED
          BY <1>1, <3>1, <3>2 DEF Leads
      <3> QED
        BY <3>1, <3>2, <3>3, <3>4
    <2> QED
      BY <2>1, <2>2
  <1>4. TwoMerged(levels, l, v, TRUE) => \A w \in DOMAIN levels : l.price >= levels[w].price
    BY <1>1 DEF TwoMerged
  <1>5. TwoMerged(levels, l, v, FALSE) => \A w \in DOMAIN levels : l.price <= levels[w].price
    BY <1>1 DEF TwoMerged
  <1> QED
    BY <1>2, <1>3, <1>4, <1>5 DEF IsShared

\* The consolidated tops are the best bid and offer, whatever the tops: the best
\* price of the venues that quote, their sizes at it added up, the venue with the
\* larger size or the first of equals named, and a cross or lock reported exactly
\* when some two quotes make one.
THEOREM ConsolidatesBest ==
    ASSUME NEW tops,
           \A v \in DOMAIN tops : Quotes(tops[v]) => tops[v].bid \in AnyLevel /\ tops[v].ask \in AnyLevel
    PROVE  IsConsolidated(tops, ConsolidateTops(tops))
  <1> DEFINE Q == Quoting(tops)
             bids == [w \in Q |-> tops[w].bid]
             asks == [w \in Q |-> tops[w].ask]
             out == BestOf(tops)
  <1>1. /\ Q \subseteq {Coinbase, Kraken}
        /\ \A v \in Q : Quotes(tops[v]) /\ bids[v] \in AnyLevel /\ asks[v] \in AnyLevel
        /\ \A v \in {Coinbase, Kraken} : v \notin Q <=> v \notin DOMAIN tops \/ ~Quotes(tops[v])
    BY DEF Quoting
  <1>2. DOMAIN bids = Q /\ DOMAIN asks = Q
        /\ \A v \in Q : bids[v] = tops[v].bid /\ asks[v] = tops[v].ask
    OBVIOUS
  <1> HIDE DEF Q
  <1>3. ASSUME NEW v \in {Coinbase, Kraken}, Q = {v}
        PROVE  out = [valid |-> TRUE, bid |-> tops[v].bid, bidVenue |-> v,
                      ask |-> tops[v].ask, askVenue |-> v]
    <2>1. CASE v = Coinbase
      BY <1>1, <1>3, <2>1, TwoVenues DEF BestOf, Merge, NoQuote
    <2>2. CASE v = Kraken
      BY <1>1, <1>3, <2>2, TwoVenues DEF BestOf, Merge, NoQuote
    <2> QED
      BY <2>1, <2>2
  <1>4. ASSUME Q = {Coinbase, Kraken}
        PROVE  /\ out.valid = TRUE
               /\ TwoMerged(bids, out.bid, out.bidVenue, TRUE)
               /\ TwoMerged(asks, out.ask, out.askVenue, FALSE)
    <2> DEFINE c == tops[Coinbase]
               k == tops[Kraken]
               first == [valid |-> TRUE, bid |-> c.bid, bidVenue |-> Coinbase,
                         ask |-> c.ask, askVenue |-> Coinbase]
               mid == MergeBid(first, Kraken, k.bid)
    <2>1. out = MergeAsk(mid, Kraken, k.ask)
      BY <1>1, <1>4 DEF BestOf, Merge, NoQuote
    <2>2. /\ bids[Coinbase] = c.bid /\ bids[Kraken] = k.bid
          /\ asks[Coinbase] = c.ask /\ asks[Kraken] = k.ask
          /\ c.bid \in AnyLevel /\ c.ask \in AnyLevel
      BY <1>1, <1>2, <1>4
    <2>3. /\ mid = [valid |-> TRUE, bid |-> mid.bid, bidVenue |-> mid.bidVenue,
                    ask |-> c.ask, askVenue |-> Coinbase]
          /\ TwoMerged(bids, mid.bid, mid.bidVenue, TRUE)
      <3> HIDE DEF c, k, bids, asks
      <3> QED
        BY <2>2 DEF MergeBid, TwoMerged, AnyLevel
    <2> HIDE DEF mid
    <2>4. /\ out.valid = TRUE /\ out.bid = mid.bid /\ out.bidVenue = mid.bidVenue
          /\ TwoMerged(asks, out.ask, out.askVenue, FALSE)
      <3> HIDE DEF c, k, bids, asks, out
      <3> QED
        BY <2>1, <2>2, <2>3 DEF MergeAsk, TwoMerged, AnyLevel
    <2> QED
      BY <2>3, <2>4
  <1> HIDE DEF bids, asks, out
  <1>5. ASSUME Q # {}
        PROVE  /\ out.valid = TRUE
               /\ IsShared(bids, out.bid, out.bidVenue) /\ IsShared(asks, out.ask, out.askVenue)
               /\ \A w \in Q : out.bid.price >= bids[w].price /\ out.ask.price <= asks[w].price
    <2>1. ASSUME NEW v \in {Coinbase, Kraken}, Q = {v}
          PROVE  /\ out.valid = TRUE
                 /\ IsShared(bids, out.bid, out.bidVenue) /\ IsShared(asks, out.ask, out.askVenue)
                 /\ \A w \in Q : out.bid.price >= bids[w].price /\ out.ask.price <= asks[w].price
      <3>1. /\ DOMAIN bids = {v} /\ DOMAIN asks = {v}
            /\ bids[v] \in AnyLevel /\ asks[v] \in AnyLevel
        BY <1>1, <1>2, <2>1
      <3>2. /\ out.valid = TRUE /\ out.bid = bids[v] /\ out.bidVenue = v
            /\ out.ask = asks[v] /\ out.askVenue = v
        BY <1>2, <1>3, <2>1
      <3>3. IsShared(bids, bids[v], v) /\ IsShared(asks, asks[v], v)
        BY <3>1, BestOfOne
      <3>4. bids[v].price \in Int /\ asks[v].price \in Int
        BY <3>1 DEF AnyLevel
      <3> QED
        BY <2>1, <3>2, <3>3, <3>4
    <2>2. CASE Q = {Coinbase, Kraken}
      <3>1. /\ DOMAIN bids = {Coinbase, Kraken} /\ DOMAIN asks = {Coinbase, Kraken}
            /\ bids[Coinbase] \in AnyLevel /\ bids[Kraken] \in AnyLevel
            /\ asks[Coinbase] \in AnyLevel /\ asks[Kraken] \in AnyLevel
        BY <1>1, <1>2, <2>2
      <3> QED
        BY <1>4, <2>2, <3>1, BestOfTwo
    <2>3. \/ Q = {Coinbase} \/ Q = {Kraken} \/ Q = {Coinbase, Kraken}
      BY <1>1, <1>5
    <2> QED
      BY <2>1, <2>2, <2>3
  <1>6. ASSUME Q = {}
        PROVE  out.valid = FALSE
    BY <1>1, <1>6 DEF BestOf, Merge, NoQuote, out
  <1>7. ASSUME Q # {}
        PROVE  /\ \E v, w \in Q : out.bid.price = tops[v].bid.price /\ out.ask.price = tops[w].ask.price
               /\ \A v, w \in Q : /\ out.bid.price >= tops[v].bid.price
                                  /\ out.ask.price <= tops[w].ask.price
    <2>1. out.bidVenue \in Q /\ out.bid.price = bids[out.bidVenue].price
          /\ out.askVenue \in Q /\ out.ask.price = asks[out.askVenue].price
      BY <1>2, <1>5, <1>7 DEF IsShared
    <2> QED
      BY <1>2, <1>5, <1>7, <2>1, ZenonT(60)
  <1>8. \A v \in Q : tops[v].bid.price \in Int /\ tops[v].ask.price \in Int
    BY <1>1, <1>2 DEF AnyLevel
  <1> DEFINE r == ConsolidateTops(tops)
             b == out.bid.price
             a == out.ask.price
  <1>9. /\ r.bbo = out
        /\ r.crossed = (out.valid /\ b >= a)
        /\ out.valid => r.spread = a - b /\ r.mid = (b + a) \div 2
    BY DEF ConsolidateTops, Finish, out
  <1> HIDE DEF r
  <1>10. ASSUME Q # {}
         PROVE  /\ r.crossed = (\E v, w \in Q : tops[v].bid.price >= tops[w].ask.price)
                /\ ~r.crossed => r.spread > 0 /\ b <= r.mid /\ r.mid < a
    <2> DEFINE cr == \E v, w \in Q : tops[v].bid.price >= tops[w].ask.price
               lk == b >= a
    <2>1. b \in Int /\ a \in Int
      BY <1>7, <1>8, <1>10
    <2>2. lk <=> cr
      <3> HIDE DEF a, b
      <3>1. ASSUME NEW v \in Q, NEW w \in Q, tops[v].bid.price >= tops[w].ask.price
            PROVE  b >= a
        <4>1. b >= tops[v].bid.price /\ a <= tops[w].ask.price
          BY <1>7, <1>10 DEF a, b
        <4> QED
          BY <1>8, <2>1, <3>1, <4>1
      <3>2. ASSUME b >= a
            PROVE  \E v, w \in Q : tops[v].bid.price >= tops[w].ask.price
        <4>1. PICK v \in Q, w \in Q : b = tops[v].bid.price /\ a = tops[w].ask.price
          BY <1>7, <1>10 DEF a, b
        <4> QED
          BY <3>2, <4>1
      <3> QED
        BY <3>1, <3>2
    <2>3. out.valid = TRUE
      BY <1>5, <1>10
    <2>4. r.crossed = (out.valid /\ lk) /\ r.spread = a - b /\ r.mid = (b + a) \div 2
      BY <1>9, <2>3
    <2> HIDE DEF a, b
    <2>5. ~lk => a - b > 0 /\ b <= (b + a) \div 2 /\ (b + a) \div 2 < a
      BY <2>1
    <2>6. r.crossed = cr
      <3> SUFFICES (out.valid /\ lk) = cr
        BY <2>4
      <3> QED
        BY <2>2, <2>3, Zenon
    <2> HIDE DEF lk, cr
    <2>7. ~r.crossed => r.spread > 0 /\ b <= r.mid /\ r.mid < a
      BY <2>3, <2>4, <2>5, Zenon
    <2> QED
      BY <2>6, <2>7 DEF cr
  <1>11. Q = {} => r.crossed = FALSE
    BY <1>6, <1>9
  <1>12. out.valid = (Q # {})
    BY <1>5, <1>6
  <1>13. /\ IsShared(bids, out.bid, out.bidVenue) <=>
               IsShared([w \in Quoting(tops) |-> tops[w].bid], out.bid, out.bidVenue)
         /\ IsShared(asks, out.ask, out.askVenue) <=>
               IsShared([w \in Quoting(tops) |-> tops[w].ask], out.ask, out.askVenue)
    BY DEF bids, asks, Q
  <1>14. Q # {} => \A w \in Q : out.bid.price >= tops[w].bid.price
                                /\ out.ask.price <= tops[w].ask.price
    BY <1>2, <1>5
  <1> HIDE DEF a, b
  <1>15. Q # {} => /\ r.crossed = (\E v, w \in Q : tops[v].bid.price >= tops[w].ask.price)
                   /\ ~r.crossed => r.spread > 0 /\ r.bbo.bid.price <= r.mid
                                    /\ r.mid < r.bbo.ask.price
    BY <1>9, <1>10, Zenon DEF a, b
  <1>16. Q = Quoting(tops)
    BY DEF Q
  <1> SUFFICES IsConsolidated(tops, r)
    BY DEF r
  <1> QED
    BY <1>5, <1>9, <1>11, <1>12, <1>13, <1>14, <1>15, <1>16, Zenon DEF IsConsolidated

\* A side in order has a level at its best price.
LEMMA BestIsQuoted ==
    ASSUME NEW ask \in BOOLEAN, NEW s \in Sides(ask), hasBest(s)
    PROVE  best(s) \in AnyLevel
  <1>1. best(s).price \in DOMAIN s.levels
    BY BestIsLevel
  <1>2. best(s).price \in Int /\ s.levels[best(s).price] \in Int
    BY <1>1, PricesAssumption, SMTT(30) DEF Sides
  <1> QED
    BY <1>2 DEF best, AnyLevel

\* What is published is, in every state, the best bid and offer of the venues'
\* own tops, which are those of the books: no book the engine can reach makes the
\* loop over the venues go wrong.
THEOREM PublishesTheBest == Spec => []ConsolidatesTops
  <1>1. ASSUME EngineInv, MirrorInv
        PROVE  ConsolidatesTops
    <2> DEFINE tops == [v \in Venues |-> VenueTop(books[v])]
    <2>1. snap.tops = tops /\ snap.consolidated = ConsolidateTops(tops)
      BY <1>1 DEF EngineInv, Snapshot
    <2>2. ASSUME NEW v \in Venues, Quotes(tops[v])
          PROVE  tops[v].bid \in AnyLevel /\ tops[v].ask \in AnyLevel
      <3> DEFINE b == books[v]
      <3>1. b.bids \in Sides(FALSE) /\ b.asks \in Sides(TRUE)
        BY <1>1 DEF MirrorInv, Books
      <3>2. /\ hasBest(b.bids) /\ hasBest(b.asks)
            /\ tops[v].bid = best(b.bids) /\ tops[v].ask = best(b.asks)
        BY <2>2 DEF VenueTop, Quotes
      <3>3. best(b.bids) \in AnyLevel /\ best(b.asks) \in AnyLevel
        <4> HIDE DEF b
        <4> QED
          BY <3>1, <3>2, BestIsQuoted
      <3> QED
        BY <3>2, <3>3
    <2> HIDE DEF tops
    <2>3. \A v \in DOMAIN tops : Quotes(tops[v]) => tops[v].bid \in AnyLevel /\ tops[v].ask \in AnyLevel
      BY <2>2 DEF tops
    <2>4. IsConsolidated(tops, ConsolidateTops(tops))
      BY <2>3, ConsolidatesBest
    <2> QED
      BY <2>1, <2>4 DEF ConsolidatesTops, tops
  <1> QED
    BY <1>1, EngineInvariant, InitMirror, NextMirror, PTL DEF Spec
=============================================================================
