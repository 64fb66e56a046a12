----------------------------- MODULE BookProofs -----------------------------
(* The book of one venue, for any prices, messages and depths: the parts of *)
(* its sides agree, it implements BookMap, and a replay that keeps other    *)
(* levels differs from it by levels it evicted.                             *)
EXTENDS Book, BookLaws, Replay


\* The inductive invariant: two well-formed sides.
IInv == book \in Books

\* A new book is empty.
LEMMA InitIInv == Init => IInv
  <1>1. NewBook \in Books
    BY EmptySideIsSide DEF NewBook, Books
  <1> QED
    BY <1>1 DEF Init, IInv

\* No message, truncation or invalidation breaks a side.
LEMMA NextIInv == IInv /\ [Next]_book => IInv'
  <1> SUFFICES ASSUME book \in Books, [Next]_book
               PROVE  book' \in Books
    BY DEF IInv
  <1>1. CASE UNCHANGED book
    BY <1>1
  <1>2. \A m \in Batches : m.bids \in Seq(Level) /\ m.asks \in Seq(Level)
    BY LevelsAssumption
  <1>3. ASSUME NEW m \in Batches, OnSnapshot(m)
        PROVE  book' \in Books
    BY <1>2, <1>3, BookKept DEF OnSnapshot
  <1>4. ASSUME NEW m \in Batches, OnUpdate(m)
        PROVE  book' \in Books
    BY <1>2, <1>4, BookKept DEF OnUpdate
  <1>5. ASSUME NEW n \in Depths, OnTruncate(n)
        PROVE  book' \in Books
    BY <1>5, BookKept, LevelsAssumption DEF OnTruncate
  <1>6. CASE OnInvalidate
    BY <1>6, BookKept DEF OnInvalidate
  <1> QED
    BY <1>1, <1>3, <1>4, <1>5, <1>6 DEF Next

\* Whatever the messages, the map and the slice of each side agree and the
\* slice is in order: the book can be read and searched at any time.
THEOREM AlwaysSidesConsistent == Spec => []SidesConsistent
  <1>1. IInv => SidesConsistent
    BY DEF IInv, Books, Sides, SidesConsistent
  <1> QED
    BY <1>1, InitIInv, NextIInv, PTL DEF Spec

-----------------------------------------------------------------------------
(* The book implements BookMap: what its slices and maps hold is the plain  *)
(* map from price to size.                                                  *)

\* A side read through its slice is its map.
LEMMA ReadBackLevels ==
  ASSUME NEW ask \in BOOLEAN, NEW s \in Sides(ask)
  PROVE  ReadBack(s) = s.levels
  <1>1. PICK D \in SUBSET Prices : s.levels \in [D -> Nat \ {0}]
    BY DEF Sides
  <1>2. ToSet(s.prices) = D
    BY <1>1 DEF Sides, SideOK
  <1> QED
    BY <1>1, <1>2 DEF ReadBack

\* The map after a message.
LEMMA LevelsOverwrite ==
  ASSUME NEW ask \in BOOLEAN, NEW s \in Sides(ask), NEW lvs \in Seq(Level)
  PROVE  ReadBack(FoldLeft(applyLevel, s, lvs)) = Map!Overwrite(ReadBack(s), lvs)
  <1> DEFINE t == FoldLeft(applyLevel, s, lvs)
  <1>1. t \in Sides(ask)
    BY LevelsKeepSide
  <1>2. ASSUME NEW p \in Prices
        PROVE  SizeIn(t, p) = Map!SizeAfter(s.levels, lvs, p)
    <2>1. SizeIn(t, p) = SizeAfter(s.levels, lvs, p)
      BY LevelsSetSizes
    <2> HIDE DEF t
    <2> QED
      BY <2>1 DEF SizeAfter, Given, Map!SizeAfter, Map!Given, Map!Max, Max
  <1> HIDE DEF t
  <1>3. t.levels = [p \in {q \in Prices : SizeIn(t, q) # 0} |-> SizeIn(t, p)]
    BY <1>1, SideSizes
  <1>4. ReadBack(s) = s.levels /\ ReadBack(t) = t.levels
    BY <1>1, ReadBackLevels
  <1>5. {q \in Prices : SizeIn(t, q) # 0} = {q \in Prices : Map!SizeAfter(s.levels, lvs, q) # 0}
    BY <1>2
  <1> QED
    BY <1>2, <1>3, <1>4, <1>5 DEF Map!Overwrite, t

\* What BookMap keeps of a side.
LEMMA TruncateIsBest ==
  ASSUME NEW m \in Nat
  PROVE  /\ \A s \in Sides(FALSE) : ReadBack(truncate(s, m)) = Map!Best(ReadBack(s), m, >)
         /\ \A s \in Sides(TRUE) : ReadBack(truncate(s, m)) = Map!Best(ReadBack(s), m, <)
  <1>1. ASSUME NEW ask \in BOOLEAN, NEW s \in Sides(ask)
        PROVE  /\ ReadBack(s) = s.levels
               /\ ReadBack(truncate(s, m)) = truncate(s, m).levels
               /\ s.isAsk = ask /\ DOMAIN s.levels \subseteq Int
    <2>1. truncate(s, m) \in Sides(ask)
      BY TruncateKeepsSide
    <2> QED
      BY <2>1, ReadBackLevels, PricesAssumption DEF Sides
  <1>2. ASSUME NEW s \in Sides(FALSE)
        PROVE  ReadBack(truncate(s, m)) = Map!Best(ReadBack(s), m, >)
    <2> DEFINE f == s.levels
    <2>1. ReadBack(s) = f /\ ReadBack(truncate(s, m)) = truncate(s, m).levels
          /\ s.isAsk = FALSE /\ DOMAIN f \subseteq Int
      BY <1>1
    <2>2. truncate(s, m).levels
            = Restrict(f, {p \in DOMAIN f : Cardinality({q \in DOMAIN f : worse(s, p, q)}) < m})
      BY TruncateKeepsBest
    <2> HIDE DEF f
    <2>3. \A p \in DOMAIN f : {q \in DOMAIN f : worse(s, p, q)} = {q \in DOMAIN f : q > p}
      BY <2>1 DEF worse
    <2>4. {p \in DOMAIN f : Cardinality({q \in DOMAIN f : worse(s, p, q)}) < m}
            = {p \in DOMAIN f : Cardinality({q \in DOMAIN f : q > p}) < m}
      BY <2>3
    <2>5. Map!Best(f, m, >) = Restrict(f, {p \in DOMAIN f : Cardinality({q \in DOMAIN f : q > p}) < m})
      BY DEF Map!Best, Map!Restrict, Restrict, Map!Cardinality, Cardinality
    <2> QED
      BY <2>1, <2>2, <2>4, <2>5
  <1>3. ASSUME NEW s \in Sides(TRUE)
        PROVE  ReadBack(truncate(s, m)) = Map!Best(ReadBack(s), m, <)
    <2> DEFINE f == s.levels
    <2>1. ReadBack(s) = f /\ ReadBack(truncate(s, m)) = truncate(s, m).levels
          /\ s.isAsk = TRUE /\ DOMAIN f \subseteq Int
      BY <1>1
    <2>2. truncate(s, m).levels
            = Restrict(f, {p \in DOMAIN f : Cardinality({q \in DOMAIN f : worse(s, p, q)}) < m})
      BY TruncateKeepsBest
    <2> HIDE DEF f
    <2>3. \A p \in DOMAIN f : {q \in DOMAIN f : worse(s, p, q)} = {q \in DOMAIN f : q < p}
      BY <2>1 DEF worse
    <2>4. {p \in DOMAIN f : Cardinality({q \in DOMAIN f : worse(s, p, q)}) < m}
            = {p \in DOMAIN f : Cardinality({q \in DOMAIN f : q < p}) < m}
      BY <2>3
    <2>5. Map!Best(f, m, <) = Restrict(f, {p \in DOMAIN f : Cardinality({q \in DOMAIN f : q < p}) < m})
      BY DEF Map!Best, Map!Restrict, Restrict, Map!Cardinality, Cardinality
    <2> QED
      BY <2>1, <2>2, <2>4, <2>5
  <1> QED
    BY <1>2, <1>3

\* Every operation of a book is one of BookMap, or, where a depth keeps
\* everything, changes nothing: upserts are absolute, the last level of a
\* message wins, truncation keeps the best, a snapshot replaces everything.
THEOREM BookImplementsMap == Spec => ImplementsMap
  <1>1. /\ ReadBack(EmptySide(FALSE)) = <<>>
        /\ ReadBack(EmptySide(TRUE)) = <<>>
    BY DEF ReadBack, EmptySide, ToSet
  <1>2. Init => Map!Init
    <2> SUFFICES ASSUME Init
                 PROVE  Map!Init
      OBVIOUS
    <2>1. /\ book.bids = EmptySide(FALSE) /\ book.asks = EmptySide(TRUE)
          /\ book.ready = FALSE
      BY DEF Init, NewBook
    <2> QED
      BY <1>1, <2>1 DEF Map!Init
  <1> DEFINE bidMap == ReadBack(book.bids)
             askMap == ReadBack(book.asks)
  <1>3. Init => IInv
    BY InitIInv
  <1>4. IInv /\ [Next]_book => IInv'
    BY NextIInv
  <1>5. IInv /\ [Next]_book
           => [Map!Next]_<<ReadBack(book.bids), ReadBack(book.asks), book.ready>>
    <2> SUFFICES ASSUME book \in Books, Next
                 PROVE  Map!Next \/ UNCHANGED <<bidMap, askMap, book.ready>>
      BY DEF IInv
    <2>1. book.bids \in Sides(FALSE) /\ book.asks \in Sides(TRUE)
      BY DEF Books
    <2>2. clear(book.bids) = EmptySide(FALSE) /\ clear(book.asks) = EmptySide(TRUE)
      BY <2>1 DEF clear, Sides
    <2>3. ASSUME NEW m \in Batches
          PROVE  m.bids \in Seq(Level) /\ m.asks \in Seq(Level)
      BY LevelsAssumption
    <2>4. ASSUME NEW m \in Batches, OnSnapshot(m)
          PROVE  Map!Snapshot(m)
      <3>1. book' = [bids |-> FoldLeft(applyLevel, EmptySide(FALSE), m.bids),
                     asks |-> FoldLeft(applyLevel, EmptySide(TRUE), m.asks), ready |-> TRUE]
        BY <2>2, <2>4 DEF OnSnapshot, ApplySnapshot, applyLevels
      <3>2. /\ bidMap' = ReadBack(FoldLeft(applyLevel, EmptySide(FALSE), m.bids))
            /\ askMap' = ReadBack(FoldLeft(applyLevel, EmptySide(TRUE), m.asks))
            /\ book'.ready = TRUE
        BY <3>1 DEF ReadBack
      <3>3. /\ bidMap' = Map!Overwrite(<<>>, m.bids)
            /\ askMap' = Map!Overwrite(<<>>, m.asks)
        BY <1>1, <2>3, <3>2, EmptySideIsSide, LevelsOverwrite
      <3> QED
        BY <3>2, <3>3 DEF Map!Snapshot
    <2>5. ASSUME NEW m \in Batches, OnUpdate(m)
          PROVE  Map!Update(m)
      <3>1. book' = [bids |-> FoldLeft(applyLevel, book.bids, m.bids),
                     asks |-> FoldLeft(applyLevel, book.asks, m.asks), ready |-> book.ready]
        BY <2>5 DEF OnUpdate, ApplyUpdate, applyLevels
      <3>2. /\ bidMap' = ReadBack(FoldLeft(applyLevel, book.bids, m.bids))
            /\ askMap' = ReadBack(FoldLeft(applyLevel, book.asks, m.asks))
            /\ book'.ready = book.ready
        BY <3>1 DEF ReadBack
      <3>3. /\ bidMap' = Map!Overwrite(bidMap, m.bids)
            /\ askMap' = Map!Overwrite(askMap, m.asks)
        BY <2>1, <2>3, <3>2, LevelsOverwrite
      <3> QED
        BY <3>2, <3>3 DEF Map!Update
    <2>6. ASSUME NEW n \in Depths, OnTruncate(n)
          PROVE  Map!Shrink(n) \/ UNCHANGED <<bidMap, askMap, book.ready>>
      <3>1. book' = [bids |-> truncate(book.bids, n), asks |-> truncate(book.asks, n),
                     ready |-> book.ready]
        BY <2>6 DEF OnTruncate, Truncate
      <3>2. /\ bidMap' = ReadBack(truncate(book.bids, n))
            /\ askMap' = ReadBack(truncate(book.asks, n))
            /\ book'.ready = book.ready
        BY <3>1 DEF ReadBack
      <3>3. CASE n < 0
        <4>1. truncate(book.bids, n) = book.bids /\ truncate(book.asks, n) = book.asks
          BY <3>3 DEF truncate
        <4> QED
          BY <3>2, <4>1
      <3>4. CASE n >= 0
        <4>1. n \in Nat
          BY <3>4, LevelsAssumption
        <4>2. /\ bidMap' = Map!Best(bidMap, n, >)
              /\ askMap' = Map!Best(askMap, n, <)
          BY <2>1, <3>2, <4>1, TruncateIsBest
        <4> QED
          BY <3>2, <4>2 DEF Map!Shrink
      <3>5. n < 0 \/ n >= 0
        BY LevelsAssumption
      <3> QED
        BY <3>3, <3>4, <3>5
    <2>7. CASE OnInvalidate
      <3>1. book' = [bids |-> EmptySide(FALSE), asks |-> EmptySide(TRUE), ready |-> FALSE]
        BY <2>2, <2>7 DEF OnInvalidate, Invalidate
      <3>2. /\ bidMap' = ReadBack(EmptySide(FALSE))
            /\ askMap' = ReadBack(EmptySide(TRUE))
            /\ book'.ready = FALSE
        BY <3>1 DEF ReadBack
      <3>3. Map!Forget
        BY <1>1, <3>2 DEF Map!Forget
      <3> QED
        BY <3>3 DEF Map!Next
    <2>8. CASE \E m \in Batches : OnSnapshot(m) \/ OnUpdate(m)
      BY <2>4, <2>5, <2>8 DEF Map!Next
    <2>9. CASE \E n \in Depths : OnTruncate(n)
      BY <2>6, <2>9 DEF Map!Next
    <2> QED
      BY <2>7, <2>8, <2>9 DEF Next
  <1> QED
    BY <1>2, <1>3, <1>4, <1>5, PTL DEF Spec, ImplementsMap, Map!Spec

-----------------------------------------------------------------------------
(* Replaying a tape at another depth.                                      *)

Replays == [depth : Int, book : Books, evicted : [BOOLEAN -> SUBSET Prices]]

\* The size a book has at a price.
SizeAt(b, ask, p) == SizeIn(SideOf(b, ask), p)

\* What a book holds are the prices it has a size at.
LEMMA HeldSizes ==
  ASSUME NEW b \in Books, NEW ask \in BOOLEAN
  PROVE  /\ SideOf(b, ask) \in Sides(ask)
         /\ Held(b, ask) = {p \in Prices : SizeAt(b, ask, p) # 0}
         /\ \A p \in Held(b, ask) : SideOf(b, ask).levels[p] = SizeAt(b, ask, p)
  <1> DEFINE s == SideOf(b, ask)
  <1>1. s \in Sides(ask)
    BY DEF Books, SideOf
  <1> HIDE DEF s
  <1>2. s.levels = [p \in {q \in Prices : SizeIn(s, q) # 0} |-> SizeIn(s, p)]
    BY <1>1, SideSizes
  <1>3. /\ DOMAIN s.levels = {p \in Prices : SizeIn(s, p) # 0}
        /\ \A p \in DOMAIN s.levels : s.levels[p] = SizeIn(s, p)
    BY <1>2
  <1> QED
    BY <1>1, <1>3 DEF Held, SizeAt, s

\* The sizes of the book a message was applied to.
LEMMA AppliedSizes ==
  ASSUME NEW b \in Books, NEW m \in Message
  PROVE  LET full == Applied(b, m)
             lvs(ask) == IF ask THEN m.asks ELSE m.bids
         IN /\ full \in Books
            /\ full.ready = (m.kind = "snapshot" \/ b.ready)
            /\ \A ask \in BOOLEAN, p \in Prices :
                  SizeAt(full, ask, p) =
                     SizeAfter(IF m.kind = "snapshot" THEN <<>> ELSE SideOf(b, ask).levels,
                               lvs(ask), p)
  <1> DEFINE full == Applied(b, m)
             lvs(ask) == IF ask THEN m.asks ELSE m.bids
             From(s, ask) == FoldLeft(applyLevel, s, lvs(ask))
  <1>1. /\ b.bids \in Sides(FALSE) /\ b.asks \in Sides(TRUE) /\ b.ready \in BOOLEAN
        /\ m.bids \in Seq(Level) /\ m.asks \in Seq(Level) /\ m.kind \in {"snapshot", "update"}
    BY DEF Books, Message
  <1>2. \A ask \in BOOLEAN : lvs(ask) \in Seq(Level)
    BY <1>1
  <1>3. full \in Books
    <2>1. full = ApplySnapshot(b, m.bids, m.asks) \/ full = ApplyUpdate(b, m.bids, m.asks)
      BY DEF Applied
    <2> HIDE DEF full
    <2> QED
      BY <1>1, <2>1, BookKept
  <1>4. clear(b.bids) = EmptySide(FALSE) /\ clear(b.asks) = EmptySide(TRUE)
    BY <1>1 DEF clear, Sides
  <1>5. \A ask \in BOOLEAN : EmptySide(ask) \in Sides(ask) /\ EmptySide(ask).levels = <<>>
    BY EmptySideIsSide DEF EmptySide
  <1>6. \A ask \in BOOLEAN : SideOf(b, ask) \in Sides(ask)
    BY HeldSizes
  <1>7. ASSUME NEW ask \in BOOLEAN, NEW s \in Sides(ask), NEW p \in Prices
        PROVE  SizeIn(From(s, ask), p) = SizeAfter(s.levels, lvs(ask), p)
    <2>1. lvs(ask) \in Seq(Level)
      BY <1>2
    <2> HIDE DEF lvs
    <2> QED
      BY <2>1, LevelsSetSizes
  <1>8. CASE m.kind = "snapshot"
    <2>1. full = [bids |-> From(EmptySide(FALSE), FALSE), asks |-> From(EmptySide(TRUE), TRUE),
                  ready |-> TRUE]
      BY <1>4, <1>8 DEF Applied, ApplySnapshot, applyLevels
    <2> HIDE DEF From, full
    <2>2. full.ready = TRUE /\ \A ask \in BOOLEAN : SideOf(full, ask) = From(EmptySide(ask), ask)
      BY <2>1 DEF SideOf
    <2>3. \A ask \in BOOLEAN, p \in Prices : SizeAt(full, ask, p) = SizeAfter(<<>>, lvs(ask), p)
      <3> HIDE DEF lvs
      <3> QED
        BY <1>5, <1>7, <2>2 DEF SizeAt
    <2> QED
      BY <1>3, <1>8, <2>2, <2>3 DEF full
  <1>9. CASE m.kind # "snapshot"
    <2>1. full = [bids |-> From(b.bids, FALSE), asks |-> From(b.asks, TRUE), ready |-> b.ready]
      BY <1>9 DEF Applied, ApplyUpdate, applyLevels
    <2> HIDE DEF From, full
    <2>2. full.ready = b.ready /\ \A ask \in BOOLEAN : SideOf(full, ask) = From(SideOf(b, ask), ask)
      BY <2>1 DEF SideOf
    <2>3. \A ask \in BOOLEAN, p \in Prices :
             SizeAt(full, ask, p) = SizeAfter(SideOf(b, ask).levels, lvs(ask), p)
      <3> HIDE DEF lvs
      <3> QED
        BY <1>6, <1>7, <2>2 DEF SizeAt
    <2> QED
      BY <1>1, <1>3, <1>9, <2>2, <2>3 DEF full
  <1> QED
    BY <1>8, <1>9

\* Truncation keeps the size of a level or takes the level.
LEMMA CutSizes ==
  ASSUME NEW b \in Books, NEW n \in Int, NEW ask \in BOOLEAN, NEW p \in Prices
  PROVE  /\ Truncate(b, n) \in Books /\ Truncate(b, n).ready = b.ready
         /\ SizeAt(Truncate(b, n), ask, p) \in {0, SizeAt(b, ask, p)}
  <1> DEFINE s == SideOf(b, ask)
             t == truncate(s, n)
  <1>1. s \in Sides(ask)
    BY HeldSizes
  <1>2. SideOf(Truncate(b, n), ask) = t /\ Truncate(b, n).ready = b.ready
    BY DEF SideOf, Truncate
  <1> HIDE DEF s
  <1>3. SizeIn(t, p) \in {0, SizeIn(s, p)}
    <2>1. CASE n < 0
      <3>1. t = s
        BY <2>1 DEF truncate
      <3> QED
        BY <3>1
    <2>2. CASE ~(n < 0)
      <3>1. n \in Nat
        BY <2>2
      <3> DEFINE few == {x \in DOMAIN s.levels :
                           Cardinality({q \in DOMAIN s.levels : worse(s, x, q)}) < n}
      <3>2. t.levels = Restrict(s.levels, few) /\ few \subseteq DOMAIN s.levels
        BY <1>1, <3>1, TruncateKeepsBest
      <3> HIDE DEF t, few
      <3> QED
        BY <3>2 DEF SizeIn, Restrict
    <2> QED
      BY <2>1, <2>2
  <1>4. Truncate(b, n) \in Books
    BY BookKept
  <1> QED
    BY <1>2, <1>3, <1>4 DEF SizeAt, s, t

\* The best price of a side is one it has, and none it has is better.
LEMMA BestOfSide ==
  ASSUME NEW ask \in BOOLEAN, NEW s \in Sides(ask)
  PROVE  /\ hasBest(s) <=> \E p \in Prices : SizeIn(s, p) # 0
         /\ hasBest(s) => /\ best(s).price \in Prices /\ SizeIn(s, best(s).price) # 0
                          /\ \A p \in Prices : SizeIn(s, p) # 0 =>
                                IF ask THEN best(s).price <= p ELSE p <= best(s).price
  <1> DEFINE ps == s.prices
             n == Len(ps)
  <1>1. /\ ps \in Seq(Prices) /\ n \in Nat /\ Prices \subseteq Int /\ s.isAsk = ask
        /\ ToSet(ps) = DOMAIN s.levels /\ DOMAIN ps = 1..n
        /\ \A i, j \in 1..n : i < j => worse(s, ps[i], ps[j])
        /\ \A p \in DOMAIN s.levels : p \in Prices /\ s.levels[p] > 0
        /\ \E D \in SUBSET Prices : s.levels \in [D -> Nat \ {0}]
    BY PricesAssumption DEF Sides, SideOK
  <1>2. \A p \in Prices : SizeIn(s, p) # 0 <=> p \in DOMAIN s.levels
    BY <1>1 DEF SizeIn
  <1>3. \A p : p \in DOMAIN s.levels <=> \E i \in 1..n : ps[i] = p
    BY <1>1 DEF ToSet
  <1>4. hasBest(s) <=> n # 0
    BY <1>1 DEF hasBest
  <1> HIDE DEF ps, n
  <1>5. CASE n = 0
    BY <1>2, <1>3, <1>4, <1>5
  <1>6. CASE n # 0
    <2>1. n \in 1..n /\ best(s).price = ps[n]
      BY <1>1, <1>6 DEF best, Last, ps, n
    <2>2. ps[n] \in DOMAIN s.levels /\ ps[n] \in Prices
      BY <1>1, <1>3, <2>1
    <2>3. ASSUME NEW p \in Prices, SizeIn(s, p) # 0
          PROVE  IF ask THEN ps[n] <= p ELSE p <= ps[n]
      <3>1. PICK i \in 1..n : ps[i] = p
        BY <1>2, <1>3, <2>3
      <3>2. i = n \/ worse(s, p, ps[n])
        <4>1. i = n \/ i < n
          BY <1>1
        <4> QED
          BY <1>1, <2>1, <3>1, <4>1
      <3>3. p \in Int /\ ps[n] \in Int
        BY <1>1, <2>2
      <3> QED
        BY <1>1, <3>1, <3>2, <3>3 DEF worse
    <2> QED
      BY <1>2, <1>4, <1>6, <2>1, <2>2, <2>3
  <1> QED
    BY <1>5, <1>6

\* A side has as many prices in its slice as in its map.
LEMMA DepthOfSide ==
  ASSUME NEW ask \in BOOLEAN, NEW s \in Sides(ask)
  PROVE  /\ IsFiniteSet(DOMAIN s.levels) /\ Len(s.prices) \in Nat
         /\ Len(s.prices) = Cardinality(DOMAIN s.levels)
  <1> DEFINE ps == s.prices
             n == Len(ps)
             D == DOMAIN s.levels
  <1>1. /\ ps \in Seq(Prices) /\ n \in Nat /\ Prices \subseteq Int
        /\ ToSet(ps) = D /\ DOMAIN ps = 1..n
        /\ \A i, j \in 1..n : i < j => worse(s, ps[i], ps[j])
    BY PricesAssumption DEF Sides, SideOK
  <1>2. ps \in [1..n -> D]
    BY <1>1 DEF ToSet
  <1>3. \A i \in 1..n : ps[i] \in Int
    <2>1. \A i \in 1..Len(ps) : ps[i] \in Prices
      BY <1>1, ElementOfSeq
    <2> QED
      BY <1>1, <2>1
  <1> HIDE DEF ps, n, D
  <1>4. \A i, j \in 1..n : ps[i] = ps[j] => i = j
    <2>1. \A i, j \in 1..n : i < j => ps[i] # ps[j]
      BY <1>1, <1>3 DEF worse
    <2>2. \A i, j \in 1..n : i < j \/ j < i \/ i = j
      OBVIOUS
    <2> QED
      BY <2>1, <2>2
  <1>5. \A p \in D : \E i \in 1..n : ps[i] = p
    BY <1>1 DEF ToSet
  <1>6. ps \in Bijection(1..n, D)
    BY <1>2, <1>4, <1>5 DEF Bijection, Injection, Surjection, IsInjective
  <1>7. IsFiniteSet(1..n) /\ Cardinality(1..n) = n
    BY <1>1, FS_Interval
  <1>8. IsFiniteSet(D) /\ Cardinality(D) = n
    BY <1>6, <1>7, FS_Bijection DEF ExistsBijection
  <1> QED
    BY <1>1, <1>8 DEF ps, n, D

\* Book y holds all of book x, and beyond it only what gone says.
Covers(x, y, gone) ==
  /\ x.ready = y.ready
  /\ \A ask \in BOOLEAN, p \in Prices :
        /\ SizeAt(x, ask, p) # 0 => SizeAt(y, ask, p) = SizeAt(x, ask, p)
        /\ SizeAt(y, ask, p) # 0 /\ SizeAt(x, ask, p) = 0 => p \in gone[ask]

\* A book that holds what another does is as deep.
LEMMA CoversIsAsDeep ==
  ASSUME NEW x \in Books, NEW y \in Books, NEW gone, Covers(x, y, gone), ~ThinBook(x)
  PROVE  ~ThinBook(y)
  <1>1. ASSUME NEW ask \in BOOLEAN
        PROVE  /\ Depth(x, ask) \in Nat /\ Depth(y, ask) \in Nat
               /\ Depth(x, ask) <= Depth(y, ask)
    <2>1. SideOf(x, ask) \in Sides(ask) /\ SideOf(y, ask) \in Sides(ask)
      BY HeldSizes
    <2>2. Held(x, ask) \subseteq Held(y, ask)
      BY HeldSizes DEF Covers
    <2>3. /\ Depth(x, ask) = Len(SideOf(x, ask).prices)
          /\ Depth(y, ask) = Len(SideOf(y, ask).prices)
      BY DEF Depth, SideOf
    <2>4. /\ IsFiniteSet(Held(y, ask))
          /\ Depth(x, ask) = Cardinality(Held(x, ask)) /\ Depth(x, ask) \in Nat
          /\ Depth(y, ask) = Cardinality(Held(y, ask)) /\ Depth(y, ask) \in Nat
      BY <2>1, <2>3, DepthOfSide DEF Held
    <2>5. Cardinality(Held(x, ask)) <= Cardinality(Held(y, ask))
      BY <2>2, <2>4, FS_Subset
    <2> QED
      BY <2>4, <2>5
  <1>2. /\ ~(Depth(x, FALSE) < ChecksumDepth) /\ ~(Depth(x, TRUE) < ChecksumDepth)
        /\ ChecksumDepth \in Nat
    BY ChecksumAssumption DEF ThinBook
  <1>3. \A ask \in BOOLEAN : ~(Depth(y, ask) < ChecksumDepth)
    <2> TAKE ask \in BOOLEAN
    <2>1. ~(Depth(x, ask) < ChecksumDepth)
      BY <1>2
    <2> QED
      BY <1>1, <1>2, <2>1
  <1> QED
    BY <1>3 DEF ThinBook

\* A book that is cut, or invalidated, is still a book.
LEMMA KeptIsBook ==
  ASSUME NEW b \in Books, NEW msg, NEW n \in Int
  PROVE  Kept(b, msg, n) \in Books
  <1>1. Truncate(b, n) \in Books
    BY BookKept
  <1> QED
    BY <1>1, BookKept DEF Kept

\* Once the smaller book has full sides, both show the same top.
SameTop(x, y) == ~ThinBook(x) => BookChecksum(y) = BookChecksum(x)

\* What one message does to both books, if the smaller stays ready and the deeper
\* loses nothing, to truncation or by being invalidated.
LEMMA KeptCovers ==
  ASSUME NEW x \in Books, NEW y \in Books, NEW m \in Int, NEW n \in Int, NEW gone, NEW msg,
         Covers(x, y, gone), Kept(x, msg, m).ready,
         \A ask \in BOOLEAN : Held(y, ask) \ Held(Kept(y, msg, n), ask) = {}
  PROVE  /\ Covers(Kept(x, msg, m), Kept(y, msg, n),
                   [ask \in BOOLEAN |-> gone[ask] \cup (Held(x, ask) \ Held(Kept(x, msg, m), ask))])
         /\ SameTop(Kept(x, msg, m), Kept(y, msg, n))
  <1> DEFINE cx == Truncate(x, m)
             cy == Truncate(y, n)
             now == [ask \in BOOLEAN |-> gone[ask] \cup (Held(x, ask) \ Held(Kept(x, msg, m), ask))]
  <1>1. /\ cx \in Books /\ cx.ready = x.ready /\ cy \in Books /\ cy.ready = y.ready
        /\ \A ask \in BOOLEAN, p \in Prices :
              /\ SizeAt(cx, ask, p) \in {0, SizeAt(x, ask, p)}
              /\ SizeAt(cy, ask, p) \in {0, SizeAt(y, ask, p)}
    <2>1. cx \in Books /\ cx.ready = x.ready /\ cy \in Books /\ cy.ready = y.ready
      BY BookKept DEF Truncate
    <2>2. ASSUME NEW ask \in BOOLEAN, NEW p \in Prices
          PROVE  /\ SizeAt(cx, ask, p) \in {0, SizeAt(x, ask, p)}
                 /\ SizeAt(cy, ask, p) \in {0, SizeAt(y, ask, p)}
      BY CutSizes
    <2> QED
      BY <2>1, <2>2
  <1> HIDE DEF cx, cy
  <1>2. \A ask \in BOOLEAN :
           /\ Held(x, ask) = {p \in Prices : SizeAt(x, ask, p) # 0}
           /\ Held(y, ask) = {p \in Prices : SizeAt(y, ask, p) # 0}
           /\ Held(cx, ask) = {p \in Prices : SizeAt(cx, ask, p) # 0}
           /\ Held(cy, ask) = {p \in Prices : SizeAt(cy, ask, p) # 0}
    BY <1>1, HeldSizes
  <1>3. ~IsCrossedOrLocked(cy) /\ verifyChecksum(cy, msg)
    <2>1. SUFFICES ASSUME IsCrossedOrLocked(cy) \/ ~verifyChecksum(cy, msg)
                   PROVE  FALSE
      OBVIOUS
    <2>2. Kept(y, msg, n) = Invalidate(cy)
      BY <2>1 DEF Kept, cy
    <2>3. Held(Kept(y, msg, n), TRUE) = {}
      <3>1. cy.asks.isAsk = TRUE
        BY <1>1 DEF Books, Sides
      <3>2. SideOf(Invalidate(cy), TRUE) = EmptySide(TRUE)
        BY <3>1 DEF Invalidate, SideOf, clear
      <3>3. EmptySide(TRUE).levels = <<>> /\ DOMAIN <<>> = {}
        BY DEF EmptySide
      <3> QED
        BY <2>2, <3>2, <3>3 DEF Held
    <2>4. cy.asks \in Sides(TRUE) /\ SideOf(cy, TRUE) = cy.asks
      BY <1>1 DEF Books, SideOf
    <2>5. hasBest(cy.asks)
      <3>1. CASE IsCrossedOrLocked(cy)
        BY <3>1 DEF IsCrossedOrLocked
      <3>2. CASE ~verifyChecksum(cy, msg)
        <4>1. ~(Len(cy.asks.prices) < ChecksumDepth)
          BY <3>2 DEF verifyChecksum, ThinBook, Depth
        <4>2. Len(cy.asks.prices) # 0
          BY <2>4, <4>1, DepthOfSide, ChecksumAssumption
        <4> QED
          BY <4>2 DEF hasBest
      <3> QED
        BY <2>1, <3>1, <3>2
    <2>6. PICK p \in Prices : SizeAt(cy, TRUE, p) # 0
      BY <2>4, <2>5, BestOfSide DEF SizeAt
    <2>7. p \in Held(y, TRUE)
      BY <1>1, <1>2, <2>6
    <2> QED
      BY <2>3, <2>7
  <1>4. Kept(y, msg, n) = cy
    BY <1>3 DEF Kept, cy
  <1>5. \A ask \in BOOLEAN, p \in Prices : SizeAt(cy, ask, p) = SizeAt(y, ask, p)
    <2>1. ASSUME NEW ask \in BOOLEAN, NEW p \in Prices
          PROVE  SizeAt(cy, ask, p) = SizeAt(y, ask, p)
      <3>1. CASE SizeAt(y, ask, p) = 0
        BY <1>1, <3>1
      <3>2. CASE SizeAt(y, ask, p) # 0
        <4>1. p \in Held(y, ask)
          BY <1>2, <3>2
        <4>2. p \in Held(cy, ask)
          BY <1>4, <4>1
        <4> QED
          BY <1>1, <1>2, <4>2
      <3> QED
        BY <3>1, <3>2
    <2> QED
      BY <2>1
  <1>6. ~IsCrossedOrLocked(cx) /\ verifyChecksum(cx, msg)
    <2>1. SUFFICES ASSUME IsCrossedOrLocked(cx) \/ ~verifyChecksum(cx, msg)
                   PROVE  FALSE
      OBVIOUS
    <2>2. Kept(x, msg, m) = Invalidate(cx)
      BY <2>1 DEF Kept, cx
    <2> QED
      BY <2>2 DEF Invalidate
  <1>7. Kept(x, msg, m) = cx
    BY <1>6 DEF Kept, cx
  <1>8. ASSUME NEW ask \in BOOLEAN, NEW p \in Prices
        PROVE  /\ SizeAt(cx, ask, p) # 0 => SizeAt(cy, ask, p) = SizeAt(cx, ask, p)
               /\ SizeAt(cy, ask, p) # 0 /\ SizeAt(cx, ask, p) = 0 => p \in now[ask]
    <2>1. SizeAt(cx, ask, p) # 0 => SizeAt(cy, ask, p) = SizeAt(cx, ask, p)
      BY <1>1, <1>5 DEF Covers
    <2>2. ASSUME SizeAt(cy, ask, p) # 0, SizeAt(cx, ask, p) = 0
          PROVE  p \in now[ask]
      <3>1. CASE SizeAt(x, ask, p) = 0
        BY <1>5, <2>2, <3>1 DEF Covers
      <3>2. CASE SizeAt(x, ask, p) # 0
        <4>1. p \in Held(x, ask) /\ p \notin Held(Kept(x, msg, m), ask)
          BY <1>2, <1>7, <2>2, <3>2
        <4> QED
          BY <4>1
      <3> QED
        BY <3>1, <3>2
    <2> QED
      BY <2>1, <2>2
  <1> HIDE DEF now
  <1>9. Covers(cx, cy, now)
    BY <1>1, <1>8 DEF Covers
  <1>10. SameTop(cx, cy)
    <2> SUFFICES ASSUME ~ThinBook(cx)
                 PROVE  BookChecksum(cy) = BookChecksum(cx)
      BY DEF SameTop
    <2>1. ~ThinBook(cy)
      BY <1>1, <1>9, CoversIsAsDeep
    <2> QED
      BY <1>3, <1>6, <2>1 DEF verifyChecksum
  <1> QED
    BY <1>4, <1>7, <1>9, <1>10 DEF now

\* A replay plays on.
LEMMA PlayType ==
  ASSUME NEW r \in Replays, NEW m \in Message
  PROVE  Play(r, m) \in Replays
  <1> DEFINE full == Applied(r.book, m)
             kept == Kept(full, m, r.depth)
             ev == [ask \in BOOLEAN |-> (IF m.kind = "snapshot" THEN {} ELSE r.evicted[ask])
                                        \cup (Held(full, ask) \ Held(kept, ask))]
  <1>1. r.depth \in Int /\ r.book \in Books /\ r.evicted \in [BOOLEAN -> SUBSET Prices]
    BY DEF Replays
  <1>2. full \in Books /\ kept \in Books
    <2>1. full \in Books
      BY <1>1, AppliedSizes
    <2> HIDE DEF full
    <2> QED
      BY <1>1, <2>1, KeptIsBook
  <1> HIDE DEF kept
  <1>3. \A ask \in BOOLEAN : Held(full, ask) \subseteq Prices
    BY <1>2, HeldSizes
  <1> HIDE DEF full
  <1>4. ev \in [BOOLEAN -> SUBSET Prices]
    BY <1>1, <1>3
  <1>5. Play(r, m) = IF Dropped(r, m) THEN r
                     ELSE [depth |-> r.depth, book |-> kept, evicted |-> ev]
    BY DEF Play, full, kept
  <1> HIDE DEF ev
  <1> QED
    BY <1>1, <1>2, <1>4, <1>5 DEF Replays

\* The deeper replay covers a live one that is ready, as long as it evicted nothing,
\* and shows its top.
GhostsOnly(x, y) ==
  x.book.ready /\ (\A ask \in BOOLEAN : y.evicted[ask] = {}) =>
     Covers(x.book, y.book, x.evicted) /\ SameTop(x.book, y.book)

\* So it does after one message more.
LEMMA OneMessage ==
  ASSUME NEW x \in Replays, NEW y \in Replays, GhostsOnly(x, y), NEW m \in Message
  PROVE  GhostsOnly(Play(x, m), Play(y, m))
  <1> DEFINE X == Applied(x.book, m)
             Y == Applied(y.book, m)
             before(r) == [ask \in BOOLEAN |-> IF m.kind = "snapshot" THEN {} ELSE r.evicted[ask]]
             gone == before(x)
             lvs(ask) == IF ask THEN m.asks ELSE m.bids
             px == Play(x, m)
             py == Play(y, m)
             xb == x.book
             yb == y.book
  <1> SUFFICES ASSUME px.book.ready, \A ask \in BOOLEAN : py.evicted[ask] = {}
               PROVE  Covers(px.book, py.book, px.evicted) /\ SameTop(px.book, py.book)
    BY DEF GhostsOnly
  <1>1. /\ xb \in Books /\ yb \in Books /\ x.depth \in Int /\ y.depth \in Int
        /\ m.kind \in {"snapshot", "update"}
    BY DEF Replays, Message
  <1>2. ~Dropped(x, m)
    <2>1. SUFFICES ASSUME Dropped(x, m)
                   PROVE  FALSE
      OBVIOUS
    <2>2. px = x
      BY <2>1 DEF Play
    <2> HIDE DEF px
    <2> QED
      BY <2>1, <2>2 DEF Dropped
  <1>3. ~Dropped(y, m)
    <2>1. SUFFICES ASSUME Dropped(y, m)
                   PROVE  FALSE
      OBVIOUS
    <2>2. py = y
      BY <2>1 DEF Play
    <2>3. \A ask \in BOOLEAN : y.evicted[ask] = {}
      <3> HIDE DEF py
      <3> QED
        BY <2>2
    <2>4. m.kind = "update" /\ ~y.book.ready /\ x.book.ready
      BY <1>2, <2>1 DEF Dropped
    <2> QED
      BY <2>3, <2>4 DEF GhostsOnly, Covers
  <1>4. /\ px.book = Kept(X, m, x.depth) /\ py.book = Kept(Y, m, y.depth)
        /\ px.evicted = [ask \in BOOLEAN |->
                            gone[ask] \cup (Held(X, ask) \ Held(Kept(X, m, x.depth), ask))]
        /\ \A ask \in BOOLEAN :
              py.evicted[ask] = before(y)[ask] \cup (Held(Y, ask) \ Held(Kept(Y, m, y.depth), ask))
    BY <1>2, <1>3 DEF Play
  <1> HIDE DEF px, py
  <1>5. /\ Kept(X, m, x.depth).ready
        /\ \A ask \in BOOLEAN : /\ before(y)[ask] = {}
                                 /\ Held(Y, ask) \ Held(Kept(Y, m, y.depth), ask) = {}
    <2> HIDE DEF before, X, Y
    <2> QED
      BY <1>4
  <1> HIDE DEF xb, yb
  <1>6. /\ X \in Books /\ X.ready = (m.kind = "snapshot" \/ xb.ready)
        /\ \A ask \in BOOLEAN, p \in Prices :
              SizeAt(X, ask, p) =
                 SizeAfter(IF m.kind = "snapshot" THEN <<>> ELSE SideOf(xb, ask).levels, lvs(ask), p)
    <2>1. X = Applied(xb, m)
      BY DEF xb
    <2> HIDE DEF X
    <2> QED
      BY <1>1, <2>1, AppliedSizes
  <1>7. /\ Y \in Books /\ Y.ready = (m.kind = "snapshot" \/ yb.ready)
        /\ \A ask \in BOOLEAN, p \in Prices :
              SizeAt(Y, ask, p) =
                 SizeAfter(IF m.kind = "snapshot" THEN <<>> ELSE SideOf(yb, ask).levels, lvs(ask), p)
    <2>1. Y = Applied(yb, m)
      BY DEF yb
    <2> HIDE DEF Y
    <2> QED
      BY <1>1, <2>1, AppliedSizes
  <1> HIDE DEF X, Y
  <1>8. Covers(X, Y, gone)
    <2>1. CASE m.kind = "snapshot"
      <3>1. X.ready = Y.ready
        BY <1>6, <1>7, <2>1
      <3>2. \A ask \in BOOLEAN, p \in Prices : SizeAt(X, ask, p) = SizeAt(Y, ask, p)
        <4> HIDE DEF lvs
        <4> QED
          BY <1>6, <1>7, <2>1
      <3> QED
        BY <3>1, <3>2 DEF Covers
    <2>2. CASE m.kind # "snapshot"
      <3>1. Covers(xb, yb, x.evicted) /\ \A ask \in BOOLEAN : gone[ask] = x.evicted[ask]
        <4>1. \A ask \in BOOLEAN : y.evicted[ask] = {}
          BY <1>5, <2>2
        <4>2. x.book.ready
          BY <1>1, <1>2, <2>2 DEF Dropped
        <4> QED
          BY <2>2, <4>1, <4>2 DEF GhostsOnly, xb, yb
      <3>2. X.ready = xb.ready /\ Y.ready = yb.ready /\ xb.ready = yb.ready
        <4>1. xb.ready = yb.ready
          BY <3>1 DEF Covers
        <4>2. xb.ready \in BOOLEAN /\ yb.ready \in BOOLEAN
          BY <1>1 DEF Books
        <4> QED
          BY <1>6, <1>7, <2>2, <4>1, <4>2
      <3>3. ASSUME NEW ask \in BOOLEAN, NEW p \in Prices
            PROVE  /\ SizeAt(X, ask, p) # 0 => SizeAt(Y, ask, p) = SizeAt(X, ask, p)
                   /\ SizeAt(Y, ask, p) # 0 /\ SizeAt(X, ask, p) = 0 => p \in gone[ask]
        <4>1. /\ SizeAt(xb, ask, p) # 0 => SizeAt(yb, ask, p) = SizeAt(xb, ask, p)
              /\ SizeAt(yb, ask, p) # 0 /\ SizeAt(xb, ask, p) = 0 => p \in gone[ask]
          BY <3>1 DEF Covers
        <4>2. \/ SizeAt(X, ask, p) = SizeAt(Y, ask, p)
              \/ SizeAt(X, ask, p) = SizeAt(xb, ask, p) /\ SizeAt(Y, ask, p) = SizeAt(yb, ask, p)
          <5> DEFINE l == lvs(ask)
                     fx == SideOf(xb, ask).levels
                     fy == SideOf(yb, ask).levels
          <5>1. /\ SizeAt(xb, ask, p) = IF p \in DOMAIN fx THEN fx[p] ELSE 0
                /\ SizeAt(yb, ask, p) = IF p \in DOMAIN fy THEN fy[p] ELSE 0
            BY DEF SizeAt, SizeIn
          <5>2. SizeAt(X, ask, p) = SizeAfter(fx, l, p) /\ SizeAt(Y, ask, p) = SizeAfter(fy, l, p)
            BY <1>6, <1>7, <2>2
          <5> HIDE DEF l, fx, fy
          <5>3. /\ SizeAfter(fx, l, p) = IF Given(l, p) # {} THEN l[Max(Given(l, p))].qty
                                         ELSE SizeAt(xb, ask, p)
                /\ SizeAfter(fy, l, p) = IF Given(l, p) # {} THEN l[Max(Given(l, p))].qty
                                         ELSE SizeAt(yb, ask, p)
            BY <5>1 DEF SizeAfter
          <5>4. CASE Given(l, p) # {}
            BY <5>2, <5>3, <5>4
          <5>5. CASE Given(l, p) = {}
            <6>1. SizeAfter(fx, l, p) = SizeAt(xb, ask, p) /\ SizeAfter(fy, l, p) = SizeAt(yb, ask, p)
              BY <5>3, <5>5
            <6> QED
              BY <5>2, <6>1
          <5> QED
            BY <5>4, <5>5
        <4> HIDE DEF gone
        <4> QED
          BY <4>1, <4>2
      <3> HIDE DEF gone
      <3> QED
        BY <3>2, <3>3 DEF Covers
    <2> QED
      BY <2>1, <2>2
  <1> HIDE DEF gone
  <1> DEFINE now == [ask \in BOOLEAN |-> gone[ask] \cup (Held(X, ask) \ Held(Kept(X, m, x.depth), ask))]
  <1>9. /\ Covers(Kept(X, m, x.depth), Kept(Y, m, y.depth), now)
        /\ SameTop(Kept(X, m, x.depth), Kept(Y, m, y.depth))
    <2> HIDE DEF before
    <2> QED
      BY <1>1, <1>5, <1>6, <1>7, <1>8, KeptCovers
  <1> QED
    BY <1>4, <1>9

LEMMA UnplayedType ==
  ASSUME NEW depth \in Int
  PROVE  Unplayed(depth) \in Replays
  <1>1. EmptySide(FALSE) \in Sides(FALSE) /\ EmptySide(TRUE) \in Sides(TRUE)
    BY EmptySideIsSide
  <1>2. NewBook \in Books
    BY <1>1 DEF NewBook, Books
  <1> QED
    BY <1>2 DEF Unplayed, Replays

\* What the replay of a tape preserves, message by message.
ReplayInv == live \in Replays /\ deep \in Replays /\ GhostsOnly(live, deep)

LEMMA ReplayInvariant == ReplaySpec => []ReplayInv
  <1>1. ReplayInit => ReplayInv
    <2> SUFFICES ASSUME ReplayInit
                 PROVE  ReplayInv
      OBVIOUS
    <2>1. live = Unplayed(LiveDepth) /\ deep = Unplayed(ReplayDepth)
      BY DEF ReplayInit
    <2>2. live \in Replays /\ deep \in Replays
      BY <2>1, UnplayedType, ReplayAssumption
    <2>3. live.book = NewBook /\ deep.book = NewBook
      BY <2>1 DEF Unplayed
    <2>4. Covers(NewBook, NewBook, live.evicted) /\ SameTop(NewBook, NewBook)
      BY DEF Covers, SameTop
    <2> QED
      BY <2>2, <2>3, <2>4 DEF GhostsOnly, ReplayInv
  <1>2. ReplayInv /\ [ReplayNext]_<<live, deep>> => ReplayInv'
    <2> SUFFICES ASSUME ReplayInv, [ReplayNext]_<<live, deep>>
                 PROVE  ReplayInv'
      OBVIOUS
    <2>1. ASSUME NEW m \in Messages, PlayNext(m)
          PROVE  ReplayInv'
      <3>1. m \in Message /\ live' = Play(live, m) /\ deep' = Play(deep, m)
        BY <2>1, ReplayAssumption DEF PlayNext
      <3>2. live \in Replays /\ deep \in Replays /\ GhostsOnly(live, deep)
        BY DEF ReplayInv
      <3>3. Play(live, m) \in Replays /\ Play(deep, m) \in Replays
        BY <3>1, <3>2, PlayType
      <3>4. GhostsOnly(Play(live, m), Play(deep, m))
        BY <3>1, <3>2, OneMessage
      <3> QED
        BY <3>1, <3>3, <3>4 DEF ReplayInv, GhostsOnly
    <2>2. CASE UNCHANGED <<live, deep>>
      <3>1. live' = live /\ deep' = deep
        BY <2>2
      <3> QED
        BY <3>1 DEF ReplayInv, GhostsOnly
    <2> QED
      BY <2>1, <2>2 DEF ReplayNext
  <1> QED
    BY <1>1, <1>2, PTL DEF ReplaySpec

\* Of two replays of one tape, whatever it lacks and whatever their depths, the one that
\* lost no level holds all of the other's as long as that is in use, otherwise only levels
\* that the other evicted, and none of these within the top the checksum covers
\* (cmd/tcastudy/main.go:99-100, engine.go:119-151).
THEOREM DeeperReplay == ReplaySpec => []DeeperOnlyAddsGhosts
  <1>1. ReplayInv => DeeperOnlyAddsGhosts
    <2> SUFFICES ASSUME ReplayInv, live.book.ready, \A ask \in BOOLEAN : deep.evicted[ask] = {}
                 PROVE  /\ deep.book.ready
                        /\ \A ask \in BOOLEAN :
                            /\ \A p \in Held(live.book, ask) :
                                 /\ p \in Held(deep.book, ask)
                                 /\ SideOf(deep.book, ask).levels[p]
                                      = SideOf(live.book, ask).levels[p]
                            /\ Held(deep.book, ask) \ Held(live.book, ask)
                                 \subseteq live.evicted[ask]
                        /\ ~ThinBook(live.book) => BookChecksum(deep.book) = BookChecksum(live.book)
      BY DEF DeeperOnlyAddsGhosts
    <2>1. /\ Covers(live.book, deep.book, live.evicted) /\ SameTop(live.book, deep.book)
          /\ live.book \in Books /\ deep.book \in Books
      BY DEF ReplayInv, GhostsOnly, Replays
    <2> DEFINE lb == live.book
               db == deep.book
    <2>2. deep.book.ready
      BY <2>1 DEF Covers
    <2>3. ASSUME NEW ask \in BOOLEAN
          PROVE  /\ \A p \in Held(lb, ask) :
                       /\ p \in Held(db, ask)
                       /\ SideOf(db, ask).levels[p] = SideOf(lb, ask).levels[p]
                 /\ Held(db, ask) \ Held(lb, ask) \subseteq live.evicted[ask]
      <3> HIDE DEF lb, db
      <3>1. /\ Held(lb, ask) = {p \in Prices : SizeAt(lb, ask, p) # 0}
            /\ Held(db, ask) = {p \in Prices : SizeAt(db, ask, p) # 0}
            /\ \A p \in Held(lb, ask) : SideOf(lb, ask).levels[p] = SizeAt(lb, ask, p)
            /\ \A p \in Held(db, ask) : SideOf(db, ask).levels[p] = SizeAt(db, ask, p)
        <4>1. lb \in Books /\ db \in Books
          BY <2>1 DEF lb, db
        <4> QED
          BY <4>1, HeldSizes
      <3>2. \A p \in Prices :
               /\ SizeAt(lb, ask, p) # 0 => SizeAt(db, ask, p) = SizeAt(lb, ask, p)
               /\ SizeAt(db, ask, p) # 0 /\ SizeAt(lb, ask, p) = 0 => p \in live.evicted[ask]
        BY <2>1 DEF Covers, lb, db
      <3>3. \A p \in Held(lb, ask) :
               /\ p \in Held(db, ask)
               /\ SideOf(db, ask).levels[p] = SideOf(lb, ask).levels[p]
        BY <3>1, <3>2
      <3>4. Held(db, ask) \ Held(lb, ask) \subseteq live.evicted[ask]
        BY <3>1, <3>2
      <3> QED
        BY <3>3, <3>4
    <2>4. ~ThinBook(lb) => BookChecksum(db) = BookChecksum(lb)
      BY <2>1 DEF SameTop
    <2> QED
      BY <2>2, <2>3, <2>4
  <1> QED
    BY <1>1, ReplayInvariant, PTL
=============================================================================
