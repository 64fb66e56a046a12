--------------------------- MODULE FunctionProofs ---------------------------
(* The pure functions, for every input: what walking a ladder costs, what   *)
(* slicing does to it, and what the venues charge for it.                   *)
EXTENDS Pricing, Resilience, Latency, FiniteSetTheorems, SequenceTheorems, TLAPS

Levels == INSTANCE FoldLaws WITH Op <- TakeLevel
Sizes == INSTANCE FoldLaws WITH Op <- AddQty
Worths == INSTANCE FoldLaws WITH Op <- AddWorth
Touches == INSTANCE FoldLaws WITH Op <- AddAtTouch
Times == INSTANCE FoldLaws WITH Op <- AddTime
Turns == INSTANCE FoldLaws WITH Op <- Turn
Records == INSTANCE FoldLaws WITH Op <- RecordValue
Keeps == INSTANCE FoldLaws WITH Op <- KeepDelayed
Splits == INSTANCE FoldLaws WITH Op <- AddFill
Charges == INSTANCE FoldLaws WITH Op <- AddCharge
Shrinks == INSTANCE FoldLaws WITH Op <- KeepDisplayed

-----------------------------------------------------------------------------
(* The loops as folds.                                                     *)

\* Each loop is a fold the laws are about.
LEMMA FoldsAreFolds ==
  ASSUME NEW b, NEW s
  PROVE  /\ FoldLeft(TakeLevel, b, s) = Levels!Fold(b, s)
         /\ FoldLeft(AddQty, b, s) = Sizes!Fold(b, s)
         /\ FoldLeft(AddWorth, b, s) = Worths!Fold(b, s)
  <1>1. FoldLeft(TakeLevel, b, s) = Levels!Fold(b, s)
    BY DEF Levels!Fold, FoldLeft, MapThenFoldSet, Levels!MapThenFoldSet,
           Max, Levels!Largest
  <1>2. FoldLeft(AddQty, b, s) = Sizes!Fold(b, s)
    BY DEF Sizes!Fold, FoldLeft, MapThenFoldSet, Sizes!MapThenFoldSet,
           Max, Sizes!Largest
  <1>3. FoldLeft(AddWorth, b, s) = Worths!Fold(b, s)
    BY DEF Worths!Fold, FoldLeft, MapThenFoldSet, Worths!MapThenFoldSet,
           Max, Worths!Largest
  <1> QED
    BY <1>1, <1>2, <1>3

-----------------------------------------------------------------------------
(* Levels, fills and walks.                                                *)

\* A level that Merge leaves: its price and size are positive and fit an int64.
Level == [venue : {Coinbase, Kraken}, price : 1..MaxInt64, qty : 1..MaxInt64]

LEMMA LevelParts ==
  ASSUME NEW lv \in Level
  PROVE  /\ lv = [venue |-> lv.venue, price |-> lv.price, qty |-> lv.qty]
         /\ lv.venue \in {Coinbase, Kraken}
         /\ lv.price \in 1..MaxInt64 /\ lv.price \in Nat
         /\ lv.qty \in 1..MaxInt64 /\ lv.qty \in Nat \ {0} /\ lv.qty \in Nat
         /\ MaxInt64 \in Nat
  BY ScaleAssumption DEF Level

\* What may be taken of a level: possibly nothing.
Taken == [venue : {Coinbase, Kraken}, price : 1..MaxInt64, qty : Nat]

\* How far a walk for q may be.
Walks(q) == [err : {"none", "overflow"}, left : 0..q, notional : 0..MaxInt64,
             fills : Seq(Level)]

\* What a level gives a walk with left to fill.
Take(left, lv) == IF lv.qty <= left THEN lv.qty ELSE left

\* A product of amounts, rounded down.
Rounded(price, qty) == (price * qty) \div Scale

\* Rounding down loses less than one, and less of a product is no more.
LEMMA RoundedDown ==
  ASSUME NEW p \in Nat, NEW a \in Nat
  PROVE  /\ Rounded(p, a) \in Nat
         /\ Rounded(p, a) * Scale <= p * a /\ p * a < (Rounded(p, a) + 1) * Scale
  <1> DEFINE x == p * a
  <1>1. x \in Nat
    OBVIOUS
  <1> HIDE DEF x
  <1>2. /\ x \div Scale \in Nat
        /\ (x \div Scale) * Scale <= x /\ x < (x \div Scale + 1) * Scale
    BY <1>1, ScaleAssumption
  <1> QED
    BY <1>2 DEF Rounded, x

\* The rounded parts of a product add up to the rounded whole, or to one less.
LEMMA RoundedParts ==
  ASSUME NEW p \in Nat, NEW a \in Nat, NEW b \in Nat
  PROVE  /\ Rounded(p, a) + Rounded(p, b) <= Rounded(p, a + b)
         /\ Rounded(p, a + b) <= Rounded(p, a) + Rounded(p, b) + 1
  <1> DEFINE x == p * a
             y == p * b
  <1>1. x \in Nat /\ y \in Nat /\ p * (a + b) = x + y
    OBVIOUS
  <1> HIDE DEF x, y
  <1>2. /\ x \div Scale + y \div Scale <= (x + y) \div Scale
        /\ (x + y) \div Scale <= x \div Scale + y \div Scale + 1
    BY <1>1, ScaleAssumption
  <1> QED
    BY <1>1, <1>2 DEF Rounded, x, y

\* The smaller of two numbers.
LEMMA MinOfTwo ==
  ASSUME NEW a \in Int, NEW b \in Int
  PROVE  Min({a, b}) = IF a <= b THEN a ELSE b
  <1>1. \E x \in {a, b} : \A y \in {a, b} : x <= y
    OBVIOUS
  <1>2. Min({a, b}) \in {a, b} /\ Min({a, b}) <= a /\ Min({a, b}) <= b
    BY <1>1 DEF Min
  <1> QED
    BY <1>2

\* The larger of two.
LEMMA MaxOfTwo ==
  ASSUME NEW a \in Int, NEW b \in Int
  PROVE  Max({a, b}) = IF a >= b THEN a ELSE b
  <1>1. \E x \in {a, b} : \A y \in {a, b} : x >= y
    OBVIOUS
  <1>2. Max({a, b}) \in {a, b} /\ Max({a, b}) >= a /\ Max({a, b}) >= b
    BY <1>1 DEF Max
  <1> QED
    BY <1>2

\* What one level does to a walk that is not over.
LEMMA OneLevel ==
  ASSUME NEW q \in Nat, NEW c \in Walks(q), NEW lv \in Level, c.err = "none", c.left > 0
  PROVE  LET take == Take(c.left, lv)
             n == c.notional + Rounded(lv.price, take)
         IN /\ take \in 1..c.left /\ take <= lv.qty
            /\ TakeLevel(c, lv) =
                  IF n > MaxInt64 THEN [c EXCEPT !.err = "overflow"]
                  ELSE [err |-> "none", left |-> c.left - take, notional |-> n,
                        fills |-> Append(c.fills, [venue |-> lv.venue, price |-> lv.price,
                                                   qty |-> take])]
  <1>1. /\ c = [err |-> c.err, left |-> c.left, notional |-> c.notional, fills |-> c.fills]
        /\ c.left \in 0..q /\ c.notional \in 0..MaxInt64 /\ MaxInt64 \in Nat
    BY ScaleAssumption DEF Walks
  <1>2. /\ lv = [venue |-> lv.venue, price |-> lv.price, qty |-> lv.qty]
        /\ lv.price \in Nat /\ lv.qty \in Nat \ {0}
    BY LevelParts
  <1> DEFINE take == Take(c.left, lv)
             r == Rounded(lv.price, take)
  <1>3. take \in 1..c.left /\ take <= lv.qty
    BY <1>1, <1>2 DEF Take
  <1>4. Min({lv.qty, c.left}) = take
    BY <1>1, <1>2, MinOfTwo DEF Take
  <1> HIDE DEF take
  <1>5. r \in Nat
    BY <1>2, <1>3, RoundedDown
  <1>6. mulDiv(lv.price, take, Scale) = IF r > MaxInt64 THEN Overflow ELSE r
    BY ScaleAssumption DEF mulDiv, Rounded
  <1> HIDE DEF r
  <1>7. TakeLevel(c, lv) = Fill(c, lv, take)
    BY <1>1, <1>4 DEF TakeLevel
  <1>8. CASE c.notional + r > MaxInt64
    <2>1. mulDiv(lv.price, take, Scale) = Overflow
             \/ c.notional > MaxInt64 - mulDiv(lv.price, take, Scale)
      BY <1>1, <1>5, <1>6, <1>8
    <2> QED
      BY <1>3, <1>7, <1>8, <2>1 DEF Fill, take, r
  <1>9. CASE ~(c.notional + r > MaxInt64)
    <2>1. /\ mulDiv(lv.price, take, Scale) = r
          /\ ~(r = Overflow \/ c.notional > MaxInt64 - r)
      BY <1>1, <1>5, <1>6, <1>9 DEF Overflow
    <2>2. [lv EXCEPT !.qty = take] = [venue |-> lv.venue, price |-> lv.price, qty |-> take]
      BY <1>2
    <2>3. Fill(c, lv, take) = [c EXCEPT !.left = c.left - take, !.notional = c.notional + r,
                                       !.fills = Append(c.fills, [lv EXCEPT !.qty = take])]
      BY <2>1 DEF Fill
    <2>4. Fill(c, lv, take) =
            [err |-> "none", left |-> c.left - take, notional |-> c.notional + r,
             fills |-> Append(c.fills, [venue |-> lv.venue, price |-> lv.price, qty |-> take])]
      BY <1>1, <2>2, <2>3
    <2> QED
      BY <1>3, <1>7, <1>9, <2>4 DEF take, r
  <1> QED
    BY <1>8, <1>9

\* A level taken leaves no negative remainder and no amount beyond MaxInt64.
LEMMA OneLevelType ==
  ASSUME NEW q \in Nat, NEW c \in Walks(q), NEW lv \in Level
  PROVE  TakeLevel(c, lv) \in Walks(q)
  <1>1. /\ c = [err |-> c.err, left |-> c.left, notional |-> c.notional, fills |-> c.fills]
        /\ c.left \in 0..q /\ c.notional \in 0..MaxInt64 /\ MaxInt64 \in Nat
        /\ c.fills \in Seq(Level)
    BY ScaleAssumption DEF Walks
  <1>2. CASE c.err # "none" \/ c.left <= 0
    BY <1>2 DEF TakeLevel
  <1>3. CASE c.err = "none" /\ c.left > 0
    <2> DEFINE take == Take(c.left, lv)
               n == c.notional + Rounded(lv.price, take)
               fl == [venue |-> lv.venue, price |-> lv.price, qty |-> take]
    <2>1. /\ take \in 1..c.left /\ take <= lv.qty
          /\ TakeLevel(c, lv) =
                IF n > MaxInt64 THEN [c EXCEPT !.err = "overflow"]
                ELSE [err |-> "none", left |-> c.left - take, notional |-> n,
                      fills |-> Append(c.fills, fl)]
      BY <1>3, OneLevel
    <2>2. lv.venue \in {Coinbase, Kraken} /\ lv.price \in 1..MaxInt64 /\ lv.qty \in 1..MaxInt64
      BY DEF Level
    <2> HIDE DEF take
    <2>3. fl \in Level
      BY <1>1, <2>1, <2>2 DEF Level
    <2>4. Append(c.fills, fl) \in Seq(Level)
      BY <1>1, <2>3
    <2>5. n \in Nat
      BY <1>1, <2>1, <2>2, RoundedDown
    <2>6. c.left - take \in 0..q
      BY <1>1, <2>1
    <2> HIDE DEF n, fl
    <2> QED
      BY <1>1, <2>1, <2>4, <2>5, <2>6 DEF Walks
  <1> QED
    BY <1>1, <1>2, <1>3

-----------------------------------------------------------------------------
(* Sums over fills.                                                        *)

\* Sums of sizes and of amounts are natural numbers.
LEMMA SumsType ==
  ASSUME NEW V, V = Nat
  PROVE  /\ 0 \in V
         /\ \A v \in V, t \in Taken : AddQty(v, t) \in V
         /\ \A v \in V, t \in Taken : AddWorth(v, t) \in V
  <1>1. ASSUME NEW v \in Nat, NEW t \in Taken
        PROVE  AddQty(v, t) \in Nat /\ AddWorth(v, t) \in Nat
    <2>1. t.price \in Nat /\ t.qty \in Nat
      BY ScaleAssumption DEF Taken
    <2>2. t.price * t.qty \in Nat
      BY <2>1
    <2> QED
      BY <2>1, <2>2 DEF AddQty, AddWorth
  <1> QED
    BY <1>1

\* A fill more adds its size, and what it costs.
LEMMA SumsAppend ==
  ASSUME NEW fills \in Seq(Taken), NEW fl \in Taken
  PROVE  /\ TotalDepth(fills) \in Nat /\ Worth(fills) \in Nat
         /\ TotalDepth(Append(fills, fl)) = TotalDepth(fills) + fl.qty
         /\ Worth(Append(fills, fl)) = Worth(fills) + fl.price * fl.qty
  <1> DEFINE V == Nat
             b == 0
  <1>1. /\ b \in V
        /\ \A v \in V, t \in Taken : AddQty(v, t) \in V
        /\ \A v \in V, t \in Taken : AddWorth(v, t) \in V
    BY SumsType
  <1>2. FoldLeft(AddQty, b, fills) \in V /\ FoldLeft(AddWorth, b, fills) \in V
    <2> HIDE DEF V, b
    <2>1. Sizes!Fold(b, fills) \in V
      BY <1>1, Sizes!FoldType
    <2>2. Worths!Fold(b, fills) \in V
      BY <1>1, Worths!FoldType
    <2> QED
      BY <2>1, <2>2, FoldsAreFolds
  <1>3. /\ FoldLeft(AddQty, b, Append(fills, fl)) = AddQty(FoldLeft(AddQty, b, fills), fl)
        /\ FoldLeft(AddWorth, b, Append(fills, fl)) = AddWorth(FoldLeft(AddWorth, b, fills), fl)
    <2> HIDE DEF V, b
    <2>1. Sizes!Fold(b, Append(fills, fl)) = AddQty(Sizes!Fold(b, fills), fl)
      BY <1>1, Sizes!FoldAppend
    <2>2. Worths!Fold(b, Append(fills, fl)) = AddWorth(Worths!Fold(b, fills), fl)
      BY <1>1, Worths!FoldAppend
    <2> QED
      BY <2>1, <2>2, FoldsAreFolds
  <1> QED
    BY <1>2, <1>3 DEF TotalDepth, Worth, AddQty, AddWorth

\* Before the first fill there is nothing.
LEMMA SumsEmpty ==
  TotalDepth(<<>>) = 0 /\ Worth(<<>>) = 0
  BY FoldsAreFolds, Sizes!FoldEmpty, Worths!FoldEmpty DEF TotalDepth, Worth

\* What a ladder displays, and what fills cost, up to each of them.
LEMMA SumRuns ==
  ASSUME NEW V, V = Nat, NEW l \in Seq(Taken)
  PROVE  /\ \E d : Sizes!IsRun(d, V, 0, l) /\ d[Len(l)] = TotalDepth(l)
         /\ \E w : Worths!IsRun(w, V, 0, l) /\ w[Len(l)] = Worth(l)
  <1> DEFINE b == 0
  <1>1. /\ b \in V
        /\ \A v \in V, t \in Taken : AddQty(v, t) \in V
        /\ \A v \in V, t \in Taken : AddWorth(v, t) \in V
    BY SumsType
  <1>2. FoldLeft(AddQty, b, l) = TotalDepth(l) /\ FoldLeft(AddWorth, b, l) = Worth(l)
    BY DEF TotalDepth, Worth
  <1> HIDE DEF b
  <1>3. \E d : Sizes!IsRun(d, V, b, l) /\ d[Len(l)] = Sizes!Fold(b, l)
    BY <1>1, Sizes!FoldRun
  <1>4. \E w : Worths!IsRun(w, V, b, l) /\ w[Len(l)] = Worths!Fold(b, l)
    BY <1>1, Worths!FoldRun
  <1>5. Sizes!Fold(b, l) = TotalDepth(l) /\ Worths!Fold(b, l) = Worth(l)
    BY <1>2, FoldsAreFolds
  <1> QED
    BY <1>3, <1>4, <1>5 DEF b

\* The walk after each level of the ladder.
LEMMA WalkRun ==
  ASSUME NEW l \in Seq(Level), NEW q \in Nat
  PROVE  \E c : Levels!IsRun(c, Walks(q), Begun(q), l)
                /\ c[Len(l)] = FoldLeft(TakeLevel, Begun(q), l)
  <1> DEFINE V == Walks(q)
             b == Begun(q)
  <1>1. b \in V
    BY ScaleAssumption DEF Begun, Walks
  <1>2. \A c \in V, lv \in Level : TakeLevel(c, lv) \in V
    BY OneLevelType
  <1>3. \E c : Levels!IsRun(c, V, b, l) /\ c[Len(l)] = FoldLeft(TakeLevel, b, l)
    <2> HIDE DEF V, b
    <2>1. \E c : Levels!IsRun(c, V, b, l) /\ c[Len(l)] = Levels!Fold(b, l)
      BY <1>1, <1>2, Levels!FoldRun
    <2> QED
      BY <2>1, FoldsAreFolds
  <1> QED
    BY <1>3

-----------------------------------------------------------------------------
(* The walk, level by level.                                               *)

\* fl is taken from lv.
IsFillOf(fl, lv) == fl = [lv EXCEPT !.qty = fl.qty] /\ fl.qty <= lv.qty

\* What fills cost is at most their size at the price of some of them.
PricedWithin(fills) ==
  \E i \in 1..Len(fills) : Worth(fills) <= fills[i].price * TotalDepth(fills)

\* The sizes of a walk for q after k levels of l that display d.
WalkedSizes(l, q, k, d, c) ==
  /\ c.left = IF d >= q THEN 0 ELSE q - d
  /\ TotalDepth(c.fills) = q - c.left
  /\ Len(c.fills) <= k
  /\ (c.left > 0 => Len(c.fills) = k)
  /\ \A i \in 1..Len(c.fills) : IsFillOf(c.fills[i], l[i])

\* Its amounts.
WalkedWorth(c) ==
  /\ c.notional * Scale <= Worth(c.fills)
  /\ Worth(c.fills) + Len(c.fills) <= (c.notional + Len(c.fills)) * Scale
  /\ (c.fills # <<>> => PricedWithin(c.fills))

Walked(l, q, k, d, c) == c.err = "none" => WalkedSizes(l, q, k, d, c) /\ WalkedWorth(c)

\* Fills are levels, and may be taken.
LEMMA LevelIsTaken == Level \subseteq Taken /\ Seq(Level) \subseteq Seq(Taken)
  <1>1. Level \subseteq Taken
    BY ScaleAssumption DEF Level, Taken
  <1>2. ASSUME NEW s \in Seq(Level)
        PROVE  s \in Seq(Taken)
    BY <1>1
  <1> QED
    BY <1>1, <1>2

LEMMA WalkParts ==
  ASSUME NEW q \in Nat, NEW c \in Walks(q)
  PROVE  c.left \in 0..q /\ c.fills \in Seq(Level)
  BY DEF Walks

\* A fill at a level keeps the sizes right.
LEMMA SizesStep ==
  ASSUME NEW l \in Seq(Level), NEW q \in Nat, NEW k \in Nat, k + 1 <= Len(l), NEW d \in Nat,
         NEW c \in Walks(q), c.err = "none", c.left > 0, WalkedSizes(l, q, k, d, c),
         NEW n \in 0..MaxInt64, NEW b,
         b = [err |-> "none", left |-> c.left - Take(c.left, l[k + 1]), notional |-> n,
              fills |-> Append(c.fills, [venue |-> l[k + 1].venue, price |-> l[k + 1].price,
                                         qty |-> Take(c.left, l[k + 1])])]
  PROVE  WalkedSizes(l, q, k + 1, d + l[k + 1].qty, b)
  <1> DEFINE lv == l[k + 1]
             take == Take(c.left, lv)
             fl == [venue |-> lv.venue, price |-> lv.price, qty |-> take]
  <1>1. lv \in Level /\ lv.qty \in Nat \ {0} /\ c.left \in 0..q /\ c.fills \in Seq(Level)
    <2>1. lv \in Level
      OBVIOUS
    <2> HIDE DEF lv
    <2> QED
      <3>1. lv.qty \in Nat \ {0}
        BY <2>1, LevelParts
      <3>2. c.left \in 0..q /\ c.fills \in Seq(Level)
        BY WalkParts, Zenon
      <3> QED
        BY <2>1, <3>1, <3>2
  <1>2. take \in 1..c.left /\ take <= lv.qty /\ (take = lv.qty \/ take = c.left)
        /\ (take = lv.qty <=> lv.qty <= c.left)
    BY <1>1, SMTT(30) DEF Take
  <1>3. b.left = c.left - take /\ b.fills = Append(c.fills, fl)
    OBVIOUS
  <1>4. IsFillOf(fl, lv)
    <2>1. lv = [venue |-> lv.venue, price |-> lv.price, qty |-> lv.qty]
      BY <1>1 DEF Level
    <2>2. fl.qty = take /\ fl.venue = lv.venue /\ fl.price = lv.price
      OBVIOUS
    <2>3. [lv EXCEPT !.qty = take] = [venue |-> lv.venue, price |-> lv.price, qty |-> take]
      BY <2>1
    <2> HIDE DEF lv, take
    <2> QED
      BY <1>2, <2>2, <2>3 DEF IsFillOf
  <1>5. fl \in Level
    <2>1. take \in 1..MaxInt64 /\ lv.venue \in {Coinbase, Kraken} /\ lv.price \in 1..MaxInt64
      <3>1. lv \in Level
        BY <1>1
      <3>2. lv.qty \in 1..MaxInt64 /\ MaxInt64 \in Nat
            /\ lv.venue \in {Coinbase, Kraken} /\ lv.price \in 1..MaxInt64
        BY <3>1, LevelParts, Zenon
      <3> HIDE DEF take, lv
      <3> QED
        BY <1>2, <3>2
    <2> HIDE DEF take, lv
    <2> QED
      BY <2>1 DEF Level
  <1> HIDE DEF lv, take, fl
  <1>6. Len(c.fills) = k
    BY DEF WalkedSizes
  <1>7. /\ Len(b.fills) = k + 1
        /\ b.fills[k + 1] = fl /\ \A i \in 1..k : b.fills[i] = c.fills[i]
    BY <1>1, <1>3, <1>5, <1>6
  <1>8. \A i \in 1..(k + 1) : IsFillOf(b.fills[i], l[i])
    <2>1. \A i \in 1..k : IsFillOf(c.fills[i], l[i])
      BY <1>6 DEF WalkedSizes
    <2>2. \A i \in 1..(k + 1) : i \in 1..k \/ i = k + 1
      OBVIOUS
    <2> QED
      BY <1>4, <1>7, <2>1, <2>2 DEF lv
  <1>9. TotalDepth(b.fills) = TotalDepth(c.fills) + take
    <2>1. c.fills \in Seq(Taken) /\ fl \in Taken /\ fl.qty = take
      BY <1>1, <1>5, LevelIsTaken DEF fl
    <2> QED
      BY <1>3, <2>1, SumsAppend
  <1>10. TotalDepth(c.fills) = q - c.left /\ c.left = (IF d >= q THEN 0 ELSE q - d)
    BY DEF WalkedSizes
  <1>11. TotalDepth(b.fills) = q - b.left
    BY <1>1, <1>2, <1>3, <1>9, <1>10
  <1>12. b.left = IF d + lv.qty >= q THEN 0 ELSE q - (d + lv.qty)
    <2> DEFINE x == lv.qty
               y == c.left
               z == b.left
    <2>1. /\ x \in Nat \ {0} /\ y \in 0..q /\ z = y - take /\ y = (IF d >= q THEN 0 ELSE q - d)
          /\ take \in 1..y /\ take <= x /\ (take = x \/ take = y) /\ (take = x <=> x <= y)
      BY <1>1, <1>2, <1>3, <1>10
    <2> HIDE DEF x, y, z
    <2>2. z = IF d + x >= q THEN 0 ELSE q - (d + x)
      BY <2>1
    <2> QED
      BY <2>2 DEF x, z
  <1> QED
    BY <1>7, <1>8, <1>11, <1>12, SMTT(30) DEF WalkedSizes, lv

\* A fill at price y added to fills that cost at most their size at price p.
LEMMA PricesUp ==
  ASSUME NEW p \in Nat, NEW y \in Nat, NEW n \in Nat, NEW z \in Nat, NEW w \in Nat,
         w <= p * n
  PROVE  /\ p >= y => w + y * z <= p * (n + z)
         /\ ~(p >= y) => w + y * z <= y * (n + z)
  <1> DEFINE pn == p * n
             pz == p * z
             yn == y * n
             yz == y * z
  <1>1. /\ p * (n + z) = pn + pz /\ y * (n + z) = yn + yz
        /\ pn \in Nat /\ pz \in Nat /\ yn \in Nat /\ yz \in Nat
    OBVIOUS
  <1>2. p >= y => yz <= pz
    OBVIOUS
  <1>3. ~(p >= y) => pn <= yn
    OBVIOUS
  <1>4. w <= pn
    OBVIOUS
  <1> HIDE DEF pn, pz, yn, yz
  <1>5. /\ p >= y => w + yz <= pn + pz
        /\ ~(p >= y) => w + yz <= yn + yz
    BY <1>1, <1>2, <1>3, <1>4
  <1> QED
    BY <1>1, <1>5 DEF yz

\* A fill at a level keeps the amounts right.
LEMMA WorthStep ==
  ASSUME NEW fills \in Seq(Level), NEW fl \in Level, NEW n \in Nat,
         n * Scale <= Worth(fills), Worth(fills) + Len(fills) <= (n + Len(fills)) * Scale,
         fills # <<>> => PricedWithin(fills)
  PROVE  LET m == n + Rounded(fl.price, fl.qty)
             s == Append(fills, fl)
         IN /\ m * Scale <= Worth(s)
            /\ Worth(s) + Len(s) <= (m + Len(s)) * Scale
            /\ PricedWithin(s)
  <1> DEFINE r == Rounded(fl.price, fl.qty)
             x == fl.price * fl.qty
             s == Append(fills, fl)
             w == Worth(fills)
             dd == TotalDepth(fills)
             k == Len(fills)
  <1>1. fl.price \in Nat /\ fl.qty \in Nat
    BY LevelParts
  <1>2. /\ Len(s) = k + 1 /\ k \in Nat
        /\ s[k + 1] = fl /\ \A i \in 1..k : s[i] = fills[i]
    OBVIOUS
  <1>3. Worth(s) = w + x /\ TotalDepth(s) = dd + fl.qty /\ w \in Nat /\ dd \in Nat
    BY LevelIsTaken, SumsAppend
  <1>4. r \in Nat /\ x \in Nat /\ r * Scale <= x /\ x < (r + 1) * Scale
    <2>1. x \in Nat
      BY <1>1
    <2> QED
      BY <1>1, <2>1, RoundedDown
  <1>5. (n + r) * Scale <= w + x /\ w + x + (k + 1) <= (n + r + (k + 1)) * Scale
    <2> HIDE DEF r, x, w, k
    <2>1. (n + r) * Scale = n * Scale + r * Scale
      BY <1>4, ScaleAssumption
    <2>2. /\ (n + r + (k + 1)) * Scale = (n + k) * Scale + (r + 1) * Scale
      BY <1>2, <1>4, ScaleAssumption
    <2>3. n * Scale \in Nat /\ r * Scale \in Nat /\ (n + k) * Scale \in Nat /\ (r + 1) * Scale \in Nat
      BY <1>2, <1>4, ScaleAssumption
    <2>4. n * Scale <= w /\ w + k <= (n + k) * Scale
      BY DEF w, k
    <2> DEFINE n1 == n * Scale
               n2 == r * Scale
               n3 == (n + k) * Scale
               n4 == (r + 1) * Scale
    <2>5. /\ n1 \in Nat /\ n2 \in Nat /\ n3 \in Nat /\ n4 \in Nat
          /\ n1 <= w /\ w + k <= n3 /\ n2 <= x /\ x < n4
      BY <1>4, <2>3, <2>4
    <2> HIDE DEF n1, n2, n3, n4
    <2>6. n1 + n2 <= w + x /\ w + x + (k + 1) <= n3 + n4
      BY <1>2, <1>3, <1>4, <2>5
    <2> QED
      BY <2>1, <2>2, <2>6 DEF n1, n2, n3, n4
  <1>6. \E i \in 1..(k + 1) : w + x <= s[i].price * (dd + fl.qty)
    <2>1. CASE fills = <<>>
      <3>1. k = 0 /\ w = 0 /\ dd = 0
        BY <2>1, SumsEmpty
      <3> HIDE DEF w, dd, s, k
      <3> QED
        BY <1>1, <1>2, <3>1
    <2>2. CASE fills # <<>>
      <3>1. PICK i \in 1..k : w <= fills[i].price * dd
        BY <2>2 DEF PricedWithin
      <3> DEFINE p == fills[i].price
      <3>2. p \in Nat /\ i \in 1..(k + 1) /\ s[i].price = p
        <4>1. fills[i] \in Level /\ i \in 1..(k + 1)
          BY <1>2, <3>1
        <4>2. fills[i].price \in Nat
          BY <4>1, LevelParts
        <4> QED
          BY <1>2, <3>1, <4>1, <4>2
      <3> DEFINE y == fl.price
                 z == fl.qty
      <3>3. y \in Nat /\ z \in Nat /\ x = y * z /\ w <= p * dd
        BY <1>1, <3>1
      <3> HIDE DEF w, dd, s, k, x, y, z, p
      <3>4. CASE p >= y
        <4>1. w + x <= p * (dd + z)
          BY <1>3, <3>2, <3>3, <3>4, PricesUp
        <4> QED
          BY <3>2, <4>1 DEF z
      <3>5. CASE ~(p >= y)
        <4>1. w + x <= y * (dd + z)
          BY <1>3, <3>2, <3>3, <3>5, PricesUp
        <4>2. k + 1 \in 1..(k + 1)
          BY <1>2
        <4> QED
          BY <1>2, <4>1, <4>2 DEF y, z
      <3> QED
        BY <3>4, <3>5
    <2> QED
      BY <2>1, <2>2
  <1>7. PricedWithin(s)
    <2> HIDE DEF w, x, dd, k, s
    <2> QED
      BY <1>2, <1>3, <1>6 DEF PricedWithin
  <1> QED
    BY <1>2, <1>3, <1>5, <1>7

\* The walk keeps its sizes and its amounts at every level.
LEMMA WalkedStep ==
  ASSUME NEW l \in Seq(Level), NEW q \in Nat, NEW k \in Nat, k + 1 <= Len(l), NEW d \in Nat,
         NEW c \in Walks(q), Walked(l, q, k, d, c)
  PROVE  Walked(l, q, k + 1, d + l[k + 1].qty, TakeLevel(c, l[k + 1]))
  <1> DEFINE lv == l[k + 1]
             b == TakeLevel(c, lv)
  <1>1. lv \in Level /\ b \in Walks(q)
    BY OneLevelType
  <1>2. /\ c.left \in 0..q /\ c.notional \in 0..MaxInt64 /\ c.fills \in Seq(Level)
        /\ c.err \in {"none", "overflow"} /\ MaxInt64 \in Nat
    BY ScaleAssumption DEF Walks
  <1>3. lv.qty \in Nat \ {0} /\ lv.price \in 1..MaxInt64 /\ lv.venue \in {Coinbase, Kraken}
    <2> HIDE DEF lv, b
    <2> QED
      BY <1>1, LevelParts
  <1> HIDE DEF lv
  <1>4. CASE c.err # "none"
    BY <1>4 DEF TakeLevel, Walked
  <1>5. CASE c.err = "none" /\ c.left <= 0
    <2>1. b = c
      BY <1>5 DEF TakeLevel
    <2>2. WalkedSizes(l, q, k, d, c) /\ WalkedWorth(c)
      BY <1>5 DEF Walked
    <2>3. WalkedSizes(l, q, k + 1, d + lv.qty, c)
      <3> DEFINE y == c.left
                 x == lv.qty
      <3>1. y = (IF d >= q THEN 0 ELSE q - d) /\ y = 0 /\ x \in Nat
        BY <1>2, <1>3, <1>5, <2>2 DEF WalkedSizes
      <3>2. y = IF d + x >= q THEN 0 ELSE q - (d + x)
        <4> HIDE DEF x, y
        <4> QED
          BY <3>1
      <3>3. Len(c.fills) <= k + 1
        BY <1>2, <2>2 DEF WalkedSizes
      <3> QED
        <4>1. /\ TotalDepth(c.fills) = q - c.left /\ ~(c.left > 0)
              /\ \A i \in 1..Len(c.fills) : IsFillOf(c.fills[i], l[i])
          BY <1>2, <1>5, <2>2 DEF WalkedSizes
        <4> HIDE DEF lv, b
        <4> QED
          BY <3>2, <3>3, <4>1 DEF WalkedSizes
    <2> HIDE DEF b
    <2> QED
      BY <2>1, <2>2, <2>3 DEF Walked, lv, b
  <1>6. CASE c.err = "none" /\ c.left > 0
    <2> DEFINE take == Take(c.left, lv)
               n == c.notional + Rounded(lv.price, take)
               fl == [venue |-> lv.venue, price |-> lv.price, qty |-> take]
    <2>1. /\ take \in 1..c.left /\ take <= lv.qty
          /\ b = IF n > MaxInt64 THEN [c EXCEPT !.err = "overflow"]
                 ELSE [err |-> "none", left |-> c.left - take, notional |-> n,
                       fills |-> Append(c.fills, fl)]
      BY <1>1, <1>6, OneLevel
    <2>2. CASE n > MaxInt64
      <3>1. b.err = "overflow"
        BY <2>1, <2>2 DEF Walks
      <3> QED
        BY <3>1 DEF Walked, lv
    <2>3. CASE ~(n > MaxInt64)
      <3>1. b = [err |-> "none", left |-> c.left - take, notional |-> n,
                 fills |-> Append(c.fills, fl)]
        BY <2>1, <2>3
      <3>2. WalkedSizes(l, q, k, d, c) /\ WalkedWorth(c)
        BY <1>6 DEF Walked
      <3>3. n \in 0..MaxInt64
        <4>1. Rounded(lv.price, take) \in Nat
          <5>1. take \in Nat /\ lv.price \in Nat
            BY <1>2, <1>3, <2>1
          <5> HIDE DEF take
          <5> QED
            BY <5>1, RoundedDown
        <4> QED
          BY <1>2, <2>3, <4>1
      <3>4. WalkedSizes(l, q, k + 1, d + lv.qty, b)
        <4> HIDE DEF n, b
        <4> QED
          BY <1>6, <3>1, <3>2, <3>3, SizesStep DEF lv
      <3>5. WalkedWorth(b)
        <4>1. fl \in Level /\ fl.price = lv.price /\ fl.qty = take
          <5>1. take \in 1..MaxInt64
            <6>1. lv.qty \in 1..MaxInt64
              BY <1>1 DEF Level
            <6> HIDE DEF take
            <6> QED
              BY <1>2, <2>1, <6>1
          <5> HIDE DEF take
          <5> QED
            BY <1>3, <5>1 DEF Level
        <4>2. b.notional = n /\ b.fills = Append(c.fills, fl) /\ b.fills # <<>>
          <5> HIDE DEF fl, n
          <5>1. b.notional = n /\ b.fills = Append(c.fills, fl)
            BY <3>1
          <5>2. Append(c.fills, fl) # <<>>
            <6> DEFINE t == Append(c.fills, fl)
            <6>1. Len(t) = Len(c.fills) + 1 /\ Len(c.fills) \in Nat
              BY <1>2, <4>1
            <6> HIDE DEF t
            <6>2. t # <<>>
              BY <6>1
            <6> QED
              BY <6>2 DEF t
          <5> QED
            BY <5>1, <5>2
        <4>3. /\ c.notional * Scale <= Worth(c.fills)
              /\ Worth(c.fills) + Len(c.fills) <= (c.notional + Len(c.fills)) * Scale
              /\ (c.fills # <<>> => PricedWithin(c.fills))
          BY <3>2 DEF WalkedWorth
        <4> DEFINE s == c.fills
                   m == c.notional
        <4>4. m \in Nat /\ s \in Seq(Level)
          BY <1>2
        <4> HIDE DEF fl, take, b, s, m
        <4>5. /\ (m + Rounded(fl.price, fl.qty)) * Scale <= Worth(Append(s, fl))
              /\ Worth(Append(s, fl)) + Len(Append(s, fl))
                    <= (m + Rounded(fl.price, fl.qty) + Len(Append(s, fl))) * Scale
              /\ PricedWithin(Append(s, fl))
          BY <4>1, <4>3, <4>4, WorthStep DEF s, m
        <4> QED
          BY <4>1, <4>2, <4>5 DEF WalkedWorth, s, m
      <3> HIDE DEF b
      <3> QED
        BY <3>4, <3>5 DEF Walked, lv, b
    <2> QED
      BY <2>2, <2>3
  <1> QED
    BY <1>2, <1>4, <1>5, <1>6

\* A walk of the whole ladder.
LEMMA WholeWalk ==
  ASSUME NEW l \in Seq(Level), NEW q \in Nat \ {0}
  PROVE  LET c == FoldLeft(TakeLevel, Begun(q), l)
         IN c \in Walks(q) /\ Walked(l, q, Len(l), TotalDepth(l), c)
  <1> DEFINE V == Nat
             n == Len(l)
  <1>1. PICK d : Sizes!IsRun(d, V, 0, l) /\ d[n] = TotalDepth(l)
    BY LevelIsTaken, SumRuns
  <1>2. PICK c : Levels!IsRun(c, Walks(q), Begun(q), l)
                 /\ c[n] = FoldLeft(TakeLevel, Begun(q), l)
    BY WalkRun
  <1>3. /\ d \in [0..n -> Nat] /\ d[0] = 0
        /\ \A i \in 1..n : d[i] = d[i - 1] + l[i].qty
    BY <1>1 DEF Sizes!IsRun, AddQty
  <1>4. /\ c \in [0..n -> Walks(q)] /\ c[0] = Begun(q)
        /\ \A i \in 1..n : c[i] = TakeLevel(c[i - 1], l[i])
    BY <1>2 DEF Levels!IsRun
  <1> DEFINE Good(k) == Walked(l, q, k, d[k], c[k])
             T == {k \in Nat : k <= n => Good(k)}
  <1>5. 0 \in T
    <2>1. WalkedSizes(l, q, 0, 0, Begun(q)) /\ WalkedWorth(Begun(q))
      <3>1. /\ Begun(q).left = q /\ Begun(q).notional = 0 /\ Begun(q).fills = <<>>
            /\ Len(<<>>) = 0
        BY DEF Begun
      <3> QED
        BY <3>1, SumsEmpty, ScaleAssumption DEF WalkedSizes, WalkedWorth
    <2> QED
      BY <1>3, <1>4, <2>1 DEF Walked
  <1>6. ASSUME NEW k \in Nat, k \in T
        PROVE  k + 1 \in T
    <2> SUFFICES ASSUME k + 1 <= n
                 PROVE  Good(k + 1)
      OBVIOUS
    <2>1. /\ Good(k) /\ n \in Nat /\ k \in 0..n /\ k + 1 \in 1..n /\ (k + 1) - 1 = k
      BY <1>6
    <2>2. d[k + 1] = d[k] + l[k + 1].qty /\ c[k + 1] = TakeLevel(c[k], l[k + 1])
      BY <1>3, <1>4, <2>1
    <2>3. d[k] \in Nat /\ c[k] \in Walks(q)
      BY <1>3, <1>4, <2>1
    <2>4. Walked(l, q, k + 1, d[k] + l[k + 1].qty, TakeLevel(c[k], l[k + 1]))
      BY <2>1, <2>3, WalkedStep
    <2> QED
      BY <2>2, <2>4
  <1> HIDE DEF Good
  <1>7. n \in T
    <2>1. Nat \subseteq T
      <3> HIDE DEF T
      <3> QED
        BY <1>5, <1>6, Sizes!NaturalInduction
    <2> QED
      BY <2>1
  <1>8. c[n] \in Walks(q)
    BY <1>4
  <1> QED
    BY <1>1, <1>2, <1>7, <1>8 DEF Good

\* A ladder with a level displays something.
LEMMA DepthPositive ==
  ASSUME NEW l \in Seq(Level), l # <<>>
  PROVE  TotalDepth(l) \in Nat \ {0}
  <1> DEFINE V == Nat
             n == Len(l)
  <1>1. PICK d : Sizes!IsRun(d, V, 0, l) /\ d[n] = TotalDepth(l)
    BY LevelIsTaken, SumRuns
  <1>2. /\ d \in [0..n -> Nat] /\ d[0] = 0
        /\ \A i \in 1..n : d[i] = d[i - 1] + l[i].qty
    BY <1>1 DEF Sizes!IsRun, AddQty
  <1>3. n \in Nat /\ n # 0
    OBVIOUS
  <1>4. n \in 1..n /\ n - 1 \in 0..n /\ n \in 0..n
    BY <1>3
  <1>5. l[n] \in Level
    BY <1>4
  <1>6. l[n].qty \in Nat \ {0}
    BY <1>5, LevelParts
  <1> QED
    BY <1>1, <1>2, <1>4, <1>6

-----------------------------------------------------------------------------
(* What Walk answers.                                                      *)

\* An average of amounts no dearer than p is no dearer than p.
LEMMA AverageWithin ==
  ASSUME NEW n \in Nat, NEW w \in Nat, NEW q \in Nat \ {0}, NEW p \in Nat,
         n * Scale <= w, w <= p * q
  PROVE  (n * Scale) \div q \in Nat /\ (n * Scale) \div q <= p
  <1> DEFINE x == n * Scale
             pq == p * q
             a == x \div q
  <1>1. x \in Nat /\ pq \in Nat /\ x <= pq
    BY ScaleAssumption
  <1> HIDE DEF x
  <1>2. a \in Nat /\ a * q <= x
    BY <1>1
  <1> HIDE DEF a, pq
  <1>3. a * q <= pq
    <2> DEFINE aq == a * q
    <2>1. aq \in Nat
      BY <1>2
    <2> HIDE DEF aq
    <2> QED
      BY <1>1, <1>2, <2>1 DEF aq
  <1>4. CASE a > p
    <2>1. a >= p + 1
      BY <1>2, <1>4
    <2>2. a * q >= (p + 1) * q
      BY <1>2, <2>1
    <2>3. (p + 1) * q = pq + q
      BY DEF pq
    <2> DEFINE aq == a * q
    <2>4. aq \in Nat /\ aq <= pq /\ aq >= pq + q
      BY <1>2, <1>3, <2>2, <2>3
    <2> HIDE DEF aq
    <2> QED
      BY <1>1, <2>4
  <1> QED
    BY <1>2, <1>4 DEF a, x

\* What Walk returns when no amount is too large: the sizes and amounts of the walk
\* of the whole ladder, and an average that some fill's price bounds.
LEMMA WalkAnswers ==
  ASSUME NEW l \in Seq(Level), l # <<>>, NEW side, SortedBestFirst(side, l), NEW q \in Nat \ {0}
  PROVE  LET c == FoldLeft(TakeLevel, Begun(q), l)
             r == Walk(l, side, q)
         IN /\ r.err = IF c.err = "overflow" THEN "overflow" ELSE IF c.left > 0 THEN "depth" ELSE "none"
            /\ c.err = "none" =>
                 /\ r.filled = q - c.left /\ r.notional = c.notional /\ r.fills = c.fills
                 /\ \E i \in 1..Len(c.fills) : r.avg <= c.fills[i].price
  <1> DEFINE c == FoldLeft(TakeLevel, Begun(q), l)
             r == Walk(l, side, q)
             n == Len(l)
             d == TotalDepth(l)
             f == q - c.left
  <1>1. c \in Walks(q) /\ Walked(l, q, n, d, c)
    BY WholeWalk
  <1>2. r = Costed(c, q)
    BY DEF Walk
  <1> SUFFICES
        /\ r.err = IF c.err = "overflow" THEN "overflow" ELSE IF c.left > 0 THEN "depth" ELSE "none"
        /\ (c.err = "none" =>
              /\ r.filled = q - c.left /\ r.notional = c.notional /\ r.fills = c.fills
              /\ \E i \in 1..Len(c.fills) : r.avg <= c.fills[i].price)
    OBVIOUS
  <1> HIDE DEF c, r
  <1>3. /\ c.left \in 0..q /\ c.notional \in 0..MaxInt64 /\ c.fills \in Seq(Level)
        /\ c.err \in {"none", "overflow"} /\ MaxInt64 \in Nat
    BY <1>1, ScaleAssumption DEF Walks
  <1>4. CASE c.err = "overflow"
    BY <1>2, <1>4 DEF Costed
  <1>5. CASE c.err = "none"
    <2>1. WalkedSizes(l, q, n, d, c) /\ WalkedWorth(c)
      BY <1>1, <1>5 DEF Walked
    <2>2. f \in Nat \ {0} /\ TotalDepth(c.fills) = f
      <3>1. TotalDepth(c.fills) = f /\ (c.left > 0 => Len(c.fills) = n)
            /\ c.left = (IF d >= q THEN 0 ELSE q - d)
        BY <2>1 DEF WalkedSizes
      <3>2. d \in Nat \ {0}
        BY DepthPositive
      <3> HIDE DEF d
      <3> QED
        BY <1>3, <3>1, <3>2
    <2>3. c.fills # <<>>
      BY <2>2, SumsEmpty
    <2>4. PICK i \in 1..Len(c.fills) : Worth(c.fills) <= c.fills[i].price * f
      BY <2>1, <2>2, <2>3 DEF WalkedWorth, PricedWithin
    <2> DEFINE p == c.fills[i].price
               a == (c.notional * Scale) \div f
    <2>5. p \in Nat /\ p <= MaxInt64
      <3>1. c.fills[i] \in Level
        BY <1>3, <2>4
      <3> HIDE DEF p
      <3>2. c.fills[i].price \in 1..MaxInt64
        BY <3>1 DEF Level
      <3> QED
        BY <1>3, <3>2 DEF p
    <2>6. Worth(c.fills) \in Nat
      <3>1. c.fills \in Seq(Taken)
        BY <1>3, LevelIsTaken
      <3>2. \E lv \in Taken : TRUE
        <4>1. c.fills[i] \in Level
          BY <1>3, <2>4
        <4> QED
          BY <4>1, LevelIsTaken
      <3> QED
        BY <3>1, <3>2, SumsAppend
    <2>7. a \in Nat /\ a <= p
      <3>1. c.notional * Scale <= Worth(c.fills)
        BY <2>1 DEF WalkedWorth
      <3>2. c.notional \in Nat
        BY <1>3
      <3> HIDE DEF f, p
      <3> QED
        BY <2>2, <2>4, <2>5, <2>6, <3>1, <3>2, AverageWithin DEF p
    <2>8. mulDiv(c.notional, Scale, f) = a /\ a # Overflow
      <3> HIDE DEF p
      <3>1. f # 0 /\ ~(a > MaxInt64)
        BY <1>3, <2>2, <2>5, <2>7
      <3>2. mulDiv(c.notional, Scale, f) = a
        BY <3>1 DEF mulDiv
      <3>3. a # -1
        <4> HIDE DEF a
        <4> QED
          BY <2>7
      <3> QED
        BY <3>2, <3>3 DEF Overflow
    <2> HIDE DEF a
    <2>9. f > 0
      BY <2>2
    <2>10. r = IF c.left > 0
               THEN [[err |-> c.err, filled |-> f, notional |-> c.notional, avg |-> a,
                      fills |-> c.fills] EXCEPT !.err = "depth"]
               ELSE [err |-> c.err, filled |-> f, notional |-> c.notional, avg |-> a,
                     fills |-> c.fills]
      BY <1>2, <1>5, <2>8, <2>9 DEF Costed
    <2> HIDE DEF f
    <2> QED
      BY <1>5, <2>4, <2>7, <2>10 DEF f
  <1> QED
    BY <1>3, <1>4, <1>5

\* What one level adds to a walk, over or not, whose amount still fits.
LEMMA LevelAdds ==
  ASSUME NEW q \in Nat, NEW c \in Walks(q), NEW lv \in Level
  PROVE  LET take == Take(c.left, lv)
             n == c.notional + Rounded(lv.price, take)
             b == TakeLevel(c, lv)
         IN /\ take \in 0..c.left /\ take <= lv.qty /\ Rounded(lv.price, take) \in Nat
            /\ b.err = "none" <=> c.err = "none" /\ n <= MaxInt64
            /\ b.err = "none" =>
                  /\ b.left = c.left - take /\ b.notional = n
                  /\ Worth(b.fills) = Worth(c.fills) + lv.price * take
  <1> DEFINE take == Take(c.left, lv)
             r == Rounded(lv.price, take)
             n == c.notional + r
             b == TakeLevel(c, lv)
  <1>1. /\ c.left \in 0..q /\ c.notional \in 0..MaxInt64 /\ c.fills \in Seq(Level)
        /\ c.err \in {"none", "overflow"} /\ MaxInt64 \in Nat
    BY ScaleAssumption DEF Walks
  <1>2. /\ lv.qty \in Nat \ {0} /\ lv.price \in Nat
        /\ lv.venue \in {Coinbase, Kraken} /\ lv.price \in 1..MaxInt64 /\ lv.qty \in 1..MaxInt64
    BY LevelParts
  <1>3. take \in 0..c.left /\ take <= lv.qty /\ (c.left = 0 => take = 0)
    BY <1>1, <1>2 DEF Take
  <1>4. take \in Nat
    BY <1>1, <1>3
  <1>5. r \in Nat /\ (take = 0 => r = 0)
    <2> HIDE DEF take
    <2>1. take = 0 => lv.price * take = 0
      BY <1>2
    <2>2. 0 \div Scale = 0
      BY ScaleAssumption
    <2> QED
      BY <1>2, <1>4, <2>1, <2>2, RoundedDown DEF Rounded
  <1> SUFFICES /\ (b.err = "none" <=> c.err = "none" /\ n <= MaxInt64)
               /\ (b.err = "none" =>
                     /\ b.left = c.left - take /\ b.notional = n
                     /\ Worth(b.fills) = Worth(c.fills) + lv.price * take)
    BY <1>3, <1>5
  <1>6. CASE c.err # "none"
    <2>1. b = c
      BY <1>6 DEF TakeLevel
    <2> HIDE DEF b, n, take
    <2> QED
      BY <1>6, <2>1
  <1>7. CASE c.err = "none" /\ c.left <= 0
    <2>1. b = c
      BY <1>7 DEF TakeLevel
    <2>2. take = 0 /\ c.left = 0
      BY <1>1, <1>3, <1>7
    <2> HIDE DEF take
    <2>3. r = 0 /\ lv.price * take = 0
      BY <1>2, <1>5, <2>2
    <2> HIDE DEF b, r
    <2>4. n = c.notional /\ n <= MaxInt64
      BY <1>1, <2>3
    <2>5. Worth(c.fills) \in Nat
      <3>1. c.fills \in Seq(Taken) /\ lv \in Taken
        BY <1>1, LevelIsTaken
      <3> QED
        BY <3>1, SumsAppend
    <2> QED
      BY <1>1, <1>7, <2>1, <2>2, <2>3, <2>4, <2>5
  <1>8. CASE c.err = "none" /\ c.left > 0
    <2> DEFINE fl == [venue |-> lv.venue, price |-> lv.price, qty |-> take]
    <2>1. /\ b = IF n > MaxInt64 THEN [c EXCEPT !.err = "overflow"]
                 ELSE [err |-> "none", left |-> c.left - take, notional |-> n,
                       fills |-> Append(c.fills, fl)]
      BY <1>8, OneLevel
    <2>2. n \in Nat
      BY <1>1, <1>5
    <2>3. CASE n > MaxInt64
      <3>1. b.err = "overflow"
        BY <2>1, <2>3 DEF Walks
      <3> HIDE DEF b, n
      <3> QED
        BY <1>1, <2>2, <2>3, <3>1
    <2>4. CASE ~(n > MaxInt64)
      <3>1. b = [err |-> "none", left |-> c.left - take, notional |-> n,
                 fills |-> Append(c.fills, fl)]
        BY <2>1, <2>4
      <3>2. fl \in Taken /\ c.fills \in Seq(Taken) /\ fl.price = lv.price /\ fl.qty = take
        <4> HIDE DEF take
        <4> QED
          BY <1>1, <1>2, <1>4, LevelIsTaken DEF Taken
      <3> HIDE DEF fl, take
      <3>3. Worth(Append(c.fills, fl)) = Worth(c.fills) + lv.price * take
        BY <3>2, SumsAppend
      <3> HIDE DEF b, n
      <3> QED
        BY <1>1, <1>8, <2>2, <2>4, <3>1, <3>3
    <2> QED
      BY <2>3, <2>4
  <1> QED
    BY <1>1, <1>6, <1>7, <1>8

\* A size is refused for want of depth exactly when the ladder does not display it,
\* and what is displayed of it fills: for every ladder in order, either side and any
\* size.
LEMMA WalkRefuses ==
  ASSUME NEW l \in Seq(Level), NEW side, SortedBestFirst(side, l), NEW q \in Int
  PROVE  RefusedBeyond(l, side, q)
  <1> DEFINE c == FoldLeft(TakeLevel, Begun(q), l)
             r == Walk(l, side, q)
             d == TotalDepth(l)
  <1> SUFFICES ASSUME q > 0, l # <<>>, r.err # "overflow"
               PROVE  (r.err = "depth") = (q > d) /\ r.filled = Min({q, d})
    BY DEF RefusedBeyond
  <1>1. c \in Walks(q) /\ Walked(l, q, Len(l), d, c)
    BY WholeWalk
  <1>2. /\ r.err = IF c.err = "overflow" THEN "overflow" ELSE IF c.left > 0 THEN "depth" ELSE "none"
        /\ c.err = "none" => r.filled = q - c.left
    BY WalkAnswers
  <1>3. d \in Nat
    BY DepthPositive
  <1> HIDE DEF c, r, d
  <1>4. c.err \in {"none", "overflow"} /\ c.left \in 0..q
    BY <1>1 DEF Walks
  <1>5. c.err = "none"
    BY <1>2, <1>4
  <1>6. c.left = IF d >= q THEN 0 ELSE q - d
    BY <1>1, <1>5 DEF Walked, WalkedSizes
  <1>7. Min({q, d}) = IF q <= d THEN q ELSE d
    BY <1>3, MinOfTwo
  <1>8. (r.err = "depth") <=> q > d
    BY <1>2, <1>3, <1>5, <1>6
  <1>9. r.filled = Min({q, d})
    BY <1>2, <1>3, <1>5, <1>6, <1>7
  <1> QED
    <2>1. (r.err = "depth") = (q > d)
      BY <1>8
    <2> QED
      BY <1>9, <2>1, Zenon

-----------------------------------------------------------------------------
(* The best execution.                                                     *)

\* x is no better than y for who takes from that side.
NoBetter(side, x, y) == IF side = "ask" THEN x >= y ELSE x <= y

\* What is displayed up to a level grows with the level.
LEMMA DepthGrows ==
  ASSUME NEW V, V = Nat, NEW l \in Seq(Taken), NEW d, Sizes!IsRun(d, V, 0, l),
         NEW j \in 0..Len(l)
  PROVE  \A i \in 0..j : d[i] <= d[j]
  <1> DEFINE n == Len(l)
             T == {k \in Nat : k <= n => \A i \in 0..k : d[i] <= d[k]}
  <1>1. /\ d \in [0..n -> Nat] /\ d[0] = 0
        /\ \A i \in 1..n : d[i] = d[i - 1] + l[i].qty
    BY DEF Sizes!IsRun, AddQty
  <1>2. 0 \in T
    BY <1>1
  <1>3. ASSUME NEW k \in Nat, k \in T
        PROVE  k + 1 \in T
    <2> SUFFICES ASSUME k + 1 <= n, NEW i \in 0..(k + 1)
                 PROVE  d[i] <= d[k + 1]
      OBVIOUS
    <2>1. n \in Nat /\ k \in 0..n /\ k + 1 \in 1..n /\ k + 1 \in 0..n /\ (k + 1) - 1 = k
      OBVIOUS
    <2>2. l[k + 1] \in Taken
      BY <2>1
    <2>3. l[k + 1].qty \in Nat
      BY <2>2 DEF Taken
    <2>4. d[k + 1] = d[k] + l[k + 1].qty /\ d[k] \in Nat
      BY <1>1, <2>1
    <2>5. CASE i = k + 1
      BY <2>3, <2>4, <2>5
    <2>6. CASE i \in 0..k
      <3>1. d[i] <= d[k] /\ d[i] \in Nat
        <4>1. i \in 0..n /\ \A x \in 0..k : d[x] <= d[k]
          BY <1>3, <2>1, <2>6
        <4> QED
          BY <1>1, <2>6, <4>1
      <3> QED
        BY <2>3, <2>4, <3>1
    <2> QED
      BY <2>5, <2>6
  <1> HIDE DEF T
  <1>4. j \in T
    BY <1>2, <1>3, Sizes!NaturalInduction
  <1> QED
    BY <1>4 DEF T

\* One level more, of which the walk takes t and another execution f: the walk stays
\* ahead of the other, valued at any price p that is no better than the level's.
LEMMA AheadStep ==
  ASSUME NEW side, NEW w \in Nat, NEW wc \in Nat, NEW g \in Nat, NEW a \in Nat,
         NEW t \in Nat, NEW f \in Nat, NEW y \in Nat, NEW p \in Nat,
         NoBetter(side, w + (g - a) * y, wc), a + f <= g + t, NoBetter(side, p, y)
  PROVE  NoBetter(side, w + y * f + ((g + t) - (a + f)) * p, wc + y * t)
  <1> DEFINE m == (g + t) - (a + f)
             my == m * y
             mp == m * p
             gy == (g - a) * y
             yf == y * f
             yt == y * t
  <1>1. m \in Nat
    OBVIOUS
  <1>2. my + yf = gy + yt
    OBVIOUS
  <1>3. my \in Nat /\ mp \in Nat /\ gy \in Int /\ yf \in Nat /\ yt \in Nat
    <2> HIDE DEF m
    <2> QED
      BY <1>1
  <1>4. NoBetter(side, mp, my)
    <2> HIDE DEF m
    <2>1. p >= y => mp >= my
      BY <1>1
    <2>2. p <= y => mp <= my
      BY <1>1
    <2> QED
      BY <2>1, <2>2 DEF NoBetter
  <1>5. NoBetter(side, w + gy, wc)
    OBVIOUS
  <1> HIDE DEF m, my, mp, gy, yf, yt
  <1>6. NoBetter(side, w + yf + mp, wc + yt)
    BY <1>2, <1>3, <1>4, <1>5 DEF NoBetter
  <1> QED
    BY <1>6 DEF m, mp, yf, yt

\* How the walk stands to another execution of its size after k levels of which the
\* last is at price y: it has as much or more, and at any price no better than y what
\* it has more makes up for what it cost more.
Ahead(side, k, y, w, wc, g, a) ==
  /\ a <= g
  /\ \A p \in Nat : (k = 0 \/ NoBetter(side, p, y)) => NoBetter(side, w + (g - a) * p, wc)

LEMMA NothingAhead ==
  ASSUME NEW side, NEW y
  PROVE  Ahead(side, 0, y, 0, 0, 0, 0)
  <1>1. ASSUME NEW p \in Nat
        PROVE  0 + (0 - 0) * p = 0
    OBVIOUS
  <1>2. \A p \in Nat : NoBetter(side, 0 + (0 - 0) * p, 0)
    BY <1>1 DEF NoBetter
  <1> QED
    BY <1>2 DEF Ahead

\* A level that gives t of the y a walk has left, of z displayed.
LEMMA LeftAfter ==
  ASSUME NEW q \in Nat, NEW e \in Nat, NEW x \in Nat, NEW y \in 0..q, NEW t \in 0..y,
         y = (IF e >= q THEN 0 ELSE q - e), t <= x, t = x \/ (t = y /\ y <= x)
  PROVE  y - t = (IF e + x >= q THEN 0 ELSE q - (e + x))
  <1>1. CASE e >= q
    BY <1>1
  <1>2. CASE ~(e >= q)
    <2>1. y = q - e
      BY <1>2
    <2>2. CASE t = x
      BY <2>1, <2>2
    <2>3. CASE t = y /\ y <= x
      BY <2>1, <2>3
    <2> QED
      BY <2>2, <2>3
  <1> QED
    BY <1>1, <1>2

\* Another execution of the whole size is no better than the walk.
LEMMA NoneBetter ==
  ASSUME NEW l \in Seq(Level), NEW side, SortedBestFirst(side, l), NEW q \in Nat \ {0},
         NEW f, f \in [1..Len(l) -> Nat], \A i \in 1..Len(l) : f[i] <= l[i].qty,
         TotalDepth(Taking(l, f)) = q,
         NEW cw, cw = FoldLeft(TakeLevel, Begun(q), l), cw.err = "none", cw.left = 0
  PROVE  NoBetter(side, Worth(Taking(l, f)), Worth(cw.fills))
  <1> DEFINE V == Nat
             n == Len(l)
             a == Taking(l, f)
  <1>1. n \in Nat /\ \A i \in 1..n : l[i] \in Level
    OBVIOUS
  <1>2. \A i \in 1..n : l[i].price \in Nat /\ l[i].qty \in Nat
    <2> SUFFICES ASSUME NEW i \in 1..n
                 PROVE  l[i].price \in Nat /\ l[i].qty \in Nat
      OBVIOUS
    <2>1. l[i] \in Level
      OBVIOUS
    <2> QED
      BY <2>1, LevelParts
  <1>3. /\ a \in Seq(Taken) /\ Len(a) = n
        /\ \A i \in 1..n : a[i].price = l[i].price /\ a[i].qty = f[i]
    <2>1. ASSUME NEW i \in 1..n
          PROVE  /\ a[i] \in Taken
                 /\ a[i].price = l[i].price /\ a[i].qty = f[i]
      <3>1. l[i] \in Level
        OBVIOUS
      <3>2. l[i] = [venue |-> l[i].venue, price |-> l[i].price, qty |-> l[i].qty]
            /\ l[i].venue \in {Coinbase, Kraken} /\ l[i].price \in 1..MaxInt64
        BY <3>1 DEF Level
      <3>3. a[i] = [venue |-> l[i].venue, price |-> l[i].price, qty |-> f[i]]
        BY <3>2 DEF Taking
      <3>4. f[i] \in Nat
        OBVIOUS
      <3> QED
        BY <3>2, <3>3, <3>4 DEF Taken
    <2>2. a = [i \in 1..n |-> a[i]]
      BY DEF Taking
    <2> HIDE DEF a
    <2>3. a \in [1..n -> Taken]
      BY <2>1, <2>2
    <2> QED
      BY <1>1, <2>1, <2>3
  <1>3a. TotalDepth(a) = q
    OBVIOUS
  <1> HIDE DEF a
  <1>3b. a \in Seq(Taken) /\ Len(a) = n /\ V = Nat
    BY <1>3
  <1>3c. /\ \E d : Sizes!IsRun(d, V, 0, a) /\ d[n] = TotalDepth(a)
         /\ \E w : Worths!IsRun(w, V, 0, a) /\ w[n] = Worth(a)
    <2> HIDE DEF V, n
    <2>1. /\ \E d : Sizes!IsRun(d, V, 0, a) /\ d[Len(a)] = TotalDepth(a)
          /\ \E w : Worths!IsRun(w, V, 0, a) /\ w[Len(a)] = Worth(a)
      BY <1>3b, SumRuns
    <2> QED
      BY <1>3b, <2>1
  <1>4. PICK d : Sizes!IsRun(d, V, 0, a) /\ d[n] = TotalDepth(a)
    BY <1>3c
  <1>5. PICK w : Worths!IsRun(w, V, 0, a) /\ w[n] = Worth(a)
    BY <1>3c
  <1>6. PICK c : Levels!IsRun(c, Walks(q), Begun(q), l) /\ c[n] = cw
    BY WalkRun
  <1>7. PICK e : Sizes!IsRun(e, V, 0, l)
    BY LevelIsTaken, SumRuns
  <1>8. /\ d \in [0..n -> Nat] /\ d[0] = 0 /\ d[n] = q
        /\ \A i \in 1..n : d[i] = d[i - 1] + f[i]
    <2> HIDE DEF n
    <2>1. /\ d \in [0..n -> Nat] /\ d[0] = 0 /\ d[n] = q
          /\ \A i \in 1..n : d[i] = AddQty(d[i - 1], a[i])
      BY <1>3a, <1>3b, <1>4 DEF Sizes!IsRun
    <2> QED
      BY <1>3, <2>1 DEF AddQty
  <1>9. /\ w \in [0..n -> Nat] /\ w[0] = 0
        /\ \A i \in 1..n : w[i] = w[i - 1] + l[i].price * f[i]
    <2> HIDE DEF n
    <2>1. /\ w \in [0..n -> Nat] /\ w[0] = 0
          /\ \A i \in 1..n : w[i] = AddWorth(w[i - 1], a[i])
      BY <1>3b, <1>5 DEF Worths!IsRun
    <2>2. ASSUME NEW i \in 1..n
          PROVE  w[i] = w[i - 1] + l[i].price * f[i]
      <3>1. w[i] = AddWorth(w[i - 1], a[i]) /\ a[i].price = l[i].price /\ a[i].qty = f[i]
        BY <1>3, <2>1
      <3> QED
        BY <3>1, Zenon DEF AddWorth
    <2> QED
      BY <2>1, <2>2
  <1>10. /\ c \in [0..n -> Walks(q)] /\ c[0] = Begun(q)
         /\ \A i \in 1..n : c[i] = TakeLevel(c[i - 1], l[i])
    BY <1>6 DEF Levels!IsRun
  <1>11. /\ e \in [0..n -> Nat] /\ e[0] = 0
         /\ \A i \in 1..n : e[i] = e[i - 1] + l[i].qty
    BY <1>7 DEF Sizes!IsRun, AddQty
  <1>12. \A i \in 0..n : d[i] <= q
    <2>1. Sizes!IsRun(d, V, 0, a) /\ n \in 0..Len(a)
      BY <1>1, <1>3b, <1>4
    <2>2. \A i \in 0..n : d[i] <= d[n]
      <3> HIDE DEF V, n
      <3> QED
        BY <1>3b, <2>1, DepthGrows
    <2> QED
      BY <1>8, <2>2
  <1> DEFINE Good(k) ==
               c[k].err = "none" =>
                 /\ c[k].left = (IF e[k] >= q THEN 0 ELSE q - e[k]) /\ d[k] <= e[k]
                 /\ Ahead(side, k, l[k].price, w[k], Worth(c[k].fills), q - c[k].left, d[k])
             T == {k \in Nat : k <= n => Good(k)}
  <1>13. 0 \in T
    <2>1. Begun(q).left = q /\ Begun(q).fills = <<>> /\ Worth(<<>>) = 0 /\ q - q = 0
      BY SumsEmpty DEF Begun
    <2>2. Ahead(side, 0, l[0].price, 0, 0, 0, 0)
      BY NothingAhead, Zenon
    <2> QED
      BY <1>8, <1>9, <1>10, <1>11, <2>1, <2>2
  <1>14. ASSUME NEW k \in Nat, k \in T
         PROVE  k + 1 \in T
    <2> SUFFICES ASSUME k + 1 <= n, c[k + 1].err = "none"
                 PROVE  Good(k + 1)
      OBVIOUS
    <2> DEFINE lv == l[k + 1]
               b == c[k]
               t == Take(b.left, lv)
               wc == Worth(b.fills)
               g == q - b.left
    <2>1. /\ k \in 0..n /\ k + 1 \in 1..n /\ (k + 1) - 1 = k /\ Good(k)
      BY <1>1, <1>14
    <2>2. lv \in Level /\ b \in Walks(q) /\ c[k + 1] = TakeLevel(b, lv)
          /\ lv.price \in Nat /\ lv.qty \in Nat
      BY <1>1, <1>2, <1>10, <2>1
    <2>3. /\ d[k + 1] = d[k] + f[k + 1] /\ w[k + 1] = w[k] + lv.price * f[k + 1]
          /\ e[k + 1] = e[k] + lv.qty
          /\ d[k] \in Nat /\ w[k] \in Nat /\ e[k] \in Nat /\ f[k + 1] \in Nat
          /\ f[k + 1] <= lv.qty /\ d[k + 1] <= q
      <3>1. d[k + 1] = d[k] + f[k + 1] /\ d[k] \in Nat /\ d[k + 1] <= q
        BY <1>8, <1>12, <2>1
      <3>2. w[k + 1] = w[k] + lv.price * f[k + 1] /\ w[k] \in Nat
        BY <1>9, <2>1
      <3>3. e[k + 1] = e[k] + lv.qty /\ e[k] \in Nat
        BY <1>11, <2>1
      <3>4. f[k + 1] \in Nat /\ f[k + 1] <= lv.qty
        BY <2>1
      <3> QED
        BY <3>1, <3>2, <3>3, <3>4
    <2>4. b.left \in 0..q /\ b.fills \in Seq(Level)
      BY <2>2 DEF Walks
    <2>5. wc \in Nat
      <3>1. b.fills \in Seq(Taken) /\ lv \in Taken
        BY <2>2, <2>4, LevelIsTaken
      <3> QED
        BY <3>1, SumsAppend
    <2>6. /\ t \in 0..b.left /\ t <= lv.qty
          /\ b.err = "none"
          /\ c[k + 1].left = b.left - t
          /\ Worth(c[k + 1].fills) = wc + lv.price * t
      <3> HIDE DEF lv, b
      <3> QED
        BY <2>2, LevelAdds, SMTT(30)
    <2>7. /\ b.left = (IF e[k] >= q THEN 0 ELSE q - e[k]) /\ d[k] <= e[k]
          /\ Ahead(side, k, l[k].price, w[k], wc, g, d[k])
      BY <2>1, <2>6
    <2>8. t = lv.qty \/ (t = b.left /\ b.left <= lv.qty)
      BY <2>2, <2>4 DEF Take
    <2>9. /\ b.left - t = (IF e[k] + lv.qty >= q THEN 0 ELSE q - (e[k] + lv.qty))
          /\ d[k] + f[k + 1] <= e[k] + lv.qty
          /\ d[k] + f[k + 1] <= g + t /\ g \in Nat /\ g + t = q - (b.left - t)
      <3> DEFINE x == lv.qty
                 y == b.left
                 z == f[k + 1]
                 dk == d[k]
                 ek == e[k]
      <3>1. /\ x \in Nat /\ y \in 0..q /\ z \in Nat /\ dk \in Nat /\ ek \in Nat
            /\ y = (IF ek >= q THEN 0 ELSE q - ek) /\ dk <= ek
            /\ t \in 0..y /\ t <= x /\ (t = x \/ (t = y /\ y <= x)) /\ z <= x /\ dk + z <= q
        BY <2>2, <2>3, <2>4, <2>6, <2>7, <2>8
      <3> HIDE DEF x, y, z, dk, ek, t
      <3>2. /\ y - t = (IF ek + x >= q THEN 0 ELSE q - (ek + x))
            /\ dk + z <= ek + x
            /\ q - y \in Nat /\ (q - y) + t = q - (y - t)
        <4>1. y - t = (IF ek + x >= q THEN 0 ELSE q - (ek + x))
          BY <3>1, LeftAfter
        <4>2. dk + z <= ek + x
          BY <3>1
        <4>3. q - y \in Nat /\ (q - y) + t = q - (y - t)
          BY <3>1
        <4> QED
          BY <4>1, <4>2, <4>3
      <3>3. dk + z <= (q - y) + t
        BY <3>1
      <3> QED
        BY <3>2, <3>3 DEF x, y, z, dk, ek
    <2> HIDE DEF wc, g, t
    <2>10. ASSUME NEW p \in Nat, NoBetter(side, p, lv.price)
           PROVE  NoBetter(side, w[k] + lv.price * f[k + 1] + ((g + t) - (d[k] + f[k + 1])) * p,
                           wc + lv.price * t)
      <3> DEFINE y == lv.price
      <3>1. NoBetter(side, w[k] + (g - d[k]) * y, wc)
        <4>1. k = 0 \/ NoBetter(side, y, l[k].price)
          <5> SUFFICES ASSUME k # 0
                       PROVE  NoBetter(side, y, l[k].price)
            OBVIOUS
          <5>1. k + 1 \in 2..n /\ k \in 1..n
            BY <2>1
          <5>2. ~better(side, l[k + 1].price, l[(k + 1) - 1].price)
            BY <5>1 DEF SortedBestFirst
          <5>3. l[k].price \in Nat /\ y \in Nat
            BY <1>2, <2>2, <5>1
          <5> QED
            BY <2>1, <5>2, <5>3 DEF better, NoBetter
        <4> HIDE DEF lv
        <4> QED
          BY <2>2, <2>7, <4>1 DEF Ahead
      <3>2. t \in Nat /\ y \in Nat
        BY <2>2, <2>4, <2>6
      <3> DEFINE wk == w[k]
                 dk == d[k]
                 fk == f[k + 1]
      <3>3. wk \in Nat /\ dk \in Nat /\ fk \in Nat /\ g \in Nat /\ dk + fk <= g + t
            /\ NoBetter(side, p, y) /\ NoBetter(side, wk + (g - dk) * y, wc)
        BY <2>3, <2>9, <2>10, <3>1
      <3> HIDE DEF wk, dk, fk, y
      <3>4. NoBetter(side, wk + y * fk + ((g + t) - (dk + fk)) * p, wc + y * t)
        BY <2>5, <2>10, <3>2, <3>3, AheadStep
      <3> QED
        BY <3>4 DEF wk, dk, fk, y
    <2>11. Ahead(side, k + 1, lv.price, w[k + 1], Worth(c[k + 1].fills), g + t, d[k + 1])
      <3>1. k + 1 # 0
        OBVIOUS
      <3>2. d[k + 1] <= g + t
        BY <2>3, <2>9
      <3>3. \A p \in Nat : NoBetter(side, p, lv.price) =>
               NoBetter(side, w[k + 1] + ((g + t) - d[k + 1]) * p, Worth(c[k + 1].fills))
        BY <2>3, <2>6, <2>10
      <3> HIDE DEF lv
      <3> QED
        BY <3>1, <3>2, <3>3 DEF Ahead
    <2>12. q - c[k + 1].left = g + t
      BY <2>6, <2>9
    <2> QED
      BY <2>3, <2>6, <2>9, <2>11, <2>12
  <1> HIDE DEF Good
  <1>15. Good(n)
    <2>1. Nat \subseteq T
      <3> HIDE DEF T
      <3> QED
        BY <1>13, <1>14, Sizes!NaturalInduction
    <2> QED
      BY <1>1, <2>1
  <1>16. Ahead(side, n, l[n].price, w[n], Worth(cw.fills), q, d[n])
    <2>1. q - 0 = q
      OBVIOUS
    <2> QED
      BY <1>6, <1>15, <2>1 DEF Good
  <1>17. n # 0
    BY <1>8
  <1>18. l[n].price \in Nat /\ n \in 1..n
    BY <1>1, <1>2, <1>17
  <1>19. NoBetter(side, w[n] + (q - q) * l[n].price, Worth(cw.fills))
    <2> DEFINE y == l[n].price
    <2>1. y \in Nat /\ NoBetter(side, y, y)
      BY <1>18 DEF NoBetter
    <2>2. Ahead(side, n, y, w[n], Worth(cw.fills), q, q)
      BY <1>8, <1>16
    <2> HIDE DEF y
    <2> QED
      BY <2>1, <2>2 DEF Ahead, y
  <1>20. w[n] + (q - q) * l[n].price = w[n]
    <2>1. w[n] \in Nat
      BY <1>9, <1>18
    <2> QED
      BY <1>18, <2>1
  <1> QED
    BY <1>5, <1>19, <1>20 DEF a

-----------------------------------------------------------------------------
(* What a walk is for.                                                     *)

\* Sums of no level or of some are natural numbers.
LEMMA SumsNat ==
  ASSUME NEW fills \in Seq(Taken)
  PROVE  TotalDepth(fills) \in Nat /\ Worth(fills) \in Nat
  <1>1. CASE fills = <<>>
    BY <1>1, SumsEmpty
  <1>2. CASE fills # <<>>
    <2>1. fills[1] \in Taken
      BY <1>2
    <2> QED
      BY <2>1, SumsAppend
  <1> QED
    BY <1>1, <1>2

\* What is taken of a ladder is worth something.
LEMMA TakingWorth ==
  ASSUME NEW l \in Seq(Level), NEW f, f \in [1..Len(l) -> Nat]
  PROVE  Taking(l, f) \in Seq(Taken) /\ Worth(Taking(l, f)) \in Nat
  <1> DEFINE n == Len(l)
             a == Taking(l, f)
  <1>1. ASSUME NEW i \in 1..n
        PROVE  [l[i] EXCEPT !.qty = f[i]] \in Taken
    <2>1. l[i] \in Level /\ f[i] \in Nat
      OBVIOUS
    <2>2. l[i] \in Taken
      BY <2>1, LevelIsTaken
    <2> QED
      BY <2>1, <2>2 DEF Taken
  <1>2. a \in Seq(Taken)
    <2>1. n \in Nat /\ a = [i \in 1..n |-> [l[i] EXCEPT !.qty = f[i]]]
      BY DEF Taking
    <2>2. a \in [1..n -> Taken]
      BY <1>1, <2>1
    <2> QED
      BY <2>1, <2>2
  <1> QED
    BY <1>2, SumsNat

\* The walk that is not refused took its size in full.
LEMMA WalkInFull ==
  ASSUME NEW l \in Seq(Level), NEW side, NEW q \in Int, Walk(l, side, q).err = "none"
  PROVE  LET c == FoldLeft(TakeLevel, Begun(q), l)
             r == Walk(l, side, q)
         IN /\ q \in Nat \ {0} /\ l # <<>> /\ SortedBestFirst(side, l)
            /\ c \in Walks(q) /\ Walked(l, q, Len(l), TotalDepth(l), c)
            /\ c.err = "none" /\ c.left = 0
            /\ r.filled = q /\ r.notional = c.notional /\ r.fills = c.fills
            /\ \E i \in 1..Len(c.fills) : r.avg <= c.fills[i].price
  <1> DEFINE c == FoldLeft(TakeLevel, Begun(q), l)
             r == Walk(l, side, q)
  <1>1. q \in Nat \ {0} /\ l # <<>> /\ SortedBestFirst(side, l)
    BY DEF Walk, Refused
  <1>2. c \in Walks(q) /\ Walked(l, q, Len(l), TotalDepth(l), c)
    BY <1>1, WholeWalk
  <1>3. /\ r.err = IF c.err = "overflow" THEN "overflow" ELSE IF c.left > 0 THEN "depth" ELSE "none"
        /\ c.err = "none" =>
             /\ r.filled = q - c.left /\ r.notional = c.notional /\ r.fills = c.fills
             /\ \E i \in 1..Len(c.fills) : r.avg <= c.fills[i].price
    BY <1>1, WalkAnswers
  <1> HIDE DEF c, r
  <1>4. c.err \in {"none", "overflow"} /\ c.left \in 0..q
    BY <1>2 DEF Walks
  <1>5. r.err = "none"
    BY DEF r
  <1>6. c.err = "none" /\ c.left = 0
    BY <1>1, <1>3, <1>4, <1>5
  <1>7. r.filled = q
    BY <1>1, <1>3, <1>6
  <1> QED
    BY <1>1, <1>2, <1>3, <1>6, <1>7 DEF c, r

\* The best execution: a walk that is not refused takes its size level by level from the
\* touch, no other way to take that size from the ladder is cheaper (for a sale, dearer),
\* its notional is short of what it took by less than one a level, and its average is no
\* worse than some level it took, for every ladder, side and size
\* (execcost/ladder.go:162-222).
LEMMA WalkTakesTheBest ==
  ASSUME NEW l \in Seq(Level), NEW side, NEW q \in Int
  PROVE  BestExecution(l, side, q)
  <1> DEFINE c == FoldLeft(TakeLevel, Begun(q), l)
             r == Walk(l, side, q)
  <1> SUFFICES ASSUME r.err = "none"
               PROVE  /\ r.filled = q /\ TotalDepth(r.fills) = q
                      /\ \A i \in 1..Len(r.fills) :
                            /\ r.fills[i] = [l[i] EXCEPT !.qty = r.fills[i].qty]
                            /\ r.fills[i].qty <= l[i].qty
                      /\ \A a \in Allocations(l, q) :
                            IF side = "ask" THEN Worth(r.fills) <= Worth(a)
                                            ELSE Worth(r.fills) >= Worth(a)
                      /\ r.notional * Scale <= Worth(r.fills)
                      /\ Worth(r.fills) < (r.notional + Len(r.fills)) * Scale
                      /\ \E i \in 1..Len(r.fills) : r.avg <= r.fills[i].price
    BY DEF BestExecution
  <1>1. /\ q \in Nat \ {0} /\ l # <<>> /\ SortedBestFirst(side, l)
        /\ c \in Walks(q) /\ Walked(l, q, Len(l), TotalDepth(l), c)
        /\ c.err = "none" /\ c.left = 0
        /\ r.filled = q /\ r.notional = c.notional /\ r.fills = c.fills
        /\ \E i \in 1..Len(c.fills) : r.avg <= c.fills[i].price
    BY WalkInFull
  <1>2. ASSUME NEW a \in Allocations(l, q)
        PROVE  NoBetter(side, Worth(a), Worth(c.fills)) /\ Worth(a) \in Nat
    <2> DEFINE largest == Max({0} \cup {l[i].qty : i \in 1..Len(l)})
    <2>1. PICK f \in [1..Len(l) -> 0..largest] :
             /\ \A i \in 1..Len(l) : f[i] <= l[i].qty
             /\ TotalDepth(Taking(l, f)) = q
             /\ a = Taking(l, f)
      BY <1>2 DEF Allocations
    <2>2. f \in [1..Len(l) -> Nat]
      <3> HIDE DEF largest
      <3>1. 0..largest \subseteq Nat
        OBVIOUS
      <3> QED
        BY <2>1, <3>1
    <2> HIDE DEF largest
    <2>3. c = FoldLeft(TakeLevel, Begun(q), l)
      OBVIOUS
    <2> HIDE DEF c, r
    <2>4. NoBetter(side, Worth(Taking(l, f)), Worth(c.fills))
      BY <1>1, <2>1, <2>2, <2>3, NoneBetter
    <2>5. Worth(Taking(l, f)) \in Nat
      BY <2>2, TakingWorth
    <2> QED
      BY <2>1, <2>4, <2>5
  <1> HIDE DEF c, r
  <1>3. WalkedSizes(l, q, Len(l), TotalDepth(l), c) /\ WalkedWorth(c)
    BY <1>1 DEF Walked
  <1>4. c.fills \in Seq(Level) /\ c.notional \in Nat
    BY <1>1, ScaleAssumption DEF Walks
  <1> DEFINE s == c.fills
             w == Worth(s)
             n == Len(s)
  <1>5. TotalDepth(s) = q
    BY <1>1, <1>3 DEF WalkedSizes
  <1>6. n \in Nat \ {0}
    <2>1. s # <<>>
      BY <1>1, <1>5, SumsEmpty
    <2> QED
      BY <1>4, <2>1
  <1>6a. w \in Nat
    <2>1. s \in Seq(Taken)
      BY <1>4, LevelIsTaken
    <2> QED
      BY <2>1, SumsNat
  <1>7. \A i \in 1..n : s[i] = [l[i] EXCEPT !.qty = s[i].qty] /\ s[i].qty <= l[i].qty
    BY <1>3 DEF WalkedSizes, IsFillOf
  <1>8. \A a \in Allocations(l, q) :
           IF side = "ask" THEN w <= Worth(a) ELSE w >= Worth(a)
    <2> SUFFICES ASSUME NEW a \in Allocations(l, q)
                 PROVE  IF side = "ask" THEN w <= Worth(a) ELSE w >= Worth(a)
      OBVIOUS
    <2>1. NoBetter(side, Worth(a), w)
      BY <1>2
    <2>2. w \in Int /\ Worth(a) \in Int
      <3>1. w \in Nat
        BY <1>6a
      <3>2. Worth(a) \in Nat
        BY <1>2
      <3> QED
        BY <3>1, <3>2
    <2> HIDE DEF w
    <2> QED
      BY <2>1, <2>2 DEF NoBetter
  <1>9. c.notional * Scale <= w /\ w < (c.notional + n) * Scale
    <2>1. c.notional * Scale <= w /\ w + n <= (c.notional + n) * Scale
      BY <1>3 DEF WalkedWorth
    <2> DEFINE y == (c.notional + n) * Scale
    <2>2. y \in Nat /\ w \in Nat
      <3>1. y \in Nat
        BY <1>4, <1>6, ScaleAssumption
      <3> QED
        BY <1>6a, <3>1
    <2> HIDE DEF y, w, n
    <2>3. w + n <= y /\ n \in Nat \ {0}
      BY <1>6, <2>1 DEF y
    <2>4. w < y
      BY <2>2, <2>3
    <2> QED
      BY <2>1, <2>4 DEF y
  <1> QED
    BY <1>1, <1>5, <1>7, <1>8, <1>9

-----------------------------------------------------------------------------
(* A size worked in two slices.                                            *)

\* A walk that failed has failed for good.
LEMMA NeverFailed ==
  ASSUME NEW l \in Seq(Level), NEW q \in Nat, NEW c, Levels!IsRun(c, Walks(q), Begun(q), l),
         c[Len(l)].err = "none"
  PROVE  \A k \in 0..Len(l) : c[k].err = "none"
  <1> DEFINE n == Len(l)
             T == {j \in Nat : j <= n => c[n - j].err = "none"}
  <1>1. /\ c \in [0..n -> Walks(q)] /\ n \in Nat
        /\ \A i \in 1..n : c[i] = TakeLevel(c[i - 1], l[i])
    BY DEF Levels!IsRun
  <1>2. 0 \in T
    BY <1>1
  <1>3. ASSUME NEW j \in Nat, j \in T
        PROVE  j + 1 \in T
    <2> SUFFICES ASSUME j + 1 <= n
                 PROVE  c[n - (j + 1)].err = "none"
      OBVIOUS
    <2> DEFINE i == n - j
    <2>1. i \in 1..n /\ i - 1 = n - (j + 1) /\ i - 1 \in 0..n
      BY <1>1
    <2>2. c[i].err = "none"
      BY <1>1, <1>3
    <2> HIDE DEF i
    <2>3. c[i] = TakeLevel(c[i - 1], l[i]) /\ c[i - 1] \in Walks(q) /\ l[i] \in Level
      BY <1>1, <2>1, SMTT(30)
    <2>4. c[i - 1].err = "none"
      BY <2>2, <2>3, LevelAdds
    <2> QED
      BY <2>1, <2>4
  <1>4. Nat \subseteq T
    <2> HIDE DEF T
    <2> QED
      BY <1>2, <1>3, Sizes!NaturalInduction
  <1> SUFFICES ASSUME NEW k \in 0..n
               PROVE  c[k].err = "none"
    OBVIOUS
  <1>5. n - k \in Nat /\ n - k <= n /\ n - (n - k) = k
    BY <1>1
  <1>6. n - k \in T
    <2> HIDE DEF T
    <2> QED
      BY <1>4, <1>5
  <1> QED
    BY <1>5, <1>6

\* Of two walks over the same levels the one for less is no further from its end, and
\* not over its amount.
Within(x, y) ==
  y.err = "none" => x.err = "none" /\ x.left <= y.left /\ x.notional <= y.notional

\* So it is after one level more.
LEMMA WithinStep ==
  ASSUME NEW n \in Nat, NEW q \in Nat, NEW x \in Walks(n), NEW y \in Walks(q), NEW lv \in Level,
         Within(x, y)
  PROVE  Within(TakeLevel(x, lv), TakeLevel(y, lv))
  <1> DEFINE p == lv.price
             z == lv.qty
             tx == Take(x.left, lv)
             ty == Take(y.left, lv)
             rx == Rounded(p, tx)
             ry == Rounded(p, ty)
             bx == TakeLevel(x, lv)
             by == TakeLevel(y, lv)
  <1> SUFFICES ASSUME by.err = "none"
               PROVE  bx.err = "none" /\ bx.left <= by.left /\ bx.notional <= by.notional
    BY DEF Within
  <1>1. /\ x.left \in Nat /\ y.left \in Nat /\ x.notional \in Nat /\ y.notional \in Nat
        /\ MaxInt64 \in Nat
    BY ScaleAssumption DEF Walks
  <1>2. p \in Nat /\ z \in Nat
    BY LevelParts
  <1>3. /\ tx \in 0..x.left /\ rx \in Nat
        /\ bx.err = "none" <=> x.err = "none" /\ x.notional + rx <= MaxInt64
        /\ bx.err = "none" => bx.left = x.left - tx /\ bx.notional = x.notional + rx
    BY LevelAdds
  <1>4. /\ ty \in 0..y.left /\ ry \in Nat
        /\ by.err = "none" <=> y.err = "none" /\ y.notional + ry <= MaxInt64
        /\ by.err = "none" => by.left = y.left - ty /\ by.notional = y.notional + ry
    BY LevelAdds
  <1>5. x.err = "none" /\ x.left <= y.left /\ x.notional <= y.notional
    BY <1>4 DEF Within
  <1>6. tx <= ty /\ x.left - tx <= y.left - ty
    BY <1>1, <1>2, <1>5 DEF Take
  <1> HIDE DEF tx, ty, bx, by, p, z
  <1>7. rx <= ry
    <2>1. tx \in Nat /\ ty - tx \in Nat /\ tx + (ty - tx) = ty
      BY <1>1, <1>3, <1>4, <1>6
    <2>2. /\ Rounded(p, tx) + Rounded(p, ty - tx) <= Rounded(p, tx + (ty - tx))
          /\ Rounded(p, ty - tx) \in Nat
      BY <1>2, <2>1, RoundedParts, RoundedDown
    <2>3. Rounded(p, tx) + Rounded(p, ty - tx) <= Rounded(p, ty)
      BY <2>1, <2>2
    <2> QED
      BY <1>3, <1>4, <2>2, <2>3
  <1> HIDE DEF rx, ry
  <1> QED
    BY <1>1, <1>3, <1>4, <1>5, <1>6, <1>7

\* A walk for less of what a walk could fill is filled too.
LEMMA SmallerWalk ==
  ASSUME NEW l \in Seq(Level), NEW q \in Nat, NEW n \in 0..q,
         NEW x, Levels!IsRun(x, Walks(n), Begun(n), l),
         NEW y, Levels!IsRun(y, Walks(q), Begun(q), l),
         y[Len(l)].err = "none"
  PROVE  \A k \in 0..Len(l) :
            /\ y[k].err = "none" /\ x[k].err = "none"
            /\ x[k].left <= y[k].left /\ x[k].notional <= y[k].notional
  <1> DEFINE N == Len(l)
             T == {k \in Nat : k <= N => Within(x[k], y[k])}
  <1>1. /\ x \in [0..N -> Walks(n)] /\ x[0] = Begun(n)
        /\ y \in [0..N -> Walks(q)] /\ y[0] = Begun(q)
        /\ \A i \in 1..N : x[i] = TakeLevel(x[i - 1], l[i]) /\ y[i] = TakeLevel(y[i - 1], l[i])
        /\ N \in Nat /\ n \in Nat
    BY DEF Levels!IsRun
  <1>2. 0 \in T
    BY <1>1 DEF Within, Begun
  <1>3. ASSUME NEW k \in Nat, k \in T
        PROVE  k + 1 \in T
    <2> SUFFICES ASSUME k + 1 <= N
                 PROVE  Within(x[k + 1], y[k + 1])
      OBVIOUS
    <2>1. k \in 0..N /\ k + 1 \in 1..N /\ (k + 1) - 1 = k /\ Within(x[k], y[k])
      BY <1>1, <1>3
    <2>2. x[k] \in Walks(n) /\ y[k] \in Walks(q) /\ l[k + 1] \in Level
      BY <1>1, <2>1
    <2>3. Within(TakeLevel(x[k], l[k + 1]), TakeLevel(y[k], l[k + 1]))
      BY <1>1, <2>1, <2>2, WithinStep
    <2> QED
      BY <1>1, <2>1, <2>3
  <1>4. Nat \subseteq T
    <2> HIDE DEF T
    <2> QED
      BY <1>2, <1>3, Sizes!NaturalInduction
  <1> SUFFICES ASSUME NEW k \in 0..N
               PROVE  /\ y[k].err = "none" /\ x[k].err = "none"
                      /\ x[k].left <= y[k].left /\ x[k].notional <= y[k].notional
    OBVIOUS
  <1>5. y[k].err = "none"
    BY NeverFailed
  <1>6. Within(x[k], y[k])
    <2>1. k \in Nat /\ k <= N
      BY <1>1
    <2>2. k \in T
      <3> HIDE DEF T
      <3> QED
        BY <1>4, <2>1
    <2> QED
      BY <2>1, <2>2
  <1> QED
    BY <1>5, <1>6 DEF Within

\* What fills took of the i-th level.
TookOf(fills, i) == IF i \in DOMAIN fills THEN fills[i].qty ELSE 0

\* The fills of a walk after k levels, of which it took t.
FillsAre(c, k, t) ==
  /\ Len(c.fills) <= k
  /\ c.left > 0 => Len(c.fills) = k
  /\ \A i \in 1..k : TookOf(c.fills, i) = t[i]

\* A level more is a fill more, or none.
LEMMA FillsStep ==
  ASSUME NEW n \in Nat, NEW c \in Walks(n), NEW lv \in Level, NEW k \in Nat, NEW t,
         c.err = "none", TakeLevel(c, lv).err = "none",
         FillsAre(c, k, t), t[k + 1] = Take(c.left, lv)
  PROVE  FillsAre(TakeLevel(c, lv), k + 1, t)
  <1> DEFINE b == TakeLevel(c, lv)
             take == Take(c.left, lv)
             fl == [venue |-> lv.venue, price |-> lv.price, qty |-> take]
             s == c.fills
             j == Len(s)
  <1>1. /\ c.left \in Nat /\ s \in Seq(Level) /\ j \in Nat /\ lv.qty \in Nat \ {0}
        /\ DOMAIN s = 1..j /\ c.notional \in Nat
    BY ScaleAssumption DEF Walks, Level
  <1>2. CASE c.left = 0
    <2>1. b = c /\ take = 0
      BY <1>1, <1>2 DEF TakeLevel, Take
    <2>2. j <= k /\ (\A i \in 1..k : TookOf(s, i) = t[i])
      BY DEF FillsAre
    <2> HIDE DEF b, take
    <2>3. t[k + 1] = 0
      BY <2>1 DEF take
    <2>4. TookOf(s, k + 1) = 0
      <3>1. k + 1 \notin DOMAIN s
        BY <1>1, <2>2
      <3> QED
        BY <3>1 DEF TookOf
    <2>5. \A i \in 1..(k + 1) : TookOf(s, i) = t[i]
      <3> SUFFICES ASSUME NEW i \in 1..(k + 1)
                   PROVE  TookOf(s, i) = t[i]
        OBVIOUS
      <3>1. i \in 1..k \/ i = k + 1
        OBVIOUS
      <3> QED
        BY <2>2, <2>3, <2>4, <3>1
    <2> QED
      BY <1>1, <1>2, <2>1, <2>2, <2>5 DEF FillsAre, b
  <1>3. CASE c.left > 0
    <2>1. /\ take \in 1..c.left
          /\ b = IF c.notional + Rounded(lv.price, take) > MaxInt64
                 THEN [c EXCEPT !.err = "overflow"]
                 ELSE [err |-> "none", left |-> c.left - take,
                       notional |-> c.notional + Rounded(lv.price, take),
                       fills |-> Append(s, fl)]
      BY <1>3, OneLevel
    <2>2. [c EXCEPT !.err = "overflow"].err = "overflow"
      BY DEF Walks
    <2>3. b.err = "none"
      OBVIOUS
    <2> HIDE DEF b
    <2>4. b.fills = Append(s, fl)
      BY <2>1, <2>2, <2>3
    <2>5. j = k /\ (\A i \in 1..k : TookOf(s, i) = t[i])
      BY <1>3 DEF FillsAre
    <2> DEFINE u == Append(s, fl)
    <2>6. /\ Len(u) = k + 1 /\ DOMAIN u = 1..(k + 1) /\ u[k + 1] = fl
          /\ \A i \in 1..k : u[i] = s[i]
      <3> HIDE DEF fl
      <3> QED
        BY <1>1, <2>5
    <2>7. fl.qty = t[k + 1]
      OBVIOUS
    <2> HIDE DEF u, fl
    <2>8. \A i \in 1..(k + 1) : TookOf(u, i) = t[i]
      <3> SUFFICES ASSUME NEW i \in 1..(k + 1)
                   PROVE  TookOf(u, i) = t[i]
        OBVIOUS
      <3>1. i \in 1..k \/ i = k + 1
        OBVIOUS
      <3>2. CASE i \in 1..k
        <4>1. u[i] = s[i] /\ i \in DOMAIN s /\ i \in DOMAIN u
          BY <1>1, <2>5, <2>6, <3>2
        <4> QED
          BY <2>5, <3>2, <4>1 DEF TookOf
      <3>3. CASE i = k + 1
        BY <2>6, <2>7, <3>3 DEF TookOf
      <3> QED
        BY <3>1, <3>2, <3>3
    <2>9. b.fills = u
      BY <2>4 DEF u
    <2> QED
      BY <2>6, <2>8, <2>9 DEF FillsAre, b
  <1> QED
    BY <1>1, <1>2, <1>3

\* The fills of a walk that was never refused are what it took, level by level.
LEMMA FillsOfWalk ==
  ASSUME NEW l \in Seq(Level), NEW n \in Nat, NEW x, Levels!IsRun(x, Walks(n), Begun(n), l),
         \A k \in 0..Len(l) : x[k].err = "none"
  PROVE  \A i \in 1..Len(l) : TookOf(x[Len(l)].fills, i) = Take(x[i - 1].left, l[i])
  <1> DEFINE N == Len(l)
             t == [i \in 1..N |-> Take(x[i - 1].left, l[i])]
             T == {k \in Nat : k <= N => FillsAre(x[k], k, t)}
  <1>1. /\ x \in [0..N -> Walks(n)] /\ x[0] = Begun(n) /\ N \in Nat
        /\ \A i \in 1..N : x[i] = TakeLevel(x[i - 1], l[i])
    BY DEF Levels!IsRun
  <1>2. 0 \in T
    <2>1. x[0].fills = <<>>
      BY <1>1 DEF Begun
    <2> QED
      BY <2>1 DEF FillsAre
  <1>3. ASSUME NEW k \in Nat, k \in T
        PROVE  k + 1 \in T
    <2> SUFFICES ASSUME k + 1 <= N
                 PROVE  FillsAre(x[k + 1], k + 1, t)
      OBVIOUS
    <2>1. k \in 0..N /\ k + 1 \in 0..N /\ k + 1 \in 1..N /\ (k + 1) - 1 = k /\ FillsAre(x[k], k, t)
      BY <1>1, <1>3
    <2>2. /\ x[k] \in Walks(n) /\ l[k + 1] \in Level /\ x[k].err = "none"
          /\ x[k + 1] = TakeLevel(x[k], l[k + 1]) /\ x[k + 1].err = "none"
          /\ t[k + 1] = Take(x[k].left, l[k + 1])
      <3>1. t[k + 1] = Take(x[k].left, l[k + 1])
        BY <2>1
      <3> HIDE DEF t
      <3>2. x[k] \in Walks(n) /\ l[k + 1] \in Level
        BY <1>1, <2>1
      <3>3. x[k].err = "none" /\ x[k + 1].err = "none"
        BY <2>1
      <3>4. x[k + 1] = TakeLevel(x[k], l[k + 1])
        BY <1>1, <2>1
      <3> QED
        BY <3>1, <3>2, <3>3, <3>4
    <2> HIDE DEF t
    <2>3. FillsAre(TakeLevel(x[k], l[k + 1]), k + 1, t)
      BY <2>1, <2>2, FillsStep
    <2> QED
      BY <2>2, <2>3
  <1>4. N \in T
    <2> HIDE DEF T
    <2> QED
      BY <1>1, <1>2, <1>3, Sizes!NaturalInduction
  <1> QED
    BY <1>1, <1>4 DEF FillsAre

\* Where a walk x for n, one y for n + m and one w for m behind x's fills stand to
\* each other: until the first is filled they are one; then the other two go together,
\* and the rounding of the level they share has cost them at most one.
Shared(x, y, w, m) ==
  /\ w.err = "none"
  /\ y.left = x.left + w.left
  /\ x.left > 0 => w = Begun(m)
  /\ x.notional + w.notional <= y.notional
  /\ y.notional <= x.notional + w.notional + (IF x.left > 0 THEN 0 ELSE 1)

\* What two takes of a level make of its amount.
LEMMA RoundedSplit ==
  ASSUME NEW p \in Nat, NEW tx \in Nat, NEW tw \in Nat
  PROVE  /\ Rounded(p, tx) + Rounded(p, tw) <= Rounded(p, tx + tw)
         /\ Rounded(p, tx + tw) <= Rounded(p, tx) + Rounded(p, tw)
                                   + (IF tx = 0 \/ tw = 0 THEN 0 ELSE 1)
  <1>1. /\ Rounded(p, tx) + Rounded(p, tw) <= Rounded(p, tx + tw)
        /\ Rounded(p, tx + tw) <= Rounded(p, tx) + Rounded(p, tw) + 1
        /\ Rounded(p, tx) \in Nat /\ Rounded(p, tw) \in Nat
    BY RoundedParts, RoundedDown
  <1>2. Rounded(p, 0) = 0
    <2>1. p * 0 = 0 /\ 0 \div Scale = 0
      BY ScaleAssumption
    <2> QED
      BY <2>1 DEF Rounded
  <1>3. CASE tx = 0
    <2>1. tx + tw = tw
      BY <1>3
    <2> QED
      BY <1>1, <1>2, <1>3, <2>1
  <1>4. CASE tw = 0
    <2>1. tx + tw = tx
      BY <1>4
    <2> QED
      BY <1>1, <1>2, <1>4, <2>1
  <1> QED
    BY <1>1, <1>3, <1>4

\* The three walks a level further; what x leaves of the level is what w meets.
LEMMA SharedStep ==
  ASSUME NEW n \in Nat, NEW m \in Nat, NEW x \in Walks(n), NEW y \in Walks(n + m),
         NEW w \in Walks(m), NEW lv \in Level,
         x.err = "none", TakeLevel(x, lv).err = "none", TakeLevel(y, lv).err = "none",
         Shared(x, y, w, m),
         NEW rest, rest = [lv EXCEPT !.qty = lv.qty - Take(x.left, lv)],
         NEW v, v = IF rest.qty > 0 THEN TakeLevel(w, rest) ELSE w
  PROVE  v \in Walks(m) /\ Shared(TakeLevel(x, lv), TakeLevel(y, lv), v, m)
  <1> DEFINE p == lv.price
             z == lv.qty
             X == x.left
             W == w.left
             tx == Take(x.left, lv)
             ty == Take(y.left, lv)
             tw == IF z - tx > 0 THEN (IF z - tx <= W THEN z - tx ELSE W) ELSE 0
             rx == Rounded(p, tx)
             ry == Rounded(p, ty)
             rw == Rounded(p, tw)
             bx == TakeLevel(x, lv)
             by == TakeLevel(y, lv)
  <1>1. /\ X \in Nat /\ W \in Nat /\ y.left \in Nat /\ MaxInt64 \in Nat
        /\ x.notional \in Nat /\ y.notional \in Nat /\ w.notional \in Nat
    BY ScaleAssumption DEF Walks
  <1>2. /\ p \in Nat /\ z \in Nat \ {0} /\ z <= MaxInt64
        /\ lv.venue \in {Coinbase, Kraken} /\ p \in 1..MaxInt64
        /\ lv = [venue |-> lv.venue, price |-> p, qty |-> z]
    BY LevelParts
  <1>3. /\ w.err = "none" /\ y.left = X + W /\ (X > 0 => w = Begun(m))
        /\ x.notional + w.notional <= y.notional
        /\ y.notional <= x.notional + w.notional + (IF X > 0 THEN 0 ELSE 1)
    BY DEF Shared
  <1>4. rest = [venue |-> lv.venue, price |-> p, qty |-> z - tx]
    BY <1>2
  <1>5. bx.left = X - tx /\ bx.notional = x.notional + rx /\ rx \in Nat
    BY LevelAdds
  <1>6. /\ by.left = y.left - ty /\ by.notional = y.notional + ry /\ ry \in Nat
        /\ y.notional + ry <= MaxInt64
    <2>1. n + m \in Nat
      OBVIOUS
    <2> QED
      BY <2>1, LevelAdds
  <1>7. tx = (IF z <= X THEN z ELSE X) /\ ty = (IF z <= X + W THEN z ELSE X + W)
    BY <1>3 DEF Take
  <1> HIDE DEF tx, ty
  <1>8. tw = (IF z - tx > 0 THEN (IF z - tx <= W THEN z - tx ELSE W) ELSE 0)
    OBVIOUS
  <1> HIDE DEF tw, bx, by
  <1>9. /\ tx \in Nat /\ tw \in Nat /\ ty = tx + tw
        /\ (X + W) - ty = (X - tx) + (W - tw)
        /\ (X - tx > 0 => z - tx = 0 /\ tw = 0 /\ X > 0) /\ (X = 0 => tx = 0)
        /\ rx + rw <= ry
        /\ ry <= rx + rw + (IF tx = 0 \/ tw = 0 THEN 0 ELSE 1)
    <2> HIDE DEF X, W, p, z
    <2>1. /\ tx \in Nat /\ tw \in Nat /\ ty = tx + tw
          /\ (X + W) - ty = (X - tx) + (W - tw)
          /\ (X - tx > 0 => z - tx = 0 /\ tw = 0 /\ X > 0) /\ (X = 0 => tx = 0)
      BY <1>1, <1>2, <1>7, <1>8
    <2>2. /\ Rounded(p, tx) + Rounded(p, tw) <= Rounded(p, tx + tw)
          /\ Rounded(p, tx + tw) <= Rounded(p, tx) + Rounded(p, tw)
                                    + (IF tx = 0 \/ tw = 0 THEN 0 ELSE 1)
      BY <1>2, <2>1, RoundedSplit
    <2> QED
      BY <2>1, <2>2
  <1>10. rw \in Nat
    BY <1>2, <1>9, RoundedDown
  <1> HIDE DEF rx, ry, rw
  <1>11. w.notional + rw <= MaxInt64
    BY <1>1, <1>3, <1>5, <1>6, <1>9, <1>10
  <1>12. /\ v \in Walks(m) /\ v.err = "none" /\ v.left = W - tw /\ v.notional = w.notional + rw
         /\ (z - tx = 0 => v = w)
    <2>1. CASE z - tx > 0
      <3>1. rest.qty = z - tx /\ rest.price = p /\ rest \in Level
        <4>1. rest.qty = z - tx /\ rest.price = p /\ rest.venue = lv.venue
          BY <1>4
        <4>2. z - tx \in 1..MaxInt64
          BY <1>1, <1>2, <1>9, <2>1
        <4> HIDE DEF p, z
        <4>3. rest \in Level
          BY <1>2, <1>4, <4>2 DEF Level
        <4> QED
          BY <4>1, <4>3
      <3>2. v = TakeLevel(w, rest)
        BY <2>1, <3>1
      <3>3. Take(w.left, rest) = tw
        BY <2>1, <3>1 DEF Take, tw
      <3>4. /\ v.err = "none" <=> w.err = "none" /\ w.notional + Rounded(p, tw) <= MaxInt64
            /\ v.err = "none" => v.left = W - tw /\ v.notional = w.notional + Rounded(p, tw)
            /\ v \in Walks(m)
        <4>1. /\ TakeLevel(w, rest).err = "none" <=> w.err = "none"
                    /\ w.notional + Rounded(rest.price, Take(w.left, rest)) <= MaxInt64
              /\ TakeLevel(w, rest).err = "none" =>
                    /\ TakeLevel(w, rest).left = w.left - Take(w.left, rest)
                    /\ TakeLevel(w, rest).notional
                          = w.notional + Rounded(rest.price, Take(w.left, rest))
              /\ TakeLevel(w, rest) \in Walks(m)
          <5> HIDE DEF p, z
          <5> QED
            BY <3>1, LevelAdds, OneLevelType
        <4> HIDE DEF p, z
        <4> QED
          BY <3>1, <3>2, <3>3, <4>1
      <3> QED
        BY <1>3, <1>11, <2>1, <3>4 DEF rw
    <2>2. CASE ~(z - tx > 0)
      <3>1. v = w /\ tw = 0
        <4>1. rest.qty = z - tx
          BY <1>4
        <4> QED
          BY <2>2, <4>1 DEF tw
      <3>2. rw = 0
        <4>1. p * 0 = 0 /\ 0 \div Scale = 0
          BY <1>2, ScaleAssumption
        <4> QED
          BY <3>1, <4>1 DEF rw, Rounded
      <3> QED
        BY <1>1, <1>3, <3>1, <3>2
    <2> QED
      BY <2>1, <2>2
  <1>13. /\ by.left = bx.left + v.left
         /\ (bx.left > 0 => v = Begun(m))
         /\ bx.notional + v.notional <= by.notional
         /\ by.notional <= bx.notional + v.notional + (IF bx.left > 0 THEN 0 ELSE 1)
    <2>1. by.left = bx.left + v.left
      BY <1>3, <1>5, <1>6, <1>9, <1>12
    <2>2. bx.left > 0 => v = Begun(m)
      BY <1>3, <1>5, <1>9, <1>12
    <2>3. bx.notional + v.notional <= by.notional
      BY <1>1, <1>3, <1>5, <1>6, <1>9, <1>10, <1>12
    <2>4. by.notional <= bx.notional + v.notional + (IF bx.left > 0 THEN 0 ELSE 1)
      <3> DEFINE nx == x.notional
                 ny == y.notional
                 nw == w.notional
                 e == IF X > 0 THEN 0 ELSE 1
                 g == IF tx = 0 \/ tw = 0 THEN 0 ELSE 1
      <3>1. /\ nx \in Nat /\ ny \in Nat /\ nw \in Nat /\ rx \in Nat /\ ry \in Nat /\ rw \in Nat
            /\ e \in {0, 1} /\ g \in {0, 1}
            /\ ny <= nx + nw + e /\ ry <= rx + rw + g
        BY <1>1, <1>3, <1>5, <1>6, <1>9, <1>10
      <3>2. e + g <= (IF X - tx > 0 THEN 0 ELSE 1)
        BY <1>1, <1>9
      <3> HIDE DEF nx, ny, nw, e, g
      <3>3. ny + ry <= (nx + rx) + (nw + rw) + (e + g)
        BY <3>1
      <3>4. e + g \in Nat
        BY <3>1
      <3>5. ny + ry <= (nx + rx) + (nw + rw) + (IF X - tx > 0 THEN 0 ELSE 1)
        <4> DEFINE i == IF X - tx > 0 THEN 0 ELSE 1
        <4>1. e + g <= i /\ i \in {0, 1}
          BY <3>2
        <4> HIDE DEF i
        <4>2. ny + ry <= (nx + rx) + (nw + rw) + i
          BY <3>1, <3>3, <3>4, <4>1
        <4> QED
          BY <4>2 DEF i
      <3> QED
        BY <1>5, <1>6, <1>12, <3>5 DEF nx, ny, nw
    <2> QED
      BY <2>1, <2>2, <2>3, <2>4
  <1> QED
    BY <1>12, <1>13 DEF Shared, bx, by

\* A walk of a level more is a level more of the walk.
LEMMA WalkAppend ==
  ASSUME NEW r \in Seq(Level), NEW lv \in Level, NEW q \in Nat
  PROVE  /\ FoldLeft(TakeLevel, Begun(q), r) \in Walks(q)
         /\ FoldLeft(TakeLevel, Begun(q), Append(r, lv))
               = TakeLevel(FoldLeft(TakeLevel, Begun(q), r), lv)
         /\ FoldLeft(TakeLevel, Begun(q), <<>>) = Begun(q)
  <1> DEFINE V == Walks(q)
             b == Begun(q)
  <1>1. b \in V
    BY ScaleAssumption DEF Begun, Walks
  <1>2. \A c \in V, t \in Level : TakeLevel(c, t) \in V
    BY OneLevelType
  <1> HIDE DEF V, b
  <1>3. Levels!Fold(b, r) \in V
    BY <1>1, <1>2, Levels!FoldType
  <1>4. Levels!Fold(b, Append(r, lv)) = TakeLevel(Levels!Fold(b, r), lv)
    BY <1>1, <1>2, Levels!FoldAppend
  <1>5. Levels!Fold(b, <<>>) = b
    BY Levels!FoldEmpty
  <1> QED
    BY <1>3, <1>4, <1>5, FoldsAreFolds DEF V, b

\* A ladder in order whose last level is no better than p.
OrderedTo(side, r, p) ==
  /\ SortedBestFirst(side, r)
  /\ r # <<>> => ~better(side, p, r[Len(r)].price)

\* A level no better than the last keeps a ladder in order.
LEMMA OrderStep ==
  ASSUME NEW side, NEW r \in Seq(Level), NEW lv \in Level, NEW p,
         r # <<>> => p \in Nat /\ ~better(side, lv.price, p) /\ OrderedTo(side, r, p)
  PROVE  /\ OrderedTo(side, Append(r, lv), lv.price)
         /\ r # <<>> => OrderedTo(side, r, lv.price)
  <1> DEFINE u == Append(r, lv)
             j == Len(r)
  <1>1. /\ j \in Nat /\ Len(u) = j + 1 /\ u[j + 1] = lv /\ \A i \in 1..j : u[i] = r[i]
    OBVIOUS
  <1>2. \A i \in 1..j : r[i].price \in Nat
    <2> SUFFICES ASSUME NEW i \in 1..j
                 PROVE  r[i].price \in Nat
      OBVIOUS
    <2>1. r[i] \in Level
      OBVIOUS
    <2> QED
      BY <2>1, LevelParts
  <1>3. lv.price \in Nat
    BY LevelParts
  <1> HIDE DEF u
  <1>4. CASE r = <<>>
    <2>1. j = 0
      BY <1>4
    <2>2. ~better(side, lv.price, lv.price)
      BY <1>3 DEF better
    <2> QED
      BY <1>1, <1>4, <2>1, <2>2 DEF OrderedTo, SortedBestFirst, u
  <1>5. CASE r # <<>>
    <2>1. j \in Nat \ {0} /\ j \in 1..j
      BY <1>1, <1>5
    <2>2. ~better(side, lv.price, r[j].price)
      <3>1. p \in Nat /\ r[j].price \in Nat /\ ~better(side, p, r[j].price)
            /\ ~better(side, lv.price, p)
        BY <1>2, <1>5, <2>1 DEF OrderedTo
      <3> QED
        BY <1>3, <3>1 DEF better
    <2>3. \A i \in 2..j : ~better(side, r[i].price, r[i - 1].price)
      BY <1>5 DEF OrderedTo, SortedBestFirst
    <2>4. \A i \in 2..(j + 1) : ~better(side, u[i].price, u[i - 1].price)
      <3> SUFFICES ASSUME NEW i \in 2..(j + 1)
                   PROVE  ~better(side, u[i].price, u[i - 1].price)
        OBVIOUS
      <3>1. CASE i = j + 1
        <4>1. u[i] = lv /\ i - 1 = j /\ u[j] = r[j]
          BY <1>1, <2>1, <3>1
        <4> QED
          BY <2>2, <4>1
      <3>2. CASE i # j + 1
        <4>1. i \in 2..j /\ i \in 1..j /\ i - 1 \in 1..j
          BY <2>1, <3>2
        <4>2. u[i] = r[i] /\ u[i - 1] = r[i - 1]
          BY <1>1, <4>1
        <4> QED
          BY <2>3, <4>1, <4>2
      <3> QED
        BY <3>1, <3>2
    <2>5. ~better(side, lv.price, lv.price)
      BY <1>3 DEF better
    <2>6. OrderedTo(side, u, lv.price)
      BY <1>1, <2>4, <2>5 DEF OrderedTo, SortedBestFirst
    <2>7. OrderedTo(side, r, lv.price)
      BY <2>2, <2>3 DEF OrderedTo, SortedBestFirst
    <2> QED
      BY <2>6, <2>7 DEF u
  <1> QED
    BY <1>4, <1>5

\* What is left of a level.
Remains == [venue : {Coinbase, Kraken}, price : 1..MaxInt64, qty : 0..MaxInt64]

\* How the three walks stand after k levels, of which r is left.
RestHolds(side, l, k, r, x, y, m) ==
  /\ r # <<>> => k # 0 /\ OrderedTo(side, r, l[k].price)
  /\ Shared(x, y, FoldLeft(TakeLevel, Begun(m), r), m)

\* They stand so after a level more.
LEMMA RestStep ==
  ASSUME NEW side, NEW l \in Seq(Level), SortedBestFirst(side, l),
         NEW k \in Nat, k + 1 <= Len(l), NEW r \in Seq(Level),
         NEW n \in Nat, NEW m \in Nat, NEW x \in Walks(n), NEW y \in Walks(n + m),
         RestHolds(side, l, k, r, x, y, m),
         x.err = "none", TakeLevel(x, l[k + 1]).err = "none", TakeLevel(y, l[k + 1]).err = "none",
         NEW rest, rest = [l[k + 1] EXCEPT !.qty = l[k + 1].qty - Take(x.left, l[k + 1])]
  PROVE  /\ KeepDisplayed(r, rest) \in Seq(Level)
         /\ RestHolds(side, l, k + 1, KeepDisplayed(r, rest), TakeLevel(x, l[k + 1]),
                      TakeLevel(y, l[k + 1]), m)
  <1> DEFINE lv == l[k + 1]
             w == FoldLeft(TakeLevel, Begun(m), r)
             s == KeepDisplayed(r, rest)
             v == FoldLeft(TakeLevel, Begun(m), s)
             bx == TakeLevel(x, lv)
             by == TakeLevel(y, lv)
  <1>1. k + 1 \in 1..Len(l) /\ lv \in Level
    OBVIOUS
  <1>2. lv = [venue |-> lv.venue, price |-> lv.price, qty |-> lv.qty]
        /\ lv.venue \in {Coinbase, Kraken} /\ lv.price \in 1..MaxInt64 /\ lv.qty \in 1..MaxInt64
        /\ lv.price \in Nat /\ lv.qty \in Nat /\ MaxInt64 \in Nat
    BY <1>1, LevelParts
  <1>3. x.left \in Nat
    BY DEF Walks
  <1>4. Take(x.left, lv) \in 0..lv.qty
    BY <1>2, <1>3 DEF Take
  <1>5. /\ rest.price = lv.price
        /\ rest.qty > 0 => rest \in Level
    <2> DEFINE z == lv.qty - Take(x.left, lv)
    <2>1. rest = [venue |-> lv.venue, price |-> lv.price, qty |-> z]
      BY <1>2
    <2>2. z \in 0..MaxInt64
      BY <1>2, <1>4
    <2> HIDE DEF z, lv
    <2>3. rest.qty = z /\ rest.price = lv.price
      BY <2>1
    <2>4. z > 0 => z \in 1..MaxInt64
      BY <2>2
    <2> DEFINE ven == lv.venue
               pr == lv.price
    <2>5. ven \in {Coinbase, Kraken} /\ pr \in 1..MaxInt64
          /\ rest = [venue |-> ven, price |-> pr, qty |-> z]
      BY <1>2, <2>1
    <2>6. z > 0 => rest \in Level
      <3> HIDE DEF ven, pr
      <3> SUFFICES ASSUME z > 0
                   PROVE  [venue |-> ven, price |-> pr, qty |-> z] \in Level
        BY <2>5
      <3>1. z \in 1..MaxInt64
        BY <2>4
      <3> QED
        BY <2>5, <3>1 DEF Level
    <2> QED
      BY <2>3, <2>6
  <1>6. w \in Walks(m)
    BY <1>1, WalkAppend
  <1>7. Shared(x, y, w, m)
    BY DEF RestHolds
  <1>8. s = IF rest.qty > 0 THEN Append(r, rest) ELSE r
    BY DEF KeepDisplayed
  <1>9. v = IF rest.qty > 0 THEN TakeLevel(w, rest) ELSE w
    <2>1. CASE rest.qty > 0
      <3>1. rest \in Level /\ s = Append(r, rest)
        BY <1>5, <1>8, <2>1
      <3> HIDE DEF s
      <3>2. FoldLeft(TakeLevel, Begun(m), Append(r, rest))
              = TakeLevel(FoldLeft(TakeLevel, Begun(m), r), rest)
        BY <3>1, WalkAppend
      <3> QED
        BY <2>1, <3>1, <3>2
    <2>2. CASE ~(rest.qty > 0)
      BY <1>8, <2>2
    <2> QED
      BY <2>1, <2>2
  <1>10. s \in Seq(Level)
    <2>1. CASE rest.qty > 0
      <3>1. rest \in Level /\ s = Append(r, rest)
        BY <1>5, <1>8, <2>1
      <3> HIDE DEF s
      <3>2. Append(r, rest) \in Seq(Level)
        BY <3>1
      <3> QED
        BY <3>1, <3>2
    <2>2. CASE ~(rest.qty > 0)
      BY <1>8, <2>2
    <2> QED
      BY <2>1, <2>2
  <1>11. rest = [lv EXCEPT !.qty = lv.qty - Take(x.left, lv)] /\ x.err = "none"
         /\ bx.err = "none" /\ by.err = "none"
    OBVIOUS
  <1>12. Shared(bx, by, v, m)
    <2> HIDE DEF lv, w, v, s
    <2> QED
      BY <1>1, <1>6, <1>7, <1>9, <1>11, SharedStep
  <1>13. s # <<>> => k + 1 # 0 /\ OrderedTo(side, s, lv.price)
    <2> SUFFICES ASSUME s # <<>>
                 PROVE  OrderedTo(side, s, lv.price)
      OBVIOUS
    <2>1. r # <<>> => l[k].price \in Nat /\ ~better(side, lv.price, l[k].price)
                      /\ OrderedTo(side, r, l[k].price)
      <3> SUFFICES ASSUME r # <<>>
                   PROVE  l[k].price \in Nat /\ ~better(side, lv.price, l[k].price)
                          /\ OrderedTo(side, r, l[k].price)
        OBVIOUS
      <3>1. k # 0 /\ OrderedTo(side, r, l[k].price)
        BY DEF RestHolds
      <3>2. k + 1 \in 2..Len(l) /\ (k + 1) - 1 = k /\ k \in 1..Len(l)
        BY <3>1
      <3>3. ~better(side, l[k + 1].price, l[(k + 1) - 1].price)
        BY <3>2 DEF SortedBestFirst
      <3>4. l[k] \in Level
        BY <3>2
      <3>5. l[k].price \in Nat
        <4> DEFINE t == l[k]
        <4>1. t \in Level
          BY <3>4
        <4> HIDE DEF t
        <4>2. t.price \in 1..MaxInt64
          BY <4>1 DEF Level
        <4> QED
          BY <4>2, ScaleAssumption DEF t
      <3> QED
        BY <3>1, <3>2, <3>3, <3>5
    <2> DEFINE p == l[k].price
    <2>2. r # <<>> => p \in Nat /\ ~better(side, lv.price, p) /\ OrderedTo(side, r, p)
      BY <2>1
    <2> HIDE DEF p, lv
    <2>3. /\ OrderedTo(side, Append(r, lv), lv.price)
          /\ r # <<>> => OrderedTo(side, r, lv.price)
      BY <1>1, <2>2, OrderStep
    <2>4. CASE rest.qty > 0
      <3>1. rest \in Level /\ (r # <<>> => p \in Nat /\ ~better(side, rest.price, p)
                                           /\ OrderedTo(side, r, p))
        BY <1>5, <2>2, <2>4
      <3>2. OrderedTo(side, Append(r, rest), rest.price)
        BY <3>1, OrderStep
      <3> QED
        BY <1>5, <1>8, <2>4, <3>2
    <2>5. CASE ~(rest.qty > 0)
      <3>1. s = r
        BY <1>8, <2>5
      <3> QED
        BY <2>3, <3>1
    <2> QED
      BY <2>4, <2>5
  <1> HIDE DEF w, v
  <1>14. RestHolds(side, l, k + 1, s, bx, by, m)
    <2> HIDE DEF s, bx, by
    <2> QED
      BY <1>12, <1>13 DEF RestHolds, v
  <1> QED
    BY <1>10, <1>14

\* The ladder behind the fills of a walk for n, and what a walk of it for m costs when
\* the whole ladder has n + m.
LEMMA RestOfLadder ==
  ASSUME NEW side, NEW l \in Seq(Level), SortedBestFirst(side, l),
         NEW n \in Nat, NEW m \in Nat \ {0},
         NEW x, Levels!IsRun(x, Walks(n), Begun(n), l),
         NEW y, Levels!IsRun(y, Walks(n + m), Begun(n + m), l),
         y[Len(l)].err = "none", y[Len(l)].left = 0
  PROVE  LET D == Depleted(l, x[Len(l)].fills)
             w == FoldLeft(TakeLevel, Begun(m), D)
         IN /\ D \in Seq(Level) /\ D # <<>> /\ SortedBestFirst(side, D)
            /\ w \in Walks(m) /\ w.err = "none" /\ w.left = 0
            /\ x[Len(l)].notional + w.notional <= y[Len(l)].notional
            /\ y[Len(l)].notional <= x[Len(l)].notional + w.notional + 1
  <1> DEFINE N == Len(l)
             q == n + m
             fills == x[N].fills
             s == [i \in 1..N |-> [l[i] EXCEPT !.qty = l[i].qty - Take(x[i - 1].left, l[i])]]
             D == Depleted(l, fills)
  <1>1. /\ x \in [0..N -> Walks(n)] /\ x[0] = Begun(n)
        /\ y \in [0..N -> Walks(q)] /\ y[0] = Begun(q)
        /\ \A i \in 1..N : x[i] = TakeLevel(x[i - 1], l[i]) /\ y[i] = TakeLevel(y[i - 1], l[i])
        /\ N \in Nat /\ q \in Nat /\ n \in 0..q /\ DOMAIN l = 1..N
    BY DEF Levels!IsRun
  <1>2. \A k \in 0..N : y[k].err = "none" /\ x[k].err = "none"
    <2> HIDE DEF q
    <2>1. Levels!IsRun(y, Walks(q), Begun(q), l) /\ q \in Nat /\ n \in 0..q
      BY <1>1 DEF q
    <2> QED
      BY <2>1, SmallerWalk
  <1>3. \A i \in 1..N : TookOf(fills, i) = Take(x[i - 1].left, l[i])
    BY <1>2, FillsOfWalk
  <1>4. ASSUME NEW i \in 1..N
        PROVE  s[i] \in Remains
    <2>1. l[i] \in Level /\ x[i - 1] \in Walks(n)
      BY <1>1
    <2>2. x[i - 1].left \in Nat
      BY <2>1 DEF Walks
    <2> DEFINE lv == l[i]
               t == Take(x[i - 1].left, lv)
    <2>3. lv = [venue |-> lv.venue, price |-> lv.price, qty |-> lv.qty]
          /\ lv.venue \in {Coinbase, Kraken} /\ lv.price \in 1..MaxInt64 /\ lv.qty \in 1..MaxInt64
          /\ MaxInt64 \in Nat
      BY <2>1, LevelParts
    <2>4. lv.qty - t \in 0..MaxInt64
      <3> DEFINE u == x[i - 1].left
                 z == lv.qty
      <3>1. u \in Nat /\ z \in 1..MaxInt64 /\ MaxInt64 \in Nat /\ t = IF z <= u THEN z ELSE u
        BY <2>2, <2>3 DEF Take
      <3> HIDE DEF t, u, z
      <3>2. z - t \in 0..MaxInt64
        BY <3>1
      <3> QED
        BY <3>2 DEF z
    <2>5. s[i] = [lv EXCEPT !.qty = lv.qty - t]
      OBVIOUS
    <2> HIDE DEF s, t, lv
    <2>6. s[i] = [venue |-> lv.venue, price |-> lv.price, qty |-> lv.qty - t]
      BY <2>3, <2>5
    <2> QED
      BY <2>3, <2>4, <2>6 DEF Remains
  <1>5. s \in Seq(Remains) /\ Len(s) = N /\ DOMAIN s = 1..N
    <2>1. s = [i \in 1..N |-> s[i]]
      OBVIOUS
    <2> HIDE DEF s
    <2>2. s \in [1..N -> Remains]
      BY <1>4, <2>1
    <2>3. N \in Nat
      OBVIOUS
    <2> HIDE DEF N
    <2> QED
      BY <2>2, <2>3
  <1>6. D = FoldLeft(KeepDisplayed, <<>>, s)
    <2> DEFINE took(i) == IF i \in DOMAIN fills THEN fills[i].qty ELSE 0
               u == [i \in DOMAIN l |-> [l[i] EXCEPT !.qty = l[i].qty - took(i)]]
    <2>1. D = FoldLeft(KeepDisplayed, <<>>, u)
      BY DEF Depleted
    <2>2. \A i \in 1..N : took(i) = Take(x[i - 1].left, l[i])
      BY <1>3 DEF TookOf
    <2> HIDE DEF took
    <2>3. u = s
      BY <1>1, <2>2
    <2> QED
      BY <2>1, <2>3
  <1>7. \A i \in 1..N : s[i] = [l[i] EXCEPT !.qty = l[i].qty - Take(x[i - 1].left, l[i])]
    OBVIOUS
  <1> HIDE DEF s, D
  <1> DEFINE V == Seq(Level)
             b == <<>>
  <1>8. b \in V /\ \A r \in V, t \in Remains : KeepDisplayed(r, t) \in V
    <2> SUFFICES ASSUME NEW r \in V, NEW t \in Remains
                 PROVE  KeepDisplayed(r, t) \in V
      OBVIOUS
    <2>1. CASE t.qty > 0
      <3>1. t \in Level
        <4>1. t = [venue |-> t.venue, price |-> t.price, qty |-> t.qty]
              /\ t.venue \in {Coinbase, Kraken} /\ t.price \in 1..MaxInt64
              /\ t.qty \in 0..MaxInt64
          BY DEF Remains
        <4>2. t.qty \in 1..MaxInt64
          BY <2>1, <4>1
        <4> QED
          BY <4>1, <4>2 DEF Level
      <3>2. Append(r, t) \in Seq(Level)
        BY <3>1
      <3> QED
        BY <2>1, <3>2 DEF KeepDisplayed
    <2>2. CASE ~(t.qty > 0)
      BY <2>2 DEF KeepDisplayed
    <2> QED
      BY <2>1, <2>2
  <1>9. \E r : Shrinks!IsRun(r, V, b, s) /\ r[Len(s)] = Shrinks!Fold(b, s)
    <2> HIDE DEF V, b
    <2> QED
      BY <1>5, <1>8, Shrinks!FoldRun
  <1>10. Shrinks!Fold(b, s) = D
    BY <1>6 DEF Shrinks!Fold, FoldLeft, MapThenFoldSet,
           Shrinks!MapThenFoldSet, Max, Shrinks!Largest
  <1>11. PICK r : Shrinks!IsRun(r, V, b, s) /\ r[Len(s)] = Shrinks!Fold(b, s)
    BY <1>9
  <1>12. /\ r \in [0..N -> Seq(Level)] /\ r[0] = <<>> /\ r[N] = D
         /\ \A i \in 1..N : r[i] = KeepDisplayed(r[i - 1], s[i])
    BY <1>5, <1>10, <1>11 DEF Shrinks!IsRun
  <1> DEFINE Good(k) == RestHolds(side, l, k, r[k], x[k], y[k], m)
             T == {k \in Nat : k <= N => Good(k)}
  <1>13. 0 \in T
    <2>1. FoldLeft(TakeLevel, Begun(m), <<>>) = Begun(m)
      BY FoldsAreFolds, Levels!FoldEmpty
    <2>2. Shared(Begun(n), Begun(q), Begun(m), m)
      BY DEF Shared, Begun
    <2> QED
      BY <1>1, <1>12, <2>1, <2>2 DEF RestHolds
  <1>14. ASSUME NEW k \in Nat, k \in T
         PROVE  k + 1 \in T
    <2> SUFFICES ASSUME k + 1 <= N
                 PROVE  Good(k + 1)
      OBVIOUS
    <2>1. k \in 0..N /\ k + 1 \in 0..N /\ k + 1 \in 1..N /\ (k + 1) - 1 = k /\ Good(k)
      BY <1>1, <1>14
    <2>2. /\ x[k] \in Walks(n) /\ y[k] \in Walks(n + m) /\ r[k] \in Seq(Level)
          /\ x[k + 1] = TakeLevel(x[k], l[k + 1]) /\ y[k + 1] = TakeLevel(y[k], l[k + 1])
          /\ r[k + 1] = KeepDisplayed(r[k], s[k + 1])
      BY <1>1, <1>12, <2>1
    <2>3. /\ x[k].err = "none" /\ TakeLevel(x[k], l[k + 1]).err = "none"
          /\ TakeLevel(y[k], l[k + 1]).err = "none"
      BY <1>2, <2>1, <2>2
    <2> DEFINE rest == s[k + 1]
    <2>4. rest = [l[k + 1] EXCEPT !.qty = l[k + 1].qty - Take(x[k].left, l[k + 1])]
      BY <1>7, <2>1
    <2>5. RestHolds(side, l, k, r[k], x[k], y[k], m) /\ m \in Nat
      BY <2>1
    <2> HIDE DEF rest, Good
    <2>6. RestHolds(side, l, k + 1, KeepDisplayed(r[k], rest), TakeLevel(x[k], l[k + 1]),
                    TakeLevel(y[k], l[k + 1]), m)
      BY <2>1, <2>2, <2>3, <2>4, <2>5, RestStep
    <2> QED
      BY <2>2, <2>6 DEF Good, rest
  <1> HIDE DEF Good
  <1>15. Good(N)
    <2>1. Nat \subseteq T
      <3> HIDE DEF T
      <3> QED
        BY <1>13, <1>14, Sizes!NaturalInduction
    <2> QED
      BY <1>1, <2>1
  <1> DEFINE w == FoldLeft(TakeLevel, Begun(m), D)
  <1>16. D \in Seq(Level) /\ w \in Walks(m) /\ m \in Nat
    <2>1. D \in Seq(Level) /\ N \in 0..N
      BY <1>1, <1>12
    <2> DEFINE V2 == Walks(m)
               b2 == Begun(m)
    <2>2. b2 \in V2 /\ \A c \in V2, t \in Level : TakeLevel(c, t) \in V2
      BY ScaleAssumption, OneLevelType DEF Begun, Walks
    <2>3. Levels!Fold(b2, D) \in V2
      <3> HIDE DEF V2, b2
      <3> QED
        BY <2>1, <2>2, Levels!FoldType
    <2> QED
      BY <2>1, <2>3, FoldsAreFolds
  <1>17. Shared(x[N], y[N], w, m) /\ (D # <<>> => OrderedTo(side, D, l[N].price))
    BY <1>12, <1>15 DEF Good, RestHolds
  <1> HIDE DEF w
  <1>18. x[N] \in Walks(n) /\ x[N].left \in Nat /\ w.left \in Nat
    <2>1. x[N] \in Walks(n)
      BY <1>1
    <2> QED
      BY <1>16, <2>1 DEF Walks
  <1>19. w.err = "none" /\ w.left = 0 /\ x[N].left = 0
    BY <1>17, <1>18 DEF Shared
  <1>20. D # <<>>
    <2> SUFFICES ASSUME D = <<>>
                 PROVE  FALSE
      OBVIOUS
    <2>1. w = Begun(m)
      BY FoldsAreFolds, Levels!FoldEmpty DEF w
    <2> QED
      BY <1>19, <2>1 DEF Begun
  <1>21. SortedBestFirst(side, D)
    BY <1>17, <1>20 DEF OrderedTo
  <1>22. /\ x[N].notional + w.notional <= y[N].notional
         /\ y[N].notional <= x[N].notional + w.notional + 1
    BY <1>17, <1>19 DEF Shared
  <1> QED
    BY <1>16, <1>19, <1>20, <1>21, <1>22 DEF D, w

\* A ladder taken level by level, as fills.
LEMMA TakingIs ==
  ASSUME NEW l \in Seq(Level), NEW f, f \in [1..Len(l) -> Nat]
  PROVE  /\ Taking(l, f) \in Seq(Taken) /\ Len(Taking(l, f)) = Len(l)
         /\ \A i \in 1..Len(l) : /\ Taking(l, f)[i].price = l[i].price
                                 /\ Taking(l, f)[i].qty = f[i]
  <1> DEFINE n == Len(l)
             a == Taking(l, f)
  <1>1. a \in Seq(Taken)
    BY TakingWorth
  <1>2. n \in Nat /\ a = [i \in 1..n |-> [l[i] EXCEPT !.qty = f[i]]]
    BY DEF Taking
  <1>3. ASSUME NEW i \in 1..n
        PROVE  a[i].price = l[i].price /\ a[i].qty = f[i]
    <2>1. l[i] \in Level /\ a[i] = [l[i] EXCEPT !.qty = f[i]]
      BY <1>2
    <2>2. l[i] = [venue |-> l[i].venue, price |-> l[i].price, qty |-> l[i].qty]
      BY <2>1 DEF Level
    <2>3. a[i] = [venue |-> l[i].venue, price |-> l[i].price, qty |-> f[i]]
      BY <2>1, <2>2
    <2> QED
      BY <2>3
  <1>4. Len(a) = n
    <2>1. DOMAIN a = 1..n
      BY <1>2
    <2> HIDE DEF a
    <2> QED
      BY <1>1, <1>2, <2>1
  <1> QED
    BY <1>1, <1>3, <1>4

\* What a walk for n + m takes beyond a walk for n is a way to take m.
LEMMA Complement ==
  ASSUME NEW l \in Seq(Level), NEW n \in Nat, NEW m \in Nat,
         NEW x, Levels!IsRun(x, Walks(n), Begun(n), l),
         NEW y, Levels!IsRun(y, Walks(n + m), Begun(n + m), l),
         y[Len(l)].err = "none", y[Len(l)].left = 0
  PROVE  \E f \in [1..Len(l) -> Nat] :
            /\ \A i \in 1..Len(l) : f[i] <= l[i].qty
            /\ TotalDepth(Taking(l, f)) = m
            /\ Worth(y[Len(l)].fills) = Worth(x[Len(l)].fills) + Worth(Taking(l, f))
  <1> DEFINE N == Len(l)
             q == n + m
             V == Nat
             f == [i \in 1..N |-> Take(y[i - 1].left, l[i]) - Take(x[i - 1].left, l[i])]
             a == Taking(l, f)
  <1>1. /\ x \in [0..N -> Walks(n)] /\ x[0] = Begun(n)
        /\ y \in [0..N -> Walks(q)] /\ y[0] = Begun(q)
        /\ \A i \in 1..N : x[i] = TakeLevel(x[i - 1], l[i]) /\ y[i] = TakeLevel(y[i - 1], l[i])
        /\ N \in Nat /\ q \in Nat /\ n \in 0..q
    BY DEF Levels!IsRun
  <1>2. \A k \in 0..N : y[k].err = "none" /\ x[k].err = "none" /\ x[k].left <= y[k].left
    <2> HIDE DEF q
    <2>1. Levels!IsRun(y, Walks(q), Begun(q), l) /\ q \in Nat /\ n \in 0..q
      BY <1>1 DEF q
    <2> QED
      BY <2>1, SmallerWalk
  <1>3. ASSUME NEW i \in 1..N
        PROVE  f[i] \in Nat /\ f[i] <= l[i].qty
    <2>1. x[i - 1] \in Walks(n) /\ y[i - 1] \in Walks(q) /\ l[i] \in Level
          /\ x[i - 1].left <= y[i - 1].left
      BY <1>1, <1>2, SMTT(30)
    <2>2. x[i - 1].left \in Nat /\ y[i - 1].left \in Nat
      BY <1>1, <2>1 DEF Walks
    <2> DEFINE lv == l[i]
    <2>3. lv.qty \in Nat
      BY <2>1, LevelParts
    <2>4. f[i] = Take(y[i - 1].left, lv) - Take(x[i - 1].left, lv)
      OBVIOUS
    <2> DEFINE sz == lv.qty
               u == x[i - 1].left
               w == y[i - 1].left
    <2>5. f[i] = (IF sz <= w THEN sz ELSE w) - (IF sz <= u THEN sz ELSE u)
      BY <2>4 DEF Take
    <2>6. sz \in Nat /\ u \in Nat /\ w \in Nat /\ u <= w
      BY <2>1, <2>2, <2>3
    <2> HIDE DEF f, sz, u, w
    <2>7. f[i] \in Nat /\ f[i] <= sz
      BY <2>5, <2>6
    <2> QED
      BY <2>7 DEF sz, lv
  <1>4. f \in [1..N -> Nat]
    <2>1. f = [i \in 1..N |-> f[i]]
      OBVIOUS
    <2> HIDE DEF f
    <2> QED
      BY <1>3, <2>1
  <1>5. \A i \in 1..N : f[i] = Take(y[i - 1].left, l[i]) - Take(x[i - 1].left, l[i])
    OBVIOUS
  <1> HIDE DEF f
  <1>6. /\ a \in Seq(Taken) /\ Len(a) = N /\ V = Nat
        /\ \A i \in 1..N : a[i].price = l[i].price /\ a[i].qty = f[i]
    BY <1>4, TakingIs
  <1> HIDE DEF a
  <1>7. /\ \E d : Sizes!IsRun(d, V, 0, a) /\ d[N] = TotalDepth(a)
        /\ \E w : Worths!IsRun(w, V, 0, a) /\ w[N] = Worth(a)
    <2> HIDE DEF V, N
    <2>1. /\ \E d : Sizes!IsRun(d, V, 0, a) /\ d[Len(a)] = TotalDepth(a)
          /\ \E w : Worths!IsRun(w, V, 0, a) /\ w[Len(a)] = Worth(a)
      BY <1>6, SumRuns
    <2> QED
      BY <1>6, <2>1
  <1>8. PICK d : Sizes!IsRun(d, V, 0, a) /\ d[N] = TotalDepth(a)
    BY <1>7
  <1>9. PICK w : Worths!IsRun(w, V, 0, a) /\ w[N] = Worth(a)
    BY <1>7
  <1>10. /\ d \in [0..N -> Nat] /\ d[0] = 0
         /\ \A i \in 1..N : d[i] = d[i - 1] + f[i]
    <2>1. /\ d \in [0..N -> Nat] /\ d[0] = 0
          /\ \A i \in 1..N : d[i] = AddQty(d[i - 1], a[i])
      BY <1>6, <1>8 DEF Sizes!IsRun
    <2> QED
      BY <1>6, <2>1 DEF AddQty
  <1>11. /\ w \in [0..N -> Nat] /\ w[0] = 0
         /\ \A i \in 1..N : w[i] = w[i - 1] + l[i].price * f[i]
    <2>1. /\ w \in [0..N -> Nat] /\ w[0] = 0
          /\ \A i \in 1..N : w[i] = AddWorth(w[i - 1], a[i])
      BY <1>6, <1>9 DEF Worths!IsRun
    <2> QED
      BY <1>6, <2>1 DEF AddWorth
  <1> DEFINE Good(k) == /\ d[k] + y[k].left = m + x[k].left
                        /\ Worth(y[k].fills) = Worth(x[k].fills) + w[k]
             T == {k \in Nat : k <= N => Good(k)}
  <1>12. 0 \in T
    <2>1. /\ Begun(n).left = n /\ Begun(q).left = n + m
          /\ Worth(Begun(n).fills) = 0 /\ Worth(Begun(q).fills) = 0
      BY SumsEmpty DEF Begun
    <2> QED
      BY <1>1, <1>10, <1>11, <2>1
  <1>13. ASSUME NEW k \in Nat, k \in T
         PROVE  k + 1 \in T
    <2> SUFFICES ASSUME k + 1 <= N
                 PROVE  Good(k + 1)
      OBVIOUS
    <2>1. k \in 0..N /\ k + 1 \in 0..N /\ k + 1 \in 1..N /\ (k + 1) - 1 = k /\ Good(k)
      BY <1>1, <1>13
    <2> DEFINE lv == l[k + 1]
               X == x[k]
               Y == y[k]
               tx == Take(X.left, lv)
               ty == Take(Y.left, lv)
               p == lv.price
    <2>2. /\ X \in Walks(n) /\ Y \in Walks(q) /\ lv \in Level
          /\ x[k + 1] = TakeLevel(X, lv) /\ y[k + 1] = TakeLevel(Y, lv)
          /\ x[k + 1].err = "none" /\ y[k + 1].err = "none"
      <3>1. X \in Walks(n) /\ Y \in Walks(q) /\ lv \in Level
        BY <1>1, <2>1
      <3>2. x[k + 1] = TakeLevel(X, lv) /\ y[k + 1] = TakeLevel(Y, lv)
        BY <1>1, <2>1
      <3>3. x[k + 1].err = "none" /\ y[k + 1].err = "none"
        BY <1>2, <2>1
      <3> HIDE DEF X, Y, lv
      <3> QED
        BY <3>1, <3>2, <3>3
    <2>3. p \in Nat
      <3> HIDE DEF lv
      <3> QED
        BY <2>2, LevelParts
    <2>4. /\ X.left \in Nat /\ Y.left \in Nat
          /\ X.fills \in Seq(Taken) /\ Y.fills \in Seq(Taken)
      BY <1>1, <2>2, LevelIsTaken, SMTT(30) DEF Walks
    <2>5. Worth(X.fills) \in Nat /\ Worth(Y.fills) \in Nat
      <3> HIDE DEF X, Y
      <3> QED
        BY <2>4, SumsNat
    <2>6. /\ d[k + 1] = d[k] + f[k + 1] /\ w[k + 1] = w[k] + p * f[k + 1]
          /\ d[k] \in Nat /\ w[k] \in Nat /\ f[k + 1] \in Nat
          /\ f[k + 1] = ty - tx
      <3>1. d[k + 1] = d[k] + f[k + 1] /\ d[k] \in Nat
        BY <1>10, <2>1
      <3>2. w[k + 1] = w[k] + p * f[k + 1] /\ w[k] \in Nat
        BY <1>11, <2>1
      <3>3. f[k + 1] \in Nat
        BY <1>3, <2>1
      <3>4. f[k + 1] = ty - tx
        BY <1>5, <2>1
      <3> QED
        BY <3>1, <3>2, <3>3, <3>4
    <2> HIDE DEF lv, X, Y
    <2>7. /\ tx \in Nat /\ x[k + 1].left = X.left - tx
          /\ Worth(x[k + 1].fills) = Worth(X.fills) + p * tx
      <3>1. n \in Nat
        OBVIOUS
      <3>2. tx \in 0..X.left /\ x[k + 1].left = X.left - tx
            /\ Worth(x[k + 1].fills) = Worth(X.fills) + p * tx
        BY <2>2, <3>1, LevelAdds
      <3> QED
        BY <2>4, <3>2
    <2>8. /\ ty \in Nat /\ y[k + 1].left = Y.left - ty
          /\ Worth(y[k + 1].fills) = Worth(Y.fills) + p * ty
      <3>1. q \in Nat
        BY <1>1
      <3>2. ty \in 0..Y.left /\ y[k + 1].left = Y.left - ty
            /\ Worth(y[k + 1].fills) = Worth(Y.fills) + p * ty
        BY <2>2, <3>1, LevelAdds
      <3> QED
        BY <2>4, <3>2
    <2>9. d[k] + Y.left = m + X.left /\ Worth(Y.fills) = Worth(X.fills) + w[k]
      BY <2>1 DEF X, Y
    <2> DEFINE fk == f[k + 1]
    <2>10. p * ty = p * tx + p * fk /\ fk = ty - tx /\ fk \in Nat
      <3>1. fk = ty - tx /\ fk \in Nat
        BY <2>6
      <3> HIDE DEF p, tx, ty, fk
      <3>2. ty = tx + fk
        BY <2>7, <2>8, <3>1
      <3> QED
        BY <2>3, <2>7, <3>1, <3>2
    <2> HIDE DEF tx, ty, p, fk
    <2> DEFINE ptx == p * tx
               pty == p * ty
               pf == p * fk
               wx == Worth(X.fills)
               wy == Worth(Y.fills)
    <2>11. ptx \in Nat /\ pty \in Nat /\ pf \in Nat /\ pty = ptx + pf /\ wx \in Nat /\ wy \in Nat
      <3>1. tx \in Nat /\ ty \in Nat /\ fk \in Nat
        BY <2>7, <2>8, <2>10
      <3>2. ptx \in Nat /\ pty \in Nat /\ pf \in Nat
        BY <2>3, <3>1
      <3> QED
        BY <2>5, <2>10, <3>2
    <2>12. /\ Worth(x[k + 1].fills) = wx + ptx /\ Worth(y[k + 1].fills) = wy + pty
           /\ w[k + 1] = w[k] + pf /\ d[k + 1] = d[k] + fk /\ wy = wx + w[k]
           /\ w[k] \in Nat /\ d[k] \in Nat
      BY <2>6, <2>7, <2>8, <2>9 DEF fk
    <2> HIDE DEF ptx, pty, pf, wx, wy
    <2>13. Worth(y[k + 1].fills) = Worth(x[k + 1].fills) + w[k + 1]
      BY <2>11, <2>12, SMTT(30)
    <2>14. d[k + 1] + y[k + 1].left = m + x[k + 1].left
      <3> DEFINE dk == d[k]
                 lx == X.left
                 ly == Y.left
      <3>1. /\ dk \in Nat /\ lx \in Nat /\ ly \in Nat /\ tx \in Nat /\ ty \in Nat
            /\ fk = ty - tx /\ dk + ly = m + lx
        BY <2>4, <2>7, <2>8, <2>9, <2>10, <2>12
      <3>2. /\ d[k + 1] = dk + fk /\ y[k + 1].left = ly - ty /\ x[k + 1].left = lx - tx
        BY <2>7, <2>8, <2>12
      <3> HIDE DEF dk, lx, ly
      <3>3. (dk + fk) + (ly - ty) = m + (lx - tx)
        BY <3>1
      <3> QED
        BY <3>2, <3>3
    <2> QED
      BY <2>13, <2>14
  <1> HIDE DEF Good
  <1>14. Good(N)
    <2>1. Nat \subseteq T
      <3> HIDE DEF T
      <3> QED
        BY <1>12, <1>13, Sizes!NaturalInduction
    <2> QED
      BY <1>1, <2>1
  <1>15. x[N].left = 0
    <2>1. x[N] \in Walks(n) /\ x[N].left <= 0
      BY <1>1, <1>2
    <2> QED
      BY <2>1 DEF Walks
  <1>16. TotalDepth(a) = m
    <2>1. d[N] \in Nat
      BY <1>1, <1>10
    <2> QED
      BY <1>8, <1>14, <1>15, <2>1 DEF Good
  <1>17. Worth(y[N].fills) = Worth(x[N].fills) + Worth(a)
    BY <1>9, <1>14 DEF Good
  <1> QED
    BY <1>3, <1>4, <1>16, <1>17 DEF a

\* An amount at least a units and less than b.
LEMMA ScaleDown ==
  ASSUME NEW a \in Nat, NEW b \in Nat, NEW u \in Nat, a * Scale <= u, u < b * Scale
  PROVE  a < b
  <1> SUFFICES ASSUME b <= a
               PROVE  FALSE
    OBVIOUS
  <1> DEFINE ga == a * Scale
             gb == b * Scale
  <1>1. ga \in Nat /\ gb \in Nat /\ gb <= ga
    BY ScaleAssumption
  <1> HIDE DEF ga, gb
  <1> QED
    BY <1>1 DEF ga, gb

\* A walk in full, and what its fills and amount come to.
InFull(c, q) ==
  /\ c.err = "none" /\ c.left = 0 /\ TotalDepth(c.fills) = q
  /\ c.notional \in Nat /\ Worth(c.fills) \in Nat /\ Len(c.fills) \in Nat \ {0}
  /\ c.notional * Scale <= Worth(c.fills)
  /\ Worth(c.fills) < (c.notional + Len(c.fills)) * Scale

\* The walk of a size that a walk for more fills.
LEMMA SliceInFull ==
  ASSUME NEW l \in Seq(Level), NEW side, l # <<>>, SortedBestFirst(side, l),
         NEW q \in Nat, NEW n \in 1..q,
         NEW y, Levels!IsRun(y, Walks(q), Begun(q), l), y[Len(l)].err = "none", y[Len(l)].left = 0
  PROVE  \E x : /\ Levels!IsRun(x, Walks(n), Begun(n), l)
                /\ x[Len(l)] = FoldLeft(TakeLevel, Begun(n), l)
                /\ InFull(x[Len(l)], n)
                /\ Walk(l, side, n).err = "none"
                /\ Walk(l, side, n).notional = x[Len(l)].notional
                /\ Walk(l, side, n).fills = x[Len(l)].fills
  <1> DEFINE N == Len(l)
  <1>1. N \in 0..N /\ n \in 0..q /\ n \in Nat \ {0}
    OBVIOUS
  <1>2. PICK x : Levels!IsRun(x, Walks(n), Begun(n), l) /\ x[N] = FoldLeft(TakeLevel, Begun(n), l)
    BY <1>1, WalkRun
  <1>3. x[N].err = "none" /\ x[N].left <= y[N].left
    BY <1>1, <1>2, SmallerWalk
  <1>4. x[N] \in Walks(n) /\ Walked(l, n, N, TotalDepth(l), x[N])
    BY <1>1, <1>2, WholeWalk
  <1>5. /\ x[N].left = 0 /\ x[N].notional \in Nat /\ x[N].fills \in Seq(Level)
        /\ x[N].fills \in Seq(Taken)
    <2>1. x[N].left \in 0..n /\ x[N].notional \in 0..MaxInt64 /\ x[N].fills \in Seq(Level)
      BY <1>4 DEF Walks
    <2>2. x[N].left = 0
      <3>1. x[N].left <= 0
        BY <1>3
      <3> QED
        BY <1>1, <2>1, <3>1
    <2> QED
      BY <2>1, <2>2, ScaleAssumption, LevelIsTaken
  <1> DEFINE s == x[N].fills
             a == x[N].notional
  <1>6. /\ TotalDepth(s) = n - x[N].left /\ a * Scale <= Worth(s)
        /\ Worth(s) + Len(s) <= (a + Len(s)) * Scale
    BY <1>3, <1>4 DEF Walked, WalkedSizes, WalkedWorth
  <1>7. TotalDepth(s) = n
    BY <1>1, <1>5, <1>6
  <1>8. Worth(s) \in Nat /\ Len(s) \in Nat \ {0}
    <2>1. s # <<>>
      BY <1>1, <1>7, SumsEmpty
    <2> QED
      BY <1>5, <2>1, SumsNat
  <1>9. Worth(s) < (a + Len(s)) * Scale
    <2> DEFINE u == (a + Len(s)) * Scale
               j == Len(s)
               v == Worth(s)
    <2>1. u \in Nat
      BY <1>5, <1>8, ScaleAssumption, SMTT(30)
    <2>2. v + j <= u /\ v \in Nat /\ j \in Nat \ {0}
      BY <1>6, <1>8
    <2> HIDE DEF u, j, v
    <2>3. v < u
      BY <2>1, <2>2
    <2> QED
      BY <2>3 DEF u, v
  <1>10. InFull(x[N], n)
    BY <1>3, <1>5, <1>6, <1>7, <1>8, <1>9 DEF InFull
  <1>11. /\ Walk(l, side, n).err = "none" /\ Walk(l, side, n).notional = x[N].notional
         /\ Walk(l, side, n).fills = x[N].fills
    <2> DEFINE r == Walk(l, side, n)
               c == FoldLeft(TakeLevel, Begun(n), l)
    <2>1. /\ r.err = IF c.err = "overflow" THEN "overflow" ELSE IF c.left > 0 THEN "depth" ELSE "none"
          /\ c.err = "none" => r.notional = c.notional /\ r.fills = c.fills
      BY <1>1, WalkAnswers
    <2>2. c.err = "none" /\ c.left = 0
      BY <1>2, <1>3, <1>5
    <2> HIDE DEF r, c
    <2>3. r.err = "none" /\ r.notional = c.notional /\ r.fills = c.fills
      BY <2>1, <2>2
    <2> QED
      BY <1>2, <2>3 DEF r, c
  <1> QED
    BY <1>2, <1>10, <1>11

\* Two sums, compared part by part.
LEMMA SumsWithin ==
  ASSUME NEW a \in Nat, NEW b \in Nat, NEW u \in Nat, NEW v \in Nat, a <= u, b <= v
  PROVE  a + b <= u + v
  OBVIOUS

LEMMA SumsBelow ==
  ASSUME NEW a \in Nat, NEW b \in Nat, NEW u \in Nat, NEW v \in Nat, a < u, b < v
  PROVE  a + b < u + v
  OBVIOUS

\* Two slices against a book that refills between them, and the whole: a take b, of
\* which the second is the best way to take what the whole takes beyond the first.
LEMMA RefilledBand ==
  ASSUME NEW side, NEW x, NEW z, NEW y, NEW n, NEW m, NEW q, InFull(x, n), InFull(z, m), InFull(y, q),
         NEW rest \in Nat, Worth(y.fills) = Worth(x.fills) + rest,
         NoBetter(side, rest, Worth(z.fills))
  PROVE  IF side = "ask" THEN x.notional + z.notional < y.notional + Len(y.fills)
         ELSE y.notional < x.notional + z.notional + (Len(x.fills) + Len(z.fills))
  <1> DEFINE a == x.notional
             b == z.notional
             c == y.notional
             u == Worth(x.fills)
             v == Worth(z.fills)
             w == Worth(y.fills)
             i == Len(x.fills)
             j == Len(z.fills)
             k == Len(y.fills)
  <1>1. /\ a \in Nat /\ b \in Nat /\ c \in Nat /\ u \in Nat /\ v \in Nat /\ w \in Nat
        /\ i \in Nat /\ j \in Nat /\ k \in Nat
        /\ a * Scale <= u /\ b * Scale <= v /\ c * Scale <= w
        /\ u < (a + i) * Scale /\ v < (b + j) * Scale /\ w < (c + k) * Scale
        /\ w = u + rest /\ NoBetter(side, rest, v)
    BY DEF InFull
  <1> HIDE DEF a, b, c, u, v, w, i, j, k
  <1>1a. /\ u \in Nat /\ v \in Nat /\ w \in Nat /\ w = u + rest
    BY <1>1
  <1>2. CASE side = "ask"
    <2>1. v <= rest
      BY <1>1, <1>2 DEF NoBetter
    <2>2. (a + b) * Scale <= w
      <3> DEFINE ga == a * Scale
                 gb == b * Scale
      <3>1. ga \in Nat /\ gb \in Nat /\ ga <= u /\ gb <= v
        BY <1>1, ScaleAssumption
      <3>2. (a + b) * Scale = ga + gb
        BY <1>1, ScaleAssumption
      <3> HIDE DEF ga, gb
      <3>3. v \in Nat /\ gb <= rest
        BY <1>1a, <2>1, <3>1
      <3>4. ga + gb <= u + rest
        BY <1>1a, <3>1, <3>3, SumsWithin
      <3> QED
        BY <1>1a, <3>2, <3>4
    <2>3. a + b \in Nat /\ c + k \in Nat
      BY <1>1
    <2>4. a + b < c + k
      BY <1>1, <2>2, <2>3, ScaleDown
    <2> QED
      BY <1>2, <2>4 DEF a, b, c, k
  <1>3. CASE side # "ask"
    <2>1. rest <= v
      BY <1>1, <1>3 DEF NoBetter
    <2>2. u + v < (a + b + (i + j)) * Scale
      <3> DEFINE ga == (a + i) * Scale
                 gb == (b + j) * Scale
      <3>1. ga \in Nat /\ gb \in Nat /\ u < ga /\ v < gb
        BY <1>1, ScaleAssumption
      <3>2. (a + b + (i + j)) * Scale = ga + gb
        BY <1>1, ScaleAssumption
      <3> HIDE DEF ga, gb
      <3>3. u + v < ga + gb
        BY <1>1a, <3>1, SumsBelow
      <3> QED
        BY <3>2, <3>3
    <2>3. a + b + (i + j) \in Nat /\ u + v \in Nat
      BY <1>1
    <2>4. c * Scale <= u + v
      <3> DEFINE cs == c * Scale
      <3>1. cs \in Nat /\ cs <= w
        BY <1>1, ScaleAssumption
      <3> HIDE DEF cs
      <3>2. cs <= u + v
        BY <1>1a, <2>1, <3>1
      <3> QED
        BY <3>2 DEF cs
    <2>5. c < a + b + (i + j)
      BY <1>1, <2>2, <2>3, <2>4, ScaleDown
    <2> QED
      BY <1>3, <2>5 DEF a, b, c, i, j
  <1> QED
    BY <1>2, <1>3

\* The band of the study's sliced arm (docs/TCA.md, cmd/tcastudy/main.go:253-254): for
\* every ladder, side, size and cut of it, neither slice is refused if the whole is not;
\* against books that do not refill the slices cost the whole's amount or one unit less;
\* against books that do they cost no more than the whole, for a sale bring in no less,
\* but for the rounding of each fill.
LEMMA SlicesStayWithin ==
  ASSUME NEW l \in Seq(Level), NEW side, NEW q \in Int
  PROVE  SlicedWithin(l, side, q)
  <1> DEFINE whole == Walk(l, side, q)
             N == Len(l)
  <1> SUFFICES ASSUME whole.err = "none", NEW n \in 1..(q - 1)
               PROVE  LET D == Depleted(l, Walk(l, side, n).fills)
                          first == Walk(l, side, n)
                          second == Walk(D, side, q - n)
                          again == Walk(l, side, q - n)
                          refilled == first.notional + again.notional
                      IN /\ first.err = "none" /\ second.err = "none"
                         /\ first.notional + second.notional \in whole.notional - 1..whole.notional
                         /\ IF side = "ask" THEN refilled < whole.notional + Len(whole.fills)
                            ELSE whole.notional < refilled + (Len(first.fills) + Len(again.fills))
    BY DEF SlicedWithin
  <1> DEFINE m == q - n
             first == Walk(l, side, n)
             again == Walk(l, side, m)
             D == Depleted(l, first.fills)
             second == Walk(D, side, m)
             cw == FoldLeft(TakeLevel, Begun(q), l)
  <1>1. /\ q \in Nat \ {0} /\ l # <<>> /\ SortedBestFirst(side, l)
        /\ cw.err = "none" /\ cw.left = 0
    BY WalkInFull
  <1>2. n \in 1..q /\ m \in 1..q /\ n \in Nat /\ m \in Nat \ {0} /\ q = n + m /\ q \in Nat /\ q \in 1..q
    BY <1>1
  <1>3. PICK y0 : Levels!IsRun(y0, Walks(q), Begun(q), l) /\ y0[N] = cw
    BY <1>2, WalkRun
  <1>4. PICK y : /\ Levels!IsRun(y, Walks(q), Begun(q), l) /\ InFull(y[N], q)
                 /\ whole.notional = y[N].notional /\ whole.fills = y[N].fills
    BY <1>1, <1>2, <1>3, SliceInFull
  <1>5. y[N].err = "none" /\ y[N].left = 0
    BY <1>4 DEF InFull
  <1>6. PICK x : /\ Levels!IsRun(x, Walks(n), Begun(n), l) /\ InFull(x[N], n)
                 /\ first.err = "none" /\ first.notional = x[N].notional /\ first.fills = x[N].fills
    <2> HIDE DEF m, cw, whole, D, second, again
    <2>1. \E x : /\ Levels!IsRun(x, Walks(n), Begun(n), l)
                 /\ x[N] = FoldLeft(TakeLevel, Begun(n), l)
                 /\ InFull(x[N], n)
                 /\ first.err = "none" /\ first.notional = x[N].notional /\ first.fills = x[N].fills
      BY <1>1, <1>2, <1>4, <1>5, SliceInFull
    <2> HIDE DEF first
    <2> QED
      BY <2>1
  <1>7. PICK z : /\ Levels!IsRun(z, Walks(m), Begun(m), l) /\ InFull(z[N], m)
                 /\ z[N] = FoldLeft(TakeLevel, Begun(m), l)
                 /\ again.err = "none" /\ again.notional = z[N].notional /\ again.fills = z[N].fills
    <2> HIDE DEF m
    <2> QED
      BY <1>1, <1>2, <1>4, <1>5, SliceInFull
  <1>8. Levels!IsRun(y, Walks(n + m), Begun(n + m), l)
    <2> HIDE DEF m
    <2> QED
      BY <1>2, <1>4
  <1> HIDE DEF whole, first, again, m
  <1>9. second.err = "none" /\ first.notional + second.notional \in whole.notional - 1..whole.notional
    <2> DEFINE w == FoldLeft(TakeLevel, Begun(m), D)
    <2>1. D = Depleted(l, x[N].fills)
      BY <1>6
    <2> HIDE DEF D
    <2>2. /\ D \in Seq(Level) /\ D # <<>> /\ SortedBestFirst(side, D)
          /\ w \in Walks(m) /\ w.err = "none" /\ w.left = 0
          /\ x[N].notional + w.notional <= y[N].notional
          /\ y[N].notional <= x[N].notional + w.notional + 1
      BY <1>1, <1>2, <1>5, <1>6, <1>8, <2>1, RestOfLadder
    <2>3. second.err = "none" /\ second.notional = w.notional
      <3>1. /\ second.err = IF w.err = "overflow" THEN "overflow"
                            ELSE IF w.left > 0 THEN "depth" ELSE "none"
            /\ w.err = "none" => second.notional = w.notional
        BY <1>2, <2>2, WalkAnswers
      <3> HIDE DEF second, w
      <3> QED
        BY <2>2, <3>1
    <2>4. w.notional \in Nat /\ x[N].notional \in Nat /\ y[N].notional \in Nat
      <3>1. w.notional \in 0..MaxInt64
        BY <2>2 DEF Walks
      <3> HIDE DEF w
      <3> QED
        BY <1>4, <1>6, <3>1, ScaleAssumption DEF InFull
    <2> HIDE DEF second, w
    <2> QED
      BY <1>4, <1>6, <2>2, <2>3, <2>4, SMTT(30)
  <1>10. IF side = "ask" THEN x[N].notional + z[N].notional < y[N].notional + Len(y[N].fills)
         ELSE y[N].notional < x[N].notional + z[N].notional + (Len(x[N].fills) + Len(z[N].fills))
    <2>1. PICK f \in [1..N -> Nat] :
             /\ \A i \in 1..N : f[i] <= l[i].qty
             /\ TotalDepth(Taking(l, f)) = m
             /\ Worth(y[N].fills) = Worth(x[N].fills) + Worth(Taking(l, f))
      BY <1>2, <1>5, <1>6, <1>8, Complement, SMTT(30)
    <2>2. Worth(Taking(l, f)) \in Nat
      BY <2>1, TakingWorth
    <2> DEFINE zc == z[N]
    <2>3. zc = FoldLeft(TakeLevel, Begun(m), l) /\ zc.err = "none" /\ zc.left = 0
      BY <1>7 DEF InFull
    <2> HIDE DEF zc
    <2>4. NoBetter(side, Worth(Taking(l, f)), Worth(zc.fills))
      BY <1>1, <1>2, <2>1, <2>3, NoneBetter
    <2> DEFINE rest == Worth(Taking(l, f))
               xc == x[N]
               yc == y[N]
    <2>5. /\ InFull(xc, n) /\ InFull(zc, m) /\ InFull(yc, q)
          /\ rest \in Nat /\ Worth(yc.fills) = Worth(xc.fills) + rest
          /\ NoBetter(side, rest, Worth(zc.fills))
      BY <1>4, <1>6, <1>7, <2>1, <2>2, <2>4 DEF zc
    <2> HIDE DEF rest, xc, yc
    <2>6. IF side = "ask" THEN xc.notional + zc.notional < yc.notional + Len(yc.fills)
          ELSE yc.notional < xc.notional + zc.notional + (Len(xc.fills) + Len(zc.fills))
      BY <2>5, RefilledBand
    <2> QED
      BY <2>6 DEF xc, yc, zc
  <1>11. IF side = "ask" THEN first.notional + again.notional < whole.notional + Len(whole.fills)
         ELSE whole.notional < first.notional + again.notional + (Len(first.fills) + Len(again.fills))
    BY <1>4, <1>6, <1>7, <1>10
  <1> HIDE DEF second, D
  <1> QED
    BY <1>6, <1>9, <1>11 DEF first, again, second, D, m

-----------------------------------------------------------------------------
(* The resilience measure.                                                 *)

\* The size at the touch counts the first level at least.
LEMMA TouchPositive ==
  ASSUME NEW l \in Seq(SeenLevel), l # <<>>
  PROVE  AtTouch(l) \in Nat \ {0}
  <1> DEFINE p == l[1].price
             V == [price : {p}, qty : Nat]
             b == [price |-> p, qty |-> 0]
             n == Len(l)
  <1>1. ASSUME NEW v \in V, NEW lv \in SeenLevel
        PROVE  AddAtTouch(v, lv) \in V /\ AddAtTouch(v, lv).qty >= v.qty
    <2>1. v.qty \in Nat /\ lv.qty \in Nat /\ v.price = p /\ v = [price |-> p, qty |-> v.qty]
      BY DEF SeenLevel
    <2>2. [v EXCEPT !.qty = v.qty + lv.qty] = [price |-> p, qty |-> v.qty + lv.qty]
      BY <2>1
    <2> HIDE DEF p
    <2> QED
      BY <2>1, <2>2 DEF AddAtTouch
  <1>2. b \in V
    OBVIOUS
  <1>3. n \in Nat \ {0} /\ 1 \in 1..n /\ l[1] \in SeenLevel
    OBVIOUS
  <1>4. l[1].qty \in Nat \ {0}
    BY <1>3 DEF SeenLevel
  <1>5. PICK g : Touches!IsRun(g, V, b, l) /\ g[n] = Touches!Fold(b, l)
    <2>1. \A v \in V, lv \in SeenLevel : AddAtTouch(v, lv) \in V
      BY <1>1
    <2> HIDE DEF V, b
    <2> QED
      BY <1>2, <2>1, Touches!FoldRun
  <1>6. FoldLeft(AddAtTouch, b, l) = Touches!Fold(b, l)
    BY DEF Touches!Fold, FoldLeft, MapThenFoldSet, Touches!MapThenFoldSet,
           Max, Touches!Largest
  <1>7. AtTouch(l) = g[n].qty
    BY <1>5, <1>6 DEF AtTouch
  <1>8. /\ g \in [0..n -> V] /\ g[0] = b
        /\ \A i \in 1..n : g[i] = AddAtTouch(g[i - 1], l[i])
    BY <1>5 DEF Touches!IsRun
  <1>9. g[1].qty = l[1].qty
    <2>1. g[1] = AddAtTouch(b, l[1])
      BY <1>3, <1>8
    <2>2. b.qty = 0 /\ b.price = l[1].price
      OBVIOUS
    <2>3. AddAtTouch(b, l[1]).qty = 0 + l[1].qty
      BY <2>2 DEF AddAtTouch
    <2> QED
      BY <1>4, <2>1, <2>3
  <1> DEFINE T == {k \in Nat : k + 1 <= n => g[k + 1].qty >= l[1].qty}
  <1>10. 0 \in T
    <2>1. 0 + 1 = 1
      OBVIOUS
    <2> QED
      BY <1>4, <1>9, <2>1
  <1>11. ASSUME NEW k \in Nat, k \in T
         PROVE  k + 1 \in T
    <2> SUFFICES ASSUME (k + 1) + 1 <= n
                 PROVE  g[(k + 1) + 1].qty >= l[1].qty
      OBVIOUS
    <2> DEFINE m == k + 1
    <2>1. m \in 0..n /\ m + 1 \in 1..n /\ (m + 1) - 1 = m /\ m + 1 \in 0..n
      BY <1>3
    <2>2. g[m].qty >= l[1].qty
      BY <1>11, <2>1
    <2>3. g[m] \in V /\ l[m + 1] \in SeenLevel /\ g[m + 1] = AddAtTouch(g[m], l[m + 1])
      <3>1. g[m + 1] = AddAtTouch(g[(m + 1) - 1], l[m + 1])
        BY <1>8, <2>1
      <3> HIDE DEF m
      <3>2. g[m] \in V /\ g[(m + 1) - 1] = g[m]
        BY <1>8, <2>1
      <3>3. l[m + 1] \in SeenLevel
        BY <2>1
      <3> QED
        BY <3>1, <3>2, <3>3
    <2>4. g[m + 1].qty >= g[m].qty
      BY <1>1, <2>3
    <2>5. g[m + 1].qty \in Nat /\ g[m].qty \in Nat
      BY <1>8, <2>1
    <2> HIDE DEF m
    <2>6. g[m + 1].qty >= l[1].qty
      BY <1>4, <2>2, <2>4, <2>5
    <2> QED
      BY <2>6 DEF m
  <1>12. n - 1 \in T
    <2>1. Nat \subseteq T
      <3> HIDE DEF T
      <3> QED
        BY <1>10, <1>11, Touches!NaturalInduction
    <2> QED
      BY <1>3, <2>1
  <1>13. g[n].qty >= l[1].qty /\ g[n].qty \in Nat
    <2>1. (n - 1) + 1 = n /\ n - 1 \in Nat /\ n \in 0..n
      BY <1>3
    <2> QED
      BY <1>8, <1>12, <2>1
  <1> QED
    BY <1>4, <1>7, <1>13

\* What a watch keeps: the events begun are the recovered and the open, the time
\* below the peak is that of the recovered and what the open one took so far, none
\* recovered took longer than the worst, and the touch is where the state says.
WatchRecord ==
  [r : [last : Nat, peak : Nat, depletedAt : Int, inEvent : BOOLEAN, events : Nat,
        recovered : Nat, totalRec : Int, worst : Nat],
   at : Int, below : Int]

AddsUp(w) ==
  /\ w.r.events = w.r.recovered + (IF w.r.inEvent THEN 1 ELSE 0)
  /\ w.below = IF w.r.inEvent THEN w.r.totalRec + (w.at - w.r.depletedAt) ELSE w.r.totalRec
  /\ w.r.totalRec <= w.r.recovered * w.r.worst
  /\ IF w.r.inEvent THEN w.r.last < w.r.peak /\ w.r.last # 0 ELSE w.r.last >= w.r.peak \div 2
  /\ (w.r.last = 0 => w.r.peak = 0)

SoundWatches == {w \in WatchRecord : AddsUp(w)}

\* One more recovery of at most the new worst keeps the total within it.
LEMMA TotalWithin ==
  ASSUME NEW n \in Nat, NEW x \in Int, NEW t \in Int, NEW d \in Int, NEW y \in Int,
         t <= n * x, y >= x, y >= d
  PROVE  t + d <= (n + 1) * y
  <1>1. n * x <= n * y
    OBVIOUS
  <1>2. (n + 1) * y = n * y + y
    OBVIOUS
  <1> DEFINE a == n * x
             b == n * y
  <1>3. a \in Int /\ b \in Int
    OBVIOUS
  <1> HIDE DEF a, b
  <1> QED
    BY <1>1, <1>2, <1>3 DEF a, b

\* Every observation keeps it.
LEMMA WatchKeeps ==
  ASSUME NEW w \in SoundWatches, NEW o \in Observation
  PROVE  Watch(w, o) \in SoundWatches
  <1> DEFINE r == w.r
             now == o.at
             size == AtTouch(o.ladder)
             s == observe(r, now, o.ladder)
             u == Watch(w, o)
  <1>1. /\ r.last \in Nat /\ r.peak \in Nat /\ r.depletedAt \in Int /\ r.inEvent \in BOOLEAN
        /\ r.events \in Nat /\ r.recovered \in Nat /\ r.totalRec \in Int /\ r.worst \in Nat
        /\ r = [last |-> r.last, peak |-> r.peak, depletedAt |-> r.depletedAt,
                inEvent |-> r.inEvent, events |-> r.events, recovered |-> r.recovered,
                totalRec |-> r.totalRec, worst |-> r.worst]
        /\ w.at \in Int /\ w.below \in Int
    <2>1. w \in WatchRecord
      BY DEF SoundWatches
    <2> QED
      BY <2>1 DEF WatchRecord
  <1>2. AddsUp(w)
    BY DEF SoundWatches
  <1>3. now \in Int /\ o.ladder \in Seq(SeenLevel)
    BY DEF Observation
  <1>4. u = [r |-> s, at |-> now,
             below |-> IF r.inEvent THEN w.below + now - w.at ELSE w.below]
    BY DEF Watch
  <1>5. o.ladder # <<>> => size \in Nat \ {0}
    BY <1>3, TouchPositive
  <1> HIDE DEF r, now, size, s, u
  <1> DEFINE Below == IF r.inEvent THEN r.totalRec + (now - r.depletedAt) ELSE r.totalRec
             total == r.recovered * r.worst
  <1>2a. /\ r.events = r.recovered + (IF r.inEvent THEN 1 ELSE 0)
         /\ w.below = IF r.inEvent THEN r.totalRec + (w.at - r.depletedAt) ELSE r.totalRec
         /\ r.totalRec <= total
         /\ IF r.inEvent THEN r.last < r.peak /\ r.last # 0 ELSE r.last >= r.peak \div 2
         /\ (r.last = 0 => r.peak = 0)
    BY <1>2 DEF AddsUp, r
  <1>2b. u = [r |-> s, at |-> now, below |-> Below] /\ Below \in Int
    <2>1. Below \in Int
      BY <1>1, <1>3
    <2>2. (IF r.inEvent THEN w.below + now - w.at ELSE w.below) = Below
      <3>1. CASE r.inEvent
        <4>1. w.below = r.totalRec + (w.at - r.depletedAt)
          BY <1>2a, <3>1
        <4> DEFINE at == w.at
                   bl == w.below
                   tr == r.totalRec
                   da == r.depletedAt
        <4>1a. at \in Int /\ bl \in Int /\ tr \in Int /\ da \in Int /\ now \in Int
               /\ bl = tr + (at - da)
          BY <1>1, <1>3, <4>1
        <4> HIDE DEF at, bl, tr, da
        <4>1b. bl + now - at = tr + (now - da)
          BY <4>1a
        <4>2. w.below + now - w.at = r.totalRec + (now - r.depletedAt)
          BY <4>1b DEF at, bl, tr, da
        <4> QED
          BY <3>1, <4>2
      <3>2. CASE ~r.inEvent
        BY <1>2a, <3>2
      <3> QED
        BY <3>1, <3>2
    <2> QED
      BY <1>4, <2>1, <2>2, Zenon
  <1>2c. (r.inEvent => Below = r.totalRec + (now - r.depletedAt)) /\ (~r.inEvent => Below = r.totalRec)
    OBVIOUS
  <1> HIDE DEF total, Below
  <1>6. CASE o.ladder = <<>>
    <2>0. s = r
      BY <1>6 DEF observe, s
    <2>1. u = [r |-> [last |-> r.last, peak |-> r.peak, depletedAt |-> r.depletedAt,
                        inEvent |-> r.inEvent, events |-> r.events, recovered |-> r.recovered,
                        totalRec |-> r.totalRec, worst |-> r.worst],
                 at |-> now, below |-> Below]
      BY <1>1, <1>2b, <2>0
    <2>2. u \in WatchRecord
      BY <1>1, <1>2b, <1>3, <1>5, <1>6, <2>1 DEF WatchRecord
    <2>3. AddsUp(u)
      BY <1>1, <1>2a, <1>2c, <1>5, <1>6, <2>1 DEF AddsUp, total
    <2> QED
      BY <2>2, <2>3 DEF SoundWatches, u
  <1>7. CASE o.ladder # <<>> /\ r.last = 0
    <2>0. s = [r EXCEPT !.last = size, !.peak = size]
      BY <1>7 DEF observe, s, size
    <2>1. u = [r |-> [last |-> size, peak |-> size, depletedAt |-> r.depletedAt,
                        inEvent |-> r.inEvent, events |-> r.events, recovered |-> r.recovered,
                        totalRec |-> r.totalRec, worst |-> r.worst],
                 at |-> now, below |-> Below]
      BY <1>1, <1>2b, <2>0
    <2>2. u \in WatchRecord
      BY <1>1, <1>2b, <1>3, <1>5, <1>7, <2>1 DEF WatchRecord
    <2>3. AddsUp(u)
      BY <1>1, <1>2a, <1>2c, <1>5, <1>7, <2>1 DEF AddsUp, total
    <2> QED
      BY <2>2, <2>3 DEF SoundWatches, u
  <1>8. CASE o.ladder # <<>> /\ r.last # 0 /\ ~r.inEvent /\ Depletes(r, size)
    <2>0. s = [r EXCEPT !.inEvent = TRUE, !.depletedAt = now, !.events = r.events + 1, !.last = size]
      BY <1>8 DEF observe, s, size, StartEvent
    <2>1. u = [r |-> [last |-> size, peak |-> r.peak, depletedAt |-> now,
                        inEvent |-> TRUE, events |-> r.events + 1, recovered |-> r.recovered,
                        totalRec |-> r.totalRec, worst |-> r.worst],
                 at |-> now, below |-> Below]
      BY <1>1, <1>2b, <2>0
    <2>2. u \in WatchRecord
      <3>1. size \in Nat /\ now \in Int /\ r.events + 1 \in Nat /\ Below \in Int
        BY <1>1, <1>2b, <1>3, <1>5, <1>8
      <3> QED
        BY <1>1, <2>1, <3>1 DEF WatchRecord
    <2>3. AddsUp(u)
      <3>1. size \in Nat \ {0} /\ size < r.peak
        BY <1>1, <1>5, <1>8 DEF Depletes
      <3>2. Below = r.totalRec /\ r.events = r.recovered /\ now - now = 0
        BY <1>1, <1>2a, <1>2c, <1>3, <1>8
      <3>3. r.totalRec <= r.recovered * r.worst
        BY <1>2a DEF total
      <3>4. Below = r.totalRec + (now - now)
        BY <1>1, <3>2
      <3> QED
        BY <1>1, <2>1, <3>1, <3>2, <3>3, <3>4 DEF AddsUp
    <2> QED
      BY <2>2, <2>3 DEF SoundWatches, u
  <1>9. CASE o.ladder # <<>> /\ r.last # 0 /\ ~r.inEvent /\ ~Depletes(r, size)
    <2> DEFINE high == Max({r.peak, size})
    <2>0. s = [r EXCEPT !.peak = high, !.last = size]
      BY <1>9 DEF observe, s, size
    <2>0a. high = (IF r.peak >= size THEN r.peak ELSE size) /\ high \in Nat
      BY <1>1, <1>5, <1>9, MaxOfTwo
    <2> HIDE DEF high
    <2>1. u = [r |-> [last |-> size, peak |-> high, depletedAt |-> r.depletedAt,
                        inEvent |-> r.inEvent, events |-> r.events, recovered |-> r.recovered,
                        totalRec |-> r.totalRec, worst |-> r.worst],
                 at |-> now, below |-> Below]
      BY <1>1, <1>2b, <2>0, <2>0a
    <2>2. u \in WatchRecord
      BY <1>1, <1>2b, <1>3, <1>5, <1>9, <2>0a, <2>1 DEF WatchRecord
    <2>3. AddsUp(u)
      BY <1>1, <1>2a, <1>2c, <1>5, <1>9, <2>0a, <2>1 DEF AddsUp, total, Depletes
    <2> QED
      BY <2>2, <2>3 DEF SoundWatches, u
  <1>10. CASE o.ladder # <<>> /\ r.last # 0 /\ r.inEvent /\ size >= r.peak
    <2> DEFINE d == now - r.depletedAt
               longest == Max({r.worst, d})
    <2>1. s = [r EXCEPT !.recovered = r.recovered + 1, !.totalRec = r.totalRec + d,
                        !.worst = longest, !.inEvent = FALSE, !.last = size]
      <3>1. s = Recover(r, now, size)
        BY <1>10 DEF observe, s, size
      <3>2. r.totalRec + now - r.depletedAt = r.totalRec + d
        BY <1>1, <1>3
      <3> QED
        BY <3>1, <3>2 DEF Recover
    <2>2. longest = (IF r.worst >= d THEN r.worst ELSE d) /\ d \in Int
      BY <1>1, <1>3, MaxOfTwo, SMTT(30)
    <2>3. r.totalRec + d <= (r.recovered + 1) * longest
      <3>1. r.totalRec <= r.recovered * r.worst
        BY <1>2 DEF AddsUp, r
      <3>2. longest \in Int /\ longest >= r.worst /\ longest >= d
        BY <1>1, <2>2
      <3> HIDE DEF longest, d
      <3> QED
        BY <1>1, <2>2, <3>1, <3>2, TotalWithin
    <2>4. Below = r.totalRec + d
      BY <1>2c, <1>10 DEF d
    <2> HIDE DEF longest, d
    <2>5. longest \in Nat
      BY <1>1, <2>2
    <2>6. u = [r |-> [last |-> size, peak |-> r.peak, depletedAt |-> r.depletedAt,
                        inEvent |-> FALSE, events |-> r.events, recovered |-> r.recovered + 1,
                        totalRec |-> r.totalRec + d, worst |-> longest],
                 at |-> now, below |-> r.totalRec + d]
      BY <1>1, <1>2b, <2>1, <2>4
    <2>7. u \in WatchRecord
      <3>1. /\ size \in Nat /\ r.peak \in Nat /\ r.depletedAt \in Int /\ r.events \in Nat
            /\ r.recovered + 1 \in Nat /\ now \in Int
        BY <1>1, <1>3, <1>5, <1>10
      <3>2. r.totalRec + d \in Int
        BY <1>1, <2>2
      <3> QED
        BY <2>5, <2>6, <3>1, <3>2 DEF WatchRecord
    <2>8. AddsUp(u)
      <3>1. r.events = r.recovered + 1 /\ size >= r.peak \div 2 /\ size # 0
        BY <1>1, <1>2a, <1>5, <1>10
      <3> QED
        BY <1>1, <2>3, <2>6, <3>1 DEF AddsUp
    <2> QED
      BY <2>7, <2>8 DEF SoundWatches, u
  <1>11. CASE o.ladder # <<>> /\ r.last # 0 /\ r.inEvent /\ ~(size >= r.peak)
    <2>0. s = [r EXCEPT !.last = size]
      BY <1>11 DEF observe, s, size
    <2>1. u = [r |-> [last |-> size, peak |-> r.peak, depletedAt |-> r.depletedAt,
                        inEvent |-> r.inEvent, events |-> r.events, recovered |-> r.recovered,
                        totalRec |-> r.totalRec, worst |-> r.worst],
                 at |-> now, below |-> Below]
      BY <1>1, <1>2b, <2>0
    <2>2. u \in WatchRecord
      <3>1. size \in Nat /\ now \in Int /\ Below \in Int
        BY <1>1, <1>2b, <1>3, <1>5, <1>11
      <3> QED
        BY <1>1, <2>1, <3>1 DEF WatchRecord
    <2>3. AddsUp(u)
      BY <1>1, <1>2a, <1>2c, <1>5, <1>11, <2>1 DEF AddsUp, total
    <2> QED
      BY <2>2, <2>3 DEF SoundWatches, u
  <1> QED
    BY <1>1, <1>6, <1>7, <1>8, <1>9, <1>10, <1>11 DEF u

\* A sound watch is one whose recoveries add up.
LEMMA WatchAddsUp ==
  ASSUME watched \in SoundWatches
  PROVE  RecoveriesAddUp
  <1> DEFINE w == watched
             r == w.r
             open == IF r.inEvent THEN 1 ELSE 0
  <1>4. w \in SoundWatches
    OBVIOUS
  <1> SUFFICES /\ r.events = r.recovered + open
               /\ r.totalRec + open * (w.at - r.depletedAt) = w.below
               /\ mean(r) <= r.worst
               /\ IF r.inEvent THEN r.last < r.peak ELSE r.last >= r.peak \div 2
    BY DEF RecoveriesAddUp
  <1> HIDE DEF w
  <1>5. /\ r.last \in Nat /\ r.peak \in Nat /\ r.depletedAt \in Int /\ r.inEvent \in BOOLEAN
        /\ r.events \in Nat /\ r.recovered \in Nat /\ r.totalRec \in Int /\ r.worst \in Nat
        /\ w.at \in Int /\ w.below \in Int
    <2>1. w \in WatchRecord
      BY <1>4 DEF SoundWatches
    <2> QED
      BY <2>1 DEF WatchRecord
  <1>6. AddsUp(w)
    BY <1>4 DEF SoundWatches
  <1>7. mean(r) <= r.worst
    <2> HIDE DEF r
    <2>1. CASE r.recovered = 0
      BY <1>5, <2>1 DEF mean
    <2>2. CASE r.recovered # 0
      <3> DEFINE n == r.recovered
                 t == r.totalRec
                 x == r.worst
                 m == t \div n
                 nx == n * x
      <3>1. n \in Nat \ {0} /\ t \in Int /\ x \in Nat /\ t <= nx
        BY <1>5, <1>6, <2>2 DEF AddsUp, r
      <3> HIDE DEF n, t, x
      <3>2. m \in Int /\ m * n <= t
        BY <3>1
      <3>3. nx \in Nat
        BY <3>1
      <3> HIDE DEF m
      <3>4. CASE m > x
        <4>1. m >= x + 1
          BY <3>1, <3>2, <3>4
        <4>2. m * n >= (x + 1) * n
          BY <3>1, <3>2, <4>1
        <4>3. (x + 1) * n = nx + n
          BY <3>1
        <4> DEFINE mn == m * n
        <4>4. mn \in Int /\ mn <= t /\ mn >= nx + n
          BY <3>1, <3>2, <4>2, <4>3
        <4> HIDE DEF mn, nx
        <4> QED
          BY <3>1, <3>3, <4>4
      <3>5. m <= x
        BY <3>1, <3>2, <3>4
      <3> QED
        BY <2>2, <3>5 DEF mean, m, t, n, x
    <2> QED
      BY <2>1, <2>2
  <1>8. r.totalRec + open * (w.at - r.depletedAt) = w.below
    <2>1. w.below = IF r.inEvent THEN r.totalRec + (w.at - r.depletedAt) ELSE r.totalRec
      BY <1>6 DEF AddsUp
    <2> DEFINE d == w.at - r.depletedAt
    <2>2. d \in Int /\ 1 * d = d /\ 0 * d = 0
      BY <1>5
    <2> HIDE DEF d
    <2>3. CASE r.inEvent
      BY <2>1, <2>2, <2>3 DEF d
    <2>4. CASE ~r.inEvent
      BY <1>5, <2>1, <2>2, <2>4 DEF d
    <2> QED
      BY <2>3, <2>4
  <1>9. r.events = r.recovered + open
    BY <1>6 DEF AddsUp
  <1>10. IF r.inEvent THEN r.last < r.peak ELSE r.last >= r.peak \div 2
    BY <1>6 DEF AddsUp
  <1> QED
    BY <1>7, <1>8, <1>9, <1>10

\* No depletion is counted twice or forgotten and no recovery time is lost, whatever
\* ladders are observed at whatever times (cmd/tcastudy/main.go:379-419).
THEOREM EveryRecoveryCounts == ResilienceSpec => []RecoveriesAddUp
  <1>1. ResilienceInit => watched \in SoundWatches
    BY DEF ResilienceInit, Unwatched, NoResilience, SoundWatches, WatchRecord, AddsUp
  <1>2. watched \in SoundWatches /\ [ResilienceNext]_watched => (watched \in SoundWatches)'
    <2> SUFFICES ASSUME watched \in SoundWatches, NEW o \in Observations, ObserveNext(o)
                 PROVE  watched' \in SoundWatches
      BY DEF ResilienceNext
    <2>1. o \in Observation /\ watched' = Watch(watched, o)
      BY ObservationsAssumption DEF ObserveNext
    <2> QED
      BY <2>1, WatchKeeps
  <1>3. watched \in SoundWatches => RecoveriesAddUp
    BY WatchAddsUp
  <1> QED
    BY <1>1, <1>2, <1>3, PTL DEF ResilienceSpec

-----------------------------------------------------------------------------
(* The latency harness.                                                    *)

\* The loops of the harness are folds the laws are about.
LEMMA HarnessFolds ==
  ASSUME NEW b, NEW s
  PROVE  /\ FoldLeft(AddTime, b, s) = Times!Fold(b, s)
         /\ FoldLeft(Turn, b, s) = Turns!Fold(b, s)
         /\ FoldLeft(RecordValue, b, s) = Records!Fold(b, s)
         /\ FoldLeft(KeepDelayed, b, s) = Keeps!Fold(b, s)
  <1>1. FoldLeft(AddTime, b, s) = Times!Fold(b, s)
    BY DEF Times!Fold, FoldLeft, MapThenFoldSet, Times!MapThenFoldSet,
           Max, Times!Largest
  <1>2. FoldLeft(Turn, b, s) = Turns!Fold(b, s)
    BY DEF Turns!Fold, FoldLeft, MapThenFoldSet, Turns!MapThenFoldSet,
           Max, Turns!Largest
  <1>3. FoldLeft(RecordValue, b, s) = Records!Fold(b, s)
    BY DEF Records!Fold, FoldLeft, MapThenFoldSet, Records!MapThenFoldSet,
           Max, Records!Largest
  <1>4. FoldLeft(KeepDelayed, b, s) = Keeps!Fold(b, s)
    BY DEF Keeps!Fold, FoldLeft, MapThenFoldSet, Keeps!MapThenFoldSet,
           Max, Keeps!Largest
  <1> QED
    BY <1>1, <1>2, <1>3, <1>4

\* Times add up.
LEMMA TimesAppend ==
  ASSUME NEW s \in Seq(Nat), NEW t \in Nat
  PROVE  /\ FoldLeft(AddTime, 0, s) \in Nat /\ FoldLeft(AddTime, 0, <<>>) = 0
         /\ FoldLeft(AddTime, 0, Append(s, t)) = FoldLeft(AddTime, 0, s) + t
  <1> DEFINE V == Nat
             D == Nat
             b == 0
  <1>1. b \in V
    OBVIOUS
  <1>1a. \A v \in V, d \in D : AddTime(v, d) \in V
    BY DEF AddTime
  <1>2. s \in Seq(D)
    OBVIOUS
  <1>2a. t \in D
    OBVIOUS
  <1> HIDE DEF V, D, b
  <1>3. Times!Fold(b, s) \in V
    BY <1>1, <1>1a, <1>2, Times!FoldType
  <1>4. Times!Fold(b, Append(s, t)) = AddTime(Times!Fold(b, s), t)
    <2>1. \A v \in V, d \in Nat : AddTime(v, d) \in V
      BY <1>1a DEF D
    <2> QED
      BY <1>1, <2>1, Times!FoldAppend
  <1>5. Times!Fold(b, <<>>) = b
    BY Times!FoldEmpty
  <1> QED
    BY <1>3, <1>4, <1>5, HarnessFolds DEF AddTime, V, b

\* One event later the work since event k overruns by its time more and an interval less.
LEMMA OverrunStep ==
  ASSUME NEW took \in Seq(Nat), NEW i \in 1..Len(took), NEW k \in 1..i
  PROVE  /\ Overrun(took, k, i) \in Int
         /\ k = i => Overrun(took, k, i) = took[i]
         /\ k < i => Overrun(took, k, i) = Overrun(took, k, i - 1) - Interval + took[i]
  <1> DEFINE s == SubSeq(took, k, i - 1)
             t == took[i]
             d == i - k
             o == d * Interval
             p == ((i - 1) - k) * Interval
  <1>1. /\ k \in 1..Len(took) /\ i \in k..Len(took) /\ k \in Int /\ i - 1 \in Int
        /\ \A j \in k..(i - 1) : took[j] \in Nat
    OBVIOUS
  <1>2. s \in Seq(Nat) /\ t \in Nat
    BY <1>1, SubSeqProperties
  <1>3. SubSeq(took, k, i) = Append(s, t)
    <2>1. SubSeq(took, k, i) = s \o <<t>>
      BY <1>1, SubSeqRecursiveSecond
    <2> HIDE DEF s, t
    <2>2. Append(s, t) = s \o <<t>>
      BY <1>2, AppendIsConcat
    <2> QED
      BY <2>1, <2>2
  <1>4. Overrun(took, k, i) = (FoldLeft(AddTime, 0, s) + t) - o
    <2> DEFINE g == FoldLeft(AddTime, 0, SubSeq(took, k, i))
    <2>1. Overrun(took, k, i) = g - o
      BY DEF Overrun
    <2> HIDE DEF s, t, o
    <2>2. g = FoldLeft(AddTime, 0, s) + t
      BY <1>2, <1>3, TimesAppend
    <2> HIDE DEF g
    <2> QED
      BY <2>1, <2>2
  <1>5. o \in Int /\ p \in Int /\ (k < i => o = p + Interval) /\ (k = i => o = 0)
        /\ Interval \in Int
    <2>1. Interval \in Int /\ d \in Nat
      BY BenchAssumption
    <2>2. o \in Int
      BY <2>1
    <2>3. k < i => (d - 1 \in Nat /\ (i - 1) - k = d - 1)
      OBVIOUS
    <2>4. k = i => d = 0
      OBVIOUS
    <2>5. d - 1 \in Int /\ (i - 1) - k = d - 1
      OBVIOUS
    <2> HIDE DEF d
    <2>6. (d - 1) * Interval = d * Interval - Interval /\ 0 * Interval = 0
      BY <2>1
    <2> QED
      BY <2>1, <2>2, <2>4, <2>5, <2>6
  <1>6. Overrun(took, k, i - 1) = FoldLeft(AddTime, 0, s) - p
    BY DEF Overrun
  <1>7. FoldLeft(AddTime, 0, s) \in Nat /\ FoldLeft(AddTime, 0, <<>>) = 0
    <2> HIDE DEF s
    <2> QED
      BY <1>2, TimesAppend
  <1>8. k = i => s = <<>>
    BY <1>1, SubSeqEmpty
  <1> DEFINE f == FoldLeft(AddTime, 0, s)
  <1> HIDE DEF o, p, f, s, t
  <1> QED
    <2>1. Overrun(took, k, i) = (f + t) - o /\ Overrun(took, k, i - 1) = f - p
          /\ f \in Nat /\ (k = i => f = 0) /\ t \in Nat /\ t = took[i]
      BY <1>2, <1>4, <1>6, <1>7, <1>8 DEF f, t
    <2> DEFINE x == Overrun(took, k, i)
               y == Overrun(took, k, i - 1)
    <2>2. x = (f + t) - o /\ y = f - p
      BY <2>1
    <2> HIDE DEF d, x, y
    <2>3. x \in Int
      BY <1>5, <2>1, <2>2
    <2>4. CASE k = i
      <3>1. x = t
        BY <1>5, <2>1, <2>2, <2>4
      <3> QED
        BY <2>1, <2>3, <2>4, <3>1 DEF x
    <2>5. CASE k < i
      <3>1. x = y - Interval + t
        BY <1>5, <2>1, <2>2, <2>5
      <3> QED
        BY <2>1, <2>3, <2>5, <3>1 DEF x, y
    <2> QED
      BY <2>4, <2>5

\* v is the largest overrun at event i.
IsOpenLoop(took, i, v) ==
  /\ v \in Nat
  /\ \E k \in 1..i : v = Overrun(took, k, i)
  /\ \A k \in 1..i : Overrun(took, k, i) <= v

\* What is left of a latency an interval later.
Backlog(v) == IF v >= Interval THEN v - Interval ELSE 0

LEMMA OpenLoopIs ==
  ASSUME NEW took \in Seq(Nat), NEW i \in 1..Len(took), NEW v, IsOpenLoop(took, i, v)
  PROVE  OpenLoop(took, i) = v
  <1> DEFINE S == {Overrun(took, k, i) : k \in 1..i}
  <1>1. \A x \in S : x \in Int
    BY OverrunStep
  <1>2. v \in S /\ \A x \in S : x <= v
    BY DEF IsOpenLoop
  <1>3. OpenLoop(took, i) = Max(S)
    BY DEF OpenLoop
  <1> HIDE DEF S
  <1>4. v \in S /\ \A x \in S : v >= x
    BY <1>1, <1>2
  <1>5. Max(S) \in S /\ \A x \in S : Max(S) >= x
    BY <1>4 DEF Max
  <1> QED
    BY <1>1, <1>3, <1>4, <1>5

\* The open-loop latency of each event: the backlog of the one before and its own time.
LEMMA OpenLoopStep ==
  ASSUME NEW took \in Seq(Nat), took # <<>>
  PROVE  /\ \A i \in 1..Len(took) : OpenLoop(took, i) \in Nat
         /\ OpenLoop(took, 1) = took[1]
         /\ \A i \in 2..Len(took) : OpenLoop(took, i) = Backlog(OpenLoop(took, i - 1)) + took[i]
  <1> DEFINE n == Len(took)
  <1>1. n \in Nat \ {0} /\ \A i \in 1..n : took[i] \in Nat
    OBVIOUS
  <1>2. IsOpenLoop(took, 1, took[1])
    <2>1. Overrun(took, 1, 1) = took[1]
      BY <1>1, OverrunStep
    <2>2. took[1] \in Nat /\ 1..1 = {1}
      BY <1>1
    <2> QED
      BY <2>1, <2>2 DEF IsOpenLoop
  <1>3. ASSUME NEW i \in 2..n, NEW v, IsOpenLoop(took, i - 1, v)
        PROVE  IsOpenLoop(took, i, Backlog(v) + took[i])
    <2> DEFINE t == took[i]
    <2>1. /\ i \in 1..n /\ i - 1 \in 1..n /\ t \in Nat /\ v \in Nat
          /\ \A k \in 1..i : k \in 1..(i - 1) \/ k = i
      BY <1>1, <1>3 DEF IsOpenLoop
    <2>2. Overrun(took, i, i) = t
      BY <2>1, OverrunStep
    <2>3. ASSUME NEW k \in 1..(i - 1)
          PROVE  /\ Overrun(took, k, i - 1) \in Int
                 /\ Overrun(took, k, i) = Overrun(took, k, i - 1) - Interval + t
      <3>1. k \in 1..i /\ k < i
        OBVIOUS
      <3> HIDE DEF n
      <3>2. Overrun(took, k, i) = Overrun(took, k, i - 1) - Interval + t
        BY <2>1, <3>1, OverrunStep DEF n
      <3>3. Overrun(took, k, i - 1) \in Int
        BY <2>1, OverrunStep DEF n
      <3> QED
        BY <3>2, <3>3
    <2>4. Interval \in Nat \ {0}
      BY BenchAssumption
    <2>5. /\ \E k \in 1..(i - 1) : v = Overrun(took, k, i - 1)
          /\ \A k \in 1..(i - 1) : Overrun(took, k, i - 1) <= v
      BY <1>3 DEF IsOpenLoop
    <2> DEFINE w == Backlog(v) + t
    <2>6. w \in Nat /\ w = IF v >= Interval THEN v - Interval + t ELSE t
      BY <2>1, <2>4 DEF Backlog
    <2> HIDE DEF w, t
    <2>7. \A k \in 1..i : Overrun(took, k, i) <= w
      <3> SUFFICES ASSUME NEW k \in 1..i
                   PROVE  Overrun(took, k, i) <= w
        OBVIOUS
      <3>1. CASE k \in 1..(i - 1)
        <4> DEFINE x == Overrun(took, k, i - 1)
        <4>1. x \in Int /\ x <= v /\ Overrun(took, k, i) = x - Interval + t
          BY <2>3, <2>5, <3>1
        <4> HIDE DEF x
        <4> QED
          BY <2>1, <2>4, <2>6, <4>1
      <3>2. CASE k = i
        BY <2>1, <2>2, <2>4, <2>6, <3>2
      <3> QED
        BY <2>1, <3>1, <3>2
    <2>8. \E k \in 1..i : w = Overrun(took, k, i)
      <3>1. CASE v >= Interval
        <4>1. PICK k \in 1..(i - 1) : v = Overrun(took, k, i - 1)
          BY <2>5
        <4>2. k \in 1..i
          OBVIOUS
        <4>3. w = Overrun(took, k, i)
          BY <2>3, <2>6, <3>1, <4>1
        <4> QED
          BY <4>2, <4>3
      <3>2. CASE ~(v >= Interval)
        <4>1. i \in 1..i /\ w = Overrun(took, i, i)
          BY <2>2, <2>6, <3>2
        <4> QED
          BY <4>1
      <3> QED
        BY <3>1, <3>2
    <2> QED
      BY <2>6, <2>7, <2>8 DEF IsOpenLoop, w, t
  <1> DEFINE T == {k \in Nat : k + 1 <= n => \E v : IsOpenLoop(took, k + 1, v)}
  <1>4. 0 \in T
    <2>1. 0 + 1 = 1
      OBVIOUS
    <2> QED
      BY <1>2, <2>1
  <1>5. ASSUME NEW k \in Nat, k \in T
        PROVE  k + 1 \in T
    <2> SUFFICES ASSUME (k + 1) + 1 <= n
                 PROVE  \E v : IsOpenLoop(took, (k + 1) + 1, v)
      OBVIOUS
    <2>1. (k + 1) + 1 \in 2..n /\ ((k + 1) + 1) - 1 = k + 1 /\ k + 1 <= n
      BY <1>1
    <2>2. PICK v : IsOpenLoop(took, k + 1, v)
      BY <1>5, <2>1
    <2> QED
      BY <1>3, <2>1, <2>2
  <1>6. ASSUME NEW i \in 1..n
        PROVE  \E v : IsOpenLoop(took, i, v)
    <2>1. i - 1 \in Nat /\ (i - 1) + 1 = i /\ i <= n
      BY <1>1
    <2>2. Nat \subseteq T
      <3> HIDE DEF T
      <3> QED
        BY <1>4, <1>5, Times!NaturalInduction
    <2>3. i - 1 \in T
      BY <2>1, <2>2
    <2> QED
      BY <2>1, <2>3
  <1>7. ASSUME NEW i \in 1..n
        PROVE  IsOpenLoop(took, i, OpenLoop(took, i))
    BY <1>6, OpenLoopIs
  <1>8. ASSUME NEW i \in 2..n
        PROVE  OpenLoop(took, i) = Backlog(OpenLoop(took, i - 1)) + took[i]
    <2>1. i - 1 \in 1..n /\ i \in 1..n
      BY <1>1
    <2>2. IsOpenLoop(took, i - 1, OpenLoop(took, i - 1))
      BY <1>7, <2>1
    <2>3. IsOpenLoop(took, i, Backlog(OpenLoop(took, i - 1)) + took[i])
      BY <1>3, <2>2
    <2> QED
      BY <2>1, <2>3, OpenLoopIs
  <1>9. OpenLoop(took, 1) = took[1]
    <2>1. 1 \in 1..n
      BY <1>1
    <2> QED
      BY <1>2, <2>1, OpenLoopIs
  <1>10. \A i \in 1..n : OpenLoop(took, i) \in Nat
    BY <1>7 DEF IsOpenLoop
  <1> QED
    BY <1>8, <1>9, <1>10

\* A run of the harness in one mode.
Runs(m) == [mode : {m}, n : Nat, clock : Nat, hist : Seq(Int), dropped : Nat]

\* The same run with other recordings.
LikeRun(m, run) == {r \in Runs(m) : r.n = run.n /\ r.clock = run.clock}

\* A value is recorded, or counted as dropped.
LEMMA OneRecord ==
  ASSUME NEW m, NEW run, NEW r \in LikeRun(m, run), NEW v \in Int
  PROVE  LET s == RecordValue(r, v)
         IN /\ s \in LikeRun(m, run)
            /\ v <= Trackable => s.dropped = r.dropped /\ s.hist = Append(r.hist, v)
            /\ ~(v <= Trackable) => s.dropped = r.dropped + 1 /\ s.hist = r.hist
  <1>1. /\ r = [mode |-> r.mode, n |-> r.n, clock |-> r.clock, hist |-> r.hist,
                dropped |-> r.dropped]
        /\ r.mode = m /\ r.n \in Nat /\ r.clock \in Nat /\ r.hist \in Seq(Int) /\ r.dropped \in Nat
        /\ r.n = run.n /\ r.clock = run.clock
    BY DEF LikeRun, Runs
  <1>2. Trackable \in Nat
    BY BenchAssumption
  <1>3. CASE v <= Trackable
    <2>1. RecordValue(r, v) = [mode |-> r.mode, n |-> r.n, clock |-> r.clock,
                               hist |-> Append(r.hist, v), dropped |-> r.dropped]
      <3>1. ~(v > Trackable)
        BY <1>2, <1>3
      <3>2. RecordValue(r, v) = [r EXCEPT !.hist = Append(r.hist, v)]
        BY <3>1 DEF RecordValue
      <3> DEFINE h == Append(r.hist, v)
      <3> HIDE DEF h
      <3>3. [r EXCEPT !.hist = h] = [mode |-> r.mode, n |-> r.n, clock |-> r.clock,
                                     hist |-> h, dropped |-> r.dropped]
        BY <1>1
      <3> QED
        BY <3>2, <3>3 DEF h
    <2>2. Append(r.hist, v) \in Seq(Int)
      BY <1>1
    <2> QED
      BY <1>1, <1>3, <2>1, <2>2 DEF LikeRun, Runs
  <1>4. CASE ~(v <= Trackable)
    <2>1. RecordValue(r, v) = [mode |-> r.mode, n |-> r.n, clock |-> r.clock,
                               hist |-> r.hist, dropped |-> r.dropped + 1]
      BY <1>1, <1>2, <1>4 DEF RecordValue
    <2> QED
      BY <1>1, <1>4, <2>1 DEF LikeRun, Runs
  <1> QED
    BY <1>3, <1>4

LEMMA RecordOf ==
  ASSUME NEW m, NEW r \in Runs(m), NEW v \in Int
  PROVE  /\ v <= Trackable => /\ RecordValue(r, v).dropped = r.dropped
                              /\ RecordValue(r, v).hist = Append(r.hist, v)
         /\ ~(v <= Trackable) => /\ RecordValue(r, v).dropped = r.dropped + 1
                                 /\ RecordValue(r, v).hist = r.hist
  <1>1. /\ r = [mode |-> r.mode, n |-> r.n, clock |-> r.clock, hist |-> r.hist,
                dropped |-> r.dropped]
        /\ Trackable \in Nat
    BY BenchAssumption DEF Runs
  <1>2. CASE v <= Trackable
    <2>1. RecordValue(r, v) = [r EXCEPT !.hist = Append(r.hist, v)]
      BY <1>1, <1>2 DEF RecordValue
    <2> QED
      BY <1>1, <1>2, <2>1
  <1>3. CASE ~(v <= Trackable)
    <2>1. RecordValue(r, v) = [r EXCEPT !.dropped = r.dropped + 1]
      BY <1>1, <1>3 DEF RecordValue
    <2> QED
      BY <1>1, <1>3, <2>1
  <1> QED
    BY <1>2, <1>3

\* The values the corrected mode records, v and what is left of it after each interval.
Stair(v, k) == [i \in 1..k |-> v - (i - 1) * Interval]

LEMMA StairStep ==
  ASSUME NEW v \in Int, NEW k \in Nat
  PROVE  /\ Stair(v, k) \in Seq(Int) /\ Len(Stair(v, k)) = k /\ Stair(v, 0) = <<>>
         /\ \A i \in 1..k : Stair(v, k)[i] = v - (i - 1) * Interval
         /\ Append(Stair(v, k), v - k * Interval) = Stair(v, k + 1)
  <1>1. Interval \in Int
    BY BenchAssumption
  <1>2. \A i \in Int : v - (i - 1) * Interval \in Int
    BY <1>1
  <1> DEFINE f(i) == v - (i - 1) * Interval
             s == Stair(v, k)
             t == Stair(v, k + 1)
             e == v - k * Interval
  <1>3. s = [i \in 1..k |-> f(i)] /\ t = [i \in 1..(k + 1) |-> f(i)]
    BY DEF Stair
  <1>4. \A i \in Int : f(i) \in Int
    BY <1>2
  <1>5. e = f(k + 1)
    BY <1>1
  <1>6. Stair(v, 0) = <<>>
    BY DEF Stair
  <1>7. \A i \in 1..k : s[i] = v - (i - 1) * Interval
    BY DEF Stair
  <1> HIDE DEF f, s, t, e
  <1>8. s \in Seq(Int) /\ Len(s) = k
    BY <1>3, <1>4
  <1>9. Append(s, e) = t
    <2>1. e \in Int /\ Append(s, e) \in Seq(Int) /\ Len(Append(s, e)) = k + 1
      <3>1. e \in Int
        BY <1>4, <1>5
      <3> QED
        BY <1>8, <3>1, AppendProperties
    <2>2. t \in Seq(Int) /\ Len(t) = k + 1
      BY <1>3, <1>4
    <2>3. \A i \in 1..(k + 1) : Append(s, e)[i] = t[i]
      <3> SUFFICES ASSUME NEW i \in 1..(k + 1)
                   PROVE  Append(s, e)[i] = t[i]
        OBVIOUS
      <3>1. CASE i = k + 1
        BY <1>3, <1>5, <1>8, <2>1, <3>1
      <3>2. CASE i \in 1..k
        BY <1>3, <1>8, <2>1, <3>2
      <3>3. i = k + 1 \/ i \in 1..k
        OBVIOUS
      <3> QED
        BY <3>1, <3>2, <3>3
    <2> DEFINE a == Append(s, e)
    <2> HIDE DEF a
    <2> QED
      BY <2>1, <2>2, <2>3 DEF a
  <1> QED
    BY <1>6, <1>7, <1>8, <1>9 DEF s, t, e

\* Recording with correction records the values of a stair, and nothing else changes.
LEMMA CorrectedRun ==
  ASSUME NEW m, NEW run \in Runs(m), NEW v \in Nat
  PROVE  LET k == IF v > Trackable THEN 0 ELSE Max({0, (v \div Interval) - 1})
         IN /\ k \in Nat
            /\ RecordCorrectedValue(run, v) \in LikeRun(m, run)
            /\ \E g : Records!IsRun(g, LikeRun(m, run), run, Stair(v, k + 1))
                      /\ g[k + 1] = RecordCorrectedValue(run, v)
  <1> DEFINE k == IF v > Trackable THEN 0 ELSE Max({0, (v \div Interval) - 1})
             s == Stair(v, k + 1)
             V == LikeRun(m, run)
  <1>1. k \in Nat
    <2> DEFINE x == v \div Interval
    <2>1. x \in Nat
      BY BenchAssumption
    <2> HIDE DEF x
    <2>2. Max({0, x - 1}) \in Nat
      BY <2>1, MaxOfTwo
    <2> QED
      BY <2>2 DEF x
  <1>2. RecordCorrectedValue(run, v) = FoldLeft(RecordValue, run, s)
    BY DEF RecordCorrectedValue, Stair
  <1> HIDE DEF k
  <1>3. s \in Seq(Int) /\ Len(s) = k + 1
    BY <1>1, StairStep
  <1>4. run \in V
    BY DEF LikeRun
  <1>5. \A r \in V, x \in Int : RecordValue(r, x) \in V
    BY OneRecord
  <1>6. FoldLeft(RecordValue, run, s) \in V
        /\ \E g : Records!IsRun(g, V, run, s) /\ g[k + 1] = FoldLeft(RecordValue, run, s)
    <2> HIDE DEF V, s
    <2>1. \E g : Records!IsRun(g, V, run, s) /\ g[Len(s)] = Records!Fold(run, s)
      BY <1>3, <1>4, <1>5, Records!FoldRun
    <2>2. Records!Fold(run, s) \in V
      BY <1>3, <1>4, <1>5, Records!FoldType
    <2> QED
      BY <1>3, <2>1, <2>2, HarnessFolds
  <1> QED
    BY <1>1, <1>2, <1>6 DEF k

\* When an event is taken up, by how much it is late.
LEMMA WaitFor ==
  ASSUME NEW d \in Nat, NEW c \in Nat
  PROVE  waitUntil(d, c) = IF d >= c THEN d ELSE c
  BY MaxOfTwo DEF waitUntil

\* One turn of the loop.
LEMMA OneTurn ==
  ASSUME NEW m, NEW run \in Runs(m), NEW t \in Nat
  PROVE  LET due == run.n * Interval
             t0 == IF due >= run.clock THEN due ELSE run.clock
             done == [run EXCEPT !.n = run.n + 1, !.clock = t0 + t]
         IN /\ done \in Runs(m) /\ due \in Nat /\ t0 \in Nat
            /\ Turn(run, t) = IF m = "corrected" THEN RecordCorrectedValue(done, t)
                              ELSE RecordValue(done, (t0 + t) - due)
            /\ Turn(run, t) \in LikeRun(m, done)
  <1> DEFINE due == run.n * Interval
             t0 == IF due >= run.clock THEN due ELSE run.clock
             done == [run EXCEPT !.n = run.n + 1, !.clock = t0 + t]
  <1>1. /\ run = [mode |-> run.mode, n |-> run.n, clock |-> run.clock, hist |-> run.hist,
                  dropped |-> run.dropped]
        /\ run.mode = m /\ run.n \in Nat /\ run.clock \in Nat /\ run.hist \in Seq(Int)
        /\ run.dropped \in Nat
    BY DEF Runs
  <1>2. due \in Nat /\ scheduled(run.n + 1, run.clock) = due
    <2>1. (run.n + 1) - 1 = run.n
      BY <1>1
    <2>2. Interval \in Nat
      BY BenchAssumption
    <2>3. due \in Nat
      BY <1>1, <2>2
    <2> QED
      BY <2>1, <2>3 DEF scheduled
  <1> HIDE DEF due
  <1>3. t0 \in Nat /\ waitUntil(due, run.clock) = t0
    BY <1>1, <1>2, WaitFor
  <1> HIDE DEF t0
  <1>4. done = [mode |-> m, n |-> run.n + 1, clock |-> t0 + t, hist |-> run.hist,
                dropped |-> run.dropped]
    <2> DEFINE x == run.n + 1
               y == t0 + t
               h == run.hist
               e == run.dropped
               c == run.clock
               k == run.n
               o == run.mode
    <2>1. run = [mode |-> o, n |-> k, clock |-> c, hist |-> h, dropped |-> e]
      BY <1>1
    <2> HIDE DEF x, y, h, e, c, k, o
    <2>2. [run EXCEPT !.n = x, !.clock = y] = [mode |-> o, n |-> x, clock |-> y,
                                               hist |-> h, dropped |-> e]
      <3> DEFINE r == [run EXCEPT !.n = x]
      <3>1. r = [mode |-> o, n |-> x, clock |-> c, hist |-> h, dropped |-> e]
        BY <2>1
      <3>2. [run EXCEPT !.n = x, !.clock = y] = [r EXCEPT !.clock = y]
        OBVIOUS
      <3> HIDE DEF r
      <3>3. [r EXCEPT !.clock = y] = [mode |-> o, n |-> x, clock |-> y, hist |-> h, dropped |-> e]
        BY <3>1
      <3> QED
        BY <3>2, <3>3
    <2> QED
      BY <1>1, <2>2 DEF x, y, h, e, o
  <1>5. done \in Runs(m)
    BY <1>1, <1>3, <1>4 DEF Runs
  <1>6. Turn(run, t) = IF m = "corrected" THEN RecordCorrectedValue(done, t)
                       ELSE RecordValue(done, (t0 + t) - due)
    <2>1. done.clock = t0 + t
      BY <1>4
    <2> QED
      BY <1>1, <1>2, <1>3, <2>1 DEF Turn
  <1> HIDE DEF done
  <1>7. Turn(run, t) \in LikeRun(m, done)
    <2>1. CASE m = "corrected"
      BY <1>5, <1>6, <2>1, CorrectedRun
    <2>2. CASE m # "corrected"
      <3>1. done \in LikeRun(m, done) /\ (t0 + t) - due \in Int
        BY <1>2, <1>3, <1>5 DEF LikeRun
      <3> QED
        BY <1>6, <2>2, <3>1, OneRecord
    <2> QED
      BY <2>1, <2>2
  <1> QED
    BY <1>2, <1>3, <1>5, <1>6, <1>7 DEF due, t0, done

\* The run after each event.
LEMMA TurnRun ==
  ASSUME NEW m, NEW took \in Seq(Nat)
  PROVE  \E g : Turns!IsRun(g, Runs(m), Start(m), took)
                /\ g[Len(took)] = FoldLeft(Turn, Start(m), took)
  <1> DEFINE V == Runs(m)
             b == Start(m)
  <1>1. b \in V
    BY DEF Start, Runs
  <1>2. \A r \in V, t \in Nat : Turn(r, t) \in V
    BY OneTurn DEF LikeRun
  <1> HIDE DEF V, b
  <1>3. \E g : Turns!IsRun(g, V, b, took) /\ g[Len(took)] = Turns!Fold(b, took)
    BY <1>1, <1>2, Turns!FoldRun
  <1> QED
    BY <1>3, HarnessFolds DEF V, b

\* In the intended mode every event's open-loop latency is recorded, or dropped.
LEMMA IntendedRun ==
  ASSUME NEW took \in Seq(Nat), took # <<>>
  PROVE  LET run == FoldLeft(Turn, Start("intended"), took)
             n == Len(took)
         IN /\ run.dropped = 0 <=> \A i \in 1..n : OpenLoop(took, i) <= Trackable
            /\ run.dropped = 0 => run.hist = [i \in 1..n |-> OpenLoop(took, i)]
  <1> DEFINE n == Len(took)
             m == "intended"
             o(i) == OpenLoop(took, i)
             w == FoldLeft(Turn, Start(m), took)
  <1>1. PICK g : Turns!IsRun(g, Runs(m), Start(m), took) /\ g[n] = w
    BY TurnRun
  <1>2. /\ g \in [0..n -> Runs(m)] /\ g[0] = Start(m)
        /\ \A i \in 1..n : g[i] = Turn(g[i - 1], took[i])
    BY <1>1 DEF Turns!IsRun
  <1>3. n \in Nat \ {0} /\ \A i \in 1..n : took[i] \in Nat
    OBVIOUS
  <1>4. /\ \A i \in 1..n : o(i) \in Nat
        /\ o(1) = took[1]
        /\ \A i \in 2..n : o(i) = Backlog(o(i - 1)) + took[i]
    BY OpenLoopStep
  <1>5. Interval \in Nat \ {0} /\ Trackable \in Nat
    BY BenchAssumption
  <1> HIDE DEF o, w
  <1> DEFINE Good(k) ==
               /\ g[k].n = k
               /\ g[k].clock = IF k = 0 THEN 0 ELSE (k - 1) * Interval + o(k)
               /\ g[k].dropped = 0 <=> \A i \in 1..k : o(i) <= Trackable
               /\ g[k].dropped = 0 => g[k].hist = [i \in 1..k |-> o(i)]
             T == {k \in Nat : k <= n => Good(k)}
  <1>6. 0 \in T
    <2>1. /\ g[0].n = 0 /\ g[0].clock = 0 /\ g[0].dropped = 0 /\ g[0].hist = <<>>
      BY <1>2 DEF Start
    <2>2. <<>> = [i \in 1..0 |-> o(i)]
      OBVIOUS
    <2> QED
      BY <2>1, <2>2
  <1>7. ASSUME NEW k \in Nat, k \in T
        PROVE  k + 1 \in T
    <2> SUFFICES ASSUME k + 1 <= n
                 PROVE  Good(k + 1)
      OBVIOUS
    <2> DEFINE r == g[k]
               s == g[k + 1]
               t == took[k + 1]
               due == r.n * Interval
               t0 == IF due >= r.clock THEN due ELSE r.clock
               done == [r EXCEPT !.n = r.n + 1, !.clock = t0 + t]
    <2>1. Good(k) /\ k \in 0..n /\ k + 1 \in 1..n /\ (k + 1) - 1 = k
      BY <1>3, <1>7
    <2>2. r \in Runs(m) /\ t \in Nat /\ s = Turn(r, t)
      BY <1>2, <1>3, <2>1
    <2>2a. r.n = k /\ r.clock \in Nat /\ r.dropped \in Nat /\ r.hist \in Seq(Int)
      BY <2>1, <2>2 DEF Runs
    <2>3. /\ done \in Runs(m) /\ due \in Nat /\ t0 \in Nat
          /\ s = RecordValue(done, (t0 + t) - due)
          /\ s \in LikeRun(m, done)
      <3> HIDE DEF r, t, s, m
      <3>1. /\ done \in Runs(m) /\ due \in Nat /\ t0 \in Nat
            /\ Turn(r, t) = IF m = "corrected" THEN RecordCorrectedValue(done, t)
                            ELSE RecordValue(done, (t0 + t) - due)
            /\ Turn(r, t) \in LikeRun(m, done)
        BY <2>2, OneTurn
      <3>2. m # "corrected"
        BY DEF m
      <3> QED
        BY <2>2, <3>1, <3>2
    <2>4. due = k * Interval
      BY <2>2a
    <2>5. /\ done.n = k + 1 /\ done.clock = t0 + t /\ done.dropped = r.dropped
          /\ done.hist = r.hist
      <3>1. r = [mode |-> r.mode, n |-> r.n, clock |-> r.clock, hist |-> r.hist,
                 dropped |-> r.dropped]
        BY <2>2 DEF Runs
      <3> DEFINE x == r.n + 1
                 y == t0 + t
      <3>2. x = k + 1
        BY <2>2a
      <3> HIDE DEF x, y, r
      <3>3. /\ [r EXCEPT !.n = x, !.clock = y].n = x /\ [r EXCEPT !.n = x, !.clock = y].clock = y
            /\ [r EXCEPT !.n = x, !.clock = y].dropped = r.dropped
            /\ [r EXCEPT !.n = x, !.clock = y].hist = r.hist
        BY <3>1
      <3> QED
        BY <3>2, <3>3 DEF x, y
    <2>6. (t0 + t) - due = o(k + 1) /\ t0 + t = due + o(k + 1)
      <3> HIDE DEF r, t0, t, due
      <3>1. CASE k = 0
        <4>1. due = 0
          BY <1>5, <2>4, <3>1
        <4>2. t0 = 0
          BY <2>1, <3>1, <4>1 DEF t0, r
        <4>3. o(k + 1) = t /\ t \in Nat
          BY <1>4, <2>2, <3>1 DEF t
        <4> QED
          BY <4>1, <4>2, <4>3
      <3>2. CASE k # 0
        <4> DEFINE p == (k - 1) * Interval
                   x == o(k)
                   y == k * Interval
        <4>1. y = p + Interval /\ p \in Nat
          <5>1. k - 1 \in Nat
            BY <3>2
          <5>2. p \in Nat
            BY <1>5, <5>1
          <5> QED
            BY <1>5, <5>2
        <4>2. x \in Nat /\ r.clock = p + x
          BY <1>4, <2>1, <3>2 DEF r
        <4>3. o(k + 1) = Backlog(x) + t /\ t \in Nat
          <5>1. k + 1 \in 2..n
            BY <1>3, <2>1, <3>2
          <5> QED
            BY <1>4, <2>1, <2>2, <5>1 DEF t
        <4> HIDE DEF p, x, y
        <4>4. due = p + Interval
          BY <2>4, <4>1 DEF y
        <4>5. t0 = (IF due >= r.clock THEN due ELSE r.clock)
          BY DEF t0
        <4>6. CASE x >= Interval
          <5>1. t0 = p + x
            BY <1>5, <4>1, <4>2, <4>4, <4>5, <4>6
          <5>2. o(k + 1) = (x - Interval) + t
            BY <4>3, <4>6 DEF Backlog
          <5> QED
            BY <1>5, <4>1, <4>2, <4>3, <4>4, <5>1, <5>2
        <4>7. CASE ~(x >= Interval)
          <5>1. t0 = due
            BY <1>5, <4>1, <4>2, <4>4, <4>5, <4>7
          <5>2. o(k + 1) = 0 + t
            BY <4>3, <4>7 DEF Backlog
          <5> QED
            BY <1>5, <4>1, <4>2, <4>3, <4>4, <5>1, <5>2
        <4> QED
          BY <4>6, <4>7
      <3> QED
        BY <3>1, <3>2
    <2>7. o(k + 1) \in Int /\ o(k + 1) \in Nat
      BY <1>4, <2>1
    <2>8. /\ (o(k + 1) <= Trackable => s.dropped = done.dropped
                                       /\ s.hist = Append(done.hist, o(k + 1)))
          /\ (~(o(k + 1) <= Trackable) => s.dropped = done.dropped + 1)
          /\ s.n = done.n /\ s.clock = done.clock
      <3> HIDE DEF done, t0, due, t, s, m
      <3>1. done \in LikeRun(m, done)
        BY <2>3 DEF LikeRun
      <3>2. s = RecordValue(done, o(k + 1))
        BY <2>3, <2>6
      <3>3. s.n = done.n /\ s.clock = done.clock
        BY <2>3 DEF LikeRun
      <3> DEFINE v == o(k + 1)
      <3>4. v \in Int /\ s = RecordValue(done, v)
        BY <2>7, <3>2
      <3> HIDE DEF v
      <3>5. /\ (v <= Trackable => s.dropped = done.dropped /\ s.hist = Append(done.hist, v))
            /\ (~(v <= Trackable) => s.dropped = done.dropped + 1)
        <4> DEFINE x == RecordValue(done, v)
        <4>1. /\ v <= Trackable => x.dropped = done.dropped /\ x.hist = Append(done.hist, v)
              /\ ~(v <= Trackable) => x.dropped = done.dropped + 1 /\ x.hist = done.hist
          BY <2>3, <3>4, RecordOf
        <4>2. s = x
          BY <3>4
        <4> HIDE DEF x
        <4> QED
          BY <4>1, <4>2
      <3> QED
        BY <3>3, <3>5 DEF v
    <2> HIDE DEF r, s, t, due, t0, done
    <2>9. s.n = k + 1 /\ s.clock = ((k + 1) - 1) * Interval + o(k + 1)
      BY <2>1, <2>4, <2>5, <2>6, <2>8
    <2>10. r.dropped = 0 <=> \A i \in 1..k : o(i) <= Trackable
      BY <2>1 DEF r
    <2>11. s.dropped = 0 <=> \A i \in 1..(k + 1) : o(i) <= Trackable
      <3>1. (\A i \in 1..(k + 1) : o(i) <= Trackable)
               <=> (\A i \in 1..k : o(i) <= Trackable) /\ o(k + 1) <= Trackable
        <4>1. k + 1 \in 1..(k + 1) /\ \A i \in 1..(k + 1) : i \in 1..k \/ i = k + 1
          OBVIOUS
        <4>2. \A i \in 1..k : i \in 1..(k + 1)
          OBVIOUS
        <4> QED
          BY <4>1, <4>2
      <3>2. s.dropped = 0 <=> r.dropped = 0 /\ o(k + 1) <= Trackable
        BY <1>5, <2>2a, <2>5, <2>7, <2>8, SMTT(30)
      <3> QED
        BY <2>10, <3>1, <3>2
    <2>12. ASSUME s.dropped = 0
           PROVE  s.hist = [i \in 1..(k + 1) |-> o(i)]
      <3> DEFINE h == [i \in 1..k |-> o(i)]
                 e == o(k + 1)
                 u == [i \in 1..(k + 1) |-> o(i)]
      <3>1. r.dropped = 0 /\ e <= Trackable
        BY <1>5, <2>2a, <2>5, <2>7, <2>8, <2>12
      <3>2. s.hist = Append(h, e)
        BY <2>1, <2>5, <2>8, <3>1 DEF r
      <3>3. \A i \in 1..(k + 1) : o(i) \in Int
        BY <1>3, <1>4, <2>1
      <3>4. Append(h, e) = u
        <4>1. h \in Seq(Int) /\ Len(h) = k /\ \A i \in 1..k : h[i] = o(i)
          BY <3>3
        <4>2. u \in Seq(Int) /\ Len(u) = k + 1 /\ \A i \in 1..(k + 1) : u[i] = o(i)
          BY <3>3
        <4>3. e \in Int /\ e = o(k + 1)
          BY <2>7
        <4> DEFINE a == Append(h, e)
        <4> HIDE DEF h, u, e
        <4>4. /\ a \in Seq(Int) /\ Len(a) = k + 1 /\ a[k + 1] = e
              /\ \A i \in 1..k : a[i] = h[i]
          BY <4>1, <4>3, AppendProperties
        <4> HIDE DEF a
        <4>5. \A i \in 1..(k + 1) : i \in 1..k \/ i = k + 1
          OBVIOUS
        <4>6. \A i \in 1..(k + 1) : a[i] = u[i]
          BY <4>1, <4>2, <4>3, <4>4, <4>5
        <4>7. a = u
          BY <4>2, <4>4, <4>6
        <4> QED
          BY <4>7 DEF a
      <3> QED
        BY <3>2, <3>4
    <2>13. k + 1 # 0
      OBVIOUS
    <2> QED
      BY <2>9, <2>11, <2>12, <2>13 DEF s
  <1> HIDE DEF Good
  <1>8. Good(n)
    <2>1. Nat \subseteq T
      <3> HIDE DEF T
      <3> QED
        BY <1>6, <1>7, Turns!NaturalInduction
    <2> QED
      BY <1>3, <2>1
  <1> QED
    BY <1>1, <1>8 DEF Good, o, w

\* One value more is kept from an interval up.
LEMMA DelayedAppend ==
  ASSUME NEW h \in Seq(Int), NEW v \in Int
  PROVE  /\ Delayed(h) \in Seq(Int) /\ Delayed(<<>>) = <<>>
         /\ Delayed(Append(h, v)) = KeepDelayed(Delayed(h), v)
  <1> DEFINE V == Seq(Int)
             b == <<>>
  <1>1. b \in V
    OBVIOUS
  <1>2. \A k \in V, x \in Int : KeepDelayed(k, x) \in V
    BY DEF KeepDelayed
  <1> HIDE DEF V, b
  <1>3. Keeps!Fold(b, h) \in V
    BY <1>1, <1>2, Keeps!FoldType
  <1>4. Keeps!Fold(b, Append(h, v)) = KeepDelayed(Keeps!Fold(b, h), v)
    BY <1>1, <1>2, Keeps!FoldAppend
  <1>5. Keeps!Fold(b, <<>>) = b
    BY Keeps!FoldEmpty
  <1>6. Delayed(h) = Keeps!Fold(b, h) /\ Delayed(<<>>) = Keeps!Fold(b, <<>>)
        /\ Delayed(Append(h, v)) = Keeps!Fold(b, Append(h, v))
    BY HarnessFolds DEF Delayed, b
  <1> QED
    BY <1>3, <1>4, <1>5, <1>6 DEF V, b

\* How many intervals a latency spans.
LEMMA Spans ==
  ASSUME NEW v \in Nat, NEW x \in Nat
  PROVE  /\ v \div Interval \in Nat /\ x * Interval \in Nat /\ 0 * Interval = 0
         /\ (x + 1) * Interval = x * Interval + Interval
         /\ x * Interval <= v <=> x <= v \div Interval
  <1> DEFINE q == v \div Interval
             r == v % Interval
  <1>1. Interval \in Nat \ {0}
    BY BenchAssumption
  <1>2. q \in Nat /\ q * Interval <= v /\ v < q * Interval + Interval
    <2>1. q \in Nat /\ r \in Nat /\ r < Interval
      BY <1>1
    <2>2. v = Interval * q + r
      BY <1>1
    <2> DEFINE p == q * Interval
    <2>3. p = Interval * q /\ p \in Nat
      BY <1>1, <2>1
    <2> HIDE DEF q, r, p
    <2>4. p <= v /\ v < p + Interval
      BY <1>1, <2>1, <2>2, <2>3
    <2> QED
      BY <2>1, <2>4 DEF p
  <1> HIDE DEF q
  <1>3. x * Interval \in Nat /\ (x + 1) * Interval = x * Interval + Interval
        /\ 0 * Interval = 0
    BY <1>1
  <1> DEFINE y == x * Interval
             p == q * Interval
  <1>4. p \in Nat
    BY <1>1, <1>2
  <1>5. x <= q => y <= v
    <2> SUFFICES ASSUME x <= q
                 PROVE  y <= v
      OBVIOUS
    <2>1. x * Interval <= q * Interval
      BY <1>1, <1>2
    <2> HIDE DEF y, p
    <2> QED
      BY <1>2, <1>3, <1>4, <2>1 DEF y, p
  <1>6. ~(x <= q) => ~(y <= v)
    <2> SUFFICES ASSUME ~(x <= q)
                 PROVE  ~(y <= v)
      OBVIOUS
    <2>1. x >= q + 1
      BY <1>2
    <2>2. x * Interval >= (q + 1) * Interval
      BY <1>1, <1>2, <2>1
    <2>3. (q + 1) * Interval = p + Interval
      BY <1>1, <1>2
    <2>4. y >= p + Interval
      BY <2>2, <2>3
    <2> HIDE DEF y, p
    <2>5. y \in Nat /\ p \in Nat /\ v < p + Interval
      BY <1>2, <1>3, <1>4 DEF y, p
    <2> QED
      BY <1>1, <2>4, <2>5
  <1> QED
    BY <1>2, <1>3, <1>5, <1>6 DEF q

\* With correction a value within range leaves the values from an interval up.
LEMMA CorrectedRecords ==
  ASSUME NEW m, NEW run \in Runs(m), NEW v \in Nat, v <= Trackable
  PROVE  LET r == RecordCorrectedValue(run, v)
         IN /\ r \in LikeRun(m, run) /\ r.dropped = run.dropped
            /\ v = 0 => Delayed(r.hist) = Delayed(run.hist)
            /\ Delayed(run.hist) = <<>> => Delayed(r.hist) = Stair(v, v \div Interval)
  <1> DEFINE q == v \div Interval
             k == IF v > Trackable THEN 0 ELSE Max({0, q - 1})
             r == RecordCorrectedValue(run, v)
             V == LikeRun(m, run)
             s == Stair(v, k + 1)
  <1>1. k \in Nat /\ r \in V
        /\ \E g : Records!IsRun(g, V, run, s) /\ g[k + 1] = r
    BY CorrectedRun
  <1>2. Interval \in Nat \ {0} /\ Trackable \in Nat /\ q \in Nat
    BY BenchAssumption, Spans
  <1>3. k = IF q >= 1 THEN q - 1 ELSE 0
    <2> HIDE DEF q
    <2>1. ~(v > Trackable)
      BY <1>2
    <2>2. Max({0, q - 1}) = IF 0 >= q - 1 THEN 0 ELSE q - 1
      BY <1>2, MaxOfTwo
    <2> QED
      BY <1>2, <2>1, <2>2
  <1> HIDE DEF k, r
  <1>4. PICK g : Records!IsRun(g, V, run, s) /\ g[k + 1] = r
    BY <1>1
  <1>5. Len(s) = k + 1 /\ \A i \in 1..(k + 1) : s[i] = v - (i - 1) * Interval
    BY <1>1, StairStep
  <1> HIDE DEF s, V
  <1>6. /\ g \in [0..(k + 1) -> V] /\ g[0] = run
        /\ \A i \in 1..(k + 1) : g[i] = RecordValue(g[i - 1], v - (i - 1) * Interval)
    BY <1>4, <1>5 DEF Records!IsRun
  <1> DEFINE Good(i) ==
               /\ g[i].dropped = run.dropped
               /\ v = 0 => Delayed(g[i].hist) = Delayed(run.hist)
               /\ Delayed(run.hist) = <<>> =>
                      Delayed(g[i].hist) = Stair(v, IF i <= q THEN i ELSE q)
             T == {i \in Nat : i <= k + 1 => Good(i)}
  <1> HIDE DEF q
  <1>7. 0 \in T
    <2>1. 0 <= q /\ Stair(v, 0) = <<>>
      BY <1>2, StairStep
    <2> QED
      BY <1>6, <2>1
  <1>8. ASSUME NEW i \in Nat, i \in T
        PROVE  i + 1 \in T
    <2> SUFFICES ASSUME i + 1 <= k + 1
                 PROVE  Good(i + 1)
      OBVIOUS
    <2>1. /\ Good(i) /\ i \in 0..(k + 1) /\ i + 1 \in 1..(k + 1) /\ (i + 1) - 1 = i
          /\ i <= k
      BY <1>1, <1>8
    <2> DEFINE p == i * Interval
               x == v - p
               a == g[i]
               b == g[i + 1]
               h == a.hist
    <2>2. a \in V /\ b = RecordValue(a, x)
      BY <1>6, <2>1
    <2>3. a \in Runs(m) /\ h \in Seq(Int) /\ a.dropped \in Nat
      BY <2>2 DEF V, LikeRun, Runs
    <2>4. p \in Nat /\ p + Interval = (i + 1) * Interval
          /\ ((i + 1) * Interval <= v <=> i + 1 <= q)
      <3>1. p \in Nat /\ (i + 1) * Interval = p + Interval
        BY Spans, Zenon
      <3>2. i + 1 \in Nat
        OBVIOUS
      <3>3. (i + 1) * Interval <= v <=> i + 1 <= q
        BY <3>2, Spans, Zenon DEF q
      <3> HIDE DEF p
      <3> QED
        BY <3>1, <3>3
    <2> HIDE DEF p
    <2>5. x \in Int /\ x <= Trackable
      BY <1>2, <2>4
    <2>6. b.dropped = a.dropped /\ b.hist = Append(h, x)
      <3> HIDE DEF x, a, b
      <3> QED
        BY <2>2, <2>3, <2>5, RecordOf DEF h
    <2>7. Delayed(b.hist) = IF x >= Interval THEN Append(Delayed(h), x) ELSE Delayed(h)
      <3> HIDE DEF x, a, b, h
      <3> QED
        BY <2>3, <2>5, <2>6, DelayedAppend DEF KeepDelayed
    <2>8. x >= Interval <=> i + 1 <= q
      <3>1. x >= Interval <=> p + Interval <= v
        BY <1>2, <2>4
      <3> QED
        BY <2>4, <3>1
    <2>9. ASSUME v = 0
          PROVE  Delayed(b.hist) = Delayed(run.hist)
      <3>1. ~(x >= Interval)
        BY <1>2, <2>4, <2>9
      <3> HIDE DEF x, b
      <3> QED
        BY <2>1, <2>7, <2>9, <3>1
    <2>10. ASSUME Delayed(run.hist) = <<>>
           PROVE  Delayed(b.hist) = Stair(v, IF i + 1 <= q THEN i + 1 ELSE q)
      <3>1. CASE i + 1 <= q
        <4>1. i <= q
          BY <1>2, <3>1
        <4>2. Delayed(h) = Stair(v, i)
          BY <2>1, <2>10, <4>1
        <4>3. Append(Stair(v, i), v - i * Interval) = Stair(v, i + 1)
          <5>1. v \in Int /\ i \in Nat
            OBVIOUS
          <5> QED
            BY <5>1, StairStep, Zenon
        <4>4. Delayed(b.hist) = Append(Delayed(h), x)
          <5> HIDE DEF x, b, h
          <5> QED
            BY <2>7, <2>8, <3>1
        <4>5. x = v - i * Interval
          BY DEF p
        <4> HIDE DEF x, b, h
        <4> QED
          BY <3>1, <4>2, <4>3, <4>4, <4>5
      <3>2. CASE ~(i + 1 <= q)
        <4>1. (IF i <= q THEN i ELSE q) = q
          BY <1>2, <3>2
        <4>2. Delayed(h) = Stair(v, q)
          BY <2>1, <2>10, <4>1
        <4>3. Delayed(b.hist) = Delayed(h)
          <5> HIDE DEF x, b, h
          <5> QED
            BY <2>7, <2>8, <3>2
        <4> HIDE DEF b, h
        <4> QED
          BY <3>2, <4>2, <4>3
      <3> QED
        BY <3>1, <3>2
    <2>11. b.dropped = run.dropped
      BY <2>1, <2>6
    <2> QED
      BY <2>9, <2>10, <2>11
  <1> HIDE DEF Good
  <1>9. Good(k + 1)
    <2>1. Nat \subseteq T
      <3> HIDE DEF T
      <3> QED
        BY <1>7, <1>8, Records!NaturalInduction
    <2>2. k + 1 \in Nat /\ k + 1 <= k + 1
      BY <1>1
    <2> QED
      BY <2>1, <2>2
  <1>10. (IF k + 1 <= q THEN k + 1 ELSE q) = q
    BY <1>2, <1>3
  <1>11. /\ r.dropped = run.dropped
         /\ v = 0 => Delayed(r.hist) = Delayed(run.hist)
         /\ Delayed(run.hist) = <<>> => Delayed(r.hist) = Stair(v, q)
    BY <1>4, <1>9, <1>10 DEF Good
  <1> QED
    BY <1>1, <1>11 DEF r, q, V

\* Event j alone takes time.
OnlyStall(took, j) == \A i \in 1..Len(took) \ {j} : took[i] = 0

\* A single stall is worked off an interval at a time.
LEMMA StallWorkedOff ==
  ASSUME NEW took \in Seq(Nat), NEW j \in 1..Len(took), OnlyStall(took, j),
         NEW i \in 1..Len(took)
  PROVE  /\ i < j => OpenLoop(took, i) = 0
         /\ j <= i => OpenLoop(took, i) =
                        IF (i - j) * Interval <= took[j] THEN took[j] - (i - j) * Interval ELSE 0
  <1> DEFINE n == Len(took)
             o(k) == OpenLoop(took, k)
             t == took[j]
             Good(k) == /\ k < j => o(k) = 0
                        /\ j <= k => o(k) = IF (k - j) * Interval <= t
                                            THEN t - (k - j) * Interval ELSE 0
             T == {k \in Nat : k + 1 <= n => Good(k + 1)}
  <1>1. /\ n \in Nat /\ n # 0 /\ took # <<>> /\ t \in Nat /\ j \in 1..n
        /\ \A k \in 1..n : k # j => took[k] = 0
    BY DEF OnlyStall
  <1>2. /\ \A k \in 1..n : o(k) \in Nat
        /\ o(1) = took[1]
        /\ \A k \in 2..n : o(k) = Backlog(o(k - 1)) + took[k]
    BY <1>1, OpenLoopStep
  <1>3. Interval \in Nat \ {0} /\ 0 * Interval = 0
    BY BenchAssumption
  <1>4. \A x \in Nat : x * Interval \in Nat /\ (x + 1) * Interval = x * Interval + Interval
    BY Spans, Zenon
  <1> HIDE DEF o, n, t
  <1>5. 0 \in T
    <2>1. CASE j = 1
      <3>1. o(1) = t /\ (1 - j) * Interval = 0
        BY <1>2, <1>3, <2>1 DEF t
      <3> QED
        BY <1>1, <2>1, <3>1
    <2>2. CASE j # 1
      <3>1. o(1) = 0 /\ ~(j <= 1)
        BY <1>1, <1>2, <2>2
      <3> QED
        BY <3>1
    <2> QED
      BY <2>1, <2>2
  <1>6. ASSUME NEW k \in Nat, k \in T
        PROVE  k + 1 \in T
    <2> DEFINE a == k + 1
               b == (k + 1) + 1
    <2> SUFFICES ASSUME b <= n
                 PROVE  Good(b)
      OBVIOUS
    <2>1. /\ a \in 1..n /\ b \in 2..n /\ b \in 1..n /\ b - 1 = a /\ a + 1 = b /\ a \in Nat
          /\ Good(a)
      BY <1>1, <1>6
    <2> HIDE DEF a, b
    <2>2. o(b) = Backlog(o(a)) + took[b] /\ o(a) \in Nat
      BY <1>2, <2>1
    <2>3. CASE b < j
      <3>1. o(a) = 0 /\ took[b] = 0 /\ ~(j <= b)
        BY <1>1, <2>1, <2>3
      <3> QED
        BY <1>3, <2>2, <3>1 DEF Backlog
    <2>4. CASE b = j
      <3>1. o(a) = 0 /\ took[b] = t
        BY <1>1, <2>1, <2>4 DEF t
      <3>2. (b - j) * Interval = 0
        <4>1. b - j = 0
          BY <1>1, <2>1, <2>4
        <4> QED
          BY <1>3, <4>1
      <3>3. o(b) = t
        BY <1>1, <1>3, <2>2, <3>1 DEF Backlog
      <3> QED
        BY <1>1, <2>1, <2>4, <3>2, <3>3
    <2>5. CASE j < b
      <3> DEFINE x == a - j
                 p == x * Interval
      <3>1. x \in Nat /\ j <= a /\ b - j = x + 1 /\ took[b] = 0
        BY <1>1, <2>1, <2>5
      <3>2. p \in Nat /\ (b - j) * Interval = p + Interval
        BY <1>4, <3>1
      <3>3. o(a) = IF p <= t THEN t - p ELSE 0
        BY <2>1, <3>1
      <3> HIDE DEF p
      <3>4. o(b) = IF p + Interval <= t THEN t - (p + Interval) ELSE 0
        <4> DEFINE u == o(a)
        <4>1. o(b) = Backlog(u) /\ u \in Nat /\ u = IF p <= t THEN t - p ELSE 0
          <5>1. o(b) = Backlog(u) + 0 /\ u \in Nat
            BY <2>2, <3>1
          <5>2. Backlog(u) \in Nat
            BY <1>3, <5>1 DEF Backlog
          <5> HIDE DEF u
          <5> QED
            BY <3>3, <5>1, <5>2 DEF u
        <4> HIDE DEF u
        <4>2. t \in Nat /\ p \in Nat /\ Interval \in Nat \ {0}
          BY <1>1, <1>3, <3>2
        <4>3. CASE p + Interval <= t
          <5>1. u = t - p /\ u >= Interval
            BY <4>1, <4>2, <4>3
          <5>2. Backlog(u) = u - Interval
            BY <5>1 DEF Backlog
          <5> QED
            BY <4>1, <4>2, <4>3, <5>1, <5>2
        <4>4. CASE ~(p + Interval <= t)
          <5>1. u \in Nat /\ ~(u >= Interval)
            BY <4>1, <4>2, <4>4
          <5>2. Backlog(u) = 0
            BY <5>1 DEF Backlog
          <5> QED
            BY <4>1, <4>4, <5>2
        <4> QED
          BY <4>3, <4>4
      <3> QED
        BY <1>1, <2>1, <2>5, <3>2, <3>4
    <2> QED
      BY <1>1, <2>1, <2>3, <2>4, <2>5
  <1> HIDE DEF Good
  <1>7. i - 1 \in T
    <2>1. Nat \subseteq T
      <3> HIDE DEF T
      <3> QED
        BY <1>5, <1>6, Times!NaturalInduction
    <2>2. i - 1 \in Nat
      BY <1>1 DEF n
    <2> HIDE DEF T
    <2> QED
      BY <2>1, <2>2
  <1>8. Good(i)
    <2>1. (i - 1) + 1 = i /\ i <= n
      BY <1>1 DEF n
    <2> QED
      BY <1>7, <2>1
  <1> QED
    BY <1>8 DEF Good, o, t

\* Of such a stall the intended mode records a stair, if there is time to catch up.
LEMMA IntendedStair ==
  ASSUME NEW took \in Seq(Nat), NEW j \in 1..Len(took), OnlyStall(took, j),
         OpenLoop(took, Len(took)) < Interval
  PROVE  Delayed([i \in 1..Len(took) |-> OpenLoop(took, i)])
            = Stair(took[j], took[j] \div Interval)
  <1> DEFINE n == Len(took)
             o(k) == OpenLoop(took, k)
             h == [i \in 1..n |-> o(i)]
             v == took[j]
             q == v \div Interval
             c(k) == IF k < j THEN 0 ELSE IF (k - j) + 1 <= q THEN (k - j) + 1 ELSE q
             V == Seq(Int)
             b == <<>>
  <1>1. /\ n \in Nat \ {0} /\ took # <<>> /\ v \in Nat /\ j \in 1..n
    OBVIOUS
  <1>2. \A k \in 1..n : o(k) \in Nat
    BY <1>1, OpenLoopStep
  <1>3. h \in Seq(Int) /\ Len(h) = n /\ \A k \in 1..n : h[k] = o(k)
    <2> HIDE DEF o, n
    <2> QED
      BY <1>1, <1>2
  <1>4. /\ Interval \in Nat \ {0} /\ q \in Nat
        /\ \A x \in Nat : x * Interval \in Nat
        /\ \A x \in Nat : (x + 1) * Interval = x * Interval + Interval
        /\ \A x \in Nat : x * Interval <= v <=> x <= q
    <2>1. q \in Nat /\ \A x \in Nat : x * Interval <= v <=> x <= q
      BY <1>1, Spans, Zenon
    <2>2. \A x \in Nat : x * Interval \in Nat /\ (x + 1) * Interval = x * Interval + Interval
      BY Spans, Zenon
    <2> HIDE DEF q, v
    <2> QED
      BY <2>1, <2>2, BenchAssumption
  <1>5. \A k \in 1..n :
           /\ k < j => o(k) = 0
           /\ j <= k => o(k) = IF (k - j) * Interval <= v THEN v - (k - j) * Interval ELSE 0
    BY StallWorkedOff
  <1>6. PICK g : Keeps!IsRun(g, V, b, h) /\ g[n] = Delayed(h)
    <2>1. b \in V
      OBVIOUS
    <2>2. \A k \in V, x \in Int : KeepDelayed(k, x) \in V
      BY DEF KeepDelayed
    <2>3. Delayed(h) = FoldLeft(KeepDelayed, b, h)
      BY DEF Delayed
    <2> HIDE DEF V, b, h
    <2>4. \E g : Keeps!IsRun(g, V, b, h) /\ g[Len(h)] = Keeps!Fold(b, h)
      BY <1>3, <2>1, <2>2, Keeps!FoldRun
    <2> QED
      BY <1>3, <2>3, <2>4, HarnessFolds
  <1> HIDE DEF h, n, o, q, v
  <1>7. /\ g[0] = <<>>
        /\ \A k \in 1..n : g[k] = KeepDelayed(g[k - 1], o(k))
    <2>1. /\ g[0] = b
          /\ \A k \in 1..n : g[k] = KeepDelayed(g[k - 1], h[k])
      BY <1>3, <1>6 DEF Keeps!IsRun
    <2> QED
      BY <1>3, <2>1
  <1> DEFINE T == {k \in Nat : k <= n => g[k] = Stair(v, c(k))}
  <1>8. 0 \in T
    <2>1. c(0) = 0 /\ Stair(v, 0) = <<>>
      <3>1. 0 < j
        BY <1>1
      <3>2. Stair(v, 0) = <<>>
        BY DEF Stair
      <3> QED
        BY <3>1, <3>2
    <2> HIDE DEF c
    <2> QED
      BY <1>7, <2>1
  <1>9. ASSUME NEW k \in Nat, k \in T
        PROVE  k + 1 \in T
    <2> DEFINE a == k + 1
    <2> SUFFICES ASSUME a <= n
                 PROVE  g[a] = Stair(v, c(a))
      OBVIOUS
    <2>1. a \in 1..n /\ a - 1 = k /\ g[k] = Stair(v, c(k))
      BY <1>1, <1>9
    <2>2. g[a] = KeepDelayed(Stair(v, c(k)), o(a)) /\ o(a) \in Nat
      BY <1>2, <1>7, <2>1
    <2>3. CASE a < j
      <3>1. o(a) = 0 /\ ~(0 >= Interval)
        BY <1>4, <1>5, <2>1, <2>3
      <3>2. c(a) = 0 /\ c(k) = 0
        BY <1>1, <2>3
      <3>3. g[a] = Stair(v, c(k))
        BY <2>2, <3>1 DEF KeepDelayed
      <3> HIDE DEF c
      <3> QED
        BY <3>2, <3>3
    <2>4. CASE j <= a
      <3> DEFINE x == a - j
                 p == x * Interval
                 pn == (x + 1) * Interval
      <3>1. x \in Nat /\ x + 1 \in Nat
        BY <1>1, <2>1, <2>4
      <3>2. o(a) = IF p <= v THEN v - p ELSE 0
        BY <1>5, <2>1, <2>4
      <3>3. p \in Nat /\ pn = p + Interval /\ (pn <= v <=> x + 1 <= q)
        BY <1>4, <3>1
      <3>4. c(a) = IF x + 1 <= q THEN x + 1 ELSE q
        <4>1. ~(a < j) /\ (a - j) + 1 = x + 1
          BY <1>1, <2>1, <2>4
        <4> HIDE DEF x, a
        <4> QED
          BY <4>1
      <3>5. c(k) = IF x <= q THEN x ELSE q
        <4>1. CASE x = 0
          <5>1. k < j
            BY <1>1, <2>1, <4>1
          <5> QED
            BY <1>4, <4>1, <5>1
        <4>2. CASE x # 0
          <5>1. ~(k < j) /\ (k - j) + 1 = x
            BY <1>1, <2>1, <3>1, <4>2
          <5> HIDE DEF x
          <5> QED
            BY <5>1
        <4> QED
          BY <4>1, <4>2
      <3> HIDE DEF p, pn, c, x
      <3>6. o(a) >= Interval <=> x + 1 <= q
        BY <1>1, <1>4, <3>1, <3>2, <3>3
      <3>7. CASE x + 1 <= q
        <4>1. c(k) = x /\ c(a) = x + 1
          BY <1>4, <3>1, <3>4, <3>5, <3>7
        <4>2. o(a) = v - p
          BY <1>1, <1>4, <3>2, <3>3, <3>7
        <4>3. g[a] = Append(Stair(v, x), v - p)
          BY <2>2, <3>6, <3>7, <4>1, <4>2 DEF KeepDelayed
        <4>4. Append(Stair(v, x), v - x * Interval) = Stair(v, x + 1)
          <5>1. v \in Int /\ x \in Nat
            BY <1>1, <3>1
          <5> QED
            BY <5>1, StairStep, Zenon
        <4> QED
          BY <4>1, <4>3, <4>4 DEF p
      <3>8. CASE ~(x + 1 <= q)
        <4>1. c(k) = q /\ c(a) = q
          BY <1>4, <3>1, <3>4, <3>5, <3>8
        <4>2. g[a] = Stair(v, c(k))
          BY <2>2, <3>6, <3>8 DEF KeepDelayed
        <4> QED
          BY <4>1, <4>2
      <3> QED
        BY <3>7, <3>8
    <2> QED
      BY <1>1, <2>1, <2>3, <2>4
  <1>10. g[n] = Stair(v, c(n))
    <2>1. Nat \subseteq T
      <3> HIDE DEF T
      <3> QED
        BY <1>8, <1>9, Keeps!NaturalInduction
    <2>2. n \in Nat /\ n <= n
      BY <1>1
    <2> HIDE DEF c
    <2> QED
      BY <2>1, <2>2
  <1>11. c(n) = q
    <2> DEFINE x == n - j
               p == x * Interval
               pn == (x + 1) * Interval
    <2>1. x \in Nat /\ x + 1 \in Nat /\ j <= n /\ n \in 1..n
      BY <1>1
    <2>2. o(n) = (IF p <= v THEN v - p ELSE 0) /\ o(n) < Interval
      BY <1>5, <2>1 DEF o, n
    <2>3. p \in Nat /\ pn = p + Interval /\ (pn <= v <=> x + 1 <= q)
      BY <1>4, <2>1
    <2>4. c(n) = IF x + 1 <= q THEN x + 1 ELSE q
      <3>1. ~(n < j) /\ (n - j) + 1 = x + 1
        BY <1>1, <2>1
      <3> HIDE DEF x
      <3> QED
        BY <3>1
    <2> HIDE DEF p, pn, x, c
    <2>5. ~(x + 1 <= q)
      BY <1>1, <1>4, <2>2, <2>3
    <2> QED
      BY <2>4, <2>5
  <1> HIDE DEF c
  <1>12. Delayed(h) = Stair(v, q)
    BY <1>6, <1>10, <1>11
  <1> QED
    BY <1>12 DEF h, n, o, q, v

\* And the corrected mode records the same stair at once.
LEMMA CorrectedStair ==
  ASSUME NEW took \in Seq(Nat), NEW j \in 1..Len(took), OnlyStall(took, j),
         took[j] <= Trackable
  PROVE  LET run == FoldLeft(Turn, Start("corrected"), took)
         IN run.dropped = 0 /\ Delayed(run.hist) = Stair(took[j], took[j] \div Interval)
  <1> DEFINE n == Len(took)
             m == "corrected"
             v == took[j]
             q == v \div Interval
             w == FoldLeft(Turn, Start(m), took)
  <1>1. /\ n \in Nat \ {0} /\ v \in Nat /\ j \in 1..n
        /\ \A k \in 1..n : took[k] \in Nat /\ (k # j => took[k] = 0)
    BY DEF OnlyStall
  <1>2. PICK g : Turns!IsRun(g, Runs(m), Start(m), took) /\ g[n] = w
    BY TurnRun
  <1>3. /\ g \in [0..n -> Runs(m)] /\ g[0] = Start(m)
        /\ \A k \in 1..n : g[k] = Turn(g[k - 1], took[k])
    BY <1>2 DEF Turns!IsRun
  <1> HIDE DEF n, q, v, w
  <1> DEFINE Good(k) == /\ g[k].dropped = 0
                        /\ k < j => Delayed(g[k].hist) = <<>>
                        /\ j <= k => Delayed(g[k].hist) = Stair(v, q)
             T == {k \in Nat : k <= n => Good(k)}
  <1>4. 0 \in T
    <2>1. g[0].dropped = 0 /\ g[0].hist = <<>> /\ Delayed(<<>>) = <<>> /\ ~(j <= 0)
      <3>1. Delayed(<<>>) = <<>>
        <4>1. 0 \in Int /\ <<>> \in Seq(Int)
          OBVIOUS
        <4> QED
          BY <4>1, DelayedAppend
      <3> QED
        BY <1>1, <1>3, <3>1 DEF Start
    <2> QED
      BY <2>1
  <1>5. ASSUME NEW k \in Nat, k \in T
        PROVE  k + 1 \in T
    <2> DEFINE r == g[k]
               s == g[k + 1]
               t == took[k + 1]
               due == r.n * Interval
               t0 == IF due >= r.clock THEN due ELSE r.clock
               done == [r EXCEPT !.n = r.n + 1, !.clock = t0 + t]
    <2> SUFFICES ASSUME k + 1 <= n
                 PROVE  Good(k + 1)
      OBVIOUS
    <2>1. Good(k) /\ k \in 0..n /\ k + 1 \in 1..n /\ (k + 1) - 1 = k
      BY <1>1, <1>5
    <2>2. r \in Runs(m) /\ t \in Nat /\ s = Turn(r, t)
      BY <1>1, <1>3, <2>1
    <2>3. done \in Runs(m) /\ s = RecordCorrectedValue(done, t)
      <3> HIDE DEF r, t, s, m
      <3>1. /\ done \in Runs(m)
            /\ Turn(r, t) = IF m = "corrected" THEN RecordCorrectedValue(done, t)
                            ELSE RecordValue(done, (t0 + t) - due)
        BY <2>2, OneTurn
      <3>2. m = "corrected"
        BY DEF m
      <3> QED
        BY <2>2, <3>1, <3>2
    <2>4. done.dropped = r.dropped /\ done.hist = r.hist
      <3>1. r = [mode |-> r.mode, n |-> r.n, clock |-> r.clock, hist |-> r.hist,
                 dropped |-> r.dropped]
        BY <2>2 DEF Runs
      <3> DEFINE x == r.n + 1
                 y == t0 + t
      <3> HIDE DEF x, y, r
      <3>2. /\ [r EXCEPT !.n = x, !.clock = y].dropped = r.dropped
            /\ [r EXCEPT !.n = x, !.clock = y].hist = r.hist
        BY <3>1
      <3> QED
        BY <3>2 DEF x, y
    <2>5. t <= Trackable /\ (k + 1 # j => t = 0) /\ (k + 1 = j => t = v)
      BY <1>1, <2>1, BenchAssumption, SMTT(30) DEF v
    <2> HIDE DEF r, s, t, done, m
    <2>6. /\ s.dropped = done.dropped
          /\ t = 0 => Delayed(s.hist) = Delayed(done.hist)
          /\ Delayed(done.hist) = <<>> => Delayed(s.hist) = Stair(t, t \div Interval)
      <3> DEFINE x == RecordCorrectedValue(done, t)
      <3>1. /\ x.dropped = done.dropped
            /\ t = 0 => Delayed(x.hist) = Delayed(done.hist)
            /\ Delayed(done.hist) = <<>> => Delayed(x.hist) = Stair(t, t \div Interval)
        BY <2>2, <2>3, <2>5, CorrectedRecords
      <3>2. s = x
        BY <2>3
      <3> HIDE DEF x
      <3> QED
        BY <3>1, <3>2
    <2>7. s.dropped = 0
      BY <2>1, <2>4, <2>6 DEF r
    <2>8. CASE k + 1 < j
      <3>1. k < j /\ k + 1 # j /\ ~(j <= k + 1)
        BY <1>1, <2>8
      <3> QED
        BY <2>1, <2>4, <2>5, <2>6, <2>7, <3>1 DEF r, s
    <2>9. CASE k + 1 = j
      <3>1. k < j /\ ~(k + 1 < j)
        BY <1>1, <2>9
      <3> QED
        BY <2>1, <2>4, <2>5, <2>6, <2>7, <2>9, <3>1 DEF r, s, q
    <2>10. CASE j < k + 1
      <3>1. j <= k /\ k + 1 # j /\ ~(k + 1 < j)
        BY <1>1, <2>10
      <3> QED
        BY <2>1, <2>4, <2>5, <2>6, <2>7, <3>1 DEF r, s
    <2>11. k + 1 < j \/ k + 1 = j \/ j < k + 1
      BY <1>1
    <2> QED
      BY <2>8, <2>9, <2>10, <2>11
  <1> HIDE DEF Good
  <1>6. Good(n)
    <2>1. Nat \subseteq T
      <3> HIDE DEF T
      <3> QED
        BY <1>4, <1>5, Turns!NaturalInduction
    <2> QED
      BY <1>1, <2>1
  <1>7. j <= n
    BY <1>1
  <1> QED
    BY <1>2, <1>6, <1>7 DEF Good, w, v, q

\* A stall is charged to every event it delays, in a recording of any length with any
\* times: the intended mode records what a fixed schedule would have every event wait,
\* or fails, and the corrected mode makes the same of a single stall
\* (bench/harness.go:58-119).
LEMMA FeedIsCharged ==
  ASSUME NEW took \in Seq(Nat)
  PROVE  Charged(took)
  <1> DEFINE n == Len(took)
             ri == FoldLeft(Turn, Start("intended"), took)
             rc == FoldLeft(Turn, Start("corrected"), took)
             hist == [i \in 1..n |-> OpenLoop(took, i)]
             InRange == \A i \in 1..n : OpenLoop(took, i) <= Trackable
             intended == RunApply("intended", took, 0)
             corrected == RunApply("corrected", took, 0)
  <1>1. /\ intended.ok = (took # <<>> /\ ri.dropped = 0) /\ intended.hist = ri.hist
        /\ corrected.ok = (took # <<>> /\ rc.dropped = 0) /\ corrected.hist = rc.hist
    BY DEF RunApply
  <1>2. took # <<>> => /\ ri.dropped = 0 <=> InRange
                       /\ ri.dropped = 0 => ri.hist = hist
    BY IntendedRun
  <1>3. ASSUME took # <<>>, InRange, OpenLoop(took, n) < Interval,
               NEW j \in 1..n, \A i \in 1..n \ {j} : took[i] = 0
        PROVE  rc.dropped = 0 /\ Delayed(rc.hist) = Delayed(hist)
    <2>1. OnlyStall(took, j)
      BY <1>3 DEF OnlyStall
    <2>2. OpenLoop(took, j) = took[j]
      <3>1. (j - j) * Interval = 0 /\ took[j] \in Nat /\ j <= j
        <4>1. j - j = 0 /\ took[j] \in Nat /\ j <= j
          OBVIOUS
        <4>2. 0 * Interval = 0
          BY BenchAssumption
        <4> QED
          BY <4>1, <4>2
      <3>2. OpenLoop(took, j) = IF (j - j) * Interval <= took[j]
                                THEN took[j] - (j - j) * Interval ELSE 0
        BY <2>1, <3>1, StallWorkedOff
      <3> QED
        BY <3>1, <3>2
    <2>3. took[j] <= Trackable
      BY <1>3, <2>2
    <2>4. Delayed(hist) = Stair(took[j], took[j] \div Interval)
      BY <1>3, <2>1, IntendedStair
    <2>5. rc.dropped = 0 /\ Delayed(rc.hist) = Stair(took[j], took[j] \div Interval)
      BY <2>1, <2>3, CorrectedStair
    <2> HIDE DEF rc, hist
    <2> QED
      BY <2>4, <2>5
  <1> SUFFICES /\ intended.ok = (took # <<>> /\ InRange)
               /\ intended.ok =>
                    /\ intended.hist = hist
                    /\ OpenLoop(took, n) < Interval =>
                         \A j \in 1..n : (\A i \in 1..n \ {j} : took[i] = 0) =>
                             /\ corrected.ok
                             /\ Delayed(corrected.hist) = Delayed(intended.hist)
    BY DEF Charged
  <1> HIDE DEF ri, rc, hist, InRange, intended, corrected
  <1>4. intended.ok <=> took # <<>> /\ InRange
    BY <1>1, <1>2
  <1>5. (intended.ok) = (took # <<>> /\ InRange)
    <2>1. intended.ok \in BOOLEAN /\ (took # <<>> /\ InRange) \in BOOLEAN
      <3>1. (took # <<>> /\ ri.dropped = 0) \in BOOLEAN /\ (took # <<>> /\ InRange) \in BOOLEAN
        OBVIOUS
      <3> QED
        BY <1>1, <3>1
    <2> QED
      BY <1>4, <2>1
  <1>6. ASSUME intended.ok
        PROVE  /\ intended.hist = hist
               /\ OpenLoop(took, n) < Interval =>
                    \A j \in 1..n : (\A i \in 1..n \ {j} : took[i] = 0) =>
                        /\ corrected.ok
                        /\ Delayed(corrected.hist) = Delayed(intended.hist)
    <2>1. took # <<>> /\ InRange /\ ri.dropped = 0 /\ intended.hist = hist
      BY <1>1, <1>2, <1>6
    <2>2. ASSUME OpenLoop(took, n) < Interval,
                 NEW j \in 1..n, \A i \in 1..n \ {j} : took[i] = 0
          PROVE  corrected.ok /\ Delayed(corrected.hist) = Delayed(intended.hist)
      <3>1. rc.dropped = 0 /\ Delayed(rc.hist) = Delayed(hist)
        BY <1>3, <2>1, <2>2
      <3> QED
        BY <1>1, <2>1, <3>1
    <2> QED
      BY <2>1, <2>2
  <1> QED
    BY <1>5, <1>6

\* So it is of every feed the harness is given.
THEOREM StallsAreCharged == LatencySpec => []StallIsCharged
  <1>1. LatencyInit => feed \in Seq(Nat)
    BY DEF LatencyInit
  <1>2. feed \in Seq(Nat) /\ [LatencyNext]_feed => (feed \in Seq(Nat))'
    BY TimesAssumption DEF LatencyNext, Prepare
  <1>3. feed \in Seq(Nat) => StallIsCharged
    BY FeedIsCharged DEF StallIsCharged
  <1> QED
    BY <1>1, <1>2, <1>3, PTL DEF LatencySpec

-----------------------------------------------------------------------------
(* Listing a finite set in order.                                          *)

\* f lists U, each element once, none after one that R puts behind it.
Lists(f, n, U, R) ==
  /\ f \in [1..n -> U]
  /\ \A i, j \in 1..n : i < j => f[i] # f[j] /\ <<f[i], f[j]>> \in R
  /\ \A x \in U : \E i \in 1..n : f[i] = x

\* A finite set can be listed in any order that ranks every two of its elements.
LEMMA ListedInOrder ==
  ASSUME NEW S, IsFiniteSet(S), NEW R,
         \A x, y \in S : <<x, y>> \in R \/ <<y, x>> \in R,
         \A x, y, z \in S : <<x, y>> \in R /\ <<y, z>> \in R => <<x, z>> \in R
  PROVE  \E f : Lists(f, Cardinality(S), S, R)
  <1> DEFINE T == {n \in Nat : \A U \in SUBSET S :
                      Cardinality(U) = n => \E f : Lists(f, n, U, R)}
  <1>1. \A U \in SUBSET S : IsFiniteSet(U) /\ Cardinality(U) \in Nat
    BY FS_Subset, FS_CardinalityType
  <1>2. 0 \in T
    <2>1. ASSUME NEW U \in SUBSET S, Cardinality(U) = 0
          PROVE  \E f : Lists(f, 0, U, R)
      <3>1. U = {}
        BY <1>1, <2>1, FS_EmptySet
      <3>2. Lists(<<>>, 0, U, R)
        BY <3>1 DEF Lists
      <3> QED
        BY <3>2
    <2> QED
      BY <2>1
  <1>3. ASSUME NEW n \in Nat, n \in T
        PROVE  n + 1 \in T
    <2> SUFFICES ASSUME NEW U \in SUBSET S, Cardinality(U) = n + 1
                 PROVE  \E f : Lists(f, n + 1, U, R)
      BY <1>3
    <2>1. ASSUME NEW x \in U
          PROVE  \E f : Lists(f, n, U \ {x}, R)
      <3>1. Cardinality(U \ {x}) = (n + 1) - 1
        <4>1. IsFiniteSet(U)
          BY <1>1
        <4>2. Cardinality(U \ {x}) = IF x \in U THEN Cardinality(U) - 1 ELSE Cardinality(U)
          BY <4>1, FS_RemoveElement
        <4> QED
          BY <4>2
      <3>2. U \ {x} \in SUBSET S /\ (n + 1) - 1 = n
        OBVIOUS
      <3> QED
        BY <1>3, <3>1, <3>2
    <2>2. \E y \in U : \A z \in U : <<z, y>> \in R
      <3>1. U # {}
        <4>1. Cardinality(U) # 0
          OBVIOUS
        <4> QED
          BY <4>1, FS_EmptySet
      <3>2. PICK x \in U : TRUE
        BY <3>1
      <3>3. PICK f : Lists(f, n, U \ {x}, R)
        BY <2>1
      <3>4. /\ f \in [1..n -> U \ {x}]
            /\ \A i, j \in 1..n : i < j => <<f[i], f[j]>> \in R
            /\ \A z \in U \ {x} : \E i \in 1..n : f[i] = z
        BY <3>3 DEF Lists
      <3>5. CASE n = 0
        <4>1. \A z \in U : z = x
          BY <3>4, <3>5
        <4> QED
          BY <4>1
      <3>6. CASE n # 0
        <4>1. n \in 1..n
          BY <3>6
        <4>2. f[n] \in U
          BY <3>4, <4>1
        <4>3. \A z \in U \ {x} : <<z, f[n]>> \in R
          <5>1. ASSUME NEW z \in U \ {x}
                PROVE  <<z, f[n]>> \in R
            <6>1. PICK i \in 1..n : f[i] = z
              BY <3>4
            <6>2. i < n \/ i = n
              OBVIOUS
            <6>3. <<f[n], f[n]>> \in R
              BY <4>2
            <6> QED
              BY <3>4, <4>1, <6>1, <6>2, <6>3
          <5> QED
            BY <5>1
        <4>4. CASE <<x, f[n]>> \in R
          BY <4>2, <4>3, <4>4
        <4>5. CASE <<f[n], x>> \in R
          <5>1. \A z \in U : <<z, x>> \in R
            BY <4>2, <4>3, <4>5
          <5> QED
            BY <5>1
        <4> QED
          BY <4>2, <4>4, <4>5
      <3> QED
        BY <3>5, <3>6
    <2>3. PICK y \in U : \A z \in U : <<z, y>> \in R
      BY <2>2
    <2>4. PICK h : Lists(h, n, U \ {y}, R)
      BY <2>1
    <2> DEFINE f == [i \in 1..(n + 1) |-> IF i = n + 1 THEN y ELSE h[i]]
    <2>5. /\ h \in [1..n -> U \ {y}]
          /\ \A i, j \in 1..n : i < j => h[i] # h[j] /\ <<h[i], h[j]>> \in R
          /\ \A z \in U \ {y} : \E i \in 1..n : h[i] = z
      BY <2>4 DEF Lists
    <2>6. /\ \A i \in 1..n : i \in 1..(n + 1) /\ i # n + 1 /\ f[i] = h[i]
          /\ n + 1 \in 1..(n + 1) /\ f[n + 1] = y
          /\ \A i \in 1..(n + 1) : i \in 1..n \/ i = n + 1
      OBVIOUS
    <2>7. f \in [1..(n + 1) -> U]
      BY <2>5, <2>6
    <2>8. \A z \in U : \E i \in 1..(n + 1) : f[i] = z
      <3> HIDE DEF f
      <3> QED
        BY <2>5, <2>6
    <2>9. \A i, j \in 1..(n + 1) : i < j => f[i] # f[j] /\ <<f[i], f[j]>> \in R
      <3> HIDE DEF f
      <3>1. ASSUME NEW i \in 1..(n + 1), NEW j \in 1..(n + 1), i < j
            PROVE  f[i] # f[j] /\ <<f[i], f[j]>> \in R
        <4>1. i \in 1..n
          BY <3>1
        <4>2. CASE j \in 1..n
          BY <2>5, <2>6, <3>1, <4>1, <4>2
        <4>3. CASE j = n + 1
          BY <2>3, <2>5, <2>6, <4>1, <4>3
        <4> QED
          BY <2>6, <4>2, <4>3
      <3> QED
        BY <3>1
    <2> HIDE DEF f
    <2>10. Lists(f, n + 1, U, R)
      BY <2>7, <2>8, <2>9 DEF Lists
    <2> QED
      BY <2>10
  <1>4. Cardinality(S) \in T
    <2>1. Nat \subseteq T
      <3> HIDE DEF T
      <3> QED
        BY <1>2, <1>3, Sizes!NaturalInduction
    <2>2. Cardinality(S) \in Nat
      BY <1>1
    <2> HIDE DEF T
    <2> QED
      BY <2>1, <2>2
  <1> QED
    BY <1>4

\* What a sequence holds is finite.
LEMMA HeldIsFinite ==
  ASSUME NEW D, NEW s \in Seq(D)
  PROVE  IsFiniteSet(ToSet(s))
  <1> DEFINE n == Len(s)
  <1>1. n \in Nat /\ DOMAIN s = 1..n
    OBVIOUS
  <1>2. IsFiniteSet(1..n)
    BY <1>1, FS_Interval
  <1>3. s \in Surjection(1..n, ToSet(s))
    BY <1>1 DEF Surjection, ToSet
  <1> QED
    BY <1>2, <1>3, FS_Surjection

-----------------------------------------------------------------------------
(* Tiers.                                                                  *)

\* The tiers sorted by their thresholds are the same tiers.
LEMMA TiersSorted ==
  ASSUME NEW s, IsSchedule(s)
  PROVE  LET t == sortedTiers(s.tiers)
             n == Len(t)
         IN /\ t \in Seq(ToSet(s.tiers)) /\ n \in Nat \ {0}
            /\ \A i, j \in 1..n : i < j => t[i].min < t[j].min
            /\ \A x \in ToSet(s.tiers) : \E i \in 1..n : t[i] = x
  <1> DEFINE S == ToSet(s.tiers)
             n == Cardinality(S)
             R == {p \in S \X S : p[1].min <= p[2].min}
  <1>1. /\ s.tiers \in Seq(Tier) /\ s.tiers # <<>>
        /\ \A i, j \in 1..Len(s.tiers) : s.tiers[i].min = s.tiers[j].min => i = j
    BY DEF IsSchedule
  <1>2. IsFiniteSet(S)
    BY <1>1, HeldIsFinite
  <1>3. /\ S # {}
        /\ \A x \in S : x.min \in Int
        /\ \A x, y \in S : x.min = y.min => x = y
    <2>1. DOMAIN s.tiers = 1..Len(s.tiers) /\ 1 \in 1..Len(s.tiers)
      BY <1>1
    <2>2. S # {}
      BY <2>1 DEF ToSet
    <2>3. \A x \in S : \E i \in 1..Len(s.tiers) : x = s.tiers[i]
      BY <2>1 DEF ToSet
    <2>4. \A i \in 1..Len(s.tiers) : s.tiers[i] \in Tier
      BY <1>1
    <2>5. \A i \in 1..Len(s.tiers) : s.tiers[i].min \in Int
      BY <2>4 DEF Tier
    <2> HIDE DEF S
    <2>6. \A x, y \in S : x.min = y.min => x = y
      BY <1>1, <2>3
    <2> QED
      BY <2>2, <2>3, <2>5, <2>6
  <1> HIDE DEF S
  <1>4. PICK f : Lists(f, n, S, R)
    <2>1. /\ \A x, y \in S : <<x, y>> \in R \/ <<y, x>> \in R
          /\ \A x, y, z \in S : <<x, y>> \in R /\ <<y, z>> \in R => <<x, z>> \in R
      BY <1>3
    <2> HIDE DEF R
    <2> QED
      BY <1>2, <2>1, ListedInOrder
  <1>5. n \in Nat /\ n # 0
    BY <1>2, <1>3, FS_CardinalityType, FS_EmptySet
  <1> HIDE DEF n
  <1>6. /\ f \in [1..n -> S]
        /\ \A i, j \in 1..n : i < j => f[i] # f[j] /\ f[i].min < f[j].min
        /\ \A x \in S : \E i \in 1..n : f[i] = x
    <2>1. /\ f \in [1..n -> S]
          /\ \A i, j \in 1..n : i < j => f[i] # f[j] /\ <<f[i], f[j]>> \in R
          /\ \A x \in S : \E i \in 1..n : f[i] = x
      BY <1>4 DEF Lists
    <2>2. \A i, j \in 1..n : i < j => f[i].min <= f[j].min
      BY <2>1
    <2> HIDE DEF R
    <2>3. ASSUME NEW i \in 1..n, NEW j \in 1..n, i < j
          PROVE  f[i].min < f[j].min
      <3>1. /\ f[i] \in S /\ f[j] \in S /\ f[i] # f[j] /\ f[i].min <= f[j].min
        BY <2>1, <2>2, <2>3
      <3>2. f[i].min \in Int /\ f[j].min \in Int /\ f[i].min # f[j].min
        BY <1>3, <3>1
      <3> QED
        BY <3>1, <3>2
    <2> QED
      BY <2>1, <2>3
  <1> DEFINE Sorted(t) == \A i, j \in DOMAIN t : i < j => t[i].min < t[j].min
             t == CHOOSE t \in SetToSeqs(S) : Sorted(t)
  <1>7. t \in SetToSeqs(S) /\ Sorted(t)
    <2>1. f \in SetToSeqs(S)
      <3>1. \A i, j \in 1..n : i # j => f[i] # f[j]
        <4>1. ASSUME NEW i \in 1..n, NEW j \in 1..n, i # j
              PROVE  f[i] # f[j]
          <5>1. i < j \/ j < i
            BY <1>5, <4>1
          <5> QED
            BY <1>6, <5>1
        <4> QED
          BY <4>1
      <3> QED
        BY <1>6, <3>1 DEF SetToSeqs, n
    <2>2. Sorted(f)
      BY <1>6
    <2> HIDE DEF Sorted
    <2> QED
      BY <2>1, <2>2
  <1>8. t = sortedTiers(s.tiers)
    BY DEF sortedTiers, S
  <1> HIDE DEF t
  <1>9. /\ t \in [1..n -> S] /\ \A i, j \in 1..n : i # j => t[i] # t[j]
    BY <1>7 DEF SetToSeqs, n
  <1>10. t \in Seq(S) /\ Len(t) = n /\ DOMAIN t = 1..n
    BY <1>5, <1>9
  <1>11. \A x \in S : \E i \in 1..n : t[i] = x
    <2>1. IsFiniteSet(1..n) /\ Cardinality(1..n) = n
      BY <1>5, FS_Interval
    <2> DEFINE I == {t[i] : i \in 1..n}
    <2>2. t \in Surjection(1..n, I) /\ t \in Injection(1..n, I) /\ I \in SUBSET S
      BY <1>9 DEF Surjection, Injection, IsInjective
    <2> HIDE DEF I
    <2>3. Cardinality(I) = n
      BY <2>1, <2>2, FS_Surjection
    <2>4. I = S
      <3>1. Cardinality(S) = n
        BY DEF n
      <3> QED
        BY <1>2, <2>2, <2>3, <3>1, FS_Subset
    <2> QED
      BY <2>4 DEF I
  <1> QED
    BY <1>5, <1>7, <1>8, <1>10, <1>11 DEF S

\* The tier found in the sorted schedule is the one the volume earns, and no rate is
\* negative.
LEMMA TierEarned ==
  ASSUME NEW s, IsSchedule(s), NEW volume \in Int
  PROVE  /\ tierFor([s EXCEPT !.tiers = sortedTiers(s.tiers)], volume).taker
               = RateAt(s.tiers, volume)
         /\ RateAt(s.tiers, volume) \in Nat
  <1> DEFINE S == ToSet(s.tiers)
             t == sortedTiers(s.tiers)
             n == Len(t)
             I == {1} \cup {i \in 1..n : volume >= t[i].min}
             m == Max(I)
             low == {x \in S : x.min <= volume}
             Applies(x) == IF low = {} THEN \A u \in S : x.min <= u.min
                           ELSE x \in low /\ \A u \in low : u.min <= x.min
  <1>1. /\ t \in Seq(S) /\ n \in Nat \ {0}
        /\ \A i, j \in 1..n : i < j => t[i].min < t[j].min
        /\ \A x \in S : \E i \in 1..n : t[i] = x
    BY TiersSorted
  <1>2. S \subseteq Tier
    <2>1. s.tiers \in Seq(Tier)
      BY DEF IsSchedule
    <2> QED
      BY <2>1 DEF ToSet
  <1>3. \A x \in S : x.min \in Int /\ x.taker \in Nat
    BY <1>2 DEF Tier
  <1> HIDE DEF S, t, n
  <1>4. m \in I /\ \A k \in I : k <= m
    <2>1. I \in SUBSET (1..n) /\ I # {}
      BY <1>1
    <2> HIDE DEF I
    <2> QED
      BY <1>1, <2>1, Sizes!MaxOfBounded DEF Max, Sizes!Largest
  <1>5. m \in 1..n /\ (m = 1 \/ volume >= t[m].min)
    BY <1>1, <1>4
  <1>6. \A i \in 1..n : volume >= t[i].min => i <= m
    BY <1>4
  <1> HIDE DEF m, I
  <1>7. \A i \in 1..n : t[i] \in S /\ t[i].min \in Int
    <2>1. \A i \in 1..n : t[i] \in S
      BY <1>1 DEF n
    <2> QED
      BY <1>3, <2>1
  <1>8. Applies(t[m])
    <2>1. CASE low = {}
      <3>1. m = 1
        BY <1>5, <1>7, <2>1
      <3>2. \A u \in S : t[1].min <= u.min
        <4>1. ASSUME NEW u \in S
              PROVE  t[1].min <= u.min
          <5>1. PICK i \in 1..n : t[i] = u
            BY <1>1
          <5>2. 1 < i \/ i = 1
            OBVIOUS
          <5> QED
            BY <1>1, <1>5, <1>7, <3>1, <5>1, <5>2
        <4> QED
          BY <4>1
      <3> QED
        BY <2>1, <3>1, <3>2
    <2>2. CASE low # {}
      <3>1. PICK x \in low : TRUE
        BY <2>2
      <3>2. volume >= t[m].min
        <4>1. PICK i \in 1..n : t[i] = x
          BY <1>1, <3>1
        <4>2. volume >= t[i].min
          BY <1>7, <3>1, <4>1
        <4>3. i <= m
          BY <1>6, <4>2
        <4>4. CASE m = 1
          <5>1. i = m
            BY <4>3, <4>4
          <5> QED
            BY <4>2, <5>1
        <4> QED
          BY <1>5, <4>4
      <3>3. \A u \in low : u.min <= t[m].min
        <4>1. ASSUME NEW u \in low
              PROVE  u.min <= t[m].min
          <5>1. PICK i \in 1..n : t[i] = u
            BY <1>1, <4>1
          <5>2. volume >= t[i].min
            BY <1>7, <4>1, <5>1
          <5>3. i < m \/ i = m
            BY <1>5, <1>6, <5>2
          <5> QED
            BY <1>1, <1>5, <1>7, <5>1, <5>3
        <4> QED
          BY <4>1
      <3>4. t[m] \in low
        BY <1>5, <1>7, <3>2
      <3> QED
        BY <2>2, <3>3, <3>4
    <2> QED
      BY <2>1, <2>2
  <1>9. \A x, y \in S : x.min = y.min => x = y
    <2>1. ASSUME NEW x \in S, NEW y \in S, x.min = y.min
          PROVE  x = y
      <3>1. PICK i \in 1..n : t[i] = x
        BY <1>1
      <3>2. PICK j \in 1..n : t[j] = y
        BY <1>1
      <3>3. ~(i < j) /\ ~(j < i)
        BY <1>1, <1>7, <2>1, <3>1, <3>2
      <3>4. i = j
        BY <1>1, <3>3
      <3> QED
        BY <3>1, <3>2, <3>4
    <2> QED
      BY <2>1
  <1>10. \A x \in S : Applies(x) => x = t[m]
    <2>1. ASSUME NEW x \in S, Applies(x)
          PROVE  x.min = t[m].min
      <3>1. t[m] \in S /\ x.min \in Int /\ t[m].min \in Int
        BY <1>3, <1>5, <1>7
      <3>2. x.min <= t[m].min /\ t[m].min <= x.min
        <4>1. CASE low = {}
          BY <1>8, <2>1, <3>1, <4>1
        <4>2. CASE low # {}
          BY <1>8, <2>1, <3>1, <4>2
        <4> QED
          BY <4>1, <4>2
      <3> QED
        BY <3>1, <3>2
    <2> HIDE DEF Applies
    <2> QED
      BY <1>5, <1>7, <1>9, <2>1
  <1>11. t[m].taker = RateAt(s.tiers, volume)
    <2>1. RateAt(s.tiers, volume) = (CHOOSE x \in S : Applies(x)).taker
      BY DEF RateAt, S
    <2> HIDE DEF Applies
    <2>2. (CHOOSE x \in S : Applies(x)) = t[m]
      BY <1>5, <1>7, <1>8, <1>10
    <2> QED
      BY <2>1, <2>2
  <1>12. tierFor([s EXCEPT !.tiers = t], volume) = t[m]
    <2>1. [s EXCEPT !.tiers = t].tiers = t
      BY DEF IsSchedule
    <2>2. DOMAIN t = 1..n
      BY <1>1 DEF n
    <2> QED
      BY <2>1, <2>2 DEF tierFor, m, I
  <1>13. t[m].taker \in Nat
    BY <1>3, <1>5, <1>7
  <1> QED
    BY <1>11, <1>12, <1>13 DEF t

-----------------------------------------------------------------------------
(* What fills cost, venue by venue.                                        *)

VenueSums == [{Coinbase, Kraken} -> Nat]

\* These loops are folds too.
LEMMA FeeFolds ==
  ASSUME NEW b, NEW s
  PROVE  /\ FoldLeft(AddFill, b, s) = Splits!Fold(b, s)
         /\ FoldLeft(AddCharge, b, s) = Charges!Fold(b, s)
  <1>1. FoldLeft(AddFill, b, s) = Splits!Fold(b, s)
    BY DEF Splits!Fold, FoldLeft, MapThenFoldSet, Splits!MapThenFoldSet,
           Max, Splits!Largest
  <1>2. FoldLeft(AddCharge, b, s) = Charges!Fold(b, s)
    BY DEF Charges!Fold, FoldLeft, MapThenFoldSet, Charges!MapThenFoldSet,
           Max, Charges!Largest
  <1> QED
    BY <1>1, <1>2

\* A fill that a walk made: its cost did not overflow.
Paid == {fl \in Level : FillCost(fl) # Overflow}

\* What such a fill costs is an amount.
LEMMA PaidCost ==
  ASSUME NEW fl \in Level
  PROVE  /\ FillCost(fl) = IF Rounded(fl.price, fl.qty) > MaxInt64 THEN Overflow
                           ELSE Rounded(fl.price, fl.qty)
         /\ fl \in Paid => FillCost(fl) \in Nat
  <1>1. /\ fl.price \in Nat /\ fl.qty \in Nat
    BY LevelParts
  <1>2. Rounded(fl.price, fl.qty) \in Nat
    BY <1>1, RoundedDown
  <1>3. FillCost(fl) = IF Rounded(fl.price, fl.qty) > MaxInt64 THEN Overflow
                       ELSE Rounded(fl.price, fl.qty)
    BY ScaleAssumption DEF FillCost, mulDiv, Rounded
  <1> QED
    BY <1>2, <1>3 DEF Paid

\* A fill adds its cost to its venue's, and to no other's.
LEMMA OneFill ==
  ASSUME NEW p \in VenueSums, NEW fl \in Paid
  PROVE  /\ AddFill(p, fl) \in VenueSums
         /\ \A v \in {Coinbase, Kraken} :
               AddFill(p, fl)[v] = IF v = fl.venue THEN p[v] + FillCost(fl) ELSE p[v]
  <1>1. fl.venue \in {Coinbase, Kraken} /\ FillCost(fl) \in Nat
    <2>1. fl \in Level
      BY DEF Paid
    <2> QED
      BY <2>1, PaidCost DEF Level
  <1> QED
    BY <1>1 DEF AddFill, VenueSums

\* Each venue's costs at its own rate add up to the fills' costs at their venue's.
LEMMA ChargesSplit ==
  ASSUME NEW fills \in Seq(Paid), NEW r \in [{Coinbase, Kraken} -> Nat]
  PROVE  LET p == PerVenue(fills)
             charges == [i \in 1..Len(fills) |-> FillCost(fills[i]) * r[fills[i].venue]]
         IN /\ p \in VenueSums
            /\ \A v \in {Coinbase, Kraken} : v \notin Routed(fills) => p[v] = 0
            /\ FoldLeft(AddCharge, 0, charges) = p[Coinbase] * r[Coinbase] + p[Kraken] * r[Kraken]
  <1> DEFINE n == Len(fills)
             none == [v \in {Coinbase, Kraken} |-> 0]
             cost(k) == FillCost(fills[k])
             charge(k) == cost(k) * r[fills[k].venue]
             charges == [i \in 1..n |-> charge(i)]
             V == Nat
             b == 0
  <1>1. n \in Nat /\ \A k \in 1..n : fills[k] \in Paid
    OBVIOUS
  <1>2. \A k \in 1..n : fills[k].venue \in {Coinbase, Kraken} /\ cost(k) \in Nat
    <2>1. \A k \in 1..n : fills[k] \in Level
      BY <1>1 DEF Paid
    <2> QED
      BY <1>1, <2>1, PaidCost DEF Level
  <1>3. r[Coinbase] \in Nat /\ r[Kraken] \in Nat
    OBVIOUS
  <1>4. PICK p : Splits!IsRun(p, VenueSums, none, fills) /\ p[n] = PerVenue(fills)
    <2>1. none \in VenueSums
      BY DEF VenueSums
    <2>2. \A s \in VenueSums, fl \in Paid : AddFill(s, fl) \in VenueSums
      BY OneFill
    <2>3. FoldLeft(AddFill, none, fills) = PerVenue(fills)
      BY DEF PerVenue
    <2> HIDE DEF none
    <2>4. \E p : Splits!IsRun(p, VenueSums, none, fills) /\ p[Len(fills)] = Splits!Fold(none, fills)
      BY <2>1, <2>2, Splits!FoldRun
    <2> QED
      BY <2>3, <2>4, FeeFolds
  <1>5. charges \in Seq(Nat) /\ Len(charges) = n /\ \A k \in 1..n : charges[k] = charge(k)
    <2>1. \A k \in 1..n : charge(k) \in Nat
      BY <1>2, <1>3
    <2> HIDE DEF charge
    <2> QED
      BY <1>1, <2>1
  <1>6. PICK h : Charges!IsRun(h, V, b, charges) /\ h[n] = FoldLeft(AddCharge, b, charges)
    <2>1. b \in V
      OBVIOUS
    <2>2. \A s \in V, x \in Nat : AddCharge(s, x) \in V
      BY DEF AddCharge
    <2> HIDE DEF V, b, charges
    <2>4. \E h : Charges!IsRun(h, V, b, charges) /\ h[Len(charges)] = Charges!Fold(b, charges)
      BY <1>5, <2>1, <2>2, Charges!FoldRun
    <2> QED
      BY <1>5, <2>4, FeeFolds
  <1> HIDE DEF charges
  <1>7. /\ p \in [0..n -> VenueSums] /\ p[0] = none
        /\ \A k \in 1..n : p[k] = AddFill(p[k - 1], fills[k])
    BY <1>4 DEF Splits!IsRun
  <1>8. /\ h \in [0..n -> Nat] /\ h[0] = 0
        /\ \A k \in 1..n : h[k] = h[k - 1] + charge(k)
    BY <1>5, <1>6 DEF Charges!IsRun, AddCharge
  <1> DEFINE Good(k) ==
               /\ \A v \in {Coinbase, Kraken} : (\A i \in 1..k : fills[i].venue # v) => p[k][v] = 0
               /\ h[k] = p[k][Coinbase] * r[Coinbase] + p[k][Kraken] * r[Kraken]
             T == {k \in Nat : k <= n => Good(k)}
  <1>9. 0 \in T
    BY <1>3, <1>7, <1>8
  <1>10. ASSUME NEW k \in Nat, k \in T
         PROVE  k + 1 \in T
    <2> SUFFICES ASSUME k + 1 <= n
                 PROVE  Good(k + 1)
      OBVIOUS
    <2> DEFINE a == p[k]
               z == p[k + 1]
               e == k + 1
               w == fills[e].venue
               x == cost(e)
    <2>1. Good(k) /\ k \in 0..n /\ e \in 1..n /\ e - 1 = k
      BY <1>1, <1>10
    <2>2. /\ a \in VenueSums
          /\ \A v \in {Coinbase, Kraken} : z[v] = IF v = w THEN a[v] + x ELSE a[v]
      <3>1. a \in VenueSums /\ z = AddFill(a, fills[e])
        BY <1>7, <2>1
      <3>2. fills[e] \in Paid
        BY <1>1, <2>1
      <3> HIDE DEF a, z, e
      <3> QED
        BY <3>1, <3>2, OneFill
    <2>3. /\ w \in {Coinbase, Kraken} /\ x \in Nat
          /\ h[e] = h[k] + x * r[w]
      BY <1>2, <1>8, <2>1
    <2>4. \A v \in {Coinbase, Kraken} : a[v] \in Nat
      BY <2>2 DEF VenueSums
    <2>5. \A v \in {Coinbase, Kraken} : (\A i \in 1..e : fills[i].venue # v) => z[v] = 0
      <3>1. \A i \in 1..k : i \in 1..e
        BY <2>1
      <3>2. e \in 1..e
        BY <2>1
      <3> HIDE DEF z, e, x
      <3> QED
        BY <2>1, <2>2, <3>1, <3>2
    <2>6. h[e] = z[Coinbase] * r[Coinbase] + z[Kraken] * r[Kraken]
      <3>1. h[k] = a[Coinbase] * r[Coinbase] + a[Kraken] * r[Kraken]
        BY <2>1
      <3> HIDE DEF a, z, e, x, w
      <3> DEFINE rc == r[Coinbase]
                 rk == r[Kraken]
                 ac == a[Coinbase]
                 ak == a[Kraken]
      <3>2. rc \in Nat /\ rk \in Nat /\ ac \in Nat /\ ak \in Nat
        BY <1>3, <2>4
      <3>3. CASE w = Coinbase
        <4>1. z[Coinbase] = ac + x /\ z[Kraken] = ak /\ h[e] = (ac * rc + ak * rk) + x * rc
          BY <2>2, <2>3, <3>1, <3>3, VenuesDiffer
        <4> HIDE DEF rc, rk, ac, ak
        <4>2. (ac + x) * rc + ak * rk = (ac * rc + ak * rk) + x * rc
          BY <2>3, <3>2
        <4> QED
          BY <4>1, <4>2 DEF rc, rk
      <3>4. CASE w = Kraken
        <4>1. z[Coinbase] = ac /\ z[Kraken] = ak + x /\ h[e] = (ac * rc + ak * rk) + x * rk
          BY <2>2, <2>3, <3>1, <3>4, VenuesDiffer
        <4> HIDE DEF rc, rk, ac, ak
        <4>2. ac * rc + (ak + x) * rk = (ac * rc + ak * rk) + x * rk
          BY <2>3, <3>2
        <4> QED
          BY <4>1, <4>2 DEF rc, rk
      <3> QED
        BY <2>3, <3>3, <3>4
    <2> QED
      BY <2>5, <2>6
  <1> HIDE DEF Good
  <1>11. Good(n)
    <2>1. Nat \subseteq T
      <3> HIDE DEF T
      <3> QED
        BY <1>9, <1>10, Sizes!NaturalInduction
    <2> QED
      BY <1>1, <2>1
  <1>12. p[n] \in VenueSums
    BY <1>1, <1>7
  <1>13. \A v \in {Coinbase, Kraken} : v \notin Routed(fills) => \A i \in 1..n : fills[i].venue # v
    BY DEF Routed
  <1> QED
    BY <1>4, <1>6, <1>11, <1>12, <1>13 DEF Good, charges, b

\* A fill more is one more on its venue.
LEMMA PerVenueAppend ==
  ASSUME NEW fills \in Seq(Paid), NEW fl \in Paid
  PROVE  /\ PerVenue(fills) \in VenueSums
         /\ PerVenue(Append(fills, fl)) = AddFill(PerVenue(fills), fl)
         /\ PerVenue(<<>>) = [v \in {Coinbase, Kraken} |-> 0]
  <1> DEFINE none == [v \in {Coinbase, Kraken} |-> 0]
  <1>1. none \in VenueSums
    BY DEF VenueSums
  <1>2. \A s \in VenueSums, x \in Paid : AddFill(s, x) \in VenueSums
    BY OneFill
  <1>3. \A s : PerVenue(s) = Splits!Fold(none, s)
    BY FeeFolds DEF PerVenue
  <1> HIDE DEF none
  <1>4. Splits!Fold(none, fills) \in VenueSums
    BY <1>1, <1>2, Splits!FoldType
  <1>5. Splits!Fold(none, Append(fills, fl)) = AddFill(Splits!Fold(none, fills), fl)
    BY <1>1, <1>2, Splits!FoldAppend
  <1>6. Splits!Fold(none, <<>>) = none
    BY Splits!FoldEmpty
  <1> QED
    BY <1>3, <1>4, <1>5, <1>6 DEF none

\* The notional so far is what the fills on the two venues cost.
Pays(c) ==
  /\ c.fills \in Seq(Paid)
  /\ c.notional = PerVenue(c.fills)[Coinbase] + PerVenue(c.fills)[Kraken]

\* So it is after one level more.
LEMMA LevelPays ==
  ASSUME NEW q \in Nat, NEW c \in Walks(q), Pays(c), NEW lv \in Level
  PROVE  Pays(TakeLevel(c, lv))
  <1>1. CASE c.err # "none" \/ c.left <= 0
    BY <1>1 DEF TakeLevel
  <1>2. CASE c.err = "none" /\ c.left > 0
    <2> DEFINE take == Take(c.left, lv)
               x == Rounded(lv.price, take)
               n == c.notional + x
               fl == [venue |-> lv.venue, price |-> lv.price, qty |-> take]
               b == TakeLevel(c, lv)
               s == c.fills
    <2>1. /\ take \in 1..c.left /\ take <= lv.qty
          /\ b = IF n > MaxInt64 THEN [c EXCEPT !.err = "overflow"]
                 ELSE [err |-> "none", left |-> c.left - take, notional |-> n,
                       fills |-> Append(s, fl)]
      BY <1>2, OneLevel
    <2>2. /\ c.left \in 0..q /\ c.notional \in 0..MaxInt64 /\ MaxInt64 \in Nat
          /\ c = [err |-> c.err, left |-> c.left, notional |-> c.notional, fills |-> c.fills]
      BY ScaleAssumption DEF Walks
    <2>3. CASE n > MaxInt64
      <3>1. b.fills = c.fills /\ b.notional = c.notional
        BY <2>1, <2>2, <2>3
      <3> HIDE DEF b
      <3> QED
        BY <3>1 DEF Pays, b
    <2>4. CASE ~(n > MaxInt64)
      <3>1. b.fills = Append(s, fl) /\ b.notional = n
        <4> HIDE DEF fl, n
        <4> QED
          BY <2>1, <2>4
      <3>2. lv.venue \in {Coinbase, Kraken} /\ lv.price \in 1..MaxInt64 /\ lv.qty \in 1..MaxInt64
        BY DEF Level
      <3>3. fl \in Level /\ x \in Nat
        <4>1. take \in 1..MaxInt64 /\ take \in Nat /\ lv.price \in Nat
          BY <2>1, <2>2, <3>2
        <4> HIDE DEF take
        <4> QED
          BY <3>2, <4>1, RoundedDown DEF Level
      <3>4. fl.price = lv.price /\ fl.qty = take /\ fl.venue = lv.venue
        OBVIOUS
      <3> HIDE DEF fl, take, b, s
      <3>5. FillCost(fl) = x /\ fl \in Paid
        <4>1. ~(x > MaxInt64) /\ x # Overflow
          BY <2>2, <2>4, <3>3 DEF Overflow
        <4>2. FillCost(fl) = IF x > MaxInt64 THEN Overflow ELSE x
          BY <3>3, <3>4, PaidCost
        <4> QED
          BY <3>3, <4>1, <4>2 DEF Paid
      <3>6. s \in Seq(Paid) /\ c.notional = PerVenue(s)[Coinbase] + PerVenue(s)[Kraken]
        BY DEF Pays, s
      <3>7. Append(s, fl) \in Seq(Paid)
        BY <3>5, <3>6
      <3> DEFINE p == PerVenue(s)
                 z == PerVenue(Append(s, fl))
      <3>8. /\ p \in VenueSums
            /\ \A v \in {Coinbase, Kraken} : z[v] = IF v = fl.venue THEN p[v] + FillCost(fl) ELSE p[v]
        BY <3>5, <3>6, PerVenueAppend, OneFill
      <3> HIDE DEF p, z
      <3>9. p[Coinbase] \in Nat /\ p[Kraken] \in Nat
        BY <3>8 DEF VenueSums
      <3>10. z[Coinbase] + z[Kraken] = (p[Coinbase] + p[Kraken]) + x
        <4> HIDE DEF x
        <4>1. fl.venue = Coinbase \/ fl.venue = Kraken
          BY <3>2, <3>4
        <4>2. CASE fl.venue = Coinbase
          BY <3>3, <3>5, <3>8, <3>9, <4>2, VenuesDiffer
        <4>3. CASE fl.venue = Kraken
          BY <3>3, <3>5, <3>8, <3>9, <4>3, VenuesDiffer
        <4> QED
          BY <4>1, <4>2, <4>3
      <3> QED
        BY <3>1, <3>6, <3>7, <3>10 DEF Pays, p, z, b
    <2> QED
      BY <2>3, <2>4
  <1> QED
    <2>1. c.err = "none" \/ c.err # "none"
      OBVIOUS
    <2>2. c.left <= 0 \/ c.left > 0
      BY DEF Walks
    <2> QED
      BY <1>1, <1>2, <2>1, <2>2

\* What a walk reports is paid for, and adds up over the two venues.
LEMMA WalkPays ==
  ASSUME NEW l \in Seq(Level), NEW side, NEW q \in Int
  PROVE  LET c == Walk(l, side, q)
         IN /\ c.fills \in Seq(Paid) /\ c.notional \in Nat
            /\ c.notional # 0 =>
                 c.notional = PerVenue(c.fills)[Coinbase] + PerVenue(c.fills)[Kraken]
  <1>1. \A why : Refused(why).fills = <<>> /\ Refused(why).notional = 0
    BY DEF Refused
  <1>2. CASE q <= 0 \/ l = <<>> \/ ~SortedBestFirst(side, l)
    <2>1. PICK why : Walk(l, side, q) = Refused(why)
      BY <1>2 DEF Walk
    <2> DEFINE w == Walk(l, side, q)
    <2>2. w.fills = <<>> /\ w.notional = 0
      BY <1>1, <2>1
    <2>3. <<>> \in Seq(Paid)
      OBVIOUS
    <2> HIDE DEF w
    <2>4. w.fills \in Seq(Paid) /\ w.notional \in Nat /\ ~(w.notional # 0)
      BY <2>2, <2>3
    <2> QED
      BY <2>4 DEF w
  <1>3. CASE q > 0 /\ l # <<>> /\ SortedBestFirst(side, l)
    <2> DEFINE V == {c \in Walks(q) : Pays(c)}
               b == Begun(q)
               w == FoldLeft(TakeLevel, b, l)
               z == Costed(w, q)
    <2>1. q \in Nat
      BY <1>3
    <2>2. b \in V
      <3>1. b \in Walks(q) /\ b.fills = <<>> /\ b.notional = 0
        BY <2>1, ScaleAssumption DEF Begun, Walks
      <3>2. PerVenue(<<>>) = [v \in {Coinbase, Kraken} |-> 0]
        BY FeeFolds, Splits!FoldEmpty DEF PerVenue
      <3>3. /\ <<>> \in Seq(Paid)
            /\ PerVenue(<<>>)[Coinbase] = 0 /\ PerVenue(<<>>)[Kraken] = 0
        BY <3>2
      <3> HIDE DEF b
      <3>4. Pays(b)
        BY <3>1, <3>3 DEF Pays
      <3> QED
        BY <3>1, <3>4
    <2>3. \A c \in V, lv \in Level : TakeLevel(c, lv) \in V
      BY <2>1, OneLevelType, LevelPays
    <2>4. w \in V
      <3> HIDE DEF V, b
      <3>1. Levels!Fold(b, l) \in V
        BY <2>2, <2>3, Levels!FoldType
      <3> QED
        BY <3>1, FoldsAreFolds
    <2> HIDE DEF w
    <2>5. w \in Walks(q) /\ Pays(w)
      BY <2>4
    <2>6. z.fills = w.fills /\ z.notional \in {0, w.notional}
      BY DEF Costed
    <2>7. w.notional \in Nat /\ MaxInt64 \in Nat
      BY <2>5, ScaleAssumption DEF Walks
    <2>8. Walk(l, side, q) = z
      <3> HIDE DEF z
      <3>1. ~(q <= 0)
        BY <1>3
      <3> QED
        BY <1>3, <3>1 DEF Walk, z, w
    <2> HIDE DEF z
    <2> QED
      BY <2>5, <2>6, <2>7, <2>8 DEF Pays
  <1> QED
    <2>1. q <= 0 \/ q > 0
      OBVIOUS
    <2> QED
      BY <1>2, <1>3, <2>1

\* The highest of two rates or of none.
LEMMA HighestRate ==
  ASSUME NEW S \in SUBSET {Coinbase, Kraken}, NEW r \in [{Coinbase, Kraken} -> Nat]
  PROVE  LET m == Max({0} \cup {r[v] : v \in S})
         IN m \in Nat /\ \A v \in S : r[v] <= m
  <1> DEFINE I == {0} \cup {r[v] : v \in S}
             x == r[Coinbase]
             y == r[Kraken]
  <1>1. x \in Nat /\ y \in Nat
    OBVIOUS
  <1>2. S = {} \/ S = {Coinbase} \/ S = {Kraken} \/ S = {Coinbase, Kraken}
    OBVIOUS
  <1>3. I = {0} \/ I = {0, x} \/ I = {0, y} \/ I = {0, x, y}
    BY <1>2
  <1>4. \A v \in S : r[v] \in I
    OBVIOUS
  <1> HIDE DEF I, x, y
  <1>5. I \subseteq Nat /\ \E a \in I : \A b \in I : a >= b
    BY <1>1, <1>3
  <1>6. Max(I) \in I /\ \A b \in I : Max(I) >= b
    BY <1>5 DEF Max
  <1>7. Max(I) \in Nat /\ \A v \in S : r[v] <= Max(I)
    BY <1>4, <1>5, <1>6
  <1> QED
    BY <1>7 DEF I

\* How many venues a walk went to.
LEMMA VenuesRouted ==
  ASSUME NEW S \in SUBSET {Coinbase, Kraken}
  PROVE  Cardinality(S) = (IF Coinbase \in S THEN 1 ELSE 0) + (IF Kraken \in S THEN 1 ELSE 0)
  <1>1. S = {} \/ S = {Coinbase} \/ S = {Kraken} \/ S = {Coinbase} \cup {Kraken}
    OBVIOUS
  <1>2. Cardinality({}) = 0 /\ Cardinality({Coinbase}) = 1 /\ Cardinality({Kraken}) = 1
    BY FS_EmptySet, FS_Singleton
  <1>3. Cardinality({Coinbase} \cup {Kraken}) = 2
    <2>1. IsFiniteSet({Coinbase}) /\ Kraken \notin {Coinbase}
      BY FS_Singleton, VenuesDiffer
    <2>2. Cardinality({Coinbase} \cup {Kraken}) = Cardinality({Coinbase}) + 1
      BY <2>1, FS_AddElement
    <2> QED
      BY <1>2, <2>2
  <1> QED
    BY <1>1, <1>2, <1>3, VenuesDiffer

\* A part at a rate, in units of the rate, rounded down.
LEMMA RateRounded ==
  ASSUME NEW x \in Nat, NEW u \in Nat \ {0}
  PROVE  /\ x \div u \in Nat
         /\ (x \div u) * u <= x /\ x < (x \div u + 1) * u
         /\ x = 0 => x \div u = 0
  OBVIOUS

\* A ratio rounded down is no more than what bounds the ratio.
LEMMA RatioBelow ==
  ASSUME NEW f \in Nat, NEW u \in Nat, NEW n \in Nat \ {0}, NEW m \in Nat, NEW scale \in Nat,
         f * u <= n * m
  PROVE  ((f * scale) \div n) * u <= scale * m
  <1> DEFINE x == (f * scale) \div n
             a == x * u
  <1>1. x \in Nat /\ x * n <= f * scale
    <2> DEFINE y == f * scale
    <2>1. y \in Nat
      OBVIOUS
    <2> HIDE DEF y
    <2>2. y \div n \in Nat /\ (y \div n) * n <= y
      BY <2>1, RateRounded
    <2> QED
      BY <2>2 DEF y
  <1> HIDE DEF x
  <1>2. a \in Nat /\ n * a = (x * n) * u
    BY <1>1
  <1>3. (x * n) * u <= (f * scale) * u
    <2> DEFINE p == x * n
               z == f * scale
    <2>1. p \in Nat /\ z \in Nat /\ p <= z
      BY <1>1
    <2> HIDE DEF p, z
    <2>2. p * u <= z * u
      BY <2>1
    <2> QED
      BY <2>2 DEF p, z
  <1>4. (f * scale) * u = scale * (f * u) /\ f * u \in Nat /\ n * m \in Nat
    OBVIOUS
  <1>5. scale * (n * m) = n * (scale * m)
    OBVIOUS
  <1> DEFINE c == scale * m
  <1>6. n * a <= n * c
    <2> DEFINE g == f * u
               h == n * m
               k == n * a
    <2>1. g \in Nat /\ h \in Nat /\ k \in Nat /\ g <= h /\ k <= scale * g
      BY <1>1, <1>2, <1>3, <1>4
    <2>2. scale * h = n * c
      BY <1>5
    <2> HIDE DEF g, h, k, c
    <2>3. k <= n * c
      BY <2>1, <2>2
    <2> QED
      BY <2>3 DEF k
  <1>7. c \in Nat
    OBVIOUS
  <1> HIDE DEF a, c
  <1>8. a <= c
    <2>1. SUFFICES ASSUME a >= c + 1
                   PROVE  FALSE
      BY <1>2, <1>7
    <2>2. n * a >= n * (c + 1)
      BY <1>2, <1>7, <2>1
    <2>3. n * (c + 1) = n * c + n /\ n * c \in Nat /\ n * a \in Nat
      BY <1>2, <1>7
    <2> QED
      BY <1>6, <2>2, <2>3
  <1> QED
    BY <1>8 DEF a, c, x

\* What the table answers for a venue.
LEMMA TableRates ==
  ASSUME NEW volume \in Int, NEW scheds, DOMAIN scheds \subseteq {Coinbase, Kraken},
         \A v \in DOMAIN scheds : IsSchedule(scheds[v]), NEW v \in {Coinbase, Kraken}
  PROVE  LET t == TakerRate(NewFeeTable(volume, scheds), v)
         IN /\ t.ok = (v \in DOMAIN scheds)
            /\ t.rate = IF v \in DOMAIN scheds THEN RateAt(scheds[v].tiers, volume) ELSE 0
            /\ t.rate \in Nat
  <1> DEFINE f == NewFeeTable(volume, scheds)
             t == TakerRate(f, v)
  <1>1. /\ f.volume = volume /\ DOMAIN f.schedules = DOMAIN scheds
        /\ \A w \in DOMAIN scheds :
              f.schedules[w] = [scheds[w] EXCEPT !.tiers = sortedTiers(scheds[w].tiers)]
    BY DEF NewFeeTable
  <1> HIDE DEF f
  <1>2. CASE v \in DOMAIN scheds
    <2>1. t = [rate |-> tierFor(f.schedules[v], volume).taker,
               verified |-> f.schedules[v].verified, ok |-> TRUE]
      BY <1>1, <1>2 DEF TakerRate
    <2>2. f.schedules[v] = [scheds[v] EXCEPT !.tiers = sortedTiers(scheds[v].tiers)]
      BY <1>1, <1>2
    <2>3. IsSchedule(scheds[v])
      BY <1>2
    <2>4. /\ tierFor(f.schedules[v], volume).taker = RateAt(scheds[v].tiers, volume)
          /\ RateAt(scheds[v].tiers, volume) \in Nat
      BY <2>2, <2>3, TierEarned
    <2>5. t.ok = TRUE /\ t.rate = tierFor(f.schedules[v], volume).taker
      BY <2>1
    <2> HIDE DEF t
    <2> QED
      BY <1>2, <2>4, <2>5 DEF t, f
  <1>3. CASE v \notin DOMAIN scheds
    <2>1. t = NoSchedule
      BY <1>1, <1>3 DEF TakerRate
    <2>2. t.ok = FALSE /\ t.rate = 0
      BY <2>1 DEF NoSchedule
    <2> HIDE DEF t
    <2>3. (v \in DOMAIN scheds) = FALSE
      BY <1>3
    <2>4. t.ok = (v \in DOMAIN scheds)
      BY <2>2, <2>3, Zenon
    <2>5. t.rate \in Nat
      BY <2>2
    <2> QED
      BY <1>3, <2>2, <2>4, <2>5 DEF t, f
  <1> QED
    BY <1>2, <1>3

\* The fee of a walk follows what each fill cost at its own venue's rate, whatever the
\* books, the order, the volume and the schedules (fees.go:171-217).
LEMMA FeeIsFair ==
  ASSUME NEW l \in Seq(Level), NEW side, NEW q \in Int, NEW volume \in Int,
         RateUnit \in Nat \ {0},
         NEW scheds, DOMAIN scheds \subseteq {Coinbase, Kraken},
         \A v \in DOMAIN scheds : IsSchedule(scheds[v])
  PROVE  FeeFollows(volume, scheds, Walk(l, side, q))
  <1> DEFINE c == Walk(l, side, q)
             f == NewFeeTable(volume, scheds)
             u == RateUnit
             S == Routed(c.fills)
             p == PerVenue(c.fills)
             rate(v) == RateAt(scheds[v].tiers, volume)
             r == [v \in {Coinbase, Kraken} |-> TakerRate(f, v).rate]
             charges == [i \in 1..Len(c.fills) |->
                            FillCost(c.fills[i]) * rate(c.fills[i].venue)]
             charged == FoldLeft(AddCharge, 0, charges)
             m == Max({0} \cup {rate(v) : v \in S})
             x == p[Coinbase] * r[Coinbase]
             y == p[Kraken] * r[Kraken]
             fee == x \div u + y \div u
  <1>1. /\ c.fills \in Seq(Paid) /\ c.notional \in Nat
        /\ c.notional # 0 => c.notional = p[Coinbase] + p[Kraken]
    BY WalkPays
  <1>2. \A v \in {Coinbase, Kraken} :
           /\ TakerRate(f, v).ok = (v \in DOMAIN scheds)
           /\ v \in DOMAIN scheds => TakerRate(f, v).rate = rate(v)
           /\ TakerRate(f, v).rate \in Nat
    BY TableRates
  <1>3. r \in [{Coinbase, Kraken} -> Nat]
    BY <1>2
  <1> DEFINE fills == c.fills
             n == c.notional
  <1>4. /\ \A i \in 1..Len(fills) : fills[i] \in Paid /\ fills[i].venue \in S
        /\ DOMAIN fills = 1..Len(fills)
    BY <1>1 DEF Routed
  <1>5. S \subseteq {Coinbase, Kraken}
    <2>1. \A i \in 1..Len(fills) : fills[i].venue \in {Coinbase, Kraken}
      BY <1>4 DEF Paid, Level
    <2> QED
      BY <1>4, <2>1 DEF Routed
  <1>6. \A i \in DOMAIN fills : FillCost(fills[i]) # Overflow
    BY <1>4 DEF Paid
  <1>7. /\ p \in VenueSums
        /\ \A v \in {Coinbase, Kraken} : v \notin S => p[v] = 0
        /\ FoldLeft(AddCharge, 0, [i \in 1..Len(fills) |-> FillCost(fills[i]) * r[fills[i].venue]])
              = x + y
    <2> HIDE DEF r, c
    <2> QED
      BY <1>1, <1>3, ChargesSplit
  <1>8. TakerFee(f, c) = IF S \subseteq DOMAIN scheds THEN fee ELSE FeeError
    <2>1. (\E v \in S : ~TakerRate(f, v).ok) <=> ~(S \subseteq DOMAIN scheds)
      BY <1>2, <1>5
    <2>2. TakerFee(f, c) =
            IF (\E i \in DOMAIN fills : FillCost(fills[i]) = Overflow)
               \/ \E v \in S : ~TakerRate(f, v).ok
            THEN FeeError
            ELSE (p[Coinbase] * TakerRate(f, Coinbase).rate) \div u
                 + (p[Kraken] * TakerRate(f, Kraken).rate) \div u
      BY DEF TakerFee
    <2>3. r[Coinbase] = TakerRate(f, Coinbase).rate /\ r[Kraken] = TakerRate(f, Kraken).rate
      OBVIOUS
    <2> HIDE DEF c, f, p, S, r, u, fills
    <2> QED
      BY <1>6, <2>1, <2>2, <2>3
  <1>9. CASE ~(S \subseteq DOMAIN scheds)
    <2>1. TakerFee(f, c) = FeeError
      BY <1>8, <1>9
    <2>2. TotalCost(f, c) = FeeError
      BY <2>1 DEF TotalCost
    <2> QED
      BY <1>9, <2>1, <2>2 DEF FeeFollows
  <1>10. CASE S \subseteq DOMAIN scheds
    <2>1. \A v \in S : r[v] = rate(v)
      BY <1>2, <1>5, <1>10
    <2>2. charged = x + y
      <3>1. \A i \in 1..Len(fills) : r[fills[i].venue] = rate(fills[i].venue)
        BY <1>4, <2>1
      <3> HIDE DEF r, rate, fills, x, y
      <3>2. [i \in 1..Len(fills) |-> FillCost(fills[i]) * r[fills[i].venue]]
              = [i \in 1..Len(fills) |-> FillCost(fills[i]) * rate(fills[i].venue)]
        BY <3>1
      <3> QED
        BY <1>7, <3>2 DEF fills
    <2>3. m \in Nat /\ \A v \in S : r[v] <= m
      <3>1. {rate(v) : v \in S} = {r[v] : v \in S}
        BY <2>1
      <3> HIDE DEF r, rate, S
      <3> QED
        BY <1>3, <1>5, <3>1, HighestRate
    <2>4. /\ p[Coinbase] \in Nat /\ p[Kraken] \in Nat /\ r[Coinbase] \in Nat /\ r[Kraken] \in Nat
      BY <1>3, <1>7 DEF VenueSums
    <2>5. /\ x \in Nat /\ y \in Nat
          /\ x <= p[Coinbase] * m /\ y <= p[Kraken] * m
          /\ Coinbase \notin S => x = 0
          /\ Kraken \notin S => y = 0
      <3> DEFINE a == p[Coinbase]
                 b == p[Kraken]
                 rc == r[Coinbase]
                 rk == r[Kraken]
      <3>1. /\ Coinbase \notin S => a = 0
            /\ Kraken \notin S => b = 0
            /\ Coinbase \in S => rc <= m
            /\ Kraken \in S => rk <= m
        BY <1>7, <2>3
      <3>2. a \in Nat /\ b \in Nat /\ rc \in Nat /\ rk \in Nat
        BY <2>4
      <3> HIDE DEF a, b, rc, rk, m
      <3>3. /\ a * rc \in Nat /\ b * rk \in Nat
            /\ a = 0 => a * rc = 0 /\ a * m = 0
            /\ b = 0 => b * rk = 0 /\ b * m = 0
        BY <2>3, <3>2
      <3>4. rc <= m => a * rc <= a * m
        BY <2>3, <3>2
      <3>5. rk <= m => b * rk <= b * m
        BY <2>3, <3>2
      <3> QED
        BY <3>1, <3>3, <3>4, <3>5 DEF a, b, rc, rk
    <2> DEFINE fx == x \div u
               fy == y \div u
    <2>6. u \in Nat \ {0}
      OBVIOUS
    <2> HIDE DEF u, x, y, m, c, f, S, p, r, n, fills
    <2>7. /\ fx \in Nat /\ fx * u <= x /\ x < (fx + 1) * u /\ (x = 0 => fx = 0)
          /\ fy \in Nat /\ fy * u <= y /\ y < (fy + 1) * u /\ (y = 0 => fy = 0)
      BY <2>5, <2>6, RateRounded
    <2> HIDE DEF fx, fy, charged
    <2>8. fee = fx + fy
      BY DEF fx, fy
    <2>9. (fx + fy) * u <= x + y
      <3> DEFINE a == fx * u
                 b == fy * u
      <3>1. a \in Nat /\ b \in Nat /\ (fx + fy) * u = a + b
        BY <2>6, <2>7
      <3>2. a <= x /\ b <= y
        BY <2>7
      <3> HIDE DEF a, b
      <3> QED
        BY <2>5, <3>1, <3>2
    <2>10. S # {} => x + y < ((fx + fy) + Cardinality(S)) * u
      <3> DEFINE a == fx * u
                 b == fy * u
      <3>1. /\ a \in Nat /\ b \in Nat /\ (fx + 1) * u = a + u /\ (fy + 1) * u = b + u
            /\ ((fx + fy) + 1) * u = (a + b) + u
            /\ ((fx + fy) + 2) * u = (a + b) + (u + u)
        BY <2>6, <2>7
      <3>2. x < a + u /\ y < b + u
        BY <2>7, <3>1
      <3>3. Cardinality(S) = (IF Coinbase \in S THEN 1 ELSE 0) + (IF Kraken \in S THEN 1 ELSE 0)
        BY <1>5, VenuesRouted
      <3> HIDE DEF a, b
      <3>4. CASE Coinbase \in S /\ Kraken \in S
        <4>1. Cardinality(S) = 2
          BY <3>3, <3>4
        <4> QED
          BY <2>5, <2>6, <3>1, <3>2, <4>1
      <3>5. CASE Coinbase \in S /\ Kraken \notin S
        <4>1. Cardinality(S) = 1 /\ y = 0
          BY <2>5, <3>3, <3>5
        <4> QED
          BY <2>5, <2>6, <3>1, <3>2, <4>1
      <3>6. CASE Coinbase \notin S /\ Kraken \in S
        <4>1. Cardinality(S) = 1 /\ x = 0
          BY <2>5, <3>3, <3>6
        <4> QED
          BY <2>5, <2>6, <3>1, <3>2, <4>1
      <3>7. CASE Coinbase \notin S /\ Kraken \notin S
        BY <1>5, <3>7
      <3> QED
        BY <3>4, <3>5, <3>6, <3>7
    <2>11. TakerFee(f, c) = fx + fy /\ fx + fy # FeeError
      BY <1>8, <1>10, <2>7, <2>8 DEF FeeError
    <2>12. TotalCost(f, c) = c.notional + (fx + fy)
      BY <2>11 DEF TotalCost
    <2>13. FeeBps(f, c) * u <= 10000 * m
      <3>1. CASE n = 0
        <4>1. FeeBps(f, c) = 0
          BY <3>1 DEF FeeBps, n
        <4> QED
          BY <2>3, <2>6, <4>1
      <3>2. CASE n # 0
        <4>1. FeeBps(f, c) = ((fx + fy) * 10000) \div n
          BY <2>11, <3>2 DEF FeeBps, n
        <4> DEFINE a == p[Coinbase]
                   b == p[Kraken]
                   am == a * m
                   bm == b * m
        <4>2. n \in Nat \ {0} /\ n = a + b
          BY <1>1, <3>2 DEF n
        <4>3. a \in Nat /\ b \in Nat /\ x <= am /\ y <= bm
          BY <2>4, <2>5
        <4> HIDE DEF a, b
        <4>4. n * m = am + bm /\ am \in Nat /\ bm \in Nat
          BY <2>3, <4>2, <4>3
        <4> HIDE DEF am, bm
        <4> DEFINE z == fx + fy
                   zu == z * u
        <4>5. z \in Nat /\ zu \in Nat /\ zu <= x + y
          BY <2>6, <2>7, <2>9
        <4> HIDE DEF z, zu
        <4>6. zu <= n * m
          BY <2>5, <4>3, <4>4, <4>5
        <4>7. u \in Nat
          BY <2>6
        <4>8. ((z * 10000) \div n) * u <= 10000 * m
          <5>1. z \in Nat /\ n \in Nat \ {0} /\ m \in Nat /\ z * u <= n * m
            BY <2>3, <4>2, <4>5, <4>6 DEF zu
          <5> DEFINE scale == 10000
          <5>2. scale \in Nat
            OBVIOUS
          <5> HIDE DEF scale
          <5>3. ((z * scale) \div n) * u <= scale * m
            BY <4>7, <5>1, <5>2, RatioBelow, Zenon
          <5> QED
            BY <5>3 DEF scale
        <4> QED
          BY <4>1, <4>8 DEF z
      <3> QED
        BY <3>1, <3>2
    <2>14. /\ TakerFee(f, c) * u <= charged
           /\ S # {} => charged < (TakerFee(f, c) + Cardinality(S)) * u
      BY <2>2, <2>9, <2>10, <2>11
    <2>15. TotalCost(f, c) = c.notional + TakerFee(f, c)
      BY <2>11, <2>12
    <2> QED
      BY <1>10, <2>13, <2>14, <2>15 DEF FeeFollows, charged, m, u, c, f, S, p
  <1> QED
    BY <1>9, <1>10

-----------------------------------------------------------------------------
(* The ladder over two books.                                              *)

\* A side of a venue's book as Merge is given it.
OneSide(S) == IsFiniteSet(S) /\ S \subseteq [price : 1..MaxInt64, qty : 0..MaxInt64]

\* A venue's levels, with its name on them, are as many or fewer.
LEMMA VenueLevelsFinite ==
  ASSUME NEW v, NEW S, IsFiniteSet(S)
  PROVE  IsFiniteSet({[venue |-> v, price |-> l.price, qty |-> l.qty] : l \in S})
  <1> DEFINE T == {[venue |-> v, price |-> l.price, qty |-> l.qty] : l \in S}
             f == [l \in S |-> [venue |-> v, price |-> l.price, qty |-> l.qty]]
  <1>1. f \in Surjection(S, T)
    BY DEF Surjection
  <1> HIDE DEF f, T
  <1>2. IsFiniteSet(T)
    BY <1>1, FS_Surjection
  <1> QED
    BY <1>2 DEF T

\* Not being before is transitive, and of two levels one is not before the other.
LEMMA RankedLevels ==
  ASSUME NEW side, NEW x \in Level, NEW y \in Level, NEW z \in Level
  PROVE  /\ ~Before(side, x, y) \/ ~Before(side, y, x)
         /\ ~Before(side, y, x) /\ ~Before(side, z, y) => ~Before(side, z, x)
  <1>1. /\ x.price \in Int /\ y.price \in Int /\ z.price \in Int
        /\ x.qty \in Int /\ y.qty \in Int /\ z.qty \in Int
        /\ x.venue \in {Coinbase, Kraken} /\ y.venue \in {Coinbase, Kraken}
        /\ z.venue \in {Coinbase, Kraken} /\ Coinbase # Kraken
    BY ScaleAssumption, VenuesDiffer DEF Level
  <1>2. CASE side = "ask"
    BY <1>1, <1>2 DEF Before, better
  <1>3. CASE side # "ask"
    BY <1>1, <1>3 DEF Before, better
  <1> QED
    BY <1>2, <1>3

\* Merge puts what both venues display in order, best first.
THEOREM MergedInOrder ==
  ASSUME NEW side, NEW p, DOMAIN p = {Coinbase, Kraken}, \A v \in DOMAIN p : OneSide(p[v])
  PROVE  Merge(side, p) \in Seq(Level) /\ SortedBestFirst(side, Merge(side, p))
  <1> DEFINE Of(v) == {[venue |-> v, price |-> l.price, qty |-> l.qty] : l \in p[v]}
             levels == UNION {Of(v) : v \in DOMAIN p}
             S == {l \in levels : l.qty > 0 /\ l.price > 0}
             n == Cardinality(S)
             R == {x \in S \X S : ~Before(side, x[2], x[1])}
             Sorted(l) == \A i, j \in DOMAIN l : i < j => ~Before(side, l[j], l[i])
             m == CHOOSE l \in SetToSeqs(S) : Sorted(l)
  <1>1. Merge(side, p) = m
    BY DEF Merge
  <1>2. IsFiniteSet(S)
    <2>1. IsFiniteSet(Of(Coinbase)) /\ IsFiniteSet(Of(Kraken))
      BY VenueLevelsFinite DEF OneSide
    <2>2. levels = Of(Coinbase) \cup Of(Kraken)
      OBVIOUS
    <2> HIDE DEF Of, levels
    <2>3. IsFiniteSet(levels)
      BY <2>1, <2>2, FS_Union
    <2> QED
      BY <2>3, FS_Subset
  <1>3. \A l \in S : l \in Level
    <2> SUFFICES ASSUME NEW v \in DOMAIN p, NEW l \in p[v], l.qty > 0
                 PROVE  [venue |-> v, price |-> l.price, qty |-> l.qty] \in Level
      OBVIOUS
    <2>1. l.price \in 1..MaxInt64 /\ l.qty \in 0..MaxInt64
      BY DEF OneSide
    <2> DEFINE a == l.price
               b == l.qty
    <2>2. a \in 1..MaxInt64 /\ b \in 1..MaxInt64
      BY <2>1, ScaleAssumption
    <2> HIDE DEF a, b
    <2>3. [venue |-> v, price |-> a, qty |-> b] \in Level
      BY <2>2 DEF Level
    <2> QED
      BY <2>3 DEF a, b
  <1> HIDE DEF S
  <1>4. /\ \A x, y \in S : <<x, y>> \in R \/ <<y, x>> \in R
        /\ \A x, y, z \in S : <<x, y>> \in R /\ <<y, z>> \in R => <<x, z>> \in R
    BY <1>3, RankedLevels
  <1>5. PICK f : Lists(f, n, S, R)
    <2> HIDE DEF R
    <2> QED
      BY <1>2, <1>4, ListedInOrder
  <1>6. n \in Nat
    BY <1>2, FS_CardinalityType
  <1> HIDE DEF n
  <1>7. /\ f \in [1..n -> S]
        /\ \A i, j \in 1..n : i < j => f[i] # f[j] /\ ~Before(side, f[j], f[i])
    BY <1>5 DEF Lists
  <1>8. m \in SetToSeqs(S) /\ Sorted(m)
    <2>1. \A i, j \in 1..n : i # j => f[i] # f[j]
      <3> SUFFICES ASSUME NEW i \in 1..n, NEW j \in 1..n, i # j
                   PROVE  f[i] # f[j]
        OBVIOUS
      <3>1. i < j \/ j < i
        BY <1>6
      <3> QED
        BY <1>7, <3>1
    <2>2. f \in SetToSeqs(S)
      BY <1>7, <2>1 DEF SetToSeqs, n
    <2>3. Sorted(f)
      BY <1>7
    <2> HIDE DEF Sorted
    <2> QED
      BY <2>2, <2>3
  <1>9. m \in [1..n -> S] /\ DOMAIN m = 1..n
    <2> HIDE DEF m
    <2> QED
      BY <1>8 DEF SetToSeqs, n
  <1>10. \A i, j \in 1..n : i < j => ~Before(side, m[j], m[i])
    <2> HIDE DEF m
    <2> QED
      BY <1>8, <1>9
  <1> HIDE DEF m, R, Sorted
  <1>11. m \in Seq(Level) /\ Len(m) = n
    <2>1. m \in [1..n -> Level]
      BY <1>3, <1>9
    <2> QED
      BY <1>6, <1>9, <2>1
  <1>12. SortedBestFirst(side, m)
    <2> SUFFICES ASSUME NEW i \in 2..Len(m)
                 PROVE  ~better(side, m[i].price, m[i - 1].price)
      BY DEF SortedBestFirst
    <2>1. i \in 1..n /\ i - 1 \in 1..n /\ i - 1 < i
      BY <1>6, <1>11
    <2>2. ~Before(side, m[i], m[i - 1])
      BY <1>10, <2>1
    <2> QED
      BY <2>2 DEF Before
  <1> QED
    BY <1>1, <1>11, <1>12

-----------------------------------------------------------------------------
(* Orders against books that come and go.                                  *)

\* The books are of those there may be, and so is the order.
PricingInv == /\ per \in [{Coinbase, Kraken} -> VenueBooks \cup {{}}]
              /\ order \in Orders

LEMMA PricingInvariant == PricingSpec => []PricingInv
  <1>1. PricingInit => PricingInv
    BY DEF PricingInit, PricingInv
  <1>2. PricingInv /\ [PricingNext]_<<per, order>> => PricingInv'
    <2> SUFFICES ASSUME PricingInv, [PricingNext]_<<per, order>>
                 PROVE  PricingInv'
      OBVIOUS
    <2>1. ASSUME NEW v \in {Coinbase, Kraken}, ChangeBook(v)
          PROVE  PricingInv'
      BY <2>1 DEF ChangeBook, PricingInv
    <2>2. CASE UNCHANGED <<per, order>>
      BY <2>2 DEF PricingInv
    <2> QED
      BY <2>1, <2>2 DEF PricingNext
  <1> QED
    BY <1>1, <1>2, PTL DEF PricingSpec

\* So that there is a ladder to walk.
LEMMA LadderInOrder ==
  ASSUME PricingInv
  PROVE  /\ Ladder \in Seq(Level) /\ SortedBestFirst(order.side, Ladder)
         /\ order.size \in Int
  <1>1. \A S \in VenueBooks \cup {{}} : OneSide(S)
    BY PricingAssumption, FS_EmptySet DEF OneSide
  <1>2. DOMAIN per = {Coinbase, Kraken} /\ \A v \in DOMAIN per : OneSide(per[v])
    BY <1>1 DEF PricingInv
  <1>3. order.size \in Int
    BY PricingAssumption DEF PricingInv
  <1> QED
    BY <1>2, <1>3, MergedInOrder DEF Ladder

\* A walk of a size on display is the best execution there is, whatever the books and
\* the order (ladder.go:162-222).
THEOREM WalksAreBest == PricingSpec => []WalkIsBestExecution
  <1>1. PricingInv => WalkIsBestExecution
    BY LadderInOrder, WalkTakesTheBest DEF WalkIsBestExecution
  <1> QED
    BY <1>1, PricingInvariant, PTL

\* Size the books do not display is refused, with what they do display filled
\* (ladder.go:190-222).
THEOREM BeyondDisplayRefused == PricingSpec => []RefusesBeyondDisplay
  <1>1. PricingInv => RefusesBeyondDisplay
    BY LadderInOrder, WalkRefuses DEF RefusesBeyondDisplay
  <1> QED
    BY <1>1, PricingInvariant, PTL

\* The band of the study's sliced arm holds of any books and any order
\* (docs/TCA.md, cmd/tcastudy/main.go:253-254).
THEOREM SlicesWithinBand == PricingSpec => []SlicingWithinBand
  <1>1. PricingInv => SlicingWithinBand
    BY LadderInOrder, SlicesStayWithin DEF SlicingWithinBand
  <1> QED
    BY <1>1, PricingInvariant, PTL

\* The fee of a walk follows what each fill cost at its own venue's rate, whatever the
\* books, the order, the volume and the schedules (fees.go:171-217).
THEOREM FeesAreFair == PricingSpec => []FeesFollowFills
  <1>1. PricingInv => FeesFollowFills
    <2> SUFFICES ASSUME PricingInv, NEW volume \in Volumes, NEW scheds \in ScheduleSets
                 PROVE  FeeFollows(volume, scheds, Walk(Ladder, order.side, order.size))
      BY DEF FeesFollowFills
    <2>1. /\ volume \in Int /\ RateUnit \in Nat \ {0}
          /\ DOMAIN scheds \subseteq {Coinbase, Kraken}
          /\ \A v \in DOMAIN scheds : IsSchedule(scheds[v])
      BY PricingAssumption
    <2>2. Ladder \in Seq(Level) /\ order.size \in Int
      BY LadderInOrder
    <2> QED
      BY <2>1, <2>2, FeeIsFair
  <1> QED
    BY <1>1, PricingInvariant, PTL
=============================================================================
