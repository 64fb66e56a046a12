------------------------------ MODULE BookLaws ------------------------------
(* What the operators of BookOps do to a well-formed side, for any prices: *)
(* they keep its map and its slice in agreement, a message sets sizes, and *)
(* truncation keeps the best levels.                                       *)
EXTENDS BookOps, SequenceTheorems, FiniteSetTheorems, TLAPS

Levels == INSTANCE FoldLaws WITH Op <- applyLevel

-----------------------------------------------------------------------------
(* Inserting into a sequence and removing from it.                         *)

\* What stands where after InsertAt.
LEMMA InsertAtProperties ==
  ASSUME NEW S, NEW s \in Seq(S), NEW i \in 1..Len(s) + 1, NEW e \in S
  PROVE  /\ InsertAt(s, i, e) \in Seq(S)
         /\ Len(InsertAt(s, i, e)) = Len(s) + 1
         /\ \A j \in 1..Len(s) + 1 :
               InsertAt(s, i, e)[j] = IF j < i THEN s[j] ELSE IF j = i THEN e ELSE s[j - 1]
  <1> DEFINE a == SubSeq(s, 1, i - 1)
             b == SubSeq(s, i, Len(s))
  <1>1. /\ a \in Seq(S) /\ Len(a) = i - 1
        /\ \A j \in 1..i - 1 : a[j] = s[j]
    OBVIOUS
  <1>2. /\ b \in Seq(S) /\ Len(b) = Len(s) - i + 1
        /\ \A j \in 1..Len(s) - i + 1 : b[j] = s[j + i - 1]
    OBVIOUS
  <1> HIDE DEF a, b
  <1>3. <<e>> \in Seq(S) /\ Len(<<e>>) = 1 /\ <<e>>[1] = e
    OBVIOUS
  <1> DEFINE c == a \o <<e>>
  <1>4. /\ c \in Seq(S) /\ Len(c) = i
        /\ \A j \in 1..i : c[j] = IF j < i THEN s[j] ELSE e
    <2>1. /\ c \in Seq(S) /\ Len(c) = Len(a) + 1
          /\ \A j \in 1..Len(a) + 1 : c[j] = IF j <= Len(a) THEN a[j] ELSE <<e>>[j - Len(a)]
      BY <1>1, <1>3, ConcatProperties
    <2> HIDE DEF c
    <2> QED
      BY <1>1, <1>3, <2>1
  <1> HIDE DEF c
  <1>5. /\ c \o b \in Seq(S)
        /\ Len(c \o b) = Len(c) + Len(b)
        /\ \A j \in 1..Len(c) + Len(b) :
               (c \o b)[j] = IF j <= Len(c) THEN c[j] ELSE b[j - Len(c)]
    BY <1>2, <1>4, ConcatProperties
  <1>6. InsertAt(s, i, e) = c \o b
    BY DEF InsertAt, a, b, c
  <1>7. Len(c) + Len(b) = Len(s) + 1
    BY <1>2, <1>4
  <1>8. ASSUME NEW j \in 1..Len(s) + 1
        PROVE  (c \o b)[j] = IF j < i THEN s[j] ELSE IF j = i THEN e ELSE s[j - 1]
    <2>1. CASE j <= i
      BY <1>4, <1>5, <1>7, <2>1
    <2>2. CASE j > i
      <3>1. (c \o b)[j] = b[j - i]
        BY <1>4, <1>5, <1>7, <2>2
      <3>2. j - i \in 1..Len(s) - i + 1 /\ (j - i) + i - 1 = j - 1
        BY <2>2
      <3> QED
        BY <1>2, <2>2, <3>1, <3>2
    <2>3. j <= i \/ j > i
      OBVIOUS
    <2> QED
      BY <2>1, <2>2, <2>3
  <1> QED
    BY <1>5, <1>6, <1>7, <1>8

\* What stands where after RemoveAt.
LEMMA RemoveAtProperties ==
  ASSUME NEW S, NEW s \in Seq(S), NEW i \in 1..Len(s)
  PROVE  /\ RemoveAt(s, i) \in Seq(S)
         /\ Len(RemoveAt(s, i)) = Len(s) - 1
         /\ \A j \in 1..Len(s) - 1 : RemoveAt(s, i)[j] = IF j < i THEN s[j] ELSE s[j + 1]
  <1> DEFINE a == SubSeq(s, 1, i - 1)
             b == SubSeq(s, i + 1, Len(s))
  <1>1. /\ a \in Seq(S) /\ Len(a) = i - 1
        /\ \A j \in 1..i - 1 : a[j] = s[j]
    OBVIOUS
  <1>2. /\ b \in Seq(S) /\ Len(b) = Len(s) - i
        /\ \A j \in 1..Len(s) - i : b[j] = s[j + i]
    OBVIOUS
  <1> HIDE DEF a, b
  <1>3. /\ a \o b \in Seq(S) /\ Len(a \o b) = Len(a) + Len(b)
        /\ \A j \in 1..Len(a) + Len(b) :
               (a \o b)[j] = IF j <= Len(a) THEN a[j] ELSE b[j - Len(a)]
    BY <1>1, <1>2, ConcatProperties
  <1>4. RemoveAt(s, i) = a \o b
    BY DEF RemoveAt, a, b
  <1>5. Len(a) + Len(b) = Len(s) - 1
    BY <1>1, <1>2
  <1>6. ASSUME NEW j \in 1..Len(s) - 1
        PROVE  (a \o b)[j] = IF j < i THEN s[j] ELSE s[j + 1]
    <2>1. CASE j < i
      BY <1>1, <1>3, <1>5, <2>1
    <2>2. CASE j >= i
      <3>1. (a \o b)[j] = b[j - (i - 1)]
        BY <1>1, <1>3, <1>5, <2>2
      <3>2. j - (i - 1) \in 1..Len(s) - i /\ (j - (i - 1)) + i = j + 1
        BY <2>2
      <3> QED
        BY <1>2, <2>2, <3>1, <3>2
    <2>3. j < i \/ j >= i
      OBVIOUS
    <2> QED
      BY <2>1, <2>2, <2>3
  <1> QED
    BY <1>3, <1>4, <1>5, <1>6

-----------------------------------------------------------------------------
(* One side.                                                               *)

\* The sides that are asks, or bids, and in order.
Sides(isAsk) ==
  {s \in [levels : UNION {[D -> Nat \ {0}] : D \in SUBSET Prices},
          prices : Seq(Prices), isAsk : {isAsk}] : SideOK(s)}

\* The binary search finds where the prices stop being worse than p.
LEMMA SearchIdx ==
  ASSUME NEW ask \in BOOLEAN, NEW s \in Sides(ask), NEW p \in Prices
  PROVE  /\ searchIdx(s, p) \in 0..Len(s.prices)
         /\ \A i \in 1..searchIdx(s, p) : worse(s, s.prices[i], p)
         /\ \A i \in searchIdx(s, p) + 1..Len(s.prices) : ~worse(s, s.prices[i], p)
  <1> DEFINE n == Len(s.prices)
             C == {i \in 0..n : i = n \/ ~worse(s, s.prices[i + 1], p)}
             k == searchIdx(s, p)
  <1>1. s.prices \in Seq(Prices) /\ n \in Nat /\ s.isAsk = ask /\ Prices \subseteq Int
    BY PricesAssumption DEF Sides
  <1>2. k \in C /\ \A i \in C : k <= i
    <2>1. n \in C /\ C \in SUBSET Nat
      BY <1>1
    <2>2. \E i \in C : \A j \in C : i <= j
      BY <2>1, Levels!LeastNatural
    <2> QED
      BY <2>2 DEF searchIdx, Min
  <1> HIDE DEF k
  <1>3. \A i \in 1..k : worse(s, s.prices[i], p)
    <2> TAKE i \in 1..k
    <2>1. i - 1 \in 0..n /\ i - 1 # n /\ ~(k <= i - 1)
      BY <1>1, <1>2
    <2>2. i - 1 \notin C
      BY <1>2, <2>1
    <2> QED
      BY <2>1, <2>2
  <1>4. \A i \in k + 1..n : ~worse(s, s.prices[i], p)
    <2> TAKE i \in k + 1..n
    <2>1. k + 1 \in 1..n /\ i \in 1..n /\ k # n
      BY <1>1, <1>2
    <2>2. ~worse(s, s.prices[k + 1], p)
      BY <1>2, <2>1
    <2>3. k + 1 < i => worse(s, s.prices[k + 1], s.prices[i])
      BY <2>1 DEF Sides, SideOK
    <2>4. s.prices[k + 1] \in Int /\ s.prices[i] \in Int /\ p \in Int
      BY <1>1, <2>1
    <2> QED
      BY <2>1, <2>2, <2>3, <2>4 DEF worse
  <1> QED
    BY <1>1, <1>2, <1>3, <1>4 DEF k

\* It finds a price that is there.
LEMMA SearchFinds ==
  ASSUME NEW ask \in BOOLEAN, NEW s \in Sides(ask), NEW p \in DOMAIN s.levels
  PROVE  /\ searchIdx(s, p) \in Nat
         /\ searchIdx(s, p) + 1 \in 1..Len(s.prices)
         /\ s.prices[searchIdx(s, p) + 1] = p
  <1> DEFINE n == Len(s.prices)
             k == searchIdx(s, p)
  <1>1. s.prices \in Seq(Prices) /\ n \in Nat /\ s.isAsk = ask /\ Prices \subseteq Int
    BY PricesAssumption DEF Sides
  <1>2. p \in Prices /\ p \in ToSet(s.prices)
    BY DEF Sides, SideOK
  <1>3. /\ k \in 0..n
        /\ \A i \in 1..k : worse(s, s.prices[i], p)
        /\ \A i \in k + 1..n : ~worse(s, s.prices[i], p)
    BY <1>2, SearchIdx
  <1> HIDE DEF k
  <1>4. PICK j \in 1..n : s.prices[j] = p
    BY <1>1, <1>2 DEF ToSet
  <1>5. ~worse(s, p, p)
    <2>1. p \in Int
      BY <1>1, <1>2
    <2> QED
      BY <2>1 DEF worse
  <1>6. j \in k + 1..n
    BY <1>1, <1>3, <1>4, <1>5
  <1>7. j = k + 1
    <2> SUFFICES ASSUME k + 1 < j
                 PROVE  FALSE
      BY <1>3, <1>6
    <2>1. k + 1 \in 1..n /\ k + 1 \in k + 1..n
      BY <1>1, <1>3, <1>6
    <2>2. worse(s, s.prices[k + 1], s.prices[j])
      BY <1>4, <2>1 DEF Sides, SideOK
    <2> QED
      BY <1>3, <1>4, <2>1, <2>2
  <1>8. k \in Nat /\ k + 1 \in 1..n
    BY <1>1, <1>3, <1>6
  <1> QED
    BY <1>4, <1>7, <1>8 DEF k

\* A new price is inserted where it belongs, a known one gets its new size.
LEMMA SetKeepsSide ==
  ASSUME NEW ask \in BOOLEAN, NEW s \in Sides(ask), NEW lv \in Level, lv.qty # 0
  PROVE  set(s, lv) \in Sides(ask)
  <1> DEFINE n == Len(s.prices)
             p == lv.price
             k == searchIdx(s, p)
             t == set(s, lv)
             old == s.prices
             new == t.prices
  <1>1. /\ old \in Seq(Prices) /\ n \in Nat /\ s.isAsk = ask /\ Prices \subseteq Int
        /\ p \in Prices /\ lv.qty \in Nat \ {0}
        /\ SideOK(s)
    BY PricesAssumption DEF Sides, Level
  <1>2. PICK D \in SUBSET Prices : s.levels \in [D -> Nat \ {0}]
    BY DEF Sides
  <1>3. s = [levels |-> s.levels, prices |-> s.prices, isAsk |-> s.isAsk]
    BY DEF Sides
  <1>4. /\ t = [levels |-> Put(s.levels, p, lv.qty), prices |-> new, isAsk |-> ask]
        /\ new = IF p \in DOMAIN s.levels THEN old ELSE InsertAt(old, k + 1, p)
    <2>1. t = [s EXCEPT !.levels = Put(s.levels, p, lv.qty),
                        !.prices = IF p \in DOMAIN s.levels THEN old
                                   ELSE InsertAt(old, k + 1, p)]
      BY DEF set
    <2> HIDE DEF t, k
    <2> QED
      BY <1>1, <1>3, <2>1
  <1>5. Put(s.levels, p, lv.qty) \in [D \cup {p} -> Nat \ {0}] /\ D \cup {p} \in SUBSET Prices
    BY <1>1, <1>2 DEF Put
  <1> HIDE DEF t
  <1>6. /\ new \in Seq(Prices)
        /\ \A i, j \in 1..Len(new) : i < j => worse(s, new[i], new[j])
        /\ ToSet(new) = D \cup {p}
    <2>1. CASE p \in DOMAIN s.levels
      BY <1>1, <1>2, <1>4, <2>1 DEF SideOK
    <2>2. CASE p \notin DOMAIN s.levels
      <3>1. /\ k \in 0..n
            /\ \A i \in 1..k : worse(s, old[i], p)
            /\ \A i \in k + 1..n : ~worse(s, old[i], p)
        BY <1>1, SearchIdx
      <3> HIDE DEF k
      <3>2. /\ new \in Seq(Prices) /\ Len(new) = n + 1
            /\ \A j \in 1..n + 1 : new[j] = IF j < k + 1 THEN old[j]
                                            ELSE IF j = k + 1 THEN p ELSE old[j - 1]
        <4>1. k + 1 \in 1..n + 1
          BY <1>1, <3>1
        <4>2. new = InsertAt(old, k + 1, p)
          BY <1>4, <2>2
        <4> HIDE DEF new, old
        <4>3. k + 1 \in 1..Len(old) + 1 /\ n = Len(old)
          BY <4>1 DEF old
        <4> HIDE DEF n
        <4>4. /\ InsertAt(old, k + 1, p) \in Seq(Prices)
              /\ Len(InsertAt(old, k + 1, p)) = Len(old) + 1
              /\ \A j \in 1..Len(old) + 1 :
                    InsertAt(old, k + 1, p)[j] = IF j < k + 1 THEN old[j]
                                                 ELSE IF j = k + 1 THEN p ELSE old[j - 1]
          <5> DEFINE m == k + 1
          <5>1. old \in Seq(Prices) /\ p \in Prices /\ m \in 1..Len(old) + 1
            BY <1>1, <4>3
          <5> HIDE DEF m, p
          <5>2. /\ InsertAt(old, m, p) \in Seq(Prices)
                /\ Len(InsertAt(old, m, p)) = Len(old) + 1
                /\ \A j \in 1..Len(old) + 1 :
                      InsertAt(old, m, p)[j] = IF j < m THEN old[j]
                                               ELSE IF j = m THEN p ELSE old[j - 1]
            BY <5>1, InsertAtProperties
          <5> QED
            BY <5>2 DEF m
        <4> QED
          BY <4>2, <4>3, <4>4
      <3>3. ToSet(old) = D /\ p \notin D
        BY <1>1, <1>2, <2>2 DEF SideOK
      <3>4. ToSet(new) = D \cup {p}
        <4>1. ASSUME NEW j \in 1..n + 1
              PROVE  new[j] \in D \cup {p}
          <5>0. DOMAIN old = 1..n /\ k \in Int /\ n \in Nat
            BY <1>1, <3>1
          <5>1. \A i \in 1..n : old[i] \in D
            <6> HIDE DEF old, n
            <6> QED
              BY <3>3, <5>0 DEF ToSet
          <5>2. CASE j < k + 1
            <6>1. new[j] = old[j] /\ j \in 1..n
              BY <3>1, <3>2, <5>0, <5>2
            <6> QED
              BY <5>1, <6>1
          <5>3. CASE j = k + 1
            <6>1. new[j] = p
              BY <3>2, <5>0, <5>3
            <6> QED
              BY <6>1
          <5>4. CASE j > k + 1
            <6>1. new[j] = old[j - 1] /\ j - 1 \in 1..n
              BY <3>1, <3>2, <5>0, <5>4
            <6> QED
              BY <5>1, <6>1
          <5> QED
            BY <5>0, <5>2, <5>3, <5>4
        <4>2. \A i \in 1..n : \E j \in 1..n + 1 : new[j] = old[i]
          <5> TAKE i \in 1..n
          <5>1. CASE i < k + 1
            <6>1. i \in 1..n + 1 /\ new[i] = old[i]
              BY <1>1, <3>1, <3>2, <5>1
            <6> QED
              BY <6>1
          <5>2. CASE i >= k + 1
            <6>1. i + 1 \in 1..n + 1 /\ new[i + 1] = old[i]
              BY <1>1, <3>1, <3>2, <5>2
            <6> QED
              BY <6>1
          <5> QED
            BY <1>1, <3>1, <5>1, <5>2
        <4>3. k + 1 \in 1..n + 1 /\ new[k + 1] = p
          BY <1>1, <3>1, <3>2
        <4>4. DOMAIN new = 1..n + 1 /\ DOMAIN old = 1..n
          BY <1>1, <3>2
        <4> HIDE DEF old, new
        <4> QED
          BY <3>3, <4>1, <4>2, <4>3, <4>4 DEF ToSet
      <3>5. \A i \in k + 1..n : worse(s, p, old[i])
        <4> TAKE i \in k + 1..n
        <4>1. i \in 1..n
          BY <1>1, <3>1
        <4>2. old[i] \in Int /\ p \in Int /\ old[i] # p
          <5>1. old[i] \in ToSet(old)
            BY <1>1, <4>1 DEF ToSet
          <5> QED
            BY <1>1, <3>3, <5>1
        <4> QED
          BY <3>1, <4>2 DEF worse
      <3>6. \A i, j \in 1..n : i < j => worse(s, old[i], old[j])
        BY <1>1 DEF SideOK
      <3>7. ASSUME NEW i \in 1..n + 1, NEW j \in 1..n + 1, i < j
            PROVE  worse(s, new[i], new[j])
        <4>1. i \in Int /\ j \in Int /\ k \in Int
          BY <1>1, <3>1
        <4>2. CASE j < k + 1
          BY <1>1, <3>1, <3>2, <3>6, <3>7, <4>1, <4>2
        <4>3. CASE j = k + 1
          BY <1>1, <3>1, <3>2, <3>7, <4>1, <4>3
        <4>4. CASE i < k + 1 /\ j > k + 1
          <5>1. new[i] = old[i] /\ new[j] = old[j - 1]
            BY <3>2, <3>7, <4>1, <4>4
          <5>2. i \in 1..n /\ j - 1 \in 1..n /\ i < j - 1
            BY <1>1, <3>1, <3>7, <4>1, <4>4
          <5> QED
            BY <3>6, <5>1, <5>2
        <4>5. CASE i = k + 1
          <5>1. new[i] = p /\ new[j] = old[j - 1]
            BY <3>2, <3>7, <4>1, <4>5
          <5>2. j - 1 \in k + 1..n
            BY <1>1, <3>1, <3>7, <4>1, <4>5
          <5> QED
            BY <3>5, <5>1, <5>2
        <4>6. CASE i > k + 1
          <5>1. new[i] = old[i - 1] /\ new[j] = old[j - 1]
            <6>1. ~(i < k + 1) /\ i # k + 1 /\ ~(j < k + 1) /\ j # k + 1
              BY <3>7, <4>1, <4>6
            <6> QED
              BY <3>2, <6>1
          <5>2. i - 1 \in 1..n /\ j - 1 \in 1..n /\ i - 1 < j - 1
            BY <1>1, <3>1, <3>7, <4>1, <4>6
          <5> QED
            BY <3>6, <5>1, <5>2
        <4> QED
          BY <3>7, <4>1, <4>2, <4>3, <4>4, <4>5, <4>6
      <3> QED
        BY <3>2, <3>4, <3>7
    <2> QED
      BY <2>1, <2>2
  <1>7. SideOK(t)
    <2>1. \A i, j \in 1..Len(new) : i < j => worse(t, new[i], new[j])
      BY <1>1, <1>4, <1>6 DEF worse
    <2>2. t.levels = Put(s.levels, p, lv.qty)
      BY <1>4
    <2>3. DOMAIN t.levels = D \cup {p} /\ \A q \in DOMAIN t.levels : q \in Prices /\ t.levels[q] > 0
      BY <1>5, <2>2
    <2> QED
      BY <1>6, <2>1, <2>3 DEF SideOK
  <1>8. t \in [levels : UNION {[E -> Nat \ {0}] : E \in SUBSET Prices},
               prices : Seq(Prices), isAsk : {ask}]
    BY <1>4, <1>5, <1>6
  <1> QED
    BY <1>7, <1>8 DEF Sides, t

\* A price that is deleted leaves both parts, one that is not there neither.
LEMMA DelKeepsSide ==
  ASSUME NEW ask \in BOOLEAN, NEW s \in Sides(ask), NEW p \in Prices
  PROVE  del(s, p) \in Sides(ask)
  <1> DEFINE n == Len(s.prices)
             k == searchIdx(s, p)
             t == del(s, p)
             old == s.prices
             new == RemoveAt(old, k + 1)
  <1> SUFFICES ASSUME p \in DOMAIN s.levels
               PROVE  t \in Sides(ask)
    BY DEF del
  <1>1. /\ old \in Seq(Prices) /\ n \in Nat /\ s.isAsk = ask /\ Prices \subseteq Int
        /\ SideOK(s)
    BY PricesAssumption DEF Sides
  <1>2. PICK D \in SUBSET Prices : s.levels \in [D -> Nat \ {0}]
    BY DEF Sides
  <1>3. s = [levels |-> s.levels, prices |-> s.prices, isAsk |-> s.isAsk]
    BY DEF Sides
  <1>4. t = [levels |-> Restrict(s.levels, D \ {p}), prices |-> new, isAsk |-> ask]
    BY <1>1, <1>2, <1>3 DEF del
  <1>5. k \in Nat /\ k + 1 \in 1..n /\ old[k + 1] = p
    BY SearchFinds
  <1> HIDE DEF t, k
  <1>6. /\ new \in Seq(Prices) /\ Len(new) = n - 1
        /\ \A j \in 1..n - 1 : new[j] = IF j < k + 1 THEN old[j] ELSE old[j + 1]
    BY <1>1, <1>5, RemoveAtProperties
  <1> HIDE DEF new
  <1>7. \A i, j \in 1..n : i < j => worse(s, old[i], old[j])
    BY <1>1 DEF SideOK
  <1>8. ASSUME NEW i \in 1..n - 1, NEW j \in 1..n - 1, i < j
        PROVE  worse(s, new[i], new[j])
    <2>1. PICK x \in 1..n, y \in 1..n : new[i] = old[x] /\ new[j] = old[y] /\ x < y
      <3>1. i \in 1..n /\ j \in 1..n /\ i + 1 \in 1..n /\ j + 1 \in 1..n
            /\ i < j + 1 /\ i + 1 < j + 1 /\ i \in Int /\ j \in Int /\ k \in Int
        <4>1. n \in Nat /\ k \in Nat
          BY <1>1, <1>5
        <4> HIDE DEF n
        <4> QED
          BY <1>8, <4>1
      <3>2. new[i] = IF i < k + 1 THEN old[i] ELSE old[i + 1]
        BY <1>6
      <3>3. new[j] = IF j < k + 1 THEN old[j] ELSE old[j + 1]
        BY <1>6
      <3>4. CASE j < k + 1
        <4>1. new[i] = old[i] /\ new[j] = old[j]
          BY <1>8, <3>1, <3>2, <3>3, <3>4
        <4> QED
          BY <1>8, <3>1, <4>1
      <3>5. CASE i < k + 1 /\ ~(j < k + 1)
        BY <3>1, <3>2, <3>3, <3>5
      <3>6. CASE ~(i < k + 1) /\ ~(j < k + 1)
        BY <3>1, <3>2, <3>3, <3>6
      <3>7. j < k + 1 => i < k + 1
        BY <1>8, <3>1
      <3> QED
        BY <3>4, <3>5, <3>6, <3>7
    <2> QED
      BY <1>7, <2>1
  <1>9. ToSet(new) = D \ {p}
    <2>1. ToSet(old) = D
      BY <1>1, <1>2 DEF SideOK
    <2>2. DOMAIN new = 1..n - 1 /\ DOMAIN old = 1..n
      BY <1>1, <1>6
    <2>3. ASSUME NEW j \in 1..n - 1
          PROVE  new[j] \in D \ {p}
      <3>1. PICK x \in 1..n : new[j] = old[x] /\ x # k + 1
        <4>1. j \in 1..n /\ j + 1 \in 1..n /\ j \in Int /\ k \in Int
          BY <1>1, <1>5
        <4>2. CASE j < k + 1
          BY <1>6, <4>1, <4>2
        <4>3. CASE ~(j < k + 1)
          <5>1. new[j] = old[j + 1] /\ j + 1 # k + 1
            BY <1>6, <4>1, <4>3
          <5> QED
            BY <4>1, <5>1
        <4> QED
          BY <4>2, <4>3
      <3>2. old[x] \in Int /\ p \in Int /\ x \in Int /\ k + 1 \in Int
        BY <1>1, <1>5
      <3>3. worse(s, old[x], p) \/ worse(s, p, old[x])
        BY <1>5, <1>7, <3>1, <3>2
      <3>4. old[x] # p
        BY <3>2, <3>3 DEF worse
      <3> QED
        BY <2>1, <2>2, <3>1, <3>4 DEF ToSet
    <2>4. ASSUME NEW i \in 1..n, old[i] # p
          PROVE  \E j \in 1..n - 1 : new[j] = old[i]
      <3>1. i # k + 1 /\ i \in Int /\ k \in Int
        BY <1>1, <1>5, <2>4
      <3>2. CASE i < k + 1
        <4>1. i \in 1..n - 1
          BY <1>1, <1>5, <3>1, <3>2
        <4>2. new[i] = old[i]
          BY <1>6, <3>2, <4>1
        <4> QED
          BY <4>1, <4>2
      <3>3. CASE i > k + 1
        <4>1. i - 1 \in 1..n - 1 /\ ~(i - 1 < k + 1) /\ (i - 1) + 1 = i
          BY <1>1, <1>5, <3>1, <3>3
        <4>2. new[i - 1] = old[i]
          BY <1>6, <4>1
        <4> QED
          BY <4>1, <4>2
      <3> QED
        BY <3>1, <3>2, <3>3
    <2> HIDE DEF old
    <2>5. \A q \in ToSet(new) : q \in D \ {p}
      BY <2>2, <2>3 DEF ToSet
    <2>6. ASSUME NEW q \in D \ {p}
          PROVE  q \in ToSet(new)
      <3>1. PICK i \in 1..n : old[i] = q
        BY <2>1, <2>2 DEF ToSet
      <3>2. PICK j \in 1..n - 1 : new[j] = q
        BY <2>4, <2>6, <3>1
      <3> QED
        BY <2>2, <3>2 DEF ToSet
    <2> QED
      BY <2>5, <2>6
  <1>10. Restrict(s.levels, D \ {p}) \in [D \ {p} -> Nat \ {0}] /\ D \ {p} \in SUBSET Prices
    BY <1>2 DEF Restrict
  <1>11. SideOK(t)
    <2>1. \A i, j \in 1..Len(new) : i < j => worse(t, new[i], new[j])
      BY <1>1, <1>4, <1>6, <1>8 DEF worse
    <2>2. t.levels = Restrict(s.levels, D \ {p}) /\ t.prices = new
      BY <1>4
    <2>3. DOMAIN t.levels = D \ {p} /\ \A q \in DOMAIN t.levels : q \in Prices /\ t.levels[q] > 0
      BY <1>10, <2>2
    <2> QED
      BY <1>9, <2>1, <2>2, <2>3 DEF SideOK
  <1>12. t \in [levels : UNION {[E -> Nat \ {0}] : E \in SUBSET Prices},
                prices : Seq(Prices), isAsk : {ask}]
    BY <1>4, <1>6, <1>10
  <1> QED
    BY <1>11, <1>12 DEF Sides

\* Neither does any level of a message break a side.
LEMMA LevelKeepsSide ==
  ASSUME NEW ask \in BOOLEAN, NEW s \in Sides(ask), NEW lv \in Level
  PROVE  applyLevel(s, lv) \in Sides(ask)
  <1>1. lv.price \in Prices
    BY DEF Level
  <1>2. CASE lv.qty = 0
    BY <1>1, <1>2, DelKeepsSide DEF applyLevel
  <1>3. CASE lv.qty # 0
    BY <1>3, SetKeepsSide DEF applyLevel
  <1> QED
    BY <1>2, <1>3

\* Nor do all of a message, one after the other.
LEMMA LevelsKeepSide ==
  ASSUME NEW ask \in BOOLEAN, NEW s \in Sides(ask), NEW lvs \in Seq(Level)
  PROVE  FoldLeft(applyLevel, s, lvs) \in Sides(ask)
  <1>1. \A t \in Sides(ask), lv \in Level : applyLevel(t, lv) \in Sides(ask)
    BY LevelKeepsSide
  <1>2. Levels!Fold(s, lvs) \in Sides(ask)
    BY <1>1, Levels!FoldType
  <1>3. Levels!Fold(s, lvs) = FoldLeft(applyLevel, s, lvs)
    BY DEF Levels!Fold, FoldLeft, MapThenFoldSet, Levels!MapThenFoldSet,
           Max, Levels!Largest
  <1> QED
    BY <1>2, <1>3

\* A side with no levels.
LEMMA EmptySideIsSide ==
  ASSUME NEW ask \in BOOLEAN
  PROVE  EmptySide(ask) \in Sides(ask)
  <1> DEFINE s == EmptySide(ask)
  <1>1. s = [levels |-> <<>>, prices |-> <<>>, isAsk |-> ask]
    BY DEF EmptySide
  <1>2. <<>> \in [{} -> Nat \ {0}] /\ DOMAIN <<>> = {}
    OBVIOUS
  <1>3. Len(<<>>) = 0 /\ ToSet(<<>>) = {} /\ <<>> \in Seq(Prices)
    BY DEF ToSet
  <1> HIDE DEF s
  <1>4. SideOK(s)
    BY <1>1, <1>2, <1>3 DEF SideOK
  <1>5. s \in [levels : UNION {[E -> Nat \ {0}] : E \in SUBSET Prices},
               prices : Seq(Prices), isAsk : {ask}]
    BY <1>1, <1>2, <1>3
  <1> QED
    BY <1>4, <1>5 DEF Sides, s

\* Truncation keeps the tail of the slice and its levels.
LEMMA TruncateKeepsSide ==
  ASSUME NEW ask \in BOOLEAN, NEW s \in Sides(ask), NEW m \in Int
  PROVE  truncate(s, m) \in Sides(ask)
  <1> DEFINE n == Len(s.prices)
             t == truncate(s, m)
             old == s.prices
             kept == SubSeq(old, n - m + 1, n)
  <1> SUFFICES ASSUME ~(m < 0 \/ n <= m)
               PROVE  t \in Sides(ask)
    BY DEF truncate
  <1>1. /\ old \in Seq(Prices) /\ n \in Nat /\ s.isAsk = ask /\ Prices \subseteq Int
        /\ SideOK(s) /\ m \in 0..n - 1
    BY PricesAssumption DEF Sides
  <1>2. PICK D \in SUBSET Prices : s.levels \in [D -> Nat \ {0}]
    BY DEF Sides
  <1>3. s = [levels |-> s.levels, prices |-> s.prices, isAsk |-> s.isAsk]
    BY DEF Sides
  <1>4. t = [levels |-> Restrict(s.levels, ToSet(kept)), prices |-> kept, isAsk |-> ask]
    BY <1>1, <1>3 DEF truncate
  <1> HIDE DEF t
  <1>5. /\ kept \in Seq(Prices) /\ Len(kept) = m
        /\ \A j \in 1..m : kept[j] = old[n - m + j]
    BY <1>1
  <1> HIDE DEF kept
  <1>6. \A i, j \in 1..m : i < j => worse(s, kept[i], kept[j])
    <2> TAKE i, j \in 1..m
    <2>1. /\ n - m + i \in 1..n /\ n - m + j \in 1..n
          /\ i < j => n - m + i < n - m + j
      BY <1>1
    <2>2. kept[i] = old[n - m + i] /\ kept[j] = old[n - m + j]
      BY <1>5
    <2> QED
      BY <1>1, <2>1, <2>2 DEF SideOK
  <1> DEFINE K == ToSet(kept)
  <1>7. K \subseteq D
    <2>1. ToSet(old) = D
      BY <1>1, <1>2 DEF SideOK
    <2>2. \A j \in 1..m : kept[j] \in ToSet(old)
      <3> TAKE j \in 1..m
      <3>1. n - m + j \in 1..n
        BY <1>1
      <3> QED
        BY <1>1, <1>5, <3>1 DEF ToSet
    <2> QED
      BY <1>5, <2>1, <2>2 DEF ToSet
  <1> HIDE DEF K
  <1>8. Restrict(s.levels, K) \in [K -> Nat \ {0}] /\ K \in SUBSET Prices
    BY <1>2, <1>7 DEF Restrict
  <1>9. t.levels = Restrict(s.levels, K) /\ t.prices = kept /\ t.isAsk = ask
    BY <1>4 DEF K
  <1>10. SideOK(t)
    <2>1. \A i, j \in 1..Len(kept) : i < j => worse(t, kept[i], kept[j])
      BY <1>1, <1>5, <1>6, <1>9 DEF worse
    <2>2. DOMAIN t.levels = K /\ \A q \in DOMAIN t.levels : q \in Prices /\ t.levels[q] > 0
      BY <1>8, <1>9
    <2> QED
      BY <1>9, <2>1, <2>2 DEF SideOK, K
  <1>11. t \in [levels : UNION {[E -> Nat \ {0}] : E \in SUBSET Prices},
                prices : Seq(Prices), isAsk : {ask}]
    BY <1>4, <1>5, <1>8 DEF K
  <1> QED
    BY <1>10, <1>11 DEF Sides

-----------------------------------------------------------------------------
(* The book.                                                               *)

\* A book of two well-formed sides.
Books == [bids : Sides(FALSE), asks : Sides(TRUE), ready : BOOLEAN]

\* Every operation keeps a book one.
LEMMA BookKept ==
  ASSUME NEW b \in Books
  PROVE  /\ \A bs, as \in Seq(Level) : ApplySnapshot(b, bs, as) \in Books
         /\ \A bs, as \in Seq(Level) : ApplyUpdate(b, bs, as) \in Books
         /\ \A n \in Int : Truncate(b, n) \in Books
         /\ Invalidate(b) \in Books
  <1>1. b.bids \in Sides(FALSE) /\ b.asks \in Sides(TRUE) /\ b.ready \in BOOLEAN
    BY DEF Books
  <1>2. clear(b.bids) \in Sides(FALSE) /\ clear(b.asks) \in Sides(TRUE)
    <2>1. b.bids.isAsk = FALSE /\ b.asks.isAsk = TRUE
      BY <1>1 DEF Sides
    <2> QED
      BY <2>1, EmptySideIsSide DEF clear
  <1>3. ASSUME NEW bs \in Seq(Level), NEW as \in Seq(Level)
        PROVE  ApplySnapshot(b, bs, as) \in Books
    BY <1>2, LevelsKeepSide DEF ApplySnapshot, applyLevels, Books
  <1>4. ASSUME NEW bs \in Seq(Level), NEW as \in Seq(Level)
        PROVE  ApplyUpdate(b, bs, as) \in Books
    BY <1>1, LevelsKeepSide DEF ApplyUpdate, applyLevels, Books
  <1>5. ASSUME NEW n \in Int
        PROVE  Truncate(b, n) \in Books
    BY <1>1, TruncateKeepsSide DEF Truncate, Books
  <1>6. Invalidate(b) \in Books
    BY <1>2 DEF Invalidate, Books
  <1> QED
    BY <1>3, <1>4, <1>5, <1>6

-----------------------------------------------------------------------------
(* Sizes.                                                                  *)

\* The size at a price, 0 for none.
SizeIn(s, p) == IF p \in DOMAIN s.levels THEN s.levels[p] ELSE 0

\* The map of a side is the map of its sizes.
LEMMA SideSizes ==
  ASSUME NEW ask \in BOOLEAN, NEW s \in Sides(ask)
  PROVE  s.levels = [p \in {q \in Prices : SizeIn(s, q) # 0} |-> SizeIn(s, p)]
  <1>1. PICK D \in SUBSET Prices : s.levels \in [D -> Nat \ {0}]
    BY DEF Sides
  <1>2. \A q \in Prices : SizeIn(s, q) # 0 <=> q \in D
    BY <1>1 DEF SizeIn
  <1>3. {q \in Prices : SizeIn(s, q) # 0} = D
    BY <1>2
  <1>4. \A q \in D : SizeIn(s, q) = s.levels[q]
    BY <1>1 DEF SizeIn
  <1>5. s.levels = [p \in D |-> SizeIn(s, p)]
    BY <1>1, <1>4
  <1> QED
    BY <1>3, <1>5

\* A level of a message changes the size at its price, and at no other.
LEMMA LevelSetsSize ==
  ASSUME NEW ask \in BOOLEAN, NEW s \in Sides(ask), NEW lv \in Level, NEW p \in Prices
  PROVE  SizeIn(applyLevel(s, lv), p) = IF p = lv.price THEN lv.qty ELSE SizeIn(s, p)
  <1>1. PICK D \in SUBSET Prices : s.levels \in [D -> Nat \ {0}]
    BY DEF Sides
  <1>2. s = [levels |-> s.levels, prices |-> s.prices, isAsk |-> s.isAsk]
    BY DEF Sides
  <1>3. lv.price \in Prices /\ lv.qty \in Nat
    BY DEF Level
  <1>4. CASE lv.qty # 0
    <2> DEFINE new == IF lv.price \in DOMAIN s.levels THEN s.prices
                      ELSE InsertAt(s.prices, searchIdx(s, lv.price) + 1, lv.price)
    <2>1. applyLevel(s, lv) = [s EXCEPT !.levels = Put(s.levels, lv.price, lv.qty), !.prices = new]
      BY <1>4 DEF applyLevel, set
    <2> HIDE DEF new
    <2>2. applyLevel(s, lv).levels = Put(s.levels, lv.price, lv.qty)
      BY <1>2, <2>1
    <2> QED
      BY <1>1, <1>3, <2>2 DEF SizeIn, Put
  <1>5. CASE lv.qty = 0 /\ lv.price \in DOMAIN s.levels
    <2> DEFINE new == RemoveAt(s.prices, searchIdx(s, lv.price) + 1)
    <2>1. applyLevel(s, lv) = [s EXCEPT !.levels = Restrict(s.levels, DOMAIN s.levels \ {lv.price}),
                                        !.prices = new]
      BY <1>5 DEF applyLevel, del
    <2> HIDE DEF new
    <2>2. applyLevel(s, lv).levels = Restrict(s.levels, D \ {lv.price})
      BY <1>1, <1>2, <2>1
    <2> QED
      BY <1>1, <1>3, <1>5, <2>2 DEF SizeIn, Restrict
  <1>6. CASE lv.qty = 0 /\ lv.price \notin DOMAIN s.levels
    BY <1>6 DEF applyLevel, del, SizeIn
  <1> QED
    BY <1>4, <1>5, <1>6

\* The size a message leaves at p of a map f: the last it gives for p, if any.
Given(m, p) == {i \in 1..Len(m) : m[i].price = p}

SizeAfter(f, m, p) ==
  IF Given(m, p) # {} THEN m[Max(Given(m, p))].qty
  ELSE IF p \in DOMAIN f THEN f[p] ELSE 0

\* After a message the size at a price is the last one it gives for the price,
\* and what it was if it gives none.
LEMMA LevelsSetSizes ==
  ASSUME NEW ask \in BOOLEAN, NEW s \in Sides(ask), NEW lvs \in Seq(Level), NEW p \in Prices
  PROVE  SizeIn(FoldLeft(applyLevel, s, lvs), p) = SizeAfter(s.levels, lvs, p)
  <1> DEFINE n == Len(lvs)
             G == {i \in 1..n : lvs[i].price = p}
  <1>1. \A t \in Sides(ask), lv \in Level : applyLevel(t, lv) \in Sides(ask)
    BY LevelKeepsSide
  <1>2. PICK g : Levels!IsRun(g, Sides(ask), s, lvs) /\ g[n] = Levels!Fold(s, lvs)
    BY <1>1, Levels!FoldRun
  <1>3. g[n] = FoldLeft(applyLevel, s, lvs)
    BY <1>2 DEF Levels!Fold, FoldLeft, MapThenFoldSet,
                Levels!MapThenFoldSet, Max, Levels!Largest
  <1>4. /\ n \in Nat /\ g \in [0..n -> Sides(ask)] /\ g[0] = s
        /\ \A i \in 1..n : g[i] = applyLevel(g[i - 1], lvs[i])
    BY <1>2 DEF Levels!IsRun
  <1>5. ASSUME NEW i \in 1..n
        PROVE  SizeIn(g[i], p) = IF i \in G THEN lvs[i].qty ELSE SizeIn(g[i - 1], p)
    <2>1. g[i - 1] \in Sides(ask) /\ lvs[i] \in Level
      BY <1>4
    <2> QED
      BY <1>4, <2>1, LevelSetsSize
  <1>6. SizeAfter(s.levels, lvs, p) = IF G # {} THEN lvs[Max(G)].qty ELSE SizeIn(s, p)
    BY DEF SizeAfter, Given, SizeIn
  <1>7. CASE G = {}
    <2> DEFINE T == {i \in Nat : i <= n => SizeIn(g[i], p) = SizeIn(s, p)}
    <2>1. 0 \in T
      BY <1>4
    <2>2. ASSUME NEW i \in Nat, i \in T
          PROVE  i + 1 \in T
      <3> SUFFICES ASSUME i + 1 <= n
                   PROVE  SizeIn(g[i + 1], p) = SizeIn(s, p)
        OBVIOUS
      <3>1. i + 1 \in 1..n /\ (i + 1) - 1 = i /\ i <= n
        BY <1>4
      <3>2. SizeIn(g[i + 1], p) = SizeIn(g[i], p)
        BY <1>5, <1>7, <3>1
      <3> QED
        BY <2>2, <3>1, <3>2
    <2> HIDE DEF T
    <2>3. n \in T
      BY <1>4, <2>1, <2>2, Levels!NaturalInduction
    <2> QED
      BY <1>3, <1>4, <1>6, <1>7, <2>3 DEF T
  <1>8. CASE G # {}
    <2> DEFINE k == Max(G)
               T == {i \in Nat : k + i <= n => SizeIn(g[k + i], p) = lvs[k].qty}
    <2>1. k \in G /\ \A i \in G : i <= k
      <3>1. Max(G) = Levels!Largest(G)
        BY DEF Max, Levels!Largest
      <3> QED
        BY <1>4, <1>8, <3>1, Levels!MaxOfBounded
    <2> HIDE DEF k
    <2>2. 0 \in T
      <3>1. k \in 1..n /\ k + 0 = k
        BY <2>1
      <3> QED
        BY <1>5, <2>1, <3>1
    <2>3. ASSUME NEW i \in Nat, i \in T
          PROVE  i + 1 \in T
      <3> SUFFICES ASSUME k + (i + 1) <= n
                   PROVE  SizeIn(g[k + (i + 1)], p) = lvs[k].qty
        OBVIOUS
      <3>1. k + (i + 1) \in 1..n /\ (k + (i + 1)) - 1 = k + i /\ k + i <= n
            /\ k + (i + 1) \notin G
        BY <1>4, <2>1
      <3>2. SizeIn(g[k + (i + 1)], p) = SizeIn(g[k + i], p)
        BY <1>5, <3>1
      <3> QED
        BY <2>3, <3>1, <3>2
    <2>4. n - k \in Nat /\ k + (n - k) = n
      BY <1>4, <2>1
    <2> HIDE DEF T
    <2>5. n - k \in T
      BY <2>2, <2>3, <2>4, Levels!NaturalInduction
    <2>6. SizeIn(g[n], p) = lvs[k].qty
      BY <2>4, <2>5 DEF T
    <2> QED
      BY <1>3, <1>6, <1>8, <2>6 DEF k
  <1> QED
    BY <1>7, <1>8

\* The best m prices are those with fewer than m better ones.
LEMMA TailIsBest ==
  ASSUME NEW ask \in BOOLEAN, NEW s \in Sides(ask), NEW m \in 0..Len(s.prices)
  PROVE  /\ \A p \in DOMAIN s.levels :
               Cardinality({q \in DOMAIN s.levels : worse(s, p, q)}) \in Nat
         /\ ToSet(SubSeq(s.prices, Len(s.prices) - m + 1, Len(s.prices)))
               = {p \in DOMAIN s.levels :
                    Cardinality({q \in DOMAIN s.levels : worse(s, p, q)}) < m}
  <1> DEFINE n == Len(s.prices)
             old == s.prices
             D == DOMAIN s.levels
             Better(p) == {q \in D : worse(s, p, q)}
  <1>1. /\ old \in Seq(Prices) /\ n \in Nat /\ Prices \subseteq Int
        /\ ToSet(old) = D /\ m \in 0..n /\ DOMAIN old = 1..n
        /\ \A i, j \in 1..n : i < j => worse(s, old[i], old[j])
    BY PricesAssumption DEF Sides, SideOK
  <1> HIDE DEF old
  <1>0. \A i \in 1..n : old[i] \in Int
    <2> TAKE i \in 1..n
    <2>1. old[i] \in Prices
      BY <1>1 DEF old
    <2> QED
      BY <1>1, <2>1
  <1> HIDE DEF n
  <1>2. ASSUME NEW i \in 1..n, NEW j \in 1..n
        PROVE  worse(s, old[i], old[j]) <=> i < j
    <2>1. old[i] \in Int /\ old[j] \in Int
      BY <1>0
    <2>2. CASE i < j
      BY <1>1, <2>2
    <2>3. CASE i = j
      BY <2>1, <2>3 DEF worse
    <2>4. CASE j < i
      <3>1. worse(s, old[j], old[i])
        BY <1>1, <2>4
      <3>2. ~worse(s, old[i], old[j])
        BY <2>1, <3>1 DEF worse
      <3> QED
        BY <2>4, <3>2
    <2> QED
      BY <2>2, <2>3, <2>4
  <1>3. ASSUME NEW i \in 1..n
        PROVE  Cardinality(Better(old[i])) = n - i
    <2> DEFINE f == [j \in 1..n - i |-> old[i + j]]
    <2>1. \A j \in 1..n - i : i + j \in 1..n /\ i < i + j
      BY <1>1
    <2>2. \A j \in 1..n - i : f[j] \in Better(old[i])
      BY <1>1, <1>2, <2>1 DEF ToSet
    <2>3. ASSUME NEW j \in 1..n - i, NEW k \in 1..n - i, f[j] = f[k]
          PROVE  j = k
      <3>1. old[i + j] = old[i + k]
        BY <2>3
      <3>2. ~(i + j < i + k) /\ ~(i + k < i + j)
        <4>1. \A x \in 1..n : ~worse(s, old[x], old[x])
          BY <1>1, <1>2
        <4> QED
          BY <1>1, <2>1, <3>1, <4>1
      <3> QED
        BY <1>1, <3>2
    <2>4. ASSUME NEW q \in Better(old[i])
          PROVE  \E j \in 1..n - i : f[j] = q
      <3>1. PICK x \in 1..n : q = old[x]
        BY <1>1, <2>4 DEF ToSet
      <3>2. i < x
        BY <1>2, <2>4, <3>1
      <3>3. x - i \in 1..n - i /\ i + (x - i) = x
        BY <1>1, <3>2
      <3> QED
        BY <3>1, <3>3
    <2> DEFINE B == Better(old[i])
    <2>5. f \in [1..n - i -> B]
      BY <2>2
    <2> HIDE DEF f, B
    <2>6. f \in Bijection(1..n - i, B)
      BY <2>3, <2>4, <2>5 DEF Bijection, Injection, Surjection, IsInjective, B
    <2>7. ExistsBijection(1..n - i, B) /\ n - i \in Nat
      BY <1>1, <2>6 DEF ExistsBijection
    <2>8. Cardinality(B) = n - i
      <3> DEFINE c == n - i
      <3>1. ExistsBijection(1..c, B) /\ c \in Nat
        BY <2>7
      <3> HIDE DEF c
      <3>2. Cardinality(B) = c
        BY <3>1, FS_CountingElements
      <3> QED
        BY <3>2 DEF c
    <2> QED
      BY <2>8 DEF B
  <1> DEFINE kept == SubSeq(old, n - m + 1, n)
  <1>4. /\ kept \in Seq(Prices) /\ Len(kept) = m
        /\ \A j \in 1..m : kept[j] = old[n - m + j]
    BY <1>1 DEF n
  <1>5. DOMAIN kept = 1..m
    BY <1>4
  <1> HIDE DEF kept, Better
  <1>6. ASSUME NEW p \in ToSet(kept)
        PROVE  p \in D /\ Cardinality(Better(p)) < m
    <2>1. PICK j \in 1..m : p = kept[j]
      BY <1>5 DEF ToSet
    <2>2. n - m + j \in 1..n /\ n - (n - m + j) < m
      BY <1>1
    <2>3. p = old[n - m + j]
      BY <1>4, <2>1
    <2> QED
      BY <1>1, <1>3, <2>2, <2>3 DEF ToSet
  <1>7. ASSUME NEW p \in D, Cardinality(Better(p)) < m
        PROVE  p \in ToSet(kept)
    <2>1. PICK x \in 1..n : p = old[x]
      BY <1>1 DEF ToSet
    <2>2. n - x < m
      BY <1>3, <1>7, <2>1
    <2>3. x - (n - m) \in 1..m /\ n - m + (x - (n - m)) = x
      BY <1>1, <2>2
    <2>4. kept[x - (n - m)] = p
      BY <1>4, <2>1, <2>3
    <2> QED
      BY <1>5, <2>3, <2>4 DEF ToSet
  <1>8. ToSet(kept) = {p \in D : Cardinality(Better(p)) < m}
    BY <1>6, <1>7
  <1>9. \A p \in D : Cardinality(Better(p)) \in Nat
    <2> TAKE p \in D
    <2>1. PICK x \in 1..n : p = old[x]
      BY <1>1 DEF ToSet
    <2> QED
      BY <1>1, <1>3, <2>1
  <1> QED
    BY <1>8, <1>9 DEF kept, Better, old, n

\* Truncation keeps the best m levels of the map.
LEMMA TruncateKeepsBest ==
  ASSUME NEW ask \in BOOLEAN, NEW s \in Sides(ask), NEW m \in Nat
  PROVE  truncate(s, m).levels
            = Restrict(s.levels, {p \in DOMAIN s.levels :
                 Cardinality({q \in DOMAIN s.levels : worse(s, p, q)}) < m})
  <1> DEFINE n == Len(s.prices)
             old == s.prices
             Few(k) == {p \in DOMAIN s.levels :
                          Cardinality({q \in DOMAIN s.levels : worse(s, p, q)}) < k}
  <1>1. /\ old \in Seq(Prices) /\ n \in Nat /\ ToSet(old) = DOMAIN s.levels
        /\ s = [levels |-> s.levels, prices |-> s.prices, isAsk |-> s.isAsk]
        /\ \E D \in SUBSET Prices : s.levels \in [D -> Nat \ {0}]
    BY DEF Sides, SideOK
  <1>2. CASE m < n
    <2> DEFINE kept == SubSeq(old, n - m + 1, n)
    <2>1. truncate(s, m) = [s EXCEPT !.levels = Restrict(s.levels, ToSet(kept)), !.prices = kept]
      BY <1>1, <1>2 DEF truncate
    <2>2. ToSet(kept) = Few(m)
      <3>1. m \in 0..Len(s.prices)
        BY <1>1, <1>2
      <3> QED
        BY <3>1, TailIsBest
    <2> HIDE DEF kept, Few
    <2>3. truncate(s, m).levels = Restrict(s.levels, ToSet(kept))
      BY <1>1, <2>1
    <2> QED
      BY <2>2, <2>3 DEF Few
  <1>3. CASE n <= m
    <2>1. truncate(s, m) = s
      BY <1>3 DEF truncate
    <2>2. Few(n) = DOMAIN s.levels
      <3>1. n \in 0..Len(s.prices)
        BY <1>1
      <3>2. SubSeq(old, n - n + 1, n) = old
        BY <1>1
      <3>3. ToSet(SubSeq(old, n - n + 1, n)) = Few(n)
        BY <3>1, TailIsBest
      <3> QED
        BY <1>1, <3>2, <3>3
    <2>3. Few(m) = DOMAIN s.levels
      <3>1. \A p \in DOMAIN s.levels : p \in Few(n)
        BY <2>2
      <3>2. \A p \in DOMAIN s.levels :
               Cardinality({q \in DOMAIN s.levels : worse(s, p, q)}) < n
        BY <3>1
      <3>3. \A p \in DOMAIN s.levels :
               Cardinality({q \in DOMAIN s.levels : worse(s, p, q)}) \in Int
        <4>1. n \in 0..Len(s.prices)
          BY <1>1
        <4> QED
          BY <4>1, TailIsBest
      <3> QED
        BY <1>1, <1>3, <3>2, <3>3
    <2>4. Restrict(s.levels, DOMAIN s.levels) = s.levels
      BY <1>1 DEF Restrict
    <2> HIDE DEF Few
    <2>5. s.levels = Restrict(s.levels, Few(m))
      BY <2>3, <2>4
    <2> QED
      BY <2>1, <2>5 DEF Few
  <1> QED
    BY <1>1, <1>2, <1>3
=============================================================================
