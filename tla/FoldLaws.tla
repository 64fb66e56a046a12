------------------------------ MODULE FoldLaws ------------------------------
(***************************************************************************)
(* What FoldLeft computes, for any operator: the laws the proofs about the *)
(* program's loops rest on.  A loop over a sequence is FoldLeft of its     *)
(* body; an instance of this module with that body as Op gives its laws.   *)
(***************************************************************************)
EXTENDS Integers, Sequences, Folds, WellFoundedInduction, TLAPS

CONSTANT Op(_, _)   \* what one element does to what the loop has so far

Largest(S) == CHOOSE x \in S : \A y \in S : x >= y

\* FoldLeft(Op, base, s), spelled out with Folds alone: an instance of this module
\* brings no more of the library than it needs.
Fold(base, s) ==
  MapThenFoldSet(LAMBDA x, y : Op(y, x), base, LAMBDA i : s[i], LAMBDA S : Largest(S), DOMAIN s)

-----------------------------------------------------------------------------
(* Induction over the natural numbers, for sets of them.                   *)

\* A set of natural numbers that is not empty has a least one.
LEMMA LeastNatural ==
  ASSUME NEW T \in SUBSET Nat, T # {}
  PROVE  \E n \in T : \A k \in T : n <= k
  <1> DEFINE R == OpToRel(<, Nat)
  <1>1. PICK n \in T : \A k \in T : <<k, n>> \notin R
    <2> HIDE DEF R
    <2>1. IsWellFoundedOn(R, Nat)
      BY NatLessThanWellFounded DEF R
    <2> QED
      BY <2>1, WFMin
  <1>2. \A k \in T : ~(k < n)
    BY <1>1 DEF OpToRel
  <1>3. \A k \in T : n <= k
    <2> HIDE DEF R
    <2> QED
      BY <1>2
  <1> QED
    BY <1>3

\* A set that holds 0, and with each number its successor, holds them all.
LEMMA NaturalInduction ==
  ASSUME NEW T, 0 \in T, \A n \in Nat : n \in T => n + 1 \in T
  PROVE  Nat \subseteq T
  <1> SUFFICES ASSUME Nat \ T # {}
               PROVE  FALSE
    OBVIOUS
  <1>1. PICK n \in Nat \ T : \A k \in Nat \ T : n <= k
    BY LeastNatural
  <1>2. n - 1 \in Nat /\ n - 1 \notin Nat \ T
    BY <1>1
  <1> QED
    BY <1>1, <1>2

\* A set of numbers up to n that is not empty has a largest one.
LEMMA MaxOfBounded ==
  ASSUME NEW n \in Nat, NEW S \in SUBSET (1..n), S # {}
  PROVE  Largest(S) \in S /\ \A k \in S : k <= Largest(S)
  <1> DEFINE T == {k \in Nat : n - k \in S}
  <1>1. T # {}
    <2>1. PICK x \in S : TRUE
      OBVIOUS
    <2>2. n - x \in T
      BY <2>1
    <2> QED
      BY <2>2
  <1>2. PICK k \in T : \A j \in T : k <= j
    BY <1>1, LeastNatural
  <1>3. ASSUME NEW x \in S PROVE n - k >= x
    <2>1. n - x \in T
      OBVIOUS
    <2> QED
      BY <1>2, <2>1
  <1>4. \E x \in S : \A y \in S : x >= y
    BY <1>3
  <1>5. Largest(S) \in S /\ \A y \in S : Largest(S) >= y
    BY <1>4 DEF Largest
  <1> QED
    BY <1>5

\* The largest of the first n, and what is left without it.
LEMMA MaxOfInterval ==
  ASSUME NEW n \in Nat, n # 0
  PROVE  /\ Largest(1..n) = n
         /\ (1..n) \ {Largest(1..n)} = 1..(n - 1)
         /\ 1..n # {}
  <1>1. n \in 1..n
    OBVIOUS
  <1>2. Largest(1..n) \in 1..n /\ \A k \in 1..n : k <= Largest(1..n)
    BY <1>1, MaxOfBounded
  <1>3. Largest(1..n) = n
    BY <1>1, <1>2
  <1>4. (1..n) \ {n} = 1..(n - 1) /\ 1..n # {}
    BY <1>1
  <1> QED
    BY <1>3, <1>4

-----------------------------------------------------------------------------
(* FoldLeft.                                                               *)

\* f folds s, from base, over every set of its first n places, within V.
Folds(f, n, V, base, s) ==
  /\ f \in [SUBSET (1..n) -> V]
  /\ \A S \in SUBSET (1..n) :
        f[S] = IF S = {} THEN base ELSE Op(f[S \ {Largest(S)}], s[Largest(S)])

\* g is what the loop over s has after each element, from base, within V.
IsRun(g, V, base, s) ==
  /\ g \in [0..Len(s) -> V]
  /\ g[0] = base
  /\ \A i \in 1..Len(s) : g[i] = Op(g[i - 1], s[i])

\* The fold of one place more, given the fold f of the first n.
LEMMA FoldExtends ==
  ASSUME NEW V, NEW D, NEW base \in V, \A v \in V, d \in D : Op(v, d) \in V,
         NEW s \in Seq(D), NEW n \in Nat, n + 1 <= Len(s),
         NEW g, Folds(g, n, V, base, s)
  PROVE  \E f : Folds(f, n + 1, V, base, s)
  <1>1. s[n + 1] \in D
    OBVIOUS
  <1>2. g \in [SUBSET (1..n) -> V]
    BY DEF Folds
  <1> DEFINE f == [S \in SUBSET (1..(n + 1)) |->
                      IF n + 1 \in S THEN Op(g[S \ {n + 1}], s[n + 1]) ELSE g[S]]
  <1>3. ASSUME NEW S \in SUBSET (1..(n + 1))
        PROVE  /\ f[S] \in V
               /\ f[S] = IF S = {} THEN base ELSE Op(f[S \ {Largest(S)}], s[Largest(S)])
    <2>1. CASE n + 1 \in S
      <3>1. n + 1 \in Nat /\ S # {}
        BY <2>1
      <3>2. Largest(S) \in S /\ \A k \in S : k <= Largest(S)
        BY <3>1, MaxOfBounded
      <3>3. Largest(S) = n + 1
        <4>1. Largest(S) \in 1..(n + 1) /\ n + 1 <= Largest(S)
          BY <2>1, <3>2
        <4> QED
          BY <4>1
      <3>4. S \ {n + 1} \in SUBSET (1..n) /\ S \ {n + 1} \in SUBSET (1..(n + 1))
        OBVIOUS
      <3>5. f[S] = Op(g[S \ {n + 1}], s[n + 1]) /\ f[S \ {n + 1}] = g[S \ {n + 1}]
        BY <2>1, <3>4
      <3> HIDE DEF f
      <3>6. g[S \ {n + 1}] \in V
        BY <1>2, <3>4
      <3> QED
        BY <1>1, <2>1, <3>3, <3>5, <3>6
    <2>2. CASE n + 1 \notin S
      <3>1. S \in SUBSET (1..n)
        BY <2>2
      <3>2. f[S] = g[S]
        BY <2>2
      <3>3. g[S] = IF S = {} THEN base ELSE Op(g[S \ {Largest(S)}], s[Largest(S)])
        BY <3>1 DEF Folds
      <3>4. n + 1 \notin S \ {Largest(S)} /\ S \ {Largest(S)} \in SUBSET (1..(n + 1))
        BY <2>2
      <3>5. f[S \ {Largest(S)}] = g[S \ {Largest(S)}]
        BY <3>4
      <3>6. g[S] \in V
        BY <1>2, <3>1
      <3> HIDE DEF f
      <3> QED
        BY <3>2, <3>3, <3>5, <3>6
    <2> QED
      BY <2>1, <2>2
  <1>4. f = [S \in SUBSET (1..(n + 1)) |-> f[S]]
    OBVIOUS
  <1> HIDE DEF f
  <1>5. Folds(f, n + 1, V, base, s)
    BY <1>3, <1>4 DEF Folds
  <1> QED
    BY <1>5

\* Every sequence has a fold.
LEMMA FoldExists ==
  ASSUME NEW V, NEW D, NEW base \in V, \A v \in V, d \in D : Op(v, d) \in V,
         NEW s \in Seq(D)
  PROVE  \E f : Folds(f, Len(s), V, base, s)
  <1> DEFINE Foldable(n) == n <= Len(s) => \E f : Folds(f, n, V, base, s)
             T == {n \in Nat : Foldable(n)}
  <1>1. Foldable(0)
    <2> DEFINE f == [S \in SUBSET (1..0) |-> base]
    <2>1. 1..0 = {}
      OBVIOUS
    <2>2. Folds(f, 0, V, base, s)
      BY <2>1 DEF Folds
    <2> QED
      BY <2>2
  <1>2. ASSUME NEW n \in Nat, Foldable(n)
        PROVE  Foldable(n + 1)
    <2> SUFFICES ASSUME n + 1 <= Len(s)
                 PROVE  \E f : Folds(f, n + 1, V, base, s)
      OBVIOUS
    <2>1. n <= Len(s)
      OBVIOUS
    <2>2. PICK g : Folds(g, n, V, base, s)
      BY <1>2, <2>1
    <2> QED
      BY <2>2, FoldExtends
  <1> HIDE DEF Foldable
  <1>3. Nat \subseteq T
    <2>1. 0 \in T /\ \A n \in Nat : n \in T => n + 1 \in T
      BY <1>1, <1>2
    <2> HIDE DEF T
    <2> QED
      BY <2>1, NaturalInduction
  <1>4. Foldable(Len(s))
    <2>1. Len(s) \in Nat
      OBVIOUS
    <2> QED
      BY <1>3, <2>1
  <1> QED
    BY <1>4 DEF Foldable

\* The loop, run through: what it has after each element, from base to its result.
THEOREM FoldRun ==
  ASSUME NEW V, NEW D, NEW base \in V, \A v \in V, d \in D : Op(v, d) \in V,
         NEW s \in Seq(D)
  PROVE  \E g : IsRun(g, V, base, s) /\ g[Len(s)] = Fold(base, s)
  <1> DEFINE n == Len(s)
             f == CHOOSE f : f = [S \in SUBSET (1..n) |->
                     IF S = {} THEN base ELSE Op(f[S \ {Largest(S)}], s[Largest(S)])]
             g == [i \in 0..n |-> f[1..i]]
  <1>1. \A S \in SUBSET (1..n) :
           f[S] = IF S = {} THEN base ELSE Op(f[S \ {Largest(S)}], s[Largest(S)])
    <2>1. PICK h : Folds(h, n, V, base, s)
      BY FoldExists
    <2>2. h = [S \in SUBSET (1..n) |->
                  IF S = {} THEN base ELSE Op(h[S \ {Largest(S)}], s[Largest(S)])]
      BY <2>1 DEF Folds
    <2>3. f = [S \in SUBSET (1..n) |->
                  IF S = {} THEN base ELSE Op(f[S \ {Largest(S)}], s[Largest(S)])]
      BY <2>2
    <2> HIDE DEF f
    <2> QED
      BY <2>3
  <1>2. Fold(base, s) = f[1..n]
    <2>1. DOMAIN s = 1..n
      OBVIOUS
    <2> QED
      BY <2>1 DEF Fold, MapThenFoldSet, Largest
  <1> HIDE DEF f
  <1>3. f[1..0] = base
    <2>1. 1..0 = {} /\ 1..0 \in SUBSET (1..n)
      OBVIOUS
    <2> QED
      BY <1>1, <2>1
  <1>4. ASSUME NEW i \in 1..n
        PROVE  f[1..i] = Op(f[1..(i - 1)], s[i])
    <2>1. 1..i \in SUBSET (1..n)
      OBVIOUS
    <2>2. Largest(1..i) = i /\ (1..i) \ {Largest(1..i)} = 1..(i - 1) /\ 1..i # {}
      BY MaxOfInterval
    <2> QED
      BY <1>1, <2>1, <2>2
  <1> DEFINE T == {i \in Nat : i <= n => f[1..i] \in V}
  <1>5. 0 \in T
    BY <1>3
  <1>6. ASSUME NEW i \in Nat, i \in T
        PROVE  i + 1 \in T
    <2>1. CASE i + 1 <= n
      <3>1. f[1..(i + 1)] = Op(f[1..i], s[i + 1])
        BY <1>4, <2>1
      <3>2. f[1..i] \in V /\ s[i + 1] \in D
        BY <1>6, <2>1
      <3> QED
        BY <3>1, <3>2
    <2> QED
      BY <2>1
  <1>7. \A i \in 0..n : f[1..i] \in V
    <2> HIDE DEF T
    <2>1. \A i \in Nat : i \in T
      BY <1>5, <1>6, NaturalInduction
    <2> USE DEF T
    <2> QED
      BY <2>1
  <1>8. g[n] = Fold(base, s)
    BY <1>2
  <1>9. IsRun(g, V, base, s)
    BY <1>3, <1>4, <1>7 DEF IsRun
  <1> HIDE DEF g
  <1> QED
    BY <1>8, <1>9

\* The result keeps whatever every turn of the loop keeps.
THEOREM FoldType ==
  ASSUME NEW V, NEW D, NEW base \in V, \A v \in V, d \in D : Op(v, d) \in V,
         NEW s \in Seq(D)
  PROVE  Fold(base, s) \in V
  <1>1. PICK g : IsRun(g, V, base, s) /\ g[Len(s)] = Fold(base, s)
    BY FoldRun
  <1> QED
    BY <1>1 DEF IsRun

\* Two runs of the loop from the same base agree as far as their sequences do.
THEOREM RunsAgree ==
  ASSUME NEW V, NEW base, NEW s, NEW t, NEW g, NEW h, NEW n \in Nat,
         n <= Len(s), n <= Len(t), Len(s) \in Nat, Len(t) \in Nat,
         \A i \in 1..n : s[i] = t[i],
         IsRun(g, V, base, s), IsRun(h, V, base, t)
  PROVE  g[n] = h[n]
  <1> DEFINE T == {i \in Nat : i <= n => g[i] = h[i]}
  <1>1. 0 \in T
    BY DEF IsRun
  <1>2. ASSUME NEW i \in Nat, i \in T
        PROVE  i + 1 \in T
    <2> SUFFICES ASSUME i + 1 <= n
                 PROVE  g[i + 1] = h[i + 1]
      OBVIOUS
    <2>1. i + 1 \in 1..n /\ i + 1 \in 1..Len(s) /\ i + 1 \in 1..Len(t) /\ (i + 1) - 1 = i
      OBVIOUS
    <2>2. g[i + 1] = Op(g[i], s[i + 1]) /\ h[i + 1] = Op(h[i], t[i + 1])
      BY <2>1 DEF IsRun
    <2> QED
      BY <1>2, <2>1, <2>2
  <1> HIDE DEF T
  <1>3. n \in T
    BY <1>1, <1>2, NaturalInduction
  <1> QED
    BY <1>3 DEF T

\* A loop over no element returns what it began with.
THEOREM FoldEmpty ==
  ASSUME NEW base
  PROVE  Fold(base, <<>>) = base
  <1>1. Len(<<>>) = 0 /\ <<>> \in Seq({})
    OBVIOUS
  <1>2. \E g : IsRun(g, {base}, base, <<>>) /\ g[Len(<<>>)] = Fold(base, <<>>)
    BY <1>1, FoldRun
  <1> QED
    BY <1>1, <1>2 DEF IsRun

\* One element more is one turn more.
THEOREM FoldAppend ==
  ASSUME NEW V, NEW D, NEW base \in V, \A v \in V, d \in D : Op(v, d) \in V,
         NEW s \in Seq(D), NEW e \in D
  PROVE  Fold(base, Append(s, e)) = Op(Fold(base, s), e)
  <1> DEFINE n == Len(s)
             t == Append(s, e)
  <1>1. /\ t \in Seq(D) /\ n \in Nat /\ Len(t) = n + 1
        /\ t[n + 1] = e /\ \A i \in 1..n : t[i] = s[i]
    OBVIOUS
  <1> HIDE DEF t
  <1>2. PICK g : IsRun(g, V, base, s) /\ g[n] = Fold(base, s)
    BY FoldRun
  <1>3. PICK h : IsRun(h, V, base, t) /\ h[Len(t)] = Fold(base, t)
    BY <1>1, FoldRun, ZenonT(30)
  <1>4. g[n] = h[n]
    <2>1. n <= Len(s) /\ n <= Len(t) /\ Len(s) \in Nat /\ Len(t) \in Nat
          /\ \A i \in 1..n : s[i] = t[i]
      BY <1>1
    <2> HIDE DEF n
    <2> QED
      BY <1>1, <1>2, <1>3, <2>1, RunsAgree
  <1>5. h[n + 1] = Op(h[n], t[n + 1])
    BY <1>1, <1>3 DEF IsRun
  <1> QED
    BY <1>1, <1>2, <1>3, <1>4, <1>5 DEF t
=============================================================================
