---------------------------- MODULE StudyProofs ----------------------------
(* What the study makes of a tape: for every tape that TapeStudy's recorder *)
(* can write, any sizes, slices, interval and ladders, each decision ends   *)
(* in one state, slices add up and keep the schedule, and none is priced    *)
(* across a gap.                                                            *)
EXTENDS TapeStudy, FiniteSetTheorems, SequenceTheorems, TLAPS

Levels == INSTANCE FoldLaws WITH Op <- TakeLevel
Due == INSTANCE FoldLaws WITH Op <- DueSlice
Live == INSTANCE FoldLaws WITH Op <- KeepLive
Gaps == INSTANCE FoldLaws WITH Op <- AddGap

-----------------------------------------------------------------------------
(* The loops as folds.                                                     *)

\* Each loop is a fold the laws are about.
LEMMA FoldsAreFolds ==
  ASSUME NEW b, NEW s
  PROVE  /\ FoldLeft(TakeLevel, b, s) = Levels!Fold(b, s)
         /\ FoldLeft(DueSlice, b, s) = Due!Fold(b, s)
         /\ FoldLeft(KeepLive, b, s) = Live!Fold(b, s)
         /\ FoldLeft(AddGap, b, s) = Gaps!Fold(b, s)
  <1>1. FoldLeft(TakeLevel, b, s) = Levels!Fold(b, s)
    BY DEF Levels!Fold, FoldLeft, MapThenFoldSet, Levels!MapThenFoldSet,
           Max, Levels!Largest
  <1>2. FoldLeft(DueSlice, b, s) = Due!Fold(b, s)
    BY DEF Due!Fold, FoldLeft, MapThenFoldSet, Due!MapThenFoldSet, Max, Due!Largest
  <1>3. FoldLeft(KeepLive, b, s) = Live!Fold(b, s)
    BY DEF Live!Fold, FoldLeft, MapThenFoldSet, Live!MapThenFoldSet,
           Max, Live!Largest
  <1>4. FoldLeft(AddGap, b, s) = Gaps!Fold(b, s)
    BY DEF Gaps!Fold, FoldLeft, MapThenFoldSet, Gaps!MapThenFoldSet,
           Max, Gaps!Largest
  <1> QED
    BY <1>1, <1>2, <1>3, <1>4

-----------------------------------------------------------------------------
(* A walk.                                                                 *)

\* The errors of a row, those of a walk among them.
Errors == {"none", "overflow", "depth", "quantity", "empty", "unsorted", "nofill", "tape-ended"}

\* How far a walk for q may be.
Walks(q) == [err : {"none", "overflow"}, left : 0..q, notional : 0..MaxInt64,
             fills : Seq(LadderLevel)]

\* A level taken leaves no negative remainder and no amount beyond MaxInt64.
LEMMA TakeLevelType ==
  ASSUME NEW q \in Nat, NEW c \in Walks(q), NEW lv \in LadderLevel
  PROVE  TakeLevel(c, lv) \in Walks(q)
  <1>1. /\ c = [err |-> c.err, left |-> c.left, notional |-> c.notional, fills |-> c.fills]
        /\ c.err \in {"none", "overflow"} /\ c.left \in 0..q /\ c.notional \in 0..MaxInt64
        /\ c.fills \in Seq(LadderLevel) /\ MaxInt64 \in Nat
    BY ScaleAssumption DEF Walks
  <1>2. /\ lv = [venue |-> lv.venue, price |-> lv.price, qty |-> lv.qty]
        /\ lv.venue \in {Coinbase, Kraken}
        /\ lv.price \in Nat \ {0} /\ lv.qty \in Nat \ {0}
    BY DEF LadderLevel
  <1>3. CASE c.err # "none" \/ c.left <= 0
    BY <1>3 DEF TakeLevel
  <1>4. CASE c.err = "none" /\ c.left > 0
    <2> DEFINE take == Min({lv.qty, c.left})
               n == mulDiv(lv.price, take, Scale)
    <2>1. take \in 1..c.left /\ take <= lv.qty
      <3>1. take = IF lv.qty <= c.left THEN lv.qty ELSE c.left
        <4>1. \E x \in {lv.qty, c.left} : \A y \in {lv.qty, c.left} : x <= y
          BY <1>1, <1>2
        <4>2. take \in {lv.qty, c.left} /\ take <= lv.qty /\ take <= c.left
          BY <4>1 DEF Min
        <4> QED
          BY <1>1, <1>2, <4>2
      <3> QED
        BY <1>1, <1>2, <1>4, <3>1
    <2>2. TakeLevel(c, lv) =
            IF n = Overflow \/ c.notional > MaxInt64 - n
            THEN [c EXCEPT !.err = "overflow"]
            ELSE [c EXCEPT !.left = c.left - take, !.notional = c.notional + n,
                           !.fills = Append(c.fills, [lv EXCEPT !.qty = take])]
      BY <1>1, <1>4 DEF TakeLevel, Fill
    <2> HIDE DEF take
    <2>3. n = Overflow \/ n \in 0..MaxInt64
      <3> DEFINE x == lv.price * take
      <3>1. x \in Nat
        BY <1>2, <2>1
      <3> HIDE DEF x
      <3>2. x \div Scale \in Nat
        BY <3>1, ScaleAssumption
      <3> QED
        BY <1>1, <3>2 DEF mulDiv, x
    <2> HIDE DEF n
    <2>4. CASE n = Overflow \/ c.notional > MaxInt64 - n
      BY <1>1, <2>2, <2>4 DEF Walks
    <2>5. CASE ~(n = Overflow \/ c.notional > MaxInt64 - n)
      <3>1. n \in 0..MaxInt64 /\ c.notional + n \in 0..MaxInt64
        BY <1>1, <2>3, <2>5
      <3>2. c.left - take \in 0..q
        BY <1>1, <2>1
      <3>3. [lv EXCEPT !.qty = take] \in LadderLevel
        <4>1. [lv EXCEPT !.qty = take] = [venue |-> lv.venue, price |-> lv.price, qty |-> take]
          BY <1>2
        <4>2. take \in Nat \ {0}
          BY <1>1, <2>1
        <4> QED
          BY <1>2, <4>1, <4>2 DEF LadderLevel
      <3>4. Append(c.fills, [lv EXCEPT !.qty = take]) \in Seq(LadderLevel)
        BY <1>1, <3>3
      <3> QED
        BY <1>1, <2>2, <2>5, <3>1, <3>2, <3>4 DEF Walks
    <2> QED
      BY <2>4, <2>5
  <1> QED
    BY <1>1, <1>3, <1>4

\* The amount of a walk fits, whatever the ladder, and the error is a word.
LEMMA WalkType ==
  ASSUME NEW l \in Seq(LadderLevel), NEW q \in Nat
  PROVE  /\ Walk(l, Side, q).notional \in 0..MaxInt64
         /\ Walk(l, Side, q).err \in Errors
  <1> DEFINE base == Begun(q)
             c == FoldLeft(TakeLevel, base, l)
  <1>1. base \in Walks(q)
    BY ScaleAssumption DEF Walks, Begun
  <1>2. \A w \in Walks(q), lv \in LadderLevel : TakeLevel(w, lv) \in Walks(q)
    BY TakeLevelType
  <1> HIDE DEF base
  <1>3. c \in Walks(q)
    BY <1>1, <1>2, FoldsAreFolds, Levels!FoldType
  <1>4. \A why \in Errors : Refused(why).notional = 0 /\ Refused(why).err = why
    BY DEF Refused
  <1> HIDE DEF c
  <1>5. Costed(c, q).notional \in 0..MaxInt64 /\ Costed(c, q).err \in Errors
    <2>1. /\ c.err \in Errors /\ c.notional \in 0..MaxInt64 /\ MaxInt64 \in Nat
      BY <1>3, ScaleAssumption DEF Walks, Errors
    <2> DEFINE avg == IF q - c.left > 0 THEN mulDiv(c.notional, Scale, q - c.left) ELSE 0
               result == [err |-> c.err, filled |-> q - c.left, notional |-> c.notional,
                          avg |-> avg, fills |-> c.fills]
    <2>2. Costed(c, q) = IF c.err # "none" THEN [result EXCEPT !.notional = 0, !.avg = 0]
                         ELSE IF avg = Overflow
                         THEN [result EXCEPT !.err = "overflow", !.avg = 0]
                         ELSE IF c.left > 0 THEN [result EXCEPT !.err = "depth"]
                         ELSE result
      BY DEF Costed
    <2> HIDE DEF avg
    <2> QED
      BY <2>1, <2>2 DEF Errors
  <1>6. Walk(l, Side, q) \in {Refused("quantity"), Refused("empty"), Refused("unsorted"),
                              Costed(c, q)}
    BY DEF Walk, c, base
  <1>7. 0 \in 0..MaxInt64
    BY ScaleAssumption
  <1>8. CASE Walk(l, Side, q) = Costed(c, q)
    BY <1>5, <1>8
  <1>9. CASE Walk(l, Side, q) \in {Refused("quantity"), Refused("empty"), Refused("unsorted")}
    <2>1. {"quantity", "empty", "unsorted"} \subseteq Errors
      BY DEF Errors
    <2> QED
      BY <1>4, <1>7, <1>9, <2>1
  <1> QED
    BY <1>6, <1>8, <1>9

-----------------------------------------------------------------------------
(* The slices of one parent.                                               *)

PendingRecord ==
  [rowIdx : Nat, size : Nat \ {0}, remaining : Nat, nextAt : Int, left : 0..Slices,
   notional : Int, err : Errors, dry : BOOLEAN]

\* A failed parent is over, and one whose last slice met a book has it all.
Sound(p) ==
  /\ p.remaining <= p.size
  /\ p.err # "none" => p.left = 0
  /\ p.left = 0 /\ p.err = "none" /\ ~p.dry => p.remaining = 0

\* The schedule of a parent that started at t.
OnSchedule(p, t) == p.err = "none" => p.nextAt = t + (Slices - p.left) * Step

\* What the parent of row i, of this size and started at t, may become.
Parents(i, size, t) ==
  {p \in PendingRecord : p.rowIdx = i /\ p.size = size /\ Sound(p) /\ OnSchedule(p, t)}

\* A time and what the books show.
Times == [ladder : Seq(LadderLevel), at : Int]

\* The constants' types.
LEMMA StepType == Slices \in Nat \ {0} /\ Step \in Nat
  BY StudyAssumption DEF Step

\* A slice is no more than what remains.
LEMMA SliceQtyBounded ==
  ASSUME NEW p, p.remaining \in Nat, p.left \in Nat \ {0}
  PROVE  SliceQty(p) \in 0..p.remaining /\ (p.left = 1 => SliceQty(p) = p.remaining)
  <1> DEFINE r == p.remaining
             n == p.left
  <1>1. r \in Nat /\ n \in Nat \ {0}
    OBVIOUS
  <1> HIDE DEF r, n
  <1>2. r \div n \in 0..r
    BY <1>1
  <1> QED
    BY <1>1, <1>2 DEF SliceQty, r, n

\* The parent with r left to fill, at a cost of n so far.
FilledTo(p, n, r) == [p EXCEPT !.notional = n, !.remaining = r]

\* The same, field by field.
LEMMA FilledToFields ==
  ASSUME NEW a, NEW b, NEW c, NEW d, NEW e, NEW f, NEW g, NEW h, NEW n, NEW r, NEW p,
         p = [rowIdx |-> a, size |-> b, remaining |-> c, nextAt |-> d, left |-> e,
              notional |-> f, err |-> g, dry |-> h]
  PROVE  FilledTo(p, n, r) = [rowIdx |-> a, size |-> b, remaining |-> r, nextAt |-> d,
                              left |-> e, notional |-> n, err |-> g, dry |-> h]
  <1> DEFINE w == [p EXCEPT !.notional = n]
  <1>1. w = [rowIdx |-> a, size |-> b, remaining |-> c, nextAt |-> d, left |-> e,
             notional |-> n, err |-> g, dry |-> h]
    OBVIOUS
  <1>2. FilledTo(p, n, r) = [w EXCEPT !.remaining = r]
    BY Zenon DEF FilledTo
  <1> HIDE DEF w
  <1> QED
    BY <1>1, <1>2

\* The schedule moves on by a step.
LEMMA AfterSliceType ==
  ASSUME NEW i, NEW size, NEW t \in Int, NEW p \in Parents(i, size, t), p.left > 0,
         NEW at, NEW r \in 0..p.remaining, p.left = 1 => r = 0 \/ p.dry,
         NEW n \in Int
  PROVE  /\ AfterSlice(FilledTo(p, n, r), at) \in Parents(i, size, t)
         /\ AfterSlice(FilledTo(p, n, r), at).left = p.left - 1
  <1>1. /\ p = [rowIdx |-> p.rowIdx, size |-> p.size, remaining |-> p.remaining,
                nextAt |-> p.nextAt, left |-> p.left, notional |-> p.notional,
                err |-> p.err, dry |-> p.dry]
        /\ p.rowIdx = i /\ p.size = size /\ p.err = "none"
        /\ p.remaining \in Nat /\ p.left \in 1..Slices /\ p.nextAt \in Int
        /\ p.rowIdx \in Nat /\ p.size \in Nat \ {0} /\ p.err \in Errors /\ p.dry \in BOOLEAN
        /\ p.remaining <= p.size
        /\ p.nextAt = t + (Slices - p.left) * Step
    BY DEF Parents, PendingRecord, Sound, OnSchedule
  <1> DEFINE q == [rowIdx |-> p.rowIdx, size |-> p.size, remaining |-> r,
                   nextAt |-> p.nextAt + Step, left |-> p.left - 1, notional |-> n,
                   err |-> p.err, dry |-> p.dry]
  <1>2. AfterSlice(FilledTo(p, n, r), at) = q
    <2> DEFINE w == FilledTo(p, n, r)
    <2>1. w = [rowIdx |-> p.rowIdx, size |-> p.size, remaining |-> r, nextAt |-> p.nextAt,
               left |-> p.left, notional |-> n, err |-> p.err, dry |-> p.dry]
      BY <1>1, FilledToFields
    <2> HIDE DEF w
    <2>2. AfterSlice(w, at) = [w EXCEPT !.left = w.left - 1, !.nextAt = w.nextAt + Step]
      BY DEF AfterSlice
    <2>3. AfterSlice(w, at) = q
      BY <2>1, <2>2
    <2> QED
      BY <2>3 DEF w
  <1>3. p.nextAt + Step = t + (Slices - (p.left - 1)) * Step
    <2> DEFINE k == Slices - p.left
    <2>1. k \in Int /\ Slices - (p.left - 1) = k + 1
      BY <1>1, StepType
    <2> HIDE DEF k
    <2>2. (k + 1) * Step = k * Step + Step
      BY <2>1, StepType
    <2>3. k * Step \in Int
      BY <2>1, StepType
    <2>4. p.nextAt = t + k * Step
      BY <1>1 DEF k
    <2> QED
      BY <2>1, <2>2, <2>3, <2>4, StepType
  <1>4. q \in PendingRecord
    BY <1>1, StepType DEF PendingRecord
  <1>5. Sound(q)
    BY <1>1 DEF Sound
  <1>6. OnSchedule(q, t)
    BY <1>3 DEF OnSchedule
  <1> QED
    BY <1>1, <1>2, <1>4, <1>5, <1>6 DEF Parents

\* A slice that is due is one slice less to go, or the end of a parent that
\* fails; nothing else happens to a parent.
LEMMA DueSliceType ==
  ASSUME NEW i, NEW size, NEW t \in Int, NEW p \in Parents(i, size, t), NEW d \in Times
  PROVE  /\ DueSlice(p, d) \in Parents(i, size, t)
         /\ ~(p.left > 0 /\ p.nextAt <= d.at) => DueSlice(p, d) = p
         /\ p.left > 0 /\ p.nextAt <= d.at => DueSlice(p, d).left <= p.left - 1
  <1> DEFINE l == d.ladder
             at == d.at
             q == SliceQty(p)
             c == Walk(l, Side, q)
  <1>1. /\ p = [rowIdx |-> p.rowIdx, size |-> p.size, remaining |-> p.remaining,
                nextAt |-> p.nextAt, left |-> p.left, notional |-> p.notional,
                err |-> p.err, dry |-> p.dry]
        /\ p \in PendingRecord /\ p.rowIdx = i /\ p.size = size
        /\ p.remaining \in Nat /\ p.left \in 0..Slices /\ p.nextAt \in Int
        /\ p.notional \in Int /\ p.dry \in BOOLEAN
        /\ p.remaining <= p.size
        /\ l \in Seq(LadderLevel) /\ at \in Int
    BY DEF Parents, PendingRecord, Sound, Times
  <1>2. CASE ~(p.left > 0 /\ p.nextAt <= at)
    BY <1>2 DEF DueSlice
  <1>3. CASE p.left > 0 /\ p.nextAt <= at
    <2>1. DueSlice(p, d) = WorkSlice(p, l, at)
      BY <1>3 DEF DueSlice
    <2>2. q \in 0..p.remaining /\ (p.left = 1 => q = p.remaining)
      BY <1>1, <1>3, SliceQtyBounded
    <2> HIDE DEF q
    <2>3. c.notional \in 0..MaxInt64 /\ c.err \in Errors
      BY <1>1, <2>2, WalkType
    <2> HIDE DEF c, l, at
    <2>4. CASE q = 0 \/ l = <<>>
      <3> DEFINE w == [p EXCEPT !.dry = p.dry \/ l = <<>>]
      <3>1. WorkSlice(p, l, at) = AfterSlice(w, at)
        BY <2>4 DEF WorkSlice, q
      <3>2. w \in Parents(i, size, t) /\ w.left = p.left /\ w.remaining = p.remaining
            /\ w.notional = p.notional /\ w.dry = (p.dry \/ l = <<>>)
            /\ w = FilledTo(w, w.notional, w.remaining)
        <4> DEFINE dr == p.dry \/ l = <<>>
        <4>1. w = [rowIdx |-> p.rowIdx, size |-> p.size, remaining |-> p.remaining,
                   nextAt |-> p.nextAt, left |-> p.left, notional |-> p.notional,
                   err |-> p.err, dry |-> dr] /\ dr \in BOOLEAN
          BY <1>1
        <4> HIDE DEF dr, w
        <4>2. w \in PendingRecord
          BY <1>1, <4>1 DEF PendingRecord
        <4>3. Sound(w) /\ OnSchedule(w, t)
          BY <1>1, <1>3, <4>1 DEF Parents, Sound, OnSchedule
        <4> QED
          BY <1>1, <4>1, <4>2, <4>3 DEF Parents, dr, FilledTo
      <3> HIDE DEF w
      <3>3. w.remaining \in 0..w.remaining /\ w.notional \in Int /\ w.left > 0
            /\ (w.left = 1 => w.remaining = 0 \/ w.dry)
        <4>1. w.remaining \in Nat /\ w.notional \in Int /\ w.left > 0
          BY <1>1, <1>3, <3>2
        <4>2. w.left = 1 => w.remaining = 0 \/ w.dry
          BY <2>2, <2>4, <3>2
        <4> QED
          BY <4>1, <4>2
      <3>4. AfterSlice(w, at) \in Parents(i, size, t) /\ AfterSlice(w, at).left = w.left - 1
        <4> DEFINE r == w.remaining
                   n == w.notional
        <4>1. r \in 0..w.remaining /\ n \in Int /\ (w.left = 1 => r = 0 \/ w.dry)
              /\ w.left > 0 /\ w \in Parents(i, size, t)
              /\ w = FilledTo(w, n, r)
          BY <3>2, <3>3
        <4> HIDE DEF r, n
        <4>2. /\ AfterSlice(FilledTo(w, n, r), at) \in Parents(i, size, t)
              /\ AfterSlice(FilledTo(w, n, r), at).left = w.left - 1
          BY <4>1, AfterSliceType
        <4> QED
          BY <4>1, <4>2
      <3> QED
        BY <1>1, <1>3, <2>1, <3>1, <3>2, <3>4 DEF at
    <2>5. CASE ~(q = 0 \/ l = <<>>)
      <3>1. WorkSlice(p, l, at) = Filled(p, q, c, at)
        BY <2>5 DEF WorkSlice, q, c
      <3>2. CASE c.err # "none"
        <4>1. Filled(p, q, c, at) = [p EXCEPT !.err = c.err, !.left = 0]
          BY <3>2 DEF Filled
        <4>2. Filled(p, q, c, at) =
                [rowIdx |-> p.rowIdx, size |-> p.size, remaining |-> p.remaining,
                 nextAt |-> p.nextAt, left |-> 0, notional |-> p.notional,
                 err |-> c.err, dry |-> p.dry]
          BY <1>1, <4>1
        <4>3. Filled(p, q, c, at) \in PendingRecord
          BY <1>1, <2>3, <4>2, StepType DEF PendingRecord
        <4>4. Sound(Filled(p, q, c, at)) /\ OnSchedule(Filled(p, q, c, at), t)
          BY <1>1, <3>2, <4>2 DEF Sound, OnSchedule
        <4> QED
          BY <1>1, <1>3, <2>1, <3>1, <4>2, <4>3, <4>4 DEF Parents, at
      <3>3. CASE c.err = "none"
        <4> DEFINE n == p.notional + c.notional
                   r == p.remaining - q
        <4>1. Filled(p, q, c, at) = AfterSlice(FilledTo(p, n, r), at)
          BY <3>3 DEF Filled, FilledTo
        <4>2. n \in Int /\ r \in 0..p.remaining /\ (p.left = 1 => r = 0)
          BY <1>1, <2>2, <2>3
        <4> HIDE DEF n, r
        <4>3. Filled(p, q, c, at) \in Parents(i, size, t)
              /\ Filled(p, q, c, at).left = p.left - 1
          BY <1>3, <4>1, <4>2, AfterSliceType
        <4> QED
          BY <1>1, <1>3, <2>1, <3>1, <4>3 DEF at
      <3> QED
        BY <3>2, <3>3
    <2> QED
      BY <2>4, <2>5
  <1> QED
    BY <1>2, <1>3

\* Every slice that is due is worked: a parent that is still at work after a
\* record waits for a later one.
LEMMA WorkedType ==
  ASSUME NEW i, NEW size, NEW t \in Int, NEW p \in Parents(i, size, t),
         NEW l \in Seq(LadderLevel), NEW at \in Int
  PROVE  /\ Worked(p, l, at) \in Parents(i, size, t)
         /\ Worked(p, l, at).left > 0 => Worked(p, l, at).nextAt > at
  <1> DEFINE V == Parents(i, size, t)
             d == [ladder |-> l, at |-> at]
             n == p.left
             s == [k \in 1..n |-> d]
  <1>1. n \in Nat /\ d \in Times /\ d.at = at
    BY StepType DEF Parents, PendingRecord, Times
  <1> HIDE DEF n, d
  <1>2. s \in Seq(Times) /\ Len(s) = n
    BY <1>1
  <1> HIDE DEF s
  <1>3. \A q \in V, e \in Times : DueSlice(q, e) \in V
    BY DueSliceType
  <1>4. PICK g : Due!IsRun(g, V, p, s) /\ g[n] = Due!Fold(p, s)
    BY <1>2, <1>3, Due!FoldRun
  <1>5. Worked(p, l, at) = g[n]
    BY <1>4, FoldsAreFolds DEF Worked, s, n, d
  <1>6. /\ g \in [0..n -> V] /\ g[0] = p
        /\ \A k \in 1..n : g[k] = DueSlice(g[k - 1], d)
    <2>1. \A k \in 1..n : s[k] = d
      BY DEF s
    <2> QED
      BY <1>2, <1>4, <2>1 DEF Due!IsRun
  <1>7. \A q \in V : q.left \in Int /\ q.nextAt \in Int
    BY StepType DEF Parents, PendingRecord
  <1> DEFINE T == {k \in Nat : k <= n => \/ g[k].left > 0 => g[k].nextAt > at
                                         \/ g[k].left <= n - k}
  <1>8. 0 \in T
    BY <1>1, <1>6, <1>7 DEF n
  <1>9. ASSUME NEW k \in Nat, k \in T
        PROVE  k + 1 \in T
    <2> SUFFICES ASSUME k + 1 <= n
                 PROVE  \/ g[k + 1].left > 0 => g[k + 1].nextAt > at
                        \/ g[k + 1].left <= n - (k + 1)
      OBVIOUS
    <2>1. k + 1 \in 1..n /\ (k + 1) - 1 = k /\ k \in 0..n /\ k <= n
      BY <1>1
    <2> DEFINE q == g[k]
               r == g[k + 1]
    <2>2. r = DueSlice(q, d) /\ q \in V
      BY <1>6, <2>1
    <2>3. q.left \in Int /\ q.nextAt \in Int
      BY <1>7, <2>2
    <2>4. (q.left > 0 => q.nextAt > at) \/ q.left <= n - k
      BY <1>9, <2>1
    <2> HIDE DEF q, r, V
    <2>5. CASE q.left > 0 /\ q.nextAt <= at
      <3>1. r.left <= q.left - 1 /\ r \in V
        BY <1>1, <1>3, <2>2, <2>5, DueSliceType DEF V
      <3>2. r.left \in Int
        BY <1>7, <3>1
      <3>3. r.left <= n - (k + 1)
        BY <1>1, <2>3, <2>4, <2>5, <3>1, <3>2
      <3> QED
        BY <3>3 DEF r
    <2>6. CASE ~(q.left > 0 /\ q.nextAt <= at)
      <3>1. r = q
        BY <1>1, <2>2, <2>6, DueSliceType DEF V
      <3>2. q.left > 0 => q.nextAt > at
        BY <1>1, <2>3, <2>6
      <3> QED
        BY <3>1, <3>2 DEF r
    <2> QED
      BY <2>5, <2>6
  <1> HIDE DEF T
  <1>10. n \in T
    BY <1>1, <1>8, <1>9, Due!NaturalInduction
  <1>11. g[n] \in V
    BY <1>1, <1>6
  <1>12. g[n].left > 0 => g[n].nextAt > at
    <2>1. (g[n].left > 0 => g[n].nextAt > at) \/ g[n].left <= n - n
      BY <1>1, <1>10 DEF T
    <2>2. g[n].left \in Int
      BY <1>7, <1>11
    <2> QED
      BY <1>1, <2>1, <2>2
  <1> QED
    BY <1>5, <1>11, <1>12

-----------------------------------------------------------------------------
(* The parents that stay in flight.                                        *)

\* In the order of their rows, one for each.
InOrder(ps) == \A j, k \in 1..Len(ps) : j < k => ps[j].rowIdx < ps[k].rowIdx

\* What is kept of a sequence of parents: those that are not finished, in order.
LEMMA LiveParents ==
  ASSUME NEW ps \in Seq(PendingRecord), InOrder(ps)
  PROVE  LET live == FoldLeft(KeepLive, <<>>, ps)
         IN /\ live \in Seq(PendingRecord) /\ InOrder(live)
            /\ \A k \in 1..Len(live) : \E j \in 1..Len(ps) : live[k] = ps[j] /\ ps[j].left > 0
            /\ \A j \in 1..Len(ps) : ps[j].left > 0 => \E k \in 1..Len(live) : live[k] = ps[j]
  <1> DEFINE n == Len(ps)
             V == Seq(PendingRecord)
             Kept(live, m) ==
               /\ live \in V /\ InOrder(live)
               /\ \A k \in 1..Len(live) : \E j \in 1..m : live[k] = ps[j] /\ ps[j].left > 0
               /\ \A j \in 1..m : ps[j].left > 0 => \E k \in 1..Len(live) : live[k] = ps[j]
  <1>1. n \in Nat /\ \A v \in V, p \in PendingRecord : KeepLive(v, p) \in V
    BY DEF KeepLive
  <1>2. <<>> \in V
    OBVIOUS
  <1>3. PICK g : Live!IsRun(g, V, <<>>, ps) /\ g[n] = Live!Fold(<<>>, ps)
    BY <1>1, <1>2, Live!FoldRun
  <1>4. /\ g \in [0..n -> V] /\ g[0] = <<>>
        /\ \A k \in 1..n : g[k] = KeepLive(g[k - 1], ps[k])
    BY <1>3 DEF Live!IsRun
  <1> DEFINE T == {m \in Nat : m <= n => Kept(g[m], m)}
  <1>5. 0 \in T
    <2>1. 1..Len(<<>>) = {} /\ 1..0 = {}
      OBVIOUS
    <2>2. Kept(<<>>, 0)
      BY <1>2, <2>1 DEF InOrder
    <2> HIDE DEF Kept
    <2> QED
      BY <1>4, <2>2
  <1>6. ASSUME NEW m \in Nat, m \in T
        PROVE  m + 1 \in T
    <2> HIDE DEF Kept
    <2> SUFFICES ASSUME m + 1 <= n
                 PROVE  Kept(g[m + 1], m + 1)
      OBVIOUS
    <2> USE DEF Kept
    <2>1. m + 1 \in 1..n /\ (m + 1) - 1 = m /\ m <= n /\ m \in 0..n
      BY <1>1
    <2> DEFINE v == g[m]
               p == ps[m + 1]
    <2>2. Kept(v, m)
      BY <1>6, <2>1
    <2>3. g[m + 1] = KeepLive(v, p) /\ p \in PendingRecord /\ v \in V
      BY <1>4, <2>1
    <2>5. Len(v) \in Nat
      BY <2>3
    <2> HIDE DEF v, V
    <2>6. CASE ~(p.left > 0)
      <3>1. g[m + 1] = v
        BY <2>3, <2>6 DEF KeepLive
      <3>2. \A j \in 1..m : j \in 1..m + 1
        BY <2>1
      <3>3. \A j \in 1..m + 1 : j \in 1..m \/ j = m + 1
        BY <2>1
      <3>4. \A k \in 1..Len(v) : \E j \in 1..m + 1 : v[k] = ps[j] /\ ps[j].left > 0
        BY <2>2, <3>2
      <3>5. \A j \in 1..m + 1 : ps[j].left > 0 => \E k \in 1..Len(v) : v[k] = ps[j]
        BY <2>2, <2>6, <3>3
      <3> QED
        BY <2>2, <3>1, <3>4, <3>5
    <2>7. CASE p.left > 0
      <3> DEFINE w == Append(v, p)
      <3>1. g[m + 1] = w
        BY <2>3, <2>7 DEF KeepLive
      <3>2. /\ w \in V /\ Len(w) = Len(v) + 1 /\ w[Len(v) + 1] = p
            /\ \A k \in 1..Len(v) : w[k] = v[k]
        BY <2>3 DEF V
      <3> HIDE DEF w
      <3>3. \A k \in 1..Len(w) : k \in 1..Len(v) \/ k = Len(v) + 1
        BY <2>5, <3>2
      <3>4. \A k \in 1..Len(v) : k \in 1..Len(w)
        BY <2>5, <3>2
      <3>5. Len(v) + 1 \in 1..Len(w)
        BY <2>5, <3>2
      <3>6. \A j \in 1..m : j \in 1..m + 1 /\ j < m + 1 /\ j \in 1..n
        BY <1>1, <2>1
      <3>7. \A k \in 1..Len(v) : v[k].rowIdx < p.rowIdx
        <4> TAKE k \in 1..Len(v)
        <4>1. PICK j \in 1..m : v[k] = ps[j]
          BY <2>2
        <4> QED
          BY <2>1, <3>6, <4>1 DEF InOrder
      <3>8. InOrder(w)
        <4> SUFFICES ASSUME NEW j \in 1..Len(w), NEW k \in 1..Len(w), j < k
                     PROVE  w[j].rowIdx < w[k].rowIdx
          BY DEF InOrder
        <4>1. j \in 1..Len(v)
          BY <2>5, <3>2
        <4>2. CASE k \in 1..Len(v)
          BY <2>2, <3>2, <4>1, <4>2 DEF InOrder
        <4>3. CASE k = Len(v) + 1
          BY <3>2, <3>7, <4>1, <4>3
        <4> QED
          BY <3>3, <4>2, <4>3
      <3>9. \A k \in 1..Len(w) : \E j \in 1..m + 1 : w[k] = ps[j] /\ ps[j].left > 0
        <4> TAKE k \in 1..Len(w)
        <4>1. CASE k \in 1..Len(v)
          <5>1. PICK j \in 1..m : v[k] = ps[j] /\ ps[j].left > 0
            BY <2>2, <4>1
          <5> QED
            BY <3>2, <3>6, <4>1, <5>1
        <4>2. CASE k = Len(v) + 1
          <5>1. m + 1 \in 1..m + 1
            BY <2>1
          <5> QED
            BY <2>7, <3>2, <4>2, <5>1
        <4> QED
          BY <3>3, <4>1, <4>2
      <3>10. ASSUME NEW j \in 1..m + 1, ps[j].left > 0
             PROVE  \E k \in 1..Len(w) : w[k] = ps[j]
        <4>1. CASE j \in 1..m
          BY <2>2, <3>2, <3>4, <3>10, <4>1
        <4>2. CASE j = m + 1
          BY <3>2, <3>5, <4>2
        <4>3. j \in 1..m \/ j = m + 1
          BY <2>1
        <4> QED
          BY <4>1, <4>2, <4>3
      <3> QED
        BY <3>1, <3>2, <3>8, <3>9, <3>10
    <2> QED
      BY <2>6, <2>7
  <1> HIDE DEF T
  <1>7. n \in T
    BY <1>1, <1>5, <1>6, Live!NaturalInduction
  <1>8. Kept(g[n], n)
    BY <1>1, <1>7 DEF T
  <1>9. g[n] = FoldLeft(KeepLive, <<>>, ps)
    BY <1>3, FoldsAreFolds
  <1> QED
    BY <1>8, <1>9

-----------------------------------------------------------------------------
(* Rows.                                                                   *)

Row ==
  [at : Int, size : Nat \ {0}, err : Errors, priced : BOOLEAN, filled : Int, notional : Int,
   dry : BOOLEAN, gaps : Nat]

\* A row a parent is working for, when g gaps have been read.
AtWork(r, g) == ~r.priced /\ r.err = "none" /\ r.gaps = g

\* A row no parent works for any more: priced, failed, or dropped at a gap.
Over(r, g) ==
  \/ r.priced /\ r.err = "none"
  \/ ~r.priced /\ r.err # "none"
  \/ ~r.priced /\ r.err = "none" /\ r.gaps < g

\* What SlicesAddUp says of a row.
AddsUp(r) == r.priced => r.filled <= r.size /\ (~r.dry => r.filled = r.size)

\* What makes a row the row of its decision.
SameDecision(r, q) == r.at = q.at /\ r.size = q.size /\ r.gaps = q.gaps

\* A row of these fields.
RowOf(a, s, e, p, f, n, d, g) ==
  [at |-> a, size |-> s, err |-> e, priced |-> p, filled |-> f, notional |-> n, dry |-> d,
   gaps |-> g]

\* The row priced (x) at a notional of n for f filled.
PricedAt(r, x, f, n, d) == [r EXCEPT !.priced = x, !.filled = f, !.notional = n, !.dry = d]

\* The same, field by field.
LEMMA PricedFields ==
  ASSUME NEW a, NEW s, NEW e, NEW p, NEW f0, NEW n0, NEW d0, NEW g,
         NEW f, NEW n, NEW d, NEW x, NEW r,
         r = [at |-> a, size |-> s, err |-> e, priced |-> p, filled |-> f0, notional |-> n0,
              dry |-> d0, gaps |-> g]
  PROVE  PricedAt(r, x, f, n, d) = RowOf(a, s, e, x, f, n, d, g)
  <1> DEFINE u == [r EXCEPT !.priced = x]
             v == [u EXCEPT !.filled = f]
             w == [v EXCEPT !.notional = n]
  <1>1. u = [at |-> a, size |-> s, err |-> e, priced |-> x, filled |-> f0, notional |-> n0,
             dry |-> d0, gaps |-> g]
    OBVIOUS
  <1>2. PricedAt(r, x, f, n, d) = [w EXCEPT !.dry = d]
    BY Zenon DEF PricedAt
  <1> HIDE DEF u
  <1>3. v = [at |-> a, size |-> s, err |-> e, priced |-> x, filled |-> f, notional |-> n0,
             dry |-> d0, gaps |-> g]
    BY <1>1
  <1> HIDE DEF v
  <1>4. w = [at |-> a, size |-> s, err |-> e, priced |-> x, filled |-> f, notional |-> n,
             dry |-> d0, gaps |-> g]
    BY <1>3
  <1> HIDE DEF w
  <1> QED
    BY <1>2, <1>4 DEF RowOf

\* A row whose parent is finished is priced, in full unless a slice met no
\* book, or it has the error.
LEMMA SettledType ==
  ASSUME NEW r \in Row, NEW g, AtWork(r, g), NEW i, NEW p \in Parents(i, r.size, r.at),
         p.left = 0
  PROVE  LET q == Settled(r, p)
         IN q \in Row /\ SameDecision(q, r) /\ Over(q, g) /\ AddsUp(q)
  <1>1. /\ DOMAIN r = {"at", "size", "err", "priced", "filled", "notional", "dry", "gaps"}
        /\ r.at \in Int /\ r.size \in Nat \ {0} /\ r.filled \in Int /\ r.notional \in Int
        /\ r.dry \in BOOLEAN /\ r.gaps \in Nat /\ r.priced \in BOOLEAN /\ r.err \in Errors
        /\ r.priced = FALSE /\ r.err = "none"
        /\ r = [at |-> r.at, size |-> r.size, err |-> r.err, priced |-> r.priced,
                filled |-> r.filled, notional |-> r.notional, dry |-> r.dry, gaps |-> r.gaps]
    BY DEF Row, AtWork
  <1>2. /\ p.size = r.size /\ p.remaining \in Nat /\ p.remaining <= p.size
        /\ p.notional \in Int /\ p.err \in Errors /\ p.dry \in BOOLEAN
        /\ p.err = "none" /\ ~p.dry => p.remaining = 0
    BY DEF Parents, PendingRecord, Sound
  <1> DEFINE filled == p.size - p.remaining
  <1>3. filled \in Int /\ filled <= r.size /\ (p.err = "none" /\ ~p.dry => filled = r.size)
    BY <1>1, <1>2
  <1> HIDE DEF filled
  <1>4. ASSUME NEW e \in Errors \ {"none"}
        PROVE  LET q == [r EXCEPT !.err = e]
               IN q \in Row /\ SameDecision(q, r) /\ Over(q, g) /\ AddsUp(q)
    <2> DEFINE q == [r EXCEPT !.err = e]
    <2>1. q = [at |-> r.at, size |-> r.size, err |-> e, priced |-> r.priced,
               filled |-> r.filled, notional |-> r.notional, dry |-> r.dry, gaps |-> r.gaps]
      BY <1>1
    <2> HIDE DEF q
    <2>2. q \in Row
      BY <1>1, <2>1 DEF Row
    <2>3. SameDecision(q, r) /\ Over(q, g) /\ AddsUp(q)
      BY <1>1, <2>1 DEF SameDecision, Over, AddsUp
    <2> QED
      BY <2>2, <2>3 DEF q
  <1>5. CASE p.err # "none"
    <2>1. Settled(r, p) = [r EXCEPT !.err = p.err]
      BY <1>5 DEF Settled
    <2> QED
      BY <1>2, <1>4, <1>5, <2>1
  <1>6. CASE p.err = "none" /\ (filled <= 0 \/ p.notional <= 0)
    <2>1. Settled(r, p) = [r EXCEPT !.err = "nofill"]
      BY <1>6 DEF Settled, filled
    <2>2. "nofill" \in Errors \ {"none"}
      BY DEF Errors
    <2> QED
      BY <1>4, <2>1, <2>2
  <1>7. CASE p.err = "none" /\ ~(filled <= 0 \/ p.notional <= 0)
    <2> DEFINE q == PricedAt(r, TRUE, filled, p.notional, p.dry)
    <2>1. Settled(r, p) = q
      BY <1>7 DEF Settled, filled, PricedAt
    <2>2. q = RowOf(r.at, r.size, r.err, TRUE, filled, p.notional, p.dry, r.gaps)
      <3>1. r = [at |-> r.at, size |-> r.size, err |-> r.err, priced |-> r.priced,
                 filled |-> r.filled, notional |-> r.notional, dry |-> r.dry, gaps |-> r.gaps]
        BY <1>1
      <3> DEFINE a == r.at   s == r.size   e == r.err   b == r.priced   f == r.filled
                 n == r.notional   d == r.dry   h == r.gaps   x == TRUE   pn == p.notional
                 pd == p.dry
      <3>2. r = [at |-> a, size |-> s, err |-> e, priced |-> b, filled |-> f,
                 notional |-> n, dry |-> d, gaps |-> h]
        BY <3>1
      <3> HIDE DEF a, s, e, b, f, n, d, h, x, pn, pd
      <3>3. PricedAt(r, x, filled, pn, pd) = RowOf(a, s, e, x, filled, pn, pd, h)
        BY <3>2, PricedFields
      <3> QED
        BY <3>3 DEF a, s, e, b, f, n, d, h, x, pn, pd
    <2> HIDE DEF q
    <2>3. q \in Row
      BY <1>1, <1>2, <1>3, <2>2 DEF Row, RowOf
    <2>4. SameDecision(q, r) /\ Over(q, g) /\ AddsUp(q)
      BY <1>1, <1>3, <1>7, <2>2 DEF SameDecision, Over, AddsUp, RowOf
    <2> QED
      BY <2>1, <2>3, <2>4
  <1> QED
    BY <1>5, <1>6, <1>7

-----------------------------------------------------------------------------
(* The study's state.                                                      *)

Working(ps, i) == {k \in 1..Len(ps) : ps[k].rowIdx = i}

\* A parent in flight works for its own row, on its schedule, and has no slice
\* left to work at time t.
WorksFor(p, rs, g, t) ==
  /\ p.left > 0
  /\ p.rowIdx \in 1..Len(rs)
  /\ AtWork(rs[p.rowIdx], g)
  /\ p \in Parents(p.rowIdx, rs[p.rowIdx].size, rs[p.rowIdx].at)
  /\ p.nextAt > t \/ (p.left = Slices /\ rs[p.rowIdx].at = t)

\* The inductive invariant, of rows rs and parents ps when g gaps have been read
\* and the last event was at t.
Accounted(rs, ps, g, t) ==
  /\ rs \in Seq(Row) /\ ps \in Seq(PendingRecord) /\ g \in Nat /\ t \in Int
  /\ InOrder(ps)
  /\ \A k \in 1..Len(ps) : WorksFor(ps[k], rs, g, t)
  /\ \A i \in 1..Len(rs) : Working(ps, i) = {} => Over(rs[i], g)
  /\ \A i \in 1..Len(rs) : AddsUp(rs[i])

\* No two parents work for one row.
LEMMA OneParentEach ==
  ASSUME NEW ps \in Seq(PendingRecord), InOrder(ps),
         NEW j \in 1..Len(ps), NEW k \in 1..Len(ps), ps[j].rowIdx = ps[k].rowIdx
  PROVE  j = k
  <1>1. ps[j] \in PendingRecord /\ Len(ps) \in Nat
    OBVIOUS
  <1>2. ps[j].rowIdx \in Nat
    BY <1>1 DEF PendingRecord
  <1>3. j < k => ps[j].rowIdx < ps[k].rowIdx
    BY DEF InOrder
  <1>4. k < j => ps[k].rowIdx < ps[j].rowIdx
    BY DEF InOrder
  <1> QED
    BY <1>1, <1>2, <1>3, <1>4

-----------------------------------------------------------------------------
(* The steps of the study.                                                 *)

\* Advancing the slices keeps the accounts, settles only rows that met no gap,
\* and leaves every row's decision as it was.
LEMMA AdvanceKeeps ==
  ASSUME Accounted(rows, pendings, gaps, now), NEW l \in Seq(LadderLevel), NEW at \in Int
  PROVE  LET adv == AdvanceSlices(l, at)
         IN /\ Accounted(adv.rows, adv.live, gaps, at)
            /\ Len(adv.rows) = Len(rows)
            /\ \A i \in 1..Len(rows) : adv.rows[i].priced /\ ~rows[i].priced => rows[i].gaps = gaps
            /\ \A i \in 1..Len(rows) : SameDecision(adv.rows[i], rows[i])
  <1> DEFINE n == Len(pendings)
             m == Len(rows)
             worked == [k \in 1..n |-> Worked(pendings[k], l, at)]
             live == FoldLeft(KeepLive, <<>>, worked)
             rs == SettledRows(worked)
             idx(k) == pendings[k].rowIdx
  <1>1. /\ rows \in Seq(Row) /\ pendings \in Seq(PendingRecord) /\ gaps \in Nat
        /\ n \in Nat /\ m \in Nat /\ InOrder(pendings)
        /\ \A k \in 1..n : WorksFor(pendings[k], rows, gaps, now)
        /\ \A i \in 1..m : Working(pendings, i) = {} => Over(rows[i], gaps)
        /\ \A i \in 1..m : AddsUp(rows[i])
    BY DEF Accounted
  <1>2. AdvanceSlices(l, at) = [live |-> live, rows |-> rs]
    BY DEF AdvanceSlices
  <1>3. ASSUME NEW k \in 1..n
        PROVE  /\ idx(k) \in 1..m
               /\ AtWork(rows[idx(k)], gaps)
               /\ rows[idx(k)] \in Row
               /\ worked[k] \in Parents(idx(k), rows[idx(k)].size, rows[idx(k)].at)
               /\ worked[k].left > 0 => worked[k].nextAt > at
               /\ worked[k] \in PendingRecord /\ worked[k].rowIdx = idx(k)
               /\ worked[k].left \in 0..Slices
    <2>1. WorksFor(pendings[k], rows, gaps, now)
      BY <1>1
    <2>2. idx(k) \in 1..m /\ AtWork(rows[idx(k)], gaps)
          /\ pendings[k] \in Parents(idx(k), rows[idx(k)].size, rows[idx(k)].at)
      BY <2>1 DEF WorksFor
    <2>3. rows[idx(k)] \in Row
      BY <1>1, <2>2
    <2>4. rows[idx(k)].at \in Int
      BY <2>3 DEF Row
    <2>5. worked[k] = Worked(pendings[k], l, at)
      OBVIOUS
    <2> HIDE DEF worked
    <2>6. /\ worked[k] \in Parents(idx(k), rows[idx(k)].size, rows[idx(k)].at)
          /\ worked[k].left > 0 => worked[k].nextAt > at
      BY <2>2, <2>4, <2>5, WorkedType
    <2>7. worked[k] \in PendingRecord /\ worked[k].rowIdx = idx(k)
      BY <2>6 DEF Parents
    <2> QED
      BY <2>2, <2>3, <2>6, <2>7 DEF PendingRecord
  <1>4. worked \in Seq(PendingRecord) /\ Len(worked) = n
    BY <1>1, <1>3
  <1> HIDE DEF worked
  <1>5. InOrder(worked)
    <2> SUFFICES ASSUME NEW j \in 1..Len(worked), NEW k \in 1..Len(worked), j < k
                 PROVE  worked[j].rowIdx < worked[k].rowIdx
      BY DEF InOrder
    <2>1. j \in 1..n /\ k \in 1..n
      BY <1>4
    <2>2. idx(j) < idx(k)
      BY <1>1, <2>1 DEF InOrder
    <2>3. worked[j].rowIdx = idx(j) /\ worked[k].rowIdx = idx(k)
      BY <1>3, <2>1
    <2> HIDE DEF idx
    <2> QED
      BY <2>2, <2>3
  <1>6. /\ live \in Seq(PendingRecord) /\ InOrder(live)
        /\ \A k \in 1..Len(live) : \E j \in 1..n : live[k] = worked[j] /\ worked[j].left > 0
        /\ \A j \in 1..n : worked[j].left > 0 => \E k \in 1..Len(live) : live[k] = worked[j]
    BY <1>4, <1>5, LiveParents
  <1> DEFINE Done(i) == {k \in 1..n : worked[k].rowIdx = i /\ worked[k].left = 0}
  <1>7. /\ Len(rs) = m /\ DOMAIN rs = 1..m
        /\ \A i \in 1..m : rs[i] = IF Done(i) = {} THEN rows[i]
                                   ELSE Settled(rows[i], worked[Min(Done(i))])
    BY <1>1, <1>4 DEF SettledRows
  <1> HIDE DEF rs, live
  <1>8. ASSUME NEW i \in 1..m, Done(i) = {}
        PROVE  rs[i] = rows[i]
    BY <1>7, <1>8
  <1>9. ASSUME NEW i \in 1..m, Done(i) # {}
        PROVE  /\ AtWork(rows[i], gaps)
               /\ rs[i] \in Row /\ SameDecision(rs[i], rows[i])
               /\ Over(rs[i], gaps) /\ AddsUp(rs[i])
    <2> DEFINE k == Min(Done(i))
    <2>1. k \in Done(i)
      <3> DEFINE T == Done(i)
      <3>0. T \in SUBSET Nat /\ T # {}
        BY <1>1, <1>9
      <3> HIDE DEF T
      <3>1. \E a \in T : \A b \in T : a <= b
        BY <3>0, Due!LeastNatural
      <3> USE DEF T
      <3> HIDE DEF Done
      <3> QED
        BY <3>1 DEF Min
    <2>2. rs[i] = Settled(rows[i], worked[k])
      BY <1>7, <1>9
    <2> HIDE DEF k
    <2>3. k \in 1..n /\ worked[k].rowIdx = i /\ worked[k].left = 0
      BY <2>1
    <2>4. /\ AtWork(rows[i], gaps) /\ rows[i] \in Row
          /\ worked[k] \in Parents(i, rows[i].size, rows[i].at)
      BY <1>3, <2>3
    <2> QED
      BY <2>2, <2>3, <2>4, SettledType
  <1>10. ASSUME NEW i \in 1..m
         PROVE  rs[i] \in Row /\ SameDecision(rs[i], rows[i]) /\ AddsUp(rs[i])
    <2>1. CASE Done(i) = {}
      <3>1. SameDecision(rows[i], rows[i])
        BY DEF SameDecision
      <3> QED
        BY <1>1, <1>8, <2>1, <3>1
    <2>2. CASE Done(i) # {}
      BY <1>9, <2>2
    <2> QED
      BY <2>1, <2>2
  <1>11. rs \in Seq(Row)
    <2>1. rs = [i \in 1..m |-> rs[i]]
      BY <1>7 DEF rs, SettledRows
    <2> QED
      BY <1>1, <1>10, <2>1
  <1>12. ASSUME NEW k \in 1..Len(live)
         PROVE  WorksFor(live[k], rs, gaps, at)
    <2>1. PICK j \in 1..n : live[k] = worked[j] /\ worked[j].left > 0
      BY <1>6
    <2> DEFINE i == idx(j)
    <2>2. /\ i \in 1..m /\ AtWork(rows[i], gaps)
          /\ worked[j] \in Parents(i, rows[i].size, rows[i].at)
          /\ worked[j].nextAt > at /\ worked[j].rowIdx = i
      BY <1>3, <2>1
    <2>3. Done(i) = {}
      <3> SUFFICES ASSUME NEW x \in 1..n, worked[x].rowIdx = i, worked[x].left = 0
                   PROVE  FALSE
        OBVIOUS
      <3>1. x = j
        BY <1>4, <1>5, <2>2, OneParentEach
      <3> QED
        BY <2>1, <3>1
    <2>4. rs[i] = rows[i]
      BY <1>8, <2>2, <2>3
    <2> QED
      BY <1>7, <2>1, <2>2, <2>4 DEF WorksFor
  <1>13. ASSUME NEW i \in 1..m, Working(live, i) = {}
         PROVE  Over(rs[i], gaps)
    <2>1. CASE Done(i) # {}
      BY <1>9, <2>1
    <2>2. CASE Done(i) = {}
      <3>1. Working(pendings, i) = {}
        <4> SUFFICES ASSUME NEW k \in 1..n, pendings[k].rowIdx = i
                     PROVE  FALSE
          BY DEF Working
        <4>1. worked[k].rowIdx = i /\ worked[k].left \in 0..Slices
          BY <1>3
        <4>2. worked[k].left > 0
          BY <2>2, <4>1, StepType
        <4>3. PICK j \in 1..Len(live) : live[j] = worked[k]
          BY <1>6, <4>2
        <4> QED
          BY <1>13, <4>1, <4>3 DEF Working
      <3> QED
        BY <1>1, <1>8, <2>2, <3>1
    <2> QED
      BY <2>1, <2>2
  <1>14. Accounted(rs, live, gaps, at)
    BY <1>1, <1>6, <1>7, <1>10, <1>11, <1>12, <1>13 DEF Accounted
  <1>15. \A i \in 1..m : rs[i].priced /\ ~rows[i].priced => rows[i].gaps = gaps
    BY <1>8, <1>9 DEF AtWork
  <1> QED
    BY <1>2, <1>7, <1>10, <1>14, <1>15

\* A new decision adds a row and a parent for each size.
LEMMA StartKeeps ==
  ASSUME NEW rs, NEW ps, NEW at, Accounted(rs, ps, gaps, at), NEW n \in 0..Len(Sizes)
  PROVE  Accounted(rs \o [i \in 1..n |-> NewRow(Sizes[i], at)],
                   ps \o [i \in 1..n |-> NewPending(Len(rs) + i, Sizes[i], at)], gaps, at)
  <1> DEFINE newRows == [i \in 1..n |-> NewRow(Sizes[i], at)]
             newPs == [i \in 1..n |-> NewPending(Len(rs) + i, Sizes[i], at)]
             m == Len(rs)
             c == Len(ps)
             rs2 == rs \o newRows
             ps2 == ps \o newPs
  <1>1. /\ rs \in Seq(Row) /\ ps \in Seq(PendingRecord) /\ gaps \in Nat /\ at \in Int
        /\ m \in Nat /\ c \in Nat /\ n \in Nat /\ InOrder(ps)
        /\ \A k \in 1..c : WorksFor(ps[k], rs, gaps, at)
        /\ \A i \in 1..m : Working(ps, i) = {} => Over(rs[i], gaps)
        /\ \A i \in 1..m : AddsUp(rs[i])
        /\ \A i \in 1..n : Sizes[i] \in Nat \ {0}
    BY StudyAssumption DEF Accounted
  <1>2. ASSUME NEW i \in 1..n
        PROVE  /\ newRows[i] \in Row /\ AtWork(newRows[i], gaps) /\ AddsUp(newRows[i])
               /\ newRows[i].size = Sizes[i] /\ newRows[i].at = at
    <2>1. Sizes[i] \in Nat \ {0} /\ newRows[i] = NewRow(Sizes[i], at)
      BY <1>1
    <2> HIDE DEF newRows
    <2> QED
      BY <1>1, <2>1 DEF NewRow, Row, AtWork, AddsUp, Errors
  <1>3. ASSUME NEW i \in 1..n
        PROVE  /\ newPs[i] \in PendingRecord /\ newPs[i].rowIdx = m + i
               /\ newPs[i].left = Slices /\ newPs[i] \in Parents(m + i, Sizes[i], at)
    <2>1. Sizes[i] \in Nat \ {0} /\ newPs[i] = NewPending(m + i, Sizes[i], at) /\ m + i \in Nat
      BY <1>1
    <2> HIDE DEF newPs, m
    <2>2. newPs[i] \in PendingRecord
      BY <1>1, <2>1, StepType DEF NewPending, PendingRecord, Errors
    <2>3. Sound(newPs[i])
      BY <1>1, <2>1, StepType DEF NewPending, Sound
    <2>4. OnSchedule(newPs[i], at)
      <3>1. (Slices - Slices) * Step = 0
        BY StepType
      <3> QED
        BY <1>1, <2>1, <3>1 DEF NewPending, OnSchedule
    <2> QED
      BY <2>1, <2>2, <2>3, <2>4 DEF NewPending, Parents
  <1>4. newRows \in Seq(Row) /\ Len(newRows) = n
    <2> DEFINE f(i) == NewRow(Sizes[i], at)
    <2>1. \A i \in 1..n : f(i) \in Row
      BY <1>2
    <2> HIDE DEF f
    <2>2. [i \in 1..n |-> f(i)] \in Seq(Row) /\ Len([i \in 1..n |-> f(i)]) = n
      BY <1>1, <2>1
    <2> QED
      BY <2>2 DEF f
  <1>5. newPs \in Seq(PendingRecord) /\ Len(newPs) = n
    <2> DEFINE f(i) == NewPending(Len(rs) + i, Sizes[i], at)
    <2>1. \A i \in 1..n : f(i) \in PendingRecord
      BY <1>3
    <2> HIDE DEF f
    <2>2. [i \in 1..n |-> f(i)] \in Seq(PendingRecord) /\ Len([i \in 1..n |-> f(i)]) = n
      BY <1>1, <2>1
    <2> QED
      BY <2>2 DEF f
  <1> HIDE DEF newRows, newPs
  <1>6. /\ rs2 \in Seq(Row) /\ Len(rs2) = m + n
        /\ \A i \in 1..m : rs2[i] = rs[i]
        /\ \A i \in 1..n : rs2[m + i] = newRows[i]
    <2>1. rs \in Seq(Row) /\ newRows \in Seq(Row)
      BY <1>1, <1>4
    <2>2. /\ rs2 \in Seq(Row) /\ Len(rs2) = Len(rs) + Len(newRows)
          /\ \A k \in 1..Len(rs) + Len(newRows) :
                 rs2[k] = IF k <= Len(rs) THEN rs[k] ELSE newRows[k - Len(rs)]
      BY <2>1, ConcatProperties
    <2>3. Len(rs2) = m + n /\ m \in Nat /\ n \in Nat
      BY <1>1, <1>4, <2>2
    <2>4. \A k \in 1..m + n : rs2[k] = IF k <= m THEN rs[k] ELSE newRows[k - m]
      BY <1>4, <2>2
    <2> HIDE DEF m, rs2
    <2>5. \A i \in 1..m : rs2[i] = rs[i]
      BY <2>3, <2>4
    <2>6. ASSUME NEW i \in 1..n
          PROVE  rs2[m + i] = newRows[i]
      <3>1. m + i \in 1..m + n /\ ~(m + i <= m) /\ (m + i) - m = i
        BY <2>3
      <3> QED
        BY <2>4, <3>1
    <2> QED
      BY <2>2, <2>3, <2>5, <2>6
  <1>7. /\ ps2 \in Seq(PendingRecord) /\ Len(ps2) = c + n
        /\ \A i \in 1..c : ps2[i] = ps[i]
        /\ \A i \in 1..n : ps2[c + i] = newPs[i]
    <2>1. /\ ps2 \in Seq(PendingRecord) /\ Len(ps2) = Len(ps) + Len(newPs)
          /\ \A k \in 1..Len(ps) + Len(newPs) :
                 ps2[k] = IF k <= Len(ps) THEN ps[k] ELSE newPs[k - Len(ps)]
      BY <1>1, <1>5, ConcatProperties
    <2>2. Len(ps2) = c + n /\ Len(newPs) = n /\ c \in Nat /\ n \in Nat
      BY <1>1, <1>5, <2>1
    <2>3. \A k \in 1..c + n : ps2[k] = IF k <= c THEN ps[k] ELSE newPs[k - c]
      BY <1>5, <2>1
    <2> HIDE DEF c, ps2
    <2>4. \A i \in 1..c : ps2[i] = ps[i]
      BY <2>2, <2>3
    <2>5. ASSUME NEW i \in 1..n
          PROVE  ps2[c + i] = newPs[i]
      <3>1. c + i \in 1..c + n /\ ~(c + i <= c) /\ (c + i) - c = i
        BY <2>2
      <3> QED
        BY <2>3, <3>1
    <2> QED
      BY <2>1, <2>2, <2>4, <2>5
  <1> HIDE DEF rs2, ps2
  <1>8. ASSUME NEW k \in 1..Len(ps2)
        PROVE  k \in 1..c \/ \E i \in 1..n : k = c + i
    <2>1. c \in Nat /\ n \in Nat /\ k \in 1..c + n
      BY <1>1, <1>7
    <2> HIDE DEF c
    <2>2. k <= c => k \in 1..c
      BY <2>1
    <2>3. k > c => k - c \in 1..n /\ k = c + (k - c)
      BY <2>1
    <2> QED
      BY <2>1, <2>2, <2>3
  <1>9. ASSUME NEW i \in 1..Len(rs2)
        PROVE  i \in 1..m \/ \E j \in 1..n : i = m + j
    <2>1. m \in Nat /\ n \in Nat /\ i \in 1..m + n
      BY <1>1, <1>6
    <2> HIDE DEF m
    <2>2. i <= m => i \in 1..m
      BY <2>1
    <2>3. i > m => i - m \in 1..n /\ i = m + (i - m)
      BY <2>1
    <2> QED
      BY <2>1, <2>2, <2>3
  <1>10. ASSUME NEW k \in 1..c
         PROVE  WorksFor(ps2[k], rs2, gaps, at) /\ ps2[k].rowIdx \in 1..m
    <2>1. WorksFor(ps[k], rs, gaps, at)
      BY <1>1
    <2>2. ps[k].rowIdx \in 1..m
      BY <2>1 DEF WorksFor
    <2>3. ps[k].rowIdx \in 1..Len(rs2) /\ rs2[ps[k].rowIdx] = rs[ps[k].rowIdx]
      BY <1>1, <1>6, <2>2
    <2> QED
      BY <1>7, <2>1, <2>2, <2>3 DEF WorksFor
  <1>11. ASSUME NEW i \in 1..n
         PROVE  WorksFor(ps2[c + i], rs2, gaps, at) /\ ps2[c + i].rowIdx = m + i
    <2>1. ps2[c + i] = newPs[i] /\ rs2[m + i] = newRows[i]
      BY <1>6, <1>7
    <2>2. m + i \in 1..Len(rs2)
      <3>1. m \in Nat /\ n \in Nat /\ Len(rs2) = m + n
        BY <1>1, <1>6
      <3> HIDE DEF m
      <3> QED
        BY <3>1
    <2>3. /\ newPs[i].rowIdx = m + i /\ newPs[i].left = Slices
          /\ newPs[i] \in Parents(m + i, Sizes[i], at)
      BY <1>3
    <2>4. AtWork(newRows[i], gaps) /\ newRows[i].size = Sizes[i] /\ newRows[i].at = at
      BY <1>2
    <2> HIDE DEF m, c
    <2>5. WorksFor(newPs[i], rs2, gaps, at)
      <3>1. rs2[newPs[i].rowIdx] = newRows[i]
        BY <2>1, <2>3
      <3>2. newPs[i].left > 0
        BY <2>3, StepType
      <3> QED
        BY <2>2, <2>3, <2>4, <3>1, <3>2 DEF WorksFor
    <2> QED
      BY <2>1, <2>3, <2>5
  <1>12. ASSUME NEW k \in 1..Len(ps2)
         PROVE  WorksFor(ps2[k], rs2, gaps, at)
    BY <1>8, <1>10, <1>11
  <1>13. InOrder(ps2)
    <2> SUFFICES ASSUME NEW j \in 1..Len(ps2), NEW k \in 1..Len(ps2), j < k
                 PROVE  ps2[j].rowIdx < ps2[k].rowIdx
      BY DEF InOrder
    <2>1. CASE k \in 1..c
      <3>1. j \in 1..c
        BY <1>1, <2>1
      <3> QED
        BY <1>1, <1>7, <2>1, <3>1 DEF InOrder
    <2>2. ASSUME NEW y \in 1..n, k = c + y
          PROVE  ps2[j].rowIdx < ps2[k].rowIdx
      <3>1. ps2[k].rowIdx = m + y
        BY <1>11, <2>2
      <3>2. CASE j \in 1..c
        <4>1. ps2[j].rowIdx \in 1..m
          BY <1>10, <3>2
        <4> QED
          BY <1>1, <3>1, <4>1
      <3>3. ASSUME NEW x \in 1..n, j = c + x
            PROVE  ps2[j].rowIdx < ps2[k].rowIdx
        <4>1. ps2[j].rowIdx = m + x
          BY <1>11, <3>3
        <4>2. x < y
          BY <1>1, <2>2, <3>3
        <4> QED
          BY <1>1, <3>1, <4>1, <4>2
      <3> QED
        BY <1>8, <3>2, <3>3
    <2> QED
      BY <1>8, <2>1, <2>2
  <1>14. ASSUME NEW i \in 1..Len(rs2), Working(ps2, i) = {}
         PROVE  Over(rs2[i], gaps)
    <2>1. CASE i \in 1..m
      <3>1. Working(ps, i) = {}
        <4> SUFFICES ASSUME NEW k \in 1..c, ps[k].rowIdx = i
                     PROVE  FALSE
          BY DEF Working
        <4>1. k \in 1..Len(ps2) /\ ps2[k].rowIdx = i
          BY <1>1, <1>7
        <4> QED
          BY <1>14, <4>1 DEF Working
      <3> QED
        BY <1>1, <1>6, <2>1, <3>1
    <2>2. ASSUME NEW j \in 1..n, i = m + j
          PROVE  FALSE
      <3>1. c + j \in 1..Len(ps2) /\ ps2[c + j].rowIdx = i
        BY <1>1, <1>7, <1>11, <2>2
      <3> QED
        BY <1>14, <3>1 DEF Working
    <2> QED
      BY <1>9, <2>1, <2>2
  <1>15. \A i \in 1..Len(rs2) : AddsUp(rs2[i])
    BY <1>1, <1>2, <1>6, <1>9
  <1>16. Accounted(rs2, ps2, gaps, at)
    BY <1>1, <1>6, <1>7, <1>12, <1>13, <1>14, <1>15 DEF Accounted
  <1> QED
    BY <1>16 DEF rs2, ps2, newRows, newPs

\* A gap drops the parents in flight: their rows are over, and older than it.
LEMMA GapKeeps ==
  ASSUME Accounted(rows, pendings, gaps, now)
  PROVE  Accounted(rows, <<>>, gaps + 1, now)
  <1>1. /\ rows \in Seq(Row) /\ gaps \in Nat /\ now \in Int
        /\ \A k \in 1..Len(pendings) : WorksFor(pendings[k], rows, gaps, now)
        /\ \A i \in 1..Len(rows) : Working(pendings, i) = {} => Over(rows[i], gaps)
        /\ \A i \in 1..Len(rows) : AddsUp(rows[i])
    BY DEF Accounted
  <1>2. ASSUME NEW i \in 1..Len(rows)
        PROVE  Over(rows[i], gaps + 1)
    <2>1. rows[i] \in Row
      BY <1>1
    <2>2. rows[i].gaps \in Nat
      BY <2>1 DEF Row
    <2>3. CASE Working(pendings, i) = {}
      <3>1. Over(rows[i], gaps)
        BY <1>1, <2>3
      <3> QED
        BY <1>1, <2>2, <3>1 DEF Over
    <2>4. CASE Working(pendings, i) # {}
      <3>1. PICK k \in 1..Len(pendings) : pendings[k].rowIdx = i
        BY <2>4 DEF Working
      <3>2. AtWork(rows[i], gaps)
        BY <1>1, <3>1 DEF WorksFor
      <3> QED
        BY <1>1, <2>2, <3>2 DEF AtWork, Over
    <2> QED
      BY <2>3, <2>4
  <1>3. Len(<<>>) = 0 /\ <<>> \in Seq(PendingRecord) /\ gaps + 1 \in Nat
    BY <1>1
  <1>4. InOrder(<<>>)
    BY <1>3 DEF InOrder
  <1> QED
    BY <1>1, <1>2, <1>3, <1>4 DEF Accounted

\* The end of the tape marks the rows still at work, and no other.
LEMMA EndKeeps ==
  ASSUME Accounted(rows, pendings, gaps, now), Finish
  PROVE  /\ Accounted(rows', <<>>, gaps, now)
         /\ Len(rows') = Len(rows)
         /\ \A i \in 1..Len(rows) :
               rows'[i].priced = rows[i].priced /\ SameDecision(rows'[i], rows[i])
  <1> DEFINE m == Len(rows)
  <1>1. /\ rows \in Seq(Row) /\ gaps \in Nat /\ now \in Int /\ m \in Nat
        /\ \A k \in 1..Len(pendings) : WorksFor(pendings[k], rows, gaps, now)
        /\ \A i \in 1..m : Working(pendings, i) = {} => Over(rows[i], gaps)
        /\ \A i \in 1..m : AddsUp(rows[i])
    BY DEF Accounted
  <1> DEFINE f(i) == IF \E k \in 1..Len(pendings) : pendings[k].rowIdx = i
                     THEN [rows[i] EXCEPT !.err = "tape-ended"] ELSE rows[i]
  <1>2. rows' = [i \in 1..m |-> f(i)]
    BY DEF Finish
  <1>3. ASSUME NEW i \in 1..m
        PROVE  /\ f(i) \in Row /\ Over(f(i), gaps) /\ AddsUp(f(i))
               /\ f(i).priced = rows[i].priced /\ SameDecision(f(i), rows[i])
    <2>1. rows[i] \in Row /\ AddsUp(rows[i])
      BY <1>1
    <2>2. CASE \E k \in 1..Len(pendings) : pendings[k].rowIdx = i
      <3>1. PICK k \in 1..Len(pendings) : pendings[k].rowIdx = i
        BY <2>2
      <3>2. AtWork(rows[i], gaps)
        BY <1>1, <3>1 DEF WorksFor
      <3> DEFINE r == rows[i]
                 q == [r EXCEPT !.err = "tape-ended"]
      <3>3. f(i) = q
        BY <2>2
      <3> HIDE DEF f
      <3>4. r \in Row /\ AtWork(r, gaps) /\ AddsUp(r)
        BY <2>1, <3>2
      <3> HIDE DEF r
      <3>5. /\ q.err = "tape-ended" /\ q.priced = r.priced /\ q.filled = r.filled
            /\ q.size = r.size /\ q.dry = r.dry /\ q.at = r.at /\ q.gaps = r.gaps
        BY <3>4 DEF Row
      <3>6. q \in Row
        BY <3>4 DEF Row, Errors
      <3> HIDE DEF q
      <3>7. Over(q, gaps) /\ AddsUp(q) /\ SameDecision(q, r)
        BY <3>4, <3>5 DEF Over, AddsUp, AtWork, SameDecision
      <3> QED
        BY <3>3, <3>5, <3>6, <3>7 DEF r
    <2>3. CASE ~ \E k \in 1..Len(pendings) : pendings[k].rowIdx = i
      <3>1. Working(pendings, i) = {}
        BY <2>3 DEF Working
      <3>2. f(i) = rows[i]
        BY <2>3
      <3> HIDE DEF f
      <3>3. SameDecision(rows[i], rows[i])
        BY DEF SameDecision
      <3> QED
        BY <1>1, <2>1, <3>1, <3>2, <3>3
    <2> QED
      BY <2>2, <2>3
  <1> HIDE DEF f
  <1>4. /\ rows' \in Seq(Row) /\ Len(rows') = m
        /\ \A i \in 1..m : rows'[i] = f(i)
    BY <1>1, <1>2, <1>3
  <1>5. Len(<<>>) = 0 /\ <<>> \in Seq(PendingRecord)
    OBVIOUS
  <1>6. InOrder(<<>>)
    BY <1>5 DEF InOrder
  <1>7. \A i \in 1..Len(rows') : Over(rows'[i], gaps) /\ AddsUp(rows'[i])
    BY <1>3, <1>4
  <1>8. \A i \in 1..m : rows'[i].priced = rows[i].priced /\ SameDecision(rows'[i], rows[i])
    BY <1>3, <1>4
  <1>9. Accounted(rows', <<>>, gaps, now)
    BY <1>1, <1>4, <1>5, <1>6, <1>7 DEF Accounted
  <1> QED
    BY <1>4, <1>8, <1>9

\* An event: the slices that are due, then the decision if there is one.
LEMMA EventKeeps ==
  ASSUME Accounted(rows, pendings, gaps, now), NEW l \in Ladders, NEW at \in Int,
         OnEvent(l, at)
  PROVE  /\ Accounted(rows', pendings', gaps, at)
         /\ now' = at /\ gaps' = gaps /\ ended' = ended
         /\ Len(rows') \in Nat /\ Len(rows) <= Len(rows')
         /\ \A i \in 1..Len(rows) :
               /\ SameDecision(rows'[i], rows[i])
               /\ rows'[i].priced /\ ~rows[i].priced => rows[i].gaps = gaps
         /\ \A i \in 1..Len(rows') : i > Len(rows) => rows'[i].gaps = gaps
  <1> DEFINE adv == AdvanceSlices(l, at)
             rs == adv.rows
             ps == adv.live
             m == Len(rows)
  <1>1. /\ Accounted(rs, ps, gaps, at) /\ Len(rs) = m
        /\ \A i \in 1..m : rs[i].priced /\ ~rows[i].priced => rows[i].gaps = gaps
        /\ \A i \in 1..m : SameDecision(rs[i], rows[i])
    BY LaddersAssumption, AdvanceKeeps
  <1>2. now' = at /\ gaps' = gaps /\ ended' = ended
    BY DEF OnEvent
  <1>3. (rows' = rs /\ pendings' = ps) \/ StartDecision(l, at, rs, ps)
    BY DEF OnEvent
  <1>4. rs \in Seq(Row) /\ m \in Nat
    BY <1>1 DEF Accounted
  <1> HIDE DEF adv
  <1>5. CASE rows' = rs /\ pendings' = ps
    BY <1>1, <1>2, <1>4, <1>5
  <1>6. CASE StartDecision(l, at, rs, ps)
    <2> DEFINE n == IF l = <<>> THEN 0 ELSE Len(Sizes)
               more == [i \in 1..n |-> NewRow(Sizes[i], at)]
    <2>1. /\ rows' = rs \o more
          /\ pendings' = ps \o [i \in 1..n |-> NewPending(Len(rs) + i, Sizes[i], at)]
      BY <1>6 DEF StartDecision
    <2>2. n \in 0..Len(Sizes)
      BY StudyAssumption
    <2> HIDE DEF n, rs, ps
    <2>3. Accounted(rows', pendings', gaps, at)
      BY <1>1, <2>1, <2>2, StartKeeps
    <2>4. /\ Len(rows') \in Nat /\ Len(rows) <= Len(rows')
          /\ \A i \in 1..m : rows'[i] = rs[i]
          /\ \A i \in 1..Len(rows') : i > m => rows'[i].gaps = gaps
      <3>1. DOMAIN more = 1..n /\ n \in Nat
        BY <2>2, StudyAssumption
      <3> DEFINE S == Row \cup {NewRow(Sizes[i], at) : i \in 1..n}
      <3>2. more \in [1..n -> S]
        OBVIOUS
      <3>3. rs \in Seq(S)
        BY <1>4
      <3>7. \A i \in 1..n : more[i].gaps = gaps
        BY DEF NewRow
      <3> HIDE DEF more, S
      <3>4. more \in Seq(S) /\ Len(more) = n
        BY <3>1, <3>2
      <3>5. /\ rows' = rs \o more /\ Len(rs \o more) = m + n
            /\ \A i \in 1..m + n : (rs \o more)[i] = IF i <= m THEN rs[i] ELSE more[i - m]
        <4>1. /\ Len(rs \o more) = Len(rs) + Len(more)
              /\ \A i \in 1..Len(rs) + Len(more) :
                     (rs \o more)[i] = IF i <= Len(rs) THEN rs[i] ELSE more[i - Len(rs)]
          BY <3>3, <3>4, ConcatProperties
        <4>2. Len(rs) = m /\ Len(more) = n
          BY <1>1, <3>4
        <4>3. rows' = rs \o more
          BY <2>1
        <4> HIDE DEF m
        <4> QED
          BY <4>1, <4>2, <4>3
      <3>6. m + n \in Nat /\ m <= m + n /\ m \in Nat /\ n \in Nat
        BY <1>4, <3>1
      <3>8. Len(rows') = m + n /\ m = Len(rows)
        BY <3>5
      <3> HIDE DEF m
      <3>9. \A i \in 1..m : rows'[i] = rs[i]
        <4>1. \A i \in 1..m : i \in 1..m + n /\ i <= m
          BY <3>6
        <4> QED
          BY <3>5, <4>1
      <3>10. \A i \in 1..m + n : i > m => rows'[i].gaps = gaps
        <4>1. \A i \in 1..m + n : i > m => i - m \in 1..n /\ ~(i <= m)
          BY <3>6
        <4> QED
          BY <3>5, <3>7, <4>1
      <3> QED
        BY <3>6, <3>8, <3>9, <3>10
    <2> QED
      BY <1>1, <1>2, <2>3, <2>4
  <1> QED
    BY <1>3, <1>5, <1>6

-----------------------------------------------------------------------------
(* The study's inductive invariant.                                        *)

StudyInv ==
  /\ Accounted(rows, pendings, gaps, now)
  /\ ended \in BOOLEAN
  /\ ended => pendings = <<>>

LEMMA StudyInit ==
  ASSUME TapeInit
  PROVE  StudyInv
  <1>1. rows = <<>> /\ pendings = <<>> /\ gaps = 0 /\ now = 0 /\ ended = FALSE
    BY DEF TapeInit, Init
  <1>2. /\ Len(<<>>) = 0 /\ <<>> \in Seq(PendingRecord) /\ <<>> \in Seq(Row)
    OBVIOUS
  <1>3. Accounted(<<>>, <<>>, 0, 0)
    BY <1>2 DEF Accounted, InOrder
  <1> QED
    BY <1>1, <1>3 DEF StudyInv

\* A step keeps it, keeps every row of an order that met no gap, and prices only
\* such rows.
LEMMA StudyStep ==
  ASSUME StudyInv, [TapeNext]_tapeVars
  PROVE  /\ StudyInv'
         /\ \A i \in 1..Len(rows) : ~rows[i].priced /\ rows'[i].priced => rows[i].gaps = gaps
  <1>1. CASE UNCHANGED studyVars
    <2>1. /\ rows' = rows /\ pendings' = pendings /\ gaps' = gaps /\ now' = now
          /\ ended' = ended
      BY <1>1 DEF studyVars, vars
    <2> QED
      BY <2>1 DEF StudyInv, Accounted, WorksFor, InOrder, Working, Over, AddsUp
  <1>2. CASE EndOfTape
    <2>1. Finish
      BY <1>2 DEF EndOfTape
    <2>2. pendings' = <<>> /\ gaps' = gaps /\ now' = now /\ ended' = TRUE
      BY <2>1 DEF Finish
    <2>3. Accounted(rows', <<>>, gaps, now)
          /\ \A i \in 1..Len(rows) : rows'[i].priced = rows[i].priced
      BY <2>1, EndKeeps DEF StudyInv
    <2>4. Accounted(rows, pendings, gaps, now)'
      BY <2>2, <2>3 DEF Accounted
    <2> QED
      BY <2>2, <2>3, <2>4 DEF StudyInv
  <1>3. ASSUME NEW d \in -MaxBack..MaxStep, ReadNext(d)
        PROVE  /\ StudyInv'
               /\ \A i \in 1..Len(rows) :
                      ~rows[i].priced /\ rows'[i].priced => rows[i].gaps = gaps
    <2>1. wall + d \in Int
      BY <1>3 DEF ReadNext
    <2>2. CASE OnGap(wall + d)
      <3>1. /\ pendings' = <<>> /\ gaps' = gaps + 1 /\ now' = now /\ ended' = ended
            /\ rows' = rows
        BY <2>2 DEF OnGap
      <3>2. Accounted(rows, <<>>, gaps + 1, now)
        BY GapKeeps DEF StudyInv
      <3>3. Accounted(rows, pendings, gaps, now)'
        BY <3>1, <3>2 DEF Accounted
      <3> QED
        BY <3>1, <3>3 DEF StudyInv
    <2>3. ASSUME NEW l \in Ladders, OnEvent(l, wall + d)
          PROVE  /\ StudyInv'
                 /\ \A i \in 1..Len(rows) :
                        ~rows[i].priced /\ rows'[i].priced => rows[i].gaps = gaps
      <3>1. ~ended
        BY <2>3 DEF OnEvent
      <3> DEFINE at == wall + d
      <3>2. at \in Int /\ OnEvent(l, at)
        BY <2>1, <2>3
      <3> HIDE DEF at
      <3>3. /\ Accounted(rows', pendings', gaps, at)
            /\ now' = at /\ gaps' = gaps /\ ended' = ended
            /\ \A i \in 1..Len(rows) :
                   rows'[i].priced /\ ~rows[i].priced => rows[i].gaps = gaps
        BY <3>2, EventKeeps DEF StudyInv
      <3>4. Accounted(rows, pendings, gaps, now)'
        BY <3>3
      <3> QED
        BY <3>1, <3>3, <3>4 DEF StudyInv
    <2> QED
      BY <1>3, <2>2, <2>3 DEF ReadNext
  <1> QED
    BY <1>1, <1>2, <1>3
    DEF TapeNext, OfferNext, OfferReturns, WriteNext, tapeVars

\* A row is in one state of four when it is in that one and in no other.
LEMMA OneOfFour ==
  ASSUME NEW here \in SUBSET (1..4)
  PROVE  /\ 1 \in here /\ 2 \notin here /\ 3 \notin here /\ 4 \notin here => here = {1}
         /\ 1 \notin here /\ 2 \in here /\ 3 \notin here /\ 4 \notin here => here = {2}
         /\ 1 \notin here /\ 2 \notin here /\ 3 \in here /\ 4 \notin here => here = {3}
         /\ 1 \notin here /\ 2 \notin here /\ 3 \notin here /\ 4 \in here => here = {4}
  <1>1. \A x \in here : x = 1 \/ x = 2 \/ x = 3 \/ x = 4
    OBVIOUS
  <1> QED
    BY <1>1

\* What the invariant says of an order, of its slices and of their schedule.
LEMMA StudyInvImplies ==
  ASSUME StudyInv
  PROVE  RowsAccountedFor /\ SlicesAddUp /\ SlicesKeepSchedule
  <1>1. /\ rows \in Seq(Row) /\ pendings \in Seq(PendingRecord) /\ gaps \in Nat
        /\ InOrder(pendings)
        /\ \A k \in 1..Len(pendings) : WorksFor(pendings[k], rows, gaps, now)
        /\ \A i \in 1..Len(rows) : Working(pendings, i) = {} => Over(rows[i], gaps)
        /\ \A i \in 1..Len(rows) : AddsUp(rows[i])
    BY DEF StudyInv, Accounted
  <1>2. \A i : InFlight(i) = Working(pendings, i)
    BY DEF InFlight, Working
  <1>3. RowsAccountedFor
    <2> SUFFICES ASSUME NEW i \in 1..Len(rows)
                 PROVE  LET states == <<rows[i].priced, rows[i].err # "none", InFlight(i) # {},
                                        rows[i].gaps < gaps /\ InFlight(i) = {}
                                            /\ ~rows[i].priced /\ rows[i].err = "none">>
                        IN /\ Cardinality({s \in 1..4 : states[s]}) = 1
                           /\ Cardinality(InFlight(i)) <= 1
                           /\ ended => InFlight(i) = {}
      BY DEF RowsAccountedFor
    <2> DEFINE states == <<rows[i].priced, rows[i].err # "none", InFlight(i) # {},
                           rows[i].gaps < gaps /\ InFlight(i) = {}
                               /\ ~rows[i].priced /\ rows[i].err = "none">>
               here == {s \in 1..4 : states[s]}
               work == InFlight(i) # {}
               pr == rows[i].priced
               bad == rows[i].err # "none"
               old == rows[i].gaps < gaps
    <2>1. \E s \in 1..4 : here = {s}
      <3>0. here \in SUBSET (1..4)
        OBVIOUS
      <3>1. \A x \in 1..4 : x \in here <=> states[x]
        OBVIOUS
      <3>4. /\ states[1] = pr /\ states[2] = bad /\ states[3] = work
            /\ states[4] = (old /\ ~work /\ ~pr /\ ~bad)
        BY DEF states
      <3>5. 1 \in 1..4 /\ 2 \in 1..4 /\ 3 \in 1..4 /\ 4 \in 1..4
        OBVIOUS
      <3> HIDE DEF here, states
      <3>6. /\ 1 \in here <=> pr
            /\ 2 \in here <=> bad
            /\ 3 \in here <=> work
            /\ 4 \in here <=> old /\ ~work /\ ~pr /\ ~bad
        BY <3>1, <3>4, <3>5, Zenon
      <3>2. CASE work
        <4>1. PICK k \in 1..Len(pendings) : pendings[k].rowIdx = i
          BY <3>2 DEF InFlight
        <4>2. ~pr /\ ~bad
          BY <1>1, <4>1 DEF WorksFor, AtWork
        <4> HIDE DEF pr, bad, work, old
        <4>3. 1 \notin here /\ 2 \notin here /\ 3 \in here /\ 4 \notin here
          BY <3>2, <3>6, <4>2
        <4>4. here = {3}
          BY <3>0, <4>3, OneOfFour
        <4> QED
          BY <4>4
      <3>3. CASE ~work
        <4>1. Over(rows[i], gaps)
          BY <1>1, <1>2, <3>3
        <4>2. (pr /\ ~bad) \/ (~pr /\ bad) \/ (~pr /\ ~bad /\ old)
          BY <4>1 DEF Over
        <4> HIDE DEF pr, bad, work, old
        <4>3. CASE pr /\ ~bad
          <5>1. 1 \in here /\ 2 \notin here /\ 3 \notin here /\ 4 \notin here
            BY <3>3, <3>6, <4>3
          <5>2. here = {1}
            BY <3>0, <5>1, OneOfFour
          <5> QED
            BY <5>2
        <4>4. CASE ~pr /\ bad
          <5>1. 1 \notin here /\ 2 \in here /\ 3 \notin here /\ 4 \notin here
            BY <3>3, <3>6, <4>4
          <5>2. here = {2}
            BY <3>0, <5>1, OneOfFour
          <5> QED
            BY <5>2
        <4>5. CASE ~pr /\ ~bad /\ old
          <5>1. 1 \notin here /\ 2 \notin here /\ 3 \notin here /\ 4 \in here
            BY <3>3, <3>6, <4>5
          <5>2. here = {4}
            BY <3>0, <5>1, OneOfFour
          <5> QED
            BY <5>2
        <4> QED
          BY <4>2, <4>3, <4>4, <4>5
      <3> QED
        BY <3>2, <3>3
    <2> HIDE DEF here
    <2>2. Cardinality(here) = 1
      BY <2>1, FS_Singleton
    <2>3. Cardinality(InFlight(i)) <= 1
      <3>1. CASE InFlight(i) = {}
        BY <3>1, FS_EmptySet
      <3>2. CASE InFlight(i) # {}
        <4>1. PICK k \in InFlight(i) : TRUE
          BY <3>2
        <4>2. InFlight(i) = {k}
          BY <1>1, <4>1, OneParentEach DEF InFlight
        <4>3. Cardinality(InFlight(i)) = 1
          BY <4>2, FS_Singleton
        <4> QED
          BY <4>3
      <3> QED
        BY <3>1, <3>2
    <2>4. ended => InFlight(i) = {}
      <3>1. pendings = <<>> => 1..Len(pendings) = {}
        OBVIOUS
      <3> QED
        BY <3>1 DEF StudyInv, InFlight
    <2> QED
      BY <2>2, <2>3, <2>4 DEF here
  <1>4. SlicesAddUp
    BY <1>1 DEF SlicesAddUp, AddsUp
  <1>5. SlicesKeepSchedule
    <2> SUFFICES ASSUME NEW k \in 1..Len(pendings)
                 PROVE  LET p == pendings[k]
                            at == rows[p.rowIdx].at
                        IN /\ p.nextAt = at + (Slices - p.left) * Step
                           /\ p.nextAt > now \/ (p.left = Slices /\ at = now)
      BY DEF SlicesKeepSchedule
    <2> DEFINE p == pendings[k]
    <2>1. WorksFor(p, rows, gaps, now)
      BY <1>1
    <2> HIDE DEF p
    <2>2. p.err = "none"
      BY <2>1 DEF WorksFor, Parents, Sound, PendingRecord
    <2> QED
      BY <2>1, <2>2 DEF WorksFor, Parents, OnSchedule, p
  <1> QED
    BY <1>3, <1>4, <1>5

-----------------------------------------------------------------------------
(* The tape: what is missing of it and what it announces.                  *)

TapeRecord == [gap : Nat, id : Nat]

EventsOf(s, n) == Cardinality({i \in 1..n : s[i].gap = 0})
AnnouncedOf(s, n) == FoldLeft(AddGap, 0, SubSeq(s, 1, n))

\* The events of a tape grow by one with each event record.
LEMMA EventsOfGrow ==
  ASSUME NEW s \in Seq(TapeRecord), NEW n \in 0..Len(s)
  PROVE  /\ EventsOf(s, n) \in Nat
         /\ n < Len(s) =>
              EventsOf(s, n + 1) = IF s[n + 1].gap = 0 THEN EventsOf(s, n) + 1 ELSE EventsOf(s, n)
         /\ n = 0 => EventsOf(s, n) = 0
  <1> DEFINE E(k) == {i \in 1..k : s[i].gap = 0}
  <1>1. n \in Nat /\ n + 1 \in Nat
    OBVIOUS
  <1>2. IsFiniteSet(E(n)) /\ Cardinality(E(n)) \in Nat
    <2>1. IsFiniteSet(1..n) /\ E(n) \in SUBSET (1..n)
      BY <1>1, FS_Interval
    <2> HIDE DEF E
    <2>2. IsFiniteSet(E(n))
      BY <2>1, FS_Subset
    <2> QED
      BY <2>2, FS_CardinalityType
  <1>3. ASSUME n < Len(s)
        PROVE  Cardinality(E(n + 1)) =
                 IF s[n + 1].gap = 0 THEN Cardinality(E(n)) + 1 ELSE Cardinality(E(n))
    <2>1. CASE s[n + 1].gap = 0
      <3>1. E(n + 1) = E(n) \cup {n + 1} /\ n + 1 \notin E(n)
        BY <1>1, <2>1
      <3> HIDE DEF E
      <3> QED
        BY <1>2, <2>1, <3>1, FS_AddElement
    <2>2. CASE s[n + 1].gap # 0
      <3>1. E(n + 1) = E(n)
        BY <1>1, <2>2
      <3> QED
        BY <2>2, <3>1
    <2> QED
      BY <2>1, <2>2
  <1>4. n = 0 => Cardinality(E(n)) = 0
    <2>1. n = 0 => E(n) = {}
      OBVIOUS
    <2> HIDE DEF E
    <2> QED
      BY <2>1, FS_EmptySet
  <1> QED
    BY <1>2, <1>3, <1>4 DEF EventsOf

\* What a tape announces grows by the gap of each record.
LEMMA AnnouncedOfGrow ==
  ASSUME NEW s \in Seq(TapeRecord), NEW n \in 0..Len(s)
  PROVE  /\ AnnouncedOf(s, n) \in Nat
         /\ n < Len(s) => AnnouncedOf(s, n + 1) = AnnouncedOf(s, n) + s[n + 1].gap
         /\ n = 0 => AnnouncedOf(s, n) = 0
  <1>1. \A k \in Nat, r \in TapeRecord : AddGap(k, r) \in Nat
    BY DEF AddGap, TapeRecord
  <1>2. SubSeq(s, 1, n) \in Seq(TapeRecord) /\ n \in Nat /\ Len(s) \in Nat
    BY SubSeqProperties
  <1>3. AnnouncedOf(s, n) \in Nat
    <2>1. Gaps!Fold(0, SubSeq(s, 1, n)) \in Nat
      BY <1>1, <1>2, Gaps!FoldType
    <2> QED
      BY <2>1, FoldsAreFolds DEF AnnouncedOf
  <1>4. ASSUME n < Len(s)
        PROVE  AnnouncedOf(s, n + 1) = AnnouncedOf(s, n) + s[n + 1].gap
    <2>1. n + 1 \in 1..Len(s) /\ s[n + 1] \in TapeRecord
      BY <1>2, <1>4
    <2>2. SubSeq(s, 1, n + 1) = Append(SubSeq(s, 1, n), s[n + 1])
      BY <1>2, <2>1
    <2>3. Gaps!Fold(0, Append(SubSeq(s, 1, n), s[n + 1])) =
            AddGap(Gaps!Fold(0, SubSeq(s, 1, n)), s[n + 1])
      <3> DEFINE u == SubSeq(s, 1, n)
                 e == s[n + 1]
                 V == Nat
                 b == 0
      <3>1. /\ u \in Seq(TapeRecord) /\ e \in TapeRecord /\ b \in V
            /\ \A k \in V, r \in TapeRecord : AddGap(k, r) \in V
        BY <1>1, <1>2, <2>1
      <3> HIDE DEF u, e, V, b
      <3>2. Gaps!Fold(b, Append(u, e)) = AddGap(Gaps!Fold(b, u), e)
        BY <3>1, Gaps!FoldAppend
      <3> QED
        BY <3>2 DEF u, e, b
    <2> QED
      BY <2>2, <2>3, FoldsAreFolds DEF AnnouncedOf, AddGap
  <1>5. n = 0 => AnnouncedOf(s, n) = 0
    <2>1. SubSeq(s, 1, 0) = <<>>
      BY SubSeqEmpty
    <2>2. Gaps!Fold(0, <<>>) = 0
      BY Gaps!FoldEmpty
    <2> QED
      BY <2>1, <2>2, FoldsAreFolds DEF AnnouncedOf
  <1> QED
    BY <1>3, <1>4, <1>5

\* Neither ever shrinks along a tape.
LEMMA BothGrow ==
  ASSUME NEW s \in Seq(TapeRecord), NEW n \in 0..Len(s), NEW j \in 0..n
  PROVE  EventsOf(s, j) + AnnouncedOf(s, j) <= EventsOf(s, n) + AnnouncedOf(s, n)
  <1> DEFINE sum(k) == EventsOf(s, k) + AnnouncedOf(s, k)
             T == {d \in Nat : j + d <= n => sum(j) <= sum(j + d)}
  <1>1. Len(s) \in Nat /\ n \in Nat /\ j \in Nat
    OBVIOUS
  <1>2. \A k \in 0..n : sum(k) \in Nat
    BY <1>1, EventsOfGrow, AnnouncedOfGrow
  <1>3. ASSUME NEW k \in 0..n, k < n
        PROVE  sum(k) <= sum(k + 1)
    <2>1. k \in 0..Len(s) /\ k < Len(s) /\ k + 1 \in 1..Len(s) /\ k + 1 \in 0..n
      BY <1>1, <1>3
    <2>2. s[k + 1].gap \in Nat
      <3>1. s[k + 1] \in TapeRecord
        BY <2>1
      <3> QED
        BY <3>1 DEF TapeRecord
    <2>3. /\ EventsOf(s, k) \in Nat /\ AnnouncedOf(s, k) \in Nat
          /\ EventsOf(s, k + 1) \in {EventsOf(s, k), EventsOf(s, k) + 1}
          /\ AnnouncedOf(s, k + 1) = AnnouncedOf(s, k) + s[k + 1].gap
      BY <2>1, EventsOfGrow, AnnouncedOfGrow
    <2> QED
      BY <2>2, <2>3
  <1> HIDE DEF sum
  <1>4. 0 \in T
    <2>1. j + 0 = j /\ sum(j) \in Nat
      BY <1>1, <1>2
    <2> QED
      BY <2>1
  <1>5. ASSUME NEW d \in Nat, d \in T
        PROVE  d + 1 \in T
    <2> SUFFICES ASSUME j + (d + 1) <= n
                 PROVE  sum(j) <= sum(j + (d + 1))
      OBVIOUS
    <2>1. j + d \in 0..n /\ j + d < n /\ (j + d) + 1 = j + (d + 1) /\ j + (d + 1) \in 0..n
      BY <1>1
    <2>2. sum(j) <= sum(j + d) /\ sum(j + d) <= sum(j + (d + 1))
      BY <1>3, <1>5, <2>1
    <2>3. sum(j) \in Nat /\ sum(j + d) \in Nat /\ sum(j + (d + 1)) \in Nat
      BY <1>1, <1>2, <2>1
    <2> QED
      BY <2>2, <2>3
  <1> HIDE DEF T
  <1>6. n - j \in T
    <2>1. n - j \in Nat /\ T \subseteq Nat
      BY <1>1 DEF T
    <2> QED
      BY <1>4, <1>5, <2>1, Due!NaturalInduction
  <1>7. j + (n - j) = n
    BY <1>1
  <1> QED
    BY <1>1, <1>6, <1>7 DEF T, sum

\* Both depend on the records read alone.
LEMMA BothAgree ==
  ASSUME NEW s \in Seq(TapeRecord), NEW t \in Seq(TapeRecord), NEW n \in 0..Len(s),
         n <= Len(t), \A i \in 1..n : t[i] = s[i]
  PROVE  EventsOf(t, n) = EventsOf(s, n) /\ AnnouncedOf(t, n) = AnnouncedOf(s, n)
  <1>1. {i \in 1..n : t[i].gap = 0} = {i \in 1..n : s[i].gap = 0}
    OBVIOUS
  <1>2. SubSeq(t, 1, n) = SubSeq(s, 1, n)
    <2>1. n \in Int /\ 1 \in Int /\ (\A i \in 1..n : s[i] \in TapeRecord /\ t[i] = s[i])
          /\ n - 1 + 1 = n /\ (1 <= n \/ n = 0)
      OBVIOUS
    <2>2. /\ SubSeq(s, 1, n) \in Seq(TapeRecord) /\ Len(SubSeq(s, 1, n)) = n
          /\ \A i \in 1..n : SubSeq(s, 1, n)[i] = s[1 + i - 1]
      BY <2>1, SubSeqProperties
    <2>3. /\ SubSeq(t, 1, n) \in Seq(TapeRecord) /\ Len(SubSeq(t, 1, n)) = n
          /\ \A i \in 1..n : SubSeq(t, 1, n)[i] = t[1 + i - 1]
      BY <2>1, SubSeqProperties
    <2>4. \A i \in 1..n : 1 + i - 1 = i
      OBVIOUS
    <2> DEFINE u == SubSeq(s, 1, n)
               v == SubSeq(t, 1, n)
    <2>5. /\ u \in Seq(TapeRecord) /\ v \in Seq(TapeRecord) /\ Len(u) = n /\ Len(v) = n
          /\ \A i \in 1..n : u[i] = v[i]
      BY <2>1, <2>2, <2>3, <2>4
    <2> HIDE DEF u, v
    <2>6. v = u
      BY <2>5, SeqEqual
    <2> QED
      BY <2>6 DEF u, v
  <1> QED
    BY <1>1, <1>2 DEF EventsOf, AnnouncedOf

\* The largest number of a set of those up to n.
LEMMA MaxUpTo ==
  ASSUME NEW n \in Nat, NEW S \in SUBSET (0..n), S # {}
  PROVE  Max(S) \in 0..n
  <1> DEFINE T == {k \in Nat : n - k \in S}
  <1>1. T # {} /\ T \in SUBSET Nat
    <2>1. PICK x \in S : TRUE
      OBVIOUS
    <2>2. n - x \in T
      BY <2>1
    <2> QED
      BY <2>2
  <1>2. PICK k \in T : \A j \in T : k <= j
    <2> HIDE DEF T
    <2> QED
      BY <1>1, Due!LeastNatural
  <1>3. ASSUME NEW x \in S PROVE n - k >= x
    <2>1. n - x \in T
      OBVIOUS
    <2> QED
      BY <1>2, <2>1
  <1>4. \E x \in S : \A y \in S : x >= y
    BY <1>3
  <1>5. Max(S) \in S
    BY <1>4 DEF Max
  <1> QED
    BY <1>5

-----------------------------------------------------------------------------
(* The recorder's inductive invariant, and the rows'.                      *)

\* A bound on the number of an event: those written and those announced, and
\* those that wait for either.
TapeInv ==
  /\ records \in Seq(TapeRecord) /\ pending \in Seq(Nat)
  /\ offered \in Nat /\ late \in Nat /\ lost \in Nat
  /\ broken = FALSE /\ phase = "open" /\ durable \in Nat
  /\ read \in 0..Len(records)
  /\ LET n == Len(records)
         seen == EventsOf(records, n) + AnnouncedOf(records, n)
     IN /\ offered <= seen + Len(pending) + lost + late
        /\ \A j \in 1..Len(pending) : pending[j] <= seen + j + lost
        /\ \A i \in 1..n : records[i].id <= EventsOf(records, i) + AnnouncedOf(records, i)

Crossings == [skipped : Int, announced : Int, over : Int]

\* Until a gap is read, what was announced before the decision is all there is.
CrossInv ==
  /\ crossed \in Seq(Crossings) /\ Len(crossed) = Len(rows)
  /\ \A i \in 1..Len(rows) :
        /\ rows[i].gaps <= gaps
        /\ rows[i].gaps = gaps => crossed[i].announced = AnnouncedOf(records, read)

\* A record at the end of the tape, with the same bound.
LEMMA OneMore ==
  ASSUME NEW s \in Seq(TapeRecord), NEW r \in TapeRecord, NEW up \in Nat,
         EventsOf(s, Len(s)) + AnnouncedOf(s, Len(s)) = up,
         \A i \in 1..Len(s) : s[i].id <= EventsOf(s, i) + AnnouncedOf(s, i),
         r.id <= IF r.gap = 0 THEN up + 1 ELSE up + r.gap
  PROVE  LET t == Append(s, r)
         IN /\ t \in Seq(TapeRecord) /\ Len(t) = Len(s) + 1 /\ \A i \in 1..Len(s) : t[i] = s[i]
            /\ EventsOf(t, Len(t)) + AnnouncedOf(t, Len(t)) =
                 IF r.gap = 0 THEN up + 1 ELSE up + r.gap
            /\ \A i \in 1..Len(t) : t[i].id <= EventsOf(t, i) + AnnouncedOf(t, i)
  <1> DEFINE t == Append(s, r)
             n == Len(s)
  <1>1. /\ t \in Seq(TapeRecord) /\ Len(t) = n + 1 /\ n \in Nat
        /\ t[n + 1] = r /\ \A i \in 1..n : t[i] = s[i]
    OBVIOUS
  <1> HIDE DEF t
  <1>2. \A i \in 0..n : EventsOf(t, i) = EventsOf(s, i) /\ AnnouncedOf(t, i) = AnnouncedOf(s, i)
    <2> SUFFICES ASSUME NEW i \in 0..n
                 PROVE  EventsOf(t, i) = EventsOf(s, i) /\ AnnouncedOf(t, i) = AnnouncedOf(s, i)
      OBVIOUS
    <2>1. i <= Len(t) /\ \A k \in 1..i : t[k] = s[k]
      BY <1>1
    <2> QED
      BY <1>1, <2>1, BothAgree
  <1>3. EventsOf(t, n + 1) + AnnouncedOf(t, n + 1) = IF r.gap = 0 THEN up + 1 ELSE up + r.gap
    <2>1. n \in 0..Len(t) /\ n < Len(t) /\ n \in 0..n
      BY <1>1
    <2>2. EventsOf(t, n + 1) = IF r.gap = 0 THEN EventsOf(t, n) + 1 ELSE EventsOf(t, n)
      BY <1>1, <2>1, EventsOfGrow
    <2>3. AnnouncedOf(t, n + 1) = AnnouncedOf(t, n) + r.gap
      BY <1>1, <2>1, AnnouncedOfGrow
    <2>4. EventsOf(s, n) + AnnouncedOf(s, n) = up
      OBVIOUS
    <2>5. EventsOf(s, n) \in Nat /\ AnnouncedOf(s, n) \in Nat /\ r.gap \in Nat
      BY <1>1, EventsOfGrow, AnnouncedOfGrow DEF TapeRecord
    <2>6. EventsOf(t, n) = EventsOf(s, n) /\ AnnouncedOf(t, n) = AnnouncedOf(s, n)
      BY <1>2, <2>1
    <2> HIDE DEF n
    <2> QED
      BY <2>2, <2>3, <2>4, <2>5, <2>6
  <1>4. ASSUME NEW i \in 1..Len(t)
        PROVE  t[i].id <= EventsOf(t, i) + AnnouncedOf(t, i)
    <2>1. CASE i = n + 1
      BY <1>1, <1>3, <2>1
    <2>2. CASE i # n + 1
      <3>1. i \in 1..n /\ i \in 0..n
        BY <1>1, <2>2
      <3> QED
        BY <1>1, <1>2, <3>1
    <2> QED
      BY <2>1, <2>2
  <1> QED
    BY <1>1, <1>3, <1>4 DEF t


\* One element appended to one.
LEMMA AppendedPair ==
  ASSUME NEW a, NEW b
  PROVE  Append(<<a>>, b) = <<a, b>>
  <1> DEFINE S == {a, b}
             s == <<a>>
             t == Append(s, b)
             u == <<a, b>>
  <1>0. s \in Seq(S) /\ b \in S
    OBVIOUS
  <1>1. Len(s) = 1 /\ s[1] = a
    OBVIOUS
  <1>2. u \in Seq(S) /\ Len(u) = 2 /\ u[1] = a /\ u[2] = b
    OBVIOUS
  <1> HIDE DEF S, s, u
  <1>3. t \in Seq(S) /\ Len(t) = 2 /\ t[1] = a /\ t[2] = b
    <2>1. /\ t \in Seq(S) /\ Len(t) = Len(s) + 1
          /\ (\A i \in 1..Len(s) : t[i] = s[i]) /\ t[Len(s) + 1] = b
      BY <1>0, AppendProperties
    <2> HIDE DEF t
    <2>2. 1 \in 1..Len(s) /\ Len(s) + 1 = 2
      BY <1>1
    <2> QED
      BY <1>1, <2>1, <2>2
  <1> HIDE DEF t
  <1>4. \A i \in 1..2 : t[i] = u[i]
    <2>1. \A i \in 1..2 : i = 1 \/ i = 2
      OBVIOUS
    <2> QED
      BY <1>2, <1>3, <2>1
  <1>5. t = u
    BY <1>2, <1>3, <1>4, SeqEqual
  <1> QED
    BY <1>5 DEF s, t, u

\* A pair appended is its elements appended in turn.
LEMMA AppendedTwo ==
  ASSUME NEW S, NEW s \in Seq(S), NEW a \in S, NEW b \in S
  PROVE  s \o <<a, b>> = Append(Append(s, a), b)
  <1> DEFINE c == <<a>>
             e == <<b>>
  <1>1. c \in Seq(S) /\ e \in Seq(S)
    OBVIOUS
  <1>2. Append(c, b) = <<a, b>>
    BY AppendedPair
  <1> HIDE DEF c
  <1>3. Append(c, b) = c \o e
    BY <1>1, AppendIsConcat
  <1>4. Append(s, a) = s \o c
    BY AppendIsConcat DEF c
  <1>5. Append(s, a) \in Seq(S)
    BY AppendProperties
  <1>6. Append(Append(s, a), b) = Append(s, a) \o e
    BY <1>5, AppendIsConcat
  <1> HIDE DEF e
  <1>7. (s \o c) \o e = s \o (c \o e)
    BY <1>1, ConcatAssociative, SMTT(30)
  <1> QED
    BY <1>2, <1>3, <1>4, <1>6, <1>7

\* The events that are missing among the records read have been announced there.
LEMMA SkippedBounded ==
  ASSUME TapeInv, NEW n \in 0..Len(records)
  PROVE  /\ Announced(n) = AnnouncedOf(records, n)
         /\ Skipped(n) \in Int /\ Skipped(n) <= AnnouncedOf(records, n)
  <1> DEFINE up == EventsOf(records, n) + AnnouncedOf(records, n)
             S == {0} \cup {records[i].id : i \in 1..n}
  <1>1. /\ records \in Seq(TapeRecord) /\ Len(records) \in Nat /\ n \in Nat
        /\ \A i \in 1..Len(records) :
              records[i].id <= EventsOf(records, i) + AnnouncedOf(records, i)
    BY DEF TapeInv
  <1>2. EventsOf(records, n) \in Nat /\ AnnouncedOf(records, n) \in Nat /\ up \in Nat
    BY <1>1, EventsOfGrow, AnnouncedOfGrow
  <1>3. ASSUME NEW i \in 1..n
        PROVE  records[i].id \in 0..up
    <2>1. i \in 0..n /\ i \in 1..Len(records) /\ i \in 0..Len(records)
          /\ records[i] \in TapeRecord
      BY <1>1
    <2>2. records[i].id \in Nat
      BY <2>1 DEF TapeRecord
    <2>3. EventsOf(records, i) + AnnouncedOf(records, i) <= up
      BY <1>1, <2>1, BothGrow
    <2>4. EventsOf(records, i) + AnnouncedOf(records, i) \in Nat
      BY <1>1, <2>1, EventsOfGrow, AnnouncedOfGrow
    <2>5. records[i].id <= EventsOf(records, i) + AnnouncedOf(records, i)
      BY <1>1, <2>1
    <2> HIDE DEF up
    <2> QED
      BY <1>2, <2>2, <2>3, <2>4, <2>5
  <1> HIDE DEF up
  <1>4. S \in SUBSET (0..up) /\ S # {}
    BY <1>2, <1>3
  <1> HIDE DEF S
  <1>5. Max(S) \in 0..up
    BY <1>2, <1>4, MaxUpTo
  <1>6. Skipped(n) = Max(S) - EventsOf(records, n)
    BY DEF Skipped, Events, EventsOf, S
  <1>7. Max(S) - EventsOf(records, n) <= AnnouncedOf(records, n)
    BY <1>2, <1>5 DEF up
  <1>8. Announced(n) = AnnouncedOf(records, n)
    BY DEF Announced, AnnouncedOf
  <1> QED
    BY <1>2, <1>5, <1>6, <1>7, <1>8

\* The recorder offers, drops, counts and writes within the bound.
LEMMA RecorderSteps ==
  ASSUME TapeInv, OfferNext \/ OfferReturns \/ WriteNext
  PROVE  /\ TapeInv'
         /\ AnnouncedOf(records, read)' = AnnouncedOf(records, read)
  <1> DEFINE n == Len(records)
             up == EventsOf(records, n) + AnnouncedOf(records, n)
  <1>1. /\ records \in Seq(TapeRecord) /\ pending \in Seq(Nat)
        /\ offered \in Nat /\ late \in Nat /\ lost \in Nat
        /\ broken = FALSE /\ phase = "open" /\ durable \in Nat
        /\ read \in 0..n /\ n \in Nat /\ up \in Nat
        /\ offered <= up + Len(pending) + lost + late
        /\ \A j \in 1..Len(pending) : pending[j] <= up + j + lost
        /\ \A i \in 1..n : records[i].id <= EventsOf(records, i) + AnnouncedOf(records, i)
    <2>1. n \in Nat /\ n \in 0..Len(records) /\ records \in Seq(TapeRecord)
      BY DEF TapeInv
    <2>2. EventsOf(records, n) \in Nat /\ AnnouncedOf(records, n) \in Nat
      BY <2>1, EventsOfGrow, AnnouncedOfGrow
    <2>3. up \in Nat
      BY <2>2
    <2> QED
      BY <2>1, <2>3 DEF TapeInv
  <1> HIDE DEF up
  <1>2. CASE OfferNext /\ Tape!Accept
    <2>1. /\ offered' = offered + 1 /\ pending' = Append(pending, offered') /\ late = 0
          /\ late' = late /\ lost' = lost /\ records' = records /\ durable' = durable
          /\ broken' = broken /\ phase' = phase /\ read' = read
      BY <1>2 DEF OfferNext, Tape!Accept
    <2>2. /\ offered + 1 \in Nat /\ Len(pending) \in Nat
          /\ offered + 1 <= up + (Len(pending) + 1) + lost + late
          /\ offered + 1 <= up + (Len(pending) + 1) + lost
      BY <1>1, <2>1
    <2>3. /\ pending' \in Seq(Nat) /\ Len(pending') = Len(pending) + 1
          /\ pending'[Len(pending) + 1] = offered + 1
          /\ \A j \in 1..Len(pending) : pending'[j] = pending[j]
      BY <1>1, <2>1, <2>2
    <2>4. \A j \in 1..Len(pending') : pending'[j] <= up + j + lost
      <3> SUFFICES ASSUME NEW j \in 1..Len(pending')
                   PROVE  pending'[j] <= up + j + lost
        OBVIOUS
      <3>1. CASE j = Len(pending) + 1
        BY <2>2, <2>3, <3>1
      <3>2. CASE j # Len(pending) + 1
        <4>1. j \in 1..Len(pending)
          BY <2>2, <2>3, <3>2
        <4> QED
          BY <1>1, <2>3, <4>1
      <3> QED
        BY <3>1, <3>2
    <2>5. TapeInv'
      BY <1>1, <2>1, <2>2, <2>3, <2>4 DEF TapeInv, up
    <2> QED
      BY <2>1, <2>5
  <1>3. CASE OfferNext /\ Tape!Drop
    <2>1. /\ offered' = offered + 1 /\ pending' = pending
          /\ late' = late + 1 /\ lost' = lost /\ records' = records /\ durable' = durable
          /\ broken' = broken /\ phase' = phase /\ read' = read
      BY <1>3 DEF OfferNext, Tape!Drop
    <2>2. /\ offered + 1 \in Nat /\ late + 1 \in Nat
          /\ offered + 1 <= up + Len(pending) + lost + (late + 1)
      BY <1>1
    <2>3. TapeInv'
      BY <1>1, <2>1, <2>2 DEF TapeInv, up
    <2> QED
      BY <2>1, <2>3
  <1>4. CASE OfferReturns
    <2>1. /\ offered' = offered /\ pending' = pending /\ late > 0
          /\ late' = late - 1 /\ lost' = lost + 1 /\ records' = records /\ durable' = durable
          /\ broken' = broken /\ phase' = phase /\ read' = read
      BY <1>4 DEF OfferReturns, Tape!Count
    <2>2. /\ lost + 1 \in Nat /\ late - 1 \in Nat
          /\ offered <= up + Len(pending) + (lost + 1) + (late - 1)
          /\ \A j \in 1..Len(pending) : pending[j] <= up + j + (lost + 1)
      <3>1. \A j \in 1..Len(pending) : pending[j] \in Nat /\ pending[j] <= up + j + lost
        BY <1>1
      <3>2. up \in Nat /\ lost \in Nat /\ late \in Nat /\ late > 0 /\ Len(pending) \in Nat
        BY <1>1, <2>1
      <3>3. offered <= up + Len(pending) + lost + late /\ offered \in Nat
        BY <1>1
      <3> HIDE DEF up
      <3>4. ASSUME NEW j \in 1..Len(pending)
            PROVE  pending[j] <= up + j + (lost + 1)
        BY <3>1, <3>2
      <3>5. /\ lost + 1 \in Nat /\ late - 1 \in Nat
            /\ offered <= up + Len(pending) + (lost + 1) + (late - 1)
        BY <3>2, <3>3
      <3> QED
        BY <3>4, <3>5
    <2>3. TapeInv'
      BY <1>1, <2>1, <2>2 DEF TapeInv, up
    <2> QED
      BY <2>1, <2>3
  <1>5. CASE WriteNext
    <2> DEFINE h == Head(pending)
               ev == [gap |-> 0, id |-> h]
               g == [gap |-> lost, id |-> 0]
    <2>1. /\ pending # <<>> /\ pending' = Tail(pending) /\ lost' = 0
          /\ offered' = offered /\ late' = late /\ phase' = phase /\ read' = read
          /\ durable' = durable /\ broken' = FALSE
          /\ records' = records \o Append(Tape!Announced, ev)
      BY <1>1, <1>5 DEF WriteNext, Tape!Write, Tape!Grow
    <2>2. /\ Len(pending) \in Nat /\ Len(pending) >= 1 /\ h \in Nat /\ h <= up + 1 + lost
          /\ Tail(pending) \in Seq(Nat) /\ Len(Tail(pending)) = Len(pending) - 1
          /\ \A j \in 1..Len(pending) - 1 : Tail(pending)[j] = pending[j + 1]
      <3>1. /\ Len(pending) \in Nat /\ Len(pending) >= 1 /\ pending \in Seq(Nat)
            /\ h = pending[1] /\ h \in Nat
            /\ Tail(pending) \in Seq(Nat) /\ Len(Tail(pending)) = Len(pending) - 1
        BY <1>1, <2>1, SMTT(30)
      <3>2. \A j \in 1..Len(pending) - 1 : Tail(pending)[j] = pending[j + 1]
        BY <1>1, <2>1
      <3>3. 1 \in 1..Len(pending)
        BY <3>1
      <3>4. h <= up + 1 + lost
        BY <1>1, <3>1, <3>3
      <3> QED
        BY <3>1, <3>2, <3>4
    <2>3. ev \in TapeRecord /\ g \in TapeRecord /\ ev.gap = 0 /\ ev.id = h
          /\ g.gap = lost /\ g.id = 0
      BY <1>1, <2>2 DEF TapeRecord
    <2> HIDE DEF h, ev, g
    <2> DEFINE Bounded(t, x) ==
                 /\ t \in Seq(TapeRecord) /\ n <= Len(t) /\ \A i \in 1..n : t[i] = records[i]
                 /\ EventsOf(t, Len(t)) + AnnouncedOf(t, Len(t)) = x
                 /\ \A i \in 1..Len(t) : t[i].id <= EventsOf(t, i) + AnnouncedOf(t, i)
    <2>4. Bounded(records', up + lost + 1)
      <3>1. Bounded(records, up)
        BY <1>1 DEF up
      <3>2. ASSUME NEW s, NEW r \in TapeRecord, NEW x \in Nat, Bounded(s, x),
                   r.id <= IF r.gap = 0 THEN x + 1 ELSE x + r.gap
            PROVE  Bounded(Append(s, r), IF r.gap = 0 THEN x + 1 ELSE x + r.gap)
        <4> DEFINE t == Append(s, r)
        <4>1. s \in Seq(TapeRecord) /\ n <= Len(s) /\ \A i \in 1..n : s[i] = records[i]
          BY <3>2
        <4>2. /\ t \in Seq(TapeRecord) /\ Len(t) = Len(s) + 1 /\ \A i \in 1..Len(s) : t[i] = s[i]
              /\ EventsOf(t, Len(t)) + AnnouncedOf(t, Len(t)) =
                   IF r.gap = 0 THEN x + 1 ELSE x + r.gap
              /\ \A i \in 1..Len(t) : t[i].id <= EventsOf(t, i) + AnnouncedOf(t, i)
          BY <3>2, OneMore
        <4> HIDE DEF t
        <4>3. Len(s) \in Nat /\ n <= Len(t) /\ \A i \in 1..n : t[i] = records[i]
          BY <1>1, <4>1, <4>2
        <4>4. Bounded(t, IF r.gap = 0 THEN x + 1 ELSE x + r.gap)
          BY <4>2, <4>3
        <4> QED
          BY <4>4 DEF t
      <3> HIDE DEF Bounded
      <3>3. CASE lost = 0
        <4>1. records' = Append(records, ev)
          BY <1>1, <2>1, <3>3 DEF Tape!Announced
        <4>2. Bounded(Append(records, ev), IF ev.gap = 0 THEN up + 1 ELSE up + ev.gap)
          <5>1. ev.id <= IF ev.gap = 0 THEN up + 1 ELSE up + ev.gap
            BY <1>1, <2>2, <2>3, <3>3
          <5> QED
            BY <1>1, <2>3, <3>1, <3>2, <5>1
        <4>3. (IF ev.gap = 0 THEN up + 1 ELSE up + ev.gap) = up + lost + 1
          BY <1>1, <2>3, <3>3
        <4> QED
          BY <4>1, <4>2, <4>3
      <3>4. CASE lost # 0
        <4>1. records' = Append(Append(records, g), ev)
          <5>1. Append(Tape!Announced, ev) = <<g, ev>>
            <6>1. Tape!Announced = <<g>>
              BY <3>4 DEF Tape!Announced, g
            <6>2. Append(<<g>>, ev) = <<g, ev>>
              BY AppendedPair
            <6> QED
              BY <6>1, <6>2
          <5>2. records \o <<g, ev>> = Append(Append(records, g), ev)
            <6>1. records \in Seq(TapeRecord) /\ g \in TapeRecord /\ ev \in TapeRecord
              BY <1>1, <2>3
            <6> HIDE DEF g, ev
            <6> QED
              BY <6>1, AppendedTwo
          <5> QED
            BY <2>1, <5>1, <5>2
        <4>2. Bounded(Append(records, g), IF g.gap = 0 THEN up + 1 ELSE up + g.gap)
          <5>1. g.id <= IF g.gap = 0 THEN up + 1 ELSE up + g.gap
            BY <1>1, <2>3, <3>4
          <5> QED
            BY <1>1, <2>3, <3>1, <3>2, <5>1
        <4>3. (IF g.gap = 0 THEN up + 1 ELSE up + g.gap) = up + lost /\ up + lost \in Nat
          BY <1>1, <2>3, <3>4
        <4> DEFINE s == Append(records, g)
        <4>4. Bounded(s, up + lost)
          BY <4>2, <4>3
        <4> HIDE DEF s
        <4>5. Bounded(Append(s, ev), IF ev.gap = 0 THEN up + lost + 1 ELSE up + lost + ev.gap)
          <5>1. ev.id <= IF ev.gap = 0 THEN up + lost + 1 ELSE up + lost + ev.gap
            BY <1>1, <2>2, <2>3
          <5> QED
            BY <2>3, <3>2, <4>3, <4>4, <5>1
        <4> QED
          BY <2>3, <4>1, <4>5 DEF s
      <3> QED
        BY <3>3, <3>4
    <2>5. /\ records' \in Seq(TapeRecord) /\ n <= Len(records')
          /\ \A i \in 1..n : records'[i] = records[i]
          /\ EventsOf(records', Len(records')) + AnnouncedOf(records', Len(records')) = up + lost + 1
          /\ \A i \in 1..Len(records') :
                records'[i].id <= EventsOf(records', i) + AnnouncedOf(records', i)
      BY <2>4
    <2> HIDE DEF Bounded
    <2>6. \A j \in 1..Len(pending') : pending'[j] <= (up + lost + 1) + j + 0
      <3> SUFFICES ASSUME NEW j \in 1..Len(pending) - 1
                   PROVE  Tail(pending)[j] <= (up + lost + 1) + j + 0
        BY <2>1, <2>2
      <3>1. j + 1 \in 1..Len(pending)
        BY <2>2
      <3>2. pending[j + 1] \in Nat /\ pending[j + 1] <= up + (j + 1) + lost
        BY <1>1, <3>1
      <3> QED
        BY <1>1, <2>2, <3>2
    <2>7. read' \in 0..Len(records') /\ AnnouncedOf(records', read') = AnnouncedOf(records, read)
      <3>1. Len(records') \in Nat /\ read \in 0..Len(records') /\ read \in 0..Len(records)
        BY <1>1, <2>5
      <3>2. read <= Len(records') /\ \A i \in 1..read : records'[i] = records[i]
        BY <1>1, <2>5, <3>1
      <3> QED
        BY <1>1, <2>1, <2>5, <3>1, <3>2, BothAgree
    <2>8. offered' <= (up + lost + 1) + Len(pending') + 0 + late'
      BY <1>1, <2>1, <2>2
    <2>9. TapeInv'
      BY <1>1, <2>1, <2>2, <2>5, <2>6, <2>7, <2>8 DEF TapeInv
    <2> QED
      BY <2>7, <2>9
  <1> QED
    BY <1>2, <1>3, <1>4, <1>5 DEF OfferNext


\* Reading and the end of the tape leave the recorder as it was.
LEMMA ReaderSteps ==
  ASSUME StudyInv, TapeInv, CrossInv, [TapeNext]_tapeVars
  PROVE  TapeInv' /\ CrossInv'
  <1> DEFINE m == Len(rows)
  <1>1. /\ rows \in Seq(Row) /\ m \in Nat /\ gaps \in Nat
        /\ Accounted(rows, pendings, gaps, now)
        /\ crossed \in Seq(Crossings) /\ Len(crossed) = m
        /\ records \in Seq(TapeRecord) /\ read \in 0..Len(records)
        /\ \A i \in 1..m : /\ rows[i].gaps <= gaps
                           /\ rows[i].gaps = gaps =>
                                crossed[i].announced = AnnouncedOf(records, read)
    <2>1. /\ rows \in Seq(Row) /\ gaps \in Nat /\ Accounted(rows, pendings, gaps, now)
      BY DEF StudyInv, Accounted
    <2>2. m \in Nat
      BY <2>1
    <2>3. records \in Seq(TapeRecord) /\ read \in 0..Len(records)
      BY DEF TapeInv
    <2> QED
      BY <2>1, <2>2, <2>3 DEF CrossInv
  <1>2. CASE OfferNext \/ OfferReturns \/ WriteNext
    <2>1. TapeInv' /\ AnnouncedOf(records, read)' = AnnouncedOf(records, read)
      BY <1>2, RecorderSteps
    <2>2. rows' = rows /\ gaps' = gaps /\ crossed' = crossed
      BY <1>2 DEF OfferNext, OfferReturns, WriteNext, studyVars, vars
    <2> QED
      BY <1>1, <2>1, <2>2 DEF CrossInv
  <1>3. CASE UNCHANGED tapeVars
    <2>1. /\ rows' = rows /\ gaps' = gaps /\ crossed' = crossed /\ read' = read
          /\ records' = records /\ pending' = pending /\ offered' = offered /\ late' = late
          /\ lost' = lost /\ broken' = broken /\ phase' = phase /\ durable' = durable
      BY <1>3 DEF tapeVars, studyVars, vars, recVars
    <2>2. TapeInv'
      BY <2>1 DEF TapeInv
    <2> QED
      BY <1>1, <2>1, <2>2 DEF CrossInv
  <1>4. CASE EndOfTape
    <2>1. /\ gaps' = gaps /\ crossed' = crossed /\ read' = read
          /\ records' = records /\ pending' = pending /\ offered' = offered /\ late' = late
          /\ lost' = lost /\ broken' = broken /\ phase' = phase /\ durable' = durable
          /\ Finish
      BY <1>4 DEF EndOfTape, Finish, recVars
    <2>2. TapeInv'
      BY <2>1 DEF TapeInv
    <2>3. Len(rows') = m /\ \A i \in 1..m : rows'[i].gaps = rows[i].gaps
      BY <1>1, <2>1, EndKeeps DEF SameDecision
    <2> QED
      BY <1>1, <2>1, <2>2, <2>3 DEF CrossInv
  <1>5. ASSUME NEW d \in -MaxBack..MaxStep, ReadNext(d)
        PROVE  TapeInv' /\ CrossInv'
    <2> DEFINE n == read + 1
               at == wall + d
    <2>1. /\ read' = n /\ read < Len(records) /\ crossed' = Crossing(n) /\ at \in Int
          /\ records' = records /\ pending' = pending /\ offered' = offered /\ late' = late
          /\ lost' = lost /\ broken' = broken /\ phase' = phase /\ durable' = durable
      BY <1>5 DEF ReadNext, recVars
    <2>2. n \in 1..Len(records) /\ n \in 0..Len(records) /\ records[n] \in TapeRecord
      BY <1>1, <2>1
    <2>3. TapeInv'
      BY <2>1, <2>2 DEF TapeInv
    <2>4. AnnouncedOf(records, n) = AnnouncedOf(records, read) + records[n].gap
          /\ AnnouncedOf(records, read) \in Nat
      BY <1>1, <2>1, AnnouncedOfGrow
    <2>5. records[n].gap \in Nat
      BY <2>2 DEF TapeRecord
    <2> DEFINE old(i) == IF InFlight(i) = {} THEN crossed[i]
                         ELSE [crossed[i] EXCEPT !.over = Skipped(n) - crossed[i].skipped]
               new == [skipped |-> Skipped(n), announced |-> Announced(n), over |-> 0]
               c(i) == IF i > m THEN new ELSE old(i)
    <2>6. crossed' = [i \in 1..Len(rows') |-> c(i)]
      BY <2>1 DEF Crossing
    <2>7. Skipped(n) \in Int /\ Announced(n) = AnnouncedOf(records, n)
      BY <2>2, SkippedBounded
    <2>8. ASSUME NEW i \in 1..m
          PROVE  old(i) \in Crossings /\ old(i).announced = crossed[i].announced
      <3>1. crossed[i] \in Crossings
        BY <1>1
      <3>2. Skipped(n) - crossed[i].skipped \in Int
        BY <2>7, <3>1 DEF Crossings
      <3> DEFINE x == crossed[i]
                 y == Skipped(n) - crossed[i].skipped
                 z == [x EXCEPT !.over = y]
      <3>3. old(i) = x \/ old(i) = z
        OBVIOUS
      <3>4. x \in Crossings /\ y \in Int
        BY <3>1, <3>2
      <3> HIDE DEF old, x, y
      <3>5. z \in Crossings /\ z.announced = x.announced
        BY <3>4 DEF Crossings
      <3> QED
        BY <3>3, <3>4, <3>5 DEF x
    <2>9. new \in Crossings /\ new.announced = AnnouncedOf(records, n)
      BY <2>4, <2>5, <2>7 DEF Crossings
    <2> HIDE DEF old, new
    <2>10. ASSUME Len(rows') \in Nat
           PROVE  /\ crossed' \in Seq(Crossings) /\ Len(crossed') = Len(rows')
                  /\ \A i \in 1..Len(rows') :
                        crossed'[i].announced = IF i > m THEN AnnouncedOf(records, n)
                                                ELSE crossed[i].announced
      <3>1. ASSUME NEW i \in 1..Len(rows')
            PROVE  /\ c(i) \in Crossings
                   /\ c(i).announced = IF i > m THEN AnnouncedOf(records, n)
                                       ELSE crossed[i].announced
        <4>1. CASE i > m
          BY <2>9, <4>1
        <4>2. CASE ~(i > m)
          <5>1. i \in 1..m
            BY <1>1, <2>10, <4>2
          <5> QED
            BY <2>8, <4>2, <5>1
        <4> QED
          BY <4>1, <4>2
      <3> HIDE DEF c
      <3>2. \A i \in 1..Len(rows') : crossed'[i] = c(i)
        BY <2>6
      <3>3. crossed' \in Seq(Crossings) /\ Len(crossed') = Len(rows')
        BY <2>6, <2>10, <3>1
      <3> QED
        BY <3>1, <3>2, <3>3
    <2>11. CASE records[n].gap > 0
      <3>1. OnGap(at)
        BY <1>5, <2>1, <2>11 DEF ReadNext
      <3>2. rows' = rows /\ gaps' = gaps + 1
        BY <3>1 DEF OnGap
      <3>3. \A i \in 1..m : rows'[i].gaps <= gaps' /\ rows'[i].gaps # gaps'
        <4> SUFFICES ASSUME NEW i \in 1..m
                     PROVE  rows[i].gaps <= gaps + 1 /\ rows[i].gaps # gaps + 1
          BY <3>2
        <4>1. rows[i] \in Row /\ rows[i].gaps <= gaps
          BY <1>1
        <4>2. rows[i].gaps \in Nat
          BY <4>1 DEF Row
        <4> QED
          BY <1>1, <4>1, <4>2
      <3>4. Len(rows') \in Nat /\ Len(rows') = m
        BY <1>1, <3>2
      <3>5. crossed' \in Seq(Crossings) /\ Len(crossed') = Len(rows')
        BY <2>10, <3>4
      <3>6. CrossInv'
        BY <3>3, <3>4, <3>5 DEF CrossInv
      <3> QED
        BY <2>3, <3>6
    <2>12. CASE ~(records[n].gap > 0)
      <3>1. PICK l \in Ladders : OnEvent(l, at)
        BY <1>5, <2>1, <2>12 DEF ReadNext
      <3> HIDE DEF at
      <3>2. /\ gaps' = gaps /\ Len(rows') \in Nat
            /\ \A i \in 1..m : rows'[i].gaps = rows[i].gaps
            /\ \A i \in 1..Len(rows') : i > m => rows'[i].gaps = gaps
        BY <1>1, <2>1, <3>1, EventKeeps DEF SameDecision
      <3>3. AnnouncedOf(records, n) = AnnouncedOf(records, read)
        BY <2>4, <2>5, <2>12
      <3>4. /\ crossed' \in Seq(Crossings) /\ Len(crossed') = Len(rows')
            /\ \A i \in 1..Len(rows') :
                  crossed'[i].announced = IF i > m THEN AnnouncedOf(records, n)
                                          ELSE crossed[i].announced
        BY <2>10, <3>2
      <3>5. ASSUME NEW i \in 1..Len(rows')
            PROVE  /\ rows'[i].gaps <= gaps
                   /\ rows'[i].gaps = gaps =>
                        crossed'[i].announced = AnnouncedOf(records, n)
        <4>1. CASE i > m
          BY <1>1, <3>2, <3>4, <4>1
        <4>2. CASE ~(i > m)
          <5>1. i \in 1..m
            BY <1>1, <3>2, <4>2
          <5> QED
            BY <1>1, <3>2, <3>3, <3>4, <4>2, <5>1
        <4> QED
          BY <4>1, <4>2
      <3>6. CrossInv'
        <4>1. AnnouncedOf(records', read') = AnnouncedOf(records, n)
          BY <2>1
        <4> QED
          BY <3>2, <3>4, <3>5, <4>1 DEF CrossInv
      <3> QED
        BY <2>3, <3>6
    <2> QED
      BY <2>11, <2>12
  <1> QED
    BY <1>2, <1>3, <1>4, <1>5 DEF TapeNext


LEMMA RecorderInit ==
  ASSUME TapeInit
  PROVE  TapeInv /\ CrossInv
  <1>1. /\ offered = 0 /\ pending = <<>> /\ late = 0 /\ lost = 0 /\ records = <<>> /\ durable = 0
        /\ broken = FALSE /\ phase = "open" /\ read = 0 /\ crossed = <<>> /\ rows = <<>>
    BY DEF TapeInit, Init, Tape!Init
  <1>2. /\ Len(<<>>) = 0 /\ <<>> \in Seq(TapeRecord) /\ <<>> \in Seq(Nat)
        /\ <<>> \in Seq(Crossings)
    OBVIOUS
  <1> DEFINE e == <<>>
  <1>3. e \in Seq(TapeRecord) /\ 0 \in 0..Len(e) /\ Len(e) = 0
    BY <1>2
  <1> HIDE DEF e
  <1>4. EventsOf(e, 0) = 0 /\ AnnouncedOf(e, 0) = 0
    BY <1>3, EventsOfGrow, AnnouncedOfGrow
  <1>5. TapeInv
    BY <1>1, <1>2, <1>3, <1>4 DEF TapeInv, e
  <1>6. CrossInv
    BY <1>1, <1>2 DEF CrossInv
  <1> QED
    BY <1>5, <1>6

\* An order in flight has met no gap, so what it has been told of is all there is.
LEMMA CrossInvImplies ==
  ASSUME StudyInv, TapeInv, CrossInv
  PROVE  HolesAnnouncedFirst
  <1> SUFFICES ASSUME NEW i \in 1..Len(rows), InFlight(i) # {}
               PROVE  Skipped(read) <= crossed[i].announced
    BY DEF HolesAnnouncedFirst
  <1>1. PICK k \in 1..Len(pendings) : pendings[k].rowIdx = i
    BY DEF InFlight
  <1>2. WorksFor(pendings[k], rows, gaps, now)
    BY DEF StudyInv, Accounted
  <1>3. rows[i].gaps = gaps
    BY <1>1, <1>2 DEF WorksFor, AtWork
  <1>4. crossed[i].announced = AnnouncedOf(records, read)
    BY <1>3 DEF CrossInv
  <1>5. read \in 0..Len(records)
    BY DEF TapeInv
  <1> QED
    BY <1>4, <1>5, SkippedBounded

-----------------------------------------------------------------------------
(* The theorems.                                                           *)

LEMMA StudyInvariant == TapeSpec => []StudyInv
  <1>1. TapeInit => StudyInv
    BY StudyInit
  <1>2. StudyInv /\ [TapeNext]_tapeVars => StudyInv'
    BY StudyStep
  <1> QED
    BY <1>1, <1>2, PTL DEF TapeSpec

\* Whatever the tape, a row ends in one state only: its order is priced, has
\* failed, is being worked by one parent, or was dropped at a gap.
THEOREM EveryRowAccountedFor == TapeSpec => []RowsAccountedFor
  <1>1. StudyInv => RowsAccountedFor
    BY StudyInvImplies
  <1> QED
    BY <1>1, StudyInvariant, PTL

\* Whatever the rounding and the ladders, the slices of an order that never met
\* empty books add up to it when it is priced.
THEOREM SlicesAlwaysAddUp == TapeSpec => []SlicesAddUp
  <1>1. StudyInv => SlicesAddUp
    BY StudyInvImplies
  <1> QED
    BY <1>1, StudyInvariant, PTL

\* However late the records come, a parent keeps the schedule of its decision.
THEOREM SlicesAlwaysKeepSchedule == TapeSpec => []SlicesKeepSchedule
  <1>1. StudyInv => SlicesKeepSchedule
    BY StudyInvImplies
  <1> QED
    BY <1>1, StudyInvariant, PTL

\* No step prices an order that met a gap since its decision.
THEOREM NeverPricedAcrossGap == TapeSpec => NothingPricedAcrossGap
  <1>1. StudyInv /\ [TapeNext]_tapeVars =>
          [\A i \in 1..Len(rows) : ~rows[i].priced /\ rows'[i].priced => rows[i].gaps = gaps]_vars
    BY StudyStep
  <1> QED
    BY <1>1, StudyInvariant, PTL DEF TapeSpec, NothingPricedAcrossGap

\* Whatever the recorder drops and however its records interleave with the study,
\* a hole an order in flight could cross was announced before its decision.
THEOREM HolesAlwaysAnnouncedFirst == TapeSpec => []HolesAnnouncedFirst
  <1> DEFINE IInv == StudyInv /\ TapeInv /\ CrossInv
  <1>1. TapeInit => IInv
    BY StudyInit, RecorderInit
  <1>2. IInv /\ [TapeNext]_tapeVars => IInv'
    BY StudyStep, ReaderSteps
  <1>3. IInv => HolesAnnouncedFirst
    BY CrossInvImplies
  <1> HIDE DEF IInv
  <1> QED
    BY <1>1, <1>2, <1>3, PTL DEF TapeSpec
=============================================================================
