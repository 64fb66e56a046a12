---------------------------- MODULE CaptureProofs ----------------------------
(* The recorder, for any number of offerers and of files, any buffer and    *)
(* any failure of the tape.  First what the operators of Tape do to the     *)
(* records a tape holds: each outcome of a write adds its records in order  *)
(* or sticks at an error, nothing that is written or durable is ever taken  *)
(* back, and without an error the files form a sequence of finished ones    *)
(* with at most one open at the end.  Then the writer: the order of         *)
(* closing, the accounts, what a kill and a clean Close leave, the order of *)
(* the tape, and Recorder.                                                  *)
EXTENDS Capture, FiniteSetTheorems, SequenceTheorems, TLAPS

Records == INSTANCE FoldLaws WITH Op <- AddRecords
Lost == INSTANCE FoldLaws WITH Op <- AddGap
Safe == INSTANCE FoldLaws WITH Op <- AddDurable

Rec == [gap : Nat, id : Nat]

FileRecord ==
  [head : {"none", "held", "disk"}, recs : Seq(Rec), disk : Nat, done : BOOLEAN]

\* No more is on disk than was encoded, and all of it once the file is finished.
File == {f \in FileRecord : /\ f.disk <= Len(f.recs)
                            /\ f.done => f.disk = Len(f.recs) /\ f.head = "disk"}

Progress == [on : BOOLEAN, n : Nat]

Start == [on |-> TRUE, n |-> 0]

DurableTo(files) == FoldLeft(AddDurable, Start, files)

-----------------------------------------------------------------------------
(* Sequences.                                                              *)

\* Appending to the second of two sequences is appending to both.
LEMMA AppendAfter ==
  ASSUME NEW S, NEW a \in Seq(S), NEW b \in Seq(S), NEW e \in S
  PROVE  a \o Append(b, e) = Append(a \o b, e)
  <1> DEFINE c == <<e>>
  <1>1. c \in Seq(S) /\ a \o b \in Seq(S)
    BY ConcatProperties
  <1>2. Append(b, e) = b \o c /\ Append(a \o b, e) = (a \o b) \o c
    BY <1>1, AppendIsConcat
  <1> HIDE DEF c
  <1>3. a \o (b \o c) = (a \o b) \o c
    BY <1>1, ConcatAssociative, SMTT(30)
  <1> QED
    BY <1>2, <1>3

\* The first n elements of a sequence.
LEMMA Beginning ==
  ASSUME NEW S, NEW s \in Seq(S), NEW n \in 0..Len(s)
  PROVE  /\ SubSeq(s, 1, n) \in Seq(S) /\ Len(SubSeq(s, 1, n)) = n
         /\ \A i \in 1..n : SubSeq(s, 1, n)[i] = s[i]
  <1> DEFINE d == SubSeq(s, 1, n)
             m == Len(s)
  <1>1. m \in Nat /\ n \in Nat /\ n <= m
    BY LenProperties
  <1>2. \A i \in 1..m : s[i] \in S
    BY ElementOfSeq
  <1> HIDE DEF m
  <1>3. 1 \in Int /\ n \in Int /\ (\A i \in 1..n : s[i] \in S) /\ n - 1 + 1 = n
        /\ (1 <= n \/ n = 0)
    BY <1>1, <1>2
  <1>4. d \in Seq(S) /\ Len(d) = n /\ \A i \in 1..n : d[i] = s[1 + i - 1]
    BY <1>3, SubSeqProperties
  <1>5. \A i \in 1..n : 1 + i - 1 = i
    OBVIOUS
  <1> QED
    BY <1>4, <1>5

\* The beginning of a beginning, of a longer sequence, and the whole.
LEMMA Beginnings ==
  ASSUME NEW S, NEW s \in Seq(S), NEW x \in S
  PROVE  /\ SubSeq(s, 1, Len(s)) = s
         /\ \A n \in 0..Len(s) : SubSeq(Append(s, x), 1, n) = SubSeq(s, 1, n)
         /\ \A n \in 0..Len(s) : \A i \in 0..n :
               SubSeq(SubSeq(s, 1, n), 1, i) = SubSeq(s, 1, i)
  <1> DEFINE m == Len(s)
             t == Append(s, x)
             b(n) == SubSeq(s, 1, n)
  <1>1. m \in Nat
    BY LenProperties
  <1>2. \A n \in 0..m : b(n) \in Seq(S) /\ Len(b(n)) = n /\ \A i \in 1..n : b(n)[i] = s[i]
    BY Beginning
  <1>3. t \in Seq(S) /\ Len(t) = m + 1 /\ \A i \in 1..m : t[i] = s[i]
    BY AppendProperties
  <1>4. b(m) = s
    <2>1. m \in 0..m
      BY <1>1
    <2>2. b(m) \in Seq(S) /\ Len(b(m)) = m /\ \A i \in 1..m : b(m)[i] = s[i]
      BY <1>2, <2>1
    <2> HIDE DEF b
    <2> QED
      BY <2>2, SeqEqual
  <1>5. ASSUME NEW n \in 0..m
        PROVE  SubSeq(t, 1, n) = b(n)
    <2> DEFINE d == SubSeq(t, 1, n)
    <2>1. n \in 0..Len(t)
      BY <1>1, <1>3
    <2> HIDE DEF t
    <2>2. d \in Seq(S) /\ Len(d) = n /\ \A i \in 1..n : d[i] = t[i]
      BY <1>3, <2>1, Beginning
    <2>3. \A i \in 1..n : i \in 1..m
      BY <1>1
    <2> HIDE DEF d, b, m
    <2>4. \A i \in 1..n : d[i] = b(n)[i]
      BY <1>2, <1>3, <2>2, <2>3
    <2> QED
      BY <1>2, <2>2, <2>4, SeqEqual
  <1>6. ASSUME NEW n \in 0..m, NEW i \in 0..n
        PROVE  SubSeq(b(n), 1, i) = b(i)
    <2> DEFINE c == b(n)
               d == SubSeq(c, 1, i)
    <2>1. c \in Seq(S) /\ Len(c) = n /\ \A k \in 1..n : c[k] = s[k]
      BY <1>2
    <2>2. i \in 0..m
      BY <1>1
    <2>3. b(i) \in Seq(S) /\ Len(b(i)) = i /\ \A k \in 1..i : b(i)[k] = s[k]
      BY <1>2, <2>2
    <2> HIDE DEF c, b, m
    <2>4. d \in Seq(S) /\ Len(d) = i /\ \A k \in 1..i : d[k] = c[k]
      BY <2>1, Beginning
    <2>5. \A k \in 1..i : k \in 1..n
      OBVIOUS
    <2> HIDE DEF d
    <2>6. \A k \in 1..i : d[k] = b(i)[k]
      BY <2>1, <2>3, <2>4, <2>5
    <2>7. d = b(i)
      BY <2>3, <2>4, <2>6, SeqEqual
    <2> QED
      BY <2>7 DEF c, d
  <1> QED
    BY <1>4, <1>5, <1>6

-----------------------------------------------------------------------------
(* Records.                                                                *)

\* Each loop is a fold the laws are about.
LEMMA TapeFolds ==
  ASSUME NEW b, NEW s
  PROVE  /\ FoldLeft(AddRecords, b, s) = Records!Fold(b, s)
         /\ FoldLeft(AddGap, b, s) = Lost!Fold(b, s)
         /\ FoldLeft(AddDurable, b, s) = Safe!Fold(b, s)
  <1>1. FoldLeft(AddRecords, b, s) = Records!Fold(b, s)
    BY DEF Records!Fold, FoldLeft, MapThenFoldSet, Records!MapThenFoldSet,
           Max, Records!Largest
  <1>2. FoldLeft(AddGap, b, s) = Lost!Fold(b, s)
    BY DEF Lost!Fold, FoldLeft, MapThenFoldSet, Lost!MapThenFoldSet,
           Max, Lost!Largest
  <1>3. FoldLeft(AddDurable, b, s) = Safe!Fold(b, s)
    BY DEF Safe!Fold, FoldLeft, MapThenFoldSet, Safe!MapThenFoldSet,
           Max, Safe!Largest
  <1> QED
    BY <1>1, <1>2, <1>3

\* The counts of a sequence of records are numbers, and none at its beginning.
LEMMA CountsType ==
  ASSUME NEW s \in Seq(Rec)
  PROVE  /\ EventsIn(s) \in Nat /\ SumOfGaps(s) \in Nat
         /\ EventsIn(<<>>) = 0 /\ SumOfGaps(<<>>) = 0
  <1>1. EventsIn(s) \in Nat
    <2> DEFINE E == {i \in 1..Len(s) : s[i].gap = 0}
    <2>1. IsFiniteSet(1..Len(s)) /\ E \in SUBSET (1..Len(s))
      BY FS_Interval
    <2> HIDE DEF E
    <2>2. IsFiniteSet(E)
      BY <2>1, FS_Subset
    <2>3. Cardinality(E) \in Nat
      BY <2>2, FS_CardinalityType
    <2> QED
      BY <2>3 DEF EventsIn, E
  <1>2. SumOfGaps(s) \in Nat
    <2>1. \A k \in Nat, r \in Rec : AddGap(k, r) \in Nat
      BY DEF AddGap, Rec
    <2>2. Lost!Fold(0, s) \in Nat
      BY <2>1, Lost!FoldType
    <2> QED
      BY <2>2, TapeFolds DEF SumOfGaps
  <1>3. EventsIn(<<>>) = 0
    <2>1. {i \in 1..Len(<<>>) : <<>>[i].gap = 0} = {}
      OBVIOUS
    <2> QED
      BY <2>1, FS_EmptySet DEF EventsIn
  <1>4. SumOfGaps(<<>>) = 0
    BY TapeFolds, Lost!FoldEmpty DEF SumOfGaps
  <1> QED
    BY <1>1, <1>2, <1>3, <1>4

\* One record more.
LEMMA CountsAppend ==
  ASSUME NEW s \in Seq(Rec), NEW r \in Rec
  PROVE  /\ EventsIn(Append(s, r)) = EventsIn(s) + (IF r.gap = 0 THEN 1 ELSE 0)
         /\ SumOfGaps(Append(s, r)) = SumOfGaps(s) + r.gap
  <1> DEFINE n == Len(s)
             t == Append(s, r)
             E == {i \in 1..n : s[i].gap = 0}
             F == {i \in 1..Len(t) : t[i].gap = 0}
  <1>1. n \in Nat /\ Len(t) = n + 1 /\ t[n + 1] = r /\ \A i \in 1..n : t[i] = s[i]
    BY AppendProperties, LenProperties
  <1> HIDE DEF t
  <1>2. Cardinality(F) = Cardinality(E) + (IF r.gap = 0 THEN 1 ELSE 0)
    <2>1. IsFiniteSet(E) /\ Cardinality(E) \in Nat
      <3>1. IsFiniteSet(1..n) /\ E \in SUBSET (1..n)
        BY <1>1, FS_Interval
      <3> HIDE DEF E
      <3>2. IsFiniteSet(E)
        BY <3>1, FS_Subset
      <3> QED
        BY <3>2, FS_CardinalityType
    <2>2. CASE r.gap = 0
      <3>1. F = E \cup {n + 1} /\ n + 1 \notin E
        <4>1. \A i : i \in 1..Len(t) <=> i \in 1..n \/ i = n + 1
          BY <1>1
        <4>2. n + 1 \notin 1..n
          BY <1>1
        <4> QED
          BY <1>1, <2>2, <4>1, <4>2
      <3> HIDE DEF E, F
      <3> QED
        BY <2>1, <2>2, <3>1, FS_AddElement
    <2>3. CASE r.gap # 0
      <3>1. F = E
        <4>1. \A i : i \in 1..Len(t) <=> i \in 1..n \/ i = n + 1
          BY <1>1
        <4> QED
          BY <1>1, <2>3, <4>1
      <3> HIDE DEF E, F
      <3> QED
        BY <2>1, <2>3, <3>1
    <2> QED
      BY <2>2, <2>3
  <1>3. SumOfGaps(t) = SumOfGaps(s) + r.gap
    <2> DEFINE V == Nat
               b == 0
    <2>1. b \in V /\ \A k \in V, x \in Rec : AddGap(k, x) \in V
      BY DEF AddGap, Rec
    <2> HIDE DEF V, b
    <2>2. Lost!Fold(b, Append(s, r)) = AddGap(Lost!Fold(b, s), r)
      BY <2>1, Lost!FoldAppend
    <2> QED
      BY <2>2, TapeFolds DEF b, t, SumOfGaps, AddGap
  <1> QED
    BY <1>2, <1>3 DEF EventsIn, t

-----------------------------------------------------------------------------
(* Files.                                                                  *)

\* Reading one file after the others.
LEMMA ReplayedAppend ==
  ASSUME NEW s \in Seq(File), NEW f \in File
  PROVE  /\ Replayed(s) \in Seq(Rec) /\ f.recs \in Seq(Rec)
         /\ Replayed(Append(s, f)) = Replayed(s) \o f.recs
         /\ Replayed(<<>>) = <<>>
  <1> DEFINE V == Seq(Rec)
             b == <<>>
  <1>1. b \in V
    BY EmptySeq
  <1>2. \A x \in V, y \in File : AddRecords(x, y) \in V
    BY ConcatProperties DEF File, FileRecord, AddRecords
  <1> HIDE DEF V, b
  <1>3. Records!Fold(b, s) \in V
    BY <1>1, <1>2, Records!FoldType
  <1>4. Records!Fold(b, Append(s, f)) = AddRecords(Records!Fold(b, s), f)
    BY <1>1, <1>2, Records!FoldAppend
  <1>5. Records!Fold(b, <<>>) = b
    BY Records!FoldEmpty
  <1>6. f.recs \in Seq(Rec)
    BY DEF File, FileRecord
  <1> QED
    BY <1>3, <1>4, <1>5, <1>6, TapeFolds DEF V, b, Replayed, AddRecords

\* What is durable of one file after the others.
LEMMA DurableAppend ==
  ASSUME NEW s \in Seq(File), NEW f \in File
  PROVE  /\ DurableTo(s) \in Progress
         /\ DurableTo(Append(s, f)) = AddDurable(DurableTo(s), f)
         /\ DurableTo(<<>>) = Start
  <1> DEFINE V == Progress
             b == Start
  <1>1. b \in V
    BY DEF Start, Progress
  <1>2. \A x \in V, y \in File : AddDurable(x, y) \in V
    BY DEF File, FileRecord, AddDurable, Progress
  <1> HIDE DEF V
  <1>3. Safe!Fold(b, s) \in V
    BY <1>1, <1>2, Safe!FoldType
  <1>4. Safe!Fold(b, Append(s, f)) = AddDurable(Safe!Fold(b, s), f)
    BY <1>1, <1>2, Safe!FoldAppend
  <1>5. Safe!Fold(b, <<>>) = b
    BY Safe!FoldEmpty
  <1> QED
    BY <1>3, <1>4, <1>5, TapeFolds DEF V, DurableTo

\* Of files that are read the first k hold as much as is durable of them, and
\* no more when all are finished.
LEMMA DurableBounded ==
  ASSUME NEW s \in Seq(File)
  PROVE  /\ DurableTo(s).n <= Len(Replayed(s))
         /\ (\A i \in 1..Len(s) : s[i].done) =>
               DurableTo(s).on /\ DurableTo(s).n = Len(Replayed(s))
  <1> DEFINE Bounded(u) == /\ DurableTo(u).n <= Len(Replayed(u))
                           /\ (\A i \in 1..Len(u) : u[i].done) =>
                                DurableTo(u).on /\ DurableTo(u).n = Len(Replayed(u))
             pre(k) == SubSeq(s, 1, k)
             T == {k \in Nat : k <= Len(s) => Bounded(pre(k))}
  <1>1. Len(s) \in Nat /\ \A k \in 0..Len(s) : pre(k) \in Seq(File) /\ Len(pre(k)) = k
    <2>1. Len(s) \in Nat /\ \A i \in 1..Len(s) : s[i] \in File
      BY LenProperties, ElementOfSeq
    <2> SUFFICES ASSUME NEW k \in 0..Len(s)
                 PROVE  pre(k) \in Seq(File) /\ Len(pre(k)) = k
      BY <2>1
    <2>2. 1 \in Int /\ k \in Int /\ (\A i \in 1..k : s[i] \in File) /\ k - 1 + 1 = k
          /\ (1 <= k \/ k = 0)
      BY <2>1
    <2> QED
      BY <2>2, SubSeqProperties
  <1>2. 0 \in T
    <2>1. pre(0) = <<>>
      BY SubSeqEmpty
    <2>2. DurableTo(<<>>) = Start /\ Replayed(<<>>) = <<>>
      <3>1. <<>> \in Seq(File)
        BY EmptySeq
      <3>2. Safe!Fold(Start, <<>>) = Start /\ Records!Fold(<<>>, <<>>) = <<>>
        BY Safe!FoldEmpty, Records!FoldEmpty
      <3> QED
        BY <3>2, TapeFolds DEF DurableTo, Replayed
    <2>3. Start.n = 0 /\ Start.on = TRUE /\ Len(<<>>) = 0
      BY EmptySeq DEF Start
    <2>4. Bounded(<<>>)
      BY <2>2, <2>3
    <2> HIDE DEF Bounded
    <2> QED
      BY <2>1, <2>4
  <1>3. ASSUME NEW k \in Nat, k \in T
        PROVE  k + 1 \in T
    <2> SUFFICES ASSUME k + 1 <= Len(s)
                 PROVE  Bounded(pre(k + 1))
      OBVIOUS
    <2> DEFINE a == pre(k)
               f == s[k + 1]
               c == Append(a, f)
    <2>1. k \in 0..Len(s) /\ k + 1 \in 1..Len(s) /\ k <= Len(s)
      BY <1>1
    <2>2. a \in Seq(File) /\ Len(a) = k /\ f \in File /\ Bounded(a)
      BY <1>1, <1>3, <2>1, ElementOfSeq
    <2>3. pre(k + 1) = c
      <3>1. SubSeq(s, 1, k + 1) = SubSeq(s, 1, (k + 1) - 1) \o << s[k + 1] >>
        BY <2>1, SubSeqRecursiveSecond
      <3>2. (k + 1) - 1 = k
        OBVIOUS
      <3>3. Append(a, f) = a \o <<f>>
        BY <2>2, AppendIsConcat
      <3> QED
        BY <3>1, <3>2, <3>3
    <2> HIDE DEF Bounded, pre, a, f
    <2>4. /\ Len(c) = k + 1 /\ c[k + 1] = f /\ \A i \in 1..k : c[i] = a[i]
      BY <2>2, AppendProperties
    <2>5. /\ Replayed(a) \in Seq(Rec) /\ f.recs \in Seq(Rec)
          /\ Len(Replayed(c)) = Len(Replayed(a)) + Len(f.recs)
      BY <2>2, ReplayedAppend, ConcatProperties
    <2>6. DurableTo(a) \in Progress /\ DurableTo(c) = AddDurable(DurableTo(a), f)
      BY <2>2, DurableAppend
    <2> DEFINE d == DurableTo(a)
               e == DurableTo(c)
               m == Len(Replayed(a))
               j == Len(f.recs)
    <2>7. /\ m \in Nat /\ j \in Nat /\ d.n \in Nat /\ f.disk \in Nat /\ f.disk <= j
          /\ (f.done => f.disk = j)
      BY <2>2, <2>5, <2>6, LenProperties DEF Progress, File, FileRecord
    <2>8. d.n <= m /\ ((\A i \in 1..Len(a) : a[i].done) => d.on /\ d.n = m)
      BY <2>2 DEF Bounded
    <2>9. /\ e.n = IF d.on THEN d.n + f.disk ELSE d.n
          /\ d.on => e.on = f.done
      <3>1. CASE d.on
        BY <2>6, <3>1 DEF AddDurable
      <3>2. CASE ~d.on
        BY <2>6, <3>2 DEF AddDurable
      <3> QED
        BY <3>1, <3>2
    <2> HIDE DEF d, e, m, j, c
    <2>10. e.n <= m + j
      BY <2>7, <2>8, <2>9
    <2>11. ASSUME \A i \in 1..Len(c) : c[i].done
           PROVE  e.on /\ e.n = m + j
      <3>1. \A i \in 1..Len(a) : a[i].done
        <4>1. \A i \in 1..k : i \in 1..k + 1
          OBVIOUS
        <4> QED
          BY <2>2, <2>4, <2>11, <4>1
      <3>2. f.done
        <4>1. k + 1 \in 1..k + 1
          OBVIOUS
        <4> QED
          BY <2>4, <2>11, <4>1
      <3> QED
        BY <2>7, <2>8, <2>9, <3>1, <3>2
    <2>12. Bounded(c)
      BY <2>5, <2>10, <2>11 DEF Bounded, e, m, j
    <2> QED
      BY <2>3, <2>12
  <1> HIDE DEF T
  <1>4. Len(s) \in T
    <2>1. T \subseteq Nat
      BY DEF T
    <2> QED
      BY <1>1, <1>2, <1>3, <2>1, Safe!NaturalInduction
  <1>5. pre(Len(s)) = s
    BY SubSeqFull
  <1> HIDE DEF pre, Bounded
  <1>6. Bounded(s)
    <2>1. Len(s) <= Len(s)
      BY <1>1
    <2>2. Bounded(pre(Len(s)))
      BY <1>4, <2>1, SMTT(30) DEF T
    <2> QED
      BY <1>5, <2>2
  <1> QED
    BY <1>6 DEF Bounded

-----------------------------------------------------------------------------
(* The last file.                                                          *)

\* A run of files is all but its last, and its last.
LEMMA LastFile ==
  ASSUME NEW s \in Seq(File), Len(s) > 0, NEW f \in File
  PROVE  LET front == SubSeq(s, 1, Len(s) - 1)
             u == [s EXCEPT ![Len(s)] = f]
         IN /\ front \in Seq(File) /\ s[Len(s)] \in File
            /\ s = Append(front, s[Len(s)])
            /\ u = Append(front, f) /\ u \in Seq(File) /\ Len(u) = Len(s) /\ u[Len(s)] = f
            /\ \A i \in 1..Len(s) - 1 : u[i] = s[i]
  <1> DEFINE k == Len(s)
             front == SubSeq(s, 1, k - 1)
             u == [s EXCEPT ![k] = f]
             v == Append(front, f)
             w == Append(front, s[k])
  <1>1. k \in Nat /\ k \in 1..k /\ s[k] \in File
    BY LenProperties, ElementOfSeq
  <1>2. front \in Seq(File) /\ Len(front) = k - 1 /\ \A i \in 1..k - 1 : front[i] = s[i]
    <2>1. \A i \in 1..k : s[i] \in File
      BY ElementOfSeq
    <2>2. k > 0
      OBVIOUS
    <2> HIDE DEF k
    <2>3. 1 \in Int /\ k - 1 \in Int /\ (\A i \in 1..k - 1 : s[i] \in File)
          /\ (k - 1) - 1 + 1 = k - 1 /\ (1 <= k - 1 \/ k - 1 = 0)
      BY <1>1, <2>1, <2>2
    <2>4. /\ front \in Seq(File) /\ Len(front) = k - 1
          /\ \A i \in 1..k - 1 : front[i] = s[1 + i - 1]
      BY <2>3, SubSeqProperties
    <2>5. \A i \in 1..k - 1 : 1 + i - 1 = i
      OBVIOUS
    <2> QED
      BY <2>4, <2>5
  <1>3. u \in Seq(File) /\ Len(u) = k /\ \A i \in 1..k : u[i] = IF i = k THEN f ELSE s[i]
    BY <1>1, ExceptSeq
  <1> HIDE DEF front, u
  <1>4. v \in Seq(File) /\ Len(v) = k /\ v[k] = f /\ \A i \in 1..k - 1 : v[i] = s[i]
    <2>1. /\ v \in Seq(File) /\ Len(v) = (k - 1) + 1 /\ v[(k - 1) + 1] = f
          /\ \A i \in 1..k - 1 : v[i] = front[i]
      BY <1>2, AppendProperties
    <2>2. (k - 1) + 1 = k
      BY <1>1
    <2> QED
      BY <1>2, <2>1, <2>2
  <1>5. w \in Seq(File) /\ Len(w) = k /\ w[k] = s[k] /\ \A i \in 1..k - 1 : w[i] = s[i]
    <2>1. /\ w \in Seq(File) /\ Len(w) = (k - 1) + 1 /\ w[(k - 1) + 1] = s[k]
          /\ \A i \in 1..k - 1 : w[i] = front[i]
      BY <1>1, <1>2, AppendProperties
    <2>2. (k - 1) + 1 = k
      BY <1>1
    <2> QED
      BY <1>2, <2>1, <2>2
  <1>6. \A i \in 1..k : i = k \/ i \in 1..k - 1
    BY <1>1
  <1>7. \A i \in 1..k - 1 : i \in 1..k /\ i # k
    BY <1>1
  <1> HIDE DEF v, w
  <1>8. \A i \in 1..k : u[i] = v[i]
    BY <1>3, <1>4, <1>6, <1>7
  <1>9. \A i \in 1..k : s[i] = w[i]
    BY <1>5, <1>6
  <1>10. u = v /\ s = w
    BY <1>3, <1>4, <1>5, <1>8, <1>9, SeqEqual
  <1> QED
    BY <1>1, <1>2, <1>3, <1>7, <1>10 DEF front, u, v, w

\* Another file in the place of the last, with the same records and more.
LEMMA ReplaceLast ==
  ASSUME NEW s \in Seq(File), Len(s) > 0, NEW f \in File, s[Len(s)].disk <= f.disk
  PROVE  LET u == [s EXCEPT ![Len(s)] = f]
         IN /\ f.recs = s[Len(s)].recs => Replayed(u) = Replayed(s)
            /\ \A r \in Rec : f.recs = Append(s[Len(s)].recs, r) =>
                  Replayed(u) = Append(Replayed(s), r)
            /\ DurableTo(s).n <= DurableTo(u).n
  <1> DEFINE k == Len(s)
             front == SubSeq(s, 1, k - 1)
             u == [s EXCEPT ![k] = f]
             l == s[k]
  <1>1. /\ front \in Seq(File) /\ l \in File
        /\ s = Append(front, l) /\ u = Append(front, f)
    BY LastFile
  <1> HIDE DEF front, u, l, k
  <1>2. /\ Replayed(front) \in Seq(Rec) /\ l.recs \in Seq(Rec) /\ f.recs \in Seq(Rec)
        /\ Replayed(s) = Replayed(front) \o l.recs /\ Replayed(u) = Replayed(front) \o f.recs
    BY <1>1, ReplayedAppend
  <1>3. ASSUME NEW r \in Rec, f.recs = Append(l.recs, r)
        PROVE  Replayed(u) = Append(Replayed(s), r)
    <2>1. Replayed(front) \o Append(l.recs, r) = Append(Replayed(front) \o l.recs, r)
      BY <1>2, AppendAfter, SMTT(30)
    <2> QED
      BY <1>2, <1>3, <2>1
  <1>4. DurableTo(s).n <= DurableTo(u).n
    <2> DEFINE d == DurableTo(front)
    <2>1. d \in Progress /\ DurableTo(s) = AddDurable(d, l) /\ DurableTo(u) = AddDurable(d, f)
      BY <1>1, DurableAppend
    <2>2. d.n \in Nat /\ l.disk \in Nat /\ f.disk \in Nat /\ l.disk <= f.disk
      BY <1>1, <2>1 DEF Progress, File, FileRecord, l, k
    <2> HIDE DEF d
    <2>3. CASE d.on
      BY <2>1, <2>2, <2>3 DEF AddDurable
    <2>4. CASE ~d.on
      BY <2>1, <2>2, <2>4 DEF AddDurable
    <2> QED
      BY <2>3, <2>4
  <1>5. f.recs = l.recs => Replayed(u) = Replayed(s)
    BY <1>2
  <1> QED
    BY <1>3, <1>4, <1>5 DEF k, l, u

\* A file more, without a record yet.
LEMMA AddFile ==
  ASSUME NEW s \in Seq(File), NEW f \in File, f.recs = <<>>, f.disk = 0
  PROVE  /\ Replayed(Append(s, f)) = Replayed(s)
         /\ DurableTo(Append(s, f)).n = DurableTo(s).n
  <1>1. Replayed(s) \in Seq(Rec) /\ Replayed(Append(s, f)) = Replayed(s) \o <<>>
    BY ReplayedAppend
  <1>2. Replayed(s) \o <<>> = Replayed(s)
    BY <1>1, ConcatEmptySeq
  <1> DEFINE d == DurableTo(s)
  <1>3. d \in Progress /\ DurableTo(Append(s, f)) = AddDurable(d, f)
    BY DurableAppend
  <1>4. d.n \in Nat
    BY <1>3 DEF Progress
  <1> HIDE DEF d
  <1>5. AddDurable(d, f).n = d.n
    <2>1. CASE d.on
      BY <1>4, <2>1 DEF AddDurable
    <2>2. CASE ~d.on
      BY <2>2 DEF AddDurable
    <2> QED
      BY <2>1, <2>2
  <1> QED
    BY <1>1, <1>2, <1>3, <1>5 DEF d

-----------------------------------------------------------------------------
(* Tapes.                                                                  *)

Tapes == [files : Seq(File), open : BOOLEAN, err : BOOLEAN, ok : BOOLEAN, evs : Nat, gaps : Nat]

LastOf(t) == t.files[Len(t.files)]

\* The counts are those of the records; until an error, all files but an open
\* last one are finished and every file has its header.
Sound(t) ==
  /\ t \in Tapes /\ Len(t.files) > 0
  /\ t.evs = EventsIn(Replayed(t.files)) /\ t.gaps = SumOfGaps(Replayed(t.files))
  /\ t.open => ~LastOf(t).done
  /\ ~t.err => /\ \A i \in 1..Len(t.files) - 1 : t.files[i].done
               /\ LastOf(t).head # "none"
               /\ t.open \/ LastOf(t).done

\* The same records, and counts.
SameRecords(t, u) ==
  Replayed(u.files) = Replayed(t.files) /\ u.evs = t.evs /\ u.gaps = t.gaps

\* One record more, counted.
OneRecordMore(t, u, r) ==
  /\ Replayed(u.files) = Append(Replayed(t.files), r)
  /\ u.evs = t.evs + (IF r.gap = 0 THEN 1 ELSE 0) /\ u.gaps = t.gaps + r.gap

\* Nothing durable is taken back, and no file, and an error sticks.
Grows(t, u) ==
  /\ DurableTo(t.files).n <= DurableTo(u.files).n
  /\ Len(t.files) <= Len(u.files)
  /\ t.err => u.err

\* The file a run begins with.
LEMMA NewFileIsFile == NewFile \in File
  <1>1. Len(<<>>) = 0 /\ <<>> \in Seq(Rec)
    OBVIOUS
  <1> QED
    BY <1>1 DEF NewFile, File, FileRecord

\* The file of a rotation without its header.
LEMMA EmptyFileIsFile == EmptyFile \in File /\ EmptyFile.recs = <<>> /\ EmptyFile.disk = 0
  <1>1. NewFile \in File /\ Len(<<>>) = 0
    BY NewFileIsFile
  <1>2. EmptyFile \in FileRecord
    BY <1>1 DEF EmptyFile, File, FileRecord
  <1>3. EmptyFile.recs = <<>> /\ EmptyFile.disk = 0 /\ EmptyFile.done = FALSE
    BY DEF NewFile, EmptyFile
  <1> QED
    BY <1>1, <1>2, <1>3 DEF File

\* The tape a run begins with.
LEMMA NewTapeSound == Sound(NewTape)
  <1> DEFINE files == <<NewFile>>
  <1>1. files \in Seq(File) /\ Len(files) = 1 /\ files[1] = NewFile
    BY NewFileIsFile
  <1>2. /\ NewTape.files = files /\ NewTape.open = TRUE /\ NewTape.err = FALSE
        /\ NewTape.ok = TRUE /\ NewTape.evs = 0 /\ NewTape.gaps = 0
    BY DEF NewTape
  <1>3. NewTape \in Tapes
    BY <1>1 DEF NewTape, Tapes
  <1>4. Replayed(files) = <<>>
    <2> DEFINE none == <<>>
    <2>1. none \in Seq(File) /\ Append(none, NewFile) = files
      OBVIOUS
    <2> HIDE DEF none, files
    <2>2. Replayed(Append(none, NewFile)) = Replayed(none) \o NewFile.recs
      BY <2>1, NewFileIsFile, ReplayedAppend
    <2>3. Replayed(none) = <<>>
      BY <2>1, NewFileIsFile, ReplayedAppend DEF none
    <2>4. NewFile.recs = <<>>
      BY DEF NewFile
    <2>5. <<>> \o <<>> = <<>>
      OBVIOUS
    <2> QED
      BY <2>1, <2>2, <2>3, <2>4, <2>5
  <1>5. EventsIn(<<>>) = 0 /\ SumOfGaps(<<>>) = 0
    <2>1. <<>> \in Seq(Rec)
      OBVIOUS
    <2> QED
      BY <2>1, CountsType
  <1>6. NewFile.done = FALSE /\ NewFile.head = "held"
    BY DEF NewFile
  <1> HIDE DEF files
  <1>7. LastOf(NewTape) = NewFile /\ Len(NewTape.files) = 1
    BY <1>1, <1>2 DEF LastOf
  <1> QED
    BY <1>2, <1>3, <1>4, <1>5, <1>6, <1>7 DEF Sound

\* An error may stick where no file changes.
LEMMA GrowsNot ==
  ASSUME NEW t, NEW u, t.files \in Seq(File), u.files = t.files, t.err => u.err
  PROVE  Grows(t, u)
  <1>1. NewFile \in File
    BY NewFileIsFile
  <1>2. DurableTo(t.files) \in Progress /\ Len(t.files) \in Nat
    BY <1>1, DurableAppend, LenProperties
  <1> QED
    BY <1>2 DEF Progress, Grows

\* What grows and grows again has grown.
LEMMA GrowsOn ==
  ASSUME NEW t, NEW c, NEW u, Sound(t), Sound(c), Sound(u), Grows(t, c), Grows(c, u)
  PROVE  Grows(t, u)
  <1>1. NewFile \in File
    BY NewFileIsFile
  <1>2. t.files \in Seq(File) /\ c.files \in Seq(File) /\ u.files \in Seq(File)
    BY DEF Sound, Tapes
  <1>3. /\ DurableTo(t.files) \in Progress /\ Len(t.files) \in Nat
        /\ DurableTo(c.files) \in Progress /\ Len(c.files) \in Nat
        /\ DurableTo(u.files) \in Progress /\ Len(u.files) \in Nat
    BY <1>1, <1>2, DurableAppend, LenProperties
  <1> QED
    BY <1>3 DEF Progress, Grows

\* A finished file holds what it held, all of it on disk.
LEMMA FinishedType ==
  ASSUME NEW f \in File
  PROVE  /\ Finished(f) \in File /\ Finished(f).recs = f.recs /\ Finished(f).done
         /\ Finished(f).head = "disk" /\ f.disk <= Finished(f).disk
  <1>1. /\ f \in FileRecord /\ f.disk <= Len(f.recs) /\ f.recs \in Seq(Rec)
        /\ Len(f.recs) \in Nat
    BY LenProperties DEF File, FileRecord
  <1>2. /\ Finished(f).recs = f.recs /\ Finished(f).done = TRUE
        /\ Finished(f).head = "disk" /\ Finished(f).disk = Len(f.recs)
    BY <1>1 DEF FileRecord, Finished
  <1>3. Finished(f) \in FileRecord
    BY <1>1 DEF FileRecord, Finished
  <1> QED
    BY <1>1, <1>2, <1>3 DEF File

\* Closing a file keeps what is in it; it ends finished unless there was an error.
LEMMA CloseDoes ==
  ASSUME NEW t, Sound(t), NEW u \in CloseCurrent(t)
  PROVE  /\ Sound(u) /\ SameRecords(t, u) /\ Grows(t, u)
         /\ u.ok = t.ok /\ ~u.open
  <1> DEFINE k == Len(t.files)
             l == t.files[k]
             files2 == [t.files EXCEPT ![k] = Finished(l)]
             end == [t EXCEPT !.open = FALSE, !.files[k] = Finished(@)]
             a == [end EXCEPT !.err = TRUE]
             b == [t EXCEPT !.open = FALSE, !.err = TRUE]
  <1>1. /\ t \in Tapes /\ k > 0 /\ t.files \in Seq(File) /\ k \in Nat /\ l \in File
        /\ DurableTo(t.files).n \in Nat
    <2>1. t \in Tapes /\ k > 0 /\ t.files \in Seq(File)
      BY DEF Sound, Tapes
    <2>2. k \in Nat /\ k \in 1..k /\ DurableTo(t.files) \in Progress
      BY <2>1, FinishedType, LenProperties, DurableAppend
    <2> QED
      BY <2>1, <2>2, ElementOfSeq DEF Progress
  <1>2. CASE ~t.open
    <2>1. u = t
      BY <1>2 DEF CloseCurrent
    <2> QED
      BY <1>1, <1>2, <2>1 DEF SameRecords, Grows
  <1>3. CASE t.open
    <2>1. u = end \/ u = a \/ u = b
      BY <1>3 DEF CloseCurrent
    <2>2. /\ Finished(l) \in File /\ Finished(l).recs = l.recs /\ Finished(l).done
          /\ Finished(l).head = "disk" /\ l.disk <= Finished(l).disk
      BY <1>1, FinishedType
    <2>3. /\ files2 \in Seq(File) /\ Len(files2) = k /\ files2[k] = Finished(l)
          /\ \A i \in 1..k - 1 : files2[i] = t.files[i]
      BY <1>1, <2>2, LastFile
    <2>4. Replayed(files2) = Replayed(t.files) /\ DurableTo(t.files).n <= DurableTo(files2).n
      BY <1>1, <2>2, ReplaceLast
    <2>5. /\ end.files = files2 /\ end.open = FALSE /\ end.err = t.err /\ end.ok = t.ok
          /\ end.evs = t.evs /\ end.gaps = t.gaps
      BY <1>1 DEF Tapes
    <2>6. end \in Tapes
      <3>1. end = [[t EXCEPT !.open = FALSE] EXCEPT !.files = files2]
        BY <1>1 DEF Tapes
      <3> HIDE DEF files2, end
      <3> QED
        BY <1>1, <2>3, <3>1 DEF Tapes
    <2> HIDE DEF end, files2
    <2>7. /\ a.files = files2 /\ a.open = FALSE /\ a.err = TRUE /\ a.ok = t.ok
          /\ a.evs = t.evs /\ a.gaps = t.gaps /\ a \in Tapes
      BY <2>5, <2>6 DEF Tapes
    <2>8. /\ b.files = t.files /\ b.open = FALSE /\ b.err = TRUE /\ b.ok = t.ok
          /\ b.evs = t.evs /\ b.gaps = t.gaps /\ b \in Tapes
      BY <1>1 DEF Tapes
    <2> HIDE DEF a, b
    <2>9. /\ t.evs = EventsIn(Replayed(t.files)) /\ t.gaps = SumOfGaps(Replayed(t.files))
          /\ ~t.err => \A i \in 1..k - 1 : t.files[i].done
      BY DEF Sound
    <2>10. CASE u = end
      <3>1. Sound(u)
        BY <1>1, <2>2, <2>3, <2>4, <2>5, <2>6, <2>9, <2>10 DEF Sound, LastOf
      <3> QED
        BY <1>1, <2>3, <2>4, <2>5, <2>10, <3>1 DEF SameRecords, Grows
    <2>11. CASE u = a
      <3>1. Sound(u)
        BY <1>1, <2>2, <2>3, <2>4, <2>7, <2>9, <2>11 DEF Sound, LastOf
      <3> QED
        BY <1>1, <2>3, <2>4, <2>7, <2>11, <3>1 DEF SameRecords, Grows
    <2>12. CASE u = b
      <3>1. Sound(u)
        BY <1>1, <2>8, <2>9, <2>12 DEF Sound, LastOf
      <3> QED
        BY <1>1, <2>8, <2>12, <3>1 DEF SameRecords, Grows
    <2> QED
      BY <2>1, <2>10, <2>11, <2>12
  <1> QED
    BY <1>2, <1>3

\* A file opened after a closed one, or the error that sticks instead.
LEMMA OpenDoes ==
  ASSUME NEW c, Sound(c), ~c.open, c.ok, NEW u \in OpenFile(c),
         NEW w, w = [u EXCEPT !.err = @ \/ ~u.ok]
  PROVE  /\ Sound(w) /\ SameRecords(c, w) /\ Grows(c, w)
         /\ IF w.ok THEN w.open ELSE w.err
  <1> DEFINE k == Len(c.files)
             a == [c EXCEPT !.ok = FALSE]
             b == [c EXCEPT !.ok = FALSE, !.files = Append(@, EmptyFile)]
             e == [c EXCEPT !.open = TRUE, !.files = Append(@, NewFile)]
             filesB == Append(c.files, EmptyFile)
             filesE == Append(c.files, NewFile)
  <1>1. /\ c \in Tapes /\ k > 0 /\ c.files \in Seq(File) /\ k \in Nat
        /\ DurableTo(c.files).n \in Nat
    <2>1. c \in Tapes /\ k > 0 /\ c.files \in Seq(File)
      BY DEF Sound, Tapes
    <2>2. k \in Nat /\ NewFile \in File
      <3>1. Len(<<>>) = 0 /\ <<>> \in Seq(Rec)
        OBVIOUS
      <3> QED
        BY <2>1, <3>1, LenProperties DEF NewFile, File, FileRecord
    <2>3. DurableTo(c.files) \in Progress
      BY <2>1, <2>2, DurableAppend
    <2> QED
      BY <2>1, <2>2, <2>3 DEF Progress
  <1>2. u = a \/ u = b \/ u = e
    BY DEF OpenFile
  <1>3. /\ NewFile \in File /\ NewFile.recs = <<>> /\ NewFile.disk = 0
        /\ NewFile.head = "held" /\ NewFile.done = FALSE
        /\ EmptyFile \in File /\ EmptyFile.recs = <<>> /\ EmptyFile.disk = 0
    BY NewFileIsFile, EmptyFileIsFile DEF NewFile
  <1>4. /\ Replayed(filesB) = Replayed(c.files) /\ Replayed(filesE) = Replayed(c.files)
        /\ DurableTo(filesB).n = DurableTo(c.files).n
        /\ DurableTo(filesE).n = DurableTo(c.files).n
    BY <1>1, <1>3, AddFile
  <1>5. /\ filesB \in Seq(File) /\ Len(filesB) = k + 1
        /\ filesE \in Seq(File) /\ Len(filesE) = k + 1 /\ filesE[k + 1] = NewFile
        /\ \A i \in 1..k : filesE[i] = c.files[i]
    BY <1>1, <1>3, AppendProperties
  <1>6. /\ c.evs = EventsIn(Replayed(c.files)) /\ c.gaps = SumOfGaps(Replayed(c.files))
        /\ ~c.err => \A i \in 1..k : c.files[i].done
    <2>1. \A i \in 1..k : i \in 1..k - 1 \/ i = k
      BY <1>1
    <2> QED
      BY <2>1 DEF Sound, LastOf
  <1>7. CASE u = a
    <2>1. /\ w.files = c.files /\ w.open = FALSE /\ w.err = TRUE /\ w.ok = FALSE
          /\ w.evs = c.evs /\ w.gaps = c.gaps /\ w \in Tapes
      BY <1>1, <1>7 DEF Tapes
    <2>2. Sound(w)
      BY <1>1, <1>6, <2>1 DEF Sound
    <2> QED
      BY <1>1, <2>1, <2>2 DEF SameRecords, Grows
  <1>8. CASE u = b
    <2>1. /\ u.files = filesB /\ u.open = FALSE /\ u.ok = FALSE
          /\ u.evs = c.evs /\ u.gaps = c.gaps /\ u \in Tapes
      BY <1>1, <1>5, <1>8 DEF Tapes
    <2> HIDE DEF filesB, b
    <2>2. /\ w.files = filesB /\ w.open = FALSE /\ w.err = TRUE /\ w.ok = FALSE
          /\ w.evs = c.evs /\ w.gaps = c.gaps /\ w \in Tapes
      BY <2>1 DEF Tapes
    <2>3. Sound(w)
      BY <1>1, <1>4, <1>5, <1>6, <2>2 DEF Sound
    <2> QED
      BY <1>1, <1>4, <1>5, <2>2, <2>3 DEF SameRecords, Grows
  <1>9. CASE u = e
    <2>1. /\ u.files = filesE /\ u.open = TRUE /\ u.ok = TRUE /\ u.err = c.err
          /\ u.evs = c.evs /\ u.gaps = c.gaps /\ u \in Tapes
      BY <1>1, <1>5, <1>9 DEF Tapes
    <2> HIDE DEF filesE, e
    <2>2. /\ w.files = filesE /\ w.open = TRUE /\ w.err = c.err /\ w.ok = TRUE
          /\ w.evs = c.evs /\ w.gaps = c.gaps /\ w \in Tapes
      BY <2>1 DEF Tapes
    <2>3. LastOf(w) = NewFile /\ Len(w.files) - 1 = k /\ Len(w.files) > 0
      BY <1>1, <1>5, <2>2 DEF LastOf
    <2>4. ~w.err => \A i \in 1..Len(w.files) - 1 : w.files[i].done
      BY <1>5, <1>6, <2>2, <2>3
    <2>5. Sound(w)
      BY <1>3, <1>4, <1>6, <2>2, <2>3, <2>4 DEF Sound
    <2> QED
      BY <1>1, <1>4, <1>5, <2>2, <2>5 DEF SameRecords, Grows
  <1> QED
    BY <1>2, <1>7, <1>8, <1>9

\* A rotation changes no record, and ends with an open file or a sticky error.
LEMMA RotateDoes ==
  ASSUME NEW t, Sound(t), t.ok, NEW w \in Rotate(t)
  PROVE  /\ Sound(w) /\ SameRecords(t, w) /\ Grows(t, w)
         /\ IF w.ok THEN w.open ELSE w.err
  <1>0. PICK c \in CloseCurrent(t) :
          \E u \in OpenFile(c) : w = [u EXCEPT !.err = @ \/ ~u.ok]
    BY DEF Rotate
  <1>1. PICK u \in OpenFile(c) : w = [u EXCEPT !.err = @ \/ ~u.ok]
    BY <1>0
  <1>2. Sound(c) /\ SameRecords(t, c) /\ Grows(t, c) /\ c.ok /\ ~c.open
    BY <1>1, CloseDoes
  <1>3. /\ Sound(w) /\ SameRecords(c, w) /\ Grows(c, w)
        /\ IF w.ok THEN w.open ELSE w.err
    BY <1>1, <1>2, OpenDoes
  <1> QED
    BY <1>2, <1>3, GrowsOn DEF SameRecords

\* Encoding adds one record to the open file, or sticks at an error.
LEMMA EncodeDoes ==
  ASSUME NEW t, Sound(t), t.ok, t.open, NEW r \in Rec, NEW u \in Encode(t, r)
  PROVE  /\ Sound(u) /\ Grows(t, u)
         /\ IF u.ok THEN u.open /\ OneRecordMore(t, u, r) ELSE u.err /\ SameRecords(t, u)
  <1> DEFINE k == Len(t.files)
             l == t.files[k]
             f == [l EXCEPT !.recs = Append(@, r)]
             files2 == [t.files EXCEPT ![k] = f]
             n == t.evs + (IF r.gap = 0 THEN 1 ELSE 0)
             a == [t EXCEPT !.ok = FALSE, !.err = TRUE]
             b == [t EXCEPT !.files[k].recs = Append(@, r),
                            !.evs = @ + (IF r.gap = 0 THEN 1 ELSE 0),
                            !.gaps = @ + r.gap]
  <1>1. /\ t \in Tapes /\ k > 0 /\ t.files \in Seq(File) /\ k \in Nat /\ l \in File
        /\ DurableTo(t.files).n \in Nat /\ t.evs \in Nat /\ t.gaps \in Nat /\ r.gap \in Nat
    <2>1. t \in Tapes /\ k > 0 /\ t.files \in Seq(File)
      BY DEF Sound, Tapes
    <2>2. k \in Nat /\ k \in 1..k /\ t.evs \in Nat /\ t.gaps \in Nat /\ r.gap \in Nat
      BY <2>1, LenProperties DEF Tapes, Rec
    <2>3. l \in File
      BY <2>1, <2>2, ElementOfSeq
    <2>4. DurableTo(t.files) \in Progress
      BY <2>1, <2>3, DurableAppend
    <2> QED
      BY <2>1, <2>2, <2>3, <2>4 DEF Progress
  <1>2. u = a \/ u = b
    BY DEF Encode
  <1>3. /\ t.evs = EventsIn(Replayed(t.files)) /\ t.gaps = SumOfGaps(Replayed(t.files))
        /\ ~l.done
        /\ ~t.err => (\A i \in 1..k - 1 : t.files[i].done) /\ l.head # "none"
    BY DEF Sound, LastOf
  <1>4. CASE u = a
    <2>1. /\ u.files = t.files /\ u.open = TRUE /\ u.err = TRUE /\ u.ok = FALSE
          /\ u.evs = t.evs /\ u.gaps = t.gaps /\ u \in Tapes
      BY <1>1, <1>4 DEF Tapes
    <2>2. Sound(u)
      BY <1>1, <1>3, <2>1 DEF Sound, LastOf
    <2> QED
      BY <1>1, <2>1, <2>2 DEF SameRecords, Grows
  <1>5. CASE u = b
    <2>1. /\ f.recs = Append(l.recs, r) /\ f.disk = l.disk /\ f.done = FALSE
          /\ f.head = l.head /\ f \in File
      <3>1. /\ l \in FileRecord /\ l.recs \in Seq(Rec) /\ l.disk \in Nat
            /\ l.disk <= Len(l.recs) /\ l.head \in {"none", "held", "disk"}
        BY <1>1 DEF File, FileRecord
      <3>2. /\ Append(l.recs, r) \in Seq(Rec) /\ Len(Append(l.recs, r)) = Len(l.recs) + 1
            /\ Len(l.recs) \in Nat
        BY <3>1, AppendProperties, LenProperties
      <3>3. /\ f.recs = Append(l.recs, r) /\ f.disk = l.disk /\ f.done = l.done
            /\ f.head = l.head /\ f \in FileRecord
        BY <3>1, <3>2 DEF FileRecord
      <3> HIDE DEF f
      <3>4. f.done = FALSE
        BY <1>3, <3>3 DEF FileRecord
      <3> QED
        BY <3>1, <3>2, <3>3, <3>4 DEF File
    <2>2. b = [[[t EXCEPT !.files = files2] EXCEPT !.evs = n] EXCEPT !.gaps = @ + r.gap]
      BY <1>1 DEF Tapes
    <2> HIDE DEF f
    <2>3. /\ files2 \in Seq(File) /\ Len(files2) = k /\ files2[k] = f
          /\ \A i \in 1..k - 1 : files2[i] = t.files[i]
      BY <1>1, <2>1, LastFile
    <2>4. l.disk <= f.disk
      BY <1>1, <2>1 DEF File, FileRecord
    <2>5. /\ Replayed(files2) = Append(Replayed(t.files), r)
          /\ DurableTo(t.files).n <= DurableTo(files2).n
      BY <1>1, <2>1, <2>4, ReplaceLast
    <2> HIDE DEF files2, n, b
    <2>6. n \in Nat /\ n = t.evs + (IF r.gap = 0 THEN 1 ELSE 0)
      BY <1>1 DEF n
    <2>7. /\ u.files = files2 /\ u.open = TRUE /\ u.err = t.err /\ u.ok = TRUE
          /\ u.evs = n /\ u.gaps = t.gaps + r.gap
      BY <1>1, <1>5, <2>2 DEF Tapes
    <2>8. u \in Tapes
      <3> DEFINE t1 == [t EXCEPT !.files = files2]
                 t2 == [t1 EXCEPT !.evs = n]
      <3>1. t1 \in Tapes
        BY <1>1, <2>3 DEF Tapes
      <3> HIDE DEF t1
      <3>2. t2 \in Tapes /\ t2.gaps \in Nat
        BY <2>6, <3>1 DEF Tapes
      <3>3. b = [t2 EXCEPT !.gaps = @ + r.gap]
        BY <2>2 DEF t1
      <3> HIDE DEF t2
      <3>4. t2.gaps + r.gap \in Nat
        BY <1>1, <3>2
      <3> QED
        BY <1>5, <3>2, <3>3, <3>4 DEF Tapes
    <2>9. /\ n = EventsIn(Replayed(files2))
          /\ t.gaps + r.gap = SumOfGaps(Replayed(files2))
      <3>1. Replayed(t.files) \in Seq(Rec)
        BY <1>1, ReplayedAppend
      <3> QED
        BY <1>3, <2>5, <2>6, <3>1, CountsAppend
    <2>10. Sound(u)
      <3>1. ~LastOf(u).done /\ LastOf(u).head = l.head /\ Len(u.files) = k
        BY <2>1, <2>3, <2>7 DEF LastOf
      <3> QED
        BY <1>1, <1>3, <2>3, <2>7, <2>8, <2>9, <3>1 DEF Sound
    <2> QED
      BY <1>1, <2>3, <2>5, <2>6, <2>7, <2>10 DEF OneRecordMore, Grows
  <1> QED
    BY <1>2, <1>4, <1>5

\* A record is added, after a rotation perhaps, or the error that kept it out sticks.
LEMMA EncodeRecordDoes ==
  ASSUME NEW t, Sound(t), t.ok, t.err \/ t.open, NEW r \in Rec, NEW u \in EncodeRecord(t, r)
  PROVE  /\ Sound(u) /\ Grows(t, u) /\ (t.err => ~u.ok)
         /\ IF u.ok THEN u.open /\ OneRecordMore(t, u, r) ELSE u.err /\ SameRecords(t, u)
  <1>1. CASE t.err
    <2>1. u = [t EXCEPT !.ok = FALSE] /\ t \in Tapes /\ t.files \in Seq(File)
      BY <1>1 DEF EncodeRecord, Sound, Tapes
    <2>2. /\ u.files = t.files /\ u.open = t.open /\ u.err = t.err /\ u.ok = FALSE
          /\ u.evs = t.evs /\ u.gaps = t.gaps /\ u \in Tapes
      BY <2>1 DEF Tapes
    <2>3. Sound(u)
      BY <1>1, <2>2 DEF Sound, LastOf
    <2>4. Grows(t, u)
      BY <2>1, <2>2, GrowsNot
    <2> QED
      BY <1>1, <2>2, <2>3, <2>4 DEF SameRecords
  <1>2. CASE ~t.err
    <2>1. PICK v : /\ v = t \/ v \in Rotate(t)
                   /\ u \in (IF v.ok THEN Encode(v, r) ELSE {v})
      BY <1>2 DEF EncodeRecord
    <2>2. /\ Sound(v) /\ SameRecords(t, v) /\ Grows(t, v)
          /\ IF v.ok THEN v.open ELSE v.err
      <3>1. CASE v = t
        BY <1>2, <3>1, GrowsNot DEF SameRecords, Sound, Tapes
      <3>2. CASE v \in Rotate(t)
        BY <3>2, RotateDoes
      <3> QED
        BY <2>1, <3>1, <3>2
    <2>3. CASE ~v.ok
      BY <1>2, <2>1, <2>2, <2>3
    <2>4. CASE v.ok
      <3>1. /\ Sound(u) /\ Grows(v, u)
            /\ IF u.ok THEN u.open /\ OneRecordMore(v, u, r) ELSE u.err /\ SameRecords(v, u)
        BY <2>1, <2>2, <2>4, EncodeDoes
      <3>2. Grows(t, u)
        BY <2>2, <3>1, GrowsOn
      <3>3. IF u.ok THEN OneRecordMore(t, u, r) ELSE SameRecords(t, u)
        BY <2>2, <3>1 DEF SameRecords, OneRecordMore
      <3> QED
        BY <1>2, <3>1, <3>2, <3>3
    <2> QED
      BY <2>3, <2>4
  <1> QED
    BY <1>1, <1>2
-----------------------------------------------------------------------------
(* The drain goroutine's calls.                                            *)

\* The records r with the drops announced, and then the event i as well.
Told(r, dropped) == IF dropped = 0 THEN r ELSE Append(r, Gap(dropped))
ToldAnd(r, dropped, i) == Append(Told(r, dropped), Ev(i))

\* Gaps and events are records.
LEMMA RecordTypes ==
  ASSUME NEW n \in Nat
  PROVE  /\ Gap(n) \in Rec /\ Gap(n).gap = n
         /\ Ev(n) \in Rec /\ Ev(n).gap = 0 /\ Ev(n).id = n
  BY DEF Gap, Ev, Rec

\* The result of the last call is cleared before the next.
LEMMA FreshDoes ==
  ASSUME NEW t, Sound(t), NEW u, u = [t EXCEPT !.ok = TRUE]
  PROVE  /\ Sound(u) /\ SameRecords(t, u) /\ Grows(t, u) /\ u.ok
         /\ u.err = t.err /\ u.open = t.open
  <1>1. t \in Tapes /\ t.files \in Seq(File)
    BY DEF Sound, Tapes
  <1>2. /\ u.files = t.files /\ u.open = t.open /\ u.err = t.err /\ u.ok = TRUE
        /\ u.evs = t.evs /\ u.gaps = t.gaps /\ u \in Tapes
    BY <1>1 DEF Tapes
  <1>3. Sound(u)
    BY <1>2 DEF Sound, LastOf
  <1>4. Grows(t, u)
    BY <1>1, <1>2, GrowsNot
  <1> QED
    BY <1>2, <1>3, <1>4 DEF SameRecords

\* writeEvent announces the drops and writes the event, or sticks on the way.
LEMMA WriteEventDoes ==
  ASSUME NEW t, Sound(t), t.err \/ t.open, NEW dropped \in Nat, NEW i \in Nat,
         NEW u \in WriteEvent(t, dropped, i)
  PROVE  LET r == Replayed(t.files)
             w == Replayed(u.files)
         IN /\ Sound(u) /\ Grows(t, u) /\ (u.err \/ u.open)
            /\ t.err => SameRecords(t, u)
            /\ ~u.err => /\ w = ToldAnd(r, dropped, i)
                         /\ u.evs = t.evs + 1 /\ u.gaps = t.gaps + dropped
            /\ w \in {r, Told(r, dropped), ToldAnd(r, dropped, i)}
  <1> DEFINE fresh == [t EXCEPT !.ok = TRUE]
  <1>1. /\ Sound(fresh) /\ SameRecords(t, fresh) /\ Grows(t, fresh) /\ fresh.ok
        /\ fresh.err = t.err /\ fresh.open = t.open
    BY FreshDoes
  <1>2. PICK v \in (IF dropped = 0 THEN {fresh} ELSE EncodeRecord(fresh, Gap(dropped))) :
          u \in (IF v.ok THEN EncodeRecord(v, Ev(i)) ELSE {v})
    BY DEF WriteEvent
  <1> HIDE DEF fresh
  <1>3. t.evs \in Nat /\ t.gaps \in Nat
    BY DEF Sound, Tapes
  <1>4. /\ Gap(dropped) \in Rec /\ Gap(dropped).gap = dropped
        /\ Ev(i) \in Rec /\ Ev(i).gap = 0
    BY RecordTypes
  <1>5. /\ Sound(v) /\ Grows(t, v) /\ (v.err \/ v.open)
        /\ (t.err => SameRecords(t, v)) /\ (t.err => v.err)
        /\ IF v.ok THEN /\ Replayed(v.files) = Told(Replayed(t.files), dropped)
                        /\ v.evs = t.evs /\ v.gaps = t.gaps + dropped
                   ELSE v.err /\ SameRecords(t, v)
    <2>1. CASE dropped = 0
      <3>1. v = fresh
        BY <1>2, <2>1
      <3> QED
        BY <1>1, <1>3, <2>1, <3>1 DEF SameRecords, Told, Grows
    <2>2. CASE dropped # 0
      <3>1. v \in EncodeRecord(fresh, Gap(dropped))
        BY <1>2, <2>2
      <3>2. /\ Sound(v) /\ Grows(fresh, v) /\ (fresh.err => ~v.ok)
            /\ IF v.ok THEN v.open /\ OneRecordMore(fresh, v, Gap(dropped))
                       ELSE v.err /\ SameRecords(fresh, v)
        BY <1>1, <1>4, <3>1, EncodeRecordDoes
      <3>3. Grows(t, v)
        BY <1>1, <3>2, GrowsOn
      <3>4. CASE v.ok
        BY <1>1, <1>3, <1>4, <2>2, <3>2, <3>3, <3>4 DEF SameRecords, OneRecordMore, Told, Grows
      <3>5. CASE ~v.ok
        BY <1>1, <3>2, <3>3, <3>5 DEF SameRecords, Grows
      <3> QED
        BY <3>4, <3>5
    <2> QED
      BY <2>1, <2>2
  <1>6. CASE ~v.ok
    <2>1. u = v
      BY <1>2, <1>6
    <2> QED
      BY <1>5, <1>6, <2>1 DEF SameRecords
  <1>7. CASE v.ok
    <2>1. u \in EncodeRecord(v, Ev(i))
      BY <1>2, <1>7
    <2>2. /\ Sound(u) /\ Grows(v, u) /\ (v.err => ~u.ok)
          /\ IF u.ok THEN u.open /\ OneRecordMore(v, u, Ev(i)) ELSE u.err /\ SameRecords(v, u)
      BY <1>4, <1>5, <1>7, <2>1, EncodeRecordDoes
    <2>3. Grows(t, u)
      BY <1>5, <2>2, GrowsOn
    <2>4. CASE u.ok
      <3>1. ~t.err
        BY <1>5, <2>2, <2>4
      <3>2. /\ Replayed(u.files) = ToldAnd(Replayed(t.files), dropped, i)
            /\ u.evs = t.evs + 1 /\ u.gaps = t.gaps + dropped + 0
        BY <1>4, <1>5, <1>7, <2>2, <2>4 DEF OneRecordMore, ToldAnd
      <3> QED
        BY <1>3, <2>2, <2>3, <2>4, <3>1, <3>2
    <2>5. CASE ~u.ok
      BY <1>5, <1>7, <2>2, <2>3, <2>5 DEF SameRecords
    <2> QED
      BY <2>4, <2>5
  <1> QED
    BY <1>6, <1>7

\* writeFinalGap announces what is left to announce, or sticks.
LEMMA FinalGapDoes ==
  ASSUME NEW t, Sound(t), t.err \/ t.open, NEW dropped \in Nat,
         NEW u \in WriteFinalGap(t, dropped)
  PROVE  LET r == Replayed(t.files)
             w == Replayed(u.files)
         IN /\ Sound(u) /\ Grows(t, u) /\ (u.err \/ u.open)
            /\ t.err => SameRecords(t, u)
            /\ ~u.err => /\ w = Told(r, dropped)
                         /\ u.evs = t.evs /\ u.gaps = t.gaps + dropped
            /\ w \in {r, Told(r, dropped)}
  <1>1. t.evs \in Nat /\ t.gaps \in Nat /\ t.files \in Seq(File) /\ t \in Tapes
    BY DEF Sound, Tapes
  <1>2. CASE dropped = 0
    <2>1. u = t
      BY <1>2 DEF WriteFinalGap
    <2>2. Grows(t, u)
      BY <1>1, <2>1, GrowsNot
    <2> QED
      BY <1>1, <1>2, <2>1, <2>2 DEF SameRecords, Told
  <1>3. CASE dropped # 0
    <2> DEFINE fresh == [t EXCEPT !.ok = TRUE]
    <2>1. /\ Sound(fresh) /\ SameRecords(t, fresh) /\ Grows(t, fresh) /\ fresh.ok
          /\ fresh.err = t.err /\ fresh.open = t.open
      BY FreshDoes
    <2>2. PICK v \in EncodeRecord(fresh, Gap(dropped)) : u = [v EXCEPT !.err = @ \/ ~v.ok]
      BY <1>3 DEF WriteFinalGap
    <2> HIDE DEF fresh
    <2>3. Gap(dropped) \in Rec /\ Gap(dropped).gap = dropped
      BY RecordTypes
    <2>4. /\ Sound(v) /\ Grows(fresh, v) /\ (fresh.err => ~v.ok)
          /\ IF v.ok THEN v.open /\ OneRecordMore(fresh, v, Gap(dropped))
                     ELSE v.err /\ SameRecords(fresh, v)
      BY <2>1, <2>2, <2>3, EncodeRecordDoes
    <2>5. u = v
      <3>1. v \in Tapes
        BY <2>4 DEF Sound
      <3>2. (v.err \/ ~v.ok) = v.err
        BY <2>4, <3>1 DEF Tapes
      <3>3. [v EXCEPT !.err = v.err] = v
        BY <3>1 DEF Tapes
      <3> QED
        BY <2>2, <3>2, <3>3
    <2>6. Grows(t, v)
      BY <2>1, <2>4, GrowsOn
    <2>7. CASE v.ok
      <3>1. Replayed(v.files) = Told(Replayed(t.files), dropped) /\ v.gaps = t.gaps + dropped
        BY <1>3, <2>1, <2>3, <2>4, <2>7 DEF SameRecords, OneRecordMore, Told
      <3>2. v.evs = t.evs + 0
        BY <1>3, <2>1, <2>3, <2>4, <2>7 DEF SameRecords, OneRecordMore
      <3> QED
        BY <1>1, <2>1, <2>4, <2>5, <2>6, <2>7, <3>1, <3>2
    <2>8. CASE ~v.ok
      BY <2>1, <2>4, <2>5, <2>6, <2>8 DEF SameRecords
    <2> QED
      BY <2>7, <2>8
  <1> QED
    BY <1>2, <1>3

\* Without an error everything is durable once the tape is closed.
LEMMA ClosedDurable ==
  ASSUME NEW t, Sound(t), ~t.open, ~t.err
  PROVE  /\ DurableTo(t.files).n = Len(Replayed(t.files))
         /\ ~ReplayFails(t.files) /\ ~Truncated(t.files) /\ ~RunsFails(t.files)
  <1> DEFINE k == Len(t.files)
  <1>1. t.files \in Seq(File) /\ k > 0 /\ k \in Nat
    <2>1. t.files \in Seq(File) /\ k > 0
      BY DEF Sound, Tapes
    <2> QED
      BY <2>1, LenProperties
  <1>2. \A i \in 1..k : t.files[i] \in File /\ t.files[i].done
    <2>1. \A i \in 1..k : i \in 1..k - 1 \/ i = k
      BY <1>1
    <2>2. \A i \in 1..k : t.files[i].done
      BY <2>1 DEF Sound, LastOf
    <2> QED
      BY <1>1, <2>2, ElementOfSeq
  <1>3. DurableTo(t.files).n = Len(Replayed(t.files))
    BY <1>1, <1>2, DurableBounded
  <1>4. \A i \in 1..k : t.files[i].head = "disk"
    BY <1>2 DEF File
  <1>5. 1 \in 1..k /\ k \in 1..k
    BY <1>1
  <1> QED
    BY <1>2, <1>3, <1>4, <1>5 DEF ReplayFails, Truncated, RunsFails

\* flush changes no record.
LEMMA FlushDoes ==
  ASSUME NEW t, Sound(t), NEW u \in Flush(t)
  PROVE  Sound(u) /\ Grows(t, u) /\ SameRecords(t, u) /\ u.open = t.open
  <1> DEFINE k == Len(t.files)
             l == t.files[k]
             f == [l EXCEPT !.head = "disk", !.disk = Len(l.recs)]
             files2 == [t.files EXCEPT ![k] = f]
             a == [t EXCEPT !.err = TRUE]
             b == [t EXCEPT !.files[k].head = "disk", !.files[k].disk = Len(t.files[k].recs)]
  <1>1. /\ t \in Tapes /\ k > 0 /\ t.files \in Seq(File) /\ k \in Nat /\ l \in File
        /\ k \in 1..k
    <2>1. t \in Tapes /\ k > 0 /\ t.files \in Seq(File)
      BY DEF Sound, Tapes
    <2>2. k \in Nat /\ k \in 1..k
      BY <2>1, LenProperties
    <2> QED
      BY <2>1, <2>2, ElementOfSeq
  <1>2. CASE ~t.open
    <2>1. u = t
      BY <1>2 DEF Flush
    <2> QED
      BY <1>1, <2>1, GrowsNot DEF SameRecords
  <1>3. CASE t.open
    <2>1. u = a \/ u = b
      BY <1>3 DEF Flush
    <2>2. /\ t.evs = EventsIn(Replayed(t.files)) /\ t.gaps = SumOfGaps(Replayed(t.files))
          /\ ~l.done
          /\ ~t.err => (\A i \in 1..k - 1 : t.files[i].done)
      BY <1>3 DEF Sound, LastOf
    <2>3. CASE u = a
      <3>1. /\ u.files = t.files /\ u.open = t.open /\ u.err = TRUE
            /\ u.evs = t.evs /\ u.gaps = t.gaps /\ u \in Tapes
        BY <1>1, <2>3 DEF Tapes
      <3>2. Sound(u)
        BY <1>1, <2>2, <3>1 DEF Sound, LastOf
      <3> QED
        BY <1>1, <3>1, <3>2, GrowsNot DEF SameRecords
    <2>4. CASE u = b
      <3>1. /\ f.recs = l.recs /\ f.disk = Len(l.recs) /\ ~f.done
            /\ f.head = "disk" /\ f \in File /\ l.disk <= f.disk
        <4>1. /\ l \in FileRecord /\ l.recs \in Seq(Rec) /\ l.disk <= Len(l.recs)
              /\ Len(l.recs) \in Nat
          BY <1>1, LenProperties DEF File, FileRecord
        <4>2. /\ f.recs = l.recs /\ f.disk = Len(l.recs) /\ f.done = l.done
              /\ f.head = "disk" /\ f \in FileRecord
          BY <4>1 DEF FileRecord
        <4> HIDE DEF f
        <4> QED
          BY <2>2, <4>1, <4>2 DEF File
      <3>2. b = [t EXCEPT !.files = files2]
        <4> DEFINE f1 == [l EXCEPT !.head = "disk"]
                   g1 == [t.files EXCEPT ![k] = f1]
                   t1 == [t EXCEPT !.files = g1]
        <4>1. [t EXCEPT !.files[k].head = "disk"] = t1
          BY <1>1 DEF Tapes
        <4>2. b = [[t EXCEPT !.files[k].head = "disk"] EXCEPT !.files[k].disk = Len(l.recs)]
          OBVIOUS
        <4>3. t1.files = g1 /\ g1[k] = f1
          BY <1>1 DEF Tapes
        <4>4. f = [f1 EXCEPT !.disk = Len(l.recs)]
          OBVIOUS
        <4>5. [t1 EXCEPT !.files[k].disk = Len(l.recs)] = [t1 EXCEPT !.files = [g1 EXCEPT ![k] = f]]
          BY <1>1, <4>3, <4>4 DEF Tapes
        <4>6. [g1 EXCEPT ![k] = f] = files2
          BY <1>1
        <4>7. [t1 EXCEPT !.files = files2] = [t EXCEPT !.files = files2]
          BY <1>1 DEF Tapes
        <4> QED
          BY <4>1, <4>2, <4>5, <4>6, <4>7
      <3> HIDE DEF f
      <3>3. /\ files2 \in Seq(File) /\ Len(files2) = k /\ files2[k] = f
            /\ \A i \in 1..k - 1 : files2[i] = t.files[i]
        BY <1>1, <3>1, LastFile
      <3>4. /\ Replayed(files2) = Replayed(t.files)
            /\ DurableTo(t.files).n <= DurableTo(files2).n
        BY <1>1, <3>1, ReplaceLast
      <3> HIDE DEF files2, b
      <3>5. /\ u.files = files2 /\ u.open = t.open /\ u.err = t.err
            /\ u.evs = t.evs /\ u.gaps = t.gaps /\ u \in Tapes
        BY <1>1, <2>4, <3>2, <3>3 DEF Tapes
      <3>6. LastOf(u) = f /\ Len(u.files) = k
        BY <3>3, <3>5 DEF LastOf
      <3>7. Sound(u)
        BY <1>1, <1>3, <2>2, <3>1, <3>3, <3>4, <3>5, <3>6 DEF Sound
      <3> QED
        BY <1>1, <3>3, <3>4, <3>5, <3>7 DEF SameRecords, Grows
    <2> QED
      BY <2>1, <2>3, <2>4
  <1> QED
    BY <1>2, <1>3
-----------------------------------------------------------------------------
(* A kill.                                                                 *)

\* A beginning of what two sequences make, not shorter than the first.
LEMMA ConcatBeginning ==
  ASSUME NEW S, NEW a \in Seq(S), NEW b \in Seq(S), NEW n \in 0..Len(b)
  PROVE  /\ SubSeq(b, 1, n) \in Seq(S) /\ Len(SubSeq(b, 1, n)) = n
         /\ Len(a) + n \in 0..Len(a \o b)
         /\ a \o SubSeq(b, 1, n) = SubSeq(a \o b, 1, Len(a) + n)
  <1> DEFINE c == a \o b
             d == SubSeq(b, 1, n)
             e == a \o d
             k == Len(a)
             m == Len(b)
             g == SubSeq(c, 1, k + n)
  <1>1. k \in Nat /\ m \in Nat /\ n \in Nat /\ n <= m
    BY LenProperties
  <1>2. d \in Seq(S) /\ Len(d) = n /\ \A i \in 1..n : d[i] = b[i]
    <2>1. \A i \in 1..m : b[i] \in S
      BY ElementOfSeq
    <2> HIDE DEF m, k
    <2>2. 1 \in Int /\ n \in Int /\ (\A i \in 1..n : b[i] \in S) /\ n - 1 + 1 = n
          /\ (1 <= n \/ n = 0)
      BY <1>1, <2>1
    <2>3. d \in Seq(S) /\ Len(d) = n /\ \A i \in 1..n : d[i] = b[1 + i - 1]
      BY <2>2, SubSeqProperties
    <2>4. \A i \in 1..n : 1 + i - 1 = i
      OBVIOUS
    <2> QED
      BY <2>3, <2>4
  <1>3. /\ c \in Seq(S) /\ Len(c) = k + m
        /\ \A i \in 1..k + m : c[i] = IF i <= k THEN a[i] ELSE b[i - k]
    BY ConcatProperties
  <1> HIDE DEF d
  <1>4. /\ e \in Seq(S) /\ Len(e) = k + n
        /\ \A i \in 1..k + n : e[i] = IF i <= k THEN a[i] ELSE d[i - k]
    BY <1>2, ConcatProperties
  <1> HIDE DEF c, e
  <1>5. g \in Seq(S) /\ Len(g) = k + n /\ \A i \in 1..k + n : g[i] = c[i]
    <2>1. \A i \in 1..k + m : c[i] \in S
      BY <1>3, ElementOfSeq
    <2> HIDE DEF m, k
    <2>2. 1 \in Int /\ k + n \in Int /\ (\A i \in 1..k + n : c[i] \in S)
          /\ (k + n) - 1 + 1 = k + n /\ (1 <= k + n \/ k + n = 0)
      BY <1>1, <2>1
    <2>3. g \in Seq(S) /\ Len(g) = k + n /\ \A i \in 1..k + n : g[i] = c[1 + i - 1]
      BY <2>2, SubSeqProperties
    <2>4. \A i \in 1..k + n : 1 + i - 1 = i
      BY <1>1
    <2> QED
      BY <2>3, <2>4
  <1> HIDE DEF g, k, m
  <1>6. ASSUME NEW i \in 1..k + n
        PROVE  g[i] = e[i]
    <2>1. i \in 1..k + m /\ (~(i <= k) => i - k \in 1..n)
      BY <1>1
    <2>2. g[i] = c[i]
      BY <1>5
    <2>3. c[i] = IF i <= k THEN a[i] ELSE b[i - k]
      BY <1>3, <2>1
    <2>4. e[i] = IF i <= k THEN a[i] ELSE d[i - k]
      BY <1>4
    <2> QED
      BY <1>2, <2>1, <2>2, <2>3, <2>4
  <1>7. g = e
    BY <1>4, <1>5, <1>6, SeqEqual
  <1>8. k + n \in 0..k + m
    BY <1>1
  <1> QED
    BY <1>2, <1>3, <1>7, <1>8 DEF c, d, e, g, k, m

\* What a kill leaves of a file, and what a rotation does with one.
LEMMA CutDoes ==
  ASSUME NEW f \in File, NEW c \in Cuts(f) \cup {Finished(f)}
  PROVE  /\ c \in File /\ f.disk <= c.disk
         /\ f.head # "none" => c.head # "none"
         /\ \E n \in f.disk..Len(f.recs) : c.recs = SubSeq(f.recs, 1, n)
  <1>1. /\ f \in FileRecord /\ f.recs \in Seq(Rec) /\ f.disk \in Nat /\ Len(f.recs) \in Nat
        /\ f.disk <= Len(f.recs) /\ f.head \in {"none", "held", "disk"} /\ f.done \in BOOLEAN
    BY LenProperties DEF File, FileRecord
  <1>2. SubSeq(f.recs, 1, Len(f.recs)) = f.recs /\ Len(f.recs) \in f.disk..Len(f.recs)
    <2>1. SubSeq(f.recs, 1, Len(f.recs)) = f.recs
      BY <1>1, SubSeqFull
    <2> QED
      BY <1>1, <2>1
  <1>3. CASE c = f
    BY <1>1, <1>2, <1>3
  <1>4. CASE c = Finished(f)
    <2>1. /\ c \in File /\ c.recs = f.recs /\ c.head = "disk" /\ f.disk <= c.disk
      BY <1>4, FinishedType
    <2> QED
      BY <1>2, <2>1
  <1>5. CASE ~f.done /\ f.head # "none" /\ c \in Cuts(f)
    <2>1. PICK n \in f.disk..Len(f.recs), h \in {f.head, "disk"} :
            c = CutAt(f, n, h)
      <3>1. ~(f.done \/ f.head = "none")
        BY <1>5
      <3>2. c \in {CutAt(f, n, h) : n \in f.disk..Len(f.recs), h \in {f.head, "disk"}}
        BY <1>5, <3>1 DEF Cuts
      <3> QED
        BY <3>2
    <2>2. n \in 0..Len(f.recs) /\ n \in Nat /\ f.disk <= n
      BY <1>1
    <2>3. SubSeq(f.recs, 1, n) \in Seq(Rec) /\ Len(SubSeq(f.recs, 1, n)) = n
      BY <1>1, <2>2, ConcatBeginning
    <2>4. /\ c.recs = SubSeq(f.recs, 1, n) /\ c.disk = n /\ c.head = h /\ c.done = f.done
          /\ c \in FileRecord
      BY <1>1, <1>5, <2>1, <2>2, <2>3 DEF FileRecord, CutAt
    <2>5. c.done = FALSE
      BY <1>1, <1>5, <2>4
    <2>6. c \in File
      BY <2>2, <2>3, <2>4, <2>5 DEF File
    <2> QED
      BY <1>5, <2>2, <2>4, <2>6
  <1>6. CASE f.done \/ f.head = "none"
    <2>1. Cuts(f) = {f}
      BY <1>6 DEF Cuts
    <2> QED
      BY <1>3, <1>4, <2>1
  <1> QED
    BY <1>4, <1>5, <1>6

\* The records of a run whose last file was cut.
LEMMA CutLast ==
  ASSUME NEW s \in Seq(File), Len(s) > 0, NEW f \in File, s[Len(s)].disk <= f.disk,
         NEW n \in s[Len(s)].disk..Len(s[Len(s)].recs),
         f.recs = SubSeq(s[Len(s)].recs, 1, n)
  PROVE  LET u == [s EXCEPT ![Len(s)] = f]
         IN /\ \E j \in DurableTo(s).n..Len(Replayed(s)) :
                  Replayed(u) = SubSeq(Replayed(s), 1, j)
            /\ DurableTo(u).n \in DurableTo(s).n..Len(Replayed(u))
  <1> DEFINE k == Len(s)
             front == SubSeq(s, 1, k - 1)
             u == [s EXCEPT ![k] = f]
             l == s[k]
             d == DurableTo(front)
             a == Replayed(front)
             j == Len(a) + n
  <1>1. /\ front \in Seq(File) /\ l \in File /\ s = Append(front, l) /\ u = Append(front, f)
        /\ u \in Seq(File)
    BY LastFile
  <1>2. f.recs = SubSeq(l.recs, 1, n) /\ n \in l.disk..Len(l.recs) /\ l.disk <= f.disk
    OBVIOUS
  <1> HIDE DEF k, front, u, l
  <1>3. /\ a \in Seq(Rec) /\ l.recs \in Seq(Rec)
        /\ Replayed(s) = a \o l.recs /\ Replayed(u) = a \o f.recs
        /\ Replayed(s) \in Seq(Rec) /\ Replayed(u) \in Seq(Rec)
    BY <1>1, ReplayedAppend
  <1>4. /\ l.disk \in Nat /\ Len(l.recs) \in Nat /\ n \in 0..Len(l.recs) /\ Len(a) \in Nat
        /\ f.disk \in Nat
    <2>1. l.disk \in Nat /\ Len(l.recs) \in Nat /\ f.disk \in Nat /\ Len(a) \in Nat
      BY <1>1, <1>3, LenProperties DEF File, FileRecord
    <2> QED
      BY <1>2, <2>1
  <1>5. Replayed(u) = SubSeq(Replayed(s), 1, j) /\ j \in 0..Len(Replayed(s))
    BY <1>2, <1>3, <1>4, ConcatBeginning, SMTT(30)
  <1>6. d \in Progress /\ DurableTo(s) = AddDurable(d, l) /\ DurableTo(u) = AddDurable(d, f)
    BY <1>1, DurableAppend
  <1>7. d.n <= Len(a) /\ DurableTo(u).n <= Len(Replayed(u)) /\ d.n \in Nat
    BY <1>1, <1>6, DurableBounded DEF Progress
  <1> HIDE DEF d, a
  <1>8. /\ DurableTo(s).n \in Nat /\ DurableTo(u).n \in Nat
        /\ DurableTo(s).n <= DurableTo(u).n /\ DurableTo(s).n <= Len(a) + n
    <2>1. l.disk <= n /\ n \in Nat
      BY <1>2, <1>4
    <2>2. CASE d.on
      <3>1. DurableTo(s).n = d.n + l.disk /\ DurableTo(u).n = d.n + f.disk
        BY <1>6, <2>2 DEF AddDurable
      <3> QED
        BY <1>2, <1>4, <1>7, <2>1, <3>1, SMTT(30)
    <2>3. CASE ~d.on
      <3>1. DurableTo(s).n = d.n /\ DurableTo(u).n = d.n
        BY <1>6, <2>3 DEF AddDurable
      <3> QED
        BY <1>4, <1>7, <2>1, <3>1
    <2> QED
      BY <2>2, <2>3
  <1>9. Len(Replayed(u)) \in Nat /\ Len(Replayed(s)) \in Nat
    BY <1>3, LenProperties
  <1>10. /\ j \in DurableTo(s).n..Len(Replayed(s))
         /\ DurableTo(u).n \in DurableTo(s).n..Len(Replayed(u))
    <2> DEFINE x == DurableTo(s).n
               y == DurableTo(u).n
               lu == Len(Replayed(u))
               ls == Len(Replayed(s))
    <2>1. /\ x \in Nat /\ y \in Nat /\ lu \in Nat /\ ls \in Nat /\ j \in 0..ls
          /\ x <= y /\ y <= lu
      BY <1>5, <1>7, <1>8, <1>9
    <2>2. x <= j
      BY <1>8
    <2> HIDE DEF x, y, lu, ls, j
    <2>3. j \in x..ls /\ y \in x..lu
      BY <2>1, <2>2
    <2> QED
      BY <2>3 DEF x, y, lu, ls
  <1> QED
    BY <1>5, <1>10 DEF u, k

\* A kill leaves a beginning of the records, with all that was durable, and a
\* run that still replays if there was no error.
LEMMA KillDoes ==
  ASSUME NEW t, Sound(t), NEW c \in Cuts(LastOf(t)) \cup {Finished(LastOf(t))}
  PROVE  LET u == [t.files EXCEPT ![Len(t.files)] = c]
         IN /\ u \in Seq(File)
            /\ \E j \in DurableTo(t.files).n..Len(Replayed(t.files)) :
                  Replayed(u) = SubSeq(Replayed(t.files), 1, j)
            /\ DurableTo(u).n \in DurableTo(t.files).n..Len(Replayed(u))
            /\ ~t.err => ~ReplayFails(u)
  <1> DEFINE k == Len(t.files)
             s == t.files
             l == t.files[k]
             u == [t.files EXCEPT ![k] = c]
  <1>1. s \in Seq(File) /\ k > 0 /\ k \in Nat /\ k \in 1..k /\ l \in File
    <2>1. s \in Seq(File) /\ k > 0
      BY DEF Sound, Tapes
    <2>2. k \in Nat /\ k \in 1..k
      BY <2>1, LenProperties
    <2> QED
      BY <2>1, <2>2, ElementOfSeq
  <1>2. /\ c \in File /\ l.disk <= c.disk /\ (l.head # "none" => c.head # "none")
        /\ \E n \in l.disk..Len(l.recs) : c.recs = SubSeq(l.recs, 1, n)
    BY <1>1, CutDoes DEF LastOf
  <1>3. /\ u \in Seq(File) /\ Len(u) = k /\ u[k] = c
        /\ \A i \in 1..k - 1 : u[i] = s[i]
    BY <1>1, <1>2, LastFile
  <1>4. /\ \E j \in DurableTo(s).n..Len(Replayed(s)) :
              Replayed(u) = SubSeq(Replayed(s), 1, j)
        /\ DurableTo(u).n \in DurableTo(s).n..Len(Replayed(u))
    BY <1>1, <1>2, CutLast
  <1>5. ASSUME ~t.err
        PROVE  ~ReplayFails(u)
    <2>1. /\ \A i \in 1..k - 1 : s[i].done
          /\ l.head # "none"
      BY <1>5 DEF Sound, LastOf
    <2>2. \A i \in 1..k - 1 : s[i] \in File
      <3>1. \A i \in 1..k - 1 : i \in 1..k
        BY <1>1
      <3> QED
        BY <1>1, <3>1, ElementOfSeq
    <2> HIDE DEF u, s, l
    <2>3. \A i \in 1..k - 1 : u[i].done /\ u[i].head # "none"
      BY <1>3, <2>1, <2>2 DEF File
    <2> HIDE DEF k
    <2>4. \A i \in 1..k : (i \in 1..k - 1 \/ i = k) /\ (i < k => i \in 1..k - 1)
      BY <1>1
    <2> QED
      BY <1>2, <1>3, <2>1, <2>3, <2>4 DEF ReplayFails
  <1> QED
    BY <1>3, <1>4, <1>5

-----------------------------------------------------------------------------
(* The order of closing.                                                   *)

\* Once the caller has asked for the statistics no offerer will call again, and
\* the channel is closed only after that.
CloseOrderInv ==
    /\ offerPc \in [Offerers -> {"idle", "checked", "dropping", "done", "panicked"}]
    /\ closePc = "running" => ~chClosed
    /\ ordered /\ closePc # "running" => \A o \in Offerers : offerPc[o] = "done"
    /\ OrderedOfferNeverPanics

LEMMA InitCloseOrder == Init => CloseOrderInv
  BY DEF Init, CloseOrderInv, OrderedOfferNeverPanics, OfferNeverPanics

\* A step that leaves the offerers and the closing goroutine where they are.
LEMMA ElsewhereKeepsCloseOrder ==
  ASSUME CloseOrderInv, UNCHANGED <<ordered, offerPc, chClosed, closePc>>
  PROVE  CloseOrderInv'
  BY DEF CloseOrderInv, OrderedOfferNeverPanics, OfferNeverPanics

\* An Offer that moves is not done, so that an ordered Close has not begun, and the
\* channel it would send on is open.
LEMMA OfferKeepsCloseOrder ==
  ASSUME CloseOrderInv, NEW o \in Offerers, Offer(o)
  PROVE  CloseOrderInv'
  <1> DEFINE places == {"idle", "checked", "dropping", "done"}
  <1>1. UNCHANGED <<ordered, chClosed, closePc>>
    BY DEF Offer, OfferCheck, OfferSend, OfferFull, OfferCounts, OfferPanics, OffererStops
  <1>2. offerPc[o] # "done"
    BY DEF Offer, OfferCheck, OfferSend, OfferFull, OfferCounts, OfferPanics, OffererStops
  <1>3. ordered => closePc = "running" /\ ~chClosed
    BY <1>2 DEF CloseOrderInv
  <1>4. \/ \E p \in places : offerPc' = [offerPc EXCEPT ![o] = p]
        \/ chClosed /\ offerPc' = [offerPc EXCEPT ![o] = "panicked"]
    BY DEF Offer, OfferCheck, OfferSend, OfferFull, OfferCounts, OfferPanics, OffererStops
  <1> QED
    BY <1>1, <1>3, <1>4 DEF CloseOrderInv, OrderedOfferNeverPanics, OfferNeverPanics

\* The closing goroutine leaves "running" only when every offerer is done, if it
\* keeps the daemon's order.
LEMMA CloseKeepsCloseOrder ==
  ASSUME CloseOrderInv, Close
  PROVE  CloseOrderInv'
  <1>1. CASE ReadStats
    BY <1>1 DEF ReadStats, CloseOrderInv, OrderedOfferNeverPanics, OfferNeverPanics
  <1>2. CASE CloseSwaps
    BY <1>2 DEF CloseSwaps, CloseOrderInv, OrderedOfferNeverPanics, OfferNeverPanics
  <1>3. CASE CloseChannel
    BY <1>3 DEF CloseChannel, CloseOrderInv, OrderedOfferNeverPanics, OfferNeverPanics
  <1>4. CASE CloseReturns
    BY <1>4 DEF CloseReturns, CloseOrderInv, OrderedOfferNeverPanics, OfferNeverPanics
  <1> QED
    BY <1>1, <1>2, <1>3, <1>4 DEF Close

\* The invariant is inductive.
LEMMA NextCloseOrder == CloseOrderInv /\ [Next]_vars => CloseOrderInv'
  <1> SUFFICES ASSUME CloseOrderInv, [Next]_vars
               PROVE  CloseOrderInv'
    OBVIOUS
  <1>1. ASSUME NEW o \in Offerers, Offer(o) PROVE CloseOrderInv'
    BY <1>1, OfferKeepsCloseOrder
  <1>2. CASE Close
    BY <1>2, CloseKeepsCloseOrder
  <1>3. CASE Drain \/ Kill \/ KillRotating \/ UNCHANGED vars
    BY <1>3, ElsewhereKeepsCloseOrder DEF Drain, DrainTakes, DrainWrites, DrainFlushes,
       DrainFinishes, Kill, KillRotating, vars
  <1> QED
    BY <1>1, <1>2, <1>3 DEF Next

\* With the daemon's order of shutdown no Offer ever sends on the closed channel,
\* though Offer itself does not exclude it.
THEOREM DaemonsOrderIsSafe == Spec => []OrderedOfferNeverPanics
  <1>1. CloseOrderInv => OrderedOfferNeverPanics
    BY DEF CloseOrderInv
  <1> QED
    BY <1>1, InitCloseOrder, NextCloseOrder, PTL DEF Spec

-----------------------------------------------------------------------------
(* The accounts.                                                           *)

\* The event in the drain goroutine's hand.
Held == IF drainPc = "got" THEN 1 ELSE 0

\* The events the tape accounts for.
OnTape == tape.evs + tape.gaps

Types ==
  /\ ordered \in BOOLEAN /\ closed \in BOOLEAN /\ chClosed \in BOOLEAN
  /\ offered \in Nat /\ dropCnt \in Nat /\ inHand \in Nat
  /\ drainCh \in Seq(Nat) /\ Len(drainCh) <= BufSize
  /\ drainPc \in {"select", "got", "done"}
  /\ closePc \in {"running", "reported", "closing", "waiting", "returned"}
  /\ killed \in {"no", "anytime", "rotating"}

\* Where the closing goroutine stands and what the drain goroutine knows of it.
Stages ==
  /\ closed <=> closePc \in {"closing", "waiting", "returned"}
  /\ chClosed <=> closePc \in {"waiting", "returned"}
  /\ drainPc = "done" => chClosed /\ drainCh = <<>>
  /\ closePc = "returned" => drainPc = "done"
  /\ ordered /\ drainPc = "done" => dropCnt = 0

\* While the process lives the tape is sound, and open until the drain
\* goroutine is done unless an error stuck.
TapeHolds ==
  killed = "no" => Sound(tape) /\ (~tape.err => (tape.open <=> drainPc # "done"))

\* The records there will be when the channel has been drained.
ToBeWritten == Len(Written) + Len(drainCh) + Held + (IF dropCnt = 0 THEN 0 ELSE 1)

\* The drops counted so far.
Counted == dropCnt + tape.gaps

\* What the figures read before Close can miss.
LagInv ==
  ordered /\ closePc # "running" /\ ~tape.err /\ killed = "no" =>
    /\ stats.written \in Nat /\ stats.dropped \in Nat /\ stats.files \in Nat
    /\ stats.written <= Len(Written) /\ ToBeWritten <= stats.written + BufSize + 2
    /\ stats.dropped <= Counted /\ stats.files <= Len(tape.files)

CapInv ==
  /\ CloseOrderInv /\ Types /\ Stages /\ TapeHolds
  /\ NothingUnaccounted /\ KilledTapeReplaysButRotating /\ LagInv

\* The accounts hold of a fresh writer.
LEMMA InitCap == Init => CapInv
  <1> SUFFICES ASSUME Init PROVE CapInv
    OBVIOUS
  <1>1. CloseOrderInv
    BY InitCloseOrder
  <1>2. Types
    <2>1. <<>> \in Seq(Nat) /\ Len(<<>>) = 0
      OBVIOUS
    <2>2. ordered \in BOOLEAN
      BY OrderAssumption DEF Init
    <2>3. drainCh \in Seq(Nat) /\ Len(drainCh) <= BufSize
      BY <2>1, BufSizeAssumption DEF Init
    <2>4. /\ closed = FALSE /\ chClosed = FALSE /\ offered = 0 /\ dropCnt = 0 /\ inHand = 0
          /\ drainPc = "select" /\ closePc = "running" /\ killed = "no"
      BY DEF Init
    <2> QED
      BY <2>2, <2>3, <2>4 DEF Types
  <1>3. Stages
    BY DEF Init, Stages
  <1>4. Sound(NewTape)
    BY NewTapeSound
  <1>5. TapeHolds
    BY <1>4 DEF Init, TapeHolds, NewTape
  <1>6. NothingUnaccounted
    <2>1. {o \in Offerers : offerPc[o] = "dropping"} = {}
      BY DEF Init
    <2>2. Uncounted = 0
      BY <2>1, FS_EmptySet DEF Uncounted
    <2>3. Len(<<>>) = 0 /\ NewTape.evs = 0 /\ NewTape.gaps = 0
      BY DEF NewTape
    <2> QED
      BY <2>2, <2>3 DEF Init, NothingUnaccounted
  <1>7. KilledTapeReplaysButRotating /\ LagInv
    BY DEF Init, KilledTapeReplaysButRotating, KilledTapeReplays, LagInv
  <1> QED
    BY <1>1, <1>2, <1>3, <1>5, <1>6, <1>7 DEF CapInv

\* One offerer moves: how many drops are then uncounted.
LEMMA UncountedMoves ==
  ASSUME CloseOrderInv, NEW o \in Offerers, NEW p, offerPc' = [offerPc EXCEPT ![o] = p]
  PROVE  /\ Uncounted \in Nat /\ Uncounted' \in Nat
         /\ (p # "dropping" /\ offerPc[o] # "dropping" => Uncounted' = Uncounted)
         /\ (p = "dropping" /\ offerPc[o] # "dropping" => Uncounted' = Uncounted + 1)
         /\ (p # "dropping" /\ offerPc[o] = "dropping" => Uncounted' = Uncounted - 1)
  <1> DEFINE D == {x \in Offerers : offerPc[x] = "dropping"}
             E == {x \in Offerers : offerPc'[x] = "dropping"}
  <1>1. /\ offerPc'[o] = p
        /\ \A x \in Offerers : x # o => offerPc'[x] = offerPc[x]
    BY DEF CloseOrderInv
  <1>2. IsFiniteSet(D) /\ IsFiniteSet(E)
    <2>1. D \in SUBSET Offerers /\ E \in SUBSET Offerers
      OBVIOUS
    <2> HIDE DEF D, E
    <2> QED
      BY <2>1, OfferersAssumption, FS_Subset
  <1>3. /\ (p # "dropping" /\ offerPc[o] # "dropping" => E = D)
        /\ (p = "dropping" /\ offerPc[o] # "dropping" => E = D \cup {o} /\ o \notin D)
        /\ (p # "dropping" /\ offerPc[o] = "dropping" => D = E \cup {o} /\ o \notin E)
    BY <1>1
  <1> HIDE DEF D, E
  <1>4. Cardinality(D) \in Nat /\ Cardinality(E) \in Nat
    BY <1>2, FS_CardinalityType
  <1>5. /\ (p # "dropping" /\ offerPc[o] # "dropping" => Cardinality(E) = Cardinality(D))
        /\ (p = "dropping" /\ offerPc[o] # "dropping" => Cardinality(E) = Cardinality(D) + 1)
        /\ (p # "dropping" /\ offerPc[o] = "dropping" => Cardinality(D) = Cardinality(E) + 1)
    <2>1. \A X, x : IsFiniteSet(X) /\ x \notin X => Cardinality(X \cup {x}) = Cardinality(X) + 1
      BY FS_AddElement
    <2> QED
      BY <1>2, <1>3, <2>1
  <1>6. p # "dropping" /\ offerPc[o] = "dropping" => Cardinality(E) = Cardinality(D) - 1
    BY <1>4, <1>5
  <1>7. Uncounted = Cardinality(D) /\ Uncounted' = Cardinality(E)
    BY DEF D, E, Uncounted
  <1> QED
    BY <1>4, <1>5, <1>6, <1>7

\* The drops chosen and uncounted are finitely many.
LEMMA UncountedIsNat == Uncounted \in Nat
  <1> DEFINE D == {x \in Offerers : offerPc[x] = "dropping"}
  <1>1. D \in SUBSET Offerers
    OBVIOUS
  <1> HIDE DEF D
  <1>2. IsFiniteSet(D)
    BY <1>1, OfferersAssumption, FS_Subset
  <1>3. Cardinality(D) \in Nat
    BY <1>2, FS_CardinalityType
  <1> QED
    BY <1>3 DEF D, Uncounted

\* An Offer leaves the tape alone, and moves an event into the channel or into
\* the drops.
LEMMA OfferKeepsCap ==
  ASSUME CapInv, NEW o \in Offerers, Offer(o)
  PROVE  CapInv'
  <1>1. CloseOrderInv'
    BY OfferKeepsCloseOrder DEF CapInv
  <1>0. CloseOrderInv
    BY DEF CapInv
  <1>2. /\ UNCHANGED <<ordered, closed, chClosed, inHand, drainPc, closePc, stats, tape, killed>>
        /\ offerPc[o] # "done"
    BY DEF Offer, OfferCheck, OfferSend, OfferFull, OfferCounts, OfferPanics, OffererStops
  <1>3. ordered => closePc = "running" /\ ~chClosed
    BY <1>2 DEF CapInv, CloseOrderInv
  <1>4. TapeHolds' /\ LagInv' /\ KilledTapeReplaysButRotating'
    BY <1>2, <1>3 DEF CapInv, TapeHolds, LagInv, KilledTapeReplaysButRotating, KilledTapeReplays,
       Written, ToBeWritten, Counted, Held
  <1>5. /\ offered \in Nat /\ dropCnt \in Nat /\ drainCh \in Seq(Nat) /\ Len(drainCh) <= BufSize
        /\ Len(drainCh) \in Nat /\ BufSize \in Nat
    BY BufSizeAssumption, LenProperties DEF CapInv, Types
  <1>6. ~tape.err => offered = OnTape + dropCnt + Len(drainCh) + Held + Uncounted
    BY DEF CapInv, NothingUnaccounted, Held, OnTape
  <1>12. Held \in Nat /\ Held' = Held
    BY <1>2 DEF Held
  <1>13. offered \in Nat /\ dropCnt \in Nat /\ Len(drainCh) \in Nat
    BY <1>5
  <1>7. OnTape \in Nat
    <2>1. killed = "no"
      BY DEF Offer, OfferCheck, OfferSend, OfferFull, OfferCounts, OfferPanics, OffererStops, Alive
    <2> QED
      BY <2>1 DEF CapInv, TapeHolds, Sound, Tapes, OnTape
  <1>8. CASE OfferCheck(o) \/ OfferPanics(o) \/ OffererStops(o)
    <2>1. /\ UNCHANGED <<offered, drainCh, dropCnt>>
          /\ \E p \in {"checked", "panicked", "done"} : offerPc' = [offerPc EXCEPT ![o] = p]
          /\ offerPc[o] # "dropping"
      BY <1>8 DEF OfferCheck, OfferPanics, OffererStops
    <2>2. Uncounted' = Uncounted
      BY <1>0, <2>1, UncountedMoves
    <2>3. Types' /\ Stages' /\ NothingUnaccounted'
      BY <1>2, <2>1, <2>2 DEF CapInv, Types, Stages, NothingUnaccounted
    <2> QED
      BY <1>1, <1>4, <2>3 DEF CapInv
  <1>9. CASE OfferSend(o)
    <2>1. /\ ~chClosed /\ Len(drainCh) < BufSize /\ offered' = offered + 1 /\ dropCnt' = dropCnt
          /\ drainCh' = Append(drainCh, offered') /\ offerPc' = [offerPc EXCEPT ![o] = "idle"]
          /\ offerPc[o] = "checked"
      BY <1>9 DEF OfferSend
    <2>2. Uncounted' = Uncounted /\ Uncounted \in Nat
      <3> DEFINE p == "idle"
      <3>1. offerPc' = [offerPc EXCEPT ![o] = p] /\ offerPc[o] = "checked" /\ p # "dropping"
        BY <2>1
      <3> HIDE DEF p
      <3> QED
        BY <1>0, <3>1, UncountedMoves
    <2>3. drainCh' \in Seq(Nat) /\ Len(drainCh') = Len(drainCh) + 1 /\ offered' \in Nat
      BY <1>5, <2>1
    <2>4. Types'
      BY <1>2, <1>5, <2>1, <2>3 DEF CapInv, Types
    <2>5. Stages'
      BY <1>2, <2>1 DEF CapInv, Stages
    <2>6. NothingUnaccounted'
      <3>1. ASSUME ~tape.err
            PROVE  offered' = OnTape + dropCnt + Len(drainCh') + Held + Uncounted
        <4>1. offered' = offered + 1 /\ Len(drainCh') = Len(drainCh) + 1
          BY <2>1, <2>3
        <4>2. Uncounted \in Nat
          BY <2>2
        <4>3. offered = OnTape + dropCnt + Len(drainCh) + Held + Uncounted
          BY <1>6, <3>1
        <4> QED
          BY <1>7, <1>12, <1>13, <4>1, <4>2, <4>3
      <3> QED
        BY <1>2, <2>1, <2>2, <3>1 DEF NothingUnaccounted, Held, OnTape
    <2> QED
      BY <1>1, <1>4, <2>4, <2>5, <2>6 DEF CapInv
  <1>10. CASE OfferFull(o)
    <2>1. /\ offered' = offered + 1 /\ dropCnt' = dropCnt /\ drainCh' = drainCh
          /\ offerPc' = [offerPc EXCEPT ![o] = "dropping"] /\ offerPc[o] = "checked"
      BY <1>10 DEF OfferFull
    <2>2. Uncounted' = Uncounted + 1 /\ Uncounted \in Nat
      BY <1>0, <2>1, UncountedMoves
    <2>3. Types' /\ Stages'
      BY <1>2, <1>5, <2>1 DEF CapInv, Types, Stages
    <2>4. NothingUnaccounted'
      <3>1. ASSUME ~tape.err
            PROVE  offered' = OnTape + dropCnt + Len(drainCh) + Held + Uncounted'
        <4>1. offered' = offered + 1
          BY <2>1
        <4>3. offered = OnTape + dropCnt + Len(drainCh) + Held + Uncounted
          BY <1>6, <3>1
        <4> QED
          BY <1>7, <1>12, <1>13, <2>2, <4>1, <4>3
      <3> QED
        BY <1>2, <2>1, <3>1 DEF NothingUnaccounted, Held, OnTape
    <2> QED
      BY <1>1, <1>4, <2>3, <2>4 DEF CapInv
  <1>11. CASE OfferCounts(o)
    <2>1. /\ offered' = offered /\ dropCnt' = dropCnt + 1 /\ drainCh' = drainCh
          /\ offerPc' = [offerPc EXCEPT ![o] = "idle"] /\ offerPc[o] = "dropping"
      BY <1>11 DEF OfferCounts
    <2>2. Uncounted' = Uncounted - 1 /\ Uncounted' \in Nat
      <3> DEFINE p == "idle"
      <3>1. offerPc' = [offerPc EXCEPT ![o] = p] /\ offerPc[o] = "dropping" /\ p # "dropping"
        BY <2>1
      <3> HIDE DEF p
      <3>2. Uncounted' \in Nat
        BY <1>0, <3>1, UncountedMoves
      <3>3. p # "dropping" /\ offerPc[o] = "dropping" => Uncounted' = Uncounted - 1
        BY <1>0, <3>1, UncountedMoves
      <3> QED
        BY <3>1, <3>2, <3>3
    <2>3. Types'
      BY <1>2, <1>5, <2>1 DEF CapInv, Types
    <2>4. Stages'
      BY <1>2, <1>3, <2>1 DEF CapInv, Stages
    <2>5. NothingUnaccounted'
      <3>1. ASSUME ~tape.err
            PROVE  offered = OnTape + (dropCnt + 1) + Len(drainCh) + Held + Uncounted'
        <4>3. offered = OnTape + dropCnt + Len(drainCh) + Held + Uncounted
          BY <1>6, <3>1
        <4> QED
          BY <1>7, <1>12, <1>13, <2>2, <4>3, UncountedIsNat
      <3> QED
        BY <1>2, <2>1, <3>1 DEF NothingUnaccounted, Held, OnTape
    <2> QED
      BY <1>1, <1>4, <2>3, <2>4, <2>5 DEF CapInv
  <1> QED
    BY <1>8, <1>9, <1>10, <1>11 DEF Offer

\* Asking for the figures and closing leave the tape, the channel and the drops.
LEMMA CloseKeepsCap ==
  ASSUME CapInv, Close
  PROVE  CapInv'
  <1>1. CloseOrderInv'
    BY CloseKeepsCloseOrder DEF CapInv
  <1>2. /\ UNCHANGED <<ordered, offerPc, offered, drainCh, dropCnt, inHand, drainPc, tape, killed>>
        /\ killed = "no"
    BY DEF Close, ReadStats, CloseSwaps, CloseChannel, CloseReturns, Alive
  <1>3. Types'
    BY <1>2 DEF CapInv, Types, Close, ReadStats, CloseSwaps, CloseChannel, CloseReturns
  <1>4. Stages'
    <2>1. CASE ReadStats
      BY <1>2, <2>1 DEF CapInv, Stages, ReadStats
    <2>2. CASE CloseSwaps
      BY <1>2, <2>2 DEF CapInv, Stages, CloseSwaps
    <2>3. CASE CloseChannel
      BY <1>2, <2>3 DEF CapInv, Stages, CloseChannel
    <2>4. CASE CloseReturns
      BY <1>2, <2>4 DEF CapInv, Stages, CloseReturns
    <2> QED
      BY <2>1, <2>2, <2>3, <2>4 DEF Close
  <1>5. TapeHolds' /\ KilledTapeReplaysButRotating' /\ NothingUnaccounted'
    BY <1>2 DEF CapInv, TapeHolds, KilledTapeReplaysButRotating, KilledTapeReplays,
       NothingUnaccounted, Uncounted
  <1>6. LagInv'
    <2>1. CASE ReadStats
      <3>1. Sound(tape)
        BY <1>2 DEF CapInv, TapeHolds
      <3>2. tape.files \in Seq(File) /\ tape.gaps \in Nat /\ NewFile \in File
        BY <3>1, NewFileIsFile DEF Sound, Tapes
      <3>3. Written \in Seq(Rec)
        BY <3>2, ReplayedAppend DEF Written
      <3>4. Len(Written) \in Nat /\ Len(tape.files) \in Nat /\ dropCnt \in Nat
            /\ Len(drainCh) \in Nat /\ Len(drainCh) <= BufSize /\ BufSize \in Nat
        BY <3>2, <3>3, LenProperties, BufSizeAssumption DEF CapInv, Types
      <3>5. stats' = [written |-> Len(Written), dropped |-> dropCnt, files |-> Len(tape.files)]
        BY <2>1 DEF ReadStats, Stats, Written
      <3>6. Written' = Written
        BY <1>2 DEF Written
      <3> HIDE DEF Written
      <3>7. ToBeWritten <= Len(Written) + BufSize + 2 /\ dropCnt <= Counted
        BY <3>2, <3>4 DEF ToBeWritten, Counted, Held
      <3>8. ToBeWritten' = ToBeWritten /\ Counted' = Counted
        BY <1>2, <3>6 DEF ToBeWritten, Counted, Held
      <3> QED
        BY <1>2, <3>4, <3>5, <3>6, <3>7, <3>8 DEF LagInv
    <2>2. CASE CloseSwaps \/ CloseChannel \/ CloseReturns
      <3>1. stats' = stats /\ (ordered => closePc # "running")
        BY <2>2 DEF CloseSwaps, CloseChannel, CloseReturns
      <3>2. Written' = Written /\ ToBeWritten' = ToBeWritten /\ Counted' = Counted
        BY <1>2 DEF Written, ToBeWritten, Counted, Held
      <3> QED
        BY <1>2, <3>1, <3>2 DEF CapInv, LagInv
    <2> QED
      BY <2>1, <2>2 DEF Close
  <1> QED
    BY <1>1, <1>3, <1>4, <1>5, <1>6 DEF CapInv

\* What is true of the tape while the process lives.
LEMMA AliveTape ==
  ASSUME CapInv, Alive
  PROVE  /\ Sound(tape) /\ tape.evs \in Nat /\ tape.gaps \in Nat /\ OnTape \in Nat
         /\ tape.files \in Seq(File) /\ Len(tape.files) \in Nat
         /\ Written \in Seq(Rec) /\ Len(Written) \in Nat
         /\ killed = "no" /\ (~tape.err => (tape.open <=> drainPc # "done"))
  <1>1. Sound(tape) /\ killed = "no" /\ (~tape.err => (tape.open <=> drainPc # "done"))
    BY DEF CapInv, TapeHolds, Alive
  <1>2. tape.evs \in Nat /\ tape.gaps \in Nat /\ tape.files \in Seq(File)
    BY <1>1 DEF Sound, Tapes
  <1>3. OnTape \in Nat
    BY <1>2 DEF OnTape
  <1>4. Written \in Seq(Rec)
    BY <1>2, NewFileIsFile, ReplayedAppend DEF Written
  <1> QED
    BY <1>1, <1>2, <1>3, <1>4, LenProperties

\* The figures stay within the bound when the tape grows by what was queued.
LEMMA LagKept ==
  ASSUME CapInv, Alive, UNCHANGED <<ordered, closePc, stats, killed>>,
         tape.err => tape'.err,
         ~tape'.err => /\ Len(Written') \in Nat /\ Len(Written) <= Len(Written')
                       /\ ToBeWritten \in Nat /\ ToBeWritten' \in Nat
                       /\ ToBeWritten' <= ToBeWritten
                       /\ Counted \in Nat /\ Counted' \in Nat /\ Counted <= Counted'
                       /\ Len(tape'.files) \in Nat /\ Len(tape.files) <= Len(tape'.files)
  PROVE  LagInv'
  <1> SUFFICES ASSUME ordered, closePc # "running", ~tape'.err
               PROVE  /\ stats.written \in Nat /\ stats.dropped \in Nat /\ stats.files \in Nat
                      /\ stats.written <= Len(Written')
                      /\ ToBeWritten' <= stats.written + BufSize + 2
                      /\ stats.dropped <= Counted' /\ stats.files <= Len(tape'.files)
    BY DEF LagInv
  <1> DEFINE w == stats.written
             d == stats.dropped
             f == stats.files
  <1>1. /\ w \in Nat /\ d \in Nat /\ f \in Nat
        /\ w <= Len(Written) /\ ToBeWritten <= w + BufSize + 2
        /\ d <= Counted /\ f <= Len(tape.files)
    BY DEF CapInv, LagInv, Alive
  <1> HIDE DEF w, d, f
  <1>2. Len(Written) \in Nat /\ Len(tape.files) \in Nat /\ BufSize \in Nat
    BY AliveTape, BufSizeAssumption
  <1>3. w <= Len(Written') /\ ToBeWritten' <= w + BufSize + 2
    BY <1>1, <1>2
  <1>4. d <= Counted' /\ f <= Len(tape'.files)
    BY <1>1, <1>2, SMTT(30)
  <1> QED
    BY <1>1, <1>3, <1>4 DEF w, d, f

\* How long the tape is once the drops are announced, and the event written.
LEMMA ToldLength ==
  ASSUME NEW r \in Seq(Rec), NEW d \in Nat, NEW i \in Nat
  PROVE  /\ Told(r, d) \in Seq(Rec) /\ ToldAnd(r, d, i) \in Seq(Rec) /\ Len(r) \in Nat
         /\ Len(Told(r, d)) = Len(r) + (IF d = 0 THEN 0 ELSE 1)
         /\ Len(ToldAnd(r, d, i)) = Len(r) + (IF d = 0 THEN 0 ELSE 1) + 1
  <1>1. Gap(d) \in Rec /\ Ev(i) \in Rec
    BY RecordTypes
  <1>2. Len(r) \in Nat
    BY LenProperties
  <1>3. /\ Append(r, Gap(d)) \in Seq(Rec) /\ Len(Append(r, Gap(d))) = Len(r) + 1
    BY <1>1, AppendProperties
  <1>4. Told(r, d) \in Seq(Rec) /\ Len(Told(r, d)) = Len(r) + (IF d = 0 THEN 0 ELSE 1)
    BY <1>2, <1>3 DEF Told
  <1>5. /\ ToldAnd(r, d, i) \in Seq(Rec) /\ Len(ToldAnd(r, d, i)) = Len(Told(r, d)) + 1
    BY <1>1, <1>4, AppendProperties DEF ToldAnd
  <1> QED
    BY <1>2, <1>4, <1>5

\* The event taken out of the channel is in the goroutine's hand.
LEMMA DrainTakesKeepsCap ==
  ASSUME CapInv, DrainTakes
  PROVE  CapInv'
  <1>1. /\ Alive /\ drainPc = "select" /\ drainCh # <<>> /\ drainPc' = "got"
        /\ inHand' = Head(drainCh) /\ drainCh' = Tail(drainCh)
        /\ UNCHANGED <<ordered, offerPc, offered, closed, chClosed, dropCnt, closePc, stats, tape,
                       killed>>
    BY DEF DrainTakes
  <1>2. CloseOrderInv'
    BY <1>1, ElsewhereKeepsCloseOrder DEF CapInv
  <1>3. drainCh \in Seq(Nat) /\ Len(drainCh) \in Nat /\ Len(drainCh) <= BufSize /\ BufSize \in Nat
    BY LenProperties, BufSizeAssumption DEF CapInv, Types
  <1>4. /\ Head(drainCh) \in Nat /\ Tail(drainCh) \in Seq(Nat)
        /\ Len(Tail(drainCh)) = Len(drainCh) - 1 /\ Len(Tail(drainCh)) \in Nat
    BY <1>1, <1>3, HeadTailProperties, LenProperties
  <1>5. Types'
    BY <1>1, <1>3, <1>4 DEF CapInv, Types
  <1>6. Stages' /\ TapeHolds' /\ KilledTapeReplaysButRotating'
    BY <1>1 DEF CapInv, Stages, TapeHolds, KilledTapeReplaysButRotating, KilledTapeReplays
  <1>7. /\ OnTape' = OnTape /\ Uncounted' = Uncounted /\ Counted' = Counted /\ Written' = Written
        /\ Held = 0 /\ Held' = 1
    BY <1>1 DEF OnTape, Uncounted, Counted, Written, Held
  <1>8. OnTape \in Nat /\ Uncounted \in Nat /\ dropCnt \in Nat /\ Len(Written) \in Nat
        /\ Len(tape.files) \in Nat /\ tape.gaps \in Nat
    BY <1>1, AliveTape, UncountedIsNat DEF CapInv, Types
  <1>9. NothingUnaccounted'
    <2>1. ASSUME ~tape.err
          PROVE  offered = OnTape + dropCnt + Len(Tail(drainCh)) + 1 + Uncounted
      <3>1. offered = OnTape + dropCnt + Len(drainCh) + Held + Uncounted
        BY <2>1 DEF CapInv, NothingUnaccounted, OnTape, Held
      <3> QED
        BY <1>3, <1>4, <1>7, <1>8, <3>1
    <2> QED
      BY <1>1, <1>7, <2>1 DEF NothingUnaccounted, OnTape
  <1>10. LagInv'
    <2> DEFINE p == IF dropCnt = 0 THEN 0 ELSE 1
    <2>1. p \in Nat
      OBVIOUS
    <2>2. /\ ToBeWritten = Len(Written) + Len(drainCh) + Held + p
          /\ ToBeWritten' = Len(Written) + Len(Tail(drainCh)) + Held' + p
      BY <1>1, <1>7 DEF ToBeWritten
    <2> HIDE DEF p
    <2>3. ToBeWritten \in Nat /\ ToBeWritten' = ToBeWritten
      BY <1>3, <1>4, <1>7, <1>8, <2>1, <2>2
    <2>4. Counted \in Nat
      BY <1>8 DEF Counted
    <2> QED
      BY <1>1, <1>7, <1>8, <2>3, <2>4, LagKept
  <1> QED
    BY <1>2, <1>5, <1>6, <1>9, <1>10 DEF CapInv

\* The drops and the event in hand are written, and counted as written.
LEMMA DrainWritesKeepsCap ==
  ASSUME CapInv, DrainWrites
  PROVE  CapInv'
  <1> DEFINE d == dropCnt
             p == IF d = 0 THEN 0 ELSE 1
  <1>1. /\ Alive /\ drainPc = "got" /\ drainPc' = "select" /\ dropCnt' = 0 /\ inHand' = 0
        /\ tape' \in WriteEvent(tape, d, inHand)
        /\ UNCHANGED <<ordered, offerPc, offered, closed, chClosed, drainCh, closePc, stats,
                       killed>>
    BY DEF DrainWrites
  <1>2. CloseOrderInv'
    BY <1>1, ElsewhereKeepsCloseOrder DEF CapInv
  <1>3. /\ Sound(tape) /\ (tape.err \/ tape.open) /\ d \in Nat /\ inHand \in Nat /\ p \in Nat
        /\ Len(drainCh) \in Nat
    BY <1>1, AliveTape, LenProperties DEF CapInv, Types
  <1>4. /\ Sound(tape') /\ Grows(tape, tape') /\ (tape'.err \/ tape'.open)
        /\ ~tape'.err => /\ Written' = ToldAnd(Written, d, inHand)
                         /\ tape'.evs = tape.evs + 1 /\ tape'.gaps = tape.gaps + d
    <2> HIDE DEF d, p
    <2> QED
      BY <1>1, <1>3, WriteEventDoes DEF Written
  <1>5. Types' /\ Stages'
    BY <1>1 DEF CapInv, Types, Stages
  <1>6. TapeHolds' /\ KilledTapeReplaysButRotating'
    BY <1>1, <1>4, AliveTape DEF TapeHolds, KilledTapeReplaysButRotating, KilledTapeReplays
  <1>7. /\ OnTape \in Nat /\ Uncounted \in Nat /\ Len(tape.files) \in Nat
        /\ tape.gaps \in Nat /\ tape.evs \in Nat /\ Written \in Seq(Rec)
        /\ Uncounted' = Uncounted /\ Held = 1 /\ Held' = 0
    BY <1>1, AliveTape, UncountedIsNat DEF Uncounted, Held
  <1>8. ASSUME ~tape'.err
        PROVE  OnTape' = OnTape + d + 1 /\ Counted' = Counted /\ Counted \in Nat
    <2> DEFINE e == tape.evs
               g == tape.gaps
               e2 == tape'.evs
               g2 == tape'.gaps
    <2>1. OnTape = e + g /\ OnTape' = e2 + g2 /\ Counted = d + g /\ Counted' = 0 + g2
      BY <1>1 DEF OnTape, Counted
    <2>2. e \in Nat /\ g \in Nat /\ d \in Nat /\ e2 = e + 1 /\ g2 = g + d
      BY <1>8, <1>3, <1>4, <1>7
    <2> HIDE DEF e, g, e2, g2, d
    <2> QED
      BY <2>1, <2>2
  <1>9. (tape.err => tape'.err) /\ Len(tape.files) <= Len(tape'.files)
    BY <1>4 DEF Grows
  <1>10. Len(tape'.files) \in Nat
    BY <1>4, LenProperties DEF Sound, Tapes
  <1>11. NothingUnaccounted'
    <2>1. ASSUME ~tape'.err
          PROVE  offered = OnTape' + 0 + Len(drainCh) + Held' + Uncounted'
      <3>1. offered = OnTape + d + Len(drainCh) + Held + Uncounted
        BY <2>1, <1>9 DEF CapInv, NothingUnaccounted, OnTape, Held
      <3>2. OnTape' = OnTape + d + 1
        BY <2>1, <1>8
      <3> HIDE DEF d
      <3> QED
        BY <1>3, <1>7, <3>1, <3>2
    <2> QED
      BY <1>1, <2>1 DEF NothingUnaccounted, OnTape, Held
  <1>12. LagInv'
    <2>1. /\ ToBeWritten = Len(Written) + Len(drainCh) + Held + p
          /\ ToBeWritten' = Len(Written') + Len(drainCh) + Held' + 0
      BY <1>1 DEF ToBeWritten
    <2> HIDE DEF p, d
    <2>2. Len(Written) \in Nat /\ Len(ToldAnd(Written, d, inHand)) = Len(Written) + p + 1
      BY <1>3, <1>7, ToldLength DEF p
    <2>3. ASSUME ~tape'.err
          PROVE  /\ Len(Written') = Len(Written) + p + 1
                 /\ Counted \in Nat /\ Counted' = Counted
      BY <1>4, <1>8, <2>2, <2>3
    <2>4. ASSUME ~tape'.err
          PROVE  /\ ToBeWritten \in Nat /\ ToBeWritten' = ToBeWritten
                 /\ Len(Written') \in Nat /\ Len(Written) <= Len(Written')
      BY <1>3, <1>7, <2>1, <2>2, <2>3, <2>4
    <2>5. ASSUME ~tape'.err
          PROVE  ToBeWritten' \in Nat /\ ToBeWritten' <= ToBeWritten
      BY <2>4, <2>5
    <2>6. ASSUME ~tape'.err
          PROVE  Counted' \in Nat /\ Counted <= Counted'
      BY <2>3, <2>6
    <2> QED
      BY <1>1, <1>7, <1>9, <1>10, <2>2, <2>3, <2>4, <2>5, <2>6, LagKept
  <1> QED
    BY <1>2, <1>5, <1>6, <1>11, <1>12 DEF CapInv

\* A flush changes what is on disk only.
LEMMA DrainFlushesKeepsCap ==
  ASSUME CapInv, DrainFlushes
  PROVE  CapInv'
  <1>1. /\ Alive /\ drainPc = "select" /\ tape' \in Flush(tape)
        /\ UNCHANGED <<ordered, offerPc, offered, closed, chClosed, drainCh, dropCnt, inHand,
                       drainPc, closePc, stats, killed>>
    BY DEF DrainFlushes
  <1>2. CloseOrderInv'
    BY <1>1, ElsewhereKeepsCloseOrder DEF CapInv
  <1>3. Sound(tape') /\ Grows(tape, tape') /\ SameRecords(tape, tape') /\ tape'.open = tape.open
    BY <1>1, AliveTape, FlushDoes
  <1>4. (tape.err => tape'.err) /\ Len(tape.files) <= Len(tape'.files)
    BY <1>3 DEF Grows
  <1>5. Len(tape'.files) \in Nat
    BY <1>3, LenProperties DEF Sound, Tapes
  <1>6. Types' /\ Stages'
    BY <1>1 DEF CapInv, Types, Stages
  <1>7. TapeHolds' /\ KilledTapeReplaysButRotating'
    BY <1>1, <1>3, <1>4, AliveTape DEF TapeHolds, KilledTapeReplaysButRotating, KilledTapeReplays
  <1>8. /\ Written' = Written /\ tape'.evs = tape.evs /\ tape'.gaps = tape.gaps
        /\ Uncounted' = Uncounted
    BY <1>1, <1>3 DEF SameRecords, Written, Uncounted
  <1>9. NothingUnaccounted'
    BY <1>1, <1>4, <1>8 DEF CapInv, NothingUnaccounted
  <1>10. LagInv'
    <2>1. ToBeWritten' = ToBeWritten /\ Counted' = Counted
      BY <1>1, <1>8 DEF ToBeWritten, Counted, Held
    <2>2. ASSUME ordered, closePc # "running", ~tape'.err
          PROVE  /\ stats.written \in Nat /\ stats.dropped \in Nat /\ stats.files \in Nat
                 /\ stats.written <= Len(Written) /\ ToBeWritten <= stats.written + BufSize + 2
                 /\ stats.dropped <= Counted /\ stats.files <= Len(tape.files)
      BY <2>2, <1>1, <1>4, AliveTape DEF CapInv, LagInv
    <2>3. Len(tape.files) \in Nat
      BY <1>1, AliveTape
    <2>4. ASSUME ordered, closePc # "running", ~tape'.err
          PROVE  stats.files <= Len(tape'.files)
      BY <1>4, <1>5, <2>2, <2>3, <2>4
    <2> QED
      BY <1>1, <1>8, <2>1, <2>2, <2>4 DEF LagInv
  <1> QED
    BY <1>2, <1>6, <1>7, <1>9, <1>10 DEF CapInv

\* The final gap is announced and the last file closed.
LEMMA DrainFinishesKeepsCap ==
  ASSUME CapInv, DrainFinishes
  PROVE  CapInv'
  <1> DEFINE d == dropCnt
             p == IF d = 0 THEN 0 ELSE 1
  <1>1. /\ Alive /\ drainPc = "select" /\ chClosed /\ drainCh = <<>> /\ drainPc' = "done"
        /\ dropCnt' = 0 /\ \E t \in WriteFinalGap(tape, d) : tape' \in CloseCurrent(t)
        /\ UNCHANGED <<ordered, offerPc, offered, closed, chClosed, drainCh, inHand, closePc, stats,
                       killed>>
    BY DEF DrainFinishes
  <1>2. CloseOrderInv'
    BY <1>1, ElsewhereKeepsCloseOrder DEF CapInv
  <1>3. Sound(tape) /\ (tape.err \/ tape.open) /\ d \in Nat /\ p \in Nat
    BY <1>1, AliveTape DEF CapInv, Types
  <1>4. PICK t \in WriteFinalGap(tape, d) : tape' \in CloseCurrent(t)
    BY <1>1
  <1>5. /\ Sound(t) /\ Grows(tape, t)
        /\ ~t.err => /\ Replayed(t.files) = Told(Written, d)
                     /\ t.evs = tape.evs /\ t.gaps = tape.gaps + d
    <2> HIDE DEF d, p
    <2> QED
      BY <1>3, <1>4, FinalGapDoes DEF Written
  <1>6. Sound(tape') /\ SameRecords(t, tape') /\ Grows(t, tape') /\ ~tape'.open
    BY <1>4, <1>5, CloseDoes
  <1>7. Grows(tape, tape')
    BY <1>3, <1>5, <1>6, GrowsOn
  <1>8. ~tape'.err => /\ Written' = Told(Written, d)
                     /\ tape'.evs = tape.evs /\ tape'.gaps = tape.gaps + d
    BY <1>5, <1>6 DEF SameRecords, Grows, Written
  <1>9. Types' /\ Stages'
    BY <1>1 DEF CapInv, Types, Stages
  <1>10. TapeHolds' /\ KilledTapeReplaysButRotating'
    BY <1>1, <1>6, AliveTape DEF TapeHolds, KilledTapeReplaysButRotating, KilledTapeReplays
  <1>11. /\ OnTape \in Nat /\ Uncounted \in Nat /\ Len(tape.files) \in Nat
         /\ tape.gaps \in Nat /\ tape.evs \in Nat /\ Written \in Seq(Rec)
         /\ Uncounted' = Uncounted /\ Held = 0 /\ Held' = 0
    BY <1>1, AliveTape, UncountedIsNat DEF Uncounted, Held
  <1>12. ASSUME ~tape'.err
        PROVE  OnTape' = OnTape + d /\ Counted' = Counted /\ Counted \in Nat
    <2> DEFINE e == tape.evs
               g == tape.gaps
               e2 == tape'.evs
               g2 == tape'.gaps
    <2>1. OnTape = e + g /\ OnTape' = e2 + g2 /\ Counted = d + g /\ Counted' = 0 + g2
      BY <1>1 DEF OnTape, Counted
    <2>2. e \in Nat /\ g \in Nat /\ d \in Nat /\ e2 = e /\ g2 = g + d
      BY <1>12, <1>3, <1>8, <1>11
    <2> HIDE DEF e, g, e2, g2, d
    <2> QED
      BY <2>1, <2>2
  <1>13. (tape.err => tape'.err) /\ Len(tape.files) <= Len(tape'.files)
    BY <1>7 DEF Grows
  <1>14. Len(tape'.files) \in Nat
    BY <1>6, LenProperties DEF Sound, Tapes
  <1>15. Len(drainCh) = 0
    BY <1>1
  <1>16. NothingUnaccounted'
    <2>1. ASSUME ~tape'.err
          PROVE  offered = OnTape' + 0 + Len(drainCh) + Held' + Uncounted'
      <3>1. offered = OnTape + d + Len(drainCh) + Held + Uncounted
        BY <2>1, <1>13 DEF CapInv, NothingUnaccounted, OnTape, Held
      <3>2. OnTape' = OnTape + d
        BY <2>1, <1>12
      <3> HIDE DEF d
      <3> QED
        BY <1>3, <1>11, <1>15, <3>1, <3>2
    <2> QED
      BY <1>1, <2>1 DEF NothingUnaccounted, OnTape, Held
  <1>17. LagInv'
    <2>1. /\ ToBeWritten = Len(Written) + Len(drainCh) + Held + p
          /\ ToBeWritten' = Len(Written') + Len(drainCh) + Held' + 0
      BY <1>1 DEF ToBeWritten
    <2> HIDE DEF p, d
    <2>2. Len(Written) \in Nat /\ Len(Told(Written, d)) = Len(Written) + p
      BY <1>3, <1>11, ToldLength DEF p
    <2>3. ASSUME ~tape'.err
          PROVE  /\ Len(Written') = Len(Written) + p
                 /\ Counted \in Nat /\ Counted' = Counted
      BY <1>8, <1>12, <2>2, <2>3
    <2>4. ASSUME ~tape'.err
          PROVE  /\ ToBeWritten \in Nat /\ ToBeWritten' = ToBeWritten
                 /\ Len(Written') \in Nat /\ Len(Written) <= Len(Written')
      BY <1>3, <1>11, <1>15, <2>1, <2>2, <2>3, <2>4
    <2>5. ASSUME ~tape'.err
          PROVE  ToBeWritten' \in Nat /\ ToBeWritten' <= ToBeWritten
      BY <2>4, <2>5
    <2>6. ASSUME ~tape'.err
          PROVE  Counted' \in Nat /\ Counted <= Counted'
      BY <2>3, <2>6
    <2> QED
      BY <1>1, <1>11, <1>13, <1>14, <2>2, <2>3, <2>4, <2>5, <2>6, LagKept
  <1> QED
    BY <1>2, <1>9, <1>10, <1>16, <1>17 DEF CapInv

\* What a kill changes of the state: the files.
LEMMA KilledTape ==
  ASSUME CapInv, Alive, NEW files, tape' = [tape EXCEPT !.files = files]
  PROVE  /\ tape'.files = files /\ tape'.err = tape.err
         /\ tape'.evs = tape.evs /\ tape'.gaps = tape.gaps
  <1>1. tape \in Tapes
    BY AliveTape DEF Sound
  <1> QED
    BY <1>1 DEF Tapes

\* A kill cuts the last file or strikes just after it was finished.
LEMMA KillCuts ==
  ASSUME CapInv, Kill
  PROVE  \E c \in Cuts(LastOf(tape)) \cup {Finished(LastOf(tape))} :
            tape' = [tape EXCEPT !.files = [tape.files EXCEPT ![Len(tape.files)] = c]]
  <1> DEFINE now == IF drainPc = "got" /\ tape.open /\ ~tape.err
                    THEN {[tape.files EXCEPT ![Len(tape.files)] = Finished(@)]} ELSE {}
  <1>1. PICK files \in AfterKill(tape.files) \cup now : tape' = [tape EXCEPT !.files = files]
    BY DEF Kill
  <1>2. CASE files \in AfterKill(tape.files)
    BY <1>1, <1>2 DEF AfterKill, LastOf
  <1>3. CASE files \in now
    BY <1>1, <1>3 DEF LastOf
  <1> QED
    BY <1>1, <1>2, <1>3

\* A kill leaves a tape that replays, but for the window of a rotation.
LEMMA KillKeepsCap ==
  ASSUME CapInv, Kill \/ KillRotating
  PROVE  CapInv'
  <1>1. /\ Alive /\ killed' \in {"anytime", "rotating"}
        /\ UNCHANGED <<ordered, offerPc, offered, closed, chClosed, drainCh, dropCnt, inHand,
                       drainPc, closePc, stats>>
        /\ \E files : tape' = [tape EXCEPT !.files = files]
    BY DEF Kill, KillRotating
  <1>2. CloseOrderInv'
    BY <1>1, ElsewhereKeepsCloseOrder DEF CapInv
  <1>3. Types' /\ Stages' /\ TapeHolds' /\ LagInv'
    BY <1>1 DEF CapInv, Types, Stages, TapeHolds, LagInv
  <1>4. tape'.err = tape.err /\ tape'.evs = tape.evs /\ tape'.gaps = tape.gaps
    BY <1>1, KilledTape
  <1>5. NothingUnaccounted'
    <2>1. Uncounted' = Uncounted
      BY <1>1 DEF Uncounted
    <2> QED
      BY <1>1, <1>4, <2>1 DEF CapInv, NothingUnaccounted
  <1>6. KilledTapeReplaysButRotating'
    <2>1. CASE KillRotating
      BY <2>1 DEF KillRotating, KilledTapeReplaysButRotating
    <2>2. CASE Kill
      <3>1. PICK c \in Cuts(LastOf(tape)) \cup {Finished(LastOf(tape))} :
               tape' = [tape EXCEPT !.files = [tape.files EXCEPT ![Len(tape.files)] = c]]
        BY <2>2, KillCuts
      <3> DEFINE u == [tape.files EXCEPT ![Len(tape.files)] = c]
      <3>2. ~tape.err => ~ReplayFails(u)
        BY <1>1, AliveTape, KillDoes
      <3>3. tape'.files = u
        BY <1>1, <3>1, KilledTape
      <3> HIDE DEF u
      <3> QED
        BY <1>4, <3>2, <3>3 DEF KilledTapeReplaysButRotating, KilledTapeReplays
    <2> QED
      BY <2>1, <2>2
  <1> QED
    BY <1>2, <1>3, <1>5, <1>6 DEF CapInv

\* The invariant is inductive.
LEMMA NextCap == CapInv /\ [Next]_vars => CapInv'
  <1> SUFFICES ASSUME CapInv, [Next]_vars
               PROVE  CapInv'
    OBVIOUS
  <1>1. ASSUME NEW o \in Offerers, Offer(o) PROVE CapInv'
    BY <1>1, OfferKeepsCap
  <1>2. CASE Drain
    BY <1>2, DrainTakesKeepsCap, DrainWritesKeepsCap, DrainFlushesKeepsCap, DrainFinishesKeepsCap
       DEF Drain
  <1>3. CASE Close
    BY <1>3, CloseKeepsCap
  <1>4. CASE Kill \/ KillRotating
    BY <1>4, KillKeepsCap
  <1>5. CASE UNCHANGED vars
    BY <1>5 DEF vars, CapInv, CloseOrderInv, OrderedOfferNeverPanics, OfferNeverPanics, Types,
       Stages, TapeHolds, NothingUnaccounted, Uncounted, KilledTapeReplaysButRotating, KilledTapeReplays,
       LagInv, ToBeWritten, Counted, Held, Written
  <1> QED
    BY <1>1, <1>2, <1>3, <1>4, <1>5 DEF Next

\* The invariant holds always.
THEOREM CapInvHolds == Spec => []CapInv
  BY InitCap, NextCap, PTL DEF Spec

\* Until an I/O error every event that was offered is accounted for: on the tape, in
\* a gap of it, pending as a drop, in the channel or in the drain goroutine's hand.
THEOREM EveryOfferAccountedFor == Spec => []NothingUnaccounted
  <1>1. CapInv => NothingUnaccounted
    BY DEF CapInv
  <1> QED
    BY <1>1, CapInvHolds, PTL

\* However the open file is cut by a kill, ReplayRun reads what is left, unless the
\* kill strikes between a rotation's create and its header.
THEOREM KilledTapesReplay == Spec => []KilledTapeReplaysButRotating
  <1>1. CapInv => KilledTapeReplaysButRotating
    BY DEF CapInv
  <1> QED
    BY <1>1, CapInvHolds, PTL

\* Close without an error leaves a tape that reads to its end and accounts for
\* every event offered.
THEOREM CleanCloseCompletes == Spec => []CleanCloseIsComplete
  <1>1. CapInv => CleanCloseIsComplete
    <2> SUFFICES ASSUME CapInv, ordered, closePc = "returned", ~tape.err, killed = "no"
                 PROVE  /\ ~ReplayFails(tape.files) /\ ~Truncated(tape.files)
                        /\ ~RunsFails(tape.files)
                        /\ EventsIn(Written) + SumOfGaps(Written) = offered
      BY DEF CleanCloseIsComplete
    <2>1. /\ drainPc = "done" /\ drainCh = <<>> /\ dropCnt = 0
          /\ \A o \in Offerers : offerPc[o] = "done"
      BY DEF CapInv, Stages, CloseOrderInv
    <2>2. Sound(tape) /\ ~tape.open
      BY <2>1 DEF CapInv, TapeHolds
    <2>3. ~ReplayFails(tape.files) /\ ~Truncated(tape.files) /\ ~RunsFails(tape.files)
      BY <2>2, ClosedDurable
    <2>4. Uncounted = 0
      <3>1. {o \in Offerers : offerPc[o] = "dropping"} = {}
        BY <2>1
      <3> QED
        BY <3>1, FS_EmptySet DEF Uncounted
    <2>5. EventsIn(Written) = tape.evs /\ SumOfGaps(Written) = tape.gaps
      BY <2>2 DEF Sound, Written
    <2>6. tape.evs \in Nat /\ tape.gaps \in Nat
      BY <2>2 DEF Sound, Tapes
    <2>7. offered = tape.evs + tape.gaps + 0 + 0 + 0 + 0
      <3>1. Len(drainCh) = 0
        BY <2>1
      <3> QED
        BY <2>1, <2>4, <3>1 DEF CapInv, NothingUnaccounted
    <2>8. EventsIn(Written) + SumOfGaps(Written) = offered
      <3> DEFINE e == tape.evs
                 g == tape.gaps
      <3>1. e \in Nat /\ g \in Nat /\ offered = e + g + 0 + 0 + 0 + 0
            /\ EventsIn(Written) = e /\ SumOfGaps(Written) = g
        BY <2>5, <2>6, <2>7
      <3> HIDE DEF e, g
      <3> QED
        BY <3>1
    <2> QED
      BY <2>3, <2>8
  <1> QED
    BY <1>1, CapInvHolds, PTL

\* The figures the daemon prints miss at most a full buffer, the event in hand and
\* one last gap, and claim no drop and no file too many.
THEOREM StatsLagIsBounded == Spec => []StatsLagBounded
  <1>1. CapInv => StatsLagBounded
    <2> SUFFICES ASSUME CapInv, ordered, closePc = "returned", ~tape.err, killed = "no"
                 PROVE  /\ Len(Written) - stats.written \in 0..BufSize + 2
                        /\ stats.dropped <= SumOfGaps(Written)
                        /\ stats.files <= Len(tape.files)
      BY DEF StatsLagBounded
    <2> DEFINE w == stats.written
               g == tape.gaps
    <2>1. drainPc = "done" /\ drainCh = <<>> /\ dropCnt = 0
      BY DEF CapInv, Stages
    <2>2. Sound(tape)
      BY DEF CapInv, TapeHolds
    <2>3. SumOfGaps(Written) = g /\ g \in Nat
      BY <2>2 DEF Sound, Tapes, Written
    <2>4. /\ w \in Nat /\ w <= Len(Written) /\ ToBeWritten <= w + BufSize + 2
          /\ stats.dropped <= Counted /\ stats.files <= Len(tape.files)
      BY DEF CapInv, LagInv
    <2>5. Len(Written) \in Nat /\ BufSize \in Nat
      <3>1. tape.files \in Seq(File)
        BY <2>2 DEF Sound, Tapes
      <3>2. Written \in Seq(Rec)
        BY <3>1, NewFileIsFile, ReplayedAppend DEF Written
      <3> QED
        BY <3>2, LenProperties, BufSizeAssumption
    <2>6. Held = 0 /\ Len(drainCh) = 0
      BY <2>1 DEF Held
    <2>7. ToBeWritten = Len(Written) /\ Counted = g
      <3>1. ToBeWritten = Len(Written) + 0 + 0 + 0 /\ Counted = 0 + g
        BY <2>1, <2>6 DEF ToBeWritten, Counted
      <3> HIDE DEF g
      <3> QED
        BY <2>3, <2>5, <3>1
    <2>8. Len(Written) - w \in 0..BufSize + 2
      <3> HIDE DEF w
      <3> QED
        BY <2>4, <2>5, <2>7
    <2> QED
      BY <2>3, <2>4, <2>7, <2>8
  <1> QED
    BY <1>1, CapInvHolds, PTL

-----------------------------------------------------------------------------
(* The order of the tape.                                                  *)

\* GapNeverLate, of any records.
InTime(recs) ==
  \A i \in 1..Len(recs) :
    recs[i].gap = 0 =>
      /\ \A j \in 1..i-1 : recs[j].id < recs[i].id
      /\ EventsIn(SubSeq(recs, 1, i)) + SumOfGaps(SubSeq(recs, 1, i)) >= recs[i].id

\* A beginning of an orderly tape is one.
LEMMA InTimeBeginning ==
  ASSUME NEW s \in Seq(Rec), InTime(s), NEW n \in 0..Len(s)
  PROVE  InTime(SubSeq(s, 1, n))
  <1> DEFINE b == SubSeq(s, 1, n)
  <1>1. /\ b \in Seq(Rec) /\ Len(b) = n /\ \A i \in 1..n : b[i] = s[i]
    BY Beginning
  <1>2. Len(s) \in Nat /\ n \in Nat /\ n <= Len(s)
    BY LenProperties
  <1>3. Ev(0) \in Rec
    BY RecordTypes
  <1>4. \A i \in 0..n : SubSeq(b, 1, i) = SubSeq(s, 1, i)
    BY <1>3, Beginnings
  <1> HIDE DEF b
  <1>5. ASSUME NEW i \in 1..n, b[i].gap = 0
        PROVE  /\ \A j \in 1..i-1 : b[j].id < b[i].id
               /\ EventsIn(SubSeq(b, 1, i)) + SumOfGaps(SubSeq(b, 1, i)) >= b[i].id
    <2>1. i \in 1..Len(s) /\ i \in 0..n /\ \A j \in 1..i-1 : j \in 1..n
      BY <1>2
    <2>2. b[i] = s[i] /\ SubSeq(b, 1, i) = SubSeq(s, 1, i) /\ \A j \in 1..i-1 : b[j] = s[j]
      BY <1>1, <1>4, <2>1
    <2>3. /\ \A j \in 1..i-1 : s[j].id < s[i].id
          /\ EventsIn(SubSeq(s, 1, i)) + SumOfGaps(SubSeq(s, 1, i)) >= s[i].id
      BY <1>5, <2>1, <2>2 DEF InTime
    <2> QED
      BY <2>2, <2>3
  <1> QED
    BY <1>1, <1>5 DEF InTime, b

\* So is one with a gap at its end, or an event that comes after the others and
\* closes no hole.
LEMMA InTimeAppend ==
  ASSUME NEW s \in Seq(Rec), InTime(s), NEW r \in Rec,
         r.gap = 0 => /\ \A j \in 1..Len(s) : s[j].id < r.id
                      /\ r.id <= EventsIn(s) + SumOfGaps(s) + 1
  PROVE  InTime(Append(s, r))
  <1> DEFINE n == Len(s)
             t == Append(s, r)
             b(i) == SubSeq(t, 1, i)
  <1>1. n \in Nat
    BY LenProperties
  <1>2. t \in Seq(Rec) /\ Len(t) = n + 1 /\ t[n + 1] = r /\ \A i \in 1..n : t[i] = s[i]
    BY AppendProperties
  <1>3. (\A i \in 0..n : b(i) = SubSeq(s, 1, i)) /\ SubSeq(t, 1, Len(t)) = t
    BY <1>2, Beginnings
  <1>4. b(n + 1) = t
    BY <1>2, <1>3
  <1> DEFINE e == EventsIn(s)
             g == SumOfGaps(s)
  <1>5. /\ e \in Nat /\ g \in Nat
        /\ EventsIn(t) = e + (IF r.gap = 0 THEN 1 ELSE 0) /\ SumOfGaps(t) = g + r.gap
    BY CountsType, CountsAppend
  <1> HIDE DEF t, b, n
  <1>6. ASSUME NEW i \in 1..n + 1, t[i].gap = 0
        PROVE  /\ \A j \in 1..i-1 : t[j].id < t[i].id
               /\ EventsIn(b(i)) + SumOfGaps(b(i)) >= t[i].id
    <2>1. CASE i = n + 1
      <3>1. t[i] = r /\ b(i) = t /\ r.gap = 0
        BY <1>2, <1>4, <1>6, <2>1
      <3>2. \A j \in 1..i-1 : j \in 1..n
        BY <1>1, <2>1
      <3>3. \A j \in 1..i-1 : t[j].id < r.id
        BY <1>2, <3>1, <3>2 DEF n
      <3>4. r.id <= e + g + 1 /\ r.id \in Nat /\ EventsIn(t) = e + 1 /\ SumOfGaps(t) = g + 0
        BY <1>5, <3>1 DEF Rec
      <3> HIDE DEF e, g
      <3>5. EventsIn(t) + SumOfGaps(t) >= r.id
        BY <1>5, <3>4
      <3> QED
        BY <3>1, <3>3, <3>5
    <2>2. CASE i \in 1..n
      <3>1. i \in 0..n /\ \A j \in 1..i-1 : j \in 1..n
        BY <1>1, <2>2
      <3>2. t[i] = s[i] /\ b(i) = SubSeq(s, 1, i) /\ \A j \in 1..i-1 : t[j] = s[j]
        BY <1>2, <1>3, <2>2, <3>1
      <3>3. /\ \A j \in 1..i-1 : s[j].id < s[i].id
            /\ EventsIn(SubSeq(s, 1, i)) + SumOfGaps(SubSeq(s, 1, i)) >= s[i].id
        BY <1>6, <2>2, <3>2 DEF InTime, n
      <3> QED
        BY <3>2, <3>3
    <2> QED
      BY <1>1, <2>1, <2>2
  <1> QED
    BY <1>2, <1>6 DEF InTime, b, t

\* No record is as late as event n.
Before(recs, n) == \A i \in 1..Len(recs) : recs[i].id < n

\* The next event on its way is at most one further than this.
Reach == OnTape + dropCnt + Held

HandInv ==
  drainPc = "got" =>
    /\ inHand \in 1..offered /\ Before(Written, inHand)
    /\ \A j \in 1..Len(drainCh) : inHand < drainCh[j]
    /\ ~tape.err => inHand <= Reach

Queued(j) ==
  /\ drainCh[j] \in 1..offered /\ Before(Written, drainCh[j])
  /\ \A k \in 1..j-1 : drainCh[k] < drainCh[j]
  /\ ~tape.err => drainCh[j] <= Reach + j

\* The events on their way to the tape come after those on it, in order, and with no
\* more of them missing than are counted.
OrderInv ==
  /\ InTime(Written)
  /\ killed = "no" =>
       /\ Before(Written, offered + 1) /\ HandInv
       /\ \A j \in 1..Len(drainCh) : Queued(j)

\* What the orderings are about are numbers.
LEMMA OrderTypes ==
  ASSUME CapInv, Alive
  PROVE  /\ offered \in Nat /\ dropCnt \in Nat /\ OnTape \in Nat /\ Held \in Nat /\ Reach \in Nat
         /\ drainCh \in Seq(Nat) /\ Len(drainCh) \in Nat
         /\ \A j \in 1..Len(drainCh) : drainCh[j] \in Nat
         /\ Written \in Seq(Rec) /\ Len(Written) \in Nat
         /\ \A i \in 1..Len(Written) : Written[i] \in Rec /\ Written[i].id \in Nat
  <1>1. offered \in Nat /\ dropCnt \in Nat /\ drainCh \in Seq(Nat) /\ Held \in Nat
    BY DEF CapInv, Types, Held
  <1>2. OnTape \in Nat /\ Written \in Seq(Rec)
    BY AliveTape
  <1>3. Reach \in Nat
    BY <1>1, <1>2 DEF Reach
  <1>4. \A i \in 1..Len(Written) : Written[i] \in Rec
    BY <1>2, ElementOfSeq
  <1>5. \A i \in 1..Len(Written) : Written[i].id \in Nat
    BY <1>4 DEF Rec
  <1>6. \A j \in 1..Len(drainCh) : drainCh[j] \in Nat
    BY <1>1, ElementOfSeq
  <1> QED
    BY <1>1, <1>2, <1>3, <1>4, <1>5, <1>6, LenProperties

\* What comes before an event comes before a later one.
LEMMA BeforeLater ==
  ASSUME NEW recs, \A i \in 1..Len(recs) : recs[i].id \in Nat,
         NEW m \in Nat, NEW n \in Nat, m <= n, Before(recs, m)
  PROVE  Before(recs, n)
  BY DEF Before

\* Steps that leave the tape and what is queued for it alone, and offer or count drops.
LEMMA OrderElsewhere ==
  ASSUME CapInv, OrderInv, Alive, UNCHANGED <<tape, drainCh, inHand, drainPc>>,
         offered' \in Nat, offered <= offered', dropCnt' \in Nat, dropCnt <= dropCnt'
  PROVE  OrderInv'
  <1>1. /\ Written' = Written /\ OnTape' = OnTape /\ Held' = Held
    BY DEF Written, OnTape, Held
  <1>2. killed = "no"
    BY DEF Alive
  <1>3. Reach' \in Nat /\ Reach \in Nat /\ Reach <= Reach'
    BY <1>1, OrderTypes DEF Reach
  <1> DEFINE x == offered
             y == offered'
             r == Reach
             q == Reach'
  <1>4. x \in Nat /\ y \in Nat /\ x <= y /\ r \in Nat /\ q \in Nat /\ r <= q
    BY <1>3, OrderTypes
  <1>5. /\ x + 1 <= y + 1 /\ x + 1 \in Nat /\ y + 1 \in Nat
        /\ \A n \in 1..x : n \in 1..y
        /\ \A n \in Int, j \in Nat : (n <= r => n <= q) /\ (n <= r + j => n <= q + j)
    <2> HIDE DEF x, y, r, q
    <2> QED
      BY <1>4
  <1>6. Before(Written, y + 1)
    BY <1>2, <1>5, OrderTypes, BeforeLater DEF OrderInv
  <1>7. HandInv'
    <2>1. HandInv /\ 1..x \subseteq Int
      BY <1>2 DEF OrderInv
    <2> QED
      BY <1>1, <1>5, <2>1 DEF HandInv
  <1>8. ASSUME NEW j \in 1..Len(drainCh)
        PROVE  Queued(j)'
    <2>1. j \in Nat /\ 1..x \subseteq Int
      BY OrderTypes
    <2>2. Queued(j)
      BY <1>2 DEF OrderInv
    <2> QED
      BY <1>1, <1>5, <2>1, <2>2 DEF Queued
  <1> QED
    BY <1>1, <1>2, <1>6, <1>7, <1>8 DEF OrderInv

\* A lone offerer that sends has no drop uncounted: its event is at most as far
\* behind the tape as the events queued in front of it account for.
LEMMA OfferSendKeepsOrder ==
  ASSUME CapInv, OrderInv, NEW o, Offerers = {o}, OfferSend(o)
  PROVE  OrderInv'
  <1> DEFINE n == Len(drainCh)
             m == offered + 1
  <1>1. /\ Alive /\ offerPc[o] = "checked" /\ offered' = m /\ drainCh' = Append(drainCh, m)
        /\ UNCHANGED <<dropCnt, inHand, drainPc, tape, killed>> /\ killed = "no"
    BY DEF OfferSend, Alive
  <1>2. /\ Written' = Written /\ OnTape' = OnTape /\ Held' = Held /\ Reach' = Reach
    BY <1>1 DEF Written, OnTape, Held, Reach
  <1>3. /\ InTime(Written) /\ Before(Written, m) /\ HandInv /\ \A j \in 1..n : Queued(j)
    BY <1>1 DEF OrderInv
  <1>4. /\ offered \in Nat /\ Reach \in Nat /\ n \in Nat /\ drainCh \in Seq(Nat) /\ m \in Nat
        /\ m + 1 \in Nat /\ m <= m + 1
    BY <1>1, OrderTypes
  <1>5. /\ Len(drainCh') = n + 1 /\ drainCh'[n + 1] = m /\ \A j \in 1..n : drainCh'[j] = drainCh[j]
    BY <1>1, <1>4, AppendProperties
  <1>6. ~tape.err => m <= Reach + (n + 1)
    <2>1. {x \in Offerers : offerPc[x] = "dropping"} = {}
      BY <1>1
    <2>2. Uncounted = 0
      BY <2>1, FS_EmptySet DEF Uncounted
    <2>3. ASSUME ~tape.err
          PROVE  offered = OnTape + dropCnt + n + Held + 0
      BY <2>2, <2>3 DEF CapInv, NothingUnaccounted, OnTape, Held
    <2>4. OnTape \in Nat /\ dropCnt \in Nat /\ Held \in Nat
      BY <1>1, OrderTypes
    <2> HIDE DEF n
    <2> QED
      BY <1>4, <2>3, <2>4 DEF Reach
  <1>7. Before(Written, m + 1)
    BY <1>1, <1>3, <1>4, OrderTypes, BeforeLater
  <1>8. (\A i \in 1..offered : i \in 1..m /\ i < m) /\ m \in 1..m
    BY <1>4
  <1>9. \A j \in 1..n + 1 : j = n + 1 \/ j \in 1..n
    BY <1>4
  <1> HIDE DEF n, m
  <1>10. HandInv'
    BY <1>1, <1>2, <1>3, <1>5, <1>8, <1>9 DEF HandInv
  <1>11. ASSUME NEW j \in 1..n
         PROVE  Queued(j)'
    <2>1. Queued(j) /\ \A k \in 1..j-1 : k \in 1..n
      BY <1>3, <1>4
    <2> QED
      BY <1>1, <1>2, <1>5, <1>8, <2>1 DEF Queued
  <1>12. ASSUME NEW j, j = n + 1
         PROVE  Queued(j)'
    <2>1. \A k \in 1..j-1 : k \in 1..n
      BY <1>4, <1>12
    <2>2. \A k \in 1..n : drainCh[k] < m
      BY <1>3, <1>8 DEF Queued
    <2>3. /\ drainCh'[j] = m /\ (\A k \in 1..j-1 : drainCh'[k] < m) /\ offered' = m
          /\ (~tape.err => m <= Reach' + j) /\ Before(Written', m)
      BY <1>1, <1>2, <1>3, <1>5, <1>6, <1>12, <2>1, <2>2
    <2> QED
      BY <1>1, <1>8, <2>3 DEF Queued
  <1>13. \A j \in 1..Len(drainCh') : Queued(j)'
    BY <1>5, <1>9, <1>11, <1>12
  <1>14. InTime(Written') /\ Before(Written', offered' + 1)
    BY <1>1, <1>2, <1>3, <1>7
  <1> QED
    BY <1>10, <1>13, <1>14 DEF OrderInv

\* Taking the next event out of the channel.
LEMMA DrainTakesKeepsOrder ==
  ASSUME CapInv, OrderInv, DrainTakes
  PROVE  OrderInv'
  <1> DEFINE n == Len(drainCh)
             r == Reach
  <1>1. /\ Alive /\ killed = "no" /\ drainPc = "select" /\ drainCh # <<>> /\ drainPc' = "got"
        /\ inHand' = Head(drainCh) /\ drainCh' = Tail(drainCh)
        /\ UNCHANGED <<offered, dropCnt, tape>>
    BY DEF DrainTakes, Alive
  <1>2. /\ r \in Nat /\ OnTape \in Nat /\ dropCnt \in Nat /\ n \in Nat /\ drainCh \in Seq(Nat)
        /\ \A j \in 1..n : drainCh[j] \in Nat
    BY <1>1, OrderTypes
  <1>3. Written' = Written /\ OnTape' = OnTape /\ Held = 0 /\ Held' = 1
    BY <1>1 DEF Written, OnTape, Held
  <1>4. Reach' = r + 1
    <2>1. Reach = OnTape + dropCnt + 0 /\ Reach' = OnTape + dropCnt + 1
      BY <1>1, <1>3 DEF Reach
    <2> QED
      BY <1>2, <2>1
  <1>5. /\ Len(drainCh') = n - 1 /\ 1 \in 1..n /\ inHand' = drainCh[1]
        /\ \A j \in 1..n - 1 : drainCh'[j] = drainCh[j + 1]
    BY <1>1, <1>2, HeadTailProperties, EmptySeq
  <1>6. InTime(Written) /\ Before(Written, offered + 1) /\ \A j \in 1..n : Queued(j)
    BY <1>1 DEF OrderInv
  <1>7. /\ \A j \in 1..n - 1 : /\ j + 1 \in 1..n /\ 1 \in 1..(j + 1) - 1
                              /\ \A k \in 1..j-1 : k \in 1..n - 1 /\ k + 1 \in 1..(j + 1) - 1
        /\ \A j \in 1..n - 1 : r + (j + 1) = (r + 1) + j
    BY <1>2
  <1> HIDE DEF n, r
  <1>8. HandInv'
    <2>1. /\ drainCh[1] \in 1..offered /\ Before(Written, drainCh[1])
          /\ (~tape.err => drainCh[1] <= r + 1)
      BY <1>5, <1>6 DEF Queued, r
    <2>2. \A j \in 1..n - 1 : drainCh[1] < drainCh[j + 1]
      BY <1>6, <1>7 DEF Queued
    <2> QED
      BY <1>1, <1>3, <1>4, <1>5, <2>1, <2>2 DEF HandInv
  <1>9. ASSUME NEW j \in 1..n - 1
        PROVE  Queued(j)'
    <2> DEFINE m == drainCh[j + 1]
    <2>1. /\ m \in 1..offered /\ Before(Written, m)
          /\ (\A k \in 1..(j + 1) - 1 : drainCh[k] < m)
          /\ (~tape.err => m <= r + (j + 1))
      BY <1>6, <1>7 DEF Queued, r
    <2>2. drainCh'[j] = m
      BY <1>5
    <2>3. ~tape.err => m <= (r + 1) + j
      BY <1>7, <2>1
    <2> HIDE DEF m
    <2>4. \A k \in 1..j-1 : drainCh'[k] < m
      BY <1>5, <1>7, <2>1
    <2> QED
      BY <1>1, <1>3, <1>4, <2>1, <2>2, <2>3, <2>4 DEF Queued
  <1> QED
    BY <1>1, <1>3, <1>5, <1>6, <1>8, <1>9 DEF OrderInv

\* The drops announced, and the event after them, come after what comes before the event.
LEMMA ToldBefore ==
  ASSUME NEW r \in Seq(Rec), NEW d \in Nat, NEW i \in Nat, NEW n \in Nat, n > 0, Before(r, n)
  PROVE  Before(Told(r, d), n) /\ (i < n => Before(ToldAnd(r, d, i), n))
  <1>1. /\ Gap(d) \in Rec /\ Ev(i) \in Rec /\ Gap(d).id = 0 /\ Ev(i).id = i
    BY RecordTypes DEF Gap
  <1>2. ASSUME NEW s \in Seq(Rec), Before(s, n), NEW x \in Rec, x.id < n
        PROVE  Before(Append(s, x), n)
    <2>1. Len(s) \in Nat
      BY LenProperties
    <2>2. /\ Len(Append(s, x)) = Len(s) + 1 /\ Append(s, x)[Len(s) + 1] = x
          /\ \A k \in 1..Len(s) : Append(s, x)[k] = s[k]
      BY AppendProperties
    <2>3. \A k \in 1..Len(s) + 1 : k = Len(s) + 1 \/ k \in 1..Len(s)
      BY <2>1
    <2> QED
      BY <1>2, <2>2, <2>3 DEF Before
  <1>3. Told(r, d) \in Seq(Rec)
    BY ToldLength
  <1>4. Before(Told(r, d), n)
    BY <1>1, <1>2 DEF Told
  <1>5. i < n => Before(ToldAnd(r, d, i), n)
    BY <1>1, <1>2, <1>3, <1>4 DEF ToldAnd
  <1> QED
    BY <1>4, <1>5

\* They keep the order, when the event closes no hole that is not announced.
LEMMA ToldInTime ==
  ASSUME NEW r \in Seq(Rec), NEW d \in Nat, NEW i \in Nat, InTime(r)
  PROVE  /\ InTime(Told(r, d))
         /\ i > 0 /\ Before(r, i) /\ i <= EventsIn(r) + SumOfGaps(r) + d + 1 =>
              InTime(ToldAnd(r, d, i))
  <1>1. /\ Gap(d) \in Rec /\ Ev(i) \in Rec /\ Gap(d).gap = d /\ Ev(i).id = i /\ Ev(i).gap = 0
    BY RecordTypes
  <1>2. InTime(Told(r, d))
    <2>1. CASE d = 0
      BY <2>1 DEF Told
    <2>2. CASE d # 0
      BY <1>1, <2>2, InTimeAppend DEF Told
    <2> QED
      BY <2>1, <2>2
  <1>3. ASSUME i > 0, Before(r, i), i <= EventsIn(r) + SumOfGaps(r) + d + 1
        PROVE  InTime(ToldAnd(r, d, i))
    <2> DEFINE s == Told(r, d)
               e == EventsIn(r)
               g == SumOfGaps(r)
    <2>1. s \in Seq(Rec) /\ Before(s, i)
      BY <1>3, ToldLength, ToldBefore
    <2>2. e \in Nat /\ g \in Nat
      BY CountsType
    <2>3. EventsIn(s) = e /\ SumOfGaps(s) = g + d
      <3>1. CASE d = 0
        <4>1. g + 0 = g
          BY <2>2
        <4> QED
          BY <3>1, <4>1 DEF Told
      <3>2. CASE d # 0
        <4>1. EventsIn(s) = e + 0 /\ SumOfGaps(s) = g + d
          BY <1>1, <3>2, CountsAppend DEF Told
        <4> HIDE DEF e
        <4> QED
          BY <2>2, <4>1
      <3> QED
        BY <3>1, <3>2
    <2>4. i <= e + g + d + 1
      BY <1>3
    <2> HIDE DEF s, e, g
    <2>5. i <= EventsIn(s) + SumOfGaps(s) + 1
      BY <2>2, <2>3, <2>4
    <2>6. \A j \in 1..Len(s) : s[j].id < Ev(i).id
      BY <1>1, <2>1 DEF Before
    <2>7. InTime(s)
      BY <1>2 DEF s
    <2>8. InTime(Append(s, Ev(i)))
      BY <1>1, <2>1, <2>5, <2>6, <2>7, InTimeAppend
    <2> QED
      BY <2>8 DEF ToldAnd, s
  <1> QED
    BY <1>2, <1>3

\* Writing the event in hand.
LEMMA DrainWritesKeepsOrder ==
  ASSUME CapInv, OrderInv, DrainWrites
  PROVE  OrderInv'
  <1> DEFINE d == dropCnt
             i == inHand
             r == Reach
             e == tape.evs
             g == tape.gaps
             e2 == tape'.evs
             g2 == tape'.gaps
  <1>1. /\ Alive /\ killed = "no" /\ drainPc = "got" /\ drainPc' = "select" /\ dropCnt' = 0
        /\ tape' \in WriteEvent(tape, dropCnt, inHand) /\ UNCHANGED <<offered, drainCh, killed>>
    BY DEF DrainWrites, Alive
  <1>2. /\ Sound(tape) /\ (tape.err \/ tape.open) /\ e \in Nat /\ g \in Nat
        /\ e = EventsIn(Written) /\ g = SumOfGaps(Written)
    BY <1>1, AliveTape DEF Sound, Written
  <1>3. /\ offered \in Nat /\ d \in Nat /\ i \in Nat /\ Written \in Seq(Rec) /\ Len(drainCh) \in Nat
        /\ \A j \in 1..Len(drainCh) : drainCh[j] \in Nat
        /\ \A k \in 1..Len(Written) : Written[k].id \in Nat
    BY <1>1, OrderTypes DEF CapInv, Types
  <1>4. /\ Grows(tape, tape') /\ (tape.err => SameRecords(tape, tape'))
        /\ ~tape'.err => e2 = e + 1 /\ g2 = g + d
        /\ Written' \in {Written, Told(Written, d), ToldAnd(Written, d, i)}
    <2> HIDE DEF d, i
    <2> QED
      BY <1>1, <1>2, <1>3, WriteEventDoes DEF Written, d, i
  <1>5. tape.err => tape'.err /\ Written' = Written
    BY <1>4 DEF Grows, SameRecords, Written
  <1>6. r = e + g + d + 1
    <2>1. Held = 1
      BY <1>1 DEF Held
    <2> QED
      BY <2>1 DEF Reach, OnTape
  <1>7. ~tape'.err => Reach' = r
    <2>1. Reach' = e2 + g2 + 0 + 0
      BY <1>1 DEF Reach, OnTape, Held
    <2>2. ASSUME ~tape'.err PROVE e2 = e + 1 /\ g2 = g + d
      BY <1>4, <2>2
    <2> HIDE DEF e, g, d, e2, g2, r
    <2>3. ASSUME ~tape'.err PROVE Reach' = r
      BY <1>2, <1>3, <1>6, <2>1, <2>2, <2>3
    <2> QED
      BY <2>3
  <1>8. /\ InTime(Written) /\ Before(Written, offered + 1) /\ i \in 1..offered /\ Before(Written, i)
        /\ (\A j \in 1..Len(drainCh) : i < drainCh[j] /\ Queued(j)) /\ (~tape.err => i <= r)
    BY <1>1 DEF OrderInv, HandInv
  <1> HIDE DEF d, i, r, e, g, e2, g2
  <1>9. InTime(Written')
    <2>1. CASE tape.err
      BY <1>5, <1>8, <2>1
    <2>2. CASE ~tape.err
      <3>1. i > 0
        BY <1>3, <1>8
      <3>2. i <= EventsIn(Written) + SumOfGaps(Written) + d + 1
        BY <1>2, <1>6, <1>8, <2>2
      <3> QED
        BY <1>3, <1>4, <1>8, <3>1, <3>2, ToldInTime
    <2> QED
      BY <2>1, <2>2
  <1>10. ASSUME NEW n \in Nat, i < n
         PROVE  Before(Written', n)
    <2>1. i <= n /\ n > 0
      BY <1>3, <1>10
    <2>2. Before(Written, n)
      BY <1>3, <1>8, <2>1, BeforeLater
    <2> QED
      BY <1>3, <1>4, <1>10, <2>1, <2>2, ToldBefore
  <1>11. Before(Written', offered' + 1)
    <2>1. offered + 1 \in Nat /\ i < offered + 1
      BY <1>3, <1>8
    <2> QED
      BY <1>1, <1>10, <2>1
  <1>12. HandInv'
    BY <1>1 DEF HandInv
  <1>13. ASSUME NEW j \in 1..Len(drainCh)
         PROVE  Queued(j)'
    <2>1. Before(Written', drainCh[j])
      BY <1>3, <1>8, <1>10
    <2>2. ~tape'.err => drainCh[j] <= Reach' + j
      BY <1>5, <1>7, <1>8 DEF Queued, r
    <2> QED
      BY <1>1, <1>8, <2>1, <2>2 DEF Queued
  <1> QED
    BY <1>1, <1>9, <1>11, <1>12, <1>13 DEF OrderInv

\* A flush, and the end of the drain goroutine.
LEMMA DrainEndsKeepOrder ==
  ASSUME CapInv, OrderInv, DrainFlushes \/ DrainFinishes
  PROVE  OrderInv'
  <1>1. CASE DrainFlushes
    <2>1. /\ Alive /\ killed = "no" /\ killed' = killed /\ drainPc = "select" /\ drainPc' = "select"
          /\ tape' \in Flush(tape) /\ UNCHANGED <<offered, drainCh, dropCnt, inHand>>
      BY <1>1 DEF DrainFlushes, Alive
    <2>2. Grows(tape, tape') /\ SameRecords(tape, tape')
      BY <2>1, AliveTape, FlushDoes
    <2>3. /\ Written' = Written /\ OnTape' = OnTape /\ (tape.err => tape'.err)
      BY <2>2 DEF Grows, SameRecords, Written, OnTape
    <2>4. Reach' = Reach
      BY <2>1, <2>3 DEF Reach, Held
    <2>5. HandInv'
      BY <2>1 DEF HandInv
    <2>6. ASSUME NEW j \in 1..Len(drainCh)
          PROVE  Queued(j)'
      <3>1. Queued(j)
        BY <2>1 DEF OrderInv
      <3> QED
        BY <2>1, <2>3, <2>4, <3>1 DEF Queued
    <2> QED
      BY <2>1, <2>3, <2>5, <2>6 DEF OrderInv
  <1>2. CASE DrainFinishes
    <2>1. /\ Alive /\ killed = "no" /\ drainPc = "select" /\ drainPc' = "done" /\ drainCh = <<>>
          /\ \E t \in WriteFinalGap(tape, dropCnt) : tape' \in CloseCurrent(t)
          /\ UNCHANGED <<offered, drainCh>>
      BY <1>2 DEF DrainFinishes, Alive
    <2>2. /\ Sound(tape) /\ (tape.err \/ tape.open) /\ dropCnt \in Nat /\ Written \in Seq(Rec)
          /\ offered \in Nat
      BY <2>1, AliveTape, OrderTypes
    <2>3. PICK t \in WriteFinalGap(tape, dropCnt) : tape' \in CloseCurrent(t)
      BY <2>1
    <2>4. Sound(t) /\ Replayed(t.files) \in {Written, Told(Written, dropCnt)}
      BY <2>2, <2>3, FinalGapDoes DEF Written
    <2>5. Written' = Replayed(t.files)
      BY <2>3, <2>4, CloseDoes DEF SameRecords, Written
    <2>6. InTime(Written) /\ Before(Written, offered + 1)
      BY <2>1 DEF OrderInv
    <2>7. InTime(Told(Written, dropCnt))
      BY <2>2, <2>6, ToldInTime
    <2>8. offered + 1 \in Nat /\ offered + 1 > 0
      BY <2>2
    <2>9. Before(Told(Written, dropCnt), offered + 1)
      BY <2>2, <2>6, <2>8, ToldBefore
    <2>10. InTime(Written') /\ Before(Written', offered' + 1)
      BY <2>1, <2>4, <2>5, <2>6, <2>7, <2>9
    <2>11. HandInv' /\ Len(drainCh') = 0
      BY <2>1 DEF HandInv
    <2> QED
      BY <2>10, <2>11 DEF OrderInv
  <1> QED
    BY <1>1, <1>2

\* What a kill in a rotation leaves: the tape as it was.
LEMMA KillRotatingKeepsRecords ==
  ASSUME CapInv, KillRotating
  PROVE  Written' = Written
  <1> DEFINE s == tape.files
             n == Len(s)
             l == s[n]
             u == [s EXCEPT ![n] = Finished(l)]
             v == Append(u, EmptyFile)
  <1>1. Alive /\ tape' = [tape EXCEPT !.files = v]
    BY DEF KillRotating
  <1>2. s \in Seq(File) /\ Len(s) > 0
    BY <1>1, AliveTape DEF Sound
  <1>3. l \in File
    BY <1>2, NewFileIsFile, LastFile
  <1>4. Finished(l) \in File /\ Finished(l).recs = l.recs /\ l.disk <= Finished(l).disk
    BY <1>3, FinishedType
  <1>5. u \in Seq(File)
    BY <1>2, <1>4, LastFile
  <1>6. Replayed(u) = Replayed(s)
    BY <1>2, <1>4, ReplaceLast
  <1>7. EmptyFile \in File /\ EmptyFile.recs = <<>> /\ EmptyFile.disk = 0
    BY EmptyFileIsFile
  <1> HIDE DEF u
  <1>8. Replayed(v) = Replayed(u)
    BY <1>5, <1>7, AddFile
  <1> HIDE DEF v
  <1>9. tape'.files = v
    BY <1>1, KilledTape
  <1> QED
    BY <1>6, <1>8, <1>9 DEF Written

\* A kill leaves a beginning of the tape.
LEMMA KillKeepsOrder ==
  ASSUME CapInv, OrderInv, Kill \/ KillRotating
  PROVE  OrderInv'
  <1>1. Alive /\ killed' # "no" /\ InTime(Written)
    BY DEF Kill, KillRotating, OrderInv
  <1>2. CASE KillRotating
    <2>1. Written' = Written
      BY <1>2, KillRotatingKeepsRecords
    <2> QED
      BY <1>1, <2>1 DEF OrderInv
  <1>3. CASE Kill
    <2>1. PICK c \in Cuts(LastOf(tape)) \cup {Finished(LastOf(tape))} :
             tape' = [tape EXCEPT !.files = [tape.files EXCEPT ![Len(tape.files)] = c]]
      BY <1>3, KillCuts
    <2> DEFINE u == [tape.files EXCEPT ![Len(tape.files)] = c]
    <2>2. PICK j \in DurableTo(tape.files).n..Len(Written) : Replayed(u) = SubSeq(Written, 1, j)
      BY <1>1, AliveTape, KillDoes DEF Written
    <2>3. DurableTo(tape.files).n \in Nat /\ Len(Written) \in Nat /\ Written \in Seq(Rec)
      <3>1. DurableTo(tape.files) \in Progress
        BY <1>1, AliveTape, NewFileIsFile, DurableAppend
      <3> QED
        BY <1>1, <3>1, AliveTape DEF Progress
    <2>4. j \in 0..Len(Written)
      BY <2>3
    <2>5. InTime(SubSeq(Written, 1, j))
      BY <1>1, <2>3, <2>4, InTimeBeginning
    <2>6. Written' = Replayed(u)
      <3>1. tape'.files = u
        BY <1>1, <2>1, KilledTape
      <3> QED
        BY <3>1 DEF Written
    <2> QED
      BY <1>1, <2>2, <2>5, <2>6 DEF OrderInv
  <1> QED
    BY <1>2, <1>3

\* The order of a fresh writer.
LEMMA InitOrder == Init => OrderInv
  <1> SUFFICES ASSUME Init PROVE OrderInv
    OBVIOUS
  <1>1. tape = NewTape /\ drainPc = "select" /\ drainCh = <<>>
    BY DEF Init
  <1>2. /\ NewFile \in File /\ NewFile.recs = <<>>
    BY NewFileIsFile DEF NewFile
  <1>3. <<>> \in Seq(File) /\ Append(<<>>, NewFile) = <<NewFile>>
    OBVIOUS
  <1>4. Replayed(<<NewFile>>) = <<>> \o <<>>
    BY <1>2, <1>3, ReplayedAppend
  <1>5. Written = <<>>
    BY <1>1, <1>4 DEF Written, NewTape
  <1>6. Len(<<>>) = 0
    OBVIOUS
  <1> QED
    BY <1>1, <1>5, <1>6 DEF OrderInv, InTime, Before, HandInv

\* The order is kept, while one goroutine offers.
LEMMA NextOrder ==
  ASSUME NEW o, Offerers = {o}, CapInv, OrderInv, [Next]_vars
  PROVE  OrderInv'
  <1>1. CASE Offer(o)
    <2>1. CASE OfferSend(o)
      BY <2>1, OfferSendKeepsOrder
    <2>2. CASE OfferCheck(o) \/ OfferFull(o) \/ OfferCounts(o) \/ OfferPanics(o) \/ OffererStops(o)
      <3>1. /\ Alive /\ UNCHANGED <<tape, drainCh, inHand, drainPc>>
            /\ offered' \in {offered, offered + 1} /\ dropCnt' \in {dropCnt, dropCnt + 1}
        BY <2>2 DEF OfferCheck, OfferFull, OfferCounts, OfferPanics, OffererStops
      <3>2. \A n \in Nat : n \in Nat /\ n <= n /\ n + 1 \in Nat /\ n <= n + 1
        OBVIOUS
      <3>3. offered \in Nat /\ dropCnt \in Nat
        BY <3>1, OrderTypes
      <3>4. offered' \in Nat /\ offered <= offered' /\ dropCnt' \in Nat /\ dropCnt <= dropCnt'
        BY <3>1, <3>2, <3>3
      <3> QED
        BY <3>1, <3>4, OrderElsewhere
    <2> QED
      BY <1>1, <2>1, <2>2 DEF Offer
  <1>2. CASE Drain
    BY <1>2, DrainTakesKeepsOrder, DrainWritesKeepsOrder, DrainEndsKeepOrder DEF Drain
  <1>3. CASE Close
    <2>1. Alive /\ UNCHANGED <<tape, drainCh, inHand, drainPc, offered, dropCnt>>
      BY <1>3 DEF Close, ReadStats, CloseSwaps, CloseChannel, CloseReturns
    <2>2. \A n \in Nat : n <= n
      OBVIOUS
    <2>3. offered \in Nat /\ dropCnt \in Nat
      BY <2>1, OrderTypes
    <2>4. offered' \in Nat /\ offered <= offered' /\ dropCnt' \in Nat /\ dropCnt <= dropCnt'
      BY <2>1, <2>2, <2>3
    <2> QED
      BY <2>1, <2>4, OrderElsewhere
  <1>4. CASE Kill \/ KillRotating
    BY <1>4, KillKeepsOrder
  <1>5. CASE UNCHANGED vars
    BY <1>5 DEF vars, OrderInv, HandInv, Queued, Reach, OnTape, Held, Written
  <1> QED
    BY <1>1, <1>2, <1>3, <1>4, <1>5 DEF Next

\* While one goroutine offers, as the daemon's engine does, the tape holds the events in
\* the order they were offered, and a hole in front of an event is announced before it.
THEOREM GapsNeverLate ==
  ASSUME NEW o, Offerers = {o}
  PROVE  Spec => []GapNeverLate
  <1>1. OrderInv => GapNeverLate
    BY DEF OrderInv, InTime, GapNeverLate
  <1>2. OrderInv /\ CapInv /\ [Next]_vars => OrderInv'
    BY NextOrder, ZenonT(30)
  <1> QED
    BY <1>1, <1>2, InitOrder, CapInvHolds, PTL DEF Spec

-----------------------------------------------------------------------------
(* Recorder.                                                                *)

\* The events on their way, of any tape and channel.
LEMMA PendingTypes ==
  ASSUME CapInv, Alive
  PROVE  /\ Pending \in Seq(Nat) /\ Len(Pending) = Held + Len(drainCh)
         /\ drainPc # "got" => Pending = drainCh
         /\ drainPc = "got" => Pending = <<inHand>> \o drainCh
  <1>1. drainCh \in Seq(Nat) /\ inHand \in Nat
    BY DEF CapInv, Types
  <1>2. <<>> \o drainCh = drainCh /\ Len(drainCh) = 0 + Len(drainCh)
    BY <1>1, ConcatEmptySeq, LenProperties
  <1>3. <<inHand>> \in Seq(Nat) /\ Len(<<inHand>>) = 1
    BY <1>1
  <1>4. <<inHand>> \o drainCh \in Seq(Nat) /\ Len(<<inHand>> \o drainCh) = 1 + Len(drainCh)
    BY <1>1, <1>3, ConcatProperties
  <1> QED
    BY <1>1, <1>2, <1>4 DEF Pending, Hand, Held

\* What is durable is part of what is written.
LEMMA OnDiskTypes ==
  ASSUME CapInv, Alive
  PROVE  OnDisk \in Nat /\ OnDisk <= Len(Written) /\ OnDisk = DurableTo(tape.files).n
  <1>1. tape.files \in Seq(File) /\ NewFile \in File
    BY AliveTape, NewFileIsFile
  <1>2. DurableTo(tape.files) \in Progress /\ DurableTo(tape.files).n <= Len(Written)
    BY <1>1, DurableAppend, DurableBounded DEF Written
  <1>3. OnDisk = DurableTo(tape.files).n
    BY DEF OnDisk, Durable, DurableTo, Start
  <1> QED
    BY <1>2, <1>3 DEF Progress

\* A fresh writer is a fresh recorder.
LEMMA InitRefines == Init => Abstract!Init
  <1> SUFFICES ASSUME Init PROVE Abstract!Init
    OBVIOUS
  <1>1. CapInv /\ Alive
    BY InitCap DEF Init, Alive
  <1>2. offered = 0 /\ dropCnt = 0 /\ Pending = <<>> /\ Phase = "open" /\ ~tape.err
    <2>1. <<>> \o <<>> = <<>>
      OBVIOUS
    <2> QED
      BY <2>1 DEF Init, Pending, Hand, Phase, NewTape
  <1>3. Uncounted = 0
    <2>1. {o \in Offerers : offerPc[o] = "dropping"} = {}
      BY DEF Init
    <2> QED
      BY <2>1, FS_EmptySet DEF Uncounted
  <1>4. Written = <<>> /\ Len(<<>>) = 0
    <2>1. /\ NewFile \in File /\ NewFile.recs = <<>>
      BY NewFileIsFile DEF NewFile
    <2>2. <<>> \in Seq(File) /\ Append(<<>>, NewFile) = <<NewFile>>
      OBVIOUS
    <2>3. Replayed(<<NewFile>>) = <<>> \o <<>>
      BY <2>1, <2>2, ReplayedAppend
    <2> QED
      BY <2>3 DEF Written, Init, NewTape
  <1>5. OnDisk = 0
    BY <1>1, <1>4, OnDiskTypes
  <1> QED
    BY <1>2, <1>3, <1>4, <1>5 DEF Abstract!Init

\* An Offer takes an event in, drops it, counts the drop, or stutters.
LEMMA OfferRefines ==
  ASSUME CapInv, NEW o \in Offerers, Offer(o)
  PROVE  [Abstract!Next]_(Abstract!recorderVars)
  <1>1. /\ Alive /\ UNCHANGED <<closed, tape, inHand, drainPc, killed>>
    BY DEF Offer, OfferCheck, OfferSend, OfferFull, OfferCounts, OfferPanics, OffererStops
  <1>2. Written' = Written /\ OnDisk' = OnDisk /\ Phase' = Phase /\ tape' = tape
    BY <1>1 DEF Written, OnDisk, Phase
  <1>3. CloseOrderInv
    BY DEF CapInv
  <1>4. CASE OfferCheck(o) \/ OfferPanics(o) \/ OffererStops(o)
    <2>1. /\ UNCHANGED <<offered, drainCh, dropCnt>>
          /\ \E p \in {"checked", "panicked", "done"} : offerPc' = [offerPc EXCEPT ![o] = p]
          /\ offerPc[o] # "dropping"
      BY <1>4 DEF OfferCheck, OfferPanics, OffererStops
    <2>2. Uncounted' = Uncounted
      BY <1>3, <2>1, UncountedMoves
    <2>3. Pending' = Pending
      BY <1>1, <2>1 DEF Pending, Hand
    <2> QED
      BY <1>2, <2>1, <2>2, <2>3 DEF Abstract!recorderVars
  <1>5. CASE OfferSend(o)
    <2>1. /\ ~chClosed /\ Len(drainCh) < BufSize /\ offered' = offered + 1 /\ dropCnt' = dropCnt
          /\ drainCh' = Append(drainCh, offered + 1) /\ offerPc' = [offerPc EXCEPT ![o] = "idle"]
          /\ offerPc[o] = "checked"
      BY <1>5 DEF OfferSend
    <2>2. Uncounted' = Uncounted
      <3> DEFINE p == "idle"
      <3>1. offerPc' = [offerPc EXCEPT ![o] = p] /\ offerPc[o] = "checked" /\ p # "dropping"
        BY <2>1
      <3> HIDE DEF p
      <3> QED
        BY <1>3, <3>1, UncountedMoves
    <2>3. drainCh \in Seq(Nat) /\ offered + 1 \in Nat /\ Len(drainCh) \in Nat /\ BufSize \in Nat
          /\ Held \in {0, 1} /\ inHand \in Nat
      BY BufSizeAssumption, LenProperties DEF CapInv, Types, Held
    <2>4. Phase \in {"open", "closing"}
      BY <1>1, <2>1 DEF Phase, CapInv, Stages, Alive
    <2>5. Len(Pending) < BufSize + 1
      <3>1. Len(Pending) = Held + Len(drainCh)
        BY <1>1, PendingTypes
      <3> QED
        BY <2>1, <2>3, <3>1
    <2>6. Pending' = Append(Pending, offered + 1)
      <3> DEFINE a == Hand
                 m == offered + 1
      <3>1. a \in Seq(Nat) /\ a' = a
        BY <1>1, <2>3 DEF Hand
      <3>2. Pending' = a \o Append(drainCh, m) /\ Pending = a \o drainCh
        BY <2>1, <3>1 DEF Pending
      <3> HIDE DEF a, m
      <3>3. a \o Append(drainCh, m) = Append(a \o drainCh, m)
        <4>1. m \in Nat
          BY <2>3 DEF m
        <4> QED
          BY <2>3, <3>1, <4>1, AppendAfter, SMTT(30)
      <3> QED
        BY <3>2, <3>3 DEF m
    <2>7. Abstract!Accept
      BY <1>2, <2>1, <2>2, <2>4, <2>5, <2>6 DEF Abstract!Accept
    <2> QED
      BY <2>7 DEF Abstract!Next
  <1>6. CASE OfferFull(o)
    <2>1. /\ ~chClosed /\ Len(drainCh) = BufSize /\ offered' = offered + 1 /\ dropCnt' = dropCnt
          /\ drainCh' = drainCh
          /\ offerPc' = [offerPc EXCEPT ![o] = "dropping"] /\ offerPc[o] = "checked"
      BY <1>6 DEF OfferFull
    <2>2. Uncounted' = Uncounted + 1
      BY <1>3, <2>1, UncountedMoves
    <2>3. Pending' = Pending
      BY <1>1, <2>1 DEF Pending, Hand
    <2>4. Phase \in {"open", "closing"}
      BY <1>1, <2>1 DEF Phase, CapInv, Stages, Alive
    <2>5. Len(Pending) >= (BufSize + 1) - 1
      <3>1. Len(Pending) = Held + BufSize
        BY <1>1, <2>1, PendingTypes
      <3>2. Held \in {0, 1} /\ BufSize \in Nat
        BY BufSizeAssumption DEF Held
      <3> QED
        BY <3>1, <3>2
    <2>6. Abstract!Drop
      BY <1>2, <2>1, <2>2, <2>3, <2>4, <2>5 DEF Abstract!Drop
    <2> QED
      BY <2>6 DEF Abstract!Next
  <1>7. CASE OfferCounts(o)
    <2>1. /\ offered' = offered /\ dropCnt' = dropCnt + 1 /\ drainCh' = drainCh
          /\ offerPc' = [offerPc EXCEPT ![o] = "idle"] /\ offerPc[o] = "dropping"
      BY <1>7 DEF OfferCounts
    <2>2. Uncounted' = Uncounted - 1 /\ Uncounted' \in Nat /\ Uncounted \in Nat
      <3> DEFINE p == "idle"
      <3>1. offerPc' = [offerPc EXCEPT ![o] = p] /\ offerPc[o] = "dropping" /\ p # "dropping"
        BY <2>1
      <3> HIDE DEF p
      <3>2. Uncounted' \in Nat /\ Uncounted \in Nat
        BY <1>3, <3>1, UncountedMoves
      <3>3. p # "dropping" /\ offerPc[o] = "dropping" => Uncounted' = Uncounted - 1
        BY <1>3, <3>1, UncountedMoves
      <3> QED
        BY <3>1, <3>2, <3>3
    <2>3. Uncounted > 0
      <3> DEFINE a == Uncounted
                 b == Uncounted'
      <3>1. a \in Nat /\ b \in Nat /\ b = a - 1
        BY <2>2
      <3> HIDE DEF a, b
      <3>2. a > 0
        BY <3>1
      <3> QED
        BY <3>2 DEF a
    <2>4. Pending' = Pending /\ Phase # "crashed"
      BY <1>1, <2>1 DEF Pending, Hand, Phase, Alive
    <2>5. Abstract!Count
      BY <1>2, <2>1, <2>2, <2>3, <2>4 DEF Abstract!Count
    <2> QED
      BY <2>5 DEF Abstract!Next
  <1> QED
    BY <1>4, <1>5, <1>6, <1>7 DEF Offer

\* Closing begins, or the recorder does not notice.
LEMMA CloseRefines ==
  ASSUME CapInv, Close
  PROVE  [Abstract!Next]_(Abstract!recorderVars)
  <1>1. /\ Alive /\ UNCHANGED <<offerPc, offered, drainCh, dropCnt, inHand, drainPc, tape, killed>>
    BY DEF Close, ReadStats, CloseSwaps, CloseChannel, CloseReturns
  <1>2. /\ Written' = Written /\ OnDisk' = OnDisk /\ Pending' = Pending /\ Uncounted' = Uncounted
        /\ tape' = tape
    BY <1>1 DEF Written, OnDisk, Pending, Hand, Uncounted
  <1>3. CASE ReadStats \/ CloseChannel \/ CloseReturns
    <2>1. Phase' = Phase
      BY <1>1, <1>3 DEF ReadStats, CloseChannel, CloseReturns, Phase
    <2> QED
      BY <1>1, <1>2, <2>1 DEF Abstract!recorderVars
  <1>4. CASE CloseSwaps
    <2>1. /\ closePc \in {"running", "reported"} /\ closed'
      BY <1>4 DEF CloseSwaps
    <2>2. ~closed /\ drainPc # "done"
      BY <2>1 DEF CapInv, Stages
    <2>3. Phase = "open" /\ Phase' = "closing"
      BY <1>1, <2>1, <2>2 DEF Phase, Alive
    <2>4. Abstract!StartClose
      BY <1>1, <1>2, <2>3 DEF Abstract!StartClose
    <2> QED
      BY <2>4 DEF Abstract!Next
  <1> QED
    BY <1>3, <1>4 DEF Close

\* Taking an event out of the channel leaves it pending.
LEMMA DrainTakesRefines ==
  ASSUME CapInv, DrainTakes
  PROVE  UNCHANGED Abstract!recorderVars
  <1>1. /\ Alive /\ drainPc = "select" /\ drainCh # <<>> /\ drainPc' = "got"
        /\ inHand' = Head(drainCh) /\ drainCh' = Tail(drainCh)
        /\ UNCHANGED <<offerPc, offered, closed, dropCnt, tape, killed>>
    BY DEF DrainTakes
  <1>2. /\ Written' = Written /\ OnDisk' = OnDisk /\ Uncounted' = Uncounted /\ Phase' = Phase
        /\ tape' = tape
    BY <1>1 DEF Written, OnDisk, Uncounted, Phase
  <1>3. Pending' = Pending
    <2>1. Pending = drainCh /\ drainCh \in Seq(Nat)
      BY <1>1, PendingTypes DEF CapInv, Types
    <2>2. Pending' = <<Head(drainCh)>> \o Tail(drainCh)
      BY <1>1 DEF Pending, Hand
    <2> DEFINE h == Head(drainCh)
               t == Tail(drainCh)
               n == Len(drainCh)
               c == <<h>> \o t
    <2>3. /\ n \in Nat /\ h \in Nat /\ h = drainCh[1] /\ t \in Seq(Nat) /\ Len(t) = n - 1 /\ n > 0
          /\ \A i \in 1..n - 1 : t[i] = drainCh[i + 1]
      BY <1>1, <2>1, HeadTailProperties, EmptySeq, LenProperties
    <2> HIDE DEF h, t, n
    <2>4. <<h>> \in Seq(Nat) /\ Len(<<h>>) = 1 /\ <<h>>[1] = h
      BY <2>3
    <2>5. /\ c \in Seq(Nat) /\ Len(c) = 1 + (n - 1)
          /\ \A i \in 1..1 + (n - 1) : c[i] = IF i <= 1 THEN <<h>>[i] ELSE t[i - 1]
      BY <2>3, <2>4, ConcatProperties
    <2>6. /\ 1 + (n - 1) = n
          /\ \A i \in 1..n : (i <= 1 => i = 1)
          /\ \A i \in 1..n : (~(i <= 1) => i - 1 \in 1..n - 1 /\ (i - 1) + 1 = i)
      <3>1. n \in Nat
        BY <2>3
      <3> QED
        BY <3>1
    <2> HIDE DEF c
    <2>7. \A i \in 1..n : c[i] = drainCh[i]
      BY <2>3, <2>4, <2>5, <2>6
    <2>8. c = drainCh
      BY <2>1, <2>5, <2>6, <2>7, SeqEqual DEF n
    <2> QED
      BY <2>1, <2>2, <2>8 DEF c, h, t
  <1> QED
    BY <1>1, <1>2, <1>3 DEF Abstract!recorderVars

\* The records that writing adds, or the first of them.
LEMMA ToldMore ==
  ASSUME NEW r \in Seq(Rec), NEW d \in Nat, NEW i \in Nat
  PROVE  LET announced == IF d = 0 THEN <<>> ELSE <<[gap |-> d, id |-> 0]>>
             more == Append(announced, [gap |-> 0, id |-> i])
         IN /\ announced \in Seq(Rec) /\ more \in Seq(Rec)
            /\ Told(r, d) = r \o announced /\ ToldAnd(r, d, i) = r \o more
            /\ SubSeq(announced, 1, Len(announced)) = announced
            /\ Len(announced) \in 0..Len(announced) /\ 0 \in 0..Len(announced)
            /\ r = r \o SubSeq(announced, 1, 0) /\ r = r \o SubSeq(more, 1, 0)
            /\ r \o announced = r \o SubSeq(more, 1, Len(announced))
            /\ r \o more = r \o SubSeq(more, 1, Len(more))
            /\ 0 \in 0..Len(more) /\ Len(announced) \in 0..Len(more) /\ Len(more) \in 0..Len(more)
  <1> DEFINE x == Gap(d)
             y == Ev(i)
             announced == IF d = 0 THEN <<>> ELSE <<x>>
             more == Append(announced, y)
  <1>1. x \in Rec /\ y \in Rec /\ x = [gap |-> d, id |-> 0] /\ y = [gap |-> 0, id |-> i]
    BY RecordTypes DEF Gap, Ev
  <1> HIDE DEF x, y
  <1>2. <<>> \in Seq(Rec) /\ <<x>> \in Seq(Rec) /\ r \o <<>> = r
    BY <1>1, ConcatEmptySeq
  <1>3. announced \in Seq(Rec) /\ Told(r, d) = r \o announced
    <2>1. Append(r, x) = r \o <<x>>
      BY <1>1, AppendIsConcat
    <2> QED
      BY <1>2, <2>1 DEF Told, x
  <1> HIDE DEF announced
  <1>4. more \in Seq(Rec) /\ Len(more) = Len(announced) + 1 /\ Len(announced) \in Nat
    BY <1>1, <1>3, AppendProperties, LenProperties
  <1>5. ToldAnd(r, d, i) = r \o more
    <2>1. ToldAnd(r, d, i) = Append(r \o announced, y)
      BY <1>3 DEF ToldAnd, y
    <2>2. r \o more = Append(r \o announced, y)
      BY <1>1, <1>3, AppendAfter
    <2> QED
      BY <2>1, <2>2
  <1>6. /\ SubSeq(announced, 1, Len(announced)) = announced
        /\ SubSeq(more, 1, Len(announced)) = announced
    <2>1. Len(announced) \in 0..Len(announced)
      BY <1>4
    <2> QED
      BY <1>1, <1>3, <2>1, Beginnings
  <1>7. SubSeq(more, 1, Len(more)) = more
    BY <1>1, <1>4, Beginnings
  <1>8. SubSeq(announced, 1, 0) = <<>> /\ SubSeq(more, 1, 0) = <<>>
    <2>1. 1 \in Int /\ 0 \in Int /\ 0 < 1
      OBVIOUS
    <2> HIDE DEF more
    <2> QED
      BY <2>1, SubSeqEmpty
  <1>9. /\ Len(announced) \in 0..Len(announced) /\ 0 \in 0..Len(announced)
        /\ 0 \in 0..Len(more) /\ Len(announced) \in 0..Len(more) /\ Len(more) \in 0..Len(more)
    BY <1>4
  <1> HIDE DEF more
  <1>10. /\ announced = IF d = 0 THEN <<>> ELSE <<[gap |-> d, id |-> 0]>>
         /\ more = Append(announced, [gap |-> 0, id |-> i])
    BY <1>1 DEF announced, more
  <1> QED
    BY <1>2, <1>3, <1>4, <1>5, <1>6, <1>7, <1>8, <1>9, <1>10

\* What no kill can take only grows, and is part of what is written.
LEMMA OnDiskGrows ==
  ASSUME CapInv, Alive, Sound(tape'), Grows(tape, tape')
  PROVE  OnDisk' \in OnDisk..Len(Written') /\ tape.err \in BOOLEAN /\ tape'.err \in BOOLEAN
  <1>1. /\ tape'.files \in Seq(File) /\ NewFile \in File
        /\ tape.err \in BOOLEAN /\ tape'.err \in BOOLEAN
    BY AliveTape, NewFileIsFile DEF Sound, Tapes
  <1>2. /\ DurableTo(tape'.files) \in Progress
        /\ DurableTo(tape'.files).n <= Len(Replayed(tape'.files))
    BY <1>1, DurableAppend, DurableBounded
  <1>3. OnDisk' = DurableTo(tape'.files).n /\ Written' = Replayed(tape'.files)
    BY DEF OnDisk, Durable, DurableTo, Start, Written
  <1>4. OnDisk \in Nat /\ OnDisk <= OnDisk' /\ OnDisk' \in Nat
    BY <1>2, <1>3, OnDiskTypes DEF Grows, Progress
  <1>5. Replayed(tape'.files) \in Seq(Rec)
    BY <1>1, ReplayedAppend
  <1>6. Len(Written') \in Nat
    BY <1>3, <1>5, LenProperties
  <1>7. OnDisk' <= Len(Written')
    BY <1>2, <1>3
  <1> DEFINE a == OnDisk
             b == OnDisk'
             c == Len(Written')
  <1>8. a \in Nat /\ b \in Nat /\ c \in Nat /\ a <= b /\ b <= c
    BY <1>4, <1>6, <1>7
  <1> HIDE DEF a, b, c
  <1>9. b \in a..c
    BY <1>8
  <1> QED
    BY <1>1, <1>9 DEF a, b, c

\* Writing the event in hand is writing the first that is pending.
LEMMA DrainWritesRefines ==
  ASSUME CapInv, DrainWrites
  PROVE  Abstract!Write
  <1> DEFINE d == dropCnt
             i == inHand
             announced == IF d = 0 THEN <<>> ELSE <<[gap |-> d, id |-> 0]>>
             more == Append(announced, [gap |-> 0, id |-> i])
  <1>1. /\ Alive /\ killed = "no" /\ drainPc = "got" /\ drainPc' = "select" /\ dropCnt' = 0
        /\ tape' \in WriteEvent(tape, dropCnt, inHand)
        /\ UNCHANGED <<offerPc, offered, closed, drainCh, killed>>
    BY DEF DrainWrites, Alive
  <1>2. /\ Sound(tape) /\ (tape.err \/ tape.open) /\ d \in Nat /\ i \in Nat /\ Written \in Seq(Rec)
        /\ drainCh \in Seq(Nat)
    BY <1>1, AliveTape DEF CapInv, Types
  <1>3. /\ Sound(tape') /\ Grows(tape, tape') /\ (tape.err => SameRecords(tape, tape'))
        /\ ~tape'.err => Written' = ToldAnd(Written, d, i)
        /\ Written' \in {Written, Told(Written, d), ToldAnd(Written, d, i)}
    <2> HIDE DEF d, i
    <2> QED
      BY <1>1, <1>2, WriteEventDoes DEF Written, d, i
  <1>4. (tape.err => tape'.err) /\ (tape.err => Written' = Written)
    BY <1>3 DEF Grows, SameRecords, Written
  <1>5. OnDisk' \in OnDisk..Len(Written') /\ tape.err \in BOOLEAN /\ tape'.err \in BOOLEAN
    BY <1>1, <1>3, OnDiskGrows
  <1>6. /\ Pending = <<i>> \o drainCh /\ Pending' = drainCh
    <2>1. Pending' = <<>> \o drainCh
      BY <1>1 DEF Pending, Hand
    <2> QED
      BY <1>1, <1>2, <2>1, PendingTypes, ConcatEmptySeq
  <1>7. Pending # <<>> /\ Head(Pending) = i /\ Tail(Pending) = drainCh
    <2> DEFINE c == <<i>> \o drainCh
               n == Len(drainCh)
    <2>1. <<i>> \in Seq(Nat) /\ Len(<<i>>) = 1 /\ <<i>>[1] = i /\ n \in Nat
      BY <1>2, LenProperties
    <2>2. /\ c \in Seq(Nat) /\ Len(c) = 1 + n
          /\ \A k \in 1..1 + n : c[k] = IF k <= 1 THEN <<i>>[k] ELSE drainCh[k - 1]
      BY <1>2, <2>1, ConcatProperties
    <2> HIDE DEF c, n
    <2>3. 1 \in 1..1 + n /\ 1 <= 1 /\ Len(c) # 0 /\ Len(c) - 1 = n
      BY <2>1, <2>2
    <2>4. c # <<>> /\ c[1] = i
      BY <2>1, <2>2, <2>3, EmptySeq
    <2>5. /\ Head(c) = c[1] /\ Tail(c) \in Seq(Nat) /\ Len(Tail(c)) = Len(c) - 1
          /\ \A k \in 1..Len(Tail(c)) : Tail(c)[k] = c[k + 1]
      BY <2>2, <2>4, HeadTailProperties
    <2>6. \A k \in 1..n : k + 1 \in 1..1 + n /\ ~(k + 1 <= 1) /\ (k + 1) - 1 = k
      BY <2>1
    <2>7. \A k \in 1..n : Tail(c)[k] = drainCh[k]
      BY <2>2, <2>3, <2>5, <2>6
    <2>8. Tail(c) = drainCh
      BY <1>2, <2>3, <2>5, <2>7, SeqEqual DEF n
    <2> QED
      BY <1>6, <2>4, <2>5, <2>8 DEF c
  <1>8. /\ announced \in Seq(Rec) /\ more \in Seq(Rec)
        /\ Told(Written, d) = Written \o announced /\ ToldAnd(Written, d, i) = Written \o more
        /\ Written = Written \o SubSeq(more, 1, 0)
        /\ Written \o announced = Written \o SubSeq(more, 1, Len(announced))
        /\ Written \o more = Written \o SubSeq(more, 1, Len(more))
        /\ 0 \in 0..Len(more) /\ Len(announced) \in 0..Len(more) /\ Len(more) \in 0..Len(more)
    <2> HIDE DEF d, i
    <2> QED
      BY <1>2, ToldMore, ZenonT(30)
  <1>9. Uncounted' = Uncounted /\ Phase' = Phase /\ Phase \in {"open", "closing"}
    BY <1>1 DEF Uncounted, Phase
  <1>10. more = Append(Abstract!Announced, [gap |-> 0, id |-> Head(Pending)])
    BY <1>7 DEF Abstract!Announced
  <1> HIDE DEF more, announced, d, i
  <1>11. \E n \in 0..Len(more) : Written' = Written \o SubSeq(more, 1, n)
    BY <1>3, <1>8
  <1>12. ~tape'.err => Written' = Written \o more
    BY <1>3, <1>8
  <1>13. Abstract!Grow(more)
    <2>1. CASE tape.err
      BY <1>4, <1>5, <2>1 DEF Abstract!Grow
    <2>2. CASE ~tape.err /\ ~tape'.err
      BY <1>5, <1>12, <2>2 DEF Abstract!Grow
    <2>3. CASE ~tape.err /\ tape'.err
      BY <1>5, <1>11, <2>3 DEF Abstract!Grow
    <2> QED
      BY <2>1, <2>2, <2>3
  <1>14. Abstract!Grow(Append(Abstract!Announced, [gap |-> 0, id |-> Head(Pending)]))
    BY <1>10, <1>13
  <1> QED
    BY <1>1, <1>6, <1>7, <1>9, <1>14 DEF Abstract!Write

\* A flush makes records durable.
LEMMA DrainFlushesRefines ==
  ASSUME CapInv, DrainFlushes
  PROVE  Abstract!Sync
  <1>1. /\ Alive /\ killed = "no" /\ drainPc = "select" /\ tape' \in Flush(tape)
        /\ UNCHANGED <<offerPc, offered, closed, drainCh, dropCnt, inHand, drainPc, killed>>
    BY DEF DrainFlushes, Alive
  <1>2. Sound(tape') /\ Grows(tape, tape') /\ SameRecords(tape, tape')
    BY <1>1, AliveTape, FlushDoes
  <1>3. (tape.err => tape'.err) /\ Written' = Written
    BY <1>2 DEF Grows, SameRecords, Written
  <1>4. OnDisk' \in OnDisk..Len(Written') /\ tape.err \in BOOLEAN /\ tape'.err \in BOOLEAN
    BY <1>1, <1>2, OnDiskGrows
  <1>5. /\ Uncounted' = Uncounted /\ Phase' = Phase /\ Phase \in {"open", "closing"}
        /\ Pending' = Pending
    BY <1>1 DEF Uncounted, Phase, Pending, Hand
  <1>6. Written = Written \o <<>> /\ Written = Written \o SubSeq(<<>>, 1, 0) /\ 0 \in 0..Len(<<>>)
    <2>1. Written \in Seq(Rec) /\ Len(<<>>) = 0 /\ 1 \in Int /\ 0 \in Int /\ 0 < 1
      BY <1>1, AliveTape
    <2>2. SubSeq(<<>>, 1, 0) = <<>>
      BY <2>1, SubSeqEmpty
    <2> QED
      BY <2>1, <2>2, ConcatEmptySeq
  <1>7. Abstract!Grow(<<>>)
    <2>1. CASE tape.err
      BY <1>3, <1>4, <2>1 DEF Abstract!Grow
    <2>2. CASE ~tape.err /\ ~tape'.err
      BY <1>3, <1>4, <1>6, <2>2 DEF Abstract!Grow
    <2>3. CASE ~tape.err /\ tape'.err
      BY <1>3, <1>4, <1>6, <2>3 DEF Abstract!Grow
    <2> QED
      BY <2>1, <2>2, <2>3
  <1> QED
    BY <1>1, <1>5, <1>7 DEF Abstract!Sync

\* The end of the drain goroutine is the end of closing.
LEMMA DrainFinishesRefines ==
  ASSUME CapInv, DrainFinishes
  PROVE  Abstract!FinishClose
  <1> DEFINE d == dropCnt
             announced == IF d = 0 THEN <<>> ELSE <<[gap |-> d, id |-> 0]>>
  <1>1. /\ Alive /\ killed = "no" /\ drainPc = "select" /\ chClosed /\ drainCh = <<>>
        /\ drainPc' = "done" /\ dropCnt' = 0
        /\ \E t \in WriteFinalGap(tape, dropCnt) : tape' \in CloseCurrent(t)
        /\ UNCHANGED <<offerPc, offered, closed, drainCh, inHand, killed>>
    BY DEF DrainFinishes, Alive
  <1>2. /\ Sound(tape) /\ (tape.err \/ tape.open) /\ d \in Nat /\ Written \in Seq(Rec)
    BY <1>1, AliveTape DEF CapInv, Types
  <1>3. PICK t \in WriteFinalGap(tape, dropCnt) : tape' \in CloseCurrent(t)
    BY <1>1
  <1>4. /\ Sound(t) /\ Grows(tape, t) /\ (tape.err => SameRecords(tape, t))
        /\ ~t.err => Replayed(t.files) = Told(Written, d)
        /\ Replayed(t.files) \in {Written, Told(Written, d)}
    <2> HIDE DEF d
    <2> QED
      BY <1>2, <1>3, FinalGapDoes DEF Written, d
  <1>5. Sound(tape') /\ SameRecords(t, tape') /\ Grows(t, tape') /\ ~tape'.open
    BY <1>3, <1>4, CloseDoes
  <1>6. Grows(tape, tape')
    BY <1>2, <1>4, <1>5, GrowsOn
  <1>7. Written' = Replayed(t.files)
    BY <1>5 DEF SameRecords, Written
  <1>8. /\ (tape.err => tape'.err) /\ (tape.err => Written' = Written)
        /\ (~tape'.err => Written' = Told(Written, d))
        /\ Written' \in {Written, Told(Written, d)}
    <2>1. t.err => tape'.err
      BY <1>5 DEF Grows
    <2>2. tape.err => tape'.err
      BY <1>6 DEF Grows
    <2>3. tape.err => Replayed(t.files) = Written
      BY <1>4 DEF SameRecords, Written
    <2> QED
      BY <1>4, <1>7, <2>1, <2>2, <2>3
  <1>9. OnDisk' \in OnDisk..Len(Written') /\ tape.err \in BOOLEAN /\ tape'.err \in BOOLEAN
    BY <1>1, <1>5, <1>6, OnDiskGrows
  <1>10. ~tape'.err => OnDisk' = Len(Written')
    <2>1. ~tape'.err => DurableTo(tape'.files).n = Len(Replayed(tape'.files))
      BY <1>5, ClosedDurable
    <2> QED
      BY <2>1 DEF OnDisk, Durable, DurableTo, Start, Written
  <1>11. /\ Uncounted' = Uncounted /\ Phase = "closing" /\ Phase' = "closed"
         /\ Pending = <<>> /\ Pending' = <<>>
    <2>1. closed /\ <<>> \o <<>> = <<>>
      BY <1>1 DEF CapInv, Stages
    <2> QED
      BY <1>1, <2>1 DEF Uncounted, Phase, Pending, Hand
  <1>12. /\ Told(Written, d) = Written \o announced
         /\ SubSeq(announced, 1, Len(announced)) = announced
         /\ Len(announced) \in 0..Len(announced) /\ 0 \in 0..Len(announced)
         /\ Written = Written \o SubSeq(announced, 1, 0)
    <2>1. 0 \in Nat
      OBVIOUS
    <2> HIDE DEF d
    <2> QED
      BY <1>2, <2>1, ToldMore
  <1>13. announced = Abstract!Announced
    BY DEF Abstract!Announced
  <1> HIDE DEF announced, d
  <1>14. \E n \in 0..Len(announced) : Written' = Written \o SubSeq(announced, 1, n)
    BY <1>8, <1>12
  <1>15. ~tape'.err => Written' = Written \o announced
    BY <1>8, <1>12
  <1>16. Abstract!Grow(announced)
    <2>1. CASE tape.err
      BY <1>8, <1>9, <2>1 DEF Abstract!Grow
    <2>2. CASE ~tape.err /\ ~tape'.err
      BY <1>9, <1>15, <2>2 DEF Abstract!Grow
    <2>3. CASE ~tape.err /\ tape'.err
      BY <1>9, <1>14, <2>3 DEF Abstract!Grow
    <2> QED
      BY <2>1, <2>2, <2>3
  <1>17. Abstract!Grow(Abstract!Announced)
    BY <1>13, <1>16
  <1> QED
    BY <1>1, <1>10, <1>11, <1>17 DEF Abstract!FinishClose

\* A rotation finishes a file and adds an empty one.
LEMMA KillRotatingKeepsDurable ==
  ASSUME CapInv, KillRotating
  PROVE  OnDisk' \in OnDisk..Len(Written')
  <1> DEFINE s == tape.files
             n == Len(s)
             l == s[n]
             u == [s EXCEPT ![n] = Finished(l)]
             v == Append(u, EmptyFile)
  <1>1. Alive /\ tape' = [tape EXCEPT !.files = v]
    BY DEF KillRotating
  <1>2. s \in Seq(File) /\ Len(s) > 0
    BY <1>1, AliveTape DEF Sound
  <1>3. l \in File
    BY <1>2, NewFileIsFile, LastFile
  <1>4. Finished(l) \in File /\ l.disk <= Finished(l).disk
    BY <1>3, FinishedType
  <1>5. u \in Seq(File)
    BY <1>2, <1>4, LastFile
  <1>6. DurableTo(s).n <= DurableTo(u).n
    BY <1>2, <1>4, ReplaceLast
  <1> HIDE DEF u
  <1>7. DurableTo(v).n = DurableTo(u).n /\ v \in Seq(File)
    BY <1>5, EmptyFileIsFile, AddFile, AppendProperties
  <1> HIDE DEF v
  <1>8. /\ DurableTo(v).n <= Len(Replayed(v)) /\ Replayed(v) \in Seq(Rec)
        /\ DurableTo(v).n \in Nat /\ DurableTo(s).n \in Nat
    <2>1. DurableTo(v) \in Progress /\ DurableTo(s) \in Progress
      BY <1>2, <1>7, EmptyFileIsFile, DurableAppend
    <2> QED
      BY <1>7, <2>1, EmptyFileIsFile, DurableBounded, ReplayedAppend DEF Progress
  <1>9. Len(Replayed(v)) \in Nat
    BY <1>8, LenProperties
  <1>10. DurableTo(v).n \in DurableTo(s).n..Len(Replayed(v))
    BY <1>6, <1>7, <1>8, <1>9
  <1>11. OnDisk = DurableTo(s).n
    BY <1>1, OnDiskTypes
  <1>12. tape'.files = v
    BY <1>1, KilledTape
  <1>13. OnDisk' = DurableTo(v).n /\ Written' = Replayed(v)
    BY <1>12 DEF OnDisk, Durable, DurableTo, Start, Written
  <1> QED
    BY <1>10, <1>11, <1>13

\* A kill is a crash.
LEMMA KillRefines ==
  ASSUME CapInv, Kill \/ KillRotating
  PROVE  Abstract!Crash
  <1>1. /\ Alive /\ killed = "no" /\ killed' # "no"
        /\ UNCHANGED <<offerPc, offered, drainCh, dropCnt, inHand, drainPc>>
        /\ \E files : tape' = [tape EXCEPT !.files = files]
    BY DEF Kill, KillRotating, Alive
  <1>2. tape'.err = tape.err
    BY <1>1, KilledTape
  <1>3. /\ Uncounted' = Uncounted /\ Pending' = Pending /\ Phase # "crashed" /\ Phase' = "crashed"
    BY <1>1 DEF Uncounted, Phase, Pending, Hand
  <1>4. OnDisk \in Nat /\ OnDisk <= Len(Written) /\ OnDisk = DurableTo(tape.files).n
        /\ Written \in Seq(Rec) /\ Len(Written) \in Nat
    BY <1>1, AliveTape, OnDiskTypes
  <1>5. /\ \E n \in OnDisk..Len(Written) : Written' = SubSeq(Written, 1, n)
        /\ OnDisk' \in OnDisk..Len(Written')
    <2>1. CASE Kill
      <3>1. PICK c \in Cuts(LastOf(tape)) \cup {Finished(LastOf(tape))} :
               tape' = [tape EXCEPT !.files = [tape.files EXCEPT ![Len(tape.files)] = c]]
        BY <2>1, KillCuts
      <3> DEFINE u == [tape.files EXCEPT ![Len(tape.files)] = c]
      <3>2. /\ \E j \in DurableTo(tape.files).n..Len(Written) : Replayed(u) = SubSeq(Written, 1, j)
            /\ DurableTo(u).n \in DurableTo(tape.files).n..Len(Replayed(u))
        BY <1>1, AliveTape, KillDoes DEF Written
      <3>3. tape'.files = u
        BY <1>1, <3>1, KilledTape
      <3> HIDE DEF u
      <3>4. Written' = Replayed(u) /\ OnDisk' = DurableTo(u).n
        BY <3>3, SMTT(30) DEF Written, OnDisk, Durable, DurableTo, Start
      <3> QED
        BY <1>4, <3>2, <3>4
    <2>2. CASE KillRotating
      <3>1. Written' = Written
        BY <2>2, KillRotatingKeepsRecords
      <3>2. OnDisk' \in OnDisk..Len(Written)
        BY <2>2, <3>1, KillRotatingKeepsDurable
      <3>3. Written = SubSeq(Written, 1, Len(Written)) /\ Len(Written) \in OnDisk..Len(Written)
        <4>1. Ev(0) \in Rec
          BY RecordTypes
        <4>2. Written = SubSeq(Written, 1, Len(Written))
          BY <1>4, <4>1, Beginnings
        <4>3. Len(Written) \in OnDisk..Len(Written)
          BY <1>4
        <4> QED
          BY <4>2, <4>3
      <3> QED
        BY <3>1, <3>2, <3>3
    <2> QED
      BY <2>1, <2>2
  <1> QED
    BY <1>1, <1>2, <1>3, <1>5 DEF Abstract!Crash

\* Every step is one of the recorder's, or none.
LEMMA NextRefines ==
  CapInv /\ [Next]_vars => [Abstract!Next]_(Abstract!recorderVars)
  <1> SUFFICES ASSUME CapInv, [Next]_vars
               PROVE  [Abstract!Next]_(Abstract!recorderVars)
    OBVIOUS
  <1>1. ASSUME NEW o \in Offerers, Offer(o)
        PROVE  [Abstract!Next]_(Abstract!recorderVars)
    BY <1>1, OfferRefines
  <1>2. CASE Drain
    BY <1>2, DrainTakesRefines, DrainWritesRefines, DrainFlushesRefines, DrainFinishesRefines
       DEF Drain, Abstract!Next
  <1>3. CASE Close
    BY <1>3, CloseRefines
  <1>4. CASE Kill \/ KillRotating
    BY <1>4, KillRefines DEF Abstract!Next
  <1>5. CASE UNCHANGED vars
    BY <1>5 DEF vars, Abstract!recorderVars, Pending, Hand, Phase, OnDisk, Written, Uncounted
  <1> QED
    BY <1>1, <1>2, <1>3, <1>4, <1>5 DEF Next

\* The writer with its files, channel and goroutines is the recorder that Recorder
\* describes, whatever fails and whenever it is killed.
THEOREM CaptureImplementsRecorder == Spec => ImplementsRecorder
  BY InitRefines, NextRefines, CapInvHolds, PTL DEF Spec, ImplementsRecorder, Abstract!Spec
=============================================================================
