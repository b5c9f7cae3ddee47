----------------------- MODULE CollectorStores_proofs -----------------------
(***************************************************************************)
(* Theorems about what the collector holds back of its events: the context *)
(* buffer (RollingBuffer) and the aggregator (EventAggregator), which the  *)
(* router composes; UploadRouter_proofs cites the lemmas about both.       *)
(*                                                                         *)
(* The parts, in order: lists and the folds that filter and sum them; runs *)
(* from the front of a list; the buffer's Add, Promote and expiry, each as *)
(* a lemma about any buffer whose lists and counters agree; the buffer's   *)
(* inductive invariant and its theorems; the aggregator's Add and Flush,   *)
(* as lemmas about any list of one bucket per key; what they count; the    *)
(* aggregator's inductive invariant and its theorems.                      *)
(***************************************************************************)
EXTENDS RollingBuffer, EventAggregator, FiniteSetTheorems, SequenceTheorems, TLAPS

\* The folds of Bytes and of Those.
SumFold == INSTANCE FoldFacts
  WITH op <- LAMBDA p, x, y : x + y, f <- LAMBDA q, e : e.size,
       choose <- LAMBDA s : CHOOSE x \in s : TRUE

ListFold == INSTANCE FoldFacts
  WITH op <- LAMBDA p, x, y : IF x \in p THEN Append(y, x) ELSE y,
       f <- LAMBDA q, i : q[i], choose <- LAMBDA s : Max(s)

-----------------------------------------------------------------------------
\* Induction over lists: what holds of the empty list and is kept by Append.
LEMMA ListInduction ==
  ASSUME NEW E, NEW P, <<>> \in P,
         \A l \in Seq(E), e \in E : l \in P => Append(l, e) \in P
  PROVE  Seq(E) \subseteq P
<1> DEFINE N == {n \in Nat : \A l \in Seq(E) : Len(l) = n => l \in P}
<1>1. 0 \in N
  BY EmptySeq
<1>2. ASSUME NEW n \in Nat, n \in N PROVE n + 1 \in N
  <2> SUFFICES ASSUME NEW l \in Seq(E), Len(l) = n + 1 PROVE l \in P
    OBVIOUS
  <2>1. l # <<>>
    BY EmptySeq
  <2>2. PICK k \in Seq(E), e \in E : l = Append(k, e)
    BY <2>1, SequenceEmptyOrAppend
  <2>3. Len(k) = n
    BY <2>2, AppendProperties, LenProperties
  <2> QED
    BY <1>2, <2>2, <2>3
<1>3. \A n \in Nat : n \in N
  <2> HIDE DEF N
  <2> QED
    BY <1>1, <1>2, SumFold!Induction
<1> QED
  BY <1>3, LenProperties

\* The elements of a list.
LEMMA ToSetFacts ==
  ASSUME NEW E, NEW l \in Seq(E)
  PROVE  /\ ToSet(l) \subseteq E
         /\ ToSet(l) = {l[i] : i \in 1..Len(l)}
         /\ IsFiniteSet(ToSet(l))
         /\ ToSet(<<>>) = {}
         /\ \A e : ToSet(Append(l, e)) = ToSet(l) \union {e}
<1>1. Len(l) \in Nat /\ DOMAIN l = 1..Len(l)
  OBVIOUS
<1>2. ToSet(l) = {l[i] : i \in 1..Len(l)}
  BY <1>1 DEF ToSet
<1>3. IsFiniteSet({l[i] : i \in 1..Len(l)})
  <2> DEFINE r == [i \in 1..Len(l) |-> l[i]]
  <2>1. IsFiniteSet(1..Len(l))
    BY <1>1, FS_Interval
  <2>2. r \in Surjection(1..Len(l), {l[i] : i \in 1..Len(l)})
    BY DEF Surjection
  <2> QED
    BY <2>1, <2>2, FS_Surjection
<1>4. ASSUME NEW e PROVE ToSet(Append(l, e)) = ToSet(l) \union {e}
  <2>1. DOMAIN Append(l, e) = 1..(Len(l) + 1)
    OBVIOUS
  <2>2. \A i \in 1..(Len(l) + 1) : Append(l, e)[i] = IF i = Len(l) + 1 THEN e ELSE l[i]
    OBVIOUS
  <2> QED
    BY <1>2, <2>1, <2>2 DEF ToSet
<1>5. ToSet(<<>>) = {}
  BY DEF ToSet
<1> QED
  BY <1>2, <1>3, <1>4, <1>5

-----------------------------------------------------------------------------
\* Those is a fold over the indices of the list, the last one first.
LEMMA ThoseFold ==
  ASSUME NEW l, NEW S
  PROVE  Those(l, S) = ListFold!FoldOf(S, l, <<>>, DOMAIN l)
BY DEF Those, FoldLeft, ListFold!FoldOf, MapThenFoldSet, ListFold!MapThenFoldSet

\* A non-empty set of numbers up to n has a greatest and a least element.
LEMMA Extremes ==
  ASSUME NEW n \in Nat, NEW T \in SUBSET (0..n), T # {}
  PROVE  /\ Max(T) \in T /\ \A i \in T : i <= Max(T)
         /\ Min(T) \in T /\ \A i \in T : Min(T) <= i
BY ListFold!Bounds DEF Max, Min

\* What the fold of Those needs to know of its indices.
LEMMA Indices ==
  ASSUME NEW n \in Nat
  PROVE  /\ Max(1..(n + 1)) = n + 1
         /\ ListFold!IsFiniteSet(1..n)
         /\ ListFold!Chooses(1..n)
<1>1. Max(1..(n + 1)) = n + 1
  <2> DEFINE T == 1..(n + 1)
  <2>1. T \in SUBSET (0..(n + 1)) /\ n + 1 \in T /\ \A i \in T : i <= n + 1 /\ i \in Int
    OBVIOUS
  <2>2. Max(T) \in T /\ n + 1 <= Max(T)
    <3> HIDE DEF T
    <3> QED
      BY <2>1, Extremes
  <2> QED
    BY <2>1, <2>2
<1>2. IsFiniteSet(1..n)
  BY FS_Interval
<1>3. ListFold!IsFiniteSet(1..n)
  BY <1>2 DEF IsFiniteSet, ListFold!IsFiniteSet
<1>4. \A T \in SUBSET (1..n) : T # {} => Max(T) \in T
  BY Extremes, SUBSET (1..n) \subseteq SUBSET (0..n)
<1> QED
  BY <1>1, <1>3, <1>4 DEF ListFold!Chooses

\* Those, one element at a time.
LEMMA ThoseSteps ==
  ASSUME NEW E, NEW l \in Seq(E), NEW e, NEW S
  PROVE  /\ Those(<<>>, S) = <<>>
         /\ Those(Append(l, e), S) = IF e \in S THEN Append(Those(l, S), e) ELSE Those(l, S)
<1> DEFINE n == Len(l)
           k == Append(l, e)
           D == 1..(n + 1)
<1>1. Those(<<>>, S) = <<>>
  <2>1. DOMAIN <<>> = {}
    OBVIOUS
  <2> QED
    BY <2>1, ThoseFold, ListFold!Empty
<1>2. n \in Nat /\ DOMAIN l = 1..n /\ DOMAIN k = D
  OBVIOUS
<1>3. k[n + 1] = e /\ \A i \in 1..n : k[i] = l[i]
  OBVIOUS
<1>4. /\ D \ {n + 1} = 1..n /\ D # {}
      /\ ListFold!IsFiniteSet(D) /\ ListFold!Chooses(D) /\ Max(D) = n + 1
  <2>1. D \ {n + 1} = 1..n /\ D # {}
    <3>1. \A m \in Nat : (1..(m + 1)) \ {m + 1} = 1..m /\ 1 \in 1..(m + 1)
      OBVIOUS
    <3> QED
      BY <1>2, <3>1
  <2>2. n + 1 \in Nat
    BY <1>2
  <2> QED
    BY <1>2, <2>1, <2>2, Indices
<1>5. ListFold!FoldOf(S, k, <<>>, D)
        = IF e \in S THEN Append(ListFold!FoldOf(S, k, <<>>, D \ {n + 1}), e)
                     ELSE ListFold!FoldOf(S, k, <<>>, D \ {n + 1})
  <2> HIDE DEF D, k, n
  <2> QED
    BY <1>3, <1>4, ListFold!Unfold
<1>6. ListFold!FoldOf(S, k, <<>>, 1..n) = ListFold!FoldOf(S, l, <<>>, 1..n)
  <2> HIDE DEF k, n
  <2> QED
    BY <1>2, <1>3, Indices, ListFold!Congruence
<1> QED
  BY <1>1, <1>2, <1>4, <1>5, <1>6, ThoseFold

\* The list of what is in S: its elements, and which of S matter.
LEMMA ThoseType ==
  ASSUME NEW E, NEW l \in Seq(E), NEW S
  PROVE  /\ Those(l, S) \in Seq(E)
         /\ ToSet(Those(l, S)) = ToSet(l) \intersect S
<1> DEFINE P == {k \in Seq(E) : /\ Those(k, S) \in Seq(E)
                                /\ ToSet(Those(k, S)) = ToSet(k) \intersect S}
<1>1. <<>> \in P
  <2>1. <<>> \in Seq(E)
    BY EmptySeq
  <2>2. Those(<<>>, S) = <<>>
    BY <2>1, ThoseSteps
  <2>3. ToSet(<<>>) = {}
    BY <2>1, ToSetFacts
  <2> QED
    BY <2>1, <2>2, <2>3
<1>2. ASSUME NEW k \in Seq(E), NEW e \in E, k \in P PROVE Append(k, e) \in P
  <2>1. Those(Append(k, e), S) = IF e \in S THEN Append(Those(k, S), e) ELSE Those(k, S)
    BY ThoseSteps
  <2>2. ToSet(Append(k, e)) = ToSet(k) \union {e}
    BY ToSetFacts
  <2>3. ToSet(Append(Those(k, S), e)) = ToSet(Those(k, S)) \union {e}
    BY <1>2, ToSetFacts
  <2>4. Append(k, e) \in Seq(E) /\ Append(Those(k, S), e) \in Seq(E)
    BY <1>2
  <2> QED
    BY <1>2, <2>1, <2>2, <2>3, <2>4
<1>3. l \in P
  <2> HIDE DEF P
  <2> QED
    BY <1>1, <1>2, ListInduction
<1> QED
  BY <1>3

\* Only the elements of the list decide.
LEMMA ThoseSame ==
  ASSUME NEW E, NEW l \in Seq(E), NEW R, NEW S,
         ToSet(l) \intersect R = ToSet(l) \intersect S
  PROVE  Those(l, R) = Those(l, S)
<1> DEFINE P == {k \in Seq(E) : ToSet(k) \intersect R = ToSet(k) \intersect S
                                  => Those(k, R) = Those(k, S)}
<1>1. <<>> \in P
  BY ThoseSteps, EmptySeq
<1>2. ASSUME NEW k \in Seq(E), NEW e \in E, k \in P PROVE Append(k, e) \in P
  <2>1. \A X : Those(Append(k, e), X) = IF e \in X THEN Append(Those(k, X), e) ELSE Those(k, X)
    BY ThoseSteps
  <2>2. ToSet(Append(k, e)) = ToSet(k) \union {e}
    BY ToSetFacts
  <2> QED
    <3>1. Append(k, e) \in Seq(E)
      OBVIOUS
    <3>2. ASSUME ToSet(Append(k, e)) \intersect R = ToSet(Append(k, e)) \intersect S
          PROVE  Those(Append(k, e), R) = Those(Append(k, e), S)
      <4>1. (e \in R <=> e \in S) /\ ToSet(k) \intersect R = ToSet(k) \intersect S
        BY <2>2, <3>2
      <4>2. Those(k, R) = Those(k, S)
        BY <1>2, <4>1
      <4> QED
        BY <2>1, <4>1, <4>2
    <3> QED
      BY <3>1, <3>2
<1>3. l \in P
  <2> HIDE DEF P
  <2> QED
    BY <1>1, <1>2, ListInduction
<1> QED
  BY <1>3

\* Two filters in a row are one.
LEMMA ThoseOfThose ==
  ASSUME NEW E, NEW l \in Seq(E), NEW R, NEW S
  PROVE  Those(Those(l, R), S) = Those(l, R \intersect S)
<1> DEFINE P == {k \in Seq(E) : Those(Those(k, R), S) = Those(k, R \intersect S)}
<1>1. <<>> \in P
  BY ThoseSteps, EmptySeq
<1>2. ASSUME NEW k \in Seq(E), NEW e \in E, k \in P PROVE Append(k, e) \in P
  <2>1. \A X : Those(Append(k, e), X) = IF e \in X THEN Append(Those(k, X), e) ELSE Those(k, X)
    BY ThoseSteps
  <2>2. Those(Append(Those(k, R), e), S)
          = IF e \in S THEN Append(Those(Those(k, R), S), e) ELSE Those(Those(k, R), S)
    <3>1. Those(k, R) \in Seq(E)
      BY ThoseType
    <3> QED
      BY <3>1, ThoseSteps
  <2>3. Append(k, e) \in Seq(E)
    OBVIOUS
  <2>4. CASE e \in R
    <3>1. Those(Those(Append(k, e), R), S)
            = IF e \in S THEN Append(Those(Those(k, R), S), e) ELSE Those(Those(k, R), S)
      BY <2>1, <2>2, <2>4, Zenon
    <3>2. Those(Append(k, e), R \intersect S)
            = IF e \in S THEN Append(Those(k, R \intersect S), e) ELSE Those(k, R \intersect S)
      BY <2>1, <2>4
    <3>3. Those(Those(k, R), S) = Those(k, R \intersect S)
      BY <1>2
    <3>4. Those(Those(Append(k, e), R), S) = Those(Append(k, e), R \intersect S)
      BY ONLY <3>1, <3>2, <3>3
    <3> QED
      BY <2>3, <3>4
  <2>5. CASE e \notin R
    BY <1>2, <2>1, <2>3, <2>5
  <2> QED
    BY <2>4, <2>5
<1>3. l \in P
  <2> HIDE DEF P
  <2> QED
    BY <1>1, <1>2, ListInduction
<1> QED
  BY <1>3

\* A filter that keeps everything changes nothing.
LEMMA ThoseAll ==
  ASSUME NEW E, NEW l \in Seq(E), NEW S, ToSet(l) \subseteq S
  PROVE  Those(l, S) = l
<1> DEFINE P == {k \in Seq(E) : ToSet(k) \subseteq S => Those(k, S) = k}
<1>1. <<>> \in P
  BY ThoseSteps, EmptySeq
<1>2. ASSUME NEW k \in Seq(E), NEW e \in E, k \in P PROVE Append(k, e) \in P
  <2>1. Append(k, e) \in Seq(E) /\ ToSet(Append(k, e)) = ToSet(k) \union {e}
    BY ToSetFacts
  <2>2. Those(Append(k, e), S) = IF e \in S THEN Append(Those(k, S), e) ELSE Those(k, S)
    BY ThoseSteps
  <2> QED
    BY <1>2, <2>1, <2>2
<1>3. l \in P
  <2> HIDE DEF P
  <2> QED
    BY <1>1, <1>2, ListInduction
<1> QED
  BY <1>3

-----------------------------------------------------------------------------
\* Every element stands in relation R to all behind it.
Ordered(l, R) == \A i, j \in 1..Len(l) : i < j => <<l[i], l[j]>> \in R

\* An appended element must stand behind all the others.
LEMMA OrderedAppend ==
  ASSUME NEW E, NEW l \in Seq(E), NEW e \in E, NEW R
  PROVE  /\ Ordered(<<>>, R)
         /\ Ordered(Append(l, e), R) <=> Ordered(l, R) /\ \A x \in ToSet(l) : <<x, e>> \in R
<1> DEFINE k == Append(l, e)
           n == Len(l)
<1>1. n \in Nat /\ Len(k) = n + 1 /\ k[n + 1] = e /\ \A i \in 1..n : k[i] = l[i]
  OBVIOUS
<1>2. ToSet(l) = {l[i] : i \in 1..n}
  BY ToSetFacts
<1>3. Ordered(<<>>, R)
  BY DEF Ordered
<1>4. ASSUME Ordered(k, R) PROVE Ordered(l, R) /\ \A x \in ToSet(l) : <<x, e>> \in R
  <2>1. \A i, j \in 1..(n + 1) : i < j => <<k[i], k[j]>> \in R
    BY <1>1, <1>4 DEF Ordered
  <2> HIDE DEF k, n
  <2>2. \A i \in 1..n : i \in 1..(n + 1) /\ n + 1 \in 1..(n + 1) /\ i < n + 1
    BY <1>1
  <2>3. \A i \in 1..n : <<l[i], e>> \in R
    BY <1>1, <2>1, <2>2
  <2>4. \A i, j \in 1..n : i < j => <<l[i], l[j]>> \in R
    BY <1>1, <2>1, <2>2
  <2> QED
    BY <1>2, <2>3, <2>4 DEF Ordered, n
<1>5. ASSUME Ordered(l, R), \A x \in ToSet(l) : <<x, e>> \in R PROVE Ordered(k, R)
  <2>1. \A i, j \in 1..n : i < j => <<l[i], l[j]>> \in R
    BY <1>5 DEF Ordered
  <2>2. \A i \in 1..n : <<l[i], e>> \in R
    BY <1>2, <1>5
  <2> HIDE DEF k, n
  <2>3. \A i, j \in 1..(n + 1) : i < j => i \in 1..n /\ (j \in 1..n \/ j = n + 1)
    BY <1>1
  <2>4. \A i, j \in 1..(n + 1) : i < j => <<k[i], k[j]>> \in R
    BY <1>1, <2>1, <2>2, <2>3
  <2> QED
    BY <1>1, <2>4 DEF Ordered
<1> QED
  BY <1>3, <1>4, <1>5

\* A filter keeps the order.
LEMMA OrderedThose ==
  ASSUME NEW E, NEW l \in Seq(E), NEW S, NEW R, Ordered(l, R)
  PROVE  Ordered(Those(l, S), R)
<1> DEFINE P == {k \in Seq(E) : Ordered(k, R) => Ordered(Those(k, S), R)}
<1>1. <<>> \in P
  BY ThoseSteps, EmptySeq
<1>2. ASSUME NEW k \in Seq(E), NEW e \in E, k \in P PROVE Append(k, e) \in P
  <2>1. Those(Append(k, e), S) = IF e \in S THEN Append(Those(k, S), e) ELSE Those(k, S)
    BY ThoseSteps
  <2>2. Those(k, S) \in Seq(E) /\ ToSet(Those(k, S)) \subseteq ToSet(k)
    BY ThoseType
  <2>3. ASSUME Ordered(Append(k, e), R) PROVE Ordered(Those(Append(k, e), S), R)
    BY <1>2, <2>1, <2>2, <2>3, OrderedAppend
  <2>4. Append(k, e) \in Seq(E)
    OBVIOUS
  <2> QED
    BY <2>3, <2>4
<1>3. l \in P
  <2> HIDE DEF P
  <2> QED
    BY <1>1, <1>2, ListInduction
<1> QED
  BY <1>3

-----------------------------------------------------------------------------
\* Induction over the subsets of a finite set.
LEMMA SetInduction ==
  ASSUME NEW S, IsFiniteSet(S), NEW P, {} \in P,
         \A T \in SUBSET S, x \in S : T \in P => T \union {x} \in P
  PROVE  SUBSET S \subseteq P
<1> DEFINE N == {n \in Nat : \A T \in SUBSET S : Cardinality(T) = n => T \in P}
<1>0. \A T \in SUBSET S : IsFiniteSet(T) /\ Cardinality(T) \in Nat
  BY FS_Subset, FS_CardinalityType
<1>1. 0 \in N
  BY <1>0, FS_EmptySet
<1>2. ASSUME NEW n \in Nat, n \in N PROVE n + 1 \in N
  <2> SUFFICES ASSUME NEW T \in SUBSET S, Cardinality(T) = n + 1 PROVE T \in P
    OBVIOUS
  <2>1. PICK x : x \in T
    BY <1>0, FS_EmptySet
  <2> DEFINE U == T \ {x}
  <2>2. U \in SUBSET S /\ Cardinality(U) = n
    <3>1. Cardinality(U) = Cardinality(T) - 1
      BY <1>0, <2>1, FS_RemoveElement
    <3> QED
      BY <1>0, <3>1
  <2>3. U \in P
    BY <1>2, <2>2
  <2>4. T = U \union {x} /\ x \in S
    BY <2>1
  <2> QED
    BY <2>2, <2>3, <2>4
<1>3. \A n \in Nat : n \in N
  <2> HIDE DEF N
  <2> QED
    BY <1>1, <1>2, SumFold!Induction
<1> QED
  BY <1>0, <1>3

\* A finite set of entries.
Sized(S) == IsFiniteSet(S) /\ \A e \in S : e.size \in Nat

\* Bytes is a fold that adds the sizes of a set.
LEMMA BytesFold ==
  ASSUME NEW S
  PROVE  Bytes(S) = SumFold!FoldOf(0, 0, 0, S)
BY DEF Bytes, MapThenSumSet, SumFold!FoldOf, MapThenFoldSet, SumFold!MapThenFoldSet

\* The sum does not depend on the order in which a fold takes the entries.
LEMMA BytesSteps ==
  ASSUME NEW S, Sized(S)
  PROVE  /\ Bytes({}) = 0
         /\ Bytes(S) \in Nat
         /\ \A y \in S : Bytes(S) = y.size + Bytes(S \ {y})
<1> DEFINE Good(U) == Bytes(U) \in Nat /\ \A y \in U : Bytes(U) = y.size + Bytes(U \ {y})
           N == {n \in Nat : \A U \in SUBSET S : Cardinality(U) <= n => Good(U)}
<1>0. \A U \in SUBSET S : IsFiniteSet(U) /\ Cardinality(U) \in Nat
  BY FS_Subset, FS_CardinalityType DEF Sized
<1>1. Bytes({}) = 0
  BY BytesFold, SumFold!Empty
<1>2. ASSUME NEW U \in SUBSET S, U # {} PROVE \E x \in U : Bytes(U) = x.size + Bytes(U \ {x})
  <2>1. SumFold!Chooses(U)
    BY DEF SumFold!Chooses
  <2>2. SumFold!IsFiniteSet(U)
    BY <1>0 DEF IsFiniteSet, SumFold!IsFiniteSet
  <2> QED
    BY <1>2, <2>1, <2>2, SumFold!SomeFirst, BytesFold
<1>3. 0 \in N
  <2>1. ASSUME NEW U \in SUBSET S, Cardinality(U) <= 0 PROVE U = {}
    BY <1>0, <2>1, FS_EmptySet
  <2>2. Good({})
    BY <1>1
  <2> HIDE DEF Good
  <2> QED
    BY <2>1, <2>2
<1>4. ASSUME NEW n \in Nat, n \in N PROVE n + 1 \in N
  <2> SUFFICES ASSUME NEW U \in SUBSET S, Cardinality(U) <= n + 1 PROVE Good(U)
    OBVIOUS
  <2> SUFFICES ASSUME U # {} PROVE Good(U)
    BY <1>1
  <2>2. PICK x \in U : Bytes(U) = x.size + Bytes(U \ {x})
    BY <1>2
  <2>3. \A y \in U : U \ {y} \in SUBSET S /\ Cardinality(U \ {y}) <= n
    BY <1>0, FS_RemoveElement
  <2>4. \A y \in U : Good(U \ {y})
    BY <1>4, <2>3
  <2>5. \A y \in U : y.size \in Nat
    BY DEF Sized
  <2>6. Bytes(U) \in Nat
    BY <2>2, <2>4, <2>5
  <2>7. ASSUME NEW y \in U, y # x PROVE Bytes(U) = y.size + Bytes(U \ {y})
    <3> DEFINE W == (U \ {x}) \ {y}
    <3>1. Bytes(U \ {x}) = y.size + Bytes(W)
      BY <2>4, <2>7
    <3>2. W = (U \ {y}) \ {x}
      OBVIOUS
    <3>3. Bytes(U \ {y}) = x.size + Bytes(W)
      BY <2>4, <2>7, <3>2
    <3>4. W \in SUBSET S /\ Cardinality(W) <= n
      <4>1. Cardinality(W) = Cardinality(U \ {x}) - 1
        BY <1>0, <2>3, <2>7, FS_RemoveElement
      <4> QED
        BY <1>0, <2>3, <4>1
    <3>5. Bytes(W) \in Nat
      BY <1>4, <3>4
    <3> QED
      BY <2>2, <2>5, <3>1, <3>3, <3>5
  <2> QED
    BY <2>2, <2>6, <2>7
<1>5. \A n \in Nat : n \in N
  <2> HIDE DEF N
  <2> QED
    BY <1>3, <1>4, SumFold!Induction
<1>6. S \in SUBSET S /\ Cardinality(S) \in Nat /\ Cardinality(S) <= Cardinality(S)
  BY <1>0
<1> QED
  BY <1>1, <1>5, <1>6

\* A set weighs as much as its two parts.
LEMMA BytesParts ==
  ASSUME NEW S, Sized(S), NEW T \in SUBSET S
  PROVE  /\ Sized(T) /\ Sized(S \ T)
         /\ Bytes(S) \in Nat /\ Bytes(T) \in Nat /\ Bytes(S \ T) \in Nat
         /\ Bytes(S) = Bytes(T) + Bytes(S \ T)
<1> DEFINE P == {U \in SUBSET S : Bytes(S) = Bytes(U) + Bytes(S \ U)}
<1>1. \A U \in SUBSET S : Sized(U)
  BY FS_Subset DEF Sized
<1>2. \A U \in SUBSET S : Bytes(U) \in Nat
  BY <1>1, BytesSteps
<1>3. {} \in P
  <2>1. S \ {} = S /\ Bytes({}) = 0
    BY BytesSteps
  <2> QED
    BY <1>2, <2>1
<1>4. ASSUME NEW U \in SUBSET S, NEW x \in S, U \in P PROVE U \union {x} \in P
  <2>1. CASE x \in U
    <3>1. U \union {x} = U
      BY <2>1
    <3> QED
      BY <1>4, <3>1
  <2>2. CASE x \notin U
    <3> DEFINE W == U \union {x}
    <3>1. W \in SUBSET S /\ x \in W /\ x \in S \ U
      BY <2>2
    <3>2. W \ {x} = U /\ (S \ U) \ {x} = S \ W
      BY <2>2
    <3>3. Bytes(W) = x.size + Bytes(U)
      BY <1>1, <3>1, <3>2, BytesSteps
    <3>4. Bytes(S \ U) = x.size + Bytes(S \ W)
      BY <1>1, <3>1, <3>2, BytesSteps
    <3>5. x.size \in Nat /\ Bytes(U) \in Nat /\ Bytes(S \ W) \in Nat
      BY <1>2 DEF Sized
    <3>6. Bytes(S) = Bytes(W) + Bytes(S \ W)
      BY <1>4, <3>3, <3>4, <3>5
    <3> QED
      BY <3>1, <3>6
  <2> QED
    BY <2>1, <2>2
<1>5. T \in P
  <2> HIDE DEF P
  <2> QED
    BY <1>3, <1>4, SetInduction DEF Sized
<1> QED
  BY <1>1, <1>2, <1>5

-----------------------------------------------------------------------------
\* The first k elements of a list.
Run(l, k) == ToSet(SubSeq(l, 1, k))

\* A run grows by one element of the list at a time.
LEMMA RunFacts ==
  ASSUME NEW E, NEW l \in Seq(E), NEW k \in 0..Len(l)
  PROVE  /\ Run(l, k) = {l[i] : i \in 1..k}
         /\ Run(l, k) \subseteq ToSet(l)
         /\ Run(l, 0) = {}
         /\ Run(l, Len(l)) = ToSet(l)
         /\ k # 0 => /\ k - 1 \in 0..Len(l)
                     /\ Run(l, k) = Run(l, k - 1) \union {l[k]}
                     /\ l[k] \in ToSet(l)
<1>0. ToSet(l) = {l[i] : i \in 1..Len(l)} /\ Len(l) \in Nat
  BY ToSetFacts
<1>1. ASSUME NEW j \in 0..Len(l) PROVE Run(l, j) = {l[i] : i \in 1..j}
  <2>1. \A i \in 1..j : l[i] \in E
    BY <1>0
  <2>2. /\ SubSeq(l, 1, j) \in Seq(E)
        /\ Len(SubSeq(l, 1, j)) = j
        /\ \A i \in 1..j : SubSeq(l, 1, j)[i] = l[i]
    BY <2>1, SubSeqProperties
  <2> DEFINE m == SubSeq(l, 1, j)
  <2>3. ToSet(m) = {m[i] : i \in 1..Len(m)}
    <3>1. m \in Seq(E)
      BY <2>2
    <3> HIDE DEF m
    <3> QED
      BY <3>1, ToSetFacts
  <2>4. {m[i] : i \in 1..j} = {l[i] : i \in 1..j}
    BY <2>2
  <2> QED
    BY <2>2, <2>3, <2>4 DEF Run
<1>2. 0 \in 0..Len(l) /\ Len(l) \in 0..Len(l) /\ 1..0 = {}
  BY <1>0
<1>3. Run(l, 0) = {}
  BY <1>1, <1>2
<1>4. ASSUME k # 0
      PROVE  /\ k - 1 \in 0..Len(l)
             /\ Run(l, k) = Run(l, k - 1) \union {l[k]}
             /\ l[k] \in ToSet(l)
  <2>1. k - 1 \in 0..Len(l) /\ k \in 1..Len(l) /\ \A i : i \in 1..k <=> i \in 1..(k - 1) \/ i = k
    BY <1>0, <1>4
  <2> QED
    BY <1>0, <1>1, <2>1
<1> QED
  BY <1>0, <1>1, <1>2, <1>3, <1>4

\* In an ordered list, a run stands before all that it leaves.
LEMMA RunOrdered ==
  ASSUME NEW E, NEW l \in Seq(E), NEW k \in 0..Len(l), NEW R, Ordered(l, R)
  PROVE  \A x \in Run(l, k), y \in ToSet(l) \ Run(l, k) : <<x, y>> \in R
<1> SUFFICES ASSUME NEW x \in Run(l, k), NEW y \in ToSet(l) \ Run(l, k) PROVE <<x, y>> \in R
  OBVIOUS
<1>1. PICK i \in 1..k : x = l[i]
  BY RunFacts
<1>2. PICK j \in 1..Len(l) : y = l[j]
  BY ToSetFacts
<1>3. j \notin 1..k
  BY <1>2, RunFacts
<1>4. Len(l) \in Nat
  OBVIOUS
<1> QED
  BY <1>1, <1>2, <1>3, <1>4 DEF Ordered

-----------------------------------------------------------------------------
\* E is a set of entries.
EntrySet(E) ==
  \A e \in E : e.scope \in Scopes /\ e.size \in Nat /\ e.timestamp \in Int

\* The entries of a list can be summed.
LEMMA ListSized ==
  ASSUME NEW E, EntrySet(E), NEW l \in Seq(E)
  PROVE  Sized(ToSet(l))
BY ToSetFacts DEF Sized, EntrySet

\* FrontWorth is the shortest run from the front that is worth the excess.
LEMMA FrontWorthFacts ==
  ASSUME NEW E, EntrySet(E), NEW l \in Seq(E), NEW excess \in Int,
         excess <= Bytes(ToSet(l))
  PROVE  \E k \in 0..Len(l) :
           /\ FrontWorth(l, excess) = Run(l, k)
           /\ Bytes(Run(l, k)) >= excess
           /\ k # 0 => Bytes(Run(l, k - 1)) < excess
<1> DEFINE Enough == {k \in 0..Len(l) : Bytes(Run(l, k)) >= excess}
<1>1. Len(l) \in Nat /\ Len(l) \in Enough
  <2>1. Len(l) \in Nat /\ Len(l) \in 0..Len(l)
    OBVIOUS
  <2>2. Bytes(Run(l, Len(l))) \in Nat /\ Run(l, Len(l)) = ToSet(l)
    BY <2>1, ListSized, BytesSteps, RunFacts
  <2> QED
    BY <2>1, <2>2
<1>2. Enough # {} /\ Enough \in SUBSET (0..Len(l))
  BY <1>1
<1>3. Min(Enough) \in Enough /\ \A k \in Enough : Min(Enough) <= k
  <2> HIDE DEF Enough
  <2> QED
    BY <1>1, <1>2, Extremes
<1>4. FrontWorth(l, excess) = Run(l, Min(Enough))
  BY DEF FrontWorth, Run
<1> DEFINE n == Min(Enough)
<1>5. n \in 0..Len(l) /\ Bytes(Run(l, n)) >= excess
  BY <1>3
<1>6. ASSUME n # 0 PROVE Bytes(Run(l, n - 1)) < excess
  <2>1. n - 1 \in 0..Len(l) /\ ~(n <= n - 1)
    BY <1>1, <1>5, <1>6
  <2>2. ~(n - 1 \in Enough)
    BY <1>3, <2>1
  <2>3. Bytes(Run(l, n - 1)) \in Nat
    BY <2>1, RunFacts, ListSized, BytesParts
  <2> QED
    BY <2>1, <2>2, <2>3
<1> HIDE DEF n, Enough
<1> QED
  BY <1>4, <1>5, <1>6 DEF n

-----------------------------------------------------------------------------
\* A buffer of entries from E, its scope lists and counters in step with its
\* global list.
BufferOf(E) ==
  [global : Seq(E), scopes : [Scopes -> Seq(E)], scopeBytes : [Scopes -> Int], totalBytes : Int]

OfScope(S, s) == {e \in S : e.scope = s}

Sound(b, E) ==
  /\ b \in BufferOf(E)
  /\ \A s \in Scopes :
       /\ b.scopes[s] = Those(b.global, OfScope(Held(b), s))
       /\ b.scopeBytes[s] = Bytes(ToSet(b.scopes[s]))
  /\ b.totalBytes = Bytes(Held(b))

\* What the lists of such a buffer hold.
LEMMA SoundFacts ==
  ASSUME NEW E, EntrySet(E), NEW b, Sound(b, E)
  PROVE  /\ b.global \in Seq(E)
         /\ Held(b) \subseteq E /\ Sized(Held(b))
         /\ \A s \in Scopes :
              /\ b.scopes[s] \in Seq(E)
              /\ ToSet(b.scopes[s]) = OfScope(Held(b), s)
<1>1. b.global \in Seq(E) /\ \A s \in Scopes : b.scopes[s] \in Seq(E)
  BY DEF Sound, BufferOf
<1>2. \A s \in Scopes : ToSet(b.scopes[s]) = ToSet(b.global) \intersect OfScope(Held(b), s)
  BY <1>1, ThoseType DEF Sound
<1>3. \A s \in Scopes : ToSet(b.scopes[s]) = OfScope(Held(b), s)
  BY <1>2 DEF Held, OfScope
<1> QED
  BY <1>1, <1>3, ToSetFacts, ListSized DEF Held

\* The empty buffer is one.
LEMMA EmptySound ==
  ASSUME NEW E, EntrySet(E)
  PROVE  Sound(EmptyBuffer, E) /\ Held(EmptyBuffer) = {}
<1>1. ToSet(<<>>) = {} /\ \A S : Those(<<>>, S) = <<>>
  <2>1. <<>> \in Seq(E)
    OBVIOUS
  <2> QED
    BY <2>1, ThoseSteps, ToSetFacts
<1>2. Bytes({}) = 0
  BY BytesFold, SumFold!Empty
<1>3. Held(EmptyBuffer) = {}
  BY <1>1 DEF Held, EmptyBuffer
<1>4. EmptyBuffer \in BufferOf(E)
  BY DEF EmptyBuffer, BufferOf
<1> QED
  BY <1>1, <1>2, <1>3, <1>4 DEF Sound, EmptyBuffer

\* removeLocked keeps the lists and the counters in step.
LEMMA RemoveSound ==
  ASSUME NEW E, EntrySet(E), NEW b, Sound(b, E), NEW V \in SUBSET Held(b),
         NEW r, r = RemoveEntries(b, V)
  PROVE  /\ Sound(r, E)
         /\ Held(r) = Held(b) \ V
         /\ r.global = Those(b.global, Held(r))
         /\ r.totalBytes = b.totalBytes - Bytes(V)
         /\ \A s \in Scopes : r.scopeBytes[s] = b.scopeBytes[s] - Bytes(OfScope(V, s))
<1> DEFINE H == Held(b)
<1>1. /\ b.global \in Seq(E) /\ H \subseteq E /\ Sized(H)
      /\ \A s \in Scopes : b.scopes[s] \in Seq(E) /\ ToSet(b.scopes[s]) = OfScope(H, s)
  BY SoundFacts
<1>2. r.global = Those(b.global, H \ V)
  BY DEF RemoveEntries, Held
<1>3. r.global \in Seq(E) /\ Held(r) = H \ V
  <2>1. Those(b.global, H \ V) \in Seq(E) /\ ToSet(Those(b.global, H \ V)) = ToSet(b.global) \intersect (H \ V)
    BY <1>1, ThoseType
  <2> QED
    BY <1>2, <2>1 DEF Held
<1>4. ASSUME NEW s \in Scopes
      PROVE  /\ r.scopes[s] = Those(r.global, OfScope(Held(r), s))
             /\ r.scopes[s] \in Seq(E)
             /\ ToSet(r.scopes[s]) = OfScope(H, s) \ OfScope(V, s)
  <2>1. r.scopes[s] = Those(b.scopes[s], ToSet(b.scopes[s]) \ V)
    BY DEF RemoveEntries
  <2>2. r.scopes[s] = Those(Those(b.global, OfScope(H, s)), OfScope(H, s) \ V)
    BY <1>1, <2>1 DEF Sound
  <2>3. r.scopes[s] = Those(b.global, OfScope(H, s) \ V)
    <3>1. OfScope(H, s) \intersect (OfScope(H, s) \ V) = OfScope(H, s) \ V
      OBVIOUS
    <3> QED
      BY <1>1, <2>2, <3>1, ThoseOfThose
  <2>4. Those(r.global, OfScope(Held(r), s)) = Those(b.global, OfScope(H, s) \ V)
    <3>1. (H \ V) \intersect OfScope(H \ V, s) = OfScope(H, s) \ V
      BY DEF OfScope
    <3>2. Those(r.global, OfScope(H \ V, s)) = Those(b.global, (H \ V) \intersect OfScope(H \ V, s))
      <4>1. \A R, S : Those(Those(b.global, R), S) = Those(b.global, R \intersect S)
        <5>1. b.global \in Seq(E)
          BY <1>1
        <5> QED
          BY ONLY <5>1, ThoseOfThose
      <4> QED
        BY <1>2, <4>1, Zenon
    <3> QED
      BY <1>3, <3>1, <3>2
  <2>5. r.scopes[s] \in Seq(E) /\ ToSet(r.scopes[s]) = ToSet(b.global) \intersect (OfScope(H, s) \ V)
    BY <1>1, <2>3, ThoseType
  <2> QED
    BY <2>3, <2>4, <2>5 DEF OfScope, Held
<1>5. ASSUME NEW s \in Scopes
      PROVE  /\ r.scopeBytes[s] = b.scopeBytes[s] - Bytes(OfScope(V, s))
             /\ r.scopeBytes[s] = Bytes(ToSet(r.scopes[s]))
             /\ r.scopeBytes[s] \in Int
  <2> DEFINE A == OfScope(H, s)
             W == OfScope(V, s)
  <2>1. b.scopeBytes[s] = Bytes(A)
    BY <1>1 DEF Sound
  <2>2. A \in SUBSET H /\ W \in SUBSET A
    BY DEF OfScope
  <2>3. Sized(A)
    BY <1>1, <2>2, BytesParts
  <2>4. /\ Bytes(A) = Bytes(W) + Bytes(A \ W)
        /\ Bytes(A) \in Nat /\ Bytes(W) \in Nat /\ Bytes(A \ W) \in Nat
    BY <2>2, <2>3, BytesParts
  <2>5. r.scopeBytes[s] = IF r.scopes[s] = <<>> THEN 0 ELSE b.scopeBytes[s] - Bytes(W)
    BY DEF RemoveEntries, OfScope
  <2>6. r.scopes[s] = <<>> => A \ W = {}
    BY <1>4, ToSetFacts
  <2>7. Bytes({}) = 0
    BY BytesFold, SumFold!Empty
  <2>8. ToSet(r.scopes[s]) = A \ W
    BY <1>4
  <2>9. Bytes(ToSet(r.scopes[s])) = Bytes(A) - Bytes(W)
    BY <2>4, <2>8
  <2>10. r.scopeBytes[s] = Bytes(A) - Bytes(W)
    <3>1. CASE r.scopes[s] = <<>>
      <4>1. Bytes(A \ W) = 0
        BY <2>6, <2>7, <3>1
      <4> QED
        BY <2>4, <2>5, <3>1, <4>1
    <3>2. CASE r.scopes[s] # <<>>
      BY <2>1, <2>5, <3>2
    <3> QED
      BY <3>1, <3>2
  <2> QED
    BY <2>1, <2>4, <2>9, <2>10
<1>6. /\ r.totalBytes = b.totalBytes - Bytes(V)
      /\ r.totalBytes = Bytes(Held(r))
      /\ r.totalBytes \in Int
  <2>1. r.totalBytes = b.totalBytes - Bytes(V)
    BY DEF RemoveEntries
  <2>2. /\ Bytes(H) = Bytes(V) + Bytes(H \ V)
        /\ Bytes(H) \in Nat /\ Bytes(V) \in Nat /\ Bytes(H \ V) \in Nat
    BY <1>1, BytesParts
  <2>3. b.totalBytes = Bytes(H)
    BY DEF Sound
  <2> QED
    BY <1>3, <2>1, <2>2, <2>3
<1>7. r \in BufferOf(E)
  <2>1. /\ r.scopes \in [Scopes -> Seq(E)]
        /\ r.scopeBytes \in [Scopes -> Int]
    <3>1. /\ r.scopes = [s \in Scopes |-> r.scopes[s]]
          /\ r.scopeBytes = [s \in Scopes |-> r.scopeBytes[s]]
      BY DEF RemoveEntries
    <3> QED
      BY <1>4, <1>5, <3>1
  <2>2. r = [global |-> r.global, scopes |-> r.scopes, scopeBytes |-> r.scopeBytes,
             totalBytes |-> r.totalBytes]
    BY DEF RemoveEntries
  <2> QED
    BY <1>3, <1>6, <2>1, <2>2 DEF BufferOf
<1> QED
  BY <1>2, <1>3, <1>4, <1>5, <1>6, <1>7 DEF Sound

\* Inserting an entry keeps them in step too.
LEMMA PushSound ==
  ASSUME NEW E, EntrySet(E), NEW b, Sound(b, E), NEW e \in E, e \notin Held(b),
         NEW r, r = Push(b, e)
  PROVE  /\ Sound(r, E)
         /\ Held(r) = Held(b) \union {e}
         /\ r.global = Append(b.global, e)
         /\ r.totalBytes = b.totalBytes + e.size
         /\ \A s \in Scopes :
              r.scopeBytes[s] = b.scopeBytes[s] + IF s = e.scope THEN e.size ELSE 0
<1> DEFINE H == Held(b)
<1>1. /\ b.global \in Seq(E) /\ H \subseteq E /\ Sized(H) /\ e.size \in Nat /\ e.scope \in Scopes
      /\ \A s \in Scopes : b.scopes[s] \in Seq(E) /\ ToSet(b.scopes[s]) = OfScope(H, s)
  BY SoundFacts DEF EntrySet
<1>2. /\ b = [global |-> b.global, scopes |-> b.scopes, scopeBytes |-> b.scopeBytes,
              totalBytes |-> b.totalBytes]
      /\ b.scopes \in [Scopes -> Seq(E)] /\ b.scopeBytes \in [Scopes -> Int]
      /\ b.totalBytes \in Int
  BY DEF Sound, BufferOf
<1>3. r = [global     |-> Append(b.global, e),
           scopes     |-> [b.scopes EXCEPT ![e.scope] = Append(@, e)],
           scopeBytes |-> [b.scopeBytes EXCEPT ![e.scope] = @ + e.size],
           totalBytes |-> b.totalBytes + e.size]
  BY <1>2 DEF Push
<1>4. /\ r.global = Append(b.global, e) /\ r.totalBytes = b.totalBytes + e.size
      /\ Append(b.global, e) \in Seq(E) /\ Held(r) = H \union {e}
  BY <1>1, <1>3, ToSetFacts DEF Held
<1>5. ASSUME NEW S, Sized(S), e \notin S
      PROVE  Bytes(S \union {e}) = Bytes(S) + e.size /\ Bytes(S) \in Nat
  <2>1. Sized(S \union {e})
    BY <1>1, <1>5, FS_AddElement DEF Sized
  <2>2. (S \union {e}) \ {e} = S
    BY <1>5
  <2>3. Bytes(S \union {e}) = e.size + Bytes(S)
    BY <2>1, <2>2, BytesSteps
  <2> QED
    BY <1>1, <1>5, <2>3, BytesSteps
<1>6. r.totalBytes = Bytes(Held(r))
  <2>1. b.totalBytes = Bytes(H)
    BY DEF Sound
  <2> QED
    BY <1>1, <1>4, <1>5, <2>1
<1>7. ASSUME NEW s \in Scopes
      PROVE  /\ r.scopes[s] = Those(r.global, OfScope(Held(r), s))
             /\ r.scopeBytes[s] = Bytes(ToSet(r.scopes[s]))
             /\ r.scopeBytes[s] = b.scopeBytes[s] + IF s = e.scope THEN e.size ELSE 0
  <2> DEFINE A == OfScope(H \union {e}, s)
  <2>1. Those(b.global, A) = b.scopes[s]
    <3>1. ToSet(b.global) \intersect A = ToSet(b.global) \intersect OfScope(H, s)
      BY DEF OfScope, Held
    <3>2. Those(b.global, A) = Those(b.global, OfScope(H, s))
      BY <1>1, <3>1, ThoseSame
    <3> QED
      BY <3>2 DEF Sound
  <2>2. Those(Append(b.global, e), A)
          = IF e \in A THEN Append(Those(b.global, A), e) ELSE Those(b.global, A)
    <3>1. b.global \in Seq(E)
      BY <1>1
    <3> HIDE DEF A
    <3> QED
      BY ONLY <3>1, ThoseSteps
  <2>3. e \in A <=> s = e.scope
    BY DEF OfScope
  <2>4. r.scopes[s] = IF s = e.scope THEN Append(b.scopes[s], e) ELSE b.scopes[s]
    BY <1>2, <1>3
  <2>5. r.scopes[s] = Those(r.global, OfScope(Held(r), s))
    <3>1. r.global = Append(b.global, e) /\ OfScope(Held(r), s) = A
      BY <1>4
    <3> HIDE DEF A
    <3> QED
      BY <2>1, <2>2, <2>3, <2>4, <3>1
  <2>6. r.scopeBytes[s] = b.scopeBytes[s] + IF s = e.scope THEN e.size ELSE 0
    BY <1>1, <1>2, <1>3
  <2>7. b.scopeBytes[s] = Bytes(OfScope(H, s))
    BY <1>1 DEF Sound
  <2>8. ToSet(r.scopes[s]) = OfScope(H, s) \union (IF s = e.scope THEN {e} ELSE {})
    BY <1>1, <2>4, ToSetFacts
  <2>9. OfScope(H, s) \in SUBSET H /\ e \notin OfScope(H, s)
    BY DEF OfScope
  <2>10. Sized(OfScope(H, s))
    BY <1>1, <2>9, BytesParts
  <2>11. r.scopeBytes[s] = Bytes(ToSet(r.scopes[s]))
    <3>1. CASE s = e.scope
      BY <1>1, <1>5, <2>6, <2>7, <2>8, <2>9, <2>10, <3>1
    <3>2. CASE s # e.scope
      <4>1. ToSet(r.scopes[s]) = OfScope(H, s)
        BY <2>8, <3>2
      <4> QED
        BY <1>2, <2>6, <2>7, <3>2, <4>1
    <3> QED
      BY <3>1, <3>2
  <2> QED
    BY <2>5, <2>6, <2>11
<1>8. r \in BufferOf(E)
  <2>1. [b.scopes EXCEPT ![e.scope] = Append(@, e)] \in [Scopes -> Seq(E)]
    BY <1>1, <1>2
  <2>2. [b.scopeBytes EXCEPT ![e.scope] = @ + e.size] \in [Scopes -> Int]
    BY <1>1, <1>2
  <2> QED
    BY <1>1, <1>2, <1>3, <1>4, <2>1, <2>2 DEF BufferOf
<1> QED
  BY <1>4, <1>6, <1>7, <1>8 DEF Sound

\* expireLocked takes a run from the front and stops at the first live entry.
LEMMA ExpiredFacts ==
  ASSUME NEW E, EntrySet(E), NEW b, Sound(b, E), NEW t \in Int, TTL \in Int
  PROVE  \E k \in 0..Len(b.global) :
           /\ Expired(b, t) = Run(b.global, k)
           /\ \A x \in Run(b.global, k) : x.timestamp <= t - TTL
           /\ k # Len(b.global) => ~(b.global[k + 1].timestamp <= t - TTL)
<1> DEFINE l == b.global
           Stale == {k \in 0..Len(l) : \A i \in 1..k : l[i].timestamp <= t - TTL}
           n == Max(Stale)
<1>1. l \in Seq(E) /\ Len(l) \in Nat
  BY SoundFacts
<1>2. Stale \in SUBSET (0..Len(l)) /\ Stale # {}
  <2>1. 0 \in Stale
    BY <1>1
  <2> QED
    BY <2>1
<1>3. n \in Stale /\ \A k \in Stale : k <= n
  <2> HIDE DEF Stale
  <2> QED
    BY <1>1, <1>2, Extremes
<1>4. Expired(b, t) = Run(l, n)
  BY DEF Expired, Run
<1>5. n \in 0..Len(l) /\ \A i \in 1..n : l[i].timestamp <= t - TTL
  BY <1>3
<1>6. ASSUME n # Len(l) PROVE ~(l[n + 1].timestamp <= t - TTL)
  <2> HIDE DEF n
  <2>1. n + 1 \in 0..Len(l) /\ ~(n + 1 <= n) /\ \A i \in 1..(n + 1) : i \in 1..n \/ i = n + 1
    BY <1>1, <1>5, <1>6
  <2>2. n + 1 \notin Stale
    BY <1>3, <2>1
  <2> QED
    BY <1>5, <2>1, <2>2
<1> HIDE DEF n, Stale
<1>7. \A x \in Run(l, n) : x.timestamp <= t - TTL
  <2>1. Run(l, n) = {l[i] : i \in 1..n}
    <3> HIDE DEF l
    <3> QED
      BY <1>1, <1>5, RunFacts
  <2> QED
    BY <1>5, <2>1
<1> QED
  BY <1>4, <1>5, <1>6, <1>7

-----------------------------------------------------------------------------
\* The buffer between the steps of Add.
Live(b, t)      == RemoveEntries(b, Expired(b, t))
Filled(b, e)      == Push(Live(b, e.timestamp), e)
TrimmedTo(b, e) == RemoveEntries(Filled(b, e), ScopeOverflow(Filled(b, e), e.scope))
Settled(b, e)   == RemoveEntries(TrimmedTo(b, e), GlobalOverflow(TrimmedTo(b, e)))

\* Add is these steps.
LEMMA AddSteps ==
  ASSUME NEW b, NEW e
  PROVE  Add(b, e) =
           IF TooLarge(e)
             THEN [buffer  |-> Live(b, e.timestamp),
                   evicted |-> Expired(b, e.timestamp) \union {e}]
             ELSE [buffer  |-> Settled(b, e),
                   evicted |-> Expired(b, e.timestamp)
                                 \union (Held(Filled(b, e)) \ Held(Settled(b, e)))]
BY DEF Add, Live, Filled, TrimmedTo, Settled, Held

\* No limit is exceeded.
Within(b) ==
  /\ b.totalBytes <= MaxBytes
  /\ \A s \in Scopes : b.scopeBytes[s] <= MaxBytesPerScope

\* Removing entries frees memory.
LEMMA RemoveWithin ==
  ASSUME NEW E, EntrySet(E), NEW b, Sound(b, E), NEW V \in SUBSET Held(b),
         NEW r, r = RemoveEntries(b, V), MaxBytes \in Int, MaxBytesPerScope \in Int
  PROVE  /\ r.totalBytes <= b.totalBytes
         /\ \A s \in Scopes : r.scopeBytes[s] <= b.scopeBytes[s]
         /\ Within(b) => Within(r)
<1>1. /\ r.totalBytes = b.totalBytes - Bytes(V)
      /\ \A s \in Scopes : r.scopeBytes[s] = b.scopeBytes[s] - Bytes(OfScope(V, s))
  BY RemoveSound
<1>2. Bytes(V) \in Nat /\ \A s \in Scopes : Bytes(OfScope(V, s)) \in Nat
  <2>1. Sized(Held(b)) /\ V \in SUBSET Held(b) /\ \A s \in Scopes : OfScope(V, s) \in SUBSET Held(b)
    BY SoundFacts DEF OfScope
  <2> QED
    BY <2>1, BytesParts
<1>3. b.totalBytes \in Int /\ \A s \in Scopes : b.scopeBytes[s] \in Int
  BY DEF Sound, BufferOf
<1>4. r.totalBytes <= b.totalBytes /\ \A s \in Scopes : r.scopeBytes[s] <= b.scopeBytes[s]
  BY <1>1, <1>2, <1>3
<1>5. r.totalBytes \in Int /\ \A s \in Scopes : r.scopeBytes[s] \in Int
  BY <1>1, <1>2, <1>3
<1>6. Within(b) => Within(r)
  BY <1>3, <1>4, <1>5 DEF Within
<1> QED
  BY <1>4, <1>6

\* The first eviction loop of Add: its victims, and what it leaves.
LEMMA ScopeTrim ==
  ASSUME NEW E, EntrySet(E), NEW b, Sound(b, E), NEW s \in Scopes, MaxBytesPerScope \in Nat,
         NEW r, r = RemoveEntries(b, ScopeOverflow(b, s))
  PROVE  /\ ScopeOverflow(b, s) \subseteq OfScope(Held(b), s)
         /\ \E k \in 0..Len(b.scopes[s]) : ScopeOverflow(b, s) = Run(b.scopes[s], k)
         /\ r.scopeBytes[s] <= MaxBytesPerScope
<1> DEFINE l == b.scopes[s]
           excess == b.scopeBytes[s] - MaxBytesPerScope
           V == ScopeOverflow(b, s)
<1>1. /\ l \in Seq(E) /\ ToSet(l) = OfScope(Held(b), s) /\ b.scopeBytes[s] = Bytes(ToSet(l))
      /\ Sized(Held(b)) /\ b.scopeBytes[s] \in Int
  BY SoundFacts DEF Sound, BufferOf
<1>2. Bytes(ToSet(l)) \in Nat
  BY <1>1, ListSized, BytesSteps
<1>3. excess \in Int /\ excess <= Bytes(ToSet(l))
  BY <1>1, <1>2
<1>4. PICK k \in 0..Len(l) : V = Run(l, k) /\ Bytes(V) >= excess
  <2>1. V = FrontWorth(l, excess)
    BY DEF ScopeOverflow
  <2> HIDE DEF l, excess, V
  <2> QED
    BY <1>1, <1>3, <2>1, FrontWorthFacts
<1>5. V \in SUBSET OfScope(Held(b), s)
  BY <1>1, <1>4, RunFacts
<1>6. OfScope(V, s) = V /\ V \in SUBSET Held(b)
  BY <1>5 DEF OfScope
<1>7. r.scopeBytes[s] = b.scopeBytes[s] - Bytes(V)
  BY <1>6, RemoveSound
<1>8. Bytes(V) \in Nat
  BY <1>1, <1>6, BytesParts
<1>9. r.scopeBytes[s] <= MaxBytesPerScope
  BY <1>1, <1>4, <1>7, <1>8
<1> QED
  BY <1>4, <1>5, <1>9

\* There is no room for g next to what b holds.
Crowded(b, g) == b.totalBytes + g.size > MaxBytes

\* The second loop: its victims, what it leaves, and that it takes no more
\* than it must.
LEMMA GlobalTrim ==
  ASSUME NEW E, EntrySet(E), NEW b, Sound(b, E), MaxBytes \in Nat,
         NEW r, r = RemoveEntries(b, GlobalOverflow(b))
  PROVE  /\ GlobalOverflow(b) \subseteq Held(b)
         /\ r.totalBytes <= MaxBytes
         /\ \E k \in 0..Len(b.global) :
              /\ GlobalOverflow(b) = Run(b.global, k)
              /\ k # 0 => Crowded(r, b.global[k])
<1> DEFINE l == b.global
           excess == b.totalBytes - MaxBytes
           V == GlobalOverflow(b)
<1>1. /\ l \in Seq(E) /\ ToSet(l) = Held(b) /\ b.totalBytes = Bytes(Held(b))
      /\ Sized(Held(b)) /\ b.totalBytes \in Int
  BY SoundFacts DEF Sound, BufferOf, Held
<1>2. Bytes(Held(b)) \in Nat
  BY <1>1, BytesSteps
<1>3. excess \in Int /\ excess <= Bytes(ToSet(l))
  BY <1>1, <1>2
<1>4. PICK k \in 0..Len(l) :
        /\ V = Run(l, k) /\ Bytes(V) >= excess
        /\ k # 0 => Bytes(Run(l, k - 1)) < excess
  <2>1. V = FrontWorth(l, excess)
    BY DEF GlobalOverflow
  <2> HIDE DEF l, excess, V
  <2> QED
    BY <1>1, <1>3, <2>1, FrontWorthFacts
<1>5. V \in SUBSET Held(b)
  BY <1>1, <1>4, RunFacts
<1>6. r.totalBytes = b.totalBytes - Bytes(V)
  BY <1>5, RemoveSound
<1>7. Bytes(V) \in Nat
  BY <1>1, <1>5, BytesParts
<1>8. r.totalBytes <= MaxBytes
  BY <1>1, <1>4, <1>6, <1>7
<1>9. ASSUME k # 0 PROVE Crowded(r, l[k])
  <2> DEFINE W == Run(l, k - 1)
             x == l[k]
  <2>1. V = W \union {x} /\ x \in Held(b) /\ Sized(V)
    <3>1. Run(l, k) = W \union {x} /\ x \in ToSet(l)
      BY <1>1, <1>9, RunFacts
    <3>2. Sized(V)
      BY <1>1, <1>5, BytesParts
    <3> QED
      BY <1>1, <1>4, <3>1, <3>2
  <2>2. x.size \in Nat /\ Sized(W) /\ Bytes(W) \in Nat
    BY <1>1, <2>1, BytesParts DEF Sized
  <2>3. Bytes(V) <= Bytes(W) + x.size
    <3>1. Bytes(V) = x.size + Bytes(V \ {x})
      BY <2>1, BytesSteps
    <3>2. V \ {x} \in SUBSET W
      BY <2>1
    <3>3. Bytes(V \ {x}) <= Bytes(W) /\ Bytes(V \ {x}) \in Nat
      <4>1. /\ Bytes(W) = Bytes(V \ {x}) + Bytes(W \ (V \ {x}))
            /\ Bytes(V \ {x}) \in Nat /\ Bytes(W \ (V \ {x})) \in Nat
        BY <2>2, <3>2, BytesParts
      <4> QED
        BY <4>1
    <3> QED
      BY <2>2, <3>1, <3>3
  <2>4. Bytes(W) < b.totalBytes - MaxBytes
    BY <1>4, <1>9
  <2> HIDE DEF W, x, V
  <2> QED
    BY <1>1, <1>6, <1>7, <2>2, <2>3, <2>4 DEF x, Crowded
<1> QED
  BY <1>4, <1>5, <1>8, <1>9

\* What the steps of Add need of the limits.
Limits == TTL \in Nat /\ MaxBytes \in Nat /\ MaxBytesPerScope \in Nat

\* The steps of Add, each from a sound buffer to a sound one.
LEMMA AddPhases ==
  ASSUME NEW E, EntrySet(E), NEW b, Sound(b, E), NEW e \in E, e \notin Held(b), Limits,
         NEW t, t = e.timestamp
  PROVE  /\ Expired(b, t) \subseteq Held(b)
         /\ Sound(Live(b, t), E) /\ Held(Live(b, t)) = Held(b) \ Expired(b, t)
         /\ Sound(Filled(b, e), E) /\ Held(Filled(b, e)) = Held(Live(b, t)) \union {e}
         /\ ScopeOverflow(Filled(b, e), e.scope) \subseteq OfScope(Held(Filled(b, e)), e.scope)
         /\ Sound(TrimmedTo(b, e), E)
         /\ Held(TrimmedTo(b, e)) = Held(Filled(b, e)) \ ScopeOverflow(Filled(b, e), e.scope)
         /\ GlobalOverflow(TrimmedTo(b, e)) \subseteq Held(TrimmedTo(b, e))
         /\ Sound(Settled(b, e), E)
         /\ Held(Settled(b, e)) = Held(TrimmedTo(b, e)) \ GlobalOverflow(TrimmedTo(b, e))
<1>0. t \in Int /\ e.scope \in Scopes
  BY DEF EntrySet
<1>1. Expired(b, t) \subseteq Held(b)
  <2>1. b.global \in Seq(E) /\ TTL \in Int
    BY SoundFacts DEF Limits
  <2> QED
    <3>1. PICK k \in 0..Len(b.global) : Expired(b, t) = Run(b.global, k)
      BY <1>0, <2>1, ExpiredFacts
    <3>2. Run(b.global, k) \subseteq ToSet(b.global)
      BY <2>1, RunFacts
    <3> QED
      BY <3>1, <3>2 DEF Held
<1>2. Sound(Live(b, t), E) /\ Held(Live(b, t)) = Held(b) \ Expired(b, t)
  BY <1>1, RemoveSound DEF Live
<1>3. Sound(Filled(b, e), E) /\ Held(Filled(b, e)) = Held(Live(b, t)) \union {e}
  BY <1>2, PushSound DEF Filled
<1>4. ScopeOverflow(Filled(b, e), e.scope) \subseteq OfScope(Held(Filled(b, e)), e.scope)
  BY <1>0, <1>3, ScopeTrim DEF Limits
<1>5. /\ Sound(TrimmedTo(b, e), E)
      /\ Held(TrimmedTo(b, e)) = Held(Filled(b, e)) \ ScopeOverflow(Filled(b, e), e.scope)
  <2>1. ScopeOverflow(Filled(b, e), e.scope) \in SUBSET Held(Filled(b, e))
    BY <1>4 DEF OfScope
  <2> QED
    BY <1>3, <2>1, RemoveSound DEF TrimmedTo
<1>6. GlobalOverflow(TrimmedTo(b, e)) \subseteq Held(TrimmedTo(b, e))
  BY <1>5, GlobalTrim DEF Limits
<1>7. /\ Sound(Settled(b, e), E)
      /\ Held(Settled(b, e)) = Held(TrimmedTo(b, e)) \ GlobalOverflow(TrimmedTo(b, e))
  BY <1>5, <1>6, RemoveSound DEF Settled
<1> QED
  BY <1>1, <1>2, <1>3, <1>4, <1>5, <1>6, <1>7

\* Add leaves a sound buffer within its limits, and every entry it was given or
\* held is either still held or reported as evicted.
LEMMA AddFacts ==
  ASSUME NEW E, EntrySet(E), NEW b, Sound(b, E), NEW e \in E, e \notin Held(b), Limits,
         NEW r, r = Add(b, e)
  PROVE  /\ Sound(r.buffer, E)
         /\ Held(r.buffer) \union r.evicted = Held(b) \union {e}
         /\ Held(r.buffer) \intersect r.evicted = {}
         /\ Expired(b, e.timestamp) \subseteq r.evicted
         /\ Expired(b, e.timestamp) \subseteq Held(b)
<1> DEFINE t == e.timestamp
<1>1. /\ Expired(b, t) \subseteq Held(b)
      /\ Sound(Live(b, t), E) /\ Held(Live(b, t)) = Held(b) \ Expired(b, t)
      /\ Held(Filled(b, e)) = Held(Live(b, t)) \union {e}
      /\ Held(TrimmedTo(b, e)) \subseteq Held(Filled(b, e))
      /\ Sound(Settled(b, e), E)
      /\ Held(Settled(b, e)) \subseteq Held(TrimmedTo(b, e))
  BY AddPhases
<1>2. CASE TooLarge(e)
  BY <1>1, <1>2, AddSteps
<1>3. CASE ~ TooLarge(e)
  BY <1>1, <1>3, AddSteps
<1> QED
  BY <1>2, <1>3

\* The order of what is held is the order of arrival.
LEMMA PhasesOrder ==
  ASSUME NEW E, EntrySet(E), NEW b, Sound(b, E), NEW e \in E, e \notin Held(b), Limits,
         NEW R, Ordered(Append(b.global, e), R)
  PROVE  /\ Ordered(Live(b, e.timestamp).global, R)
         /\ Ordered(Filled(b, e).global, R)
         /\ Ordered(TrimmedTo(b, e).global, R)
         /\ Ordered(Settled(b, e).global, R)
<1> DEFINE t == e.timestamp
<1>0. b.global \in Seq(E)
  BY SoundFacts
<1>1. /\ Expired(b, t) \subseteq Held(b)
      /\ Sound(Live(b, t), E) /\ Held(Live(b, t)) = Held(b) \ Expired(b, t)
      /\ Sound(Filled(b, e), E)
      /\ ScopeOverflow(Filled(b, e), e.scope) \subseteq Held(Filled(b, e))
      /\ Sound(TrimmedTo(b, e), E)
      /\ GlobalOverflow(TrimmedTo(b, e)) \subseteq Held(TrimmedTo(b, e))
  BY AddPhases DEF OfScope
<1>2. Ordered(b.global, R) /\ \A x \in Held(b) : <<x, e>> \in R
  BY <1>0, OrderedAppend DEF Held
<1>3. ASSUME NEW c, Sound(c, E), NEW V \in SUBSET Held(c), Ordered(c.global, R)
      PROVE  Ordered(RemoveEntries(c, V).global, R)
  <2>1. c.global \in Seq(E)
    BY <1>3, SoundFacts
  <2>2. RemoveEntries(c, V).global = Those(c.global, Held(RemoveEntries(c, V)))
    BY <1>3, RemoveSound
  <2> QED
    BY <1>3, <2>1, <2>2, OrderedThose
<1>4. Ordered(Live(b, t).global, R)
  BY <1>1, <1>2, <1>3 DEF Live
<1>5. Ordered(Filled(b, e).global, R)
  <2>1. Live(b, t).global \in Seq(E)
    BY <1>1, SoundFacts
  <2>2. Filled(b, e).global = Append(Live(b, t).global, e)
    BY <1>1, PushSound DEF Filled
  <2>3. \A x \in ToSet(Live(b, t).global) : <<x, e>> \in R
    BY <1>1, <1>2 DEF Held
  <2> QED
    BY <1>4, <2>1, <2>2, <2>3, OrderedAppend
<1>6. Ordered(TrimmedTo(b, e).global, R)
  BY <1>1, <1>3, <1>5 DEF TrimmedTo
<1>7. Ordered(Settled(b, e).global, R)
  BY <1>1, <1>3, <1>6 DEF Settled
<1> QED
  BY <1>4, <1>5, <1>6, <1>7

\* Add keeps the order of arrival.
LEMMA AddOrder ==
  ASSUME NEW E, EntrySet(E), NEW b, Sound(b, E), NEW e \in E, e \notin Held(b), Limits,
         NEW r, r = Add(b, e), NEW R, Ordered(Append(b.global, e), R)
  PROVE  Ordered(r.buffer.global, R)
BY PhasesOrder, AddSteps

\* Add leaves the buffer within its limits.
LEMMA AddWithin ==
  ASSUME NEW E, EntrySet(E), NEW b, Sound(b, E), NEW e \in E, e \notin Held(b), Limits,
         NEW r, r = Add(b, e), Within(b)
  PROVE  Within(r.buffer)
<1> DEFINE t == e.timestamp
<1>1. /\ Expired(b, t) \subseteq Held(b)
      /\ Sound(Live(b, t), E) /\ e \notin Held(Live(b, t))
      /\ Sound(Filled(b, e), E)
      /\ ScopeOverflow(Filled(b, e), e.scope) \subseteq Held(Filled(b, e))
      /\ Sound(TrimmedTo(b, e), E)
      /\ GlobalOverflow(TrimmedTo(b, e)) \subseteq Held(TrimmedTo(b, e))
  BY AddPhases DEF OfScope
<1>2. MaxBytes \in Int /\ MaxBytesPerScope \in Int /\ e.scope \in Scopes
  BY DEF Limits, EntrySet
<1>3. Within(Live(b, t))
  BY <1>1, <1>2, RemoveWithin DEF Live
<1>4. ASSUME NEW s \in Scopes, s # e.scope PROVE Filled(b, e).scopeBytes[s] <= MaxBytesPerScope
  <2>1. Filled(b, e).scopeBytes[s] = Live(b, t).scopeBytes[s] + IF s = e.scope THEN e.size ELSE 0
    BY <1>1, PushSound DEF Filled
  <2>2. Live(b, t).scopeBytes[s] \in Int
    BY <1>1 DEF Sound, BufferOf
  <2> QED
    BY <1>2, <1>3, <1>4, <2>1, <2>2 DEF Within
<1>5. ASSUME NEW s \in Scopes PROVE TrimmedTo(b, e).scopeBytes[s] <= MaxBytesPerScope
  <2>1. CASE s = e.scope
    BY <1>1, <1>2, <2>1, ScopeTrim DEF TrimmedTo, Limits
  <2>2. CASE s # e.scope
    <3>1. TrimmedTo(b, e).scopeBytes[s] <= Filled(b, e).scopeBytes[s]
      BY <1>1, <1>2, RemoveWithin DEF TrimmedTo
    <3>2. TrimmedTo(b, e).scopeBytes[s] \in Int /\ Filled(b, e).scopeBytes[s] \in Int
      BY <1>1 DEF Sound, BufferOf
    <3> QED
      BY <1>2, <1>4, <2>2, <3>1, <3>2
  <2> QED
    BY <2>1, <2>2
<1>6. Within(Settled(b, e))
  <2>1. Settled(b, e).totalBytes <= MaxBytes
    BY <1>1, GlobalTrim DEF Settled, Limits
  <2>2. ASSUME NEW s \in Scopes PROVE Settled(b, e).scopeBytes[s] <= MaxBytesPerScope
    <3>1. Settled(b, e).scopeBytes[s] <= TrimmedTo(b, e).scopeBytes[s]
      BY <1>1, <1>2, RemoveWithin DEF Settled
    <3>2. Sound(Settled(b, e), E)
      BY AddPhases
    <3>3. TrimmedTo(b, e).scopeBytes[s] \in Int /\ Settled(b, e).scopeBytes[s] \in Int
      BY <1>1, <3>2 DEF Sound, BufferOf
    <3> QED
      BY <1>2, <1>5, <3>1, <3>3
  <2> QED
    BY <2>1, <2>2 DEF Within
<1> QED
  BY <1>3, <1>6, AddSteps

\* x arrived before y, or is y.
NotAfter(R, x, y) == x = y \/ <<x, y>> \in R

\* Within a scope, whatever goes arrived before whatever stays; and an entry of
\* another scope goes only when its successors left too little room.
LEMMA AddFair ==
  ASSUME NEW E, EntrySet(E), NEW b, Sound(b, E), NEW e \in E, e \notin Held(b), Limits,
         NEW r, r = Add(b, e), NEW R, Ordered(Append(b.global, e), R),
         NEW x \in Held(b) \ Held(r.buffer)
  PROVE  /\ \A y \in Held(r.buffer) : x.scope = y.scope => <<x, y>> \in R
         /\ x \notin Expired(b, e.timestamp) /\ e \in Held(r.buffer) /\ x.scope # e.scope =>
              \E g \in Held(b) \ Held(r.buffer) :
                /\ NotAfter(R, x, g)
                /\ Crowded(r.buffer, g)
<1> DEFINE t == e.timestamp
           V1 == ScopeOverflow(Filled(b, e), e.scope)
           V2 == GlobalOverflow(TrimmedTo(b, e))
<1>1. /\ Expired(b, t) \subseteq Held(b)
      /\ Held(Live(b, t)) = Held(b) \ Expired(b, t)
      /\ Sound(Live(b, t), E)
      /\ Sound(Filled(b, e), E) /\ Held(Filled(b, e)) = Held(Live(b, t)) \union {e}
      /\ V1 \subseteq OfScope(Held(Filled(b, e)), e.scope)
      /\ Sound(TrimmedTo(b, e), E) /\ Held(TrimmedTo(b, e)) = Held(Filled(b, e)) \ V1
      /\ Held(Settled(b, e)) = Held(TrimmedTo(b, e)) \ V2
  <2> HIDE DEF V1, V2
  <2>1. /\ Expired(b, t) \subseteq Held(b)
        /\ Held(Live(b, t)) = Held(b) \ Expired(b, t)
        /\ Sound(Live(b, t), E)
        /\ Sound(Filled(b, e), E) /\ Held(Filled(b, e)) = Held(Live(b, t)) \union {e}
    BY AddPhases
  <2>2. V1 \subseteq OfScope(Held(Filled(b, e)), e.scope)
    BY AddPhases, Zenon DEF V1
  <2>3. Sound(TrimmedTo(b, e), E) /\ Held(TrimmedTo(b, e)) = Held(Filled(b, e)) \ V1
    BY AddPhases DEF V1
  <2>4. Held(Settled(b, e)) = Held(TrimmedTo(b, e)) \ V2
    BY AddPhases DEF V2
  <2> QED
    BY <2>1, <2>2, <2>3, <2>4
<1>2. \/ TooLarge(e) /\ r.buffer = Live(b, t)
      \/ ~TooLarge(e) /\ r.buffer = Settled(b, e)
  BY AddSteps
<1>3. Held(r.buffer) \subseteq (Held(b) \ Expired(b, t)) \union {e}
  BY <1>1, <1>2
<1>4. b.global \in Seq(E) /\ ToSet(b.global) = Held(b)
  BY SoundFacts DEF Held
<1>5. Ordered(b.global, R) /\ \A y \in Held(b) : <<y, e>> \in R
  BY <1>4, OrderedAppend
<1>6. e.scope \in Scopes
  BY DEF EntrySet
<1>7. ASSUME x \in Expired(b, t), NEW y \in Held(r.buffer) PROVE <<x, y>> \in R
  <2>1. t \in Int /\ TTL \in Int
    BY DEF EntrySet, Limits
  <2>2. PICK k \in 0..Len(b.global) : Expired(b, t) = Run(b.global, k)
    BY <2>1, ExpiredFacts
  <2>3. \A z \in Held(b) \ Expired(b, t) : <<x, z>> \in R
    BY <1>4, <1>5, <1>7, <2>2, RunOrdered
  <2> QED
    BY <1>3, <1>5, <1>7, <2>3
<1>8. ASSUME x \in V1, r.buffer = Settled(b, e), NEW y \in Held(r.buffer), y.scope = x.scope
      PROVE  <<x, y>> \in R
  <2> DEFINE l == Filled(b, e).scopes[e.scope]
  <2>1. /\ l \in Seq(E) /\ ToSet(l) = OfScope(Held(Filled(b, e)), e.scope)
        /\ Filled(b, e).global \in Seq(E)
    <3>1. Sound(Filled(b, e), E)
      BY <1>1
    <3> QED
      BY <1>6, <3>1, SoundFacts
  <2>2. PICK k \in 0..Len(l) : V1 = Run(l, k)
    BY <1>1, <1>6, ScopeTrim DEF Limits
  <2>3. Ordered(Filled(b, e).global, R)
    BY PhasesOrder
  <2>4. Ordered(l, R)
    BY <1>1, <1>6, <2>1, <2>3, OrderedThose DEF Sound
  <2>5. x.scope = e.scope /\ y \in ToSet(l) \ V1
    BY <1>1, <1>8, <2>1 DEF OfScope
  <2> HIDE DEF l
  <2> QED
    BY <1>8, <2>1, <2>2, <2>4, <2>5, RunOrdered
<1>9. ASSUME x \in V2, r.buffer = Settled(b, e)
      PROVE  /\ \A y \in Held(r.buffer) : <<x, y>> \in R
             /\ \E g \in V2 : /\ NotAfter(R, x, g)
                              /\ Crowded(r.buffer, g)
  <2> DEFINE l == TrimmedTo(b, e).global
  <2>1. l \in Seq(E) /\ ToSet(l) = Held(TrimmedTo(b, e)) /\ Len(l) \in Nat
    BY <1>1, SoundFacts DEF Held
  <2>2. PICK k \in 0..Len(l) :
          /\ V2 = Run(l, k)
          /\ k # 0 => Crowded(Settled(b, e), l[k])
    BY <1>1, GlobalTrim DEF Limits, Settled
  <2>3. Ordered(l, R)
    BY PhasesOrder
  <2>4. \A y \in Held(r.buffer) : <<x, y>> \in R
    BY <1>1, <1>9, <2>1, <2>2, <2>3, RunOrdered
  <2>5. PICK i \in 1..k : x = l[i]
    <3>1. x \in Run(l, k)
      BY <1>9, <2>2
    <3>2. Run(l, k) = {l[i] : i \in 1..k}
      BY <2>1, RunFacts
    <3> QED
      BY <3>1, <3>2
  <2>6. k # 0 /\ l[k] \in V2
    BY <2>1, <2>2, <2>5, RunFacts
  <2>7. NotAfter(R, x, l[k])
    <3>1. i \in Nat /\ k \in Nat /\ 1 <= i /\ i <= k /\ k <= Len(l)
      BY <2>1
    <3>2. CASE i = k
      BY <2>5, <3>2 DEF NotAfter
    <3>3. CASE i # k
      <4>1. i \in 1..Len(l) /\ k \in 1..Len(l) /\ i < k
        BY <2>1, <3>1, <3>3
      <4>2. <<l[i], l[k]>> \in R
        BY <2>3, <4>1 DEF Ordered
      <4> QED
        BY <2>5, <4>2 DEF NotAfter
    <3> QED
      BY <3>2, <3>3
  <2> QED
    BY <1>9, <2>2, <2>4, <2>6, <2>7
<1>10. x \in Expired(b, t) \/ (x \in V1 \union V2 /\ r.buffer = Settled(b, e))
  BY <1>1, <1>2
<1>11. \A y \in Held(r.buffer) : x.scope = y.scope => <<x, y>> \in R
  BY <1>7, <1>8, <1>9, <1>10
<1>12. ASSUME x \notin Expired(b, t), e \in Held(r.buffer), x.scope # e.scope
       PROVE  \E g \in Held(b) \ Held(r.buffer) :
                /\ NotAfter(R, x, g)
                /\ Crowded(r.buffer, g)
  <2>1. x \in V2 /\ r.buffer = Settled(b, e)
    BY <1>1, <1>10, <1>12 DEF OfScope
  <2>2. PICK g \in V2 : NotAfter(R, x, g) /\ Crowded(r.buffer, g)
    BY <1>9, <2>1
  <2>3. V2 \subseteq Held(TrimmedTo(b, e))
    BY AddPhases
  <2>4. g \in Held(b) \ Held(r.buffer)
    BY <1>1, <1>12, <2>1, <2>3
  <2> QED
    BY <2>2, <2>4
<1> QED
  BY <1>11, <1>12

\* Expiry removes a run of dead entries from the front.
LEMMA ExpireFacts ==
  ASSUME NEW E, EntrySet(E), NEW b, Sound(b, E), NEW t \in Int, Limits,
         NEW r, r = Expire(b, t)
  PROVE  /\ r.evicted = Expired(b, t)
         /\ r.evicted \subseteq Held(b)
         /\ \A x \in r.evicted : x.timestamp <= t - TTL
         /\ Sound(r.buffer, E)
         /\ Held(r.buffer) = Held(b) \ r.evicted
         /\ r.buffer.global = Those(b.global, Held(r.buffer))
         /\ Within(b) => Within(r.buffer)
<1>1. r.buffer = RemoveEntries(b, Expired(b, t)) /\ r.evicted = Expired(b, t)
  BY DEF Expire
<1>2. b.global \in Seq(E) /\ TTL \in Int /\ MaxBytes \in Int /\ MaxBytesPerScope \in Int
  BY SoundFacts DEF Limits
<1>3. PICK k \in 0..Len(b.global) :
        /\ Expired(b, t) = Run(b.global, k)
        /\ \A x \in Run(b.global, k) : x.timestamp <= t - TTL
  BY <1>2, ExpiredFacts
<1>4. Expired(b, t) \in SUBSET Held(b)
  BY <1>2, <1>3, RunFacts DEF Held
<1>5. /\ Sound(r.buffer, E)
      /\ Held(r.buffer) = Held(b) \ Expired(b, t)
      /\ r.buffer.global = Those(b.global, Held(r.buffer))
  BY <1>1, <1>4, RemoveSound
<1>6. Within(b) => Within(r.buffer)
  BY <1>1, <1>2, <1>4, RemoveWithin
<1> QED
  BY <1>1, <1>3, <1>4, <1>5, <1>6

\* Promote takes all of the scope's promotable entries that have not expired.
LEMMA PromoteFacts ==
  ASSUME NEW E, EntrySet(E), NEW b, Sound(b, E), NEW s \in Scopes, NEW t \in Int, Limits,
         NEW r, r = Promote(b, s, t)
  PROVE  /\ r.evicted = Expired(b, t)
         /\ r.evicted \subseteq Held(b)
         /\ \A x \in r.evicted : x.timestamp <= t - TTL
         /\ ToSet(r.promoted) = {e \in Held(b) \ r.evicted : e.scope = s /\ e.promotable}
         /\ Sound(r.buffer, E)
         /\ Held(r.buffer) = (Held(b) \ r.evicted) \ ToSet(r.promoted)
         /\ \A R : Ordered(b.global, R) => Ordered(r.buffer.global, R)
         /\ Within(b) => Within(r.buffer)
<1> DEFINE live == Expire(b, t).buffer
           P == ToSet(Promotable(live.scopes[s]))
<1>1. /\ Expire(b, t).evicted = Expired(b, t)
      /\ Expired(b, t) \subseteq Held(b)
      /\ \A x \in Expired(b, t) : x.timestamp <= t - TTL
      /\ Sound(live, E)
      /\ Held(live) = Held(b) \ Expired(b, t)
      /\ live.global = Those(b.global, Held(live))
      /\ Within(b) => Within(live)
  BY ExpireFacts
<1>2. /\ r.evicted = Expired(b, t)
      /\ r.promoted = Promotable(live.scopes[s])
      /\ r.buffer = RemoveEntries(live, P)
  BY DEF Promote, Expire
<1>3. live.scopes[s] \in Seq(E) /\ ToSet(live.scopes[s]) = OfScope(Held(live), s)
  BY <1>1, SoundFacts
<1>4. P = {e \in OfScope(Held(live), s) : e.promotable}
  <2>1. P = ToSet(live.scopes[s]) \intersect {e \in ToSet(live.scopes[s]) : e.promotable}
    <3> HIDE DEF live
    <3> QED
      BY <1>3, ThoseType DEF Promotable
  <2> HIDE DEF P, live
  <2> QED
    BY <1>3, <2>1
<1>5. P \in SUBSET Held(live)
  BY <1>4 DEF OfScope
<1>6. /\ Sound(r.buffer, E)
      /\ Held(r.buffer) = Held(live) \ P
      /\ r.buffer.global = Those(live.global, Held(r.buffer))
  <2> HIDE DEF P, live
  <2> QED
    BY <1>1, <1>2, <1>5, RemoveSound
<1>7. \A R : Ordered(b.global, R) => Ordered(r.buffer.global, R)
  <2>1. b.global \in Seq(E) /\ live.global \in Seq(E)
    BY <1>1, SoundFacts
  <2> HIDE DEF P, live
  <2> QED
    BY <1>1, <1>6, <2>1, OrderedThose
<1>8. Within(b) => Within(r.buffer)
  <2>1. MaxBytes \in Int /\ MaxBytesPerScope \in Int
    BY DEF Limits
  <2> HIDE DEF P, live
  <2> QED
    BY <1>1, <1>2, <1>5, <2>1, RemoveWithin
<1>9. ToSet(r.promoted) = P
  BY <1>2
<1> HIDE DEF P, live
<1> QED
  BY <1>1, <1>2, <1>4, <1>6, <1>7, <1>8, <1>9 DEF OfScope

\* No entry is much older than one before it.
LEMMA StaleBound ==
  ASSUME NEW E, EntrySet(E), NEW b, Sound(b, E), NEW t \in Int, TTL \in Int, NEW lag \in Nat,
         NEW R, Ordered(b.global, R),
         \A p \in R : p[2].timestamp >= p[1].timestamp - lag
  PROVE  \A x \in Held(b) \ Expired(b, t) : x.timestamp > t - TTL - lag
<1> DEFINE l == b.global
<1>1. l \in Seq(E) /\ ToSet(l) = Held(b) /\ Len(l) \in Nat
  BY SoundFacts DEF Held
<1>2. PICK k \in 0..Len(l) :
        /\ Expired(b, t) = Run(l, k)
        /\ k # Len(l) => ~(l[k + 1].timestamp <= t - TTL)
  BY ExpiredFacts
<1> SUFFICES ASSUME NEW x \in Held(b) \ Expired(b, t) PROVE x.timestamp > t - TTL - lag
  OBVIOUS
<1>3. PICK i \in 1..Len(l) : x = l[i]
  BY <1>1, ToSetFacts
<1>4. i \notin 1..k
  BY <1>1, <1>2, <1>3, RunFacts
<1>5. k + 1 \in 1..Len(l) /\ k + 1 <= i
  BY <1>1, <1>3, <1>4
<1>6. l[k + 1].timestamp \in Int /\ x.timestamp \in Int /\ l[k + 1].timestamp > t - TTL
  <2>1. l[k + 1] \in E /\ x \in E
    BY <1>1, <1>3, <1>5
  <2>2. l[k + 1].timestamp \in Int /\ x.timestamp \in Int
    BY <2>1 DEF EntrySet
  <2> QED
    BY <1>2, <1>5, <2>2
<1>7. CASE i = k + 1
  BY <1>3, <1>6, <1>7
<1>8. CASE i # k + 1
  <2>1. <<l[k + 1], x>> \in R
    BY <1>1, <1>3, <1>5, <1>8 DEF Ordered
  <2>2. x.timestamp >= l[k + 1].timestamp - lag
    BY <2>1
  <2> QED
    <3>1. t \in Int /\ TTL \in Int /\ lag \in Int
      OBVIOUS
    <3>2. \A p, q, v, w, z \in Int : p > q - v /\ z >= p - w => z > q - v - w
      OBVIOUS
    <3> QED
      BY <1>6, <2>2, <3>1, <3>2
<1> QED
  BY <1>7, <1>8

-----------------------------------------------------------------------------
(***************************************************************************)
(* The component on its own.                                               *)
(***************************************************************************)
Entry == [id : Nat, scope : Scopes, timestamp : Int, size : Nat, promotable : BOOLEAN]

\* An entry before another was offered earlier, and is not much younger.
Arrival == {p \in Entry \X Entry : /\ p[1].id < p[2].id
                                   /\ p[2].timestamp >= p[1].timestamp - Lag}

(***************************************************************************)
(* The inductive invariant.  BoundedStaleness is not inductive by itself:  *)
(* expiry looks at the front only, so it takes the order of arrival to say *)
(* how much older than the front an entry behind it can be.  WithinLimits  *)
(* needs the counters to be true sums, and fair eviction the identities.   *)
(***************************************************************************)
BufferInv ==
  /\ added \in Nat /\ clock \in Int /\ now \in Int
  /\ Sound(buffer, Entry)
  /\ Within(buffer)
  /\ Ordered(buffer.global, Arrival)
  /\ \A e \in Held(buffer) : e.id <= added /\ e.timestamp <= clock
  /\ BoundedStaleness

\* What the assumptions say of entries and limits.
LEMMA EntryFacts ==
  /\ EntrySet(Entry) /\ Limits
  /\ TTL \in Nat \ {0} /\ Lag \in Nat
  /\ \A p \in Arrival : p[2].timestamp >= p[1].timestamp - Lag
BY BufferAssumption, CallAssumption DEF EntrySet, Entry, Limits, Arrival

\* The invariant holds initially,
LEMMA InitInv == BufferInit => BufferInv
<1> SUFFICES ASSUME BufferInit PROVE BufferInv
  OBVIOUS
<1>1. Sound(buffer, Entry) /\ Held(buffer) = {}
  BY EmptySound, EntryFacts DEF BufferInit
<1>2. Within(buffer)
  BY BufferAssumption DEF BufferInit, EmptyBuffer, Within
<1>3. Ordered(buffer.global, Arrival)
  BY DEF BufferInit, EmptyBuffer, Ordered
<1> QED
  BY <1>1, <1>2, <1>3 DEF BufferInit, BufferInv, BoundedStaleness

\* The entry that AddEntry offers.
LEMMA NewEntry ==
  ASSUME BufferInv, NEW s \in Scopes, NEW size \in Sizes, NEW p \in BOOLEAN,
         AddEntry(s, size, p)
  PROVE  \E e \in Entry :
           /\ e.id = added' /\ e.timestamp = now' /\ e.scope = s
           /\ buffer' = Add(buffer, e).buffer
           /\ e \notin Held(buffer)
           /\ Ordered(Append(buffer.global, e), Arrival)
<1> DEFINE e == [id |-> added', scope |-> s, timestamp |-> now', size |-> size, promotable |-> p]
<1>1. added' = added + 1 /\ now' \in (clock - Lag)..clock /\ added \in Nat /\ clock \in Int
  BY DEF AddEntry, BufferInv
<1>2. now' \in Int /\ now' >= clock - Lag
  BY <1>1, EntryFacts
<1>3. e \in Entry
  BY <1>1, <1>2, CallAssumption DEF Entry
<1>4. buffer' = Add(buffer, e).buffer
  BY DEF AddEntry
<1>5. e.id = added + 1 /\ e.timestamp = now' /\ e.scope = s
  BY <1>1
<1>6. buffer.global \in Seq(Entry) /\ Held(buffer) \subseteq Entry
  BY EntryFacts, SoundFacts DEF BufferInv
<1> HIDE DEF e
<1>7. ASSUME NEW x \in Held(buffer) PROVE x # e /\ <<x, e>> \in Arrival
  <2>1. x \in Entry /\ x.id \in Nat /\ x.timestamp \in Int /\ x.id <= added /\ x.timestamp <= clock
    BY <1>6 DEF BufferInv, Entry
  <2>2. x.id < e.id /\ e.timestamp >= x.timestamp - Lag
    BY <1>1, <1>2, <1>5, <2>1, EntryFacts
  <2> QED
    BY <1>3, <2>1, <2>2 DEF Arrival
<1>8. Ordered(Append(buffer.global, e), Arrival)
  BY <1>3, <1>6, <1>7, OrderedAppend DEF BufferInv, Held
<1> QED
  BY <1>1, <1>3, <1>4, <1>5, <1>7, <1>8

\* is kept by every step,
LEMMA NextInv == BufferInv /\ [BufferNext]_vars => BufferInv'
<1> SUFFICES ASSUME BufferInv, [BufferNext]_vars PROVE BufferInv'
  OBVIOUS
<1>0. /\ Sound(buffer, Entry) /\ Within(buffer) /\ Ordered(buffer.global, Arrival)
      /\ EntrySet(Entry) /\ Limits /\ TTL \in Int /\ Lag \in Nat /\ clock \in Int /\ added \in Nat
      /\ Held(buffer) \subseteq Entry /\ buffer.global \in Seq(Entry)
  BY EntryFacts, SoundFacts DEF BufferInv
<1>1. ASSUME NEW s \in Scopes, NEW size \in Sizes, NEW p \in BOOLEAN, AddEntry(s, size, p)
      PROVE  BufferInv'
  <2>1. PICK e \in Entry :
          /\ e.id = added' /\ e.timestamp = now' /\ e.scope = s
          /\ buffer' = Add(buffer, e).buffer
          /\ e \notin Held(buffer)
          /\ Ordered(Append(buffer.global, e), Arrival)
    BY <1>1, NewEntry
  <2>2. /\ added' = added + 1 /\ clock' = clock
        /\ now' \in Int /\ now' <= clock
    BY <1>0, <1>1 DEF AddEntry
  <2>3. PICK r : r = Add(buffer, e)
    OBVIOUS
  <2>4. /\ Sound(buffer', Entry)
        /\ Held(buffer') \subseteq (Held(buffer) \ Expired(buffer, now')) \union {e}
    BY <1>0, <2>1, <2>3, AddFacts
  <2>5. Within(buffer')
    BY <1>0, <2>1, <2>3, AddWithin
  <2>6. Ordered(buffer'.global, Arrival)
    BY <1>0, <2>1, <2>3, AddOrder
  <2>7. \A x \in Held(buffer) \ Expired(buffer, now') : x.timestamp > now' - TTL - Lag
    BY <1>0, <2>2, StaleBound, EntryFacts
  <2>8. \A x \in Held(buffer') : x.timestamp > now' - TTL - Lag
    <3>1. now' > now' - TTL - Lag
      <4>1. TTL \in Nat \ {0} /\ Lag \in Nat
        BY EntryFacts, Zenon
      <4>2. \A u \in Int : \A v \in Nat \ {0} : \A w \in Nat : u > u - v - w
        OBVIOUS
      <4> QED
        BY <2>2, <4>1, <4>2, Zenon
    <3> QED
      BY <2>1, <2>4, <2>7, <3>1
  <2>9. ASSUME NEW x \in Held(buffer') PROVE x.id <= added' /\ x.timestamp <= clock'
    <3>1. x = e \/ x \in Held(buffer)
      BY <2>4
    <3>2. CASE x = e
      BY <1>0, <2>1, <2>2, <3>2
    <3>3. CASE x \in Held(buffer)
      <4>1. x.id \in Nat /\ x.id <= added /\ x.timestamp <= clock
        BY <1>0, <3>3 DEF BufferInv, Entry
      <4> QED
        BY <1>0, <2>2, <4>1
    <3> QED
      BY <3>1, <3>2, <3>3
  <2> QED
    BY <1>0, <2>2, <2>4, <2>5, <2>6, <2>8, <2>9 DEF BufferInv, BoundedStaleness, Held, Sound, Within
<1>2. ASSUME UNCHANGED <<clock, added>>, now' \in (clock - Lag)..clock,
             Sound(buffer', Entry), Within(buffer'), Ordered(buffer'.global, Arrival),
             Held(buffer') \subseteq Held(buffer) \ Expired(buffer, now')
      PROVE  BufferInv'
  <2>1. now' \in Int
    BY <1>0, <1>2
  <2>2. \A x \in Held(buffer') : x.timestamp > now' - TTL - Lag
    BY <1>0, <1>2, <2>1, StaleBound, EntryFacts
  <2>3. \A x \in Held(buffer') : x.id <= added' /\ x.timestamp <= clock'
    BY <1>2 DEF BufferInv
  <2> QED
    BY <1>0, <1>2, <2>1, <2>2, <2>3 DEF BufferInv, BoundedStaleness, Held, Sound, Within
<1>3. ASSUME NEW s \in Scopes, PromoteScope(s) PROVE BufferInv'
  <2>1. /\ UNCHANGED <<clock, added>> /\ now' \in (clock - Lag)..clock /\ now' \in Int
        /\ buffer' = Promote(buffer, s, now').buffer
    BY <1>0, <1>3 DEF PromoteScope
  <2>2. PICK r : r = Promote(buffer, s, now')
    OBVIOUS
  <2>3. /\ r.evicted = Expired(buffer, now')
        /\ Sound(r.buffer, Entry)
        /\ Held(r.buffer) = (Held(buffer) \ r.evicted) \ ToSet(r.promoted)
        /\ Ordered(r.buffer.global, Arrival)
        /\ Within(r.buffer)
    <3>1. EntrySet(Entry) /\ Sound(buffer, Entry) /\ now' \in Int /\ Limits
      BY <1>0, <2>1
    <3>2. Ordered(buffer.global, Arrival) /\ Within(buffer)
      BY <1>0
    <3> QED
      BY <2>2, <3>1, <3>2, PromoteFacts
  <2>4. buffer' = r.buffer
    BY <2>1, <2>2
  <2> QED
    BY <1>2, <2>1, <2>3, <2>4
<1>4. ASSUME ReadStats PROVE BufferInv'
  <2>1. /\ UNCHANGED <<clock, added>> /\ now' \in (clock - Lag)..clock /\ now' \in Int
        /\ buffer' = Expire(buffer, now').buffer
    BY <1>0, <1>4 DEF ReadStats
  <2>2. PICK r : r = Expire(buffer, now')
    OBVIOUS
  <2>3. /\ r.evicted = Expired(buffer, now')
        /\ Sound(r.buffer, Entry)
        /\ Held(r.buffer) = Held(buffer) \ r.evicted
        /\ r.buffer.global = Those(buffer.global, Held(r.buffer))
        /\ Within(buffer) => Within(r.buffer)
    <3>1. EntrySet(Entry) /\ Sound(buffer, Entry) /\ now' \in Int /\ Limits
      BY <1>0, <2>1
    <3> QED
      BY <2>2, <3>1, ExpireFacts
  <2>4. Ordered(r.buffer.global, Arrival)
    BY <1>0, <2>3, OrderedThose
  <2>5. buffer' = r.buffer
    BY <2>1, <2>2
  <2> QED
    BY <1>0, <1>2, <2>1, <2>3, <2>4, <2>5
<1>5. CASE Tick
  <2>1. clock' = clock + 1 /\ UNCHANGED <<buffer, now, added>>
    BY <1>5 DEF Tick
  <2>2. \A x \in Held(buffer) : x.timestamp <= clock + 1
    BY <1>0 DEF BufferInv, Entry
  <2> QED
    BY <1>0, <2>1, <2>2 DEF BufferInv, BoundedStaleness, Held, Sound, Within
<1>6. CASE UNCHANGED vars
  BY <1>6 DEF vars, BufferInv, BoundedStaleness, Held, Sound, Within
<1> QED
  BY <1>1, <1>3, <1>4, <1>5, <1>6 DEF BufferNext

\* and so holds always.
LEMMA InvAlways == BufferSpec => []BufferInv
BY InitInv, NextInv, PTL DEF BufferSpec

\* The scope lists are the global list split by scope and the counters are the
\* sizes of what the lists hold, whatever Add, Promote and expiry remove.
THEOREM BufferBookkeeping == BufferSpec => []Bookkeeping
<1>1. BufferInv => Bookkeeping
  BY DEF BufferInv, Bookkeeping, Sound, OfScope
<1> QED
  BY <1>1, InvAlways, PTL

\* Neither memory limit is exceeded after any call.
THEOREM BufferWithinLimits == BufferSpec => []WithinLimits
<1>1. BufferInv => WithinLimits
  BY DEF BufferInv, WithinLimits, Within
<1> QED
  BY <1>1, InvAlways, PTL

\* No entry outlives its TTL by more than the lag of the callers' clock.
THEOREM BufferBoundedStaleness == BufferSpec => []BoundedStaleness
<1>1. BufferInv => BoundedStaleness
  BY DEF BufferInv
<1> QED
  BY <1>1, InvAlways, PTL

\* What Add may evict: a scope's own oldest entries, and another scope's only
\* when the whole buffer has no room.
FairAdd ==
  LET lost  == Held(buffer) \ Held(buffer')
      alive == {e \in lost : e.timestamp > now' - TTL}
      newcomer == {e \in Held(buffer') : e.id = added'}
  IN added' # added =>
       /\ \A e \in lost, f \in Held(buffer') : e.scope = f.scope => e.id < f.id
       /\ \A e \in alive, n \in newcomer :
            e.scope # n.scope =>
              buffer'.totalBytes + Bytes({f \in lost : f.id >= e.id}) > MaxBytes

\* Every step evicts fairly.
LEMMA FairStep == BufferInv /\ [BufferNext]_vars => [FairAdd]_vars
<1> SUFFICES ASSUME BufferInv, [BufferNext]_vars, added' # added PROVE FairAdd
  BY DEF FairAdd
<1>1. PICK s \in Scopes, size \in Sizes, p \in BOOLEAN : AddEntry(s, size, p)
  BY DEF BufferNext, PromoteScope, ReadStats, Tick, vars
<1>2. PICK e \in Entry :
        /\ e.id = added' /\ e.timestamp = now' /\ e.scope = s
        /\ buffer' = Add(buffer, e).buffer
        /\ e \notin Held(buffer)
        /\ Ordered(Append(buffer.global, e), Arrival)
  BY <1>1, NewEntry
<1>3. PICK r : r = Add(buffer, e)
  OBVIOUS
<1>4. /\ Sound(buffer, Entry) /\ EntrySet(Entry) /\ Limits
      /\ Held(buffer) \subseteq Entry /\ Sized(Held(buffer)) /\ added \in Nat /\ now' \in Int
      /\ \A x \in Held(buffer) : x.id <= added
      /\ added' = added + 1
  BY <1>1, <1>2, EntryFacts, SoundFacts DEF BufferInv, AddEntry, EntrySet
<1>5. Sound(buffer', Entry) /\ Held(buffer') \subseteq Held(buffer) \union {e}
  BY <1>2, <1>3, <1>4, AddFacts
<1>6. ASSUME NEW x \in Held(buffer) \ Held(buffer'), NEW y \in Held(buffer'), x.scope = y.scope
      PROVE  x.id < y.id
  <2>1. <<x, y>> \in Arrival
    BY <1>2, <1>3, <1>4, <1>6, AddFair
  <2> QED
    BY <2>1 DEF Arrival
<1>7. ASSUME NEW x \in Held(buffer) \ Held(buffer'), x.timestamp > now' - TTL,
             NEW n \in Held(buffer'), n.id = added', x.scope # n.scope
      PROVE  buffer'.totalBytes + Bytes({f \in Held(buffer) \ Held(buffer') : f.id >= x.id})
               > MaxBytes
  <2> DEFINE L == {f \in Held(buffer) \ Held(buffer') : f.id >= x.id}
  <2>1. n = e
    BY <1>4, <1>5, <1>7
  <2>2. x \notin Expired(buffer, now')
    <3>1. PICK q : q = Expire(buffer, now')
      OBVIOUS
    <3>2. \A z \in Expired(buffer, now') : z.timestamp <= now' - TTL
      BY <1>4, <3>1, ExpireFacts
    <3>3. x.timestamp \in Int /\ now' - TTL \in Int
      BY <1>4, EntryFacts DEF Entry
    <3> QED
      BY <1>7, <3>2, <3>3
  <2>3. PICK g \in Held(buffer) \ Held(buffer') :
          NotAfter(Arrival, x, g) /\ Crowded(buffer', g)
    <3>1. /\ buffer' = r.buffer /\ now' = e.timestamp
          /\ x \in Held(buffer) \ Held(r.buffer) /\ x \notin Expired(buffer, e.timestamp)
          /\ e \in Held(r.buffer) /\ x.scope # e.scope
      BY <1>2, <1>3, <1>7, <2>1, <2>2
    <3>2. \E g \in Held(buffer) \ Held(r.buffer) :
            /\ NotAfter(Arrival, x, g)
            /\ Crowded(r.buffer, g)
      <4>1. PICK b : b = buffer
        OBVIOUS
      <4>2. /\ Sound(b, Entry) /\ e \in Entry /\ e \notin Held(b)
            /\ r = Add(b, e) /\ Ordered(Append(b.global, e), Arrival)
        BY <1>2, <1>3, <1>4, <4>1
      <4>3. x \in Held(b) \ Held(r.buffer)
        BY <3>1, <4>1
      <4> QED
        BY <1>4, <3>1, <4>1, <4>2, <4>3, AddFair
    <3> QED
      BY <3>1, <3>2
  <2>4. g \in L
    <3>1. x.id \in Nat /\ g.id \in Nat
      BY <1>4 DEF Entry
    <3> QED
      BY <2>3, <3>1 DEF Arrival, NotAfter
  <2>5. Sized(L)
    BY <1>4, BytesParts
  <2>6. Bytes(L) = g.size + Bytes(L \ {g}) /\ Bytes(L \ {g}) \in Nat /\ g.size \in Nat
    <3> HIDE DEF L
    <3> QED
      BY <2>4, <2>5, BytesSteps, BytesParts DEF Sized
  <2>7. buffer'.totalBytes \in Int /\ MaxBytes \in Int
    BY <1>4, <1>5 DEF Sound, BufferOf, Limits
  <2> HIDE DEF L
  <2> QED
    BY <2>3, <2>6, <2>7 DEF L, Crowded
<1> QED
  BY <1>6, <1>7 DEF FairAdd

\* A scope that fills up evicts its own entries.
THEOREM BufferFairEviction == BufferSpec => FairEviction
<1>1. BufferInv /\ [BufferNext]_vars => [FairAdd]_vars
  BY FairStep
<1> QED
  BY <1>1, InvAlways, PTL DEF BufferSpec, FairEviction, FairAdd

-----------------------------------------------------------------------------
\* The aggregators: lists of one bucket per key.

\* No two buckets of the list have one key.
OneEach(l) == \A i, j \in 1..Len(l) : l[i].key = l[j].key => i = j

\* r is the list l without its i-th element.
Without(r, l, i) ==
  /\ Len(r) = Len(l) - 1
  /\ \A j \in 1..Len(r) : r[j] = IF j < i THEN l[j] ELSE l[j + 1]

\* RemoveAt and Tail take one element out, and leave one bucket per key.
LEMMA RemoveAtWithout ==
  ASSUME NEW E, NEW l \in Seq(E), NEW i \in 1..Len(l), NEW r, r = RemoveAt(l, i)
  PROVE  r \in Seq(E) /\ Without(r, l, i)
<1> DEFINE n == Len(l)
           p == SubSeq(l, 1, i - 1)
           q == SubSeq(l, i + 1, n)
<1>1. n \in Nat /\ i \in Int /\ 1 <= i /\ i <= n /\ \A j \in 1..n : l[j] \in E
  OBVIOUS
<1> HIDE DEF n
<1>2. /\ p \in Seq(E) /\ Len(p) = i - 1
      /\ \A j \in 1..(i - 1) : p[j] = l[j]
  <2>1. \A j \in 1..(i - 1) : l[j] \in E
    BY <1>1
  <2>2. /\ p \in Seq(E)
        /\ Len(p) = IF 1 <= i - 1 THEN (i - 1) - 1 + 1 ELSE 0
        /\ \A j \in 1..((i - 1) - 1 + 1) : p[j] = l[1 + j - 1]
    BY <1>1, <2>1, SubSeqProperties
  <2> HIDE DEF p
  <2>3. \A j \in 1..(i - 1) : j \in 1..((i - 1) - 1 + 1) /\ 1 + j - 1 = j
    BY <1>1
  <2> QED
    BY <1>1, <2>2, <2>3
<1>3. /\ q \in Seq(E) /\ Len(q) = n - i
      /\ \A j \in 1..(n - i) : q[j] = l[i + j]
  <2>1. \A j \in (i + 1)..n : l[j] \in E
    BY <1>1
  <2>2. /\ q \in Seq(E)
        /\ Len(q) = IF i + 1 <= n THEN n - (i + 1) + 1 ELSE 0
        /\ \A j \in 1..(n - (i + 1) + 1) : q[j] = l[(i + 1) + j - 1]
    <3>1. i + 1 \in Int /\ n \in Int
      BY <1>1
    <3> QED
      BY <2>1, <3>1, SubSeqProperties
  <2> HIDE DEF q
  <2>3. \A j \in 1..(n - i) : j \in 1..(n - (i + 1) + 1) /\ (i + 1) + j - 1 = i + j
    BY <1>1
  <2> QED
    BY <1>1, <2>2, <2>3
<1>4. r = p \o q
  BY DEF RemoveAt, n
<1> HIDE DEF p, q
<1>5. /\ r \in Seq(E) /\ Len(r) = Len(p) + Len(q)
      /\ \A j \in 1..(Len(p) + Len(q)) : r[j] = IF j <= Len(p) THEN p[j] ELSE q[j - Len(p)]
  BY <1>2, <1>3, <1>4, ConcatProperties
<1>6. Len(r) = n - 1
  BY <1>1, <1>2, <1>3, <1>5
<1>7. ASSUME NEW j \in 1..Len(r) PROVE r[j] = IF j < i THEN l[j] ELSE l[j + 1]
  <2>0. j \in Int /\ 1 <= j /\ j <= n - 1 /\ r[j] = IF j <= i - 1 THEN p[j] ELSE q[j - (i - 1)]
    BY <1>1, <1>2, <1>3, <1>5, <1>6
  <2>1. CASE j < i
    <3>1. j <= i - 1 /\ j \in 1..(i - 1)
      BY <1>1, <2>0, <2>1
    <3> QED
      BY <1>2, <2>0, <2>1, <3>1
  <2>2. CASE ~(j < i)
    <3>1. ~(j <= i - 1) /\ j - (i - 1) \in 1..(n - i) /\ i + (j - (i - 1)) = j + 1
      BY <1>1, <2>0, <2>2
    <3> QED
      BY <1>3, <2>0, <2>2, <3>1
  <2> QED
    BY <2>1, <2>2
<1> QED
  BY <1>5, <1>6, <1>7 DEF Without, n

LEMMA TailWithout ==
  ASSUME NEW E, NEW l \in Seq(E), l # <<>>
  PROVE  Tail(l) \in Seq(E) /\ Without(Tail(l), l, 1) /\ Head(l) = l[1] /\ 1 \in 1..Len(l)
<1>1. Len(l) \in Nat /\ Len(l) # 0
  BY EmptySeq
<1> QED
  BY <1>1, HeadTailProperties DEF Without

LEMMA WithoutFacts ==
  ASSUME NEW E, NEW l \in Seq(E), OneEach(l), NEW i \in 1..Len(l), NEW r \in Seq(E), Without(r, l, i)
  PROVE  OneEach(r) /\ ToSet(r) = ToSet(l) \ {l[i]}
<1> DEFINE n == Len(l)
<1>1. n \in Nat /\ Len(r) = n - 1 /\ \A j \in 1..(n - 1) : r[j] = IF j < i THEN l[j] ELSE l[j + 1]
  BY DEF Without
<1>2. ToSet(r) = {r[j] : j \in 1..(n - 1)} /\ ToSet(l) = {l[j] : j \in 1..n}
  BY <1>1, ToSetFacts
<1>3. OneEach(r)
  <2> SUFFICES ASSUME NEW j \in 1..(n - 1), NEW k \in 1..(n - 1), r[j].key = r[k].key PROVE j = k
    BY <1>1 DEF OneEach
  <2> DEFINE a == IF j < i THEN j ELSE j + 1
             b == IF k < i THEN k ELSE k + 1
  <2>1. r[j] = l[a] /\ r[k] = l[b]
    BY <1>1
  <2>2. a \in 1..n /\ b \in 1..n
    BY <1>1
  <2>3. a = b
    BY <2>1, <2>2 DEF OneEach
  <2> QED
    BY <2>3
<1>4. ASSUME NEW x \in ToSet(r) PROVE x \in ToSet(l) \ {l[i]}
  <2>1. PICK j \in 1..(n - 1) : x = r[j]
    BY <1>2
  <2>2. PICK k \in 1..n : x = l[k] /\ k # i
    <3>1. CASE j < i
      BY <1>1, <2>1, <3>1
    <3>2. CASE ~ (j < i)
      <4>1. j + 1 \in 1..n /\ j + 1 # i
        BY <1>1, <3>2
      <4> QED
        BY <1>1, <2>1, <3>2, <4>1
    <3> QED
      BY <3>1, <3>2
  <2>3. l[k] # l[i]
    BY <2>2 DEF OneEach
  <2> QED
    BY <1>2, <2>2, <2>3
<1>5. ASSUME NEW x \in ToSet(l) \ {l[i]} PROVE x \in ToSet(r)
  <2>1. PICK k \in 1..n : x = l[k] /\ k # i
    BY <1>2
  <2>2. CASE k < i
    <3>1. k \in 1..(n - 1) /\ r[k] = l[k]
      BY <1>1, <2>1, <2>2
    <3> QED
      BY <1>2, <2>1, <3>1
  <2>3. CASE ~ (k < i)
    <3>1. k - 1 \in 1..(n - 1) /\ ~ (k - 1 < i) /\ (k - 1) + 1 = k
      BY <1>1, <2>1, <2>3
    <3>2. r[k - 1] = l[k]
      BY <1>1, <3>1
    <3> QED
      BY <1>2, <2>1, <3>1, <3>2
  <2> QED
    BY <2>2, <2>3
<1> QED
  BY <1>3, <1>4, <1>5

\* A bucket of a new key can be appended.
LEMMA AppendEach ==
  ASSUME NEW E, NEW l \in Seq(E), OneEach(l), NEW e, \A x \in ToSet(l) : x.key # e.key
  PROVE  OneEach(Append(l, e))
<1>1. Len(l) \in Nat /\ ToSet(l) = {l[i] : i \in 1..Len(l)}
  BY ToSetFacts
<1>2. /\ Len(Append(l, e)) = Len(l) + 1
      /\ \A i \in 1..Len(l) : Append(l, e)[i] = l[i]
      /\ Append(l, e)[Len(l) + 1] = e
  OBVIOUS
<1>3. PICK k : k = Append(l, e)
  OBVIOUS
<1>4. ASSUME NEW i \in 1..(Len(l) + 1), NEW j \in 1..(Len(l) + 1), k[i].key = k[j].key PROVE i = j
  <2>1. \A h \in 1..(Len(l) + 1) : h \in 1..Len(l) \/ h = Len(l) + 1
    BY <1>1
  <2>2. \A h \in 1..Len(l) : k[h] = l[h] /\ l[h].key # e.key
    BY <1>1, <1>2, <1>3
  <2>3. k[Len(l) + 1] = e
    BY <1>2, <1>3
  <2>4. CASE i \in 1..Len(l) /\ j \in 1..Len(l)
    BY <1>4, <2>2, <2>4 DEF OneEach
  <2>5. CASE i = Len(l) + 1 \/ j = Len(l) + 1
    BY <1>4, <2>1, <2>2, <2>3, <2>5
  <2> QED
    BY <2>1, <2>4, <2>5
<1> QED
  BY <1>2, <1>3, <1>4 DEF OneEach

\* The buckets an aggregator of the keys K may hold.
Buckets(K) == [key : K, count : Nat \ {0}, first : Int, last : Int]

\* l is the state of an aggregator of keys K.
Collects(l, K) == l \in Seq(Buckets(K)) /\ OneEach(l)

\* The bucket with one event more.
Counting(bucket, t) == [bucket EXCEPT !.count = @ + 1, !.last = t]

\* Adding an event of key k to l at time t: it is counted into the open bucket x
\* of k, or gets a fresh bucket for which x, due or the oldest, is handed out, or
\* one that needs no room.
AddCase(l, k, t, r) ==
  \/ /\ r.emitted = <<>>
     /\ \E x \in ToSet(l) : /\ x.key = k
                            /\ ToSet(r.buckets) = (ToSet(l) \ {x}) \union {Counting(x, t)}
  \/ \E x \in ToSet(l) : /\ x.key = k \/ \A y \in ToSet(l) : y.key # k
                         /\ r.emitted = <<x>>
                         /\ ToSet(r.buckets) = (ToSet(l) \ {x}) \union {Bucket(k, t)}
  \/ /\ r.emitted = <<>>
     /\ \A y \in ToSet(l) : y.key # k
     /\ ToSet(r.buckets) = ToSet(l) \union {Bucket(k, t)}

\* Add keeps one bucket per key, in one of three ways.
LEMMA AddCollects ==
  ASSUME NEW K, NEW l, Collects(l, K), NEW k \in K, NEW t \in Int, NEW r, r = AddEvent(l, k, t)
  PROVE  /\ Collects(r.buckets, K)
         /\ r.emitted \in Seq(Buckets(K))
         /\ AddCase(l, k, t, r)
<1> DEFINE B == Buckets(K)
           known == Position(l, k)
           at == CHOOSE i \in known : TRUE
           live == {i \in known : ~ Due(l[i], t)}
<1>0. /\ l \in Seq(B) /\ OneEach(l) /\ Len(l) \in Nat
      /\ ToSet(l) = {l[i] : i \in 1..Len(l)} /\ ToSet(l) \subseteq B
  BY ToSetFacts DEF Collects
<1>1. known = {i \in 1..Len(l) : l[i].key = k}
  BY <1>0 DEF Position
<1>2. PICK fresh : fresh = Bucket(k, t)
  OBVIOUS
<1>3. fresh \in B /\ fresh.key = k
  BY <1>2 DEF Bucket, Buckets
<1>4. ASSUME known = {} PROVE \A y \in ToSet(l) : y.key # k
  BY <1>0, <1>1, <1>4
<1>5. r = CASE live # {} -> [buckets |-> CountIn(l, at, t), emitted |-> <<>>]
            [] known # {} /\ live = {} ->
                 [buckets |-> Append(RemoveAt(l, at), fresh), emitted |-> <<l[at]>>]
            [] known = {} /\ AllInUse(l) ->
                 [buckets |-> Append(Tail(l), fresh), emitted |-> <<Head(l)>>]
            [] OTHER -> [buckets |-> Append(l, fresh), emitted |-> <<>>]
  BY <1>2 DEF AddEvent
<1>6. live \subseteq known
  OBVIOUS
\* A list without its i-th bucket, and a new one of a key it does not hold.
<1>7. ASSUME NEW i \in 1..Len(l), NEW m \in Seq(B), Without(m, l, i), NEW y \in B,
             y.key = l[i].key \/ \A z \in ToSet(l) : z.key # y.key
      PROVE  /\ Collects(Append(m, y), K)
             /\ ToSet(Append(m, y)) = (ToSet(l) \ {l[i]}) \union {y}
  <2>1. OneEach(m) /\ ToSet(m) = ToSet(l) \ {l[i]}
    BY <1>0, <1>7, WithoutFacts
  <2>2. \A z \in ToSet(m) : z.key # y.key
    <3> SUFFICES ASSUME NEW z \in ToSet(m), z.key = y.key PROVE FALSE
      OBVIOUS
    <3>1. PICK j \in 1..Len(l) : z = l[j]
      BY <1>0, <2>1
    <3> QED
      BY <1>7, <2>1, <3>1, <1>0 DEF OneEach
  <2>3. OneEach(Append(m, y))
    BY <2>1, <2>2, AppendEach
  <2>4. ToSet(Append(m, y)) = ToSet(m) \union {y}
    BY ToSetFacts
  <2> QED
    BY <2>1, <2>3, <2>4 DEF Collects
<1> HIDE DEF known, at, live
<1>8. CASE known # {}
  <2>1. PICK x, p : p = at /\ p \in 1..Len(l) /\ x = l[p] /\ x.key = k /\ x \in ToSet(l) /\ x \in B
    <3>1. at \in known
      BY <1>8 DEF at
    <3> QED
      BY <1>0, <1>1, <3>1
  <2>2. PICK m : m = RemoveAt(l, p)
    OBVIOUS
  <2>3. m \in Seq(B) /\ Without(m, l, p)
    BY <1>0, <2>1, <2>2, RemoveAtWithout
  <2>4. CASE live # {}
    <3>1. PICK y : y = Counting(x, t)
      OBVIOUS
    <3>2. y \in B /\ y.key = k
      <4>1. x.key \in K /\ x.count + 1 \in Nat \ {0} /\ x.first \in Int
        BY <2>1 DEF Buckets
      <4>2. x = [key |-> x.key, count |-> x.count, first |-> x.first, last |-> x.last]
        BY <2>1 DEF Buckets
      <4>3. y = [key |-> x.key, count |-> x.count + 1, first |-> x.first, last |-> t]
        BY <3>1, <4>2 DEF Counting
      <4> QED
        BY <2>1, <4>1, <4>3 DEF Buckets
    <3>3. r = [buckets |-> Append(m, y), emitted |-> <<>>]
      <4>1. CountIn(l, at, t) = Append(m, y)
        BY <2>1, <2>2, <3>1, Zenon DEF CountIn, Counting
      <4>2. r = [buckets |-> CountIn(l, at, t), emitted |-> <<>>]
        BY <1>5, <1>8, <2>4
      <4> QED
        BY <4>1, <4>2, Zenon
    <3>4. /\ Collects(Append(m, y), K)
          /\ ToSet(Append(m, y)) = (ToSet(l) \ {x}) \union {y}
      BY <1>7, <2>1, <2>3, <3>2
    <3>5. <<>> \in Seq(B)
      OBVIOUS
    <3> QED
      BY <2>1, <3>1, <3>3, <3>4, <3>5 DEF AddCase
  <2>5. CASE live = {}
    <3>1. r = [buckets |-> Append(m, fresh), emitted |-> <<x>>]
      BY <1>5, <1>8, <2>1, <2>2, <2>5
    <3>2. /\ Collects(Append(m, fresh), K)
          /\ ToSet(Append(m, fresh)) = (ToSet(l) \ {x}) \union {fresh}
      BY <1>3, <1>7, <2>1, <2>3
    <3>3. <<x>> \in Seq(B)
      BY <2>1
    <3> QED
      BY <1>2, <2>1, <3>1, <3>2, <3>3 DEF AddCase
  <2> QED
    BY <2>4, <2>5
<1>9. CASE known = {}
  <2>0. live = {} /\ \A y \in ToSet(l) : y.key # k
    BY <1>4, <1>6, <1>9
  <2>1. CASE AllInUse(l)
    <3>1. l # <<>>
      <4>1. Len(l) >= 1
        BY <1>0, <2>1, AggregatorAssumption DEF AllInUse
      <4> QED
        BY <4>1
    <3>2. PICK m, x : m = Tail(l) /\ x = Head(l)
      OBVIOUS
    <3>3. m \in Seq(B) /\ Without(m, l, 1) /\ x = l[1] /\ 1 \in 1..Len(l) /\ x \in ToSet(l) /\ x \in B
      BY <1>0, <3>1, <3>2, TailWithout
    <3>4. r = [buckets |-> Append(m, fresh), emitted |-> <<x>>]
      BY <1>5, <1>9, <2>0, <2>1, <3>2
    <3>5. /\ Collects(Append(m, fresh), K)
          /\ ToSet(Append(m, fresh)) = (ToSet(l) \ {x}) \union {fresh}
      BY <1>3, <1>7, <2>0, <3>3
    <3>6. <<x>> \in Seq(B)
      BY <3>3
    <3> QED
      BY <1>2, <2>0, <3>3, <3>4, <3>5, <3>6 DEF AddCase
  <2>2. CASE ~ AllInUse(l)
    <3>1. r = [buckets |-> Append(l, fresh), emitted |-> <<>>]
      BY <1>5, <1>9, <2>0, <2>2
    <3>2. ToSet(Append(l, fresh)) = ToSet(l) \union {fresh}
      BY <1>0, ToSetFacts
    <3>3. Append(l, fresh) \in Seq(B) /\ OneEach(Append(l, fresh)) /\ <<>> \in Seq(B)
      BY <1>0, <1>3, <2>0, AppendEach
    <3> QED
      BY <1>2, <2>0, <3>1, <3>2, <3>3 DEF AddCase, Collects
  <2> QED
    BY <2>1, <2>2
<1> QED
  BY <1>8, <1>9

\* Flush hands out the buckets that leave, and keeps the others.
LEMMA FlushCollects ==
  ASSUME NEW K, NEW l, Collects(l, K), NEW t \in Int, NEW force \in BOOLEAN,
         NEW r, r = Flush(l, t, force), NEW L, L = Leaving(l, t, force)
  PROVE  /\ Collects(r.buckets, K) /\ Collects(r.emitted, K)
         /\ ToSet(r.buckets) = ToSet(l) \ L /\ ToSet(r.emitted) = L
         /\ L \subseteq ToSet(l) /\ (force => L = ToSet(l))
<1> DEFINE R == {p \in Buckets(K) \X Buckets(K) : p[1].key # p[2].key}
           S == ToSet(l) \ L
<1>0. l \in Seq(Buckets(K)) /\ OneEach(l) /\ Len(l) \in Nat /\ ToSet(l) = {l[i] : i \in 1..Len(l)}
  BY ToSetFacts DEF Collects
<1>1. \A m \in Seq(Buckets(K)) : OneEach(m) <=> Ordered(m, R)
  <2> SUFFICES ASSUME NEW m \in Seq(Buckets(K)) PROVE OneEach(m) <=> Ordered(m, R)
    OBVIOUS
  <2>1. Len(m) \in Nat /\ \A i \in 1..Len(m) : m[i] \in Buckets(K)
    OBVIOUS
  <2>2. Ordered(m, R) <=> \A i, j \in 1..Len(m) : i < j => m[i].key # m[j].key
    BY <2>1 DEF Ordered
  <2>3. OneEach(m) <=> \A i, j \in 1..Len(m) : i < j => m[i].key # m[j].key
    <3>1. \A i, j \in 1..Len(m) : i < j \/ j < i \/ i = j
      BY <2>1
    <3>2. \A i, j \in 1..Len(m) : i < j => i # j
      BY <2>1
    <3> QED
      BY <3>1, <3>2 DEF OneEach
  <2> QED
    BY <2>2, <2>3
<1>2. /\ r.buckets = Those(l, S) /\ r.emitted = Those(l, L)
  BY DEF Flush
<1>3. L = {b \in ToSet(l) : force \/ Due(b, t)}
  BY DEF Leaving
<1>4. \A X : Those(l, X) \in Seq(Buckets(K)) /\ ToSet(Those(l, X)) = ToSet(l) \intersect X
  BY <1>0, ThoseType
<1>5. ASSUME NEW X PROVE OneEach(Those(l, X))
  <2> HIDE DEF R, S
  <2>1. Ordered(l, R)
    BY <1>0, <1>1
  <2>2. Ordered(Those(l, X), R)
    BY <1>0, <2>1, OrderedThose
  <2> QED
    BY <1>1, <1>4, <2>2
<1> QED
  BY <1>2, <1>3, <1>4, <1>5 DEF Collects

-----------------------------------------------------------------------------
\* Counted is a fold over the indices of the list, the last one first.
CountFold == INSTANCE FoldFacts
  WITH op <- LAMBDA p, x, y : IF x.key = p THEN y + x.count ELSE y,
       f <- LAMBDA q, i : q[i], choose <- LAMBDA s : Max(s)

LEMMA CountedFold ==
  ASSUME NEW l, NEW k
  PROVE  Counted(l, k) = CountFold!FoldOf(k, l, 0, DOMAIN l)
BY DEF Counted, FoldLeft, CountFold!FoldOf, MapThenFoldSet, CountFold!MapThenFoldSet

\* Counted, one summary at a time.
LEMMA CountedSteps ==
  ASSUME NEW E, NEW l \in Seq(E), NEW e, NEW k
  PROVE  /\ Counted(<<>>, k) = 0
         /\ Counted(Append(l, e), k) = IF e.key = k THEN Counted(l, k) + e.count ELSE Counted(l, k)
<1> DEFINE n == Len(l)
           m == Append(l, e)
           D == 1..(n + 1)
<1>1. Counted(<<>>, k) = 0
  <2>1. DOMAIN <<>> = {}
    OBVIOUS
  <2> QED
    BY <2>1, CountedFold, CountFold!Empty
<1>2. n \in Nat /\ DOMAIN l = 1..n /\ DOMAIN m = D
  OBVIOUS
<1>3. m[n + 1] = e /\ \A i \in 1..n : m[i] = l[i]
  OBVIOUS
<1>4. \A S : /\ CountFold!IsFiniteSet(S) = ListFold!IsFiniteSet(S)
             /\ CountFold!Chooses(S) = ListFold!Chooses(S)
  BY DEF CountFold!IsFiniteSet, ListFold!IsFiniteSet, CountFold!Chooses, ListFold!Chooses
<1>5. /\ D \ {n + 1} = 1..n /\ D # {}
      /\ CountFold!IsFiniteSet(D) /\ CountFold!Chooses(D) /\ Max(D) = n + 1
      /\ CountFold!IsFiniteSet(1..n) /\ CountFold!Chooses(1..n)
  <2>1. \A i \in Nat : (1..(i + 1)) \ {i + 1} = 1..i /\ 1 \in 1..(i + 1)
    OBVIOUS
  <2>2. n + 1 \in Nat
    BY <1>2
  <2> QED
    BY <1>2, <1>4, <2>1, <2>2, Indices
<1>6. CountFold!FoldOf(k, m, 0, D)
        = IF e.key = k THEN CountFold!FoldOf(k, m, 0, D \ {n + 1}) + e.count
                       ELSE CountFold!FoldOf(k, m, 0, D \ {n + 1})
  <2> HIDE DEF D, m, n
  <2> QED
    BY <1>3, <1>5, CountFold!Unfold
<1>7. CountFold!FoldOf(k, m, 0, 1..n) = CountFold!FoldOf(k, l, 0, 1..n)
  <2> HIDE DEF m, n
  <2> QED
    BY <1>2, <1>3, <1>5, CountFold!Congruence
<1> QED
  BY <1>1, <1>2, <1>5, <1>6, <1>7, CountedFold

\* The counts of a list are a number, and those of two lists add up.
LEMMA CountedType ==
  ASSUME NEW K, NEW l \in Seq(Buckets(K)), NEW k
  PROVE  Counted(l, k) \in Nat
<1> DEFINE P == {m \in Seq(Buckets(K)) : Counted(m, k) \in Nat}
<1>1. <<>> \in P
  BY CountedSteps, <<>> \in Seq(Buckets(K))
<1>2. ASSUME NEW m \in Seq(Buckets(K)), NEW e \in Buckets(K), m \in P PROVE Append(m, e) \in P
  <2>1. e.count \in Nat
    BY DEF Buckets
  <2> QED
    BY <1>2, <2>1, CountedSteps
<1>3. Seq(Buckets(K)) \subseteq P
  <2> HIDE DEF P
  <2> QED
    BY <1>1, <1>2, ListInduction
<1> QED
  BY <1>3

LEMMA CountedConcat ==
  ASSUME NEW K, NEW a \in Seq(Buckets(K)), NEW b \in Seq(Buckets(K)), NEW k
  PROVE  Counted(a \o b, k) = Counted(a, k) + Counted(b, k)
<1> DEFINE P == {m \in Seq(Buckets(K)) : Counted(a \o m, k) = Counted(a, k) + Counted(m, k)}
<1>1. <<>> \in P
  <2>1. a \o <<>> = a
    OBVIOUS
  <2>2. Counted(<<>>, k) = 0 /\ Counted(a, k) \in Nat
    BY CountedSteps, CountedType
  <2> QED
    BY <2>1, <2>2
<1>2. ASSUME NEW m \in Seq(Buckets(K)), NEW e \in Buckets(K), m \in P PROVE Append(m, e) \in P
  <2>1. a \o Append(m, e) = Append(a \o m, e) /\ a \o m \in Seq(Buckets(K))
    OBVIOUS
  <2>2. e.count \in Nat /\ Counted(a, k) \in Nat /\ Counted(m, k) \in Nat
    BY CountedType DEF Buckets
  <2>3. /\ Counted(Append(m, e), k) = IF e.key = k THEN Counted(m, k) + e.count ELSE Counted(m, k)
        /\ Counted(Append(a \o m, e), k)
             = IF e.key = k THEN Counted(a \o m, k) + e.count ELSE Counted(a \o m, k)
    <3>1. Counted(Append(m, e), k) = IF e.key = k THEN Counted(m, k) + e.count ELSE Counted(m, k)
      BY CountedSteps
    <3>2. \A q \in Seq(Buckets(K)) :
            Counted(Append(q, e), k) = IF e.key = k THEN Counted(q, k) + e.count ELSE Counted(q, k)
      BY CountedSteps
    <3>3. Counted(Append(a \o m, e), k)
            = IF e.key = k THEN Counted(a \o m, k) + e.count ELSE Counted(a \o m, k)
      BY <2>1, <3>2
    <3> QED
      BY <3>1, <3>3
  <2>4. Append(m, e) \in Seq(Buckets(K))
    OBVIOUS
  <2>5. Counted(a \o m, k) = Counted(a, k) + Counted(m, k)
    BY <1>2
  <2>6. Counted(Append(a \o m, e), k) = Counted(a, k) + Counted(Append(m, e), k)
    BY <2>2, <2>3, <2>5
  <2>7. Counted(a \o Append(m, e), k) = Counted(a, k) + Counted(Append(m, e), k)
    BY <2>1, <2>6, Zenon
  <2> QED
    BY <2>4, <2>7
<1>3. Seq(Buckets(K)) \subseteq P
  <2> HIDE DEF P
  <2> QED
    BY <1>1, <1>2, ListInduction
<1> QED
  BY <1>3

\* What an aggregator counts of a key is the count of the key's one bucket.
LEMMA CountedOnce ==
  ASSUME NEW K, NEW l, Collects(l, K), NEW k
  PROVE  /\ (\A x \in ToSet(l) : x.key # k) => Counted(l, k) = 0
         /\ \A x \in ToSet(l) : x.key = k => Counted(l, k) = x.count
<1> DEFINE R == {p \in Buckets(K) \X Buckets(K) : p[1].key # p[2].key}
           Is(m) == /\ (\A x \in ToSet(m) : x.key # k) => Counted(m, k) = 0
                    /\ \A x \in ToSet(m) : x.key = k => Counted(m, k) = x.count
           P == {m \in Seq(Buckets(K)) : Ordered(m, R) => Is(m)}
<1>1. <<>> \in P
  <2>1. <<>> \in Seq(Buckets(K))
    OBVIOUS
  <2>2. Counted(<<>>, k) = 0 /\ ToSet(<<>>) = {}
    BY <2>1, CountedSteps, ToSetFacts
  <2> QED
    BY <2>1, <2>2
<1>2. ASSUME NEW m \in Seq(Buckets(K)), NEW e \in Buckets(K), m \in P PROVE Append(m, e) \in P
  <2>0. Append(m, e) \in Seq(Buckets(K)) /\ ToSet(Append(m, e)) = ToSet(m) \union {e}
        /\ ToSet(m) \subseteq Buckets(K)
    BY ToSetFacts
  <2>1. SUFFICES ASSUME Ordered(Append(m, e), R) PROVE Is(Append(m, e))
    BY <2>0
  <2>2. Ordered(m, R) /\ \A x \in ToSet(m) : <<x, e>> \in R
    <3> HIDE DEF R
    <3> QED
      BY <2>1, OrderedAppend
  <2>3. Is(m) /\ \A x \in ToSet(m) : x.key # e.key
    BY <1>2, <2>2
  <2>4. Counted(Append(m, e), k) = IF e.key = k THEN Counted(m, k) + e.count ELSE Counted(m, k)
    BY CountedSteps
  <2>5. CASE e.key = k
    <3>1. Counted(m, k) = 0 /\ e.count \in Nat
      BY <2>3, <2>5 DEF Buckets
    <3>2. Counted(Append(m, e), k) = e.count
      BY <2>4, <2>5, <3>1
    <3> QED
      BY <2>0, <2>3, <2>5, <3>2
  <2>6. CASE e.key # k
    <3>1. Counted(Append(m, e), k) = Counted(m, k)
      BY <2>4, <2>6
    <3> QED
      BY <2>0, <2>3, <2>6, <3>1
  <2> QED
    BY <2>5, <2>6
<1>3. Seq(Buckets(K)) \subseteq P
  <2> HIDE DEF P
  <2> QED
    BY <1>1, <1>2, ListInduction
<1>4. l \in Seq(Buckets(K)) /\ Ordered(l, R)
  <2>1. l \in Seq(Buckets(K)) /\ OneEach(l)
    BY DEF Collects
  <2>2. Len(l) \in Nat /\ \A i \in 1..Len(l) : l[i] \in Buckets(K)
    BY <2>1
  <2>3. \A i, j \in 1..Len(l) : i < j => i # j
    BY <2>2
  <2> QED
    BY <2>1, <2>2, <2>3 DEF Ordered, OneEach
<1> QED
  BY <1>3, <1>4

\* Two aggregators with the same bucket of a key count the same of it.
LEMMA CountedSame ==
  ASSUME NEW K, NEW l, Collects(l, K), NEW m, Collects(m, K), NEW k,
         \A x : x.key = k => (x \in ToSet(l) <=> x \in ToSet(m))
  PROVE  Counted(l, k) = Counted(m, k)
<1>1. CASE \E x \in ToSet(l) : x.key = k
  BY <1>1, CountedOnce
<1>2. CASE \A x \in ToSet(l) : x.key # k
  BY <1>2, CountedOnce
<1> QED
  BY <1>1, <1>2

LEMMA CountedOne ==
  ASSUME NEW K, NEW x \in Buckets(K), NEW k
  PROVE  /\ Counted(<<x>>, k) = IF x.key = k THEN x.count ELSE 0
         /\ Counted(<<>>, k) = 0
<1>1. PICK e : e = <<>>
  OBVIOUS
<1>2. <<x>> = Append(e, x) /\ e \in Seq(Buckets(K)) /\ x.count \in Nat
  BY <1>1 DEF Buckets
<1>3. Counted(<<>>, k) = 0
  BY <1>1, <1>2, CountedSteps
<1>4. Counted(Append(e, x), k) = IF x.key = k THEN Counted(e, k) + x.count ELSE Counted(e, k)
  BY <1>2, CountedSteps
<1>5. Counted(e, k) = 0
  BY <1>1, <1>3
<1>6. Counted(Append(e, x), k) = IF x.key = k THEN x.count ELSE 0
  BY <1>2, <1>4, <1>5
<1> QED
  BY <1>2, <1>3, <1>6, Zenon

\* Add accounts for one event of its key more, and for the others as before.
LEMMA AddCounts ==
  ASSUME NEW K, NEW l, Collects(l, K), NEW k \in K, NEW t \in Int, NEW r, r = AddEvent(l, k, t),
         NEW j
  PROVE  Counted(r.emitted, j) + Counted(r.buckets, j) = Counted(l, j) + IF j = k THEN 1 ELSE 0
<1> DEFINE m == r.buckets
<1>1. Collects(m, K) /\ r.emitted \in Seq(Buckets(K)) /\ AddCase(l, k, t, r)
  BY AddCollects
<1>2. ToSet(l) \subseteq Buckets(K) /\ l \in Seq(Buckets(K)) /\ m \in Seq(Buckets(K))
  BY <1>1, ToSetFacts DEF Collects
<1>3. Counted(l, j) \in Nat /\ Counted(m, j) \in Nat /\ Counted(r.emitted, j) \in Nat
  BY <1>1, <1>2, CountedType
<1>4. \A x, y \in ToSet(l) : x.key = y.key => x = y
  BY <1>2, ToSetFacts DEF Collects, OneEach
<1>5. Bucket(k, t).key = k /\ Bucket(k, t).count = 1
  BY DEF Bucket
<1> HIDE DEF m
<1>6. ASSUME NEW x \in ToSet(l), x.key = k, r.emitted = <<>>,
             ToSet(m) = (ToSet(l) \ {x}) \union {Counting(x, t)}
      PROVE  Counted(r.emitted, j) + Counted(m, j) = Counted(l, j) + IF j = k THEN 1 ELSE 0
  <2>1. PICK y : y = Counting(x, t)
    OBVIOUS
  <2>2. y.key = k /\ y.count = x.count + 1 /\ x.count \in Nat
    <3>1. x \in Buckets(K)
      BY <1>2
    <3> QED
      BY <1>6, <2>1, <3>1 DEF Counting, Buckets
  <2>3. Counted(r.emitted, j) = 0
    BY <1>2, <1>6, CountedOne
  <2>4. CASE j = k
    <3>1. Counted(l, j) = x.count
      BY <1>6, <2>4, CountedOnce
    <3>2. Counted(m, j) = x.count + 1
      BY <1>1, <1>6, <2>1, <2>2, <2>4, CountedOnce
    <3> QED
      BY <2>2, <2>3, <2>4, <3>1, <3>2
  <2>5. CASE j # k
    <3>1. Counted(m, j) = Counted(l, j)
      BY <1>1, <1>6, <2>1, <2>2, <2>5, CountedSame
    <3> QED
      BY <1>3, <2>3, <2>5, <3>1
  <2> QED
    BY <2>4, <2>5
<1>7. ASSUME NEW x \in ToSet(l), x.key = k \/ \A y \in ToSet(l) : y.key # k, r.emitted = <<x>>,
             ToSet(m) = (ToSet(l) \ {x}) \union {Bucket(k, t)}
      PROVE  Counted(r.emitted, j) + Counted(m, j) = Counted(l, j) + IF j = k THEN 1 ELSE 0
  <2>1. PICK y : y = Bucket(k, t)
    OBVIOUS
  <2>2. y.key = k /\ y.count = 1 /\ y \in ToSet(m) /\ x \in Buckets(K) /\ x.count \in Nat
    <3>1. x \in Buckets(K)
      BY <1>2
    <3> QED
      BY <1>5, <1>7, <2>1, <3>1 DEF Buckets
  <2>3. Counted(r.emitted, j) = IF x.key = j THEN x.count ELSE 0
    BY <1>7, <2>2, CountedOne
  <2>4. x.key = j => Counted(l, j) = x.count
    BY CountedOnce
  <2>5. CASE j = k
    <3>1. Counted(m, j) = 1
      BY <1>1, <2>2, <2>5, CountedOnce
    <3>2. x.key # j => Counted(l, j) = 0
      BY <1>7, <2>5, CountedOnce
    <3> QED
      BY <2>2, <2>3, <2>4, <2>5, <3>1, <3>2
  <2>6. CASE j # k /\ x.key = j
    <3>1. \A z \in ToSet(m) : z.key # j
      BY <1>4, <1>7, <2>1, <2>2, <2>6
    <3>2. Counted(m, j) = 0
      BY <1>1, <3>1, CountedOnce
    <3> QED
      BY <2>2, <2>3, <2>4, <2>6, <3>2
  <2>7. CASE j # k /\ x.key # j
    <3>1. Counted(m, j) = Counted(l, j)
      BY <1>1, <1>7, <2>1, <2>2, <2>7, CountedSame
    <3> QED
      BY <1>3, <2>3, <2>7, <3>1
  <2> QED
    BY <2>5, <2>6, <2>7
<1>8. ASSUME \A y \in ToSet(l) : y.key # k, r.emitted = <<>>,
             ToSet(m) = ToSet(l) \union {Bucket(k, t)}
      PROVE  Counted(r.emitted, j) + Counted(m, j) = Counted(l, j) + IF j = k THEN 1 ELSE 0
  <2>1. PICK y : y = Bucket(k, t)
    OBVIOUS
  <2>2. y.key = k /\ y.count = 1 /\ y \in ToSet(m)
    BY <1>5, <1>8, <2>1
  <2>3. Counted(r.emitted, j) = 0
    <3>1. <<>> \in Seq(Buckets(K))
      OBVIOUS
    <3> QED
      BY <1>8, <3>1, CountedSteps
  <2>4. CASE j = k
    <3>1. Counted(m, j) = 1 /\ Counted(l, j) = 0
      BY <1>1, <1>8, <2>2, <2>4, CountedOnce
    <3> QED
      BY <2>3, <2>4, <3>1
  <2>5. CASE j # k
    <3>1. Counted(m, j) = Counted(l, j)
      BY <1>1, <1>8, <2>1, <2>2, <2>5, CountedSame
    <3> QED
      BY <1>3, <2>3, <2>5, <3>1
  <2> QED
    BY <2>4, <2>5
<1> QED
  BY <1>1, <1>6, <1>7, <1>8 DEF AddCase, m

\* Flush hands out what it no longer counts.
LEMMA FlushCounts ==
  ASSUME NEW K, NEW l, Collects(l, K), NEW t \in Int, NEW force \in BOOLEAN,
         NEW r, r = Flush(l, t, force), NEW j
  PROVE  Counted(r.emitted, j) + Counted(r.buckets, j) = Counted(l, j)
<1> DEFINE m == r.buckets
           o == r.emitted
<1>1. PICK L : L = Leaving(l, t, force)
  OBVIOUS
<1>2. /\ Collects(m, K) /\ Collects(o, K)
      /\ ToSet(m) = ToSet(l) \ L /\ ToSet(o) = L /\ L \subseteq ToSet(l)
  BY <1>1, FlushCollects
<1> HIDE DEF m, o
<1>3. Counted(l, j) \in Nat
  BY CountedType DEF Collects
<1>4. ASSUME NEW x \in ToSet(l), x.key = j PROVE Counted(o, j) + Counted(m, j) = Counted(l, j)
  <2>1. \A y \in ToSet(l) : y.key = j => y = x
    BY <1>4, ToSetFacts DEF Collects, OneEach
  <2>2. Counted(l, j) = x.count
    BY <1>4, CountedOnce
  <2>3. CASE x \in L
    <3>1. Counted(o, j) = x.count /\ Counted(m, j) = 0
      BY <1>2, <1>4, <2>1, <2>3, CountedOnce
    <3> QED
      BY <1>3, <2>2, <3>1
  <2>4. CASE x \notin L
    <3>1. Counted(o, j) = 0 /\ Counted(m, j) = x.count
      BY <1>2, <1>4, <2>1, <2>4, CountedOnce
    <3> QED
      BY <1>3, <2>2, <3>1
  <2> QED
    BY <2>3, <2>4
<1>5. ASSUME \A x \in ToSet(l) : x.key # j PROVE Counted(o, j) + Counted(m, j) = Counted(l, j)
  BY <1>2, <1>5, CountedOnce
<1> QED
  BY <1>4, <1>5 DEF m, o

-----------------------------------------------------------------------------
\* No two summaries of a key start at one time.
OneStart(l) ==
  \A i, j \in 1..Len(l) : l[i].key = l[j].key /\ l[i].first = l[j].first => i = j

\* A summary starts before the open bucket of its key, and nothing starts in
\* the future.
StartsOrdered ==
  /\ \A b \in ToSet(buckets) : b.first <= time
  /\ \A s \in ToSet(summaries) : s.first <= time
  /\ \A s \in ToSet(summaries), b \in ToSet(buckets) : s.key = b.key => s.first < b.first

\* The inductive invariant of the aggregator: the lists' types, the counts, and
\* the order in which the buckets of a key start.
AggregatorInv ==
  /\ time \in Int
  /\ Collects(buckets, Keys)
  /\ summaries \in Seq(Buckets(Keys))
  /\ counted \in [Keys -> Nat]
  /\ CountsConserved
  /\ StartsOrdered
  /\ OneStart(summaries)

\* What is handed out, each key once and from the open buckets, leaves the starts
\* distinct.
LEMMA StartsApart ==
  ASSUME AggregatorInv, NEW out, Collects(out, Keys), ToSet(out) \subseteq ToSet(buckets)
  PROVE  /\ summaries \o out \in Seq(Buckets(Keys))
         /\ OneStart(summaries \o out)
         /\ ToSet(summaries \o out) = ToSet(summaries) \union ToSet(out)
<1> DEFINE m == Len(summaries)
           n == Len(out)
           l == summaries \o out
<1>1. /\ summaries \in Seq(Buckets(Keys)) /\ out \in Seq(Buckets(Keys))
      /\ m \in Nat /\ n \in Nat
      /\ ToSet(summaries) = {summaries[i] : i \in 1..m} /\ ToSet(out) = {out[i] : i \in 1..n}
  BY ToSetFacts DEF AggregatorInv, Collects
<1>2. /\ l \in Seq(Buckets(Keys)) /\ Len(l) = m + n
      /\ \A i \in 1..(m + n) : l[i] = IF i <= m THEN summaries[i] ELSE out[i - m]
  BY <1>1, ConcatProperties
<1> HIDE DEF m, n, l
<1>3. ToSet(l) = {l[i] : i \in 1..(m + n)} /\ ToSet(l) \subseteq Buckets(Keys)
  BY <1>2, ToSetFacts
<1>4. \A i \in 1..(m + n) : IF i <= m THEN i \in 1..m ELSE i - m \in 1..n
  BY <1>1
<1>5. \A i \in 1..n : m + i \in 1..(m + n) /\ ~ (m + i <= m) /\ (m + i) - m = i
  BY <1>1
<1>6. \A i \in 1..m : i \in 1..(m + n) /\ i <= m
  BY <1>1
<1>7. ToSet(l) = ToSet(summaries) \union ToSet(out)
  <2>1. \A i \in 1..(m + n) : l[i] \in ToSet(summaries) \union ToSet(out)
    BY <1>1, <1>2, <1>4
  <2>2. \A i \in 1..m : summaries[i] \in ToSet(l)
    BY <1>2, <1>3, <1>6
  <2>3. \A i \in 1..n : out[i] \in ToSet(l)
    BY <1>2, <1>3, <1>5
  <2> QED
    BY <1>1, <1>3, <2>1, <2>2, <2>3
<1>8. OneStart(l)
  <2> SUFFICES ASSUME NEW i \in 1..(m + n), NEW j \in 1..(m + n),
                      l[i].key = l[j].key, l[i].first = l[j].first
               PROVE  i = j
    BY <1>2 DEF OneStart
  <2>1. ASSUME NEW g \in 1..m, NEW h \in 1..n, summaries[g].key = out[h].key
        PROVE  summaries[g].first # out[h].first
    <3>1. summaries[g] \in ToSet(summaries) /\ out[h] \in ToSet(buckets)
      BY <1>1
    <3>2. summaries[g].first < out[h].first
      BY <2>1, <3>1 DEF AggregatorInv, StartsOrdered
    <3>3. summaries[g].first \in Int
      <4>1. summaries[g] \in Buckets(Keys)
        BY <1>1 DEF m
      <4> QED
        BY <4>1 DEF Buckets
    <3> QED
      BY <3>2, <3>3
  <2>2. CASE i <= m /\ j <= m
    <3>1. i \in 1..m /\ j \in 1..m /\ l[i] = summaries[i] /\ l[j] = summaries[j]
      BY <1>2, <1>4, <2>2
    <3> QED
      BY <3>1 DEF AggregatorInv, OneStart, m
  <2>3. CASE ~ (i <= m) /\ ~ (j <= m)
    <3>1. i - m \in 1..n /\ j - m \in 1..n /\ l[i] = out[i - m] /\ l[j] = out[j - m]
      BY <1>2, <1>4, <2>3
    <3>2. i - m = j - m
      BY <3>1 DEF Collects, OneEach, n
    <3> QED
      BY <1>1, <3>2
  <2>4. CASE i <= m /\ ~ (j <= m)
    <3>1. i \in 1..m /\ j - m \in 1..n /\ l[i] = summaries[i] /\ l[j] = out[j - m]
      BY <1>2, <1>4, <2>4
    <3> QED
      BY <2>1, <3>1
  <2>5. CASE ~ (i <= m) /\ j <= m
    <3>1. j \in 1..m /\ i - m \in 1..n /\ l[j] = summaries[j] /\ l[i] = out[i - m]
      BY <1>2, <1>4, <2>5
    <3> QED
      BY <2>1, <3>1
  <2> QED
    BY <2>2, <2>3, <2>4, <2>5
<1> QED
  BY <1>2, <1>7, <1>8 DEF l

\* The buckets a call leaves are open ones it does not hand out, perhaps counting
\* one event more, and one that starts now.
Continues(l, out, t, left) ==
  \A b \in ToSet(left) :
    \/ \E x \in ToSet(l) \ ToSet(out) : b.key = x.key /\ b.first = x.first
    \/ b.first = t

LEMMA StartsKept ==
  ASSUME AggregatorInv, NEW out, Collects(out, Keys), ToSet(out) \subseteq ToSet(buckets),
         summaries' = summaries \o out, time' \in Int, time' >= time,
         Continues(buckets, out, time', buckets'),
         time' = time => ToSet(buckets') \subseteq ToSet(buckets) \ ToSet(out)
  PROVE  StartsOrdered' /\ OneStart(summaries)' /\ summaries' \in Seq(Buckets(Keys))
<1>1. /\ summaries' \in Seq(Buckets(Keys)) /\ OneStart(summaries')
      /\ ToSet(summaries') = ToSet(summaries) \union ToSet(out)
  BY StartsApart
<1>2. /\ ToSet(buckets) \subseteq Buckets(Keys) /\ ToSet(summaries) \subseteq Buckets(Keys)
      /\ \A x \in Buckets(Keys) : x.first \in Int
  <2>1. buckets \in Seq(Buckets(Keys)) /\ summaries \in Seq(Buckets(Keys))
    BY DEF AggregatorInv, Collects
  <2>2. ToSet(buckets) \subseteq Buckets(Keys) /\ ToSet(summaries) \subseteq Buckets(Keys)
    BY <2>1, ToSetFacts
  <2> QED
    BY <2>2 DEF Buckets
<1>3. \A x, y \in ToSet(buckets) : x.key = y.key => x = y
  BY ToSetFacts DEF AggregatorInv, Collects, OneEach
<1>4. time \in Int /\ StartsOrdered
  BY DEF AggregatorInv
<1>5. \A b \in ToSet(buckets') : b.first <= time'
  <2> SUFFICES ASSUME NEW b \in ToSet(buckets') PROVE b.first <= time'
    OBVIOUS
  <2>1. CASE \E x \in ToSet(buckets) \ ToSet(out) : b.key = x.key /\ b.first = x.first
    BY <1>2, <1>4, <2>1 DEF StartsOrdered
  <2>2. CASE b.first = time'
    BY <2>2
  <2> QED
    BY <2>1, <2>2 DEF Continues
<1>6. \A s \in ToSet(summaries') : s.first <= time /\ s.first <= time' /\ s.first \in Int
  BY <1>1, <1>2, <1>4 DEF StartsOrdered
<1>7. ASSUME NEW s \in ToSet(summaries'), NEW b \in ToSet(buckets'), s.key = b.key
      PROVE  s.first < b.first
  <2>1. ASSUME NEW x \in ToSet(buckets) \ ToSet(out), b.key = x.key, b.first = x.first
        PROVE  s.first < b.first
    <3>1. s \notin ToSet(out)
      BY <1>3, <1>7, <2>1
    <3> QED
      BY <1>1, <1>4, <1>7, <2>1, <3>1 DEF StartsOrdered
  <2>2. CASE b.first = time' /\ time' # time
    BY <1>4, <1>6, <2>2
  <2>3. CASE time' = time
    BY <2>1, <2>3
  <2> QED
    BY <2>1, <2>2, <2>3 DEF Continues
<1> QED
  BY <1>1, <1>5, <1>6, <1>7 DEF StartsOrdered, OneStart

LEMMA AggregatorStarts == AggregatorInit => AggregatorInv
<1> SUFFICES ASSUME AggregatorInit PROVE AggregatorInv
  OBVIOUS
<1>1. \A k : Counted(<<>>, k) = 0
  <2>1. <<>> \in Seq({})
    OBVIOUS
  <2> QED
    BY <2>1, CountedSteps
<1>2. ToSet(<<>>) = {} /\ Len(<<>>) = 0 /\ <<>> \in Seq(Buckets(Keys))
  BY DEF ToSet
<1>3. OneEach(<<>>) /\ OneStart(<<>>)
  BY <1>2 DEF OneEach, OneStart
<1>4. CountsConserved
  BY <1>1 DEF AggregatorInit, CountsConserved
<1> QED
  BY <1>2, <1>3, <1>4 DEF AggregatorInit, AggregatorInv, Collects, StartsOrdered

\* The counts after a call that hands out `out`.
LEMMA CountsAfter ==
  ASSUME AggregatorInv, NEW out \in Seq(Buckets(Keys)), summaries' = summaries \o out,
         Collects(buckets', Keys), counted' \in [Keys -> Nat],
         \A j \in Keys : Counted(out, j) + Counted(buckets', j) - Counted(buckets, j)
                           = counted'[j] - counted[j]
  PROVE  CountsConserved'
<1> SUFFICES ASSUME NEW j \in Keys
             PROVE  counted'[j] = Counted(summaries', j) + Counted(buckets', j)
  BY DEF CountsConserved
<1>1. counted[j] = Counted(summaries, j) + Counted(buckets, j)
  BY DEF AggregatorInv, CountsConserved
<1>2. Counted(summaries', j) = Counted(summaries, j) + Counted(out, j)
  BY CountedConcat DEF AggregatorInv
<1>3. /\ Counted(summaries, j) \in Nat /\ Counted(out, j) \in Nat
      /\ Counted(buckets, j) \in Nat /\ Counted(buckets', j) \in Nat
      /\ counted[j] \in Nat /\ counted'[j] \in Nat
  BY CountedType DEF AggregatorInv, Collects
<1>4. Counted(out, j) + Counted(buckets', j) - Counted(buckets, j) = counted'[j] - counted[j]
  OBVIOUS
<1>5. PICK u, v, w, y : /\ u = Counted(summaries, j) /\ v = Counted(buckets, j)
                        /\ w = Counted(out, j) /\ y = Counted(buckets', j)
  OBVIOUS
<1>6. PICK x, z : x = counted[j] /\ z = counted'[j]
  OBVIOUS
<1>7. /\ u \in Nat /\ v \in Nat /\ w \in Nat /\ x \in Nat /\ y \in Nat /\ z \in Nat
      /\ x = u + v /\ w + y - v = z - x
  BY <1>1, <1>3, <1>4, <1>5, <1>6, Zenon
<1>8. z = (u + w) + y
  BY <1>7
<1> QED
  BY <1>2, <1>5, <1>6, <1>8

LEMMA ObserveKeeps == ASSUME AggregatorInv, NEW k \in Keys, Observe(k) PROVE AggregatorInv'
<1>1. PICK r : r = AddEvent(buckets, k, time')
  OBVIOUS
<1>2. /\ time \in Int /\ time' = time + 1 /\ time' \in Int /\ time' > time /\ time' >= time
      /\ Collects(buckets, Keys)
      /\ buckets' = r.buckets /\ summaries' = summaries \o r.emitted
      /\ counted' = [counted EXCEPT ![k] = @ + 1]
  BY <1>1 DEF Observe, AggregatorInv
<1>3. /\ Collects(buckets', Keys) /\ r.emitted \in Seq(Buckets(Keys))
      /\ AddCase(buckets, k, time', r)
  BY <1>1, <1>2, AddCollects
<1>4. counted' \in [Keys -> Nat] /\ \A j \in Keys : counted'[j] = counted[j] + IF j = k THEN 1 ELSE 0
  BY <1>2 DEF AggregatorInv
<1>5. CountsConserved'
  <2>1. ASSUME NEW j \in Keys
        PROVE  Counted(r.emitted, j) + Counted(buckets', j) - Counted(buckets, j)
                 = counted'[j] - counted[j]
    <3>1. Counted(r.emitted, j) + Counted(buckets', j) = Counted(buckets, j) + IF j = k THEN 1 ELSE 0
      BY <1>1, <1>2, AddCounts
    <3>2. /\ Counted(r.emitted, j) \in Nat /\ Counted(buckets, j) \in Nat
          /\ Counted(buckets', j) \in Nat /\ counted[j] \in Nat
      BY <1>2, <1>3, CountedType DEF AggregatorInv, Collects
    <3> QED
      BY <1>4, <3>1, <3>2
  <2> QED
    BY <1>2, <1>3, <1>4, <2>1, CountsAfter
<1>6. /\ Collects(r.emitted, Keys) /\ ToSet(r.emitted) \subseteq ToSet(buckets)
      /\ Continues(buckets, r.emitted, time', buckets')
  <2>1. /\ ToSet(<<>>) = {} /\ \A x : ToSet(<<x>>) = {x}
        /\ OneEach(<<>>) /\ \A x : OneEach(<<x>>)
    BY DEF ToSet, OneEach
  <2>2. Bucket(k, time').first = time'
    BY DEF Bucket
  <2>3. \A x \in ToSet(buckets) : /\ Counting(x, time').key = x.key
                                  /\ Counting(x, time').first = x.first
    <3> SUFFICES ASSUME NEW x \in ToSet(buckets)
                 PROVE  /\ Counting(x, time').key = x.key
                        /\ Counting(x, time').first = x.first
      OBVIOUS
    <3>1. x \in Buckets(Keys)
      BY <1>2, ToSetFacts DEF Collects
    <3> QED
      BY <3>1 DEF Counting, Buckets
  <2>4. CASE r.emitted = <<>>
    <3>1. \A b \in ToSet(buckets') :
            \/ \E x \in ToSet(buckets) : b.key = x.key /\ b.first = x.first
            \/ b.first = time'
      BY <1>2, <1>3, <2>1, <2>2, <2>3, <2>4 DEF AddCase
    <3> QED
      BY <1>3, <2>1, <2>4, <3>1 DEF Continues, Collects
  <2>5. CASE r.emitted # <<>>
    <3>1. PICK x \in ToSet(buckets) :
            /\ r.emitted = <<x>>
            /\ ToSet(r.buckets) = (ToSet(buckets) \ {x}) \union {Bucket(k, time')}
      BY <1>3, <2>5 DEF AddCase
    <3> QED
      BY <1>2, <1>3, <2>1, <2>2, <3>1 DEF Continues, Collects
  <2> QED
    BY <2>4, <2>5
<1>7. StartsOrdered' /\ OneStart(summaries)' /\ summaries' \in Seq(Buckets(Keys))
  <2>1. PICK out : out = r.emitted
    OBVIOUS
  <2>2. /\ Collects(out, Keys) /\ ToSet(out) \subseteq ToSet(buckets)
        /\ Continues(buckets, out, time', buckets')
        /\ summaries' = summaries \o out /\ time' # time
    BY <1>2, <1>6, <2>1
  <2> QED
    BY <1>2, <2>2, StartsKept
<1> QED
  BY <1>2, <1>3, <1>4, <1>5, <1>7 DEF AggregatorInv, Collects, Buckets, OneEach

LEMMA FlushAtKeeps ==
  ASSUME AggregatorInv, NEW t \in Int, NEW force \in BOOLEAN, FlushAt(t, force)
  PROVE  AggregatorInv'
<1>1. PICK r : r = Flush(buckets, t, force)
  OBVIOUS
<1>2. PICK L : L = Leaving(buckets, t, force)
  OBVIOUS
<1>3. /\ time' = time /\ counted' = counted /\ time \in Int /\ Collects(buckets, Keys)
      /\ counted \in [Keys -> Nat]
      /\ buckets' = r.buckets /\ summaries' = summaries \o r.emitted
  BY <1>1 DEF FlushAt, AggregatorInv
<1>4. /\ Collects(buckets', Keys) /\ Collects(r.emitted, Keys)
      /\ ToSet(buckets') = ToSet(buckets) \ L /\ ToSet(r.emitted) = L
      /\ L \subseteq ToSet(buckets)
  BY <1>1, <1>2, <1>3, FlushCollects
<1>5. CountsConserved'
  <2>1. ASSUME NEW j \in Keys
        PROVE  Counted(r.emitted, j) + Counted(buckets', j) - Counted(buckets, j)
                 = counted'[j] - counted[j]
    <3>1. Counted(r.emitted, j) + Counted(buckets', j) = Counted(buckets, j)
      BY <1>1, <1>3, FlushCounts
    <3>2. /\ Counted(r.emitted, j) \in Nat /\ Counted(buckets', j) \in Nat
          /\ Counted(buckets, j) \in Nat
          /\ counted[j] \in Nat /\ counted'[j] \in Nat /\ counted'[j] = counted[j]
      BY <1>3, <1>4, CountedType DEF Collects
    <3>3. PICK u, v, w : /\ u = Counted(r.emitted, j) /\ v = Counted(buckets', j)
                         /\ w = Counted(buckets, j)
      OBVIOUS
    <3>4. u \in Nat /\ v \in Nat /\ w \in Nat /\ u + v = w
      BY <3>1, <3>2, <3>3, Zenon
    <3>5. PICK x, y : x = counted'[j] /\ y = counted[j]
      OBVIOUS
    <3>6. u + v - w = x - y
      BY <3>2, <3>4, <3>5
    <3> QED
      BY <3>3, <3>5, <3>6, Zenon
  <2>2. r.emitted \in Seq(Buckets(Keys))
    BY <1>4 DEF Collects
  <2> QED
    BY <1>3, <1>4, <2>1, <2>2, CountsAfter
<1>6. Continues(buckets, r.emitted, time', buckets')
  BY <1>4 DEF Continues
<1>7. StartsOrdered' /\ OneStart(summaries)' /\ summaries' \in Seq(Buckets(Keys))
  <2>1. PICK out : out = r.emitted
    OBVIOUS
  <2>2. /\ Collects(out, Keys) /\ ToSet(out) \subseteq ToSet(buckets)
        /\ Continues(buckets, out, time', buckets')
        /\ summaries' = summaries \o out /\ time' \in Int /\ time' >= time
        /\ ToSet(buckets') \subseteq ToSet(buckets) \ ToSet(out)
    BY <1>3, <1>4, <1>6, <2>1
  <2> QED
    BY <2>2, StartsKept
<1> QED
  BY <1>3, <1>4, <1>5, <1>7 DEF AggregatorInv, Collects, Buckets, OneEach

LEMMA AggregatorSteps == AggregatorInv /\ [AggregatorNext]_aggregatorVars => AggregatorInv'
<1> SUFFICES ASSUME AggregatorInv, [AggregatorNext]_aggregatorVars PROVE AggregatorInv'
  OBVIOUS
<1>1. ASSUME NEW k \in Keys, Observe(k) PROVE AggregatorInv'
  BY <1>1, ObserveKeeps
<1>2. ASSUME NEW d \in 0..FlushLag, FlushAt(time - d, FALSE) PROVE AggregatorInv'
  <2>1. time - d \in Int
    BY DEF AggregatorInv
  <2> QED
    BY <1>2, <2>1, FlushAtKeeps
<1>3. CASE FlushAt(time, TRUE)
  <2>1. time \in Int
    BY DEF AggregatorInv
  <2> QED
    BY <1>3, <2>1, FlushAtKeeps
<1>4. CASE Idle
  <2>1. /\ time' = time + 1 /\ buckets' = buckets /\ summaries' = summaries /\ counted' = counted
        /\ time \in Int
    BY <1>4 DEF Idle, AggregatorInv
  <2>2. /\ \A b \in ToSet(buckets) : b.first \in Int
        /\ \A s \in ToSet(summaries) : s.first \in Int
    <3>1. ToSet(buckets) \subseteq Buckets(Keys) /\ ToSet(summaries) \subseteq Buckets(Keys)
      BY ToSetFacts DEF AggregatorInv, Collects
    <3> QED
      BY <3>1 DEF Buckets
  <2>3. StartsOrdered'
    BY <2>1, <2>2 DEF AggregatorInv, StartsOrdered
  <2>4. CountsConserved'
    BY <2>1 DEF AggregatorInv, CountsConserved
  <2> QED
    BY <2>1, <2>3, <2>4 DEF AggregatorInv, Collects, Buckets, OneEach, OneStart
<1>5. CASE UNCHANGED aggregatorVars
  <2>1. time' = time /\ buckets' = buckets /\ summaries' = summaries /\ counted' = counted
    BY <1>5 DEF aggregatorVars
  <2> QED
    BY <2>1 DEF AggregatorInv, Collects, Buckets, OneEach, OneStart, StartsOrdered,
                CountsConserved
<1> QED
  BY <1>1, <1>2, <1>3, <1>4, <1>5 DEF AggregatorNext

LEMMA AggregatorAlways == AggregatorSpec => []AggregatorInv
BY AggregatorStarts, AggregatorSteps, PTL DEF AggregatorSpec

\* For every key, the counts of the summaries handed out and of the open bucket
\* add up to the events added, over window ends, flushes and evictions.
THEOREM AggregatorConserves == AggregatorSpec => []CountsConserved
<1>1. AggregatorInv => CountsConserved
  BY DEF AggregatorInv
<1> QED
  BY <1>1, AggregatorAlways, PTL

\* No two summaries share key, first and last observation.
THEOREM AggregatorIdentities == AggregatorSpec => []SummaryIdentitiesDistinct
<1>1. AggregatorInv => SummaryIdentitiesDistinct
  <2> SUFFICES ASSUME AggregatorInv PROVE SummaryIdentitiesDistinct
    OBVIOUS
  <2>1. DOMAIN summaries = 1..Len(summaries)
    BY DEF AggregatorInv
  <2> QED
    BY <2>1 DEF AggregatorInv, OneStart, SummaryIdentitiesDistinct
<1> QED
  BY <1>1, AggregatorAlways, PTL
=============================================================================
