------------------------------ MODULE FoldFacts ------------------------------
(***************************************************************************)
(* What the folds of the community modules compute, for finite sets: the   *)
(* recursion they are defined by does define a function, so that a fold    *)
(* can be unfolded.  The operators folded are parameters of this module,   *)
(* which is instantiated once for each of them; p and q stand for what     *)
(* they depend on.                                                         *)
(*                                                                         *)
(* Proofs by induction use sets of numbers (NatInduction says it of an     *)
(* operator, which no backend can instantiate).                            *)
(***************************************************************************)
EXTENDS Integers, FiniteSets, Folds, FiniteSetTheorems, WellFoundedInduction, TLAPS

CONSTANTS op(_, _, _), f(_, _), choose(_)

FoldOf(p, q, base, S) ==
  MapThenFoldSet(LAMBDA x, y : op(p, x, y), base, LAMBDA i : f(q, i), choose, S)

\* choose picks an element of every subset.
Chooses(S) == \A T \in SUBSET S : T # {} => choose(T) \in T

Next(g, p, q, T) == op(p, f(q, choose(T)), g[T \ {choose(T)}])

Iterates(g, p, q, base, S) ==
  g = [T \in SUBSET S |-> IF T = {} THEN base ELSE Next(g, p, q, T)]

-----------------------------------------------------------------------------
Below == {p \in Nat \X Nat : p[1] < p[2]}

\* Induction over the natural numbers.
THEOREM Induction ==
  ASSUME NEW N, 0 \in N, \A n \in Nat : n \in N => n + 1 \in N
  PROVE  \A n \in Nat : n \in N
<1> DEFINE Left == Nat \ N
<1>1. SUFFICES ASSUME Left # {} PROVE FALSE
  OBVIOUS
<1>2. Below = OpToRel(<, Nat)
  BY Zenon DEF Below, OpToRel
<1>3. IsWellFoundedOn(Below, Nat)
  BY <1>2, NatLessThanWellFounded, Zenon
<1>4. Left \subseteq Nat
  OBVIOUS
<1>5. PICK m \in Left : \A k \in Left : ~(<<k, m>> \in Below)
  BY <1>1, <1>3, <1>4, WFMin, Zenon
<1>6. m # 0 /\ m \in Nat
  OBVIOUS
<1>7. m - 1 \in Nat /\ <<m - 1, m>> \in Below
  BY <1>6 DEF Below
<1>8. m - 1 \in N
  BY <1>5, <1>7
<1> QED
  BY <1>6, <1>7, <1>8

\* A non-empty set of numbers up to n has a least and a greatest element.
THEOREM Bounds ==
  ASSUME NEW n \in Nat, NEW T \in SUBSET (0..n), T # {}
  PROVE  /\ \E m \in T : \A i \in T : i <= m
         /\ \E m \in T : \A i \in T : m <= i
<1> DEFINE HasBoth(U) == /\ \E m \in U : \A i \in U : i <= m
                         /\ \E m \in U : \A i \in U : m <= i
           N == {k \in Nat : \A U \in SUBSET (0..k) : U # {} => HasBoth(U)}
<1>1. 0 \in N
  <2>1. ASSUME NEW U \in SUBSET (0..0), U # {} PROVE U = {0}
    <3>1. \A i \in U : i = 0
      OBVIOUS
    <3> QED
      BY <2>1, <3>1
  <2>2. HasBoth({0})
    OBVIOUS
  <2> QED
    BY <2>1, <2>2
<1>2. ASSUME NEW k \in Nat, k \in N PROVE k + 1 \in N
  <2> SUFFICES ASSUME NEW U \in SUBSET (0..(k + 1)), U # {} PROVE HasBoth(U)
    OBVIOUS
  <2> DEFINE W == U \ {k + 1}
  <2>1. W \in SUBSET (0..k)
    OBVIOUS
  <2>2. CASE W = {}
    <3>1. U = {k + 1}
      BY <2>2
    <3> QED
      BY <3>1
  <2>3. CASE W # {}
    <3>1. HasBoth(W)
      BY <1>2, <2>1, <2>3
    <3>2. PICK lo \in W : \A i \in W : lo <= i
      BY <3>1
    <3>3. PICK hi \in W : \A i \in W : i <= hi
      BY <3>1
    <3>4. \A i \in U : lo <= i
      BY <2>1, <3>2
    <3>5. \A i \in U : i <= IF k + 1 \in U THEN k + 1 ELSE hi
      BY <2>1, <3>3
    <3> QED
      BY <3>2, <3>3, <3>4, <3>5
  <2> QED
    BY <2>2, <2>3
<1>3. n \in N
  <2> HIDE DEF N
  <2> QED
    BY <1>1, <1>2, Induction
<1> QED
  BY <1>3

-----------------------------------------------------------------------------
Smaller(g, p, q, base, S, n) ==
  /\ DOMAIN g = SUBSET S
  /\ \A T \in SUBSET S : Cardinality(T) <= n =>
       g[T] = IF T = {} THEN base ELSE Next(g, p, q, T)

\* The recursion defines a function.
LEMMA Exists ==
  ASSUME NEW p, NEW q, NEW base, NEW S, IsFiniteSet(S), Chooses(S)
  PROVE  \E g : Iterates(g, p, q, base, S)
<1> DEFINE N == {n \in Nat : \E g : Smaller(g, p, q, base, S, n)}
<1>1. 0 \in N
  <2> DEFINE g == [T \in SUBSET S |-> base]
  <2>1. Smaller(g, p, q, base, S, 0)
    <3>1. ASSUME NEW T \in SUBSET S, Cardinality(T) <= 0 PROVE T = {}
      BY <3>1, FS_EmptySet, FS_Subset, FS_CardinalityType
    <3> QED
      BY <3>1 DEF Smaller
  <2> QED
    BY <2>1
<1>2. ASSUME NEW n \in Nat, n \in N PROVE n + 1 \in N
  <2>1. PICK g : Smaller(g, p, q, base, S, n)
    BY <1>2
  <2> DEFINE h == [T \in SUBSET S |-> IF T = {} THEN base ELSE Next(g, p, q, T)]
  <2>2. ASSUME NEW T \in SUBSET S, Cardinality(T) <= n PROVE h[T] = g[T]
    BY <2>1, <2>2 DEF Smaller
  <2>3. ASSUME NEW T \in SUBSET S, Cardinality(T) <= n + 1, T # {}
        PROVE  h[T] = Next(h, p, q, T)
    <3> DEFINE rest == T \ {choose(T)}
    <3>1. choose(T) \in T /\ rest \in SUBSET S
      BY <2>3 DEF Chooses
    <3>2. Cardinality(rest) <= n
      <4>1. IsFiniteSet(T) /\ Cardinality(T) \in Nat
        BY FS_Subset, FS_CardinalityType
      <4>2. Cardinality(rest) = Cardinality(T) - 1
        BY <3>1, <4>1, FS_RemoveElement
      <4> QED
        BY <2>3, <4>1, <4>2
    <3>3. h[rest] = g[rest]
      BY <3>1, <3>2, <2>2
    <3>4. h[T] = Next(g, p, q, T)
      BY <2>3
    <3> QED
      BY <3>3, <3>4 DEF Next
  <2>4. h[{}] = base
    OBVIOUS
  <2>5. Smaller(h, p, q, base, S, n + 1)
    BY <2>3, <2>4 DEF Smaller
  <2> QED
    BY <2>5
<1>3. Cardinality(S) \in Nat
  BY FS_CardinalityType
<1>4. Cardinality(S) \in N
  <2> HIDE DEF N
  <2> QED
    BY <1>1, <1>2, <1>3, Induction
<1>5. PICK g : Smaller(g, p, q, base, S, Cardinality(S))
  BY <1>4
<1>6. \A T \in SUBSET S : Cardinality(T) <= Cardinality(S)
  BY FS_Subset
<1> DEFINE h == [T \in SUBSET S |-> IF T = {} THEN base ELSE Next(g, p, q, T)]
<1>7. \A T \in SUBSET S : h[T] = g[T]
  BY <1>5, <1>6 DEF Smaller
<1>8. \A T \in SUBSET S : T # {} => Next(h, p, q, T) = Next(g, p, q, T)
  BY <1>7 DEF Next
<1>9. h = [T \in SUBSET S |-> IF T = {} THEN base ELSE Next(h, p, q, T)]
  BY <1>8
<1> QED
  BY <1>9 DEF Iterates

\* It defines only one, on the smaller of two sets and of all that f agrees on.
LEMMA Agree ==
  ASSUME NEW p, NEW q, NEW r, NEW base, NEW S, IsFiniteSet(S), Chooses(S), NEW T \in SUBSET S,
         NEW g, Iterates(g, p, q, base, S), NEW h, Iterates(h, p, r, base, T),
         \A i \in T : f(q, i) = f(r, i)
  PROVE  g[T] = h[T]
<1> DEFINE N == {n \in Nat : \A U \in SUBSET T : Cardinality(U) <= n => g[U] = h[U]}
<1>0. g[{}] = base /\ h[{}] = base
  BY DEF Iterates
<1>1. 0 \in N
  <2>1. ASSUME NEW U \in SUBSET T, Cardinality(U) <= 0 PROVE U = {}
    BY <2>1, FS_EmptySet, FS_Subset, FS_CardinalityType
  <2> QED
    BY <1>0, <2>1
<1>2. ASSUME NEW n \in Nat, n \in N PROVE n + 1 \in N
  <2> SUFFICES ASSUME NEW U \in SUBSET T, Cardinality(U) <= n + 1, U # {} PROVE g[U] = h[U]
    BY <1>0
  <2> DEFINE rest == U \ {choose(U)}
  <2>1. choose(U) \in U /\ rest \in SUBSET T
    BY DEF Chooses
  <2>2. Cardinality(rest) <= n
    <3>1. IsFiniteSet(U) /\ Cardinality(U) \in Nat
      BY FS_Subset, FS_CardinalityType
    <3>2. Cardinality(rest) = Cardinality(U) - 1
      BY <2>1, <3>1, FS_RemoveElement
    <3> QED
      BY <3>1, <3>2
  <2>3. g[rest] = h[rest]
    BY <1>2, <2>1, <2>2
  <2>4. f(q, choose(U)) = f(r, choose(U))
    BY <2>1
  <2>5. g[U] = Next(g, p, q, U) /\ h[U] = Next(h, p, r, U)
    BY DEF Iterates
  <2> QED
    BY <2>3, <2>4, <2>5 DEF Next
<1>3. IsFiniteSet(T) /\ Cardinality(T) \in Nat
  BY FS_Subset, FS_CardinalityType
<1>4. Cardinality(T) \in N
  <2> HIDE DEF N
  <2> QED
    BY <1>1, <1>2, <1>3, Induction
<1> QED
  BY <1>3, <1>4

\* The fold is the value of that function.
LEMMA FoldIs ==
  ASSUME NEW p, NEW q, NEW base, NEW S, IsFiniteSet(S), Chooses(S)
  PROVE  \E g : Iterates(g, p, q, base, S) /\ FoldOf(p, q, base, S) = g[S]
<1> DEFINE g == CHOOSE g : Iterates(g, p, q, base, S)
<1>1. Iterates(g, p, q, base, S)
  BY Exists
<1>2. FoldOf(p, q, base, S) = g[S]
  BY DEF FoldOf, MapThenFoldSet, Iterates, Next
<1> QED
  BY <1>1, <1>2

\* The fold of the empty set.
THEOREM Empty ==
  ASSUME NEW p, NEW q, NEW base
  PROVE  FoldOf(p, q, base, {}) = base
<1>1. IsFiniteSet({}) /\ Chooses({})
  BY FS_EmptySet DEF Chooses
<1>2. PICK g : Iterates(g, p, q, base, {}) /\ FoldOf(p, q, base, {}) = g[{}]
  BY <1>1, FoldIs
<1> QED
  BY <1>2 DEF Iterates

\* One step of a fold.
THEOREM Unfold ==
  ASSUME NEW p, NEW q, NEW base, NEW S, IsFiniteSet(S), Chooses(S), S # {},
         NEW x, x = choose(S)
  PROVE  FoldOf(p, q, base, S) = op(p, f(q, x), FoldOf(p, q, base, S \ {x}))
<1> DEFINE T == S \ {x}
<1>1. PICK g : Iterates(g, p, q, base, S) /\ FoldOf(p, q, base, S) = g[S]
  BY FoldIs
<1>2. T \in SUBSET S /\ IsFiniteSet(T) /\ Chooses(T)
  BY FS_Subset DEF Chooses
<1>3. PICK h : Iterates(h, p, q, base, T) /\ FoldOf(p, q, base, T) = h[T]
  BY <1>2, FoldIs
<1>4. g[T] = h[T]
  BY <1>1, <1>2, <1>3, Agree
<1>5. g[S] = Next(g, p, q, S)
  BY <1>1 DEF Iterates
<1> QED
  BY <1>1, <1>3, <1>4, <1>5 DEF Next

\* The same without saying which element is folded first.
THEOREM SomeFirst ==
  ASSUME NEW p, NEW q, NEW base, NEW S, IsFiniteSet(S), Chooses(S), S # {}
  PROVE  \E x \in S : FoldOf(p, q, base, S) = op(p, f(q, x), FoldOf(p, q, base, S \ {x}))
<1>1. choose(S) \in S
  BY DEF Chooses
<1> QED
  BY <1>1, Unfold

\* A fold depends only on the values of f on its set.
THEOREM Congruence ==
  ASSUME NEW p, NEW q, NEW r, NEW base, NEW S, IsFiniteSet(S), Chooses(S),
         \A i \in S : f(q, i) = f(r, i)
  PROVE  FoldOf(p, q, base, S) = FoldOf(p, r, base, S)
<1>1. PICK g : Iterates(g, p, q, base, S) /\ FoldOf(p, q, base, S) = g[S]
  BY FoldIs
<1>2. PICK h : Iterates(h, p, r, base, S) /\ FoldOf(p, r, base, S) = h[S]
  BY FoldIs
<1> QED
  BY <1>1, <1>2, Agree

\* What the base has and every step keeps, the fold has; V is the set of the
\* values that have it.
THEOREM Stays ==
  ASSUME NEW p, NEW q, NEW base, NEW S, IsFiniteSet(S), Chooses(S), NEW V, base \in V,
         \A i \in S : \A y \in V : op(p, f(q, i), y) \in V
  PROVE  FoldOf(p, q, base, S) \in V
<1>1. PICK g : Iterates(g, p, q, base, S) /\ FoldOf(p, q, base, S) = g[S]
  BY FoldIs
<1> DEFINE N == {n \in Nat : \A T \in SUBSET S : Cardinality(T) <= n => g[T] \in V}
<1>2. 0 \in N
  <2>1. ASSUME NEW T \in SUBSET S, Cardinality(T) <= 0 PROVE T = {}
    BY <2>1, FS_EmptySet, FS_Subset, FS_CardinalityType
  <2>2. g[{}] = base
    BY <1>1 DEF Iterates
  <2> QED
    BY <2>1, <2>2
<1>3. ASSUME NEW n \in Nat, n \in N PROVE n + 1 \in N
  <2>1. ASSUME NEW T \in SUBSET S, Cardinality(T) <= n + 1, T # {} PROVE g[T] \in V
    <3> DEFINE rest == T \ {choose(T)}
    <3>1. choose(T) \in T /\ choose(T) \in S /\ rest \in SUBSET S
      BY <2>1 DEF Chooses
    <3>2. Cardinality(rest) <= n
      <4>1. IsFiniteSet(T) /\ Cardinality(T) \in Nat
        BY FS_Subset, FS_CardinalityType
      <4>2. Cardinality(rest) = Cardinality(T) - 1
        BY <3>1, <4>1, FS_RemoveElement
      <4> QED
        BY <2>1, <4>1, <4>2
    <3>3. g[rest] \in V
      BY <1>3, <3>1, <3>2
    <3>4. g[T] = op(p, f(q, choose(T)), g[rest])
      BY <1>1, <2>1 DEF Iterates, Next
    <3> QED
      BY <3>1, <3>3, <3>4
  <2>2. g[{}] \in V
    BY <1>1 DEF Iterates
  <2>3. \A T \in SUBSET S : Cardinality(T) <= n + 1 => g[T] \in V
    BY <2>1, <2>2
  <2> QED
    BY <2>3
<1>4. Cardinality(S) \in Nat
  BY FS_CardinalityType
<1>5. Cardinality(S) \in N
  <2> HIDE DEF N
  <2> QED
    BY <1>2, <1>3, <1>4, Induction
<1> QED
  BY <1>1, <1>5
=============================================================================
