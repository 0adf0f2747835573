---------------------------- MODULE FoldInduction ----------------------------
(***************************************************************************)
(* Induction over the natural numbers and over the folds of sequences.     *)
(* The library states both for an operator that is a parameter of the      *)
(* theorem; here the induction is over a set, and the folded operator is   *)
(* the parameter of the module, which is instantiated for each fold.       *)
(***************************************************************************)
EXTENDS Integers, FiniteSetTheorems, TLAPS

CONSTANT Op(_, _, _)  \* value so far, next element, what both depend on

LEMMA IntervalsFinite ==
  ASSUME NEW T \in SUBSET Nat
  PROVE  {0..n : n \in T} \subseteq FiniteSubsetsOf(Nat)
<1>1. \A n \in T : 0..n \in SUBSET Nat /\ IsFiniteSet(0..n)
  BY FS_Interval
<1> QED
  BY <1>1 DEF FiniteSubsetsOf

\* Intervals from 0 are well-founded by inclusion, so the naturals are by <.
LEMMA LeastElement ==
  ASSUME NEW T \in SUBSET Nat, T # {}
  PROVE  \E m \in T : \A n \in T : m <= n
<1> DEFINE U == {0..n : n \in T}
<1>1. U \subseteq FiniteSubsetsOf(Nat)
  BY IntervalsFinite
<1>2. U # {}
  OBVIOUS
<1>3. PICK x \in U : \A y \in U : ~ (<<y, x>> \in StrictSubsetOrdering(Nat))
  <2> HIDE DEF U
  <2> QED
    BY <1>1, <1>2, FS_StrictSubsetOrderingWellFounded, WFMin
<1>4. PICK m \in T : x = 0..m
  OBVIOUS
<1>5. ASSUME NEW n \in T, n < m PROVE FALSE
  <2>1. <<0..n, x>> \in StrictSubsetOrdering(Nat)
    BY <1>4, <1>5 DEF StrictSubsetOrdering
  <2> QED
    BY <1>3, <2>1
<1> QED
  BY <1>5

\* A set with 0 that is closed under the successor has every natural number.
LEMMA InductionOnSet ==
  ASSUME NEW S, 0 \in S, \A n \in S \cap Nat : n + 1 \in S
  PROVE  Nat \subseteq S
<1> DEFINE T == Nat \ S
<1> SUFFICES ASSUME T # {} PROVE FALSE
  OBVIOUS
<1>1. PICK m \in T : \A n \in T : m <= n
  <2>1. T \in SUBSET Nat
    OBVIOUS
  <2> HIDE DEF T
  <2> QED
    BY <2>1, LeastElement
<1>2. m - 1 \in Nat /\ m - 1 \in S
  BY <1>1
<1> QED
  BY <1>1, <1>2

-----------------------------------------------------------------------------
Largest(S) == CHOOSE x \in S : \A y \in S : x >= y

\* What FoldLeft computes for every set of positions
Step(r, T, base, s, c) ==
  IF T = {} THEN base ELSE Op(r[T \ {Largest(T)}], s[Largest(T)], c)
Solves(r, D, base, s, c) == r = [T \in SUBSET D |-> Step(r, T, base, s, c)]
Iter(base, s, c) == CHOOSE iter : Solves(iter, DOMAIN s, base, s, c)
Fold(base, s, c) == Iter(base, s, c)[DOMAIN s]

LEMMA LargestUpTo ==
  ASSUME NEW k \in Nat, NEW T \in SUBSET (1..k), k \in T
  PROVE  Largest(T) = k
<1>1. \A x \in T : (\A y \in T : x >= y) <=> x = k
  OBVIOUS
<1> QED
  BY <1>1 DEF Largest

\* The recursion has a solution, position by position.
LEMMA IterExists ==
  ASSUME NEW base, NEW s, NEW c, NEW n \in Nat
  PROVE  \E r : Solves(r, 1..n, base, s, c)
<1> DEFINE S == {k \in Nat : \E r : Solves(r, 1..k, base, s, c)}
<1>1. 0 \in S
  <2> DEFINE r == [T \in SUBSET (1..0) |-> base]
  <2>1. \A T \in SUBSET (1..0) : T = {}
    OBVIOUS
  <2>2. Solves(r, 1..0, base, s, c)
    BY <2>1 DEF Step, Solves
  <2> QED
    BY <2>2
<1>2. ASSUME NEW k \in S PROVE k + 1 \in S
  <2>0. k \in Nat
    OBVIOUS
  <2>1. PICK r : Solves(r, 1..k, base, s, c)
    OBVIOUS
  <2> DEFINE q == [T \in SUBSET (1..(k+1)) |->
                     IF k + 1 \in T THEN Op(r[T \ {k+1}], s[k+1], c) ELSE r[T]]
  <2>2. ASSUME NEW T \in SUBSET (1..(k+1)) PROVE q[T] = Step(q, T, base, s, c)
    <3>1. CASE k + 1 \in T
      <4>1. Largest(T) = k + 1
        BY <2>0, <3>1, LargestUpTo
      <4>2. T \ {k+1} \in SUBSET (1..(k+1)) /\ k + 1 \notin T \ {k+1}
        OBVIOUS
      <4>3. q[T \ {k+1}] = r[T \ {k+1}]
        BY <4>2
      <4> QED
        BY <3>1, <4>1, <4>3 DEF Step
    <3>2. CASE k + 1 \notin T
      <4>1. T \in SUBSET (1..k)
        BY <2>0, <3>2
      <4>2. q[T] = Step(r, T, base, s, c)
        BY <2>1, <3>2, <4>1 DEF Solves
      <4>3. CASE T = {}
        BY <4>2, <4>3 DEF Step
      <4>4. CASE T # {}
        <5>1. k + 1 \notin T \ {Largest(T)} /\ T \ {Largest(T)} \in SUBSET (1..(k+1))
          BY <3>2
        <5>2. q[T \ {Largest(T)}] = r[T \ {Largest(T)}]
          BY <5>1
        <5> QED
          BY <4>2, <4>4, <5>2 DEF Step
      <4> QED
        BY <4>3, <4>4
    <3> QED
      BY <3>1, <3>2
  <2>3. Solves(q, 1..(k+1), base, s, c)
    <3>1. [T \in SUBSET (1..(k+1)) |-> q[T]] = [T \in SUBSET (1..(k+1)) |-> Step(q, T, base, s, c)]
      <4> HIDE DEF q
      <4> QED
        BY <2>2
    <3>2. q = [T \in SUBSET (1..(k+1)) |-> q[T]]
      OBVIOUS
    <3> QED
      BY <3>1, <3>2 DEF Solves
  <2> HIDE DEF q
  <2> QED
    BY <2>0, <2>3
<1>3. Nat \subseteq S
  <2>1. \A k \in S \cap Nat : k + 1 \in S
    BY <1>2
  <2> HIDE DEF S
  <2> QED
    BY <1>1, <2>1, InductionOnSet
<1> QED
  BY <1>3

LEMMA IterSteps ==
  ASSUME NEW base, NEW s, NEW c, NEW n \in Nat, DOMAIN s = 1..n
  PROVE  /\ Iter(base, s, c)[{}] = base
         /\ \A k \in 1..n :
              Iter(base, s, c)[1..k] = Op(Iter(base, s, c)[1..(k-1)], s[k], c)
<1> DEFINE r == Iter(base, s, c)
<1>1. r = [T \in SUBSET (1..n) |-> Step(r, T, base, s, c)]
  <2>1. \E q : Solves(q, DOMAIN s, base, s, c)
    BY IterExists
  <2> QED
    BY <2>1, Zenon DEF Iter, Solves
<1>2. r[{}] = base
  <2>1. {} \in SUBSET (1..n)
    OBVIOUS
  <2>2. r[{}] = Step(r, {}, base, s, c)
    <3> HIDE DEF r
    <3> QED
      BY <1>1, <2>1
  <2> QED
    BY <2>2 DEF Step
<1>3. ASSUME NEW k \in 1..n PROVE r[1..k] = Op(r[1..(k-1)], s[k], c)
  <2>1. 1..k \in SUBSET (1..n) /\ 1..k # {} /\ (1..k) \ {k} = 1..(k-1)
    OBVIOUS
  <2>2. Largest(1..k) = k
    BY LargestUpTo
  <2>3. r[1..k] = Step(r, 1..k, base, s, c)
    <3> HIDE DEF r
    <3> QED
      BY <1>1, <2>1
  <2> HIDE DEF r
  <2> QED
    BY <2>1, <2>2, <2>3 DEF Step
<1> QED
  BY <1>2, <1>3

\* What holds before the first element and is kept by each holds at the end.
LEMMA FoldInvariant ==
  ASSUME NEW base, NEW s, NEW c, NEW n \in Nat, DOMAIN s = 1..n, NEW I,
         base \in I[0],
         \A k \in 1..n : \A x \in I[k-1] : Op(x, s[k], c) \in I[k]
  PROVE  Fold(base, s, c) \in I[n]
<1> USE DEF Fold
<1> DEFINE r == Iter(base, s, c)
           S == {k \in Nat : k <= n => r[1..k] \in I[k]}
<1>1. 0 \in S
  <2>1. 1..0 = {}
    OBVIOUS
  <2> QED
    BY <2>1, IterSteps
<1>2. ASSUME NEW k \in S \cap Nat PROVE k + 1 \in S
  <2> SUFFICES ASSUME k + 1 <= n PROVE r[1..(k+1)] \in I[k+1]
    OBVIOUS
  <2>1. k + 1 \in 1..n /\ (k + 1) - 1 = k /\ r[1..k] \in I[k]
    OBVIOUS
  <2>2. r[1..(k+1)] = Op(r[1..((k+1)-1)], s[k+1], c)
    BY <2>1, IterSteps
  <2> HIDE DEF r
  <2> QED
    BY <2>1, <2>2
<1>3. Nat \subseteq S
  <2> HIDE DEF S
  <2> QED
    BY <1>1, <1>2, InductionOnSet
<1> QED
  BY <1>3

LEMMA FoldOfNone ==
  ASSUME NEW base, NEW s, NEW c, DOMAIN s = 1..0
  PROVE  Fold(base, s, c) = base
<1>1. 0 \in Nat /\ 1..0 = {}
  OBVIOUS
<1> QED
  BY <1>1, IterSteps DEF Fold

LEMMA FoldOfOne ==
  ASSUME NEW base, NEW s, NEW c, DOMAIN s = 1..1
  PROVE  Fold(base, s, c) = Op(base, s[1], c)
<1>1. Iter(base, s, c)[{}] = base /\ Iter(base, s, c)[1..1] = Op(Iter(base, s, c)[1..(1-1)], s[1], c)
  BY IterSteps
<1>2. 1..(1-1) = {}
  OBVIOUS
<1> QED
  BY <1>1, <1>2 DEF Fold

\* A sequence is folded a part at a time.
LEMMA FoldOfParts ==
  ASSUME NEW base, NEW s, NEW t, NEW u, NEW c, NEW n \in Nat, NEW m \in Nat,
         DOMAIN s = 1..n, DOMAIN t = 1..m, DOMAIN u = 1..(n+m),
         \A i \in 1..n : u[i] = s[i], \A i \in 1..m : u[n+i] = t[i]
  PROVE  Fold(base, u, c) = Fold(Fold(base, s, c), t, c)
<1> DEFINE b == Fold(base, s, c)
           I == [k \in 0..(n+m) |-> IF k <= n THEN {Iter(base, s, c)[1..k]}
                                    ELSE {Iter(b, t, c)[1..(k-n)]}]
<1>1. base \in I[0]
  <2>1. 1..0 = {}
    OBVIOUS
  <2> QED
    BY <2>1, IterSteps
<1>2. ASSUME NEW k \in 1..(n+m), NEW x \in I[k-1] PROVE Op(x, u[k], c) \in I[k]
  <2>1. CASE k <= n
    <3>1. k \in 1..n /\ u[k] = s[k] /\ k - 1 \in 0..(n+m) /\ k - 1 <= n
      BY <2>1
    <3>2. x = Iter(base, s, c)[1..(k-1)]
      BY <3>1
    <3>3. Iter(base, s, c)[1..k] = Op(x, s[k], c)
      BY <3>1, <3>2, IterSteps
    <3> QED
      BY <2>1, <3>1, <3>3
  <2>2. CASE k > n
    <3> DEFINE j == k - n
    <3>1. j \in 1..m /\ n + j = k /\ k - 1 \in 0..(n+m) /\ j - 1 \in Nat
      BY <2>2
    <3>2. u[k] = t[j]
      BY <3>1
    <3>3. x = Iter(b, t, c)[1..(j-1)]
      <4>1. CASE k - 1 <= n
        <5>1. k - 1 = n /\ j = 1 /\ 1..(1-1) = {}
          BY <2>2, <3>1, <4>1
        <5>2. x = Iter(base, s, c)[1..n]
          BY <3>1, <5>1
        <5>3. x = b
          BY <5>2 DEF Fold
        <5>4. Iter(b, t, c)[{}] = b
          <6> HIDE DEF b
          <6> QED
            BY IterSteps
        <5> QED
          BY <5>1, <5>3, <5>4
      <4>2. CASE k - 1 > n
        <5>1. (k - 1) - n = j - 1
          BY <3>1
        <5> QED
          BY <3>1, <4>2, <5>1
      <4> QED
        BY <4>1, <4>2
    <3>4. Iter(b, t, c)[1..j] = Op(Iter(b, t, c)[1..(j-1)], t[j], c)
      <4> HIDE DEF b, j
      <4> QED
        BY <3>1, IterSteps
    <3> QED
      BY <2>2, <3>1, <3>2, <3>3, <3>4
  <2> QED
    BY <2>1, <2>2
<1>3. Fold(base, u, c) \in I[n+m]
  <2>1. n + m \in Nat
    OBVIOUS
  <2> HIDE DEF I
  <2>2. \A k \in 1..(n+m) : \A x \in I[k-1] : Op(x, u[k], c) \in I[k]
    BY <1>2
  <2> QED
    BY <1>1, <2>1, <2>2, FoldInvariant
<1>4. CASE m = 0
  <2>1. Fold(b, t, c) = b
    <3> HIDE DEF b
    <3> QED
      BY <1>4, FoldOfNone
  <2>2. Fold(base, u, c) = Iter(base, s, c)[1..n]
    BY <1>3, <1>4
  <2> QED
    BY <2>1, <2>2 DEF Fold
<1>5. CASE m # 0
  <2>1. (n + m) - n = m /\ ~(n + m <= n) /\ n + m \in 0..(n+m)
    BY <1>5
  <2>2. Fold(base, u, c) = Iter(b, t, c)[1..m]
    BY <1>3, <2>1
  <2> QED
    BY <2>2 DEF Fold
<1> QED
  BY <1>4, <1>5
=============================================================================
