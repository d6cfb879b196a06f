------------------------------ MODULE Induction ------------------------------
(***************************************************************************)
(* Induction and recursion over the natural numbers, stated of sets and    *)
(* functions so that they can be cited of any set and function.            *)
(***************************************************************************)
EXTENDS Integers, TLAPS, WellFoundedInduction, FiniteSetTheorems

\* A set of natural numbers that is not empty has a least one.
LEMMA LeastNatural ==
  ASSUME NEW T \in SUBSET Nat, T # {}
  PROVE  \E m \in T : \A k \in T : m <= k
<1> DEFINE R == {ss \in Nat \X Nat : ss[1] < ss[2]}
<1>1. IsWellFoundedOn(R, Nat)
  BY NatLessThanWellFounded DEF OpToRel
<1> HIDE DEF R
<1>2. PICK m \in T : \A k \in T : <<k, m>> \notin R
  BY <1>1, WFMin
<1>3. \A k \in T : ~ (k < m)
  BY <1>2 DEF R
<1> QED
  BY <1>3

\* What holds of 0, and of k + 1 if of k < n, holds up to n.
LEMMA UpTo ==
  ASSUME NEW n \in Nat, NEW T, 0 \in T, \A k \in 0..(n - 1) : k \in T => k + 1 \in T
  PROVE  0..n \subseteq T
<1> DEFINE Out == {k \in 0..n : k \notin T}
<1> SUFFICES ASSUME Out # {} PROVE FALSE
  OBVIOUS
<1>1. PICK m \in Out : \A k \in Out : m <= k
  <2>1. Out \in SUBSET Nat
    OBVIOUS
  <2> HIDE DEF Out
  <2> QED
    BY <2>1, LeastNatural
<1>2. m # 0 /\ m - 1 \in 0..(n - 1) /\ m - 1 \notin Out
  BY <1>1
<1>3. (m - 1) + 1 \in T
  BY <1>2
<1> QED
  BY <1>1, <1>3

\* The same for all natural numbers.
LEMMA ForAllNaturals ==
  ASSUME NEW T, 0 \in T, \A k \in Nat : k \in T => k + 1 \in T
  PROVE  Nat \subseteq T
<1> SUFFICES ASSUME NEW n \in Nat PROVE n \in T
  OBVIOUS
<1>1. 0..n \subseteq T
  BY UpTo
<1> QED
  BY <1>1

\* A function may be defined by iterating a step from a first value.
LEMMA Iteration ==
  ASSUME NEW S, NEW first \in S, NEW n \in Nat, NEW step \in [1..n -> [S -> S]]
  PROVE  \E f \in [0..n -> S] : f[0] = first /\ \A k \in 1..n : f[k] = step[k][f[k-1]]
<1> DEFINE Good(m, f) == f[0] = first /\ \A k \in 1..m : f[k] = step[k][f[k-1]]
           T == {m \in 0..n : \E f \in [0..m -> S] : Good(m, f)}
<1>1. 0 \in T
  <2> DEFINE g == [k \in 0..0 |-> first]
  <2>1. g \in [0..0 -> S] /\ Good(0, g)
    OBVIOUS
  <2> HIDE DEF g, Good
  <2> QED
    BY <2>1
<1>2. ASSUME NEW m \in 0..(n - 1), m \in T
      PROVE  m + 1 \in T
  <2>1. PICK f \in [0..m -> S] : Good(m, f)
    BY <1>2
  <2> DEFINE g == [k \in 0..(m + 1) |-> IF k = m + 1 THEN step[m + 1][f[m]] ELSE f[k]]
  <2>2. g \in [0..(m + 1) -> S]
    <3>1. m + 1 \in 1..n /\ f[m] \in S
      OBVIOUS
    <3> QED
      BY <3>1
  <2>3. g[0] = first
    BY <2>1
  <2>4. ASSUME NEW k \in 1..(m + 1)
        PROVE  g[k] = step[k][g[k-1]]
    BY <2>1
  <2>5. Good(m + 1, g)
    BY <2>3, <2>4
  <2> HIDE DEF g, Good
  <2> QED
    BY <2>2, <2>5
<1> HIDE DEF T
<1>3. 0..n \subseteq T
  BY <1>1, <1>2, UpTo
<1> QED
  BY <1>3 DEF T

\* A set that a step enlarges, or leaves alone for good, is left alone after
\* as many steps as there are elements it can have.  The hypotheses have a name,
\* so that the lemma can be cited of any step.
Saturates(U, n, step, w) ==
  /\ IsFiniteSet(U) /\ n \in Nat /\ Cardinality(U) <= n
  /\ step \in [SUBSET U -> SUBSET U] /\ \A S \in SUBSET U : S \subseteq step[S]
  /\ w \in [0..n -> SUBSET U] /\ \A k \in 1..n : w[k] = step[w[k-1]]

LEMMA Saturation ==
  ASSUME NEW U, NEW n, NEW step, NEW w, Saturates(U, n, step, w)
  PROVE  step[w[n]] = w[n]
<1>0. /\ IsFiniteSet(U) /\ n \in Nat /\ Cardinality(U) <= n
      /\ step \in [SUBSET U -> SUBSET U] /\ \A S \in SUBSET U : S \subseteq step[S]
      /\ w \in [0..n -> SUBSET U] /\ \A k \in 1..n : w[k] = step[w[k-1]]
  BY DEF Saturates
<1> DEFINE T == {k \in 0..n : Cardinality(w[k]) >= k \/ step[w[k]] = w[k]}
<1>1. ASSUME NEW S \in SUBSET U
      PROVE  /\ IsFiniteSet(S) /\ Cardinality(S) \in Nat
             /\ step[S] # S => Cardinality(step[S]) >= Cardinality(S) + 1
  <2>1. IsFiniteSet(S) /\ IsFiniteSet(step[S]) /\ S \subseteq step[S]
    BY <1>0, FS_Subset
  <2>2. Cardinality(S) \in Nat /\ Cardinality(step[S]) \in Nat
    BY <2>1, FS_CardinalityType
  <2>3. Cardinality(S) <= Cardinality(step[S]) /\ (Cardinality(S) = Cardinality(step[S]) => S = step[S])
    BY <1>0, <2>1, FS_Subset
  <2> QED
    BY <2>1, <2>2, <2>3
<1>2. 0 \in T
  BY <1>0, <1>1
<1>3. ASSUME NEW k \in 0..(n - 1), k \in T
      PROVE  k + 1 \in T
  <2>1. PICK m \in 1..n : m = k + 1
    BY <1>0
  <2>2. w[m] = step[w[k]] /\ k \in 0..n /\ m \in 0..n /\ w[k] \in SUBSET U /\ w[m] \in SUBSET U
    BY <1>0, <2>1
  <2>3. CASE step[w[k]] = w[k]
    BY <2>1, <2>2, <2>3
  <2>4. CASE step[w[k]] # w[k] /\ Cardinality(w[k]) >= k
    <3>1. Cardinality(w[m]) >= Cardinality(w[k]) + 1 /\ Cardinality(w[k]) \in Nat
      BY <1>1, <2>2, <2>4
    <3>2. Cardinality(w[m]) \in Nat
      BY <1>1, <2>2
    <3>3. Cardinality(w[m]) >= m
      BY <2>1, <2>4, <3>1, <3>2
    <3> QED
      BY <2>1, <2>2, <3>3
  <2> QED
    BY <1>3, <2>3, <2>4
<1> HIDE DEF T
<1>4. n \in T
  <2>1. 0..n \subseteq T
    BY <1>0, <1>2, <1>3, UpTo
  <2> QED
    BY <1>0, <2>1
<1>5. CASE step[w[n]] # w[n]
  <2>1. w[n] \in SUBSET U /\ Cardinality(w[n]) >= n
    BY <1>0, <1>4, <1>5 DEF T
  <2>2. Cardinality(step[w[n]]) >= Cardinality(w[n]) + 1 /\ Cardinality(w[n]) \in Nat
    BY <1>1, <1>5, <2>1
  <2>3. Cardinality(step[w[n]]) <= Cardinality(U) /\ Cardinality(U) \in Nat
    BY <1>0, <2>1, FS_Subset, FS_CardinalityType
  <2>4. Cardinality(step[w[n]]) \in Nat
    BY <1>0, <1>1, <2>1
  <2> QED
    BY <1>0, <2>1, <2>2, <2>3, <2>4
<1> QED
  BY <1>5
=============================================================================
