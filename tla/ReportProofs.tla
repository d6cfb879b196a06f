----------------------------- MODULE ReportProofs ---------------------------
(***************************************************************************)
(* Proofs about Report, for any registry and any jobs that fit: what was   *)
(* gathered is at every step what the rules raise in the files read so far *)
(* (Inv), through any walk, any judging and any rescan of moved sources;   *)
(* so a report that is printed and not edited loses nothing, validates,    *)
(* and has the exit code that each of its formats shows; and one that was  *)
(* edited and is accepted is the report of what it says was found.         *)
(*                                                                         *)
(* The operators of Collect read the variable job; here they are stated of *)
(* a job j (FileIn, RulesOf, RaisedOf...), so that what they do for one    *)
(* job can be said of the next (OfTheJob).  What a rule raises in a file   *)
(* is named by a triple: path, rule, and number among that rule's.         *)
(***************************************************************************)
EXTENDS Report, Induction, SequenceTheorems, FunctionTheorems

-----------------------------------------------------------------------------
\* Positions.

StrictOrder(R, K) ==
  /\ \A i \in K : <<i, i>> \notin R
  /\ \A i, j, k \in K : <<i, j>> \in R /\ <<j, k>> \in R => <<i, k>> \in R
  /\ \A i, j \in K : i # j => <<i, j>> \in R \/ <<j, i>> \in R

Nth(R, K, n) == CHOOSE k \in K : Cardinality(Ahead(R, K, k)) + 1 = n

\* The elements of a finite set in a strict order are numbered from 1 by how
\* many are ahead of them.
LEMMA Ranking ==
  ASSUME NEW K, IsFiniteSet(K), NEW R, StrictOrder(R, K)
  PROVE  /\ Cardinality(K) \in Nat
         /\ \A n \in 1..Cardinality(K) : Nth(R, K, n) \in K
         /\ \A k \in K : \E n \in 1..Cardinality(K) : Nth(R, K, n) = k
         /\ \A m, n \in 1..Cardinality(K) : m < n <=> <<Nth(R, K, m), Nth(R, K, n)>> \in R
<1> DEFINE c == Cardinality(K)
           pos == [k \in K |-> Cardinality(Ahead(R, K, k)) + 1]
<1>1. c \in Nat
  BY FS_CardinalityType
<1>2. ASSUME NEW k \in K
      PROVE  Cardinality(Ahead(R, K, k)) \in Nat /\ pos[k] \in 1..c
  <2>1. Ahead(R, K, k) \in SUBSET (K \ {k})
    BY DEF Ahead, StrictOrder
  <2>2. IsFiniteSet(K \ {k}) /\ Cardinality(K \ {k}) = c - 1
    BY FS_RemoveElement
  <2>3. IsFiniteSet(Ahead(R, K, k)) /\ Cardinality(Ahead(R, K, k)) <= c - 1
    BY <2>1, <2>2, FS_Subset
  <2>4. Cardinality(Ahead(R, K, k)) \in Nat
    BY <2>3, FS_CardinalityType
  <2> QED
    BY <1>1, <2>3, <2>4
<1>3. ASSUME NEW j \in K, NEW k \in K, <<j, k>> \in R
      PROVE  pos[j] < pos[k]
  <2>1. /\ Ahead(R, K, j) \in SUBSET Ahead(R, K, k)
        /\ j \in Ahead(R, K, k) /\ j \notin Ahead(R, K, j)
    BY <1>3 DEF Ahead, StrictOrder
  <2>2. IsFiniteSet(Ahead(R, K, k))
    BY FS_Subset DEF Ahead
  <2>3. /\ Cardinality(Ahead(R, K, j)) <= Cardinality(Ahead(R, K, k))
        /\ Cardinality(Ahead(R, K, j)) # Cardinality(Ahead(R, K, k))
    BY <2>1, <2>2, FS_Subset
  <2> QED
    BY <1>2, <2>3
<1>4. \A j, k \in K : j = k \/ pos[j] # pos[k]
  <2> SUFFICES ASSUME NEW j \in K, NEW k \in K, j # k PROVE pos[j] # pos[k]
    OBVIOUS
  <2>1. <<j, k>> \in R \/ <<k, j>> \in R
    BY DEF StrictOrder
  <2> QED
    BY <1>2, <1>3, <2>1
<1>5. pos \in Injection(K, 1..c)
  BY <1>2, <1>4 DEF Injection, IsInjective
<1>6. IsFiniteSet(1..c) /\ Cardinality(1..c) = c
  BY <1>1, FS_Interval
<1>7. pos \in Surjection(K, 1..c)
  BY <1>5, <1>6, FS_Injection
<1>8. \A n \in 1..c : Nth(R, K, n) \in K /\ pos[Nth(R, K, n)] = n
  <2> SUFFICES ASSUME NEW n \in 1..c PROVE Nth(R, K, n) \in K /\ pos[Nth(R, K, n)] = n
    OBVIOUS
  <2>1. \E k \in K : Cardinality(Ahead(R, K, k)) + 1 = n
    BY <1>7 DEF Surjection
  <2>2. Nth(R, K, n) \in K /\ Cardinality(Ahead(R, K, Nth(R, K, n))) + 1 = n
    BY <2>1 DEF Nth
  <2> QED
    BY <2>2
<1>9. \A k \in K : \E n \in 1..c : Nth(R, K, n) = k
  BY <1>2, <1>4, <1>8
<1>10. ASSUME NEW m \in 1..c, NEW n \in 1..c
       PROVE  m < n <=> <<Nth(R, K, m), Nth(R, K, n)>> \in R
  <2>1. <<Nth(R, K, m), Nth(R, K, n)>> \in R => m < n
    BY <1>3, <1>8
  <2>2. m < n => <<Nth(R, K, m), Nth(R, K, n)>> \in R
    <3> SUFFICES ASSUME m < n PROVE <<Nth(R, K, m), Nth(R, K, n)>> \in R
      OBVIOUS
    <3>1. ~ (n < m) /\ m # n
      BY <1>1
    <3>2. Nth(R, K, m) # Nth(R, K, n)
      BY <1>8, <3>1
    <3>3. <<Nth(R, K, n), Nth(R, K, m)>> \in R => n < m
      BY <1>3, <1>8
    <3> QED
      BY <1>8, <3>1, <3>2, <3>3 DEF StrictOrder
  <2> QED
    BY <2>1, <2>2
<1> QED
  BY <1>1, <1>8, <1>9, <1>10

\* What the positions at, in their order, give of a sequence.
Picks(at, seq, K, R, new) ==
  /\ Cardinality(K) \in Nat
  /\ at \in [1..Cardinality(K) -> K]
  /\ \A k \in K : \E n \in 1..Cardinality(K) : at[n] = k
  /\ \A m, n \in 1..Cardinality(K) : m < n <=> <<at[m], at[n]>> \in R
  /\ new = [n \in 1..Cardinality(K) |-> seq[at[n]]]

LEMMA ArrangedPicks ==
  ASSUME NEW seq, NEW K, IsFiniteSet(K), NEW R, StrictOrder(R, K)
  PROVE  \E at : Picks(at, seq, K, R, Arranged(seq, K, R))
<1> DEFINE c == Cardinality(K)
           at == [n \in 1..c |-> Nth(R, K, n)]
<1>1. /\ c \in Nat
      /\ \A n \in 1..c : Nth(R, K, n) \in K
      /\ \A k \in K : \E n \in 1..c : Nth(R, K, n) = k
      /\ \A m, n \in 1..c : m < n <=> <<Nth(R, K, m), Nth(R, K, n)>> \in R
  BY Ranking
<1>2. Arranged(seq, K, R) = [n \in 1..c |-> seq[Nth(R, K, n)]]
  BY DEF Arranged, Nth
<1>3. Arranged(seq, K, R) = [n \in 1..c |-> seq[at[n]]]
  BY <1>2
<1> HIDE DEF c
<1>4. Picks(at, seq, K, R, Arranged(seq, K, R))
  BY <1>1, <1>3 DEF Picks, c
<1> QED
  BY <1>4

\* At gives the elements at the positions, in their order.
LEMMA AtPicks ==
  ASSUME NEW seq, NEW n \in Nat, NEW K \in SUBSET (1..n)
  PROVE  \E at : /\ Picks(at, seq, K, {p \in K \X K : p[1] < p[2]}, At(seq, K))
                 /\ \A i, j \in 1..Cardinality(K) : i < j <=> at[i] < at[j]
<1> DEFINE R == {p \in K \X K : p[1] < p[2]}
<1>1. IsFiniteSet(K)
  <2>1. IsFiniteSet(1..n)
    BY FS_Interval
  <2> QED
    BY <2>1, FS_Subset
<1>2. StrictOrder(R, K)
  <2>1. \A i, j \in K : <<i, j>> \in R <=> i < j
    OBVIOUS
  <2> HIDE DEF R
  <2> QED
    BY <2>1 DEF StrictOrder
<1>3. PICK at : Picks(at, seq, K, R, Arranged(seq, K, R))
  <2> HIDE DEF R
  <2> QED
    BY <1>1, <1>2, ArrangedPicks
<1>4. \A i, j \in 1..Cardinality(K) : i < j <=> at[i] < at[j]
  BY <1>3 DEF Picks
<1> QED
  BY <1>3, <1>4 DEF At

\* Positions ordered by a number, equal ones as they were.
LEMMA OrderByKey ==
  ASSUME NEW n \in Nat, NEW key \in [1..n -> Nat]
  PROVE  StrictOrder({p \in (1..n) \X (1..n) :
           \/ key[p[1]] < key[p[2]]
           \/ ~(key[p[2]] < key[p[1]]) /\ p[1] < p[2]}, 1..n)
<1> DEFINE R == {p \in (1..n) \X (1..n) :
           \/ key[p[1]] < key[p[2]]
           \/ ~(key[p[2]] < key[p[1]]) /\ p[1] < p[2]}
<1>1. ASSUME NEW i \in 1..n, NEW k \in 1..n
      PROVE  /\ (<<i, k>> \in R) <=> (key[i] < key[k] \/ (~(key[k] < key[i]) /\ i < k))
             /\ key[i] \in Nat /\ key[k] \in Nat /\ i \in Nat /\ k \in Nat
  <2>1. (<<i, k>> \in R) <=> (key[i] < key[k] \/ (~(key[k] < key[i]) /\ i < k))
    OBVIOUS
  <2>2. i \in Nat /\ k \in Nat
    OBVIOUS
  <2>3. key[i] \in Nat /\ key[k] \in Nat
    OBVIOUS
  <2> HIDE DEF R
  <2> QED
    BY <2>1, <2>2, <2>3
<1> HIDE DEF R
<1>2. \A i \in 1..n : <<i, i>> \notin R
  BY <1>1
<1>3. ASSUME NEW i \in 1..n, NEW j \in 1..n, NEW k \in 1..n, <<i, j>> \in R, <<j, k>> \in R
      PROVE  <<i, k>> \in R
  <2>1. key[i] < key[j] \/ (~(key[j] < key[i]) /\ i < j)
    BY <1>1, <1>3
  <2>2. key[j] < key[k] \/ (~(key[k] < key[j]) /\ j < k)
    BY <1>1, <1>3
  <2>3. /\ key[i] \in Nat /\ key[j] \in Nat /\ key[k] \in Nat /\ i \in Nat /\ j \in Nat /\ k \in Nat
    BY <1>1
  <2>4. key[i] < key[k] \/ (~(key[k] < key[i]) /\ i < k)
    BY <2>1, <2>2, <2>3
  <2> QED
    BY <1>1, <2>4
<1>4. ASSUME NEW i \in 1..n, NEW j \in 1..n, i # j
      PROVE  <<i, j>> \in R \/ <<j, i>> \in R
  BY <1>1, <1>4
<1>5. StrictOrder(R, 1..n)
  BY <1>2, <1>3, <1>4 DEF StrictOrder
<1> QED
  BY <1>5, Zenon DEF R

LEMMA LargerSeq ==
  ASSUME NEW S, NEW T, S \subseteq T, NEW s \in Seq(S)
  PROVE  s \in Seq(T)
OBVIOUS

LEMMA SeqByElements ==
  ASSUME NEW T, NEW m \in Nat, NEW s, DOMAIN s = 1..m, s = [i \in 1..m |-> s[i]],
         \A i \in 1..m : s[i] \in T
  PROVE  s \in Seq(T) /\ Len(s) = m
OBVIOUS

\* What is picked of a sequence is a sequence of its elements.
PickedFrom(S, seq, K, at, new) ==
  /\ new \in Seq(S) /\ Len(new) = Cardinality(K) /\ DOMAIN new = 1..Cardinality(K)
  /\ \A n \in DOMAIN new : at[n] \in K /\ new[n] = seq[at[n]]
  /\ \A k \in K : \E n \in DOMAIN new : at[n] = k /\ new[n] = seq[k]

LEMMA Picked ==
  ASSUME NEW S, NEW seq, seq \in Seq(S), NEW K, K \in SUBSET (1..Len(seq)), NEW R, NEW new,
         NEW at, Picks(at, seq, K, R, new)
  PROVE  PickedFrom(S, seq, K, at, new)
<1> DEFINE c == Cardinality(K)
<1>1. c \in Nat /\ new = [n \in 1..c |-> seq[at[n]]] /\ at \in [1..c -> K]
  BY DEF Picks
<1>2. \A k \in K : \E n \in 1..c : at[n] = k
  BY DEF Picks
<1> HIDE DEF c
<1>3. \A n \in 1..c : at[n] \in K /\ new[n] = seq[at[n]] /\ seq[at[n]] \in S
  <2>1. \A k \in K : seq[k] \in S
    OBVIOUS
  <2>2. \A n \in 1..c : at[n] \in K /\ new[n] = seq[at[n]]
    BY <1>1
  <2> QED
    BY <2>1, <2>2
<1>4. new \in Seq(S) /\ Len(new) = c /\ DOMAIN new = 1..c
  BY <1>1, <1>3
<1> QED
  BY <1>2, <1>3, <1>4 DEF c, PickedFrom

-----------------------------------------------------------------------------
\* What the rules raise.

\* A sequence of sequences is joined one after the other.
Joined(s, f) == f[0] = <<>> /\ \A k \in 1..Len(s) : f[k] = f[k-1] \o s[k]

FlatEquation(seqs, flat) ==
  flat = [i \in 1..Len(seqs) |-> IF i = 1 THEN seqs[i] ELSE flat[i-1] \o seqs[i]]

LEMMA FlattenIs == \A s : FlattenSeq(s) = IF Len(s) = 0 THEN s ELSE (CHOOSE flat : FlatEquation(s, flat))[Len(s)]
BY Zenon DEF FlattenSeq, FlatEquation

SeqOfSeqs(s, n, X) == /\ n \in Nat /\ Len(s) = n /\ s = [k \in 1..n |-> s[k]]
                      /\ \A k \in 1..n : s[k] \in Seq(X)

LEMMA Flattened ==
  ASSUME NEW X, NEW s, NEW n, SeqOfSeqs(s, n, X)
  PROVE  \E f \in [0..n -> Seq(X)] : Joined(s, f) /\ FlattenSeq(s) = f[n]
<1>0. n \in Nat /\ Len(s) = n /\ s = [k \in 1..n |-> s[k]] /\ \A k \in 1..n : s[k] \in Seq(X)
  BY DEF SeqOfSeqs
<1> USE <1>0
<1> DEFINE F == Seq(X)
           step == [k \in 1..n |-> [x \in F |-> x \o s[k]]]
           first == <<>>
<1>1. PICK f \in [0..n -> F] : f[0] = first /\ \A k \in 1..n : f[k] = step[k][f[k-1]]
  <2>1. first \in F
    OBVIOUS
  <2>2. step \in [1..n -> [F -> F]]
    OBVIOUS
  <2> HIDE DEF F, step, first
  <2> QED
    <3>1. n \in Nat
      OBVIOUS
    <3> QED
      BY ONLY <2>1, <2>2, <3>1, Iteration
<1>2. \A k \in 1..n : k - 1 \in 0..n /\ f[k-1] \in Seq(X) /\ f[k] = f[k-1] \o s[k]
  <2> SUFFICES ASSUME NEW k \in 1..n PROVE k - 1 \in 0..n /\ f[k-1] \in Seq(X) /\ f[k] = f[k-1] \o s[k]
    OBVIOUS
  <2>1. k - 1 \in 0..n
    OBVIOUS
  <2>2. f[k-1] \in Seq(X)
    BY <2>1
  <2> QED
    BY <1>1, <2>1, <2>2
<1>3. Joined(s, f)
  BY <1>1, <1>2 DEF Joined
<1>4. CASE n = 0
  <2>1. FlattenSeq(s) = s
    BY <1>4, FlattenIs
  <2>2. s = <<>>
    BY <1>4
  <2> QED
    BY <1>1, <1>3, <1>4, <2>1, <2>2
<1>5. CASE n # 0
  <2> DEFINE flat == CHOOSE g : FlatEquation(s, g)
             g0 == [k \in 1..n |-> f[k]]
  <2>1. FlatEquation(s, g0)
    <3>1. ASSUME NEW k \in 1..n
          PROVE  g0[k] = IF k = 1 THEN s[k] ELSE g0[k-1] \o s[k]
      <4>1. CASE k = 1
        <5>1. f[k] = <<>> \o s[k]
          <6>1. k - 1 = 0 /\ f[0] = <<>>
            BY <1>1, <4>1
          <6> QED
            BY <1>2, <6>1
        <5>2. \A q \in Seq(X) : <<>> \o q = q
          BY EmptySeq, ConcatEmptySeq
        <5> QED
          BY <4>1, <5>1, <5>2
      <4>2. CASE k # 1
        <5>1. k - 1 \in 1..n
          BY <4>2
        <5> QED
          BY <1>2, <4>2, <5>1
      <4> QED
        BY <4>1, <4>2
    <3>2. g0 = [k \in 1..n |-> g0[k]]
      OBVIOUS
    <3> HIDE DEF g0
    <3>3. g0 = [k \in 1..n |-> IF k = 1 THEN s[k] ELSE g0[k-1] \o s[k]]
      BY <3>1, <3>2, Zenon
    <3> QED
      BY <3>3, Zenon DEF FlatEquation
  <2>2. FlatEquation(s, flat)
    BY <2>1, Zenon
  <2>3. FlattenSeq(s) = flat[n]
    BY <1>5, FlattenIs, Zenon
  <2> HIDE DEF flat
  <2>4. \A k \in 1..n : flat[k] = IF k = 1 THEN s[k] ELSE flat[k-1] \o s[k]
    BY <2>2, Zenon DEF FlatEquation
  <2> DEFINE T == {0} \cup {k \in 1..n : flat[k] = f[k]}
  <2>5. ASSUME NEW k \in 0..(n - 1), k \in T
        PROVE  k + 1 \in T
    <3>1. k + 1 \in 1..n /\ (k + 1) - 1 = k
      OBVIOUS
    <3>2. f[k + 1] = f[k] \o s[k + 1]
      BY <1>2, <3>1
    <3>3. CASE k = 0
      <4>1. flat[k + 1] = s[k + 1] /\ s[k + 1] \in Seq(X) /\ f[k] = <<>>
        BY <1>1, <2>4, <3>1, <3>3
      <4>2. <<>> \o s[k + 1] = s[k + 1]
        BY <4>1, EmptySeq, ConcatEmptySeq
      <4> QED
        BY <3>1, <3>2, <4>1, <4>2
    <3>4. CASE k # 0
      <4>1. k + 1 # 1 /\ flat[k] = f[k]
        BY <2>5, <3>4
      <4>2. flat[k + 1] = flat[k] \o s[k + 1]
        BY <2>4, <3>1, <4>1
      <4> QED
        BY <3>1, <3>2, <4>1, <4>2
    <3> QED
      BY <3>3, <3>4
  <2>6. n \in T
    <3>1. 0 \in T
      OBVIOUS
    <3> HIDE DEF T
    <3>2. 0..n \subseteq T
      BY <2>5, <3>1, UpTo
    <3> QED
      BY <3>2
  <2>7. flat[n] = f[n]
    BY <1>5, <2>6
  <2> QED
    BY <1>3, <2>3, <2>7
<1> QED
  BY <1>4, <1>5

\* What the module says of the job, of any job.
FileIn(j, path) == CHOOSE f \in j.files : f.path = path
RulesOf(j)      == Retain(Registry, LAMBDA r : j.select = {} \/ r.id \in j.select)
RankIn(j, path) == FileIn(j, path).rank

\* The rules for a language, and what they raise in a file.
For(j, language) == {r \in Range(RulesOf(j)) : language \in r.languages}

RaisedOf(j, f) ==
  LET applicable == Retain(RulesOf(j), LAMBDA r : f.language \in r.languages)
      of(r) == [k \in DOMAIN f.raws[r.id] |-> [rule |-> r.id, raw |-> f.raws[r.id][k]]]
  IN FlattenSeq([k \in DOMAIN applicable |-> of(applicable[k])])

LEMMA FileIs ==
  ASSUME NEW j, JobFits(j), NEW f \in j.files
  PROVE  FileIn(j, f.path) = f
<1>1. \A g \in j.files : g.path = f.path => g = f
  BY DEF JobFits
<1> QED
  BY <1>1 DEF FileIn

\* A part of the registry: every rule once.
RuleList(list) ==
  /\ list \in Seq(Range(Registry))
  /\ \A k \in DOMAIN list : \E m \in DOMAIN Registry : list[k] = Registry[m]
  /\ \A j, k \in DOMAIN list : list[j].id = list[k].id => j = k

LEMMA PartOfRules ==
  ASSUME NEW list, RuleList(list), NEW K \in SUBSET DOMAIN list
  PROVE  /\ RuleList(At(list, K))
         /\ Range(At(list, K)) = {list[k] : k \in K}
<1>1. list \in Seq(Range(Registry)) /\ DOMAIN list = 1..Len(list) /\ Len(list) \in Nat
  BY DEF RuleList
<1>2. K \in SUBSET (1..Len(list))
  BY <1>1
<1> DEFINE R == {p \in K \X K : p[1] < p[2]}
           new == At(list, K)
<1>3. PICK at : /\ Picks(at, list, K, R, new)
                /\ \A i, j \in 1..Cardinality(K) : i < j <=> at[i] < at[j]
  BY <1>1, <1>2, AtPicks
<1>4. /\ new \in Seq(Range(Registry)) /\ Len(new) = Cardinality(K) /\ DOMAIN new = 1..Cardinality(K)
      /\ \A n \in DOMAIN new : at[n] \in K /\ new[n] = list[at[n]]
      /\ \A k \in K : \E n \in DOMAIN new : at[n] = k /\ new[n] = list[k]
  <2> HIDE DEF R, new
  <2>1. PickedFrom(Range(Registry), list, K, at, new)
    BY <1>1, <1>2, <1>3, Picked
  <2> QED
    BY <2>1 DEF PickedFrom
<1> HIDE DEF R, new
<1>5. \A n \in DOMAIN new : \E m \in DOMAIN Registry : new[n] = Registry[m]
  BY <1>4 DEF RuleList
<1>6. ASSUME NEW j \in DOMAIN new, NEW k \in DOMAIN new, new[j].id = new[k].id
      PROVE  j = k
  <2>1. at[j] = at[k]
    BY <1>4, <1>6 DEF RuleList
  <2>2. Cardinality(K) \in Nat
    BY <1>3 DEF Picks
  <2>3. at[j] \in Nat /\ j \in Nat /\ k \in Nat
    BY <1>1, <1>2, <1>4, <2>2
  <2>4. ~ (j < k) /\ ~ (k < j)
    BY <1>3, <1>4, <2>1, <2>3
  <2> QED
    BY <2>3, <2>4
<1>7. RuleList(new)
  BY <1>4, <1>5, <1>6 DEF RuleList
<1>8. Range(new) = {list[k] : k \in K}
  BY <1>4 DEF Range
<1> QED
  BY <1>7, <1>8 DEF new

LEMMA RulesAre ==
  ASSUME NEW j
  PROVE  RuleList(RulesOf(j))
<1>1. RuleList(Registry)
  BY RegistryAssumption DEF RuleList
<1> DEFINE K == {k \in DOMAIN Registry : j.select = {} \/ Registry[k].id \in j.select}
<1>2. RulesOf(j) = At(Registry, K)
  BY DEF RulesOf, Retain
<1> QED
  BY <1>1, <1>2, PartOfRules

\* What the rules S raise in f, by path, rule and number; a task of Judge.
Triples(f, S) == UNION {{<<f.path, r.id, k>> : k \in DOMAIN f.raws[r.id]} : r \in S}
TaskIn(f, t)  == [rule |-> t[2], raw |-> f.raws[t[2]][t[3]]]

\* g numbers what the rules S raise in f, one rule's in their order.
Numbers(g, f, S, n) ==
  /\ n \in Nat
  /\ g \in [1..n -> Triples(f, S)]
  /\ \A t \in Triples(f, S) : \E i \in 1..n : g[i] = t
  /\ \A i, j \in 1..n : g[i] = g[j] => i = j
  /\ \A i, j \in 1..n : i < j /\ g[i][2] = g[j][2] => g[i][3] < g[j][3]

LEMMA NumbersMore ==
  ASSUME NEW f, NEW S, NEW n, NEW g, Numbers(g, f, S, n),
         NEW r, \A q \in S : q.id # r.id,
         NEW m \in Nat, DOMAIN f.raws[r.id] = 1..m,
         \A q \in S : DOMAIN f.raws[q.id] \subseteq Nat
  PROVE  Numbers([i \in 1..(n + m) |-> IF i <= n THEN g[i] ELSE <<f.path, r.id, i - n>>],
                 f, S \cup {r}, n + m)
<1> DEFINE h == [i \in 1..(n + m) |-> IF i <= n THEN g[i] ELSE <<f.path, r.id, i - n>>]
           old == Triples(f, S)
           new == {<<f.path, r.id, k>> : k \in 1..m}
<1>1. n \in Nat /\ n + m \in Nat
  BY DEF Numbers
<1>2. Triples(f, S \cup {r}) = old \cup new
  BY DEF Triples
<1>3. \A t \in old : /\ t[2] # r.id /\ t[3] \in Nat
  BY DEF Triples
<1>4. \A t \in new : t[2] = r.id
  OBVIOUS
<1>5. /\ \A i \in 1..n : h[i] = g[i] /\ h[i] \in old
      /\ \A i \in (n + 1)..(n + m) : h[i] = <<f.path, r.id, i - n>> /\ i - n \in 1..m /\ h[i] \in new
  <2>1. \A i \in 1..n : g[i] \in old
    BY DEF Numbers
  <2>2. \A i \in 1..n : i \in 1..(n + m) /\ i <= n
    BY <1>1
  <2>3. \A i \in (n + 1)..(n + m) : i \in 1..(n + m) /\ ~ (i <= n) /\ i - n \in 1..m
    BY <1>1
  <2> HIDE DEF old
  <2> QED
    BY <2>1, <2>2, <2>3
<1>6. \A i \in 1..(n + m) : i \in 1..n \/ i \in (n + 1)..(n + m)
  BY <1>1
<1>7. h \in [1..(n + m) -> Triples(f, S \cup {r})]
  <2>1. \A i \in 1..(n + m) : h[i] \in old \cup new
    BY <1>5, <1>6
  <2> QED
    BY <1>2, <2>1
<1>8. ASSUME NEW t \in Triples(f, S \cup {r})
      PROVE  \E i \in 1..(n + m) : h[i] = t
  <2>1. CASE t \in old
    <3>1. PICK i \in 1..n : g[i] = t
      BY <2>1 DEF Numbers
    <3> QED
      BY <1>1, <1>5, <3>1
  <2>2. CASE t \in new
    <3>1. PICK k \in 1..m : t = <<f.path, r.id, k>>
      BY <2>2
    <3>2. k + n \in (n + 1)..(n + m) /\ (k + n) - n = k /\ k + n \in 1..(n + m)
      BY <1>1
    <3> QED
      BY <1>5, <3>1, <3>2
  <2> QED
    BY <1>2, <1>8, <2>1, <2>2
<1> HIDE DEF h, old, new
<1>9. ASSUME NEW i \in 1..(n + m), NEW j \in 1..(n + m), h[i][2] = h[j][2]
      PROVE  (h[i] = h[j] => i = j) /\ (i < j => h[i][3] < h[j][3])
  <2>1. CASE i \in 1..n /\ j \in 1..n
    BY <1>5, <1>9, <2>1 DEF Numbers
  <2>2. CASE i \in (n + 1)..(n + m) /\ j \in (n + 1)..(n + m)
    <3>1. h[i][3] = i - n /\ h[j][3] = j - n
      BY <1>5, <2>2
    <3> QED
      BY <1>1, <2>2, <3>1
  <2>3. CASE i \in 1..n /\ j \in (n + 1)..(n + m)
    BY <1>3, <1>4, <1>5, <1>9, <2>3
  <2>4. CASE j \in 1..n /\ i \in (n + 1)..(n + m)
    BY <1>3, <1>4, <1>5, <1>9, <2>4
  <2> QED
    BY <1>6, <2>1, <2>2, <2>3, <2>4
<1>10. /\ \A i, j \in 1..(n + m) : h[i] = h[j] => i = j
       /\ \A i, j \in 1..(n + m) : i < j /\ h[i][2] = h[j][2] => h[i][3] < h[j][3]
  BY <1>9
<1>11. Numbers(h, f, S \cup {r}, n + m)
  BY <1>1, <1>7, <1>8, <1>10 DEF Numbers
<1> QED
  BY <1>11 DEF h

\* The n tasks a file's rules raise are told in the order of the numbering g.
RaisedAs(j, f, n, g) ==
  /\ Numbers(g, f, For(j, f.language), n)
  /\ RaisedOf(j, f) = [i \in 1..n |-> TaskIn(f, g[i])]

\* What is raised gives every task once, a rule's tasks in its order.
LEMMA RaisedNumbered ==
  ASSUME NEW j, NEW f, FileFits(f)
  PROVE  \E n, g : RaisedAs(j, f, n, g)
<1> DEFINE K == {k \in DOMAIN RulesOf(j) : f.language \in RulesOf(j)[k].languages}
           list == At(RulesOf(j), K)
<1>1. RuleList(list) /\ Range(list) = For(j, f.language)
  <2>1. RuleList(list) /\ Range(list) = {RulesOf(j)[k] : k \in K}
    BY RulesAre, PartOfRules
  <2>2. {RulesOf(j)[k] : k \in K} = For(j, f.language)
    BY DEF For, Range
  <2> QED
    BY <2>1, <2>2
<1> DEFINE of(r) == [k \in DOMAIN f.raws[r.id] |-> [rule |-> r.id, raw |-> f.raws[r.id][k]]]
           s == [k \in DOMAIN list |-> of(list[k])]
           N == Len(list)
           X == {TaskIn(f, t) : t \in Triples(f, Range(list))}
           len(k) == Len(f.raws[list[k].id])
           Upto(k) == {list[q] : q \in 1..k}
<1>2. RaisedOf(j, f) = FlattenSeq(s)
  BY DEF RaisedOf, Retain
<1> HIDE DEF list
<1>3. N \in Nat /\ DOMAIN list = 1..N
  BY <1>1 DEF RuleList
<1>4. ASSUME NEW k \in 1..N
      PROVE  len(k) \in Nat /\ DOMAIN f.raws[list[k].id] = 1..len(k)
  <2>1. PICK m \in DOMAIN Registry : list[k] = Registry[m]
    BY <1>1, <1>3 DEF RuleList
  <2>2. RawsFit(f.raws[list[k].id])
    BY <2>1 DEF FileFits
  <2>3. f.raws[list[k].id] \in Seq(Range(f.raws[list[k].id]))
    BY <2>2 DEF RawsFit
  <2> QED
    BY <2>3
<1>5. ASSUME NEW k \in 1..N
      PROVE  /\ s[k] = [i \in 1..len(k) |-> TaskIn(f, <<f.path, list[k].id, i>>)]
             /\ s[k] \in Seq(X) /\ Len(s[k]) = len(k)
  <2>1. s[k] = [i \in 1..len(k) |-> TaskIn(f, <<f.path, list[k].id, i>>)]
    BY <1>3, <1>4 DEF TaskIn
  <2>2. \A i \in 1..len(k) : TaskIn(f, <<f.path, list[k].id, i>>) \in X
    <3>1. \A i \in 1..len(k) : <<f.path, list[k].id, i>> \in Triples(f, Range(list))
      <4>1. list[k] \in Range(list)
        BY <1>3 DEF Range
      <4> QED
        BY <1>4, <4>1 DEF Triples
    <3> QED
      BY <3>1
  <2> HIDE DEF s, X
  <2> QED
    BY <1>4, <2>1, <2>2
<1>6. Len(s) = N /\ s = [k \in 1..N |-> s[k]]
  BY <1>3
<1> HIDE DEF s, X, N
<1>7. PICK F \in [0..N -> Seq(X)] : Joined(s, F) /\ FlattenSeq(s) = F[N]
  <2>1. \A k \in 1..N : s[k] \in Seq(X)
    BY <1>5
  <2>2. N \in Nat /\ Len(s) = N /\ s = [k \in 1..N |-> s[k]]
    BY <1>3, <1>6
  <2> QED
    <3>1. SeqOfSeqs(s, N, X)
      BY <2>1, <2>2, Zenon DEF SeqOfSeqs
    <3> QED
      BY ONLY <3>1, Flattened
<1>8. F[0] = <<>> /\ \A k \in 1..N : F[k] = F[k-1] \o s[k]
  BY <1>6, <1>7 DEF Joined
<1> DEFINE Good(k, n, g) == /\ Numbers(g, f, Upto(k), n)
                            /\ F[k] = [i \in 1..n |-> TaskIn(f, g[i])]
           T == {k \in 0..N : \E n, g : Good(k, n, g)}
<1>9. 0 \in T
  <2> DEFINE g == <<>>
  <2>1. Upto(0) = {} /\ Triples(f, {}) = {}
    BY DEF Triples
  <2>2. Numbers(g, f, {}, 0)
    BY <2>1 DEF Numbers
  <2>3. F[0] = [i \in 1..0 |-> TaskIn(f, g[i])]
    BY <1>8
  <2>4. Good(0, 0, g)
    BY <2>1, <2>2, <2>3
  <2> HIDE DEF Good
  <2> QED
    BY <1>3, <2>4
<1>10. ASSUME NEW k \in 0..(N - 1), k \in T
       PROVE  k + 1 \in T
  <2>1. PICK n, g : Good(k, n, g)
    BY <1>10
  <2>2. k + 1 \in 1..N /\ (k + 1) - 1 = k /\ k + 1 \in 0..N
    BY <1>3
  <2> DEFINE r == list[k + 1]
             m == len(k + 1)
             h == [i \in 1..(n + m) |-> IF i <= n THEN g[i] ELSE <<f.path, r.id, i - n>>]
  <2>3. m \in Nat /\ DOMAIN f.raws[r.id] = 1..m
    BY <1>4, <2>2
  <2>4. \A q \in Upto(k) : q.id # r.id
    <3> SUFFICES ASSUME NEW i \in 1..k PROVE list[i].id # list[k + 1].id
      OBVIOUS
    <3>1. i \in DOMAIN list /\ k + 1 \in DOMAIN list /\ i # k + 1
      BY <1>3, <2>2
    <3> QED
      BY <1>1, <3>1 DEF RuleList
  <2>5. \A q \in Upto(k) : DOMAIN f.raws[q.id] \subseteq Nat
    <3> SUFFICES ASSUME NEW i \in 1..k PROVE DOMAIN f.raws[list[i].id] \subseteq Nat
      OBVIOUS
    <3>1. i \in 1..N
      BY <1>3, <2>2
    <3> QED
      BY <1>4, <3>1
  <2>6. Numbers(h, f, Upto(k) \cup {r}, n + m)
    <3>1. Numbers(g, f, Upto(k), n)
      BY <2>1
    <3> HIDE DEF Upto, r, m
    <3> QED
      BY <2>3, <2>4, <2>5, <3>1, NumbersMore
  <2>7. Upto(k) \cup {r} = Upto(k + 1)
    <3>1. \A i : i \in 1..(k + 1) <=> i \in 1..k \/ i = k + 1
      BY <1>3
    <3> HIDE DEF N
    <3> QED
      BY <3>1
  <2>8. F[k + 1] = [i \in 1..(n + m) |-> TaskIn(f, h[i])]
    <3>1. n \in Nat
      BY <2>1 DEF Numbers
    <3>2. F[k] \in Seq(X) /\ F[k] = [i \in 1..n |-> TaskIn(f, g[i])] /\ Len(F[k]) = n
      <4>1. k \in 0..N
        BY <1>3
      <4>2. F[k] \in Seq(X) /\ F[k] = [i \in 1..n |-> TaskIn(f, g[i])]
        BY <1>7, <2>1, <4>1
      <4> QED
        BY <3>1, <4>2
    <3>3. /\ s[k + 1] \in Seq(X) /\ Len(s[k + 1]) = m
          /\ s[k + 1] = [i \in 1..m |-> TaskIn(f, <<f.path, r.id, i>>)]
      BY <1>5, <2>2
    <3>4. F[k + 1] = F[k] \o s[k + 1]
      BY <1>8, <2>2
    <3> DEFINE u == F[k]
               v == s[k + 1]
    <3>5. /\ u \o v \in Seq(X) /\ Len(u \o v) = n + m
          /\ \A i \in 1..(n + m) : (u \o v)[i] = IF i <= n THEN u[i] ELSE v[i - n]
      <4> HIDE DEF u, v, m
      <4>1. u \in Seq(X) /\ v \in Seq(X) /\ Len(u) = n /\ Len(v) = m
        BY <3>2, <3>3 DEF u, v
      <4>2. Len(u) + Len(v) = n + m
        BY <4>1
      <4>3. /\ u \o v \in Seq(X) /\ Len(u \o v) = Len(u) + Len(v)
            /\ \A i \in 1..(Len(u) + Len(v)) : (u \o v)[i] = IF i <= Len(u) THEN u[i] ELSE v[i - Len(u)]
        BY <4>1, ConcatProperties
      <4> QED
        BY <4>1, <4>2, <4>3, Zenon
    <3>6. \A i \in 1..(n + m) : (u \o v)[i] = TaskIn(f, h[i])
      <4> SUFFICES ASSUME NEW i \in 1..(n + m) PROVE (u \o v)[i] = TaskIn(f, h[i])
        OBVIOUS
      <4>1. CASE i <= n
        <5>1. i \in 1..n
          BY <3>1, <4>1
        <5>2. (u \o v)[i] = u[i] /\ u[i] = TaskIn(f, g[i])
          BY <3>2, <3>5, <4>1, <5>1
        <5> QED
          BY <4>1, <5>2
      <4>2. CASE ~ (i <= n)
        <5>1. i - n \in 1..m
          BY <2>3, <3>1, <4>2
        <5>2. (u \o v)[i] = v[i - n] /\ v[i - n] = TaskIn(f, <<f.path, r.id, i - n>>)
          BY <3>3, <3>5, <4>2, <5>1
        <5> QED
          BY <4>2, <5>2
      <4> QED
        BY <4>1, <4>2
    <3> DEFINE w == u \o v
    <3>7. w = [i \in 1..(n + m) |-> w[i]]
      <4>1. w \in Seq(X) /\ Len(w) = n + m
        BY <3>5
      <4> HIDE DEF w
      <4> QED
        BY <4>1
    <3> HIDE DEF h, m, u, v
    <3> QED
      BY <3>4, <3>6, <3>7 DEF u, v
  <2>9. Good(k + 1, n + m, h)
    BY <2>6, <2>7, <2>8
  <2> HIDE DEF Good, h, m
  <2> QED
    BY <2>2, <2>9
<1> HIDE DEF T
<1>11. N \in T
  <2>1. 0..N \subseteq T
    BY <1>3, <1>9, <1>10, UpTo
  <2> QED
    BY <1>3, <2>1
<1>12. PICK n, g : Good(N, n, g)
  BY <1>11 DEF T
<1>13. Upto(N) = For(j, f.language)
  BY <1>1, <1>3 DEF Range
<1>14. Numbers(g, f, For(j, f.language), n)
  BY <1>12, <1>13
<1>15. RaisedOf(j, f) = [i \in 1..n |-> TaskIn(f, g[i])]
  BY <1>2, <1>7, <1>12
<1>16. RaisedAs(j, f, n, g)
  BY ONLY <1>14, <1>15 DEF RaisedAs
<1> QED
  BY <1>16

-----------------------------------------------------------------------------
\* Where what is raised is.

WidthOf(text, k) == Width(text[k])

LEMMA WidthIsPositive == \A text, k : WidthOf(text, k) \in Nat /\ WidthOf(text, k) >= 1
BY DEF WidthOf, Width

OffsetEquation(text, k, bytes) ==
  bytes = [i \in 0..k |-> IF i = 0 THEN 0 ELSE bytes[i-1] + WidthOf(text, i)]

LEMMA OffsetIs == \A text, k : Offset(text, k) = (CHOOSE bytes : OffsetEquation(text, k, bytes))[k]
BY Zenon DEF Offset, OffsetEquation, WidthOf

\* f[k] is the width of the first k characters.
Sums(text, n, f) ==
  f \in [0..n -> Nat] /\ f[0] = 0 /\ \A k \in 1..n : f[k] = f[k-1] + WidthOf(text, k)

LEMMA OffsetSums ==
  ASSUME NEW text, NEW n \in Nat, NEW f, Sums(text, n, f), NEW k \in 0..n
  PROVE  Offset(text, k) = f[k]
<1> DEFINE g0 == [i \in 0..k |-> f[i]]
           bytes == CHOOSE b : OffsetEquation(text, k, b)
<1>1. OffsetEquation(text, k, g0)
  <2>1. ASSUME NEW i \in 0..k
        PROVE  g0[i] = IF i = 0 THEN 0 ELSE g0[i-1] + WidthOf(text, i)
    <3>1. CASE i = 0
      BY <3>1 DEF Sums
    <3>2. CASE i # 0
      <4>1. i \in 1..n /\ i - 1 \in 0..k
        BY <3>2
      <4> QED
        BY <3>2, <4>1 DEF Sums
    <3> QED
      BY <3>1, <3>2
  <2>2. g0 = [i \in 0..k |-> g0[i]]
    OBVIOUS
  <2> HIDE DEF g0
  <2>3. g0 = [i \in 0..k |-> IF i = 0 THEN 0 ELSE g0[i-1] + WidthOf(text, i)]
    BY <2>1, <2>2, Zenon
  <2> QED
    BY <2>3, Zenon DEF OffsetEquation
<1>2. OffsetEquation(text, k, bytes)
  BY <1>1, Zenon
<1>3. Offset(text, k) = bytes[k]
  BY OffsetIs, Zenon
<1> HIDE DEF bytes
<1>4. \A i \in 0..k : bytes[i] = IF i = 0 THEN 0 ELSE bytes[i-1] + WidthOf(text, i)
  BY <1>2, Zenon DEF OffsetEquation
<1> DEFINE T == {i \in 0..k : bytes[i] = f[i]}
<1>5. 0 \in T
  BY <1>4 DEF Sums
<1>6. ASSUME NEW i \in 0..(k - 1), i \in T
      PROVE  i + 1 \in T
  <2>1. i + 1 \in 0..k /\ i + 1 # 0 /\ (i + 1) - 1 = i /\ i + 1 \in 1..n
    OBVIOUS
  <2>2. bytes[i + 1] = bytes[i] + WidthOf(text, i + 1)
    BY <1>4, <2>1
  <2>3. f[i + 1] = f[i] + WidthOf(text, i + 1)
    BY <2>1 DEF Sums
  <2> QED
    BY <1>6, <2>1, <2>2, <2>3
<1> HIDE DEF T
<1>7. 0..k \subseteq T
  <2>1. k \in Nat
    OBVIOUS
  <2> QED
    BY <1>5, <1>6, <2>1, UpTo
<1>8. k \in T
  BY <1>7
<1> QED
  BY <1>3, <1>8 DEF T

LEMMA SumsExist ==
  ASSUME NEW text, NEW n \in Nat
  PROVE  \E f : Sums(text, n, f)
<1> DEFINE F == Nat
           first == 0
           step == [k \in 1..n |-> [x \in F |-> x + WidthOf(text, k)]]
<1>1. step \in [1..n -> [F -> F]] /\ first \in F
  BY WidthIsPositive
<1>2. PICK f \in [0..n -> F] : f[0] = first /\ \A k \in 1..n : f[k] = step[k][f[k-1]]
  <2>1. n \in Nat
    OBVIOUS
  <2> HIDE DEF F, first, step
  <2> QED
    BY ONLY <1>1, <2>1, Iteration
<1>3. \A k \in 1..n : f[k] = f[k-1] + WidthOf(text, k)
  <2> SUFFICES ASSUME NEW k \in 1..n PROVE f[k] = f[k-1] + WidthOf(text, k)
    OBVIOUS
  <2>1. f[k-1] \in Nat
    <3>1. k - 1 \in 0..n
      OBVIOUS
    <3> QED
      BY <3>1
  <2> QED
    BY <1>2, <2>1
<1> QED
  BY <1>2, <1>3 DEF Sums

\* Offsets are numbers and grow with the boundary.
LEMMA OffsetsGrow ==
  ASSUME NEW text, NEW i \in Nat, NEW k \in Nat
  PROVE  /\ Offset(text, i) \in Nat
         /\ i < k => Offset(text, i) < Offset(text, k)
<1>1. PICK f : Sums(text, i + k, f)
  BY SumsExist
<1>2. Offset(text, i) = f[i] /\ Offset(text, k) = f[k] /\ f[i] \in Nat
  <2>1. i \in 0..(i + k) /\ k \in 0..(i + k) /\ i + k \in Nat
    OBVIOUS
  <2>2. f[i] \in Nat
    BY <1>1, <2>1 DEF Sums
  <2> QED
    BY <1>1, <2>1, <2>2, OffsetSums
<1>3. ASSUME i < k PROVE f[i] < f[k]
  <2> DEFINE T == {m \in 0..k : m <= i \/ f[i] < f[m]}
  <2>1. 0 \in T
    OBVIOUS
  <2>2. ASSUME NEW m \in 0..(k - 1), m \in T
        PROVE  m + 1 \in T
    <3>1. m + 1 \in 0..k /\ m + 1 \in 1..(i + k) /\ (m + 1) - 1 = m /\ m \in 0..(i + k) /\ i \in 0..(i + k)
      OBVIOUS
    <3>2. f[m + 1] = f[m] + WidthOf(text, m + 1) /\ f[m] \in Nat /\ f[i] \in Nat
      BY <1>1, <3>1 DEF Sums
    <3>3. WidthOf(text, m + 1) \in Nat /\ WidthOf(text, m + 1) >= 1
      BY WidthIsPositive
    <3>4. CASE m + 1 <= i
      BY <3>1, <3>4
    <3>5. CASE m = i
      BY <3>1, <3>2, <3>3, <3>5
    <3>6. CASE m > i
      BY <2>2, <3>1, <3>2, <3>3, <3>6
    <3> QED
      BY <3>4, <3>5, <3>6
  <2> HIDE DEF T
  <2>3. 0..k \subseteq T
    BY <2>1, <2>2, UpTo
  <2>4. k \in T
    BY <2>3
  <2> QED
    BY <1>3, <2>4 DEF T
<1> QED
  BY <1>2, <1>3

-----------------------------------------------------------------------------
\* Triples and what is told of them.

RaisedIn(j, S) == UNION {Triples(f, For(j, f.language)) : f \in S}
RawOf(j, t)    == FileIn(j, t[1]).raws[t[2]][t[3]]
TaskOf(j, t)   == [rule |-> t[2], raw |-> RawOf(j, t)]
PlaceOf(j, t)  == FromNode(t[1], RawOf(j, t), Decode(FileIn(j, t[1]).artifact))
ToldIn(j, t)   == Finding(t[2], RawOf(j, t), PlaceOf(j, t))

RawFits(raw) ==
  /\ {"from", "to", "tier", "severity"} \subseteq DOMAIN raw
  /\ raw.from \in Nat /\ raw.to \in Nat /\ raw.from < raw.to
  /\ raw.tier \in Tier /\ raw.severity \in Severity

LEMMA TripleFacts ==
  ASSUME NEW j, JobFits(j), NEW S \in SUBSET j.files, NEW t \in RaisedIn(j, S)
  PROVE  LET f == FileIn(j, t[1])  raws == FileIn(j, t[1]).raws[t[2]]
         IN  /\ f \in S /\ f.path = t[1] /\ t \in Triples(f, For(j, f.language))
             /\ t = <<t[1], t[2], t[3]>> /\ t[2] \in Nat
             /\ RawsFit(raws) /\ t[3] \in DOMAIN raws /\ DOMAIN raws = 1..Len(raws) /\ Len(raws) \in Nat
             /\ RawFits(RawOf(j, t))
<1>1. PICK f \in S : t \in Triples(f, For(j, f.language))
  BY DEF RaisedIn
<1>2. PICK r \in For(j, f.language) : t \in {<<f.path, r.id, k>> : k \in DOMAIN f.raws[r.id]}
  BY <1>1 DEF Triples
<1>3. /\ t[1] = f.path /\ t[2] = r.id /\ t[3] \in DOMAIN f.raws[r.id]
      /\ t = <<t[1], t[2], t[3]>>
  BY <1>2
<1>4. FileIn(j, t[1]) = f /\ FileFits(f)
  BY <1>3, FileIs DEF JobFits
<1>5. RuleList(RulesOf(j)) /\ r \in Range(RulesOf(j))
  BY RulesAre DEF For
<1>6. PICK m \in DOMAIN Registry : r = Registry[m]
  BY <1>5 DEF RuleList, Range
<1>7. r.id \in Nat /\ RawsFit(f.raws[r.id])
  BY <1>4, <1>6, RegistryAssumption DEF FileFits
<1>8. f.raws[r.id] \in Seq(Range(f.raws[r.id]))
  BY <1>7 DEF RawsFit
<1>9. DOMAIN f.raws[r.id] = 1..Len(f.raws[r.id]) /\ Len(f.raws[r.id]) \in Nat
  BY <1>8
<1>10. RawFits(f.raws[r.id][t[3]])
  <2>1. f.raws[r.id][t[3]] \in Range(f.raws[r.id])
    BY <1>3 DEF Range
  <2> QED
    BY <1>7, <2>1 DEF RawsFit, RawFits
<1>11. RawOf(j, t) = f.raws[r.id][t[3]]
  BY <1>3, <1>4 DEF RawOf
<1> QED
  BY <1>1, <1>3, <1>4, <1>7, <1>9, <1>10, <1>11

\* Every finding is one that somebody told.
LEMMA ToldFacts ==
  ASSUME NEW j, JobFits(j), NEW S \in SUBSET j.files, NEW t \in RaisedIn(j, S)
  PROVE  LET f == ToldIn(j, t)  text == Decode(FileIn(j, t[1]).artifact)
         IN  /\ f.rule_id = t[2] /\ f.location = PlaceOf(j, t)
             /\ f.location.file = t[1] /\ f.rule_id \in Nat
             /\ f.tier \in Tier /\ f.evidence = EvidenceOf[f.tier] /\ f.evidence \in EvidenceClass
             /\ f.severity \in Severity
             /\ f.location.byte_start = Offset(text, RawOf(j, t).from)
             /\ f.location.byte_end = Offset(text, RawOf(j, t).to)
             /\ f.location.byte_start \in Nat /\ f.location.byte_end \in Nat
             /\ f.location.byte_start < f.location.byte_end
<1>1. RawFits(RawOf(j, t)) /\ t[2] \in Nat
  BY TripleFacts
<1> DEFINE raw == RawOf(j, t)
           text == Decode(FileIn(j, t[1]).artifact)
<1>2. raw.from \in Nat /\ raw.to \in Nat /\ raw.from < raw.to
  BY <1>1 DEF RawFits
<1>3. /\ Offset(text, raw.from) \in Nat /\ Offset(text, raw.to) \in Nat
      /\ Offset(text, raw.from) < Offset(text, raw.to)
  <2> HIDE DEF raw, text
  <2> QED
    BY <1>2, OffsetsGrow
<1>4. /\ PlaceOf(j, t).file = t[1] /\ PlaceOf(j, t).byte_start = Offset(text, raw.from)
      /\ PlaceOf(j, t).byte_end = Offset(text, raw.to)
  BY DEF PlaceOf, FromNode
<1>5. raw.tier \in Tier /\ EvidenceOf[raw.tier] \in EvidenceClass /\ raw.severity \in Severity
  BY <1>1 DEF RawFits, Tier, EvidenceOf, EvidenceClass
<1>6. /\ ToldIn(j, t).rule_id = t[2] /\ ToldIn(j, t).location = PlaceOf(j, t)
      /\ ToldIn(j, t).tier = raw.tier /\ ToldIn(j, t).evidence = EvidenceOf[raw.tier]
      /\ ToldIn(j, t).severity = raw.severity
  BY DEF ToldIn, Finding
<1> HIDE DEF raw, text
<1> QED
  BY <1>1, <1>3, <1>4, <1>5, <1>6 DEF raw, text

\* Offsets say which node it was.
LEMMA OffsetsTell ==
  ASSUME NEW text, NEW i \in Nat, NEW k \in Nat, Offset(text, i) = Offset(text, k)
  PROVE  i = k
<1>1. Offset(text, i) \in Nat /\ ~ (i < k) /\ ~ (k < i)
  BY OffsetsGrow
<1> QED
  BY <1>1

\* Findings of one rule with one start and one end in a file are copies, and
\* so is one with their start that was raised between them.
LEMMA Copies ==
  ASSUME NEW j, JobFits(j), NEW S \in SUBSET j.files, NEW t \in RaisedIn(j, S), NEW u \in RaisedIn(j, S),
         t[1] = u[1], t[2] = u[2],
         ToldIn(j, t).location.byte_start = ToldIn(j, u).location.byte_start,
         ToldIn(j, t).location.byte_end = ToldIn(j, u).location.byte_end
  PROVE  /\ ToldIn(j, t) = ToldIn(j, u)
         /\ \A v \in RaisedIn(j, S) :
              /\ v[1] = t[1] /\ v[2] = t[2] /\ t[3] <= v[3] /\ v[3] <= u[3]
              /\ ToldIn(j, v).location.byte_start = ToldIn(j, t).location.byte_start
              => ToldIn(j, v) = ToldIn(j, t)
<1> DEFINE raws == FileIn(j, t[1]).raws[t[2]]
           text == Decode(FileIn(j, t[1]).artifact)
<1>1. /\ t[3] \in 1..Len(raws) /\ u[3] \in 1..Len(raws) /\ Len(raws) \in Nat /\ RawsFit(raws)
      /\ RawFits(RawOf(j, t)) /\ RawFits(RawOf(j, u)) /\ DOMAIN raws = 1..Len(raws)
      /\ RawOf(j, t) = raws[t[3]] /\ RawOf(j, u) = raws[u[3]]
  BY TripleFacts DEF RawOf
<1>2. RawOf(j, t).from = RawOf(j, u).from /\ RawOf(j, t).to = RawOf(j, u).to
  <2>1. /\ Offset(text, RawOf(j, t).from) = Offset(text, RawOf(j, u).from)
        /\ Offset(text, RawOf(j, t).to) = Offset(text, RawOf(j, u).to)
    BY ToldFacts
  <2>2. /\ RawOf(j, t).from \in Nat /\ RawOf(j, u).from \in Nat
        /\ RawOf(j, t).to \in Nat /\ RawOf(j, u).to \in Nat
    BY <1>1 DEF RawFits
  <2> HIDE DEF text
  <2> QED
    BY <2>1, <2>2, OffsetsTell
<1>0. /\ RawsFit(raws) /\ raws[t[3]].from = raws[u[3]].from /\ raws[t[3]].to = raws[u[3]].to
      /\ t[3] \in DOMAIN raws /\ u[3] \in DOMAIN raws
  <2> HIDE DEF raws
  <2> QED
    BY <1>1, <1>2
<1>3. \A i \in (t[3])..(u[3]) : raws[i].from = raws[t[3]].from => raws[i] = raws[t[3]]
  <2> HIDE DEF raws
  <2> QED
    BY ONLY <1>0 DEF RawsFit
<1>4. \A i \in (u[3])..(t[3]) : raws[i].from = raws[u[3]].from => raws[i] = raws[u[3]]
  <2> HIDE DEF raws
  <2> QED
    BY ONLY <1>0 DEF RawsFit
<1>5. raws[t[3]] = raws[u[3]]
  <2> HIDE DEF raws
  <2>1. t[3] \in (u[3])..(t[3]) \/ u[3] \in (t[3])..(u[3])
    BY <1>1
  <2> QED
    BY <1>1, <1>2, <1>3, <1>4, <2>1
<1>6. ToldIn(j, t) = ToldIn(j, u)
  BY <1>1, <1>5 DEF ToldIn, PlaceOf
<1>7. ASSUME NEW v \in RaisedIn(j, S), v[1] = t[1], v[2] = t[2], t[3] <= v[3], v[3] <= u[3],
             ToldIn(j, v).location.byte_start = ToldIn(j, t).location.byte_start
      PROVE  ToldIn(j, v) = ToldIn(j, t)
  <2>1. /\ v[3] \in 1..Len(raws) /\ RawFits(RawOf(j, v)) /\ RawOf(j, v) = raws[v[3]]
    BY <1>7, TripleFacts DEF RawOf
  <2>2. Offset(text, RawOf(j, v).from) = Offset(text, RawOf(j, t).from)
    BY <1>7, ToldFacts
  <2>3. RawOf(j, v).from = RawOf(j, t).from
    <3>1. RawOf(j, v).from \in Nat /\ RawOf(j, t).from \in Nat
      BY <1>1, <2>1 DEF RawFits
    <3> HIDE DEF text
    <3> QED
      BY <2>2, <3>1, OffsetsTell
  <2>4. v[3] \in (t[3])..(u[3])
    <3> HIDE DEF raws
    <3> QED
      BY <1>1, <1>7, <2>1
  <2>5. RawOf(j, v) = RawOf(j, t)
    <3> HIDE DEF raws
    <3> QED
      BY <1>1, <1>3, <2>1, <2>3, <2>4
  <2> QED
    BY <1>7, <2>5 DEF ToldIn, PlaceOf
<1> QED
  BY <1>6, <1>7

-----------------------------------------------------------------------------
\* The invariant, part by part, of any values of the variables.

\* The inventory has an item for each file opened and the skips are paths of
\* theirs, with all that were to be analysed and were not.
Inventoried(S, inv, sk) ==
  /\ inv \in Seq({Item(f) : f \in S})
  /\ \A f \in S : \E k \in DOMAIN inv : inv[k] = Item(f)
  /\ \A i, k \in DOMAIN inv : inv[i].path = inv[k].path => i = k
  /\ sk \in Seq({f.path : f \in S})
  /\ \A f \in S : f.outcome \notin {"analysed", "excluded-by-policy"} => f.path \in Range(sk)

LEMMA InventoryGrows ==
  ASSUME NEW S, NEW inv, NEW sk, Inventoried(S, inv, sk),
         NEW f, \A g \in S : g.path # f.path,
         NEW more, \/ more = sk /\ f.outcome \in {"analysed", "excluded-by-policy"}
                   \/ more = Append(sk, f.path)
  PROVE  Inventoried(S \cup {f}, Append(inv, Item(f)), more)
<1> DEFINE Items == {Item(g) : g \in S}
           Paths == {g.path : g \in S}
           n == Len(inv)
           new == Append(inv, Item(f))
<1>1. inv \in Seq(Items) /\ sk \in Seq(Paths) /\ n \in Nat
  BY DEF Inventoried
<1>2. \A g : Item(g).path = g.path
  BY DEF Item
<1>3. /\ new \in Seq(Items \cup {Item(f)}) /\ DOMAIN new = 1..(n + 1) /\ DOMAIN inv = 1..n
      /\ \A k \in 1..n : new[k] = inv[k] /\ inv[k] \in Items
      /\ new[n + 1] = Item(f)
  <2> HIDE DEF Items
  <2> QED
    BY <1>1
<1>4. Items \cup {Item(f)} = {Item(g) : g \in S \cup {f}}
  OBVIOUS
<1>5. ASSUME NEW g \in S \cup {f}
      PROVE  \E k \in DOMAIN new : new[k] = Item(g)
  <2>1. CASE g = f
    <3>1. n + 1 \in DOMAIN new
      BY <1>1, <1>3
    <3> QED
      BY <1>3, <2>1, <3>1
  <2>2. CASE g \in S
    <3>1. PICK k \in DOMAIN inv : inv[k] = Item(g)
      BY <2>2 DEF Inventoried
    <3>2. k \in DOMAIN new
      BY <1>1, <1>3, <3>1
    <3> QED
      BY <1>3, <3>1, <3>2
  <2> QED
    BY <1>5, <2>1, <2>2
<1>6. ASSUME NEW i \in DOMAIN new, NEW k \in DOMAIN new, new[i].path = new[k].path
      PROVE  i = k
  <2>1. \A m \in 1..n : new[m].path # f.path
    <3> SUFFICES ASSUME NEW m \in 1..n PROVE new[m].path # f.path
      OBVIOUS
    <3>1. PICK g \in S : inv[m] = Item(g)
      BY <1>3
    <3> QED
      BY <1>2, <1>3, <3>1
  <2>2. new[n + 1].path = f.path
    BY <1>2, <1>3
  <2>3. \A a, b \in 1..n : inv[a].path = inv[b].path => a = b
    BY <1>3 DEF Inventoried
  <2>4. \A a \in 1..(n + 1) : a \in 1..n \/ a = n + 1
    BY <1>1
  <2> HIDE DEF new, n
  <2> QED
    BY <1>3, <1>6, <2>1, <2>2, <2>3, <2>4
<1>7. more \in Seq(Paths \cup {f.path}) /\ Range(sk) \subseteq Range(more)
      /\ (more = Append(sk, f.path) => f.path \in Range(more))
  <2>1. CASE more = sk /\ f.outcome \in {"analysed", "excluded-by-policy"}
    <3>1. more \in Seq(Paths \cup {f.path})
      <4> HIDE DEF Paths
      <4> QED
        BY <1>1, <2>1
    <3>2. more # Append(sk, f.path)
      <4> HIDE DEF Paths
      <4>1. Len(Append(sk, f.path)) = Len(sk) + 1 /\ Len(sk) \in Nat
        BY <1>1
      <4> QED
        BY <2>1, <4>1
    <3> QED
      BY <2>1, <3>1, <3>2
  <2>2. CASE more = Append(sk, f.path)
    <3>1. /\ more \in Seq(Paths \cup {f.path}) /\ DOMAIN more = 1..(Len(sk) + 1) /\ DOMAIN sk = 1..Len(sk)
          /\ \A k \in 1..Len(sk) : more[k] = sk[k]
          /\ more[Len(sk) + 1] = f.path /\ Len(sk) \in Nat
      <4> HIDE DEF Paths
      <4> QED
        BY <1>1, <2>2
    <3> QED
      BY <3>1 DEF Range
  <2> QED
    BY <2>1, <2>2
<1>8. \A g \in S \cup {f} : g.outcome \notin {"analysed", "excluded-by-policy"} => g.path \in Range(more)
  BY <1>7 DEF Inventoried
<1>9. Paths \cup {f.path} = {g.path : g \in S \cup {f}}
  OBVIOUS
<1> HIDE DEF new
<1>10. /\ new \in Seq({Item(g) : g \in S \cup {f}})
       /\ more \in Seq({g.path : g \in S \cup {f}})
  BY <1>3, <1>4, <1>7, <1>9
<1>11. \A i, k \in DOMAIN new : new[i].path = new[k].path => i = k
  BY <1>6
<1>12. \A g \in S \cup {f} : \E k \in DOMAIN new : new[k] = Item(g)
  BY <1>5
<1>13. Inventoried(S \cup {f}, new, more)
  BY <1>8, <1>10, <1>11, <1>12, Zenon DEF Inventoried
<1> QED
  BY <1>13 DEF new

\* h numbers A, one rule's of one file in the order they are raised.
Numbering(A, h, n) ==
  /\ h \in [1..n -> A]
  /\ \A t \in A : \E i \in 1..n : h[i] = t
  /\ \A i, k \in 1..n : h[i] = h[k] => i = k
  /\ \A i, k \in 1..n : i < k /\ h[i][1] = h[k][1] /\ h[i][2] = h[k][2] => h[i][3] < h[k][3]

\* What the rules raised in the files S was judged or is to be, once each.
Tells(j, ju, td, cur, h) ==
  /\ \A i \in 1..Len(ju) : ju[i].finding = ToldIn(j, h[i])
  /\ \A i \in 1..Len(td) : h[Len(ju) + i][1] = cur /\ td[i] = TaskOf(j, h[Len(ju) + i])

Verdicts(j, A) == {[finding |-> ToldIn(j, t), kept |-> b] : t \in A, b \in BOOLEAN}
Tasks(j, A)    == {TaskOf(j, t) : t \in A}

Chronicle(j, S, cur, ju, td) ==
  /\ ju \in Seq(Verdicts(j, RaisedIn(j, S)))
  /\ td \in Seq(Tasks(j, RaisedIn(j, S)))
  /\ \E h : Numbering(RaisedIn(j, S), h, Len(ju) + Len(td)) /\ Tells(j, ju, td, cur, h)

LEMMA ChronicleOpens ==
  ASSUME NEW j, JobFits(j), NEW S \in SUBSET j.files, NEW f \in j.files, f \notin S,
         NEW cur, NEW ju, Chronicle(j, S, cur, ju, <<>>)
  PROVE  Chronicle(j, S \cup {f}, f.path, ju, RaisedOf(j, f))
<1> DEFINE A == RaisedIn(j, S)
           B == Triples(f, For(j, f.language))
           td == RaisedOf(j, f)
           n == Len(ju)
<1>1. RaisedIn(j, S \cup {f}) = A \cup B
  BY DEF RaisedIn
<1>2. \A t \in A : t[1] # f.path
  <2> SUFFICES ASSUME NEW t \in A PROVE t[1] # f.path
    OBVIOUS
  <2>1. FileIn(j, t[1]) \in S /\ FileIn(j, t[1]).path = t[1]
    BY TripleFacts
  <2> QED
    BY <2>1 DEF JobFits
<1>3. \A t \in B : t[1] = f.path
  BY DEF Triples
<1>4. FileFits(f) /\ FileIn(j, f.path) = f
  BY FileIs DEF JobFits
<1>5. \A t \in B : TaskIn(f, t) = TaskOf(j, t)
  BY <1>3, <1>4 DEF TaskIn, TaskOf, RawOf
<1>6. PICK m, g : RaisedAs(j, f, m, g)
  BY <1>4, RaisedNumbered
<1>7. /\ m \in Nat /\ g \in [1..m -> B]
      /\ \A t \in B : \E i \in 1..m : g[i] = t
      /\ \A i, k \in 1..m : g[i] = g[k] => i = k
      /\ \A i, k \in 1..m : i < k /\ g[i][2] = g[k][2] => g[i][3] < g[k][3]
  BY <1>6 DEF Numbers, RaisedAs
<1>8. ju \in Seq(Verdicts(j, A)) /\ n \in Nat /\ Len(<<>>) = 0 /\ n + 0 = n
  BY DEF Chronicle
<1>9. PICK h0 : Numbering(A, h0, n) /\ Tells(j, ju, <<>>, cur, h0)
  <2>1. PICK h0 : Numbering(A, h0, n + Len(<<>>)) /\ Tells(j, ju, <<>>, cur, h0)
    BY DEF Chronicle
  <2>2. n + Len(<<>>) = n
    BY <1>8
  <2> HIDE DEF n
  <2> QED
    BY <2>1, <2>2
<1> DEFINE h == [i \in 1..(n + m) |-> IF i <= n THEN h0[i] ELSE g[i - n]]
<1> HIDE DEF A, B, td
<1>10. /\ \A i \in 1..n : i \in 1..(n + m) /\ h[i] = h0[i] /\ h[i] \in A
       /\ \A i \in (n + 1)..(n + m) : i - n \in 1..m /\ h[i] = g[i - n] /\ h[i] \in B
       /\ \A i \in 1..m : i + n \in (n + 1)..(n + m) /\ i + n \in 1..(n + m) /\ h[i + n] = g[i]
       /\ \A i \in 1..(n + m) : i \in 1..n \/ i \in (n + 1)..(n + m)
  <2>1. \A i \in 1..n : i \in 1..(n + m) /\ i <= n /\ h0[i] \in A
    BY <1>7, <1>8, <1>9 DEF Numbering
  <2>2. \A i \in (n + 1)..(n + m) : i \in 1..(n + m) /\ ~ (i <= n) /\ i - n \in 1..m /\ g[i - n] \in B
    <3> SUFFICES ASSUME NEW i \in (n + 1)..(n + m)
                 PROVE  i \in 1..(n + m) /\ ~ (i <= n) /\ i - n \in 1..m /\ g[i - n] \in B
      OBVIOUS
    <3>1. i \in 1..(n + m) /\ ~ (i <= n) /\ i - n \in 1..m
      BY <1>7, <1>8
    <3> QED
      BY <1>7, <3>1
  <2>3. \A i \in 1..m : i + n \in (n + 1)..(n + m) /\ (i + n) - n = i /\ i + n \in 1..(n + m) /\ ~ (i + n <= n)
    BY <1>7, <1>8
  <2>4. \A i \in 1..(n + m) : i \in 1..n \/ i \in (n + 1)..(n + m)
    BY <1>7, <1>8
  <2> HIDE DEF n
  <2> QED
    BY <2>1, <2>2, <2>3, <2>4
<1> HIDE DEF h
<1>11. Numbering(A \cup B, h, n + m)
  <2>1. \A i \in 1..(n + m) : h[i] \in A \cup B
    BY <1>10
  <2>2. h \in [1..(n + m) -> A \cup B]
    BY <2>1 DEF h
  <2>3. ASSUME NEW t \in A \cup B
        PROVE  \E i \in 1..(n + m) : h[i] = t
    <3>1. CASE t \in A
      <4>1. PICK i \in 1..n : h0[i] = t
        BY <1>9, <3>1 DEF Numbering
      <4> QED
        BY <1>10, <4>1
    <3>2. CASE t \in B
      <4>1. PICK i \in 1..m : g[i] = t
        BY <1>7, <3>2
      <4> QED
        BY <1>10, <4>1
    <3> QED
      BY <2>3, <3>1, <3>2
  <2>4. ASSUME NEW i \in 1..(n + m), NEW k \in 1..(n + m), h[i][1] = h[k][1]
        PROVE  (h[i] = h[k] => i = k) /\ (i < k /\ h[i][2] = h[k][2] => h[i][3] < h[k][3])
    <3>1. CASE i \in 1..n /\ k \in 1..n
      BY <1>9, <1>10, <2>4, <3>1 DEF Numbering
    <3>2. CASE i \in (n + 1)..(n + m) /\ k \in (n + 1)..(n + m)
      <4>1. /\ i - n \in 1..m /\ k - n \in 1..m /\ h[i] = g[i - n] /\ h[k] = g[k - n]
            /\ (i - n = k - n => i = k) /\ (i < k => i - n < k - n)
        BY <1>7, <1>8, <1>10, <3>2
      <4> QED
        BY <1>7, <4>1
    <3>3. CASE i \in 1..n /\ k \in (n + 1)..(n + m)
      BY <1>2, <1>3, <1>10, <2>4, <3>3
    <3>4. CASE k \in 1..n /\ i \in (n + 1)..(n + m)
      BY <1>2, <1>3, <1>10, <2>4, <3>4
    <3> QED
      BY <1>10, <3>1, <3>2, <3>3, <3>4
  <2>5. /\ \A i, k \in 1..(n + m) : h[i] = h[k] => i = k
        /\ \A i, k \in 1..(n + m) : i < k /\ h[i][1] = h[k][1] /\ h[i][2] = h[k][2] => h[i][3] < h[k][3]
    BY <2>4
  <2> QED
    BY <2>2, <2>3, <2>5 DEF Numbering
<1>12. td \in Seq(Tasks(j, A \cup B)) /\ Len(td) = m /\ \A i \in 1..m : td[i] = TaskOf(j, g[i])
  <2>1. \A i \in 1..m : TaskIn(f, g[i]) = TaskOf(j, g[i]) /\ TaskOf(j, g[i]) \in Tasks(j, A \cup B)
    BY <1>5, <1>7 DEF Tasks
  <2>2. td = [i \in 1..m |-> TaskIn(f, g[i])]
    BY <1>6 DEF td, RaisedAs
  <2>3. \A i \in 1..m : td[i] = TaskOf(j, g[i])
    BY <2>1, <2>2
  <2>4. DOMAIN td = 1..m /\ td = [i \in 1..m |-> td[i]] /\ \A i \in 1..m : td[i] \in Tasks(j, A \cup B)
    BY <2>1, <2>2
  <2> QED
    BY <1>7, <2>3, <2>4, SeqByElements
<1>13. Tells(j, ju, td, f.path, h)
  <2>1. \A i \in 1..n : ju[i].finding = ToldIn(j, h[i])
    BY <1>9, <1>10 DEF Tells
  <2>2. \A i \in 1..m : h[n + i][1] = f.path /\ td[i] = TaskOf(j, h[n + i])
    <3> SUFFICES ASSUME NEW i \in 1..m PROVE h[n + i][1] = f.path /\ td[i] = TaskOf(j, h[n + i])
      OBVIOUS
    <3>1. n + i = i + n
      BY <1>7, <1>8
    <3>2. h[n + i] = g[i] /\ h[n + i] \in B
      BY <1>10, <3>1
    <3> QED
      BY <1>3, <1>12, <3>2
  <2> QED
    BY <1>12, <2>1, <2>2 DEF Tells
<1>14. ju \in Seq(Verdicts(j, A \cup B))
  <2>1. Verdicts(j, A) \subseteq Verdicts(j, A \cup B)
    BY DEF Verdicts
  <2> QED
    BY <1>8, <2>1, LargerSeq
<1> QED
  BY <1>1, <1>11, <1>12, <1>13, <1>14 DEF Chronicle, td

LEMMA ChronicleJudges ==
  ASSUME NEW j, JobFits(j), NEW S \in SUBSET j.files,
         NEW cur, NEW ju, NEW td, Chronicle(j, S, cur, ju, td), td # <<>>, NEW b \in BOOLEAN
  PROVE  \E t \in RaisedIn(j, S) :
           /\ t[1] = cur /\ Head(td) = TaskOf(j, t)
           /\ Chronicle(j, S, cur, Append(ju, [finding |-> ToldIn(j, t), kept |-> b]), Tail(td))
<1> DEFINE A == RaisedIn(j, S)
           n == Len(ju)
           m == Len(td)
           V == Verdicts(j, A)
           W == Tasks(j, A)
<1>1. ju \in Seq(V) /\ n \in Nat /\ td \in Seq(W)
  BY DEF Chronicle
<1>2. m \in Nat /\ m >= 1 /\ Head(td) = td[1]
  <2> HIDE DEF W
  <2> QED
    BY <1>1
<1>3. PICK h : Numbering(A, h, n + m) /\ Tells(j, ju, td, cur, h)
  BY DEF Chronicle
<1> DEFINE t == h[n + 1]
           x == [finding |-> ToldIn(j, t), kept |-> b]
           new == Append(ju, x)
           rest == Tail(td)
<1>4. t \in A
  <2>1. n + 1 \in 1..(n + m)
    BY <1>1, <1>2
  <2> QED
    BY <1>3, <2>1 DEF Numbering
<1>5. t[1] = cur /\ Head(td) = TaskOf(j, t)
  <2>1. 1 \in 1..m
    BY <1>2
  <2> QED
    BY <1>2, <1>3, <2>1 DEF Tells
<1>6. x \in V
  BY <1>4 DEF Verdicts
<1> HIDE DEF A, V, W
<1>7. /\ new \in Seq(V) /\ Len(new) = n + 1
      /\ \A i \in 1..n : new[i] = ju[i]
      /\ new[n + 1] = x
  <2> HIDE DEF x
  <2> QED
    BY <1>1, <1>6
<1>8. /\ rest \in Seq(W) /\ Len(rest) = m - 1
      /\ \A i \in 1..(m - 1) : rest[i] = td[i + 1]
  BY <1>1, <1>2
<1> HIDE DEF t, new, rest
<1>9. Len(new) + Len(rest) = n + m
  BY <1>1, <1>2, <1>7, <1>8
<1>10. Tells(j, new, rest, cur, h)
  <2>1. ASSUME NEW i \in 1..(n + 1)
        PROVE  new[i].finding = ToldIn(j, h[i])
    <3>1. CASE i \in 1..n
      BY <1>3, <1>7, <3>1 DEF Tells
    <3>2. CASE i = n + 1
      BY <1>7, <3>2 DEF t
    <3> QED
      BY <1>1, <3>1, <3>2
  <2>2. ASSUME NEW i \in 1..(m - 1)
        PROVE  h[(n + 1) + i][1] = cur /\ rest[i] = TaskOf(j, h[(n + 1) + i])
    <3>1. (n + 1) + i = n + (i + 1) /\ i + 1 \in 1..m
      BY <1>1, <1>2
    <3>2. h[n + (i + 1)][1] = cur /\ td[i + 1] = TaskOf(j, h[n + (i + 1)])
      BY <1>3, <3>1 DEF Tells
    <3> HIDE DEF n
    <3> QED
      BY <1>8, <3>1, <3>2
  <2> QED
    BY <1>7, <1>8, <2>1, <2>2 DEF Tells
<1>11. Chronicle(j, S, cur, new, rest)
  <2>1. Numbering(A, h, Len(new) + Len(rest))
    BY <1>3, <1>9
  <2> QED
    BY <1>7, <1>8, <1>10, <2>1 DEF Chronicle, A, V, W
<1> QED
  BY <1>4, <1>5, <1>11 DEF A, new, rest

-----------------------------------------------------------------------------
\* The findings are those kept, and the suppressed are counted.

KeptAt(ju)   == {i \in 1..Len(ju) : ju[i].kept}
HiddenAt(ju) == {i \in 1..Len(ju) : ~ju[i].kept}
Findings(j, A) == {ToldIn(j, t) : t \in A}

Sifted(ju, fs, su) ==
  /\ Range(fs) = {ju[i].finding : i \in KeptAt(ju)}
  /\ su = Cardinality(HiddenAt(ju))

\* Before they are sorted they are in the order they were judged.
InOrder(ju, fs) ==
  \E e : /\ e \in [1..Len(fs) -> 1..Len(ju)]
         /\ \A m, n \in 1..Len(fs) : m < n => e[m] < e[n]
         /\ \A n \in 1..Len(fs) : fs[n] = ju[e[n]].finding

LEMMA AppendFacts ==
  ASSUME NEW V, NEW s \in Seq(V), NEW x \in V
  PROVE  /\ Len(s) \in Nat /\ Append(s, x) \in Seq(V) /\ Len(Append(s, x)) = Len(s) + 1
         /\ DOMAIN s = 1..Len(s) /\ DOMAIN Append(s, x) = 1..(Len(s) + 1)
         /\ \A i \in 1..Len(s) : i \in 1..(Len(s) + 1) /\ Append(s, x)[i] = s[i]
         /\ \A i \in 1..(Len(s) + 1) : i \in 1..Len(s) \/ i = Len(s) + 1
         /\ Len(s) + 1 \in 1..(Len(s) + 1) /\ Len(s) + 1 \notin 1..Len(s)
         /\ Append(s, x)[Len(s) + 1] = x
         /\ Range(Append(s, x)) = Range(s) \cup {x}
<1>1. /\ Len(s) \in Nat /\ Append(s, x) \in Seq(V) /\ Len(Append(s, x)) = Len(s) + 1
      /\ DOMAIN s = 1..Len(s) /\ DOMAIN Append(s, x) = 1..(Len(s) + 1)
      /\ \A i \in 1..Len(s) : Append(s, x)[i] = s[i]
      /\ Append(s, x)[Len(s) + 1] = x
  OBVIOUS
<1>2. /\ \A i \in 1..(Len(s) + 1) : i \in 1..Len(s) \/ i = Len(s) + 1
      /\ \A i \in 1..Len(s) : i \in 1..(Len(s) + 1)
      /\ Len(s) + 1 \in 1..(Len(s) + 1) /\ Len(s) + 1 \notin 1..Len(s)
  BY <1>1
<1>3. Range(Append(s, x)) = Range(s) \cup {x}
  BY <1>1, <1>2 DEF Range
<1> QED
  BY <1>1, <1>2, <1>3

LEMMA HidingSifts ==
  ASSUME NEW V, NEW ju \in Seq(V), NEW x, x.kept = FALSE, x \in V,
         NEW fs, NEW su, Sifted(ju, fs, su)
  PROVE  Sifted(Append(ju, x), fs, su + 1)
<1> DEFINE n == Len(ju)
           new == Append(ju, x)
<1>1. /\ n \in Nat /\ Len(new) = n + 1 /\ \A i \in 1..n : i \in 1..(n + 1) /\ new[i] = ju[i]
      /\ \A i \in 1..(n + 1) : i \in 1..n \/ i = n + 1
      /\ n + 1 \in 1..(n + 1) /\ n + 1 \notin 1..n
      /\ new[n + 1] = x
  BY AppendFacts
<1> HIDE DEF n, new
<1>2. KeptAt(new) = KeptAt(ju)
  BY <1>1 DEF KeptAt, n
<1>3. HiddenAt(new) = HiddenAt(ju) \cup {n + 1} /\ n + 1 \notin HiddenAt(ju)
  BY <1>1 DEF HiddenAt, n
<1>4. {new[i].finding : i \in KeptAt(new)} = {ju[i].finding : i \in KeptAt(ju)}
  BY <1>1, <1>2 DEF KeptAt, n
<1>5. IsFiniteSet(HiddenAt(ju))
  <2>1. IsFiniteSet(1..n) /\ HiddenAt(ju) \in SUBSET (1..n)
    BY <1>1, FS_Interval DEF HiddenAt, n
  <2> QED
    BY <2>1, FS_Subset
<1>6. Cardinality(HiddenAt(new)) = su + 1
  BY <1>3, <1>5, FS_AddElement DEF Sifted
<1> QED
  BY <1>4, <1>6 DEF Sifted, new

LEMMA KeepingSifts ==
  ASSUME NEW V, NEW ju \in Seq(V), NEW x, x.kept = TRUE, x \in V,
         NEW F, NEW fs \in Seq(F), x.finding \in F, NEW su, Sifted(ju, fs, su), InOrder(ju, fs)
  PROVE  /\ Sifted(Append(ju, x), Append(fs, x.finding), su)
         /\ InOrder(Append(ju, x), Append(fs, x.finding))
<1> DEFINE n == Len(ju)
           new == Append(ju, x)
           c == Len(fs)
           more == Append(fs, x.finding)
<1>1. /\ n \in Nat /\ Len(new) = n + 1 /\ \A i \in 1..n : i \in 1..(n + 1) /\ new[i] = ju[i]
      /\ \A i \in 1..(n + 1) : i \in 1..n \/ i = n + 1
      /\ n + 1 \in 1..(n + 1) /\ n + 1 \notin 1..n
      /\ new[n + 1] = x
  BY AppendFacts
<1>2. /\ c \in Nat /\ Len(more) = c + 1 /\ \A i \in 1..c : i \in 1..(c + 1) /\ more[i] = fs[i]
      /\ \A i \in 1..(c + 1) : i \in 1..c \/ i = c + 1
      /\ c + 1 \notin 1..c
      /\ more[c + 1] = x.finding /\ Range(more) = Range(fs) \cup {x.finding}
  BY AppendFacts
<1> HIDE DEF n, new, c, more
<1>3. KeptAt(new) = KeptAt(ju) \cup {n + 1} /\ HiddenAt(new) = HiddenAt(ju)
  BY <1>1 DEF KeptAt, HiddenAt, n
<1>4. {new[i].finding : i \in KeptAt(new)} = {ju[i].finding : i \in KeptAt(ju)} \cup {x.finding}
  BY <1>1, <1>3 DEF KeptAt, n
<1>5. Sifted(new, more, su)
  BY <1>2, <1>3, <1>4 DEF Sifted
<1>6. PICK e : /\ e \in [1..c -> 1..n]
               /\ \A i, k \in 1..c : i < k => e[i] < e[k]
               /\ \A i \in 1..c : fs[i] = ju[e[i]].finding
  BY DEF InOrder, c, n
<1> DEFINE d == [i \in 1..(c + 1) |-> IF i = c + 1 THEN n + 1 ELSE e[i]]
<1>7. d[c + 1] = n + 1 /\ \A i \in 1..c : d[i] = e[i] /\ d[i] \in 1..n
  BY <1>2, <1>6
<1>8. d \in [1..(c + 1) -> 1..(n + 1)]
  BY <1>1, <1>2, <1>6
<1> HIDE DEF d
<1>9. ASSUME NEW i \in 1..(c + 1), NEW k \in 1..(c + 1), i < k
      PROVE  d[i] < d[k]
  <2>1. i \in 1..c
    BY <1>2, <1>9
  <2>2. CASE k \in 1..c
    BY <1>6, <1>7, <1>9, <2>1, <2>2
  <2>3. CASE k = c + 1
    BY <1>1, <1>7, <2>1, <2>3
  <2> QED
    BY <1>2, <2>2, <2>3
<1>10. \A i \in 1..(c + 1) : more[i] = new[d[i]].finding
  <2> SUFFICES ASSUME NEW i \in 1..(c + 1) PROVE more[i] = new[d[i]].finding
    OBVIOUS
  <2>1. CASE i \in 1..c
    <3>1. more[i] = fs[i] /\ fs[i] = ju[e[i]].finding /\ d[i] = e[i] /\ e[i] \in 1..n
      BY <1>2, <1>6, <1>7, <2>1
    <3> QED
      BY <1>1, <3>1
  <2>2. CASE i = c + 1
    BY <1>1, <1>2, <1>7, <2>2
  <2> QED
    BY <1>2, <2>1, <2>2
<1>11. InOrder(new, more)
  <2>1. Len(more) = c + 1 /\ Len(new) = n + 1
    BY <1>1, <1>2
  <2>2. \A i, k \in 1..(c + 1) : i < k => d[i] < d[k]
    BY <1>9
  <2> QED
    BY <1>8, <1>10, <2>1, <2>2, Zenon DEF InOrder
<1> QED
  BY <1>5, <1>11 DEF new, more

-----------------------------------------------------------------------------
\* Anchors: every finding has one, of its rule and file no other has.

Anchored(fs, an, oc) ==
  /\ \A f \in Range(fs) : SpanKey(f) \in DOMAIN an
  /\ \A c \in DOMAIN oc : oc[c] \in Nat
  /\ \A a \in DOMAIN an : /\ an[a][2] \in Nat
                          /\ <<a[1], a[2], an[a][1]>> \in DOMAIN oc
                          /\ an[a][2] < oc[<<a[1], a[2], an[a][1]>>]
  /\ \A a, b \in DOMAIN an : a[1] = b[1] /\ a[2] = b[2] /\ an[a] = an[b] => a = b

LEMMA KeepingAnchors ==
  ASSUME NEW fs, NEW an, NEW oc, Anchored(fs, an, oc),
         NEW more, NEW f, Range(more) \subseteq Range(fs) \cup {f},
         NEW snippet, NEW key, key = <<f.rule_id, f.location.file, snippet>>,
         NEW seen, seen = IF key \in DOMAIN oc THEN oc[key] ELSE 0
  PROVE  Anchored(more, Insert(an, SpanKey(f), <<snippet, seen>>), Insert(oc, key, seen + 1))
<1> DEFINE span == SpanKey(f)
           an2 == Insert(an, span, <<snippet, seen>>)
           oc2 == Insert(oc, key, seen + 1)
<1>1. /\ DOMAIN an2 = DOMAIN an \cup {span} /\ an2[span] = <<snippet, seen>>
      /\ \A a \in DOMAIN an : a # span => an2[a] = an[a]
  BY DEF Insert
<1>2. /\ DOMAIN oc2 = DOMAIN oc \cup {key} /\ oc2[key] = seen + 1
      /\ \A c \in DOMAIN oc : c # key => oc2[c] = oc[c]
  BY DEF Insert
<1>3. span[1] = key[1] /\ span[2] = key[2] /\ key = <<span[1], span[2], snippet>>
  BY DEF SpanKey
<1> HIDE DEF an2, oc2, span
<1>4. seen \in Nat /\ seen + 1 \in Nat /\ \A c \in DOMAIN oc2 : oc2[c] \in Nat
  BY <1>2 DEF Anchored
<1>5. \A c \in DOMAIN oc : c \in DOMAIN oc2 /\ oc[c] <= oc2[c]
  <2> SUFFICES ASSUME NEW c \in DOMAIN oc PROVE c \in DOMAIN oc2 /\ oc[c] <= oc2[c]
    OBVIOUS
  <2>1. oc[c] \in Nat
    BY DEF Anchored
  <2>2. CASE c = key
    BY <1>2, <1>4, <2>1, <2>2
  <2>3. CASE c # key
    BY <1>2, <2>1, <2>3
  <2> QED
    BY <2>2, <2>3
<1>6. ASSUME NEW g \in Range(more)
      PROVE  SpanKey(g) \in DOMAIN an2
  BY <1>1 DEF Anchored, span
<1>7. ASSUME NEW a \in DOMAIN an2
      PROVE  /\ an2[a][2] \in Nat
             /\ <<a[1], a[2], an2[a][1]>> \in DOMAIN oc2
             /\ an2[a][2] < oc2[<<a[1], a[2], an2[a][1]>>]
  <2>1. CASE a = span
    <3>1. an2[a] = <<snippet, seen>> /\ <<a[1], a[2], an2[a][1]>> = key
      BY <1>1, <1>3, <2>1
    <3> QED
      BY <1>2, <1>4, <3>1
  <2>2. CASE a # span
    <3>1. a \in DOMAIN an /\ an2[a] = an[a]
      BY <1>1, <1>7, <2>2
    <3> DEFINE c == <<a[1], a[2], an[a][1]>>
    <3>2. an[a][2] \in Nat /\ c \in DOMAIN oc /\ an[a][2] < oc[c]
      BY <3>1 DEF Anchored
    <3>3. oc[c] <= oc2[c] /\ c \in DOMAIN oc2 /\ oc[c] \in Nat /\ oc2[c] \in Nat
      BY <1>4, <1>5, <3>2 DEF Anchored
    <3> HIDE DEF c
    <3>4. an[a][2] < oc2[c]
      BY <3>2, <3>3
    <3> QED
      BY <3>1, <3>2, <3>3, <3>4 DEF c
  <2> QED
    BY <2>1, <2>2
<1>8. ASSUME NEW a \in DOMAIN an, a[1] = span[1], a[2] = span[2]
      PROVE  an[a] # <<snippet, seen>>
  <2> SUFFICES ASSUME an[a] = <<snippet, seen>> PROVE FALSE
    OBVIOUS
  <2>1. an[a][1] = snippet /\ an[a][2] = seen /\ <<a[1], a[2], an[a][1]>> = key
    BY <1>3, <1>8
  <2>2. key \in DOMAIN oc /\ seen < oc[key]
    BY <2>1 DEF Anchored
  <2> QED
    BY <1>4, <2>2
<1>9. ASSUME NEW a \in DOMAIN an2, NEW b \in DOMAIN an2, a[1] = b[1], a[2] = b[2], an2[a] = an2[b]
      PROVE  a = b
  <2>1. CASE a = span /\ b # span
    BY <1>1, <1>8, <1>9, <2>1
  <2>2. CASE a # span /\ b = span
    BY <1>1, <1>8, <1>9, <2>2
  <2>3. CASE a # span /\ b # span
    BY <1>1, <1>9, <2>3 DEF Anchored
  <2> QED
    BY <2>1, <2>2, <2>3
<1> QED
  BY <1>4, <1>6, <1>7, <1>9 DEF Anchored, an2, oc2, span

-----------------------------------------------------------------------------
\* The order of a report.

BeforeIn(j, f, g) ==
  LET x == f.location  y == g.location IN
  \/ RankIn(j, x.file) < RankIn(j, y.file)
  \/ /\ x.file = y.file
     /\ \/ x.byte_start < y.byte_start
        \/ x.byte_start = y.byte_start /\ f.rule_id < g.rule_id

\* One number after another.
Lex(x, y) ==
  \/ x[1] < y[1]
  \/ x[1] = y[1] /\ x[2] < y[2]
  \/ x[1] = y[1] /\ x[2] = y[2] /\ x[3] < y[3]

LEMMA LexFacts ==
  ASSUME NEW x \in Nat \X Nat \X Nat, NEW y \in Nat \X Nat \X Nat, NEW z \in Nat \X Nat \X Nat
  PROVE  /\ ~Lex(x, x) /\ (Lex(x, y) => ~Lex(y, x))
         /\ Lex(x, y) \/ Lex(y, x) \/ x = y
         /\ Lex(x, y) /\ Lex(y, z) => Lex(x, z)
<1>1. /\ x[1] \in Nat /\ x[2] \in Nat /\ x[3] \in Nat /\ x = <<x[1], x[2], x[3]>>
      /\ y[1] \in Nat /\ y[2] \in Nat /\ y[3] \in Nat /\ y = <<y[1], y[2], y[3]>>
      /\ z[1] \in Nat /\ z[2] \in Nat /\ z[3] \in Nat
  OBVIOUS
<1>2. ~Lex(x, x) /\ (Lex(x, y) => ~Lex(y, x))
  BY <1>1 DEF Lex
<1>3. ~Lex(x, y) /\ ~Lex(y, x) => x[1] = y[1] /\ x[2] = y[2] /\ x[3] = y[3]
  BY <1>1 DEF Lex
<1>4. Lex(x, y) /\ Lex(y, z) => Lex(x, z)
  BY <1>1 DEF Lex
<1> QED
  BY <1>1, <1>2, <1>3, <1>4, Zenon

\* Positions ordered by such keys, equal ones as they were.
LEMMA LexOrder ==
  ASSUME NEW n \in Nat, NEW key \in [1..n -> Nat \X Nat \X Nat]
  PROVE  StrictOrder({p \in (1..n) \X (1..n) :
           \/ Lex(key[p[1]], key[p[2]])
           \/ ~Lex(key[p[2]], key[p[1]]) /\ p[1] < p[2]}, 1..n)
<1> DEFINE R == {p \in (1..n) \X (1..n) :
                   \/ Lex(key[p[1]], key[p[2]])
                   \/ ~Lex(key[p[2]], key[p[1]]) /\ p[1] < p[2]}
<1>1. ASSUME NEW i \in 1..n, NEW k \in 1..n
      PROVE  <<i, k>> \in R <=> Lex(key[i], key[k]) \/ (~Lex(key[k], key[i]) /\ i < k)
  OBVIOUS
<1>2. \A i \in 1..n : key[i] \in Nat \X Nat \X Nat
  OBVIOUS
<1> HIDE DEF R
<1>3. \A i \in 1..n : <<i, i>> \notin R
  BY <1>1, <1>2, LexFacts
<1>4. \A i, k \in 1..n : i # k => <<i, k>> \in R \/ <<k, i>> \in R
  BY <1>1, <1>2, LexFacts
<1>5. ASSUME NEW i \in 1..n, NEW k \in 1..n, NEW m \in 1..n, <<i, k>> \in R, <<k, m>> \in R
      PROVE  <<i, m>> \in R
  <2> DEFINE x == key[i]  y == key[k]  z == key[m]
  <2>0. x \in Nat \X Nat \X Nat /\ y \in Nat \X Nat \X Nat /\ z \in Nat \X Nat \X Nat
    BY <1>2
  <2>1. Lex(x, y) \/ (x = y /\ i < k)
    BY <1>1, <1>5, <2>0, LexFacts
  <2>2. Lex(y, z) \/ (y = z /\ k < m)
    BY <1>1, <1>5, <2>0, LexFacts
  <2>3. CASE Lex(x, z)
    BY <1>1, <2>3
  <2>4. CASE x = y /\ i < k /\ y = z /\ k < m
    <3>1. ~Lex(z, x) /\ i < m
      BY <2>0, <2>4, LexFacts
    <3> QED
      BY <1>1, <3>1
  <2> HIDE DEF x, y, z
  <2>5. Lex(x, z) \/ (x = y /\ i < k /\ y = z /\ k < m)
    BY <2>0, <2>1, <2>2, LexFacts
  <2> QED
    BY <2>3, <2>4, <2>5
<1> QED
  BY <1>3, <1>4, <1>5 DEF StrictOrder, R

\* What was found, each with who told it, one rule's of a file in their order.
InTurn(j, A, fs, g) ==
  /\ g \in [1..Len(fs) -> A]
  /\ \A n \in 1..Len(fs) : fs[n] = ToldIn(j, g[n])
  /\ \A m, n \in 1..Len(fs) : m < n /\ g[m][1] = g[n][1] /\ g[m][2] = g[n][2] => g[m][3] < g[n][3]

LEMMA FoundInTurn ==
  ASSUME NEW j, NEW S, NEW cur, NEW ju, Chronicle(j, S, cur, ju, <<>>),
         NEW fs, InOrder(ju, fs)
  PROVE  \E g : InTurn(j, RaisedIn(j, S), fs, g)
<1> DEFINE A == RaisedIn(j, S)
<1>1. Len(ju) \in Nat
  BY DEF Chronicle
<1>2. PICK h : Numbering(A, h, Len(ju) + Len(<<>>)) /\ Tells(j, ju, <<>>, cur, h)
  BY DEF Chronicle
<1>3. Len(ju) + Len(<<>>) = Len(ju)
  BY <1>1
<1>4. PICK e : /\ e \in [1..Len(fs) -> 1..Len(ju)]
               /\ \A m, n \in 1..Len(fs) : m < n => e[m] < e[n]
               /\ \A n \in 1..Len(fs) : fs[n] = ju[e[n]].finding
  BY DEF InOrder
<1> HIDE DEF A
<1>5. /\ h \in [1..Len(ju) -> A]
      /\ \A i, k \in 1..Len(ju) : i < k /\ h[i][1] = h[k][1] /\ h[i][2] = h[k][2] => h[i][3] < h[k][3]
      /\ \A i \in 1..Len(ju) : ju[i].finding = ToldIn(j, h[i])
  BY <1>2, <1>3 DEF Numbering, Tells
<1> DEFINE g == [n \in 1..Len(fs) |-> h[e[n]]]
<1>6. g \in [1..Len(fs) -> A] /\ \A n \in 1..Len(fs) : g[n] = h[e[n]] /\ e[n] \in 1..Len(ju)
  BY <1>4, <1>5
<1> HIDE DEF g
<1>7. \A n \in 1..Len(fs) : fs[n] = ToldIn(j, g[n])
  BY <1>4, <1>5, <1>6
<1>8. ASSUME NEW m \in 1..Len(fs), NEW n \in 1..Len(fs), m < n, g[m][1] = g[n][1], g[m][2] = g[n][2]
      PROVE  g[m][3] < g[n][3]
  <2>1. e[m] \in 1..Len(ju) /\ e[n] \in 1..Len(ju) /\ e[m] < e[n]
    BY <1>4, <1>6, <1>8
  <2>2. g[m] = h[e[m]] /\ g[n] = h[e[n]]
    BY <1>6
  <2>3. h[e[m]][3] < h[e[n]][3]
    BY <1>5, <1>8, <2>1, <2>2
  <2> QED
    BY <2>2, <2>3
<1> QED
  BY <1>6, <1>7, <1>8 DEF InTurn, A

\* Findings are ordered by three numbers.
KeyOf(j, t) == <<RankIn(j, t[1]), ToldIn(j, t).location.byte_start, t[2]>>

LEMMA KeysOfTold ==
  ASSUME NEW j, JobFits(j), NEW S \in SUBSET j.files, NEW t \in RaisedIn(j, S), NEW u \in RaisedIn(j, S)
  PROVE  /\ KeyOf(j, t) \in Nat \X Nat \X Nat
         /\ BeforeIn(j, ToldIn(j, t), ToldIn(j, u)) <=> Lex(KeyOf(j, t), KeyOf(j, u))
         /\ KeyOf(j, t) = KeyOf(j, u) =>
              /\ t[1] = u[1] /\ t[2] = u[2]
              /\ ToldIn(j, t).location.byte_start = ToldIn(j, u).location.byte_start
<1> DEFINE f == ToldIn(j, t)
           g == ToldIn(j, u)
<1>1. /\ FileIn(j, t[1]) \in j.files /\ FileIn(j, t[1]).path = t[1] /\ t[2] \in Nat
      /\ FileIn(j, u[1]) \in j.files /\ FileIn(j, u[1]).path = u[1]
  BY TripleFacts
<1>2. /\ f.rule_id = t[2] /\ f.location.file = t[1] /\ f.location.byte_start \in Nat
      /\ g.rule_id = u[2] /\ g.location.file = u[1]
  BY ToldFacts
<1>3. RankIn(j, t[1]) \in Nat /\ (RankIn(j, t[1]) = RankIn(j, u[1]) <=> t[1] = u[1])
  BY <1>1 DEF JobFits, FileFits, RankIn
<1>4. /\ KeyOf(j, t) = <<RankIn(j, t[1]), f.location.byte_start, t[2]>>
      /\ KeyOf(j, u) = <<RankIn(j, u[1]), g.location.byte_start, u[2]>>
  BY DEF KeyOf
<1> HIDE DEF f, g
<1>5. BeforeIn(j, f, g) <=> Lex(KeyOf(j, t), KeyOf(j, u))
  BY <1>2, <1>3, <1>4 DEF BeforeIn, Lex
<1> QED
  BY <1>1, <1>2, <1>3, <1>4, <1>5 DEF f, g

\* Of what was sorted no later one comes before an earlier, and those that
\* neither comes before the other are as they were.
Ordered(j, A, fs, g) ==
  /\ g \in [1..Len(fs) -> A]
  /\ \A n \in 1..Len(fs) : fs[n] = ToldIn(j, g[n])
  /\ \A m, n \in 1..Len(fs) : m < n =>
       /\ ~BeforeIn(j, fs[n], fs[m])
       /\ ~BeforeIn(j, fs[m], fs[n]) /\ g[m][1] = g[n][1] /\ g[m][2] = g[n][2] => g[m][3] < g[n][3]

SortedBy(j, fs) == Sorted(fs, LAMBDA f, g : BeforeIn(j, f, g))

LEMMA SortedFindings ==
  ASSUME NEW j, JobFits(j), NEW S \in SUBSET j.files, NEW A, A = RaisedIn(j, S),
         NEW fs \in Seq(Findings(j, A)), NEW g, InTurn(j, A, fs, g),
         NEW new, new = SortedBy(j, fs)
  PROVE  /\ new \in Seq(Findings(j, A)) /\ Range(new) = Range(fs)
         /\ \E h : Ordered(j, A, new, h)
<1> DEFINE n == Len(fs)
           K == 1..n
           key == [i \in K |-> KeyOf(j, g[i])]
           R == {p \in K \X K : \/ BeforeIn(j, fs[p[1]], fs[p[2]])
                                \/ ~BeforeIn(j, fs[p[2]], fs[p[1]]) /\ p[1] < p[2]}
<1>0. n \in Nat /\ DOMAIN fs = K
  OBVIOUS
<1>1. new = Arranged(fs, K, R)
  BY DEF SortedBy, Sorted
<1>2. g \in [K -> A] /\ \A i \in K : fs[i] = ToldIn(j, g[i])
  BY DEF InTurn
<1>c. IsFiniteSet(K) /\ Cardinality(K) = n
  BY <1>0, FS_Interval
<1>k. K \in SUBSET (1..Len(fs))
  OBVIOUS
<1> HIDE DEF K, n
<1>3. ASSUME NEW i \in K, NEW k \in K
      PROVE  /\ key[i] \in Nat \X Nat \X Nat
             /\ BeforeIn(j, fs[i], fs[k]) <=> Lex(key[i], key[k])
  <2>1. /\ g[i] \in RaisedIn(j, S) /\ g[k] \in RaisedIn(j, S)
        /\ fs[i] = ToldIn(j, g[i]) /\ fs[k] = ToldIn(j, g[k])
    BY <1>2
  <2>2. key[i] = KeyOf(j, g[i]) /\ key[k] = KeyOf(j, g[k])
    OBVIOUS
  <2> HIDE DEF key
  <2> QED
    BY <2>1, <2>2, KeysOfTold
<1>4. key \in [K -> Nat \X Nat \X Nat]
  BY <1>3
<1> HIDE DEF key
<1> DEFINE Q == {p \in K \X K : \/ Lex(key[p[1]], key[p[2]])
                                \/ ~Lex(key[p[2]], key[p[1]]) /\ p[1] < p[2]}
<1>5. R = Q
  <2> SUFFICES ASSUME NEW p \in K \X K PROVE p \in R <=> p \in Q
    OBVIOUS
  <2>1. p[1] \in K /\ p[2] \in K
    OBVIOUS
  <2> QED
    BY <1>3, <2>1
<1>6. StrictOrder(R, K)
  <2>1. StrictOrder(Q, K)
    BY <1>0, <1>4, LexOrder DEF K
  <2> QED
    BY <1>5, <2>1
<1>7. \A i, k \in K : <<i, k>> \in R <=> BeforeIn(j, fs[i], fs[k]) \/ (~BeforeIn(j, fs[k], fs[i]) /\ i < k)
  OBVIOUS
<1> HIDE DEF R, Q
<1>8. PICK at : Picks(at, fs, K, R, new)
  BY <1>1, <1>6, <1>c, ArrangedPicks
<1>9. Len(new) = n /\ DOMAIN new = K /\ new \in Seq(Findings(j, A))
  <2>1. /\ new \in Seq(Findings(j, A)) /\ Len(new) = Cardinality(K) /\ DOMAIN new = 1..Cardinality(K)
    <3>1. PickedFrom(Findings(j, A), fs, K, at, new)
      BY <1>8, <1>k, Picked
    <3> QED
      BY <3>1 DEF PickedFrom
  <2> QED
    BY <1>c, <2>1 DEF K
<1>10. /\ at \in [K -> K] /\ \A k \in K : \E i \in K : at[i] = k
       /\ \A i, k \in K : i < k <=> <<at[i], at[k]>> \in R
       /\ \A i \in K : new[i] = fs[at[i]]
  <2>1. 1..Cardinality(K) = K
    BY <1>c DEF K
  <2> QED
    BY <1>8, <2>1 DEF Picks
<1>11. Range(new) = Range(fs)
  <2>1. \A i \in K : new[i] \in Range(fs)
    BY <1>0, <1>10 DEF Range
  <2>2. ASSUME NEW k \in K
        PROVE  fs[k] \in Range(new)
    <3>1. PICK i \in K : at[i] = k
      BY <1>10
    <3>2. new[i] = fs[k] /\ i \in DOMAIN new
      BY <1>9, <1>10, <3>1
    <3> QED
      BY <3>2 DEF Range
  <2> QED
    BY <1>0, <1>9, <2>1, <2>2 DEF Range
<1> DEFINE h == [i \in K |-> g[at[i]]]
<1>12. h \in [K -> A] /\ \A i \in K : h[i] = g[at[i]] /\ at[i] \in K /\ new[i] = fs[at[i]]
  BY <1>2, <1>10
<1> HIDE DEF h
<1>13. \A i \in K : new[i] = ToldIn(j, h[i])
  BY <1>2, <1>12
<1>14. ASSUME NEW i \in K, NEW k \in K, i < k
       PROVE  /\ ~BeforeIn(j, new[k], new[i])
              /\ ~BeforeIn(j, new[i], new[k]) /\ h[i][1] = h[k][1] /\ h[i][2] = h[k][2] => h[i][3] < h[k][3]
  <2>1. BeforeIn(j, new[i], new[k]) \/ (~BeforeIn(j, new[k], new[i]) /\ at[i] < at[k])
    <3>1. at[i] \in K /\ at[k] \in K /\ new[i] = fs[at[i]] /\ new[k] = fs[at[k]]
      BY <1>12
    <3>2. <<at[i], at[k]>> \in R
      BY <1>10, <1>14
    <3>3. BeforeIn(j, fs[at[i]], fs[at[k]]) \/ (~BeforeIn(j, fs[at[k]], fs[at[i]]) /\ at[i] < at[k])
      BY <1>7, <3>1, <3>2
    <3> QED
      BY <3>1, <3>3
  <2>2. BeforeIn(j, new[i], new[k]) => ~BeforeIn(j, new[k], new[i])
    <3>1. /\ new[i] = ToldIn(j, h[i]) /\ new[k] = ToldIn(j, h[k])
          /\ h[i] \in RaisedIn(j, S) /\ h[k] \in RaisedIn(j, S)
      BY <1>12, <1>13
    <3> QED
      BY <3>1, KeysOfTold, LexFacts
  <2>3. ASSUME at[i] < at[k], h[i][1] = h[k][1], h[i][2] = h[k][2]
        PROVE  h[i][3] < h[k][3]
    <3>1. h[i] = g[at[i]] /\ h[k] = g[at[k]] /\ at[i] \in 1..Len(fs) /\ at[k] \in 1..Len(fs)
      BY <1>12 DEF K, n
    <3>2. \A p, q \in 1..Len(fs) : p < q /\ g[p][1] = g[q][1] /\ g[p][2] = g[q][2] => g[p][3] < g[q][3]
      BY DEF InTurn
    <3>3. g[at[i]][3] < g[at[k]][3]
      BY <2>3, <3>1, <3>2
    <3> QED
      BY <3>1, <3>3
  <2> QED
    BY <2>1, <2>2, <2>3
<1>15. Ordered(j, A, new, h)
  BY <1>9, <1>12, <1>13, <1>14 DEF Ordered, K
<1> QED
  BY <1>9, <1>11, <1>15

\* No two are of one rule and place, and none comes before an earlier one.
Tidy(j, fs) ==
  \A m, n \in DOMAIN fs : m < n =>
    /\ ~BeforeIn(j, fs[n], fs[m])
    /\ <<fs[m].rule_id, fs[m].location>> # <<fs[n].rule_id, fs[n].location>>

LEMMA SameAreCopies ==
  ASSUME NEW j, JobFits(j), NEW S \in SUBSET j.files, NEW t \in RaisedIn(j, S), NEW u \in RaisedIn(j, S),
         Same(ToldIn(j, t), ToldIn(j, u))
  PROVE  /\ t[1] = u[1] /\ t[2] = u[2] /\ ToldIn(j, t) = ToldIn(j, u)
         /\ ToldIn(j, t).location.byte_start = ToldIn(j, u).location.byte_start
         /\ ToldIn(j, t).location.byte_end = ToldIn(j, u).location.byte_end
<1> DEFINE f == ToldIn(j, t)
           g == ToldIn(j, u)
<1>1. f.rule_id = g.rule_id /\ f.location = g.location
  BY DEF Same
<1>2. f.rule_id = t[2] /\ f.location.file = t[1] /\ g.rule_id = u[2] /\ g.location.file = u[1]
  BY ToldFacts
<1> HIDE DEF f, g
<1>3. /\ t[1] = u[1] /\ t[2] = u[2] /\ f.location.byte_start = g.location.byte_start
      /\ f.location.byte_end = g.location.byte_end
  BY <1>1, <1>2
<1>4. f = g
  BY <1>3, Copies DEF f, g
<1> QED
  BY <1>3, <1>4 DEF f, g

\* What is the same as its neighbour is the same as any copy before it.
LEMMA NeighboursTell ==
  ASSUME NEW j, JobFits(j), NEW S \in SUBSET j.files, NEW A, A = RaisedIn(j, S),
         NEW s \in Seq(Findings(j, A)), NEW h, Ordered(j, A, s, h),
         NEW m \in DOMAIN s, NEW n \in DOMAIN s, m < n, Same(s[m], s[n])
  PROVE  n - 1 \in DOMAIN s /\ n # 1 /\ Same(s[n], s[n-1])
<1> DEFINE k == n - 1
<1>1. Len(s) \in Nat /\ DOMAIN s = 1..Len(s)
  OBVIOUS
<1>2. k \in 1..Len(s) /\ m <= k /\ k < n /\ n # 1 /\ m \in 1..Len(s) /\ n \in 1..Len(s)
  BY <1>1
<1> HIDE DEF k
<1>3. /\ h[m] \in RaisedIn(j, S) /\ h[n] \in RaisedIn(j, S) /\ h[k] \in RaisedIn(j, S)
      /\ s[m] = ToldIn(j, h[m]) /\ s[n] = ToldIn(j, h[n]) /\ s[k] = ToldIn(j, h[k])
  BY <1>2 DEF Ordered
<1>4. /\ h[m][1] = h[n][1] /\ h[m][2] = h[n][2]
      /\ s[m].location.byte_start = s[n].location.byte_start
      /\ s[m].location.byte_end = s[n].location.byte_end
  BY <1>3, SameAreCopies
<1>5. s[m] = s[n] /\ \A v \in RaisedIn(j, S) :
           /\ v[1] = h[m][1] /\ v[2] = h[m][2] /\ h[m][3] <= v[3] /\ v[3] <= h[n][3]
           /\ ToldIn(j, v).location.byte_start = ToldIn(j, h[m]).location.byte_start
           => ToldIn(j, v) = ToldIn(j, h[m])
  BY <1>3, <1>4, Copies
<1>6. CASE k = m
  BY <1>1, <1>2, <1>6, <1>5 DEF Same, k
<1>7. CASE k # m
  <2>1. m < k
    BY <1>2, <1>7
  <2>2. ~BeforeIn(j, s[k], s[m]) /\ ~BeforeIn(j, s[n], s[k])
    BY <1>2, <2>1 DEF Ordered
  <2>3. ~BeforeIn(j, s[m], s[k])
    BY <1>5, <2>2
  <2>4. KeyOf(j, h[m]) = KeyOf(j, h[k])
    <3> DEFINE x == KeyOf(j, h[m])
               y == KeyOf(j, h[k])
    <3>1. /\ x \in Nat \X Nat \X Nat /\ y \in Nat \X Nat \X Nat
          /\ BeforeIn(j, s[m], s[k]) <=> Lex(x, y)
          /\ BeforeIn(j, s[k], s[m]) <=> Lex(y, x)
      <4>1. /\ x \in Nat \X Nat \X Nat
            /\ BeforeIn(j, ToldIn(j, h[m]), ToldIn(j, h[k])) <=> Lex(KeyOf(j, h[m]), KeyOf(j, h[k]))
        BY <1>3, KeysOfTold
      <4>2. /\ y \in Nat \X Nat \X Nat
            /\ BeforeIn(j, ToldIn(j, h[k]), ToldIn(j, h[m])) <=> Lex(KeyOf(j, h[k]), KeyOf(j, h[m]))
        BY <1>3, KeysOfTold
      <4> QED
        BY <4>1, <4>2, <1>3
    <3> HIDE DEF x, y
    <3>2. ~Lex(x, y) /\ ~Lex(y, x)
      BY <2>2, <2>3, <3>1
    <3>3. x = y
      BY <3>1, <3>2, LexFacts
    <3> QED
      BY <3>3 DEF x, y
  <2>5. /\ h[k][1] = h[m][1] /\ h[k][2] = h[m][2]
        /\ s[k].location.byte_start = s[m].location.byte_start
    BY <1>3, <2>4, KeysOfTold
  <2>6. h[m][3] < h[k][3]
    BY <1>2, <2>1, <2>3, <2>5 DEF Ordered
  <2>7. h[k][3] < h[n][3]
    BY <1>2, <1>4, <1>5, <2>2, <2>5 DEF Ordered
  <2>8. h[m][3] \in Nat /\ h[k][3] \in Nat /\ h[n][3] \in Nat
    <3>1. ASSUME NEW t \in RaisedIn(j, S)
          PROVE  t[3] \in Nat
      BY TripleFacts
    <3> QED
      BY <1>3, <3>1
  <2>9. h[m][3] <= h[k][3] /\ h[k][3] <= h[n][3]
    BY <2>6, <2>7, <2>8
  <2>10. s[k] = s[m]
    BY <1>3, <1>5, <2>5, <2>9
  <2> QED
    BY <1>1, <1>2, <1>5, <2>10 DEF Same, k
<1> QED
  BY <1>6, <1>7

DedupOf(s) == Dedup(s, LAMBDA f, g : Same(f, g))

\* What Finish makes of what was found.
LEMMA FinishTidies ==
  ASSUME NEW j, JobFits(j), NEW S \in SUBSET j.files, NEW A, A = RaisedIn(j, S),
         NEW fs \in Seq(Findings(j, A)), NEW g, InTurn(j, A, fs, g),
         NEW new, new = DedupOf(SortedBy(j, fs))
  PROVE  new \in Seq(Findings(j, A)) /\ Range(new) = Range(fs) /\ Tidy(j, new)
<1> DEFINE s == SortedBy(j, fs)
           n == Len(s)
           K == {k \in DOMAIN s : k = 1 \/ ~Same(s[k], s[k-1])}
<1>1. s \in Seq(Findings(j, A)) /\ Range(s) = Range(fs) /\ \E h : Ordered(j, A, s, h)
  BY SortedFindings
<1>2. PICK h : Ordered(j, A, s, h)
  BY <1>1
<1>3. new = At(s, K)
  BY DEF DedupOf, Dedup
<1> HIDE DEF s
<1>4. n \in Nat /\ DOMAIN s = 1..n /\ K \in SUBSET (1..n)
  BY <1>1
<1>5. ASSUME NEW p \in DOMAIN s, NEW q \in DOMAIN s, p < q, Same(s[p], s[q])
      PROVE  q \notin K
  BY <1>1, <1>2, <1>5, NeighboursTell
<1>6. ASSUME NEW k \in DOMAIN s
      PROVE  \E m \in K : s[m] = s[k]
  <2> DEFINE T == {m \in 1..n : s[m] = s[k]}
  <2>1. T \in SUBSET Nat /\ k \in T
    BY <1>4
  <2>2. PICK m \in T : \A i \in T : m <= i
    <3> HIDE DEF T
    <3> QED
      BY <2>1, LeastNatural
  <2>3. m \in 1..n /\ s[m] = s[k] /\ m \in DOMAIN s
    BY <1>4, <2>2
  <2>4. CASE m \notin K
    <3>1. m # 1 /\ Same(s[m], s[m-1])
      BY <2>3, <2>4
    <3>2. m - 1 \in 1..n /\ m - 1 < m
      BY <1>4, <2>3, <3>1
    <3>3. s[m-1] = s[m]
      <4>1. /\ h[m] \in RaisedIn(j, S) /\ h[m-1] \in RaisedIn(j, S)
            /\ s[m] = ToldIn(j, h[m]) /\ s[m-1] = ToldIn(j, h[m-1])
        BY <1>2, <2>3, <3>2 DEF Ordered
      <4> QED
        BY <3>1, <4>1, SameAreCopies
    <3>4. m - 1 \in T
      BY <2>3, <3>2, <3>3
    <3>5. m <= m - 1
      BY <2>2, <3>4
    <3> QED
      BY <2>3, <3>5
  <2> QED
    BY <2>3, <2>4
<1> HIDE DEF n, K
<1>7. PICK at : /\ Picks(at, s, K, {p \in K \X K : p[1] < p[2]}, new)
                /\ \A i, k \in 1..Cardinality(K) : i < k <=> at[i] < at[k]
  <2>1. \E at : /\ Picks(at, s, K, {p \in K \X K : p[1] < p[2]}, At(s, K))
                /\ \A i, k \in 1..Cardinality(K) : i < k <=> at[i] < at[k]
    BY <1>4, AtPicks
  <2> QED
    BY <1>3, <2>1
<1>8. /\ new \in Seq(Findings(j, A)) /\ DOMAIN new = 1..Cardinality(K)
      /\ \A i \in DOMAIN new : at[i] \in K /\ new[i] = s[at[i]]
      /\ \A k \in K : \E i \in DOMAIN new : at[i] = k /\ new[i] = s[k]
  <2>1. K \in SUBSET (1..Len(s)) /\ s \in Seq(Findings(j, A))
    BY <1>1, <1>4 DEF n
  <2>2. PickedFrom(Findings(j, A), s, K, at, new)
    BY <1>7, <2>1, Picked
  <2> QED
    BY <2>2 DEF PickedFrom
<1>9. Range(new) = Range(s)
  <2>1. ASSUME NEW i \in DOMAIN new
        PROVE  new[i] \in Range(s)
    <3>1. new[i] = s[at[i]] /\ at[i] \in DOMAIN s
      BY <1>4, <1>8
    <3> QED
      BY <3>1 DEF Range
  <2>2. ASSUME NEW k \in DOMAIN s
        PROVE  s[k] \in Range(new)
    <3>1. PICK m \in K : s[m] = s[k]
      BY <1>6
    <3>2. PICK i \in DOMAIN new : new[i] = s[m]
      BY <1>8
    <3> QED
      BY <3>1, <3>2 DEF Range
  <2> QED
    BY <2>1, <2>2 DEF Range
<1>10. ASSUME NEW i \in DOMAIN new, NEW k \in DOMAIN new, i < k
       PROVE  /\ ~BeforeIn(j, new[k], new[i])
              /\ <<new[i].rule_id, new[i].location>> # <<new[k].rule_id, new[k].location>>
  <2>1. /\ at[i] \in 1..n /\ at[k] \in 1..n /\ at[k] \in K /\ at[i] < at[k]
        /\ new[i] = s[at[i]] /\ new[k] = s[at[k]]
    BY <1>4, <1>7, <1>8, <1>10
  <2>2. ~BeforeIn(j, s[at[k]], s[at[i]])
    BY <1>2, <2>1 DEF Ordered, n
  <2>3. ~Same(s[at[i]], s[at[k]])
    BY <1>4, <1>5, <2>1
  <2> QED
    BY <2>1, <2>2, <2>3 DEF Same
<1> QED
  BY <1>1, <1>8, <1>9, <1>10 DEF Tidy

-----------------------------------------------------------------------------
\* The inventory and the skips, sorted by rank.

LEMMA UpToCount ==
  ASSUME NEW n \in Nat
  PROVE  IsFiniteSet(1..n) /\ Cardinality(1..n) = n
  BY FS_Interval

\* at numbers the positions 1 to n anew.
Shuffles(at, n) ==
  /\ at \in [1..n -> 1..n]
  /\ \A k \in 1..n : \E i \in 1..n : at[i] = k
  /\ \A i, k \in 1..n : at[i] = at[k] => i = k

\* new has the elements of seq, in X, at other positions.
Reorders(X, seq, new) ==
  /\ new \in Seq(X) /\ DOMAIN new = 1..Len(seq) /\ DOMAIN seq = 1..Len(seq)
  /\ \E at : Shuffles(at, Len(seq)) /\ \A i \in 1..Len(seq) : new[i] = seq[at[i]]

\* Positions by a number, equal ones as they were.
KeyOrder(key, n) ==
  {p \in (1..n) \X (1..n) : \/ key[p[1]] < key[p[2]]
                            \/ ~(key[p[2]] < key[p[1]]) /\ p[1] < p[2]}

LEMMA SortByKey ==
  ASSUME NEW X, NEW seq \in Seq(X), NEW n, n = Len(seq), NEW key \in [1..n -> Nat],
         NEW new, new = Arranged(seq, 1..n, KeyOrder(key, n))
  PROVE  Reorders(X, seq, new)
<1> DEFINE K == 1..n
           R == KeyOrder(key, n)
<1>1. n \in Nat /\ DOMAIN seq = K /\ K \in SUBSET (1..Len(seq))
  OBVIOUS
<1>2. StrictOrder(R, K)
  BY <1>1, OrderByKey DEF KeyOrder
<1>3. IsFiniteSet(K) /\ Cardinality(K) = n
  BY <1>1, UpToCount
<1>4. new = Arranged(seq, K, R)
  OBVIOUS
<1>a. 1..n = K
  OBVIOUS
<1> HIDE DEF K, R
<1>5. PICK at : Picks(at, seq, K, R, new)
  BY <1>2, <1>3, <1>4, ArrangedPicks
<1>6. new \in Seq(X) /\ DOMAIN new = K
  <2>1. PickedFrom(X, seq, K, at, new)
    BY <1>1, <1>5, Picked
  <2> QED
    BY <1>3, <1>a, <2>1 DEF PickedFrom
<1>7. /\ at \in [K -> K] /\ \A k \in K : \E i \in K : at[i] = k
      /\ \A i, k \in K : i < k <=> <<at[i], at[k]>> \in R
      /\ \A i \in K : new[i] = seq[at[i]]
  BY <1>3, <1>5, <1>a DEF Picks
<1>8. ASSUME NEW i \in K, NEW k \in K, at[i] = at[k]
      PROVE  i = k
  <2>1. <<at[i], at[i]>> \notin R
    BY <1>2, <1>7 DEF StrictOrder
  <2>2. ~(i < k) /\ ~(k < i)
    BY <1>7, <1>8, <2>1
  <2> QED
    BY <1>1, <2>2 DEF K
<1>9. Shuffles(at, n)
  BY <1>7, <1>8, <1>a DEF Shuffles
<1> QED
  BY <1>1, <1>6, <1>7, <1>9, <1>a DEF Reorders

SortedItems(j, inv) == Sorted(inv, LAMBDA d, e : RankIn(j, d.path) < RankIn(j, e.path))
SortedPaths(j, sk)  == Sorted(sk, LAMBDA p, q : RankIn(j, p) < RankIn(j, q))

LEMMA ItemsSort ==
  ASSUME NEW j, JobFits(j), NEW S \in SUBSET j.files, NEW X, X = {Item(f) : f \in S},
         NEW inv \in Seq(X), NEW new, new = SortedItems(j, inv),
         NEW n, n = Len(inv)
  PROVE  Reorders(X, inv, new)
<1> DEFINE key == [i \in 1..n |-> RankIn(j, inv[i].path)]
           R == {p \in (1..n) \X (1..n) :
                   \/ RankIn(j, inv[p[1]].path) < RankIn(j, inv[p[2]].path)
                   \/ ~(RankIn(j, inv[p[2]].path) < RankIn(j, inv[p[1]].path)) /\ p[1] < p[2]}
<1>1. ASSUME NEW i \in 1..n
      PROVE  RankIn(j, inv[i].path) \in Nat
  <2>1. PICK f \in S : inv[i] = Item(f)
    OBVIOUS
  <2>2. inv[i].path = f.path
    BY <2>1 DEF Item
  <2>3. FileIn(j, f.path) = f /\ f.rank \in Nat
    BY FileIs DEF JobFits, FileFits
  <2> QED
    BY <2>2, <2>3 DEF RankIn
<1>2. key \in [1..n -> Nat] /\ n \in Nat
  BY <1>1
<1>3. new = Arranged(inv, 1..n, R)
  BY DEF SortedItems, Sorted
<1>4. R = KeyOrder(key, n)
  <2> SUFFICES ASSUME NEW p \in (1..n) \X (1..n) PROVE p \in R <=> p \in KeyOrder(key, n)
    BY DEF KeyOrder
  <2>1. p[1] \in 1..n /\ p[2] \in 1..n
    BY <1>2
  <2>2. key[p[1]] = RankIn(j, inv[p[1]].path) /\ key[p[2]] = RankIn(j, inv[p[2]].path)
    BY <2>1
  <2> HIDE DEF key
  <2> QED
    BY <2>2 DEF KeyOrder
<1> HIDE DEF key, R
<1>5. new = Arranged(inv, 1..n, KeyOrder(key, n))
  BY <1>3, <1>4
<1> QED
  BY ONLY inv \in Seq(X), n = Len(inv), <1>2, <1>5, SortByKey

LEMMA PathsSort ==
  ASSUME NEW j, JobFits(j), NEW S \in SUBSET j.files, NEW X, X = {f.path : f \in S},
         NEW sk \in Seq(X), NEW new, new = SortedPaths(j, sk),
         NEW n, n = Len(sk)
  PROVE  Reorders(X, sk, new)
<1> DEFINE key == [i \in 1..n |-> RankIn(j, sk[i])]
           R == {p \in (1..n) \X (1..n) :
                   \/ RankIn(j, sk[p[1]]) < RankIn(j, sk[p[2]])
                   \/ ~(RankIn(j, sk[p[2]]) < RankIn(j, sk[p[1]])) /\ p[1] < p[2]}
<1>1. ASSUME NEW i \in 1..n
      PROVE  RankIn(j, sk[i]) \in Nat
  <2>1. PICK f \in S : sk[i] = f.path
    OBVIOUS
  <2>2. sk[i] = f.path
    BY <2>1 DEF Item
  <2>3. FileIn(j, f.path) = f /\ f.rank \in Nat
    BY FileIs DEF JobFits, FileFits
  <2> QED
    BY <2>2, <2>3 DEF RankIn
<1>2. key \in [1..n -> Nat] /\ n \in Nat
  BY <1>1
<1>3. new = Arranged(sk, 1..n, R)
  BY DEF SortedPaths, Sorted
<1>4. R = KeyOrder(key, n)
  <2> SUFFICES ASSUME NEW p \in (1..n) \X (1..n) PROVE p \in R <=> p \in KeyOrder(key, n)
    BY DEF KeyOrder
  <2>1. p[1] \in 1..n /\ p[2] \in 1..n
    BY <1>2
  <2>2. key[p[1]] = RankIn(j, sk[p[1]]) /\ key[p[2]] = RankIn(j, sk[p[2]])
    BY <2>1
  <2> HIDE DEF key
  <2> QED
    BY <2>2 DEF KeyOrder
<1> HIDE DEF key, R
<1>5. new = Arranged(sk, 1..n, KeyOrder(key, n))
  BY <1>3, <1>4
<1> QED
  BY ONLY sk \in Seq(X), n = Len(sk), <1>2, <1>5, SortByKey

LEMMA InventorySorts ==
  ASSUME NEW j, JobFits(j), NEW S \in SUBSET j.files, NEW inv, NEW sk, Inventoried(S, inv, sk),
         NEW inv2, inv2 = SortedItems(j, inv), NEW sk2, sk2 = SortedPaths(j, sk)
  PROVE  Inventoried(S, inv2, sk2)
<1> DEFINE X == {Item(f) : f \in S}
           Y == {f.path : f \in S}
           n == Len(inv)
           m == Len(sk)
<1>0. inv \in Seq(X) /\ sk \in Seq(Y)
  BY DEF Inventoried
<1>a. X = {Item(f) : f \in S} /\ Y = {f.path : f \in S} /\ n = Len(inv) /\ m = Len(sk)
  OBVIOUS
<1> HIDE DEF X, Y, n, m
<1>1b. Reorders(X, inv, inv2)
  BY <1>0, <1>a, ItemsSort
<1>1. inv2 \in Seq(X) /\ DOMAIN inv2 = 1..n /\ DOMAIN inv = 1..n
  BY <1>1b, <1>a DEF Reorders
<1>2. PICK at : Shuffles(at, n) /\ \A i \in 1..n : inv2[i] = inv[at[i]]
  BY <1>1b, <1>a DEF Reorders
<1>3b. Reorders(Y, sk, sk2)
  BY <1>0, <1>a, PathsSort
<1>3. sk2 \in Seq(Y) /\ DOMAIN sk2 = 1..m /\ DOMAIN sk = 1..m
  BY <1>3b, <1>a DEF Reorders
<1>4. PICK am : Shuffles(am, m) /\ \A i \in 1..m : sk2[i] = sk[am[i]]
  BY <1>3b, <1>a DEF Reorders
<1>5. ASSUME NEW f \in S
      PROVE  \E k \in DOMAIN inv2 : inv2[k] = Item(f)
  <2>1. PICK k \in 1..n : inv[k] = Item(f)
    BY <1>1 DEF Inventoried
  <2>2. PICK i \in 1..n : at[i] = k
    BY <1>2 DEF Shuffles
  <2> QED
    BY <1>1, <1>2, <2>1, <2>2
<1>6. ASSUME NEW i \in DOMAIN inv2, NEW k \in DOMAIN inv2, inv2[i].path = inv2[k].path
      PROVE  i = k
  <2>1. i \in 1..n /\ k \in 1..n /\ at[i] \in 1..n /\ at[k] \in 1..n
    BY <1>1, <1>2 DEF Shuffles
  <2>2. inv[at[i]].path = inv[at[k]].path
    BY <1>2, <1>6, <2>1
  <2>3. at[i] = at[k]
    BY <1>1, <2>1, <2>2 DEF Inventoried
  <2> QED
    BY <1>2, <2>1, <2>3 DEF Shuffles
<1>7. ASSUME NEW f \in S, f.outcome \notin {"analysed", "excluded-by-policy"}
      PROVE  f.path \in Range(sk2)
  <2>1. f.path \in Range(sk)
    BY <1>7 DEF Inventoried
  <2>2. PICK k \in 1..m : sk[k] = f.path
    BY <1>3, <2>1 DEF Range
  <2>3. PICK i \in 1..m : am[i] = k
    BY <1>4 DEF Shuffles
  <2>4. sk2[i] = f.path /\ i \in DOMAIN sk2
    BY <1>3, <1>4, <2>2, <2>3
  <2> QED
    BY <2>4 DEF Range
<1> QED
  BY <1>1, <1>3, <1>5, <1>6, <1>7 DEF Inventoried, X, Y

-----------------------------------------------------------------------------
\* The inductive invariant.

Collected == phase \in {"collected", "printed"}

\* The files read so far, and those of them with something to analyse.
Opened    == IF phase \in {"start", "refused"} THEN {} ELSE job.files \ pending
ReadFiles == {f \in Opened : f.outcome = "analysed"}

Shape ==
  /\ JobFits(job) /\ OptionsFit(job)
  /\ phase \in {"start", "read", "refused", "collected", "printed"}
  /\ pending \subseteq job.files
  /\ Collected => pending = {}
  /\ phase # "read" => todo = <<>>
  /\ edits \in Nat

\* What was printed is what was collected, as long as nobody edits it.
PrintInv == Printed => report = ScanReport /\ document = Render(report)

Inv ==
  /\ Shape
  /\ Inventoried(Opened, inventory, skipped)
  /\ Chronicle(job, ReadFiles, current, judged, todo)
  /\ findings \in Seq(Findings(job, RaisedIn(job, ReadFiles)))
  /\ Sifted(judged, findings, suppressed)
  /\ Collected => Tidy(job, findings)
  /\ ~Collected => InOrder(judged, findings)
  /\ Anchored(findings, anchors, occurrences)
  /\ PrintInv

\* A job with nothing read yet.
LEMMA NothingYet ==
  ASSUME NEW j
  PROVE  /\ Inventoried({}, <<>>, <<>>) /\ Sifted(<<>>, <<>>, 0) /\ InOrder(<<>>, <<>>)
         /\ Anchored(<<>>, <<>>, <<>>)
         /\ \A cur : Chronicle(j, {}, cur, <<>>, <<>>)
         /\ <<>> \in Seq(Findings(j, RaisedIn(j, {})))
<1>1. Inventoried({}, <<>>, <<>>)
  BY DEF Inventoried
<1>2. Sifted(<<>>, <<>>, 0)
  <2>1. 1..Len(<<>>) = {}
    OBVIOUS
  <2>2. KeptAt(<<>>) = {} /\ HiddenAt(<<>>) = {} /\ Range(<<>>) = {}
    BY <2>1 DEF KeptAt, HiddenAt, Range
  <2>3. Cardinality({}) = 0
    BY FS_EmptySet
  <2> QED
    BY <2>2, <2>3 DEF Sifted
<1>3. InOrder(<<>>, <<>>)
  <2> DEFINE e == [i \in {} |-> 0]
  <2>1. Len(<<>>) = 0 /\ 1..0 = {}
    OBVIOUS
  <2>2. e \in [{} -> {}]
    OBVIOUS
  <2> HIDE DEF e
  <2> QED
    BY <2>1, <2>2 DEF InOrder
<1>4. Anchored(<<>>, <<>>, <<>>)
  BY DEF Anchored, Range
<1>5. ASSUME NEW cur
      PROVE  Chronicle(j, {}, cur, <<>>, <<>>)
  <2> DEFINE A == RaisedIn(j, {})
             h == [i \in {} |-> 0]
  <2>1. A = {}
    BY DEF RaisedIn
  <2>2. Len(<<>>) + Len(<<>>) = 0 /\ Len(<<>>) = 0 /\ 1..0 = {}
    OBVIOUS
  <2>3. h \in [1..0 -> A] /\ Numbering(A, h, 0)
    BY <2>1, <2>2 DEF Numbering
  <2>4. Tells(j, <<>>, <<>>, cur, h)
    BY <2>2 DEF Tells
  <2> HIDE DEF A, h
  <2> QED
    BY <2>2, <2>3, <2>4 DEF Chronicle, A
<1> QED
  BY <1>1, <1>2, <1>3, <1>4, <1>5

LEMMA InitHolds == Init => Inv
<1> SUFFICES ASSUME Init PROVE Inv
  OBVIOUS
<1> USE DEF Init, CollectInit, CollectStart
<1>1. Shape
  BY JobsAssumption, OptionsAssumption DEF Shape, Collected
<1>2. Opened = {} /\ ReadFiles = {} /\ ~Collected /\ ~Printed
  BY DEF Opened, ReadFiles, Collected, Printed
<1> QED
  BY <1>1, <1>2, NothingYet DEF Inv, PrintInv

\* A step that leaves what was gathered alone.
LEMMA Idle ==
  ASSUME Inv, UNCHANGED <<job, phase, pending, current, todo, resultVars>>, Shape', PrintInv'
  PROVE  Inv'
<1>1. Opened' = Opened /\ ReadFiles' = ReadFiles /\ Collected' = Collected
  BY DEF Opened, ReadFiles, Collected
<1> QED
  BY <1>1 DEF Inv, resultVars

LEMMA TickKeeps == Inv /\ Tick /\ UNCHANGED reportVars => Inv'
<1> SUFFICES ASSUME Inv, Tick, UNCHANGED reportVars PROVE Inv'
  OBVIOUS
<1>1. Shape' /\ PrintInv'
  BY DEF Inv, Shape, PrintInv, Collected, Tick, Printed, reportVars, engineVars
<1> QED
  BY <1>1, Idle DEF Tick, engineVars

LEMMA CompileKeeps == Inv /\ Compile /\ UNCHANGED reportVars => Inv'
<1> SUFFICES ASSUME Inv, Compile, UNCHANGED reportVars PROVE Inv'
  OBVIOUS
<1>1. Shape' /\ PrintInv' /\ ~Collected /\ ~Collected'
  BY DEF Inv, Shape, PrintInv, Collected, Compile, Printed, reportVars
<1>2. Opened' = Opened /\ ReadFiles' = ReadFiles
  BY DEF Opened, ReadFiles, Compile, Inv, Shape
<1> QED
  BY <1>1, <1>2 DEF Inv, Compile, resultVars

LEMMA EditKeeps == Inv /\ Edit => Inv'
<1> SUFFICES ASSUME Inv, Edit PROVE Inv'
  OBVIOUS
<1>1. Shape' /\ PrintInv'
  BY DEF Inv, Shape, PrintInv, Collected, Edit, Printed, collectVars, engineVars
<1> QED
  BY <1>1, Idle DEF Edit, collectVars, engineVars

\* The operators of the module, of its job.
LEMMA OfTheJob ==
  /\ \A path : FileAt(path) = FileIn(job, path)
  /\ \A path : TextOf(path) = Decode(FileIn(job, path).artifact)
  /\ \A path : Rank(path) = RankIn(job, path)
  /\ \A f : Raised(f) = RaisedOf(job, f)
  /\ \A f, g : FindingBefore(f, g) <=> BeforeIn(job, f, g)
<1>1. \A path : FileAt(path) = FileIn(job, path)
  BY DEF FileAt, FileIn
<1>2. \A path : TextOf(path) = Decode(FileIn(job, path).artifact)
  BY <1>1 DEF TextOf
<1>3. \A path : Rank(path) = RankIn(job, path)
  BY <1>1 DEF Rank, RankIn
<1>4. Rules = RulesOf(job)
  BY DEF Rules, RulesOf
<1>5. \A f : Raised(f) = RaisedOf(job, f)
  BY <1>4 DEF Raised, RaisedOf
<1>6. \A f, g : FindingBefore(f, g) <=> BeforeIn(job, f, g)
  BY <1>3 DEF FindingBefore, BeforeIn
<1> QED
  BY <1>1, <1>2, <1>3, <1>5, <1>6

\* What is raised in more files is more.
LEMMA MoreRaised ==
  ASSUME NEW j, NEW S, NEW T, S \subseteq T
  PROVE  /\ RaisedIn(j, S) \subseteq RaisedIn(j, T)
         /\ Findings(j, RaisedIn(j, S)) \subseteq Findings(j, RaisedIn(j, T))
BY DEF RaisedIn, Findings

LEMMA OpenKeeps ==
  ASSUME Inv, UNCHANGED reportVars, NEW f \in pending, Open(f)
  PROVE  Inv'
<1> DEFINE more == IF f.outcome = "analysed" THEN ReadFiles \cup {f} ELSE ReadFiles
<1>1. /\ phase = "read" /\ todo = <<>> /\ pending' = pending \ {f} /\ current' = f.path
      /\ inventory' = Append(inventory, Item(f))
      /\ UNCHANGED <<job, clock, phase, findings, anchors, occurrences, suppressed, judged, report, document, edits>>
      /\ f \in job.files /\ JobFits(job)
  BY DEF Open, Inv, Shape, reportVars
<1>2. \/ f.outcome = "analysed" /\ todo' = Raised(f) /\ skipped' = skipped
      \/ f.outcome = "excluded-by-policy" /\ todo' = <<>> /\ skipped' = skipped
      \/ f.outcome \notin {"analysed", "excluded-by-policy"} /\ todo' = <<>> /\ skipped' = Append(skipped, f.path)
  BY <1>1 DEF Open
<1>3. Shape' /\ ~Collected /\ ~Collected' /\ PrintInv'
  BY <1>1 DEF Inv, Shape, Collected, PrintInv, Printed
<1>4. Opened' = Opened \cup {f} /\ f \notin Opened /\ Opened \subseteq job.files /\ ReadFiles' = more
  BY <1>1 DEF Opened, ReadFiles, Inv, Shape
<1>5. Inventoried(Opened', inventory', skipped')
  <2>1. \A g \in Opened : g.path # f.path
    BY <1>1, <1>4 DEF JobFits
  <2>2. \/ skipped' = skipped /\ f.outcome \in {"analysed", "excluded-by-policy"}
        \/ skipped' = Append(skipped, f.path)
    BY <1>2
  <2>3. Inventoried(Opened, inventory, skipped)
    BY DEF Inv
  <2> QED
    BY <1>1, <1>4, <2>1, <2>2, <2>3, InventoryGrows
<1>6. Chronicle(job, more, f.path, judged, todo')
  <2>1. Chronicle(job, ReadFiles, current, judged, <<>>)
    BY <1>1 DEF Inv
  <2>2. ReadFiles \in SUBSET job.files /\ f \notin ReadFiles
    BY <1>4 DEF ReadFiles
  <2>3. CASE f.outcome = "analysed"
    <3>1. todo' = RaisedOf(job, f)
      BY <1>2, <2>3, OfTheJob
    <3> QED
      BY <1>1, <2>1, <2>2, <2>3, <3>1, ChronicleOpens
  <2>4. CASE f.outcome # "analysed"
    <3>1. todo' = <<>>
      BY <1>2, <2>4
    <3>2. \A h : Tells(job, judged, <<>>, current, h) => Tells(job, judged, <<>>, f.path, h)
      BY DEF Tells
    <3> QED
      BY <2>1, <2>4, <3>1, <3>2 DEF Chronicle
  <2> QED
    BY <2>3, <2>4
<1>7. findings \in Seq(Findings(job, RaisedIn(job, more)))
  <2>1. Findings(job, RaisedIn(job, ReadFiles)) \subseteq Findings(job, RaisedIn(job, more))
    BY MoreRaised
  <2>2. findings \in Seq(Findings(job, RaisedIn(job, ReadFiles)))
    BY DEF Inv
  <2> QED
    BY <2>1, <2>2, LargerSeq
<1>8. Sifted(judged, findings, suppressed) /\ InOrder(judged, findings) /\ Anchored(findings, anchors, occurrences)
  BY <1>3 DEF Inv
<1> HIDE DEF more
<1> QED
  BY <1>1, <1>3, <1>4, <1>5, <1>6, <1>7, <1>8 DEF Inv

LEMMA JudgeKeeps ==
  ASSUME Inv, Judge, UNCHANGED reportVars
  PROVE  Inv'
<1> DEFINE A == RaisedIn(job, ReadFiles)
           text == TextOf(current)
           raw == Head(todo).raw
           at == FromNode(current, raw, text)
           finding == Finding(Head(todo).rule, raw, at)
           snippet == Folded(Slice(text, at.byte_start, at.byte_end))
           x == [finding |-> finding, kept |-> ~Hidden(finding)]
<1>1. /\ phase = "read" /\ todo # <<>>
      /\ judged' = Append(judged, x) /\ todo' = Tail(todo)
      /\ UNCHANGED <<job, clock, phase, pending, current, inventory, skipped, report, document, edits>>
  BY DEF Judge, reportVars
<1>2. Suppress(finding) \/ (~Hidden(finding) /\ Keep(finding, snippet))
  BY DEF Judge
<1>3. /\ JobFits(job) /\ ReadFiles \in SUBSET job.files
      /\ Chronicle(job, ReadFiles, current, judged, todo)
      /\ findings \in Seq(Findings(job, A)) /\ Sifted(judged, findings, suppressed)
      /\ InOrder(judged, findings) /\ Anchored(findings, anchors, occurrences)
      /\ judged \in Seq(Verdicts(job, A))
  BY <1>1 DEF Inv, Shape, ReadFiles, Opened, Collected, Chronicle
<1>4. x.kept \in BOOLEAN /\ (x.kept <=> ~Hidden(finding)) /\ x.finding = finding
      /\ x = [finding |-> finding, kept |-> x.kept]
  <2>1. Hidden(finding) \in BOOLEAN
    BY DEF Hidden
  <2> QED
    BY <2>1
<1> HIDE DEF x
<1>5. /\ \E t \in A : t[1] = current /\ Head(todo) = TaskOf(job, t) /\
           Chronicle(job, ReadFiles, current, Append(judged, [finding |-> ToldIn(job, t), kept |-> x.kept]), Tail(todo))
  BY <1>1, <1>3, <1>4, ChronicleJudges
<1>6. PICK t \in A : /\ t[1] = current /\ Head(todo) = TaskOf(job, t)
           /\ Chronicle(job, ReadFiles, current, Append(judged, [finding |-> ToldIn(job, t), kept |-> x.kept]), Tail(todo))
  BY <1>5
<1>7. finding = ToldIn(job, t)
  BY <1>6, OfTheJob DEF TaskOf, ToldIn, PlaceOf
<1> HIDE DEF finding, snippet
<1>8. Chronicle(job, ReadFiles, current, judged', todo')
  BY <1>1, <1>4, <1>6, <1>7
<1>9. x \in Verdicts(job, A) /\ finding \in Findings(job, A)
  BY <1>4, <1>7 DEF Verdicts, Findings
<1> HIDE DEF A
<1>10. /\ findings' \in Seq(Findings(job, A)) /\ Sifted(judged', findings', suppressed')
       /\ InOrder(judged', findings') /\ Anchored(findings', anchors', occurrences')
  <2>1. CASE Suppress(finding)
    <3>1. x.kept = FALSE /\ findings' = findings /\ anchors' = anchors
          /\ occurrences' = occurrences /\ suppressed' = suppressed + 1
      BY <1>4, <2>1 DEF Suppress
    <3>2. Sifted(judged', findings, suppressed + 1)
      BY <1>1, <1>3, <1>9, <3>1, HidingSifts
    <3>3. InOrder(judged', findings)
      <4>1. /\ Len(judged) \in Nat /\ Len(judged') = Len(judged) + 1
            /\ \A i \in 1..Len(judged) : i \in 1..Len(judged') /\ judged'[i] = judged[i]
        BY <1>1, <1>3, <1>9, AppendFacts
      <4>2. PICK e : /\ e \in [1..Len(findings) -> 1..Len(judged)]
                     /\ \A m, n \in 1..Len(findings) : m < n => e[m] < e[n]
                     /\ \A n \in 1..Len(findings) : findings[n] = judged[e[n]].finding
        BY <1>3 DEF InOrder
      <4>3. e \in [1..Len(findings) -> 1..Len(judged')]
        BY <4>1, <4>2
      <4>4. \A n \in 1..Len(findings) : findings[n] = judged'[e[n]].finding
        BY <4>1, <4>2
      <4> QED
        BY <4>2, <4>3, <4>4 DEF InOrder
    <3> QED
      BY <1>3, <3>1, <3>2, <3>3
  <2>2. CASE ~Hidden(finding) /\ Keep(finding, snippet)
    <3>1. x.kept = TRUE /\ findings' = Append(findings, finding) /\ suppressed' = suppressed
      BY <1>4, <2>2 DEF Keep
    <3>2. Sifted(judged', findings', suppressed) /\ InOrder(judged', findings')
      BY <1>1, <1>3, <1>4, <1>9, <3>1, KeepingSifts
    <3>3. findings' \in Seq(Findings(job, A)) /\ Range(findings') = Range(findings) \cup {finding}
      BY <1>3, <1>9, <3>1, AppendFacts
    <3>4. Anchored(findings', anchors', occurrences')
      <4> DEFINE key == <<finding.rule_id, finding.location.file, snippet>>
      <4>1. /\ anchors' = Insert(anchors, SpanKey(finding), <<snippet, Seen(key)>>)
            /\ occurrences' = Insert(occurrences, key, Seen(key) + 1)
        BY <2>2 DEF Keep
      <4>2. Seen(key) = IF key \in DOMAIN occurrences THEN occurrences[key] ELSE 0
        BY DEF Seen
      <4>3. key = <<finding.rule_id, finding.location.file, snippet>>
        OBVIOUS
      <4> HIDE DEF key
      <4> QED
        BY <1>3, <3>3, <4>1, <4>2, <4>3, KeepingAnchors
    <3> QED
      BY <3>1, <3>2, <3>3, <3>4
  <2> QED
    BY <1>2, <2>1, <2>2
<1>11. Shape' /\ ~Collected' /\ PrintInv' /\ Opened' = Opened /\ ReadFiles' = ReadFiles
  BY <1>1 DEF Inv, Shape, Collected, PrintInv, Printed, Opened, ReadFiles
<1>12. Inventoried(Opened', inventory', skipped')
  BY <1>1, <1>11 DEF Inv
<1> QED
  BY <1>1, <1>8, <1>10, <1>11, <1>12 DEF Inv, A

LEMMA FinishKeeps ==
  ASSUME Inv, Finish, UNCHANGED reportVars
  PROVE  Inv'
<1> DEFINE A == RaisedIn(job, ReadFiles)
<1>1. /\ phase = "read" /\ pending = {} /\ todo = <<>> /\ phase' = "collected"
      /\ UNCHANGED <<job, clock, pending, current, todo, anchors, occurrences, suppressed,
                     judged, report, document, edits>>
  BY DEF Finish, reportVars, engineVars
<1>2. /\ JobFits(job) /\ ReadFiles \in SUBSET job.files /\ Opened \in SUBSET job.files
      /\ Chronicle(job, ReadFiles, current, judged, <<>>)
      /\ findings \in Seq(Findings(job, A)) /\ Sifted(judged, findings, suppressed)
      /\ InOrder(judged, findings) /\ Anchored(findings, anchors, occurrences)
      /\ Inventoried(Opened, inventory, skipped)
  BY <1>1 DEF Inv, Shape, ReadFiles, Opened, Collected
<1>3. findings' = DedupOf(SortedBy(job, findings))
  <2>1. Sorted(findings, FindingBefore) = SortedBy(job, findings)
    BY OfTheJob DEF SortedBy, Sorted
  <2>2. findings' = Dedup(Sorted(findings, FindingBefore), Same)
    BY DEF Finish
  <2> QED
    BY <2>1, <2>2 DEF DedupOf, Dedup
<1>4. inventory' = SortedItems(job, inventory) /\ skipped' = SortedPaths(job, skipped)
  BY OfTheJob DEF Finish, SortedItems, SortedPaths, Sorted
<1>5. PICK g : InTurn(job, A, findings, g)
  BY <1>2, FoundInTurn
<1>6. findings' \in Seq(Findings(job, A)) /\ Range(findings') = Range(findings) /\ Tidy(job, findings')
  BY <1>2, <1>3, <1>5, FinishTidies
<1>7. Inventoried(Opened, inventory', skipped')
  BY <1>2, <1>4, InventorySorts
<1>8. Sifted(judged, findings', suppressed) /\ Anchored(findings', anchors, occurrences)
  BY <1>2, <1>6 DEF Sifted, Anchored
<1>9. Opened' = Opened /\ ReadFiles' = ReadFiles /\ Collected' /\ Shape' /\ PrintInv'
  BY <1>1 DEF Opened, ReadFiles, Collected, Inv, Shape, PrintInv, Printed
<1> QED
  BY <1>1, <1>2, <1>6, <1>7, <1>8, <1>9 DEF Inv

LEMMA ReportStays ==
  ASSUME UNCHANGED <<job, findings, anchors, inventory, skipped, suppressed>>
  PROVE  ScanReport' = ScanReport
<1>1. Shown(findings)' = Shown(findings)
  BY DEF Shown, Retain
<1>2. AnalysedFiles' = AnalysedFiles
  BY DEF AnalysedFiles
<1>3. \A l : Missing(l)' = Missing(l)
  BY DEF Missing
<1>4. \A n, failed, shown : ExitCode(n, failed, shown)' = ExitCode(n, failed, shown)
  BY DEF ExitCode, AtThreshold
<1> QED
  BY <1>1, <1>2, <1>3, <1>4 DEF ScanReport

LEMMA ConcludeKeeps ==
  ASSUME Inv, Conclude
  PROVE  Inv'
<1>1. /\ phase = "collected" /\ phase' = "printed" /\ report' = ScanReport /\ document' = Render(ScanReport)
      /\ UNCHANGED <<job, clock, pending, current, todo, resultVars, edits>>
  BY DEF Conclude, engineVars
<1>2. ScanReport' = ScanReport
  BY <1>1, ReportStays DEF resultVars
<1>3. Shape' /\ PrintInv' /\ Collected /\ Collected' /\ Opened' = Opened /\ ReadFiles' = ReadFiles
  BY <1>1, <1>2 DEF Opened, ReadFiles, Collected, Inv, Shape, PrintInv, Printed
<1> QED
  BY <1>1, <1>3 DEF Inv, resultVars

-----------------------------------------------------------------------------
\* The sources moved.

LEMMA PrefixIs ==
  ASSUME NEW X, NEW s \in Seq(X), NEW t \in Seq(X)
  PROVE  IsPrefix(s, t) <=> Len(s) <= Len(t) /\ \A i \in 1..Len(s) : s[i] = t[i]
<1>1. Len(s) \in Nat /\ Len(t) \in Nat
  OBVIOUS
<1>2. SubSeq(s, 1, Len(s)) = [i \in 1..Len(s) |-> s[i]] /\ SubSeq(t, 1, Len(s)) = [i \in 1..Len(s) |-> t[i]]
  BY <1>1
<1> QED
  BY <1>1, <1>2 DEF IsPrefix

LEMMA ConcatFacts ==
  ASSUME NEW X, NEW s \in Seq(X), NEW t \in Seq(X), NEW r, r = s \o t
  PROVE  /\ r \in Seq(X) /\ Len(r) = Len(s) + Len(t)
         /\ \A i \in 1..Len(s) : r[i] = s[i]
         /\ \A i \in 1..Len(t) : r[Len(s) + i] = t[i]
<1>1. Len(s) \in Nat /\ Len(t) \in Nat
  OBVIOUS
<1>2. /\ r \in Seq(X) /\ Len(r) = Len(s) + Len(t)
      /\ \A i \in 1..(Len(s) + Len(t)) : r[i] = IF i <= Len(s) THEN s[i] ELSE t[i - Len(s)]
  BY ConcatProperties
<1>3. ASSUME NEW i \in 1..Len(s)
      PROVE  r[i] = s[i]
  BY <1>1, <1>2
<1>4. ASSUME NEW i \in 1..Len(t)
      PROVE  r[Len(s) + i] = t[i]
  <2>1. Len(s) + i \in 1..(Len(s) + Len(t)) /\ ~(Len(s) + i <= Len(s)) /\ (Len(s) + i) - Len(s) = i
    BY <1>1
  <2> QED
    BY <1>2, <2>1
<1> QED
  BY <1>2, <1>3, <1>4

\* r is e with what p has after b.
Rebased(X, b, e, p, r) ==
  /\ Len(b) \in Nat /\ Len(e) \in Nat /\ Len(p) \in Nat /\ Len(b) <= Len(p)
  /\ r \in Seq(X) /\ Len(r) = Len(e) + (Len(p) - Len(b))
  /\ \A i \in 1..Len(e) : r[i] = e[i]
  /\ \A i \in 1..(Len(p) - Len(b)) : r[Len(e) + i] = p[Len(b) + i]
  /\ \A i \in 1..Len(b) : p[i] = b[i]

LEMMA Rebasing ==
  ASSUME NEW X, NEW b \in Seq(X), NEW e \in Seq(X), NEW p \in Seq(X), Within(p, b),
         NEW r, r = e \o Below(p, b)
  PROVE  Rebased(X, b, e, p, r) /\ Within(r, e)
<1>1. Len(b) \in Nat /\ Len(e) \in Nat /\ Len(p) \in Nat /\ Len(b) <= Len(p) /\ \A i \in 1..Len(b) : p[i] = b[i]
  BY PrefixIs DEF Within
<1> DEFINE d == SubSeq(p, Len(b) + 1, Len(p))
<1>2. r = e \o d
  BY DEF Below
<1>3. d \in Seq(X) /\ Len(d) = Len(p) - Len(b) /\ \A i \in 1..(Len(p) - Len(b)) : d[i] = p[Len(b) + i]
  BY <1>1
<1> HIDE DEF d
<1>4. /\ r \in Seq(X) /\ Len(r) = Len(e) + Len(d)
      /\ \A i \in 1..Len(e) : r[i] = e[i]
      /\ \A i \in 1..Len(d) : r[Len(e) + i] = d[i]
  <2>1. d \in Seq(X)
    BY <1>3
  <2> QED
    BY ONLY e \in Seq(X), <1>2, <2>1, ConcatFacts
<1>5. Rebased(X, b, e, p, r)
  BY <1>1, <1>3, <1>4 DEF Rebased
<1>6. Within(r, e)
  <2>1. Len(e) <= Len(r)
    BY <1>1, <1>3, <1>4
  <2>2. \A i \in 1..Len(e) : e[i] = r[i]
    BY <1>4
  <2>3. IsPrefix(e, r)
    BY <1>4, <2>1, <2>2, PrefixIs
  <2> QED
    BY <2>3 DEF Within
<1> QED
  BY <1>5, <1>6

LEMMA RebasedTells ==
  ASSUME NEW X, NEW b, NEW e, NEW p \in Seq(X), NEW q \in Seq(X), NEW r,
         Rebased(X, b, e, p, r), Rebased(X, b, e, q, r)
  PROVE  p = q
<1>1. Len(p) = Len(q)
  BY DEF Rebased
<1>2. ASSUME NEW i \in 1..Len(p)
      PROVE  p[i] = q[i]
  <2>1. CASE i <= Len(b)
    BY <2>1 DEF Rebased
  <2>2. CASE i > Len(b)
    <3>1. i - Len(b) \in 1..(Len(p) - Len(b)) /\ Len(b) + (i - Len(b)) = i
      BY <2>2 DEF Rebased
    <3> DEFINE k == i - Len(b)
    <3>2. r[Len(e) + k] = p[Len(b) + k]
      BY <3>1 DEF Rebased
    <3>3. r[Len(e) + k] = q[Len(b) + k]
      BY <1>1, <3>1 DEF Rebased
    <3>4. Len(b) + k = i
      BY <3>1
    <3> HIDE DEF k
    <3> QED
      BY <3>2, <3>3, <3>4
  <2> QED
    BY <2>1, <2>2 DEF Rebased
<1> QED
  BY <1>1, <1>2, SeqEqual

LEMMA RebasedBelow ==
  ASSUME NEW X, NEW b, NEW e, NEW p \in Seq(X), NEW q \in Seq(X), NEW r, NEW s,
         Rebased(X, b, e, p, r), Rebased(X, b, e, q, s), IsStrictPrefix(p, q)
  PROVE  IsStrictPrefix(r, s)
<1>1. Len(p) <= Len(q) /\ (\A i \in 1..Len(p) : p[i] = q[i]) /\ p # q
  BY PrefixIs DEF IsStrictPrefix
<1>2. r # s
  BY <1>1, RebasedTells
<1>3. ASSUME NEW i \in 1..Len(r)
      PROVE  r[i] = s[i]
  <2>1. CASE i <= Len(e)
    BY <2>1 DEF Rebased
  <2>2. CASE i > Len(e)
    <3>1. PICK k \in 1..(Len(p) - Len(b)) : i = Len(e) + k
      <4>1. i - Len(e) \in 1..(Len(p) - Len(b)) /\ i = Len(e) + (i - Len(e))
        BY <2>2 DEF Rebased
      <4> QED
        BY <4>1
    <3>2. k \in 1..(Len(q) - Len(b)) /\ Len(b) + k \in 1..Len(p)
      BY <1>1 DEF Rebased
    <3> QED
      BY <1>1, <3>1, <3>2 DEF Rebased
  <2> QED
    BY <2>1, <2>2 DEF Rebased
<1>4. IsPrefix(r, s)
  <2>1. Len(r) <= Len(s) /\ r \in Seq(X) /\ s \in Seq(X)
    BY <1>1 DEF Rebased
  <2> QED
    BY <1>3, <2>1, PrefixIs
<1> QED
  BY <1>2, <1>4 DEF IsStrictPrefix

LEMMA OwnSeq ==
  ASSUME NEW X, NEW s \in Seq(X)
  PROVE  s \in Seq(Range(s))
<1> DEFINE T == Range(s)
<1>1. Len(s) \in Nat /\ DOMAIN s = 1..Len(s) /\ s = [k \in 1..Len(s) |-> s[k]]
  OBVIOUS
<1>2. \A k \in 1..Len(s) : s[k] \in T
  BY <1>1 DEF Range
<1> HIDE DEF T
<1>3. s \in Seq(T)
  BY <1>1, <1>2, SeqByElements
<1> QED
  BY <1>3 DEF T

\* A line is put into a text, and into what the pieces of an artifact decode to.
Gains(t, q, new) ==
  /\ q \in 0..Len(t) /\ Len(new) = Len(t) + 1
  /\ \A k \in 1..q : new[k] = t[k]
  /\ new[q + 1] = Newline
  /\ \A k \in (q + 1)..Len(t) : new[k + 1] = t[k]

LEMMA InsertGains ==
  ASSUME NEW X, NEW t \in Seq(X), NEW q \in 0..Len(t)
  PROVE  /\ InsertAt(t, q + 1, Newline) \in Seq(X \cup {Newline})
         /\ Gains(t, q, InsertAt(t, q + 1, Newline))
<1> DEFINE x == SubSeq(t, 1, q)
           z == SubSeq(t, q + 1, Len(t))
           Y == X \cup {Newline}
           new == InsertAt(t, q + 1, Newline)
<1>1. /\ x \in Seq(Y) /\ Len(x) = q /\ \A k \in 1..q : x[k] = t[k]
      /\ z \in Seq(Y) /\ Len(z) = Len(t) - q /\ \A k \in 1..(Len(t) - q) : z[k] = t[k + q]
      /\ Len(t) \in Nat
  OBVIOUS
<1>2. new = (x \o <<Newline>>) \o z
  <2>1. (q + 1) - 1 = q
    OBVIOUS
  <2>2. new = (SubSeq(t, 1, (q + 1) - 1) \o <<Newline>>) \o z
    BY Zenon DEF InsertAt
  <2> QED
    BY <2>1, <2>2, Zenon
<1> HIDE DEF x, z, new
<1>3. /\ x \o <<Newline>> \in Seq(Y) /\ Len(x \o <<Newline>>) = q + 1
      /\ \A k \in 1..q : (x \o <<Newline>>)[k] = t[k]
      /\ (x \o <<Newline>>)[q + 1] = Newline
  BY <1>1
<1> DEFINE v == x \o <<Newline>>
<1> HIDE DEF v
<1>4. /\ v \o z \in Seq(Y) /\ Len(v \o z) = Len(t) + 1
      /\ \A k \in 1..(q + 1) : (v \o z)[k] = v[k]
      /\ \A k \in (q + 1)..Len(t) : (v \o z)[k + 1] = t[k]
  <2>1. v \in Seq(Y) /\ Len(v) = q + 1
    BY <1>3 DEF v
  <2>2. v \o z \in Seq(Y) /\ Len(v \o z) = Len(t) + 1 /\ \A k \in 1..(q + 1) : (v \o z)[k] = v[k]
    BY <1>1, <2>1
  <2>3. ASSUME NEW k \in (q + 1)..Len(t)
        PROVE  (v \o z)[k + 1] = t[k]
    <3>1. k + 1 \in 1..(Len(t) + 1) /\ k + 1 > q + 1 /\ (k + 1) - (q + 1) = k - q /\ k - q \in 1..(Len(t) - q)
      BY <1>1
    <3>2. (v \o z)[k + 1] = z[(k + 1) - (q + 1)]
      BY <1>1, <2>1, <3>1
    <3>3. z[k - q] = t[(k - q) + q] /\ (k - q) + q = k
      BY <1>1, <3>1
    <3> QED
      BY <3>1, <3>2, <3>3
  <2> QED
    BY <2>2, <2>3
<1>5. new = v \o z /\ \A k \in 1..q : v[k] = t[k]
  BY <1>2, <1>3 DEF v
<1>6. v[q + 1] = Newline
  BY <1>3 DEF v
<1>7. new \in Seq(Y) /\ Len(new) = Len(t) + 1
  BY <1>4, <1>5
<1>8. \A k \in 1..q : new[k] = t[k]
  <2> SUFFICES ASSUME NEW k \in 1..q PROVE new[k] = t[k]
    OBVIOUS
  <2>1. k \in 1..(q + 1)
    OBVIOUS
  <2> QED
    BY <1>4, <1>5, <2>1
<1>9. new[q + 1] = Newline /\ \A k \in (q + 1)..Len(t) : new[k + 1] = t[k]
  <2>1. q + 1 \in 1..(q + 1)
    OBVIOUS
  <2> QED
    BY <1>4, <1>5, <1>6, <2>1
<1>10. Gains(t, q, new)
  BY <1>7, <1>8, <1>9 DEF Gains
<1> QED
  BY <1>7, <1>10 DEF new

LEMMA GainsGoOn ==
  ASSUME NEW Y, NEW t \in Seq(Y), NEW q, NEW new \in Seq(Y), Gains(t, q, new), NEW z \in Seq(Y)
  PROVE  /\ Gains(t \o z, q, new \o z)
         /\ \A k \in 1..Len(t) : (t \o z)[k] = t[k]
<1>0. Len(t) \in Nat /\ Len(z) \in Nat /\ q \in 0..Len(t) /\ Len(new) = Len(t) + 1
  BY DEF Gains
<1>1. /\ Len(t) \in Nat /\ Len(z) \in Nat /\ q \in 0..Len(t) /\ Len(new) = Len(t) + 1
      /\ Len(t \o z) = Len(t) + Len(z) /\ Len(new \o z) = Len(t) + 1 + Len(z)
      /\ \A k \in 1..Len(t) : (t \o z)[k] = t[k]
      /\ \A k \in 1..Len(z) : (t \o z)[Len(t) + k] = z[k]
      /\ \A k \in 1..(Len(t) + 1) : (new \o z)[k] = new[k]
      /\ \A k \in 1..Len(z) : (new \o z)[Len(t) + 1 + k] = z[k]
  <2>1. /\ Len(t \o z) = Len(t) + Len(z)
        /\ \A k \in 1..Len(t) : (t \o z)[k] = t[k]
        /\ \A k \in 1..Len(z) : (t \o z)[Len(t) + k] = z[k]
    OBVIOUS
  <2>2. /\ Len(new \o z) = Len(new) + Len(z)
        /\ \A k \in 1..Len(new) : (new \o z)[k] = new[k]
        /\ \A k \in 1..Len(z) : (new \o z)[Len(new) + k] = z[k]
    OBVIOUS
  <2> QED
    BY <1>0, <2>1, <2>2
<1>2. /\ \A k \in 1..q : new[k] = t[k]
      /\ new[q + 1] = Newline
      /\ \A k \in (q + 1)..Len(t) : new[k + 1] = t[k]
  BY DEF Gains
<1> DEFINE v == t \o z
           w == new \o z
<1> HIDE DEF v, w
<1>3. ASSUME NEW k \in (q + 1)..Len(v)
      PROVE  w[k + 1] = v[k]
  <2>1. CASE k <= Len(t)
    BY <1>1, <1>2, <2>1 DEF v, w
  <2>2. CASE k > Len(t)
    <3>1. k - Len(t) \in 1..Len(z) /\ k = Len(t) + (k - Len(t)) /\ k + 1 = Len(t) + 1 + (k - Len(t))
      BY <1>1, <2>2 DEF v
    <3> QED
      BY <1>1, <3>1 DEF v, w
  <2> QED
    BY <1>1, <2>1, <2>2 DEF v
<1>4. \A k \in 1..q : w[k] = v[k]
  BY <1>1, <1>2 DEF v, w
<1>5. w[q + 1] = Newline /\ q \in 0..Len(v) /\ Len(w) = Len(v) + 1
  BY <1>1, <1>2 DEF v, w
<1>6. Gains(v, q, w)
  BY <1>3, <1>4, <1>5 DEF Gains
<1> QED
  BY <1>1, <1>6 DEF v, w

\* The texts of Latin-1, piece by piece.
LEMMA Latin1Is ==
  ASSUME NEW X, NEW a \in Seq(X)
  PROVE  SeqOfSeqs([k \in DOMAIN a |-> Latin1(a[k])], Len(a), X \cup {"high", Newline})
<1> DEFINE s == [k \in DOMAIN a |-> Latin1(a[k])]
           n == Len(a)
           Y == X \cup {"high", Newline}
<1>1. n \in Nat /\ DOMAIN a = 1..n /\ Len(s) = n /\ s = [k \in 1..n |-> s[k]]
  OBVIOUS
<1>2. ASSUME NEW k \in 1..n
      PROVE  s[k] \in Seq(Y)
  <2>1. s[k] = Latin1(a[k]) /\ a[k] \in X
    BY <1>1
  <2>2. Width(a[k]) \in Nat
    BY DEF Width
  <2>3. Latin1(a[k]) \in Seq(Y)
    <3>1. [m \in 1..Width(a[k]) |-> "high"] \in Seq(Y)
      BY <2>2
    <3>2. <<a[k]>> \in Seq(Y)
      BY <2>1
    <3> QED
      BY <3>1, <3>2 DEF Latin1
  <2> QED
    BY <2>1, <2>3
<1> QED
  BY <1>1, <1>2 DEF SeqOfSeqs

\* The text after one more piece is the text before it and that piece.
LEMMA Latin1Grows ==
  ASSUME NEW X, NEW a \in Seq(X)
  PROVE  \E f \in [0..Len(a) -> Seq(X \cup {"high", Newline})] :
           /\ f[0] = <<>> /\ \A k \in 1..Len(a) : f[k] = f[k-1] \o Latin1(a[k])
           /\ AsLatin1(a) = f[Len(a)]
<1> DEFINE s == [k \in DOMAIN a |-> Latin1(a[k])]
           n == Len(a)
           Y == X \cup {"high", Newline}
<1>1. SeqOfSeqs(s, n, Y) /\ AsLatin1(a) = FlattenSeq(s)
  BY Latin1Is DEF AsLatin1
<1>2. n \in Nat /\ DOMAIN a = 1..n /\ Len(s) = n /\ \A k \in 1..n : s[k] = Latin1(a[k])
  OBVIOUS
<1> HIDE DEF s, n, Y
<1>3. PICK f \in [0..n -> Seq(Y)] : Joined(s, f) /\ FlattenSeq(s) = f[n]
  BY <1>1, Flattened
<1>4. f[0] = <<>> /\ \A k \in 1..n : f[k] = f[k-1] \o Latin1(a[k])
  BY <1>2, <1>3 DEF Joined
<1> QED
  BY <1>1, <1>3, <1>4 DEF n, Y

\* Two such functions agree as far as their artifacts do.
Reads(a, m, f) == f[0] = <<>> /\ \A k \in 1..m : f[k] = f[k-1] \o Latin1(a[k])

Agrees(a, m, b) == \A k \in 1..m : a[k] = b[k]

LEMMA Latin1Agree ==
  ASSUME NEW m \in Nat, NEW a, NEW b, NEW f, NEW g, Agrees(a, m, b), Reads(a, m, f), Reads(b, m, g)
  PROVE  g[m] = f[m]
<1>0. /\ f[0] = <<>> /\ \A k \in 1..m : f[k] = f[k-1] \o Latin1(a[k])
      /\ g[0] = <<>> /\ \A k \in 1..m : g[k] = g[k-1] \o Latin1(b[k])
      /\ \A k \in 1..m : a[k] = b[k]
  BY DEF Reads, Agrees
<1> DEFINE T == {k \in 0..m : g[k] = f[k]}
<1>1. 0 \in T
  BY <1>0
<1>2. ASSUME NEW k \in 0..(m - 1), k \in T
      PROVE  k + 1 \in T
  <2>1. k + 1 \in 1..m /\ (k + 1) - 1 = k /\ g[k] = f[k]
    BY <1>2
  <2>2. f[k + 1] = f[k] \o Latin1(a[k + 1]) /\ g[k + 1] = g[k] \o Latin1(b[k + 1]) /\ a[k + 1] = b[k + 1]
    BY <1>0, <2>1
  <2>3. g[k + 1] = f[k + 1]
    BY <2>1, <2>2, Zenon
  <2>4. k + 1 \in 0..m
    BY <2>1
  <2> QED
    BY <2>3, <2>4
<1> HIDE DEF T
<1>3. 0..m \subseteq T
  BY <1>1, <1>2, UpTo
<1> QED
  BY <1>3 DEF T

LEMMA Latin1Gains ==
  ASSUME NEW X, NEW a \in Seq(X), NEW p \in 0..Len(a), NEW b \in Seq(X \cup {Newline}), Gains(a, p, b)
  PROVE  /\ Gains(AsLatin1(a), Len(AsLatin1(Prefix(a, p))), AsLatin1(b))
         /\ p = 0 \/ a[p] = Newline =>
              \/ Len(AsLatin1(Prefix(a, p))) = 0
              \/ AsLatin1(a)[Len(AsLatin1(Prefix(a, p)))] = Newline
<1> DEFINE n == Len(a)
           Y == X \cup {"high", Newline}
           c == Prefix(a, p)
           q == Len(AsLatin1(c))
<1>1. n \in Nat /\ Len(b) = n + 1 /\ p \in 0..n
  BY DEF Gains
<1>2. c \in Seq(X) /\ Len(c) = p /\ \A k \in 1..p : c[k] = a[k]
  BY DEF Prefix
<1>3. /\ \A k \in 1..p : b[k] = a[k]
      /\ b[p + 1] = Newline /\ \A k \in (p + 1)..n : b[k + 1] = a[k]
  BY DEF Gains
<1>4. (X \cup {Newline}) \cup {"high", Newline} = Y
  OBVIOUS
<1> HIDE DEF n, Y, c
<1>5. PICK f :
        f \in [0..n -> Seq(Y)] /\ f[0] = <<>> /\ (\A k \in 1..n : f[k] = f[k-1] \o Latin1(a[k])) /\ AsLatin1(a) = f[n]
  BY Latin1Grows DEF n, Y
<1>6. PICK g :
        g \in [0..(n + 1) -> Seq(Y)] /\ g[0] = <<>> /\ (\A k \in 1..(n + 1) : g[k] = g[k-1] \o Latin1(b[k])) /\ AsLatin1(b) = g[n + 1]
  <2> DEFINE Z == (X \cup {Newline}) \cup {"high", Newline}
  <2>1. PICK g \in [0..Len(b) -> Seq(Z)] :
          /\ g[0] = <<>> /\ \A k \in 1..Len(b) : g[k] = g[k-1] \o Latin1(b[k])
          /\ AsLatin1(b) = g[Len(b)]
    BY Latin1Grows
  <2>2. Z = Y
    BY <1>4
  <2> HIDE DEF Z
  <2> QED
    BY <1>1, <2>1, <2>2
<1>7. PICK h :
        h \in [0..p -> Seq(Y)] /\ h[0] = <<>> /\ (\A k \in 1..p : h[k] = h[k-1] \o Latin1(c[k])) /\ AsLatin1(c) = h[p]
  BY <1>2, Latin1Grows DEF Y
<1>8. p \in Nat /\ 1..p \subseteq 1..n /\ 1..p \subseteq 1..(n + 1)
  BY <1>1
<1>9. h[p] = f[p] /\ g[p] = f[p]
  <2>1. Reads(a, p, f)
    BY <1>5, <1>8 DEF Reads
  <2>2. Reads(b, p, g)
    BY <1>6, <1>8 DEF Reads
  <2>3. Reads(c, p, h)
    BY <1>7 DEF Reads
  <2>4. h[p] = f[p]
    <3>1. Agrees(a, p, c)
      BY <1>2 DEF Agrees
    <3> QED
      BY <1>8, <2>1, <2>3, <3>1, Latin1Agree
  <2>5. g[p] = f[p]
    <3>1. Agrees(a, p, b)
      BY <1>3 DEF Agrees
    <3> QED
      BY <1>8, <2>1, <2>2, <3>1, Latin1Agree
  <2> QED
    BY <2>4, <2>5
<1>10. q = Len(f[p]) /\ f[p] \in Seq(Y) /\ q \in Nat
  <2>1. f[p] \in Seq(Y)
    BY <1>1, <1>5
  <2> QED
    BY <1>7, <1>9, <2>1
<1> HIDE DEF q
<1>11. \A k \in 1..n : Latin1(a[k]) \in Seq(Y)
  <2> DEFINE s == [k \in DOMAIN a |-> Latin1(a[k])]
  <2>1. SeqOfSeqs(s, n, Y)
    BY Latin1Is DEF n, Y
  <2>2. DOMAIN a = 1..n
    BY DEF n
  <2>3. \A k \in 1..n : s[k] = Latin1(a[k])
    BY <2>2
  <2> HIDE DEF s
  <2> QED
    BY <2>1, <2>3 DEF SeqOfSeqs
<1>12. Latin1(Newline) = <<Newline>> /\ <<Newline>> \in Seq(Y)
  BY DEF Latin1, Newline, Y
<1>13. Gains(f[p], q, g[p + 1])
  <2>1. g[p + 1] = g[p] \o Latin1(b[p + 1])
    <3>1. p + 1 \in 1..(n + 1) /\ (p + 1) - 1 = p
      BY <1>1
    <3>2. g[p + 1] = g[(p + 1) - 1] \o Latin1(b[p + 1])
      BY <1>6, <3>1
    <3> QED
      BY <3>1, <3>2, Zenon
  <2>2. g[p + 1] = f[p] \o <<Newline>>
    BY <1>3, <1>9, <1>12, <2>1
  <2> DEFINE v == f[p]
  <2> HIDE DEF v
  <2>3. v \in Seq(Y) /\ q = Len(v) /\ g[p + 1] = v \o <<Newline>> /\ q \in Nat
    BY <1>10, <2>2 DEF v
  <2>4. Gains(v, q, v \o <<Newline>>)
    BY <1>12, <2>3 DEF Gains
  <2> QED
    BY <2>3, <2>4 DEF v
<1>14. p = 0 => q = 0
  BY <1>5, <1>10
<1>15. p # 0 /\ a[p] = Newline => q # 0 /\ f[p][q] = Newline
  <2> SUFFICES ASSUME p # 0, a[p] = Newline PROVE q # 0 /\ f[p][q] = Newline
    OBVIOUS
  <2> DEFINE v == f[p - 1]
  <2>1. f[p] = v \o <<Newline>> /\ v \in Seq(Y)
    <3>1. p \in 1..n /\ p - 1 \in 0..n
      BY <1>1
    <3>2. f[p] = f[p - 1] \o Latin1(a[p]) /\ f[p - 1] \in Seq(Y)
      BY <1>5, <3>1
    <3> QED
      BY <1>12, <3>2
  <2> HIDE DEF v
  <2> QED
    BY <1>10, <1>12, <2>1
\* Piece by piece after the line.
<1> DEFINE Good(i) == Gains(f[i], q, g[i + 1]) /\ (q # 0 => f[i][q] = f[p][q])
           T == {k \in 0..(n - p) : Good(p + k)}
<1>16. 0 \in T
  <2>1. Good(p)
    BY <1>13
  <2>2. p + 0 = p /\ 0 \in 0..(n - p)
    BY <1>1
  <2> HIDE DEF Good
  <2> QED
    BY <2>1, <2>2
<1>17. ASSUME NEW k \in 0..((n - p) - 1), k \in T
       PROVE  k + 1 \in T
  <2> DEFINE i == p + k
             z == Latin1(a[i + 1])
  <2>1. i \in 0..n /\ i + 1 \in 1..n /\ i + 1 \in (p + 1)..n /\ i + 2 \in 1..(n + 1) /\ i \in Nat
        /\ i + 1 \in 0..(n + 1)
    BY <1>1
  <2>2. Good(i)
    BY <1>17
  <2>3. f[i] \in Seq(Y) /\ g[i + 1] \in Seq(Y) /\ z \in Seq(Y)
    BY <1>5, <1>6, <1>11, <2>1
  <2>4. f[i + 1] = f[i] \o z
    <3>1. (i + 1) - 1 = i
      BY <2>1
    <3> QED
      BY <1>5, <2>1, <3>1
  <2>5. g[i + 2] = g[i + 1] \o z
    <3>1. (i + 2) - 1 = i + 1 /\ b[i + 2] = a[i + 1]
      <4>1. b[(i + 1) + 1] = a[i + 1] /\ (i + 1) + 1 = i + 2
        BY <1>3, <2>1
      <4> QED
        BY <2>1, <4>1
    <3> QED
      BY <1>6, <2>1, <3>1
  <2>6. /\ Gains(f[i] \o z, q, g[i + 1] \o z)
        /\ \A m \in 1..Len(f[i]) : (f[i] \o z)[m] = f[i][m]
    BY <2>2, <2>3, GainsGoOn
  <2>7. q # 0 => q \in 1..Len(f[i])
    BY <1>10, <2>2, <2>3 DEF Gains
  <2>8. Gains(f[i + 1], q, g[i + 2]) /\ (q # 0 => f[i + 1][q] = f[p][q])
    BY <2>2, <2>4, <2>5, <2>6, <2>7
  <2>9. i + 1 = p + (k + 1) /\ (i + 1) + 1 = i + 2 /\ k + 1 \in 0..(n - p)
    BY <1>1
  <2>10. Good(i + 1)
    BY <2>8, <2>9
  <2> HIDE DEF i, z, Good
  <2> QED
    BY <2>9, <2>10
<1>18. n - p \in T
  <2> HIDE DEF T
  <2>1. n - p \in Nat
    BY <1>1
  <2>2. 0..(n - p) \subseteq T
    BY <1>16, <1>17, <2>1, UpTo
  <2> QED
    BY <2>1, <2>2
<1>19. Good(n)
  <2>1. p + (n - p) = n
    BY <1>1
  <2> HIDE DEF Good
  <2>2. Good(p + (n - p))
    BY <1>18
  <2> QED
    BY <2>1, <2>2
<1>20. /\ Gains(AsLatin1(a), q, AsLatin1(b))
       /\ p = 0 \/ a[p] = Newline => q = 0 \/ AsLatin1(a)[q] = Newline
  BY <1>5, <1>6, <1>14, <1>15, <1>19
<1> QED
  BY <1>20 DEF q, c

\* A line put into an artifact is put into its text.
TextGains(a, p, b) ==
  /\ Gains(Decode(a), Decoded(a, p), Decode(b))
  /\ Decoded(a, p) = 0 \/ Decode(a)[Decoded(a, p)] = Newline

LEMMA DecodeIs ==
  ASSUME NEW X, NEW a \in Seq(X)
  PROVE  Decode(a) \in Seq(X \cup {"high", Newline})
<1>1. CASE ~Transcoded(a)
  BY <1>1 DEF Decode
<1>2. CASE Transcoded(a)
  <2>1. PICK f \in [0..Len(a) -> Seq(X \cup {"high", Newline})] : AsLatin1(a) = f[Len(a)]
    BY Latin1Grows
  <2>2. Len(a) \in 0..Len(a)
    OBVIOUS
  <2> QED
    BY <1>2, <2>1, <2>2 DEF Decode
<1> QED
  BY <1>1, <1>2

LEMMA DecodeGains ==
  ASSUME NEW X, NEW a \in Seq(X), NEW p \in 0..Len(a), p = 0 \/ a[p] = Newline
  PROVE  LET b == InsertAt(a, p + 1, Newline) IN
         /\ b \in Seq(X \cup {Newline}) /\ TextGains(a, p, b)
<1> DEFINE b == InsertAt(a, p + 1, Newline)
<1>1. b \in Seq(X \cup {Newline}) /\ Gains(a, p, b)
  BY InsertGains
<1> HIDE DEF b
<1>2. Transcoded(b) <=> Transcoded(a)
  <2>1. \A k \in 1..Len(a) : a[k] \in Range(b)
    <3> SUFFICES ASSUME NEW k \in 1..Len(a) PROVE a[k] \in Range(b)
      OBVIOUS
    <3>1. k \in 1..p \/ k \in (p + 1)..Len(a)
      OBVIOUS
    <3>2. DOMAIN b = 1..(Len(a) + 1) /\ (b[k] = a[k] \/ b[k + 1] = a[k])
      BY <1>1, <3>1 DEF Gains
    <3> QED
      BY <3>2 DEF Range
  <2>2. \A k \in DOMAIN b : b[k] = Newline \/ b[k] \in Range(a)
    <3> SUFFICES ASSUME NEW k \in 1..(Len(a) + 1), b[k] # Newline PROVE b[k] \in Range(a)
      BY <1>1 DEF Gains
    <3>1. k \in 1..p \/ (k > p + 1 /\ k - 1 \in (p + 1)..Len(a) /\ (k - 1) + 1 = k)
      BY <1>1 DEF Gains
    <3>2. (b[k] = a[k] /\ k \in 1..Len(a)) \/ (b[k] = a[k - 1] /\ k - 1 \in 1..Len(a))
      <4>1. CASE k \in 1..p
        BY <1>1, <4>1 DEF Gains
      <4>2. CASE k > p + 1 /\ k - 1 \in (p + 1)..Len(a) /\ (k - 1) + 1 = k
        <5>1. b[(k - 1) + 1] = a[k - 1]
          BY <1>1, <4>2 DEF Gains
        <5> QED
          BY <4>2, <5>1
      <4> QED
        BY <3>1, <4>1, <4>2
    <3> QED
      BY <3>2 DEF Range
  <2>3. "stray" # Newline
    BY DEF Newline
  <2> QED
    BY <2>1, <2>2, <2>3 DEF Transcoded, Range
<1>3. TextGains(a, p, b)
  <2>1. CASE ~Transcoded(a)
    BY <1>1, <1>2, <2>1 DEF TextGains, Decode, Decoded
  <2>2. CASE Transcoded(a)
    <3> DEFINE q == Len(AsLatin1(Prefix(a, p)))
    <3>1. Gains(AsLatin1(a), q, AsLatin1(b)) /\ (q = 0 \/ AsLatin1(a)[q] = Newline)
      BY <1>1, Latin1Gains
    <3>2. Decode(a) = AsLatin1(a) /\ Decode(b) = AsLatin1(b) /\ Decoded(a, p) = q
      BY <1>2, <2>2 DEF Decode, Decoded
    <3> HIDE DEF q
    <3> QED
      BY <3>1, <3>2 DEF TextGains
  <2> QED
    BY <2>1, <2>2
<1> QED
  BY <1>1, <1>3 DEF b

\* What is raised stays as it was, a blank line further on.
LEMMA ShiftFacts ==
  ASSUME NEW q \in Nat, NEW i \in Nat, NEW k \in Nat
  PROVE  /\ Shift(q, i) \in Nat
         /\ i <= k => Shift(q, i) <= Shift(q, k)
         /\ Shift(q, i) = Shift(q, k) => i = k
BY DEF Shift

LEMMA ShiftedRaw ==
  ASSUME NEW q \in Nat, NEW raw, RawFits(raw), NEW new, new = ShiftRaw(q, raw)
  PROVE  RawFits(new) /\ new.from = Shift(q, raw.from) /\ new.to = Shift(q, raw.to - 1) + 1
<1>1. /\ {"from", "to", "tier", "severity"} \subseteq DOMAIN raw
      /\ raw.from \in Nat /\ raw.to \in Nat /\ raw.from < raw.to
      /\ raw.tier \in Tier /\ raw.severity \in Severity
  BY DEF RawFits
<1>2. /\ {"from", "to", "tier", "severity"} \subseteq DOMAIN new
      /\ new.from = Shift(q, raw.from) /\ new.to = Shift(q, raw.to - 1) + 1
      /\ new.tier = raw.tier /\ new.severity = raw.severity
  BY <1>1 DEF ShiftRaw
<1>3. raw.to - 1 \in Nat /\ raw.from <= raw.to - 1
  BY <1>1
<1>4. Shift(q, raw.from) \in Nat /\ Shift(q, raw.to - 1) \in Nat /\ Shift(q, raw.from) <= Shift(q, raw.to - 1)
  BY <1>1, <1>3, ShiftFacts
<1>5. new.from \in Nat /\ new.to \in Nat /\ new.from < new.to
  BY <1>2, <1>4
<1> QED
  BY <1>1, <1>2, <1>5 DEF RawFits

LEMMA ShiftedFit ==
  ASSUME NEW q \in Nat, NEW raws, RawsFit(raws)
  PROVE  RawsFit(ShiftRaws(q, raws))
<1> DEFINE n == Len(raws)
           new == ShiftRaws(q, raws)
<1>1. n \in Nat /\ DOMAIN raws = 1..n
  <2>1. raws \in Seq(Range(raws))
    BY DEF RawsFit
  <2> QED
    BY <2>1
<1>2. DOMAIN new = 1..n /\ new = [k \in 1..n |-> new[k]] /\ \A k \in 1..n : new[k] = ShiftRaw(q, raws[k])
  BY <1>1 DEF ShiftRaws
<1> HIDE DEF n, new
<1>3. ASSUME NEW k \in 1..n
      PROVE  RawFits(raws[k])
  <2>1. raws[k] \in Range(raws)
    BY <1>1 DEF Range
  <2> QED
    BY <2>1 DEF RawsFit, RawFits
<1>4. ASSUME NEW k \in 1..n
      PROVE  RawFits(new[k]) /\ new[k].from = Shift(q, raws[k].from) /\ new[k].to = Shift(q, raws[k].to - 1) + 1
  BY <1>2, <1>3, ShiftedRaw
<1>5. new \in Seq(Range(new))
  <2> DEFINE T == Range(new)
  <2>1. \A k \in 1..n : new[k] \in T
    BY <1>2 DEF Range
  <2> HIDE DEF T
  <2>2. new \in Seq(T)
    BY <1>1, <1>2, <2>1, SeqByElements
  <2> QED
    BY <2>2 DEF T
<1>6. \A raw \in Range(new) : RawFits(raw)
  BY <1>2, <1>4 DEF Range
<1>7. ASSUME NEW i \in 1..n, NEW k \in 1..n
      PROVE  /\ new[i].from = new[k].from => raws[i].from = raws[k].from
             /\ new[i].to = new[k].to => raws[i].to = raws[k].to
  <2>1. /\ raws[i].from \in Nat /\ raws[i].to - 1 \in Nat /\ raws[i].to \in Nat
        /\ raws[k].from \in Nat /\ raws[k].to - 1 \in Nat /\ raws[k].to \in Nat
    BY <1>3 DEF RawFits
  <2>2. new[i].from = new[k].from => raws[i].from = raws[k].from
    <3>1. new[i].from = Shift(q, raws[i].from) /\ new[k].from = Shift(q, raws[k].from)
      BY <1>4
    <3>2. Shift(q, raws[i].from) = Shift(q, raws[k].from) => raws[i].from = raws[k].from
      BY <2>1, ShiftFacts
    <3> QED
      BY <3>1, <3>2
  <2>3. Shift(q, raws[i].to - 1) \in Nat /\ Shift(q, raws[k].to - 1) \in Nat
    BY <2>1, ShiftFacts
  <2>4. new[i].to = new[k].to => Shift(q, raws[i].to - 1) = Shift(q, raws[k].to - 1)
    BY <1>4, <2>3
  <2>5. new[i].to = new[k].to => raws[i].to - 1 = raws[k].to - 1
    BY <2>1, <2>4, ShiftFacts
  <2> QED
    BY <2>1, <2>2, <2>5
<1>8. ASSUME NEW i \in 1..n, NEW k \in 1..n, new[i].from = new[k].from, new[i].to = new[k].to,
             NEW m \in i..k, new[m].from = new[i].from
      PROVE  new[m] = new[i]
  <2>1. m \in 1..n
    BY <1>1
  <2>2. raws[i].from = raws[k].from /\ raws[i].to = raws[k].to /\ raws[m].from = raws[i].from
    BY <1>7, <1>8, <2>1
  <2>3. raws[m] = raws[i]
    BY <1>1, <2>2 DEF RawsFit
  <2> QED
    BY <1>2, <2>1, <2>3
<1>9. RawsFit(new)
  <2>1. \A raw \in Range(new) :
          /\ {"from", "to", "tier", "severity"} \subseteq DOMAIN raw
          /\ raw.from \in Nat /\ raw.to \in Nat /\ raw.from < raw.to
          /\ raw.tier \in Tier /\ raw.severity \in Severity
    BY <1>6 DEF RawFits
  <2> QED
    BY <1>2, <1>5, <1>8, <2>1 DEF RawsFit
<1> QED
  BY <1>9 DEF new

LEMMA SpacedFits ==
  ASSUME NEW f, FileFits(f), NEW p \in LineEnds(f)
  PROVE  /\ FileFits(Spaced(f, p)) /\ Spaced(f, p).path = f.path /\ Spaced(f, p).rank = f.rank
<1> DEFINE q == Decoded(f.artifact, p)
           g == Spaced(f, p)
           a == f.artifact
           X == Range(a) \cup {Newline}
<1>1. a \in Seq(X) /\ p \in 0..Len(a)
  <2>1. a \in Seq(Range(a))
    BY DEF FileFits
  <2> HIDE DEF a
  <2>2. p \in 0..Len(a)
    BY <2>1 DEF LineEnds, a
  <2> QED
    BY <2>1, <2>2, LargerSeq
<1> HIDE DEF a
<1>2. /\ Len(Decode(a)) \in Nat /\ q \in 0..Len(Decode(a))
      /\ Len(Decode(InsertAt(a, p + 1, Newline))) = Len(Decode(a)) + 1
  <2>1. p = 0 \/ a[p] = Newline
    BY DEF LineEnds, a
  <2>2. TextGains(a, p, InsertAt(a, p + 1, Newline))
    BY <1>1, <2>1, DecodeGains
  <2>3. Len(Decode(a)) \in Nat
    BY <1>1, DecodeIs
  <2> QED
    BY <2>2, <2>3 DEF TextGains, Gains, a
<1>3. InsertAt(a, p + 1, Newline) \in Seq(Range(InsertAt(a, p + 1, Newline)))
  <2>1. SubSeq(a, 1, (p + 1) - 1) \in Seq(X) /\ SubSeq(a, p + 1, Len(a)) \in Seq(X)
    BY <1>1
  <2>2. <<Newline>> \in Seq(X)
    OBVIOUS
  <2> HIDE DEF X
  <2>3. InsertAt(a, p + 1, Newline) \in Seq(X)
    BY <2>1, <2>2, ConcatProperties DEF InsertAt
  <2> QED
    BY <2>3, OwnSeq
<1>4. g = [f EXCEPT
       !.artifact = InsertAt(@, p + 1, Newline),
       !.comments = {[c EXCEPT !.at = Shift(q, @)] : c \in @},
       !.raws = [r \in DOMAIN @ |-> ShiftRaws(q, @[r])]]
  BY DEF Spaced, a
<1>5. {"path", "rank", "language", "outcome", "artifact", "comments", "raws"} \subseteq DOMAIN f
  BY DEF FileFits
<1> HIDE DEF q, g
<1>6. /\ DOMAIN g = DOMAIN f /\ g.path = f.path /\ g.rank = f.rank
      /\ g.artifact = InsertAt(a, p + 1, Newline)
      /\ g.raws = [r \in DOMAIN f.raws |-> ShiftRaws(q, f.raws[r])]
  <2> DEFINE new == InsertAt(a, p + 1, Newline)
             comments == {[c EXCEPT !.at = Shift(q, @)] : c \in f.comments}
             raws == [r \in DOMAIN f.raws |-> ShiftRaws(q, f.raws[r])]
  <2>1. g = [f EXCEPT !.artifact = new, !.comments = comments, !.raws = raws]
    BY <1>4 DEF a
  <2> HIDE DEF new, comments, raws
  <2>2. DOMAIN g = DOMAIN f /\ g.path = f.path /\ g.rank = f.rank /\ g.artifact = new /\ g.raws = raws
    BY <1>5, <2>1
  <2> QED
    BY <2>2 DEF new, raws
<1>7. ASSUME NEW k \in DOMAIN Registry
      PROVE  /\ Registry[k].id \in DOMAIN g.raws /\ RawsFit(g.raws[Registry[k].id])
             /\ \A raw \in Range(g.raws[Registry[k].id]) : raw.to <= Len(Decode(g.artifact))
  <2> DEFINE r == Registry[k].id
             raws == f.raws[r]
  <2>1. r \in DOMAIN f.raws /\ RawsFit(raws) /\ \A raw \in Range(raws) : raw.to <= Len(Decode(a))
    BY DEF FileFits, a
  <2>2. r \in DOMAIN g.raws /\ g.raws[r] = ShiftRaws(q, raws)
    BY <1>6, <2>1
  <2> HIDE DEF r, raws
  <2>3. RawsFit(g.raws[r])
    BY <1>2, <2>1, <2>2, ShiftedFit
  <2>4. ASSUME NEW i \in DOMAIN raws
        PROVE  g.raws[r][i].to <= Len(Decode(g.artifact))
    <3>1. raws[i] \in Range(raws)
      BY DEF Range
    <3>2. RawFits(raws[i]) /\ raws[i].to <= Len(Decode(a))
      BY <2>1, <3>1 DEF RawsFit, RawFits
    <3>3. g.raws[r][i] = ShiftRaw(q, raws[i])
      BY <2>2 DEF ShiftRaws
    <3>4. g.raws[r][i].to = Shift(q, raws[i].to - 1) + 1 /\ raws[i].to \in Nat
      BY <1>2, <3>2, <3>3, ShiftedRaw DEF RawFits
    <3>5. Len(Decode(g.artifact)) = Len(Decode(a)) + 1
      BY <1>2, <1>6
    <3> QED
      BY <1>2, <3>2, <3>4, <3>5 DEF Shift
  <2>5. \A raw \in Range(g.raws[r]) : raw.to <= Len(Decode(g.artifact))
    <3>1. DOMAIN g.raws[r] = DOMAIN raws
      BY <2>2 DEF ShiftRaws
    <3> QED
      BY <2>4, <3>1 DEF Range
  <2> QED
    BY <2>2, <2>3, <2>5 DEF r
<1>8. FileFits(g)
  BY <1>3, <1>5, <1>6, <1>7 DEF FileFits, a
<1> QED
  BY <1>6, <1>8 DEF g

\* The job of the sources moved is a job.
RootedIn(j, path) == j.elsewhere \o Below(path, j.base)
FileMoved(j, file, p, f) == [(IF f = file THEN Spaced(f, p) ELSE f) EXCEPT !.path = RootedIn(j, @)]
JobMoved(j, file, p) ==
  [j EXCEPT !.root = RootedIn(j, j.root), !.base = j.elsewhere,
            !.files = {FileMoved(j, file, p, f) : f \in j.files}]

LEMMA FilesMove ==
  ASSUME NEW j, JobFits(j), NEW file, NEW p \in LineEnds(file), NEW f \in j.files,
         NEW g, g = FileMoved(j, file, p, f)
  PROVE  /\ FileFits(g) /\ g.path = RootedIn(j, f.path) /\ g.rank = f.rank
         /\ Rebased(Component, j.base, j.elsewhere, f.path, g.path) /\ Within(g.path, j.elsewhere)
<1> DEFINE h == IF f = file THEN Spaced(f, p) ELSE f
           path == RootedIn(j, f.path)
<1>1. FileFits(f) /\ f.path \in Seq(Component) /\ Within(f.path, j.base)
  BY DEF JobFits, FileFits, PathFits
<1>2. FileFits(h) /\ h.path = f.path /\ h.rank = f.rank
  BY <1>1, SpacedFits
<1>3. Rebased(Component, j.base, j.elsewhere, f.path, path) /\ Within(path, j.elsewhere)
  <2>1. j.base \in Seq(Component) /\ j.elsewhere \in Seq(Component)
    BY DEF JobFits
  <2>2. path = j.elsewhere \o Below(f.path, j.base)
    BY DEF RootedIn
  <2> HIDE DEF path
  <2> QED
    BY <1>1, <2>1, <2>2, Rebasing
<1>4. g = [h EXCEPT !.path = path]
  BY <1>2 DEF FileMoved
<1> HIDE DEF h, path
<1>5. path \in Seq(Component)
  BY <1>3 DEF Rebased
<1>6. /\ DOMAIN g = DOMAIN h /\ g.path = path /\ g.rank = h.rank
      /\ g.artifact = h.artifact /\ g.raws = h.raws
  <2>1. {"path", "rank", "language", "outcome", "artifact", "comments", "raws"} \subseteq DOMAIN h
    BY <1>2 DEF FileFits
  <2> QED
    BY <1>4, <2>1
<1>7. FileFits(g)
  BY <1>2, <1>5, <1>6 DEF FileFits
<1> QED
  BY <1>2, <1>3, <1>6, <1>7 DEF path

LEMMA PathsMove ==
  ASSUME NEW X, NEW b, NEW e, NEW p, NEW r, Rebased(X, b, e, p, r),
         \A k \in (Len(b) + 1)..Len(p) : p[k] \notin Reserved
  PROVE  \A k \in (Len(e) + 1)..Len(r) : r[k] \notin Reserved
<1> SUFFICES ASSUME NEW k \in (Len(e) + 1)..Len(r) PROVE r[k] \notin Reserved
  OBVIOUS
<1>1. Len(b) \in Nat /\ Len(e) \in Nat /\ Len(p) \in Nat /\ Len(b) <= Len(p) /\ Len(r) = Len(e) + (Len(p) - Len(b))
  BY DEF Rebased
<1>2. PICK i \in 1..(Len(p) - Len(b)) : k = Len(e) + i
  <2>1. k - Len(e) \in 1..(Len(p) - Len(b)) /\ k = Len(e) + (k - Len(e))
    BY <1>1
  <2> QED
    BY <2>1
<1>3. r[k] = p[Len(b) + i] /\ Len(b) + i \in (Len(b) + 1)..Len(p)
  BY <1>1, <1>2 DEF Rebased
<1> QED
  BY <1>3

LEMMA JobsMove ==
  ASSUME NEW j, JobFits(j), OptionsFit(j), NEW file, NEW p \in LineEnds(file),
         NEW m, m = JobMoved(j, file, p)
  PROVE  JobFits(m) /\ OptionsFit(m)
<1> DEFINE root == RootedIn(j, j.root)
           files == {FileMoved(j, file, p, f) : f \in j.files}
<1>1. m = [j EXCEPT !.root = root, !.base = j.elsewhere, !.files = files]
  BY DEF JobMoved
<1>2. /\ {"root", "base", "elsewhere", "files", "select"} \subseteq DOMAIN j
      /\ j.root \in Seq(Component) /\ j.base \in Seq(Component) /\ j.elsewhere \in Seq(Component)
      /\ Within(j.root, j.base) /\ IsFiniteSet(j.files)
  BY DEF JobFits
<1>3. IsFiniteSet(files)
  <2> DEFINE image == [f \in j.files |-> FileMoved(j, file, p, f)]
  <2>1. image \in Surjection(j.files, files)
    BY DEF Surjection
  <2> HIDE DEF image, files
  <2> QED
    BY <1>2, <2>1, FS_Surjection
<1>4. ASSUME NEW g \in files
      PROVE  \E f \in j.files : /\ g = FileMoved(j, file, p, f)
                                /\ FileFits(g) /\ g.path = RootedIn(j, f.path) /\ g.rank = f.rank
                                /\ Rebased(Component, j.base, j.elsewhere, f.path, g.path) /\ Within(g.path, j.elsewhere)
  <2>1. PICK f \in j.files : g = FileMoved(j, file, p, f)
    OBVIOUS
  <2> QED
    BY <2>1, FilesMove
<1>5. Rebased(Component, j.base, j.elsewhere, j.root, root) /\ Within(root, j.elsewhere)
  <2>1. root = j.elsewhere \o Below(j.root, j.base)
    BY DEF RootedIn
  <2> HIDE DEF root
  <2> QED
    BY <1>2, <2>1, Rebasing
<1> HIDE DEF root, files
<1>6. /\ DOMAIN m = DOMAIN j /\ m.root = root /\ m.base = j.elsewhere /\ m.files = files
      /\ m.elsewhere = j.elsewhere /\ root \in Seq(Component)
  BY <1>1, <1>2, <1>5 DEF Rebased
<1>7. ASSUME NEW g \in files
      PROVE  FileFits(g) /\ PathFits(g.path, m)
  <2>1. PICK f \in j.files : /\ FileFits(g) /\ g.path = RootedIn(j, f.path)
                             /\ Rebased(Component, j.base, j.elsewhere, f.path, g.path) /\ Within(g.path, j.elsewhere)
    BY <1>4
  <2>2. PathFits(f.path, j) /\ f.path \in Seq(Component)
    BY DEF JobFits, FileFits
  <2>3. \A k \in (Len(j.base) + 1)..Len(f.path) : f.path[k] \notin Reserved
    BY <2>2 DEF PathFits
  <2>4. \A k \in (Len(j.elsewhere) + 1)..Len(g.path) : g.path[k] \notin Reserved
    BY <2>1, <2>3, PathsMove
  <2>5. IsStrictPrefix(root, g.path) \/ (g.path = root /\ root # j.elsewhere)
    <3>1. CASE IsStrictPrefix(j.root, f.path)
      BY <1>2, <1>5, <2>1, <2>2, <3>1, RebasedBelow
    <3>2. CASE f.path = j.root /\ j.root # j.base
      <4>1. g.path = root
        BY <2>1, <3>2 DEF root
      <4>2. Rebased(Component, j.base, j.elsewhere, j.base, j.elsewhere)
        BY <1>2 DEF Rebased
      <4>3. root # j.elsewhere
        BY <1>2, <1>5, <3>2, <4>2, RebasedTells
      <4> QED
        BY <4>1, <4>3
    <3> QED
      BY <2>2, <3>1, <3>2 DEF PathFits
  <2> QED
    BY <1>6, <2>1, <2>4, <2>5 DEF PathFits
<1>8. ASSUME NEW g \in files, NEW h \in files, g.path = h.path \/ g.rank = h.rank \/ g.path = root
      PROVE  g = h
  <2>1. PICK a \in j.files : /\ g = FileMoved(j, file, p, a) /\ g.rank = a.rank
                             /\ Rebased(Component, j.base, j.elsewhere, a.path, g.path)
    BY <1>4
  <2>2. PICK c \in j.files : /\ h = FileMoved(j, file, p, c) /\ h.rank = c.rank
                             /\ Rebased(Component, j.base, j.elsewhere, c.path, h.path)
    BY <1>4
  <2>3. a.path \in Seq(Component) /\ c.path \in Seq(Component)
    BY DEF JobFits, FileFits
  <2>4. a.path = c.path \/ a.rank = c.rank \/ a.path = j.root
    <3>1. CASE g.path = h.path
      BY <2>1, <2>2, <2>3, <3>1, RebasedTells
    <3>2. CASE g.path = root
      BY <1>2, <1>5, <2>1, <2>3, <3>2, RebasedTells
    <3>3. CASE g.rank = h.rank
      BY <2>1, <2>2, <3>3
    <3> QED
      BY <1>8, <3>1, <3>2, <3>3
  <2>5. a = c
    BY <2>4 DEF JobFits
  <2> QED
    BY <2>1, <2>2, <2>5
<1>9. JobFits(m)
  <2>1. Within(m.root, m.base) /\ {m.root, m.base, m.elsewhere} \subseteq Seq(Component)
    BY <1>2, <1>5, <1>6
  <2> QED
    BY <1>2, <1>3, <1>6, <1>7, <1>8, <2>1 DEF JobFits
<1>10. OptionsFit(m)
  BY <1>1 DEF OptionsFit
<1> QED
  BY <1>9, <1>10

LEMMA RescanKeeps ==
  ASSUME Inv, Rescan
  PROVE  Inv'
<1>1. PICK f \in AnalysedFiles : \E p \in LineEnds(f) : job' = Moved(f, p)
  BY DEF Rescan
<1>2. PICK p \in LineEnds(f) : job' = Moved(f, p)
  BY <1>1
<1>3. Moved(f, p) = JobMoved(job, f, p)
  <2> SUFFICES
        [job EXCEPT !.root = Rooted(@), !.base = job.elsewhere,
           !.files = {[(IF g = f THEN Spaced(g, p) ELSE g) EXCEPT !.path = Rooted(@)] : g \in @}]
        = JobMoved(job, f, p)
    BY DEF Moved
  <2>1. \A path : Rooted(path) = RootedIn(job, path)
    BY DEF Rooted, RootedIn
  <2> QED
    BY <2>1 DEF JobMoved, FileMoved
<1>4. JobFits(job') /\ OptionsFit(job')
  BY <1>2, <1>3, JobsMove DEF Inv, Shape
<1>5. /\ phase' = "start" /\ pending' = {} /\ current' = <<>> /\ todo' = <<>>
      /\ findings' = <<>> /\ anchors' = <<>> /\ occurrences' = <<>>
      /\ suppressed' = 0 /\ inventory' = <<>> /\ skipped' = <<>> /\ judged' = <<>>
      /\ edits' = edits
  BY DEF Rescan
<1>6. /\ Shape' /\ ~Collected' /\ PrintInv' /\ Opened' = {} /\ ReadFiles' = {}
  BY <1>4, <1>5 DEF Inv, Shape, Collected, PrintInv, Printed, Opened, ReadFiles
<1>7. /\ Chronicle(job', {}, <<>>, <<>>, <<>>) /\ <<>> \in Seq(Findings(job', RaisedIn(job', {})))
      /\ Inventoried({}, <<>>, <<>>) /\ Sifted(<<>>, <<>>, 0) /\ InOrder(<<>>, <<>>) /\ Anchored(<<>>, <<>>, <<>>)
  BY NothingYet
<1> QED
  BY <1>5, <1>6, <1>7 DEF Inv

\* What was gathered is what the rules raise, at every step.
THEOREM GatheredIsRaised == Spec => []Inv
<1>1. Inv /\ [Next]_vars => Inv'
  <2> SUFFICES ASSUME Inv, [Next]_vars PROVE Inv'
    OBVIOUS
  <2>1. CASE Gather
    <3>1. UNCHANGED reportVars
      BY <2>1 DEF Gather
    <3>2. CASE Tick
      BY <3>1, <3>2, TickKeeps
    <3>3. CASE Compile
      BY <3>1, <3>3, CompileKeeps
    <3>4. CASE Judge
      BY <3>1, <3>4, JudgeKeeps
    <3>5. CASE Finish
      BY <3>1, <3>5, FinishKeeps
    <3>6. CASE \E f \in pending : Open(f)
      BY <3>1, <3>6, OpenKeeps
    <3> QED
      BY <2>1, <3>2, <3>3, <3>4, <3>5, <3>6 DEF Gather, CollectNext
  <2>2. CASE Conclude
    BY <2>2, ConcludeKeeps
  <2>3. CASE Rescan
    BY <2>3, RescanKeeps
  <2>4. CASE Edit
    BY <2>4, EditKeeps
  <2>5. CASE UNCHANGED vars
    <3>1. Shape' /\ PrintInv'
      <4>1. UNCHANGED <<job, phase, pending, todo, edits, report, document, findings, anchors, inventory, skipped, suppressed>>
        BY <2>5 DEF vars, collectVars, reportVars, engineVars, resultVars
      <4> QED
        BY <4>1, ReportStays DEF Inv, Shape, Collected, PrintInv, Printed
    <3> QED
      BY <2>5, <3>1, Idle DEF vars, collectVars, reportVars, engineVars, resultVars
  <2> QED
    BY <2>1, <2>2, <2>3, <2>4, <2>5 DEF Next
<1> QED
  BY <1>1, InitHolds, PTL DEF Spec

-----------------------------------------------------------------------------
\* What is shown of what was found.

LEMMA SameNumber ==
  ASSUME NEW K, IsFiniteSet(K), NEW T, NEW g \in [K -> T],
         \A t \in T : \E k \in K : g[k] = t,
         \A i, k \in K : g[i] = g[k] => i = k
  PROVE  IsFiniteSet(T) /\ Cardinality(T) = Cardinality(K)
<1>1. g \in Surjection(K, T)
  BY DEF Surjection
<1>2. \A i, k \in DOMAIN g : g[i] = g[k] => i = k
  OBVIOUS
<1> QED
  BY <1>1, <1>2, FS_Surjection DEF Injection, IsInjective

AllRaised == RaisedIn(job, AnalysedFiles)

\* When all is read.
LEMMA AllIsRead ==
  ASSUME Inv, Collected
  PROVE  /\ JobFits(job) /\ OptionsFit(job) /\ AnalysedFiles \in SUBSET job.files
         /\ Inventoried(job.files, inventory, skipped)
         /\ \E cur : Chronicle(job, AnalysedFiles, cur, judged, <<>>)
         /\ findings \in Seq(Findings(job, AllRaised))
         /\ Sifted(judged, findings, suppressed)
         /\ Tidy(job, findings)
         /\ Anchored(findings, anchors, occurrences)
<1>1. Opened = job.files /\ ReadFiles = AnalysedFiles /\ todo = <<>> /\ AnalysedFiles \in SUBSET job.files
  BY DEF Inv, Shape, Collected, Opened, ReadFiles, AnalysedFiles
<1> QED
  BY <1>1 DEF Inv, Shape, AllRaised

\* A finding is shown unless it is a guess and guesses are not wanted.
Wanted(f) == ~job.noSpeculative \/ f.evidence # "SPECULATIVE"

LEMMA ShownFacts ==
  ASSUME Inv, Collected, NEW shown, shown = Shown(findings)
  PROVE  /\ shown \in Seq(Findings(job, AllRaised)) /\ Len(shown) \in Nat /\ DOMAIN shown = 1..Len(shown)
         /\ Range(shown) = {f \in Range(findings) : Wanted(f)}
         /\ Tidy(job, shown)
         /\ Len(findings) \in Nat
         /\ Len(findings) = Len(shown) + Cardinality({f \in Range(findings) : ~Wanted(f)})
         /\ Cardinality({f \in Range(findings) : ~Wanted(f)}) \in Nat
<1> DEFINE n == Len(findings)
           K == {k \in DOMAIN findings : Wanted(findings[k])}
           O == {k \in DOMAIN findings : ~Wanted(findings[k])}
           F == {f \in Range(findings) : ~Wanted(f)}
<1>1. /\ findings \in Seq(Findings(job, AllRaised)) /\ Tidy(job, findings)
  BY AllIsRead
<1>2. n \in Nat /\ DOMAIN findings = 1..n /\ K \in SUBSET (1..n) /\ O \in SUBSET (1..n)
  BY <1>1
<1>3. shown = At(findings, K)
  BY DEF Shown, Retain, Wanted
<1>4. \E at : /\ Picks(at, findings, K, {p \in K \X K : p[1] < p[2]}, At(findings, K))
              /\ \A i, k \in 1..Cardinality(K) : i < k <=> at[i] < at[k]
  BY <1>2, AtPicks
<1>5. K = {k \in DOMAIN findings : Wanted(findings[k])}
  OBVIOUS
<1>6. O = {k \in DOMAIN findings : ~Wanted(findings[k])}
  OBVIOUS
<1>7. F = {f \in Range(findings) : ~Wanted(f)}
  OBVIOUS
<1> HIDE DEF n, K, O, F
<1>8. PICK at : /\ Picks(at, findings, K, {p \in K \X K : p[1] < p[2]}, shown)
                /\ \A i, k \in 1..Cardinality(K) : i < k <=> at[i] < at[k]
  BY <1>3, <1>4
<1>9. /\ shown \in Seq(Findings(job, AllRaised)) /\ Len(shown) = Cardinality(K)
      /\ DOMAIN shown = 1..Cardinality(K)
      /\ \A i \in DOMAIN shown : at[i] \in K /\ shown[i] = findings[at[i]]
      /\ \A k \in K : \E i \in DOMAIN shown : at[i] = k /\ shown[i] = findings[k]
  <2>1. K \in SUBSET (1..Len(findings)) /\ findings \in Seq(Findings(job, AllRaised))
    BY <1>1, <1>2 DEF n
  <2>2. PickedFrom(Findings(job, AllRaised), findings, K, at, shown)
    BY <1>8, <2>1, Picked
  <2> QED
    BY <2>2 DEF PickedFrom
<1>10. Range(shown) = {f \in Range(findings) : Wanted(f)}
  <2>1. ASSUME NEW i \in DOMAIN shown
        PROVE  shown[i] \in Range(findings) /\ Wanted(shown[i])
    <3>1. at[i] \in DOMAIN findings /\ Wanted(findings[at[i]]) /\ shown[i] = findings[at[i]]
      BY <1>5, <1>9
    <3> QED
      BY <3>1 DEF Range
  <2>2. ASSUME NEW k \in DOMAIN findings, Wanted(findings[k])
        PROVE  findings[k] \in Range(shown)
    <3>1. k \in K
      BY <1>5, <2>2
    <3>2. PICK i \in DOMAIN shown : shown[i] = findings[k]
      BY <1>9, <3>1
    <3> QED
      BY <3>2 DEF Range
  <2>3. \A f \in Range(shown) : f \in Range(findings) /\ Wanted(f)
    BY <2>1 DEF Range
  <2>4. \A f \in Range(findings) : Wanted(f) => f \in Range(shown)
    BY <2>2 DEF Range
  <2> QED
    BY <2>3, <2>4
<1>11. Tidy(job, shown)
  <2> SUFFICES ASSUME NEW i \in DOMAIN shown, NEW k \in DOMAIN shown, i < k
               PROVE  /\ ~BeforeIn(job, shown[k], shown[i])
                      /\ <<shown[i].rule_id, shown[i].location>> # <<shown[k].rule_id, shown[k].location>>
    BY DEF Tidy
  <2>1. at[i] \in DOMAIN findings /\ at[k] \in DOMAIN findings /\ at[i] < at[k]
    BY <1>5, <1>8, <1>9
  <2> QED
    BY <1>1, <1>9, <2>1 DEF Tidy
<1>12. IsFiniteSet(K) /\ IsFiniteSet(O) /\ Cardinality(K) \in Nat /\ Cardinality(O) \in Nat
       /\ n = Cardinality(K) + Cardinality(O)
  <2>1. IsFiniteSet(1..n) /\ Cardinality(1..n) = n
    BY <1>2, UpToCount
  <2>2. IsFiniteSet(K) /\ IsFiniteSet(O)
    BY <1>2, <2>1, FS_Subset
  <2>3. K \cup O = 1..n /\ K \cap O = {}
    BY <1>2, <1>5, <1>6
  <2>4. Cardinality(K) \in Nat /\ Cardinality(O) \in Nat
    BY <2>2, FS_CardinalityType
  <2>5. Cardinality((1..n) \ K) = Cardinality(1..n) - Cardinality((1..n) \cap K)
    BY <2>1, <2>2, FS_Difference
  <2>6. (1..n) \ K = O /\ (1..n) \cap K = K
    BY <2>3
  <2>7. Cardinality(O) = n - Cardinality(K)
    BY <2>1, <2>5, <2>6
  <2> QED
    BY <1>2, <2>2, <2>4, <2>7
<1>13. Cardinality(F) = Cardinality(O)
  <2> DEFINE g == [k \in O |-> findings[k]]
  <2>1. g \in [O -> F] /\ \A k \in O : g[k] = findings[k]
    BY <1>6, <1>7 DEF Range
  <2>2. \A f \in F : \E k \in O : g[k] = f
    BY <1>6, <1>7 DEF Range
  <2>3. ASSUME NEW i \in O, NEW k \in O, g[i] = g[k]
        PROVE  i = k
    <3>1. i \in DOMAIN findings /\ k \in DOMAIN findings /\ findings[i] = findings[k]
      BY <1>6, <2>1, <2>3
    <3>2. ~(i < k) /\ ~(k < i)
      BY <1>1, <3>1 DEF Tidy
    <3> QED
      BY <1>2, <3>1, <3>2
  <2> HIDE DEF g
  <2> QED
    BY <1>12, <2>1, <2>2, <2>3, SameNumber
<1> QED
  BY <1>2, <1>7, <1>9, <1>10, <1>11, <1>12, <1>13 DEF n

-----------------------------------------------------------------------------
\* Nothing is lost.

LEMMA PrintedFacts ==
  ASSUME Inv, Printed
  PROVE  /\ Collected /\ report = ScanReport /\ document = Render(report)
         /\ report.root = job.root /\ report.findings = Shown(findings) /\ report.anchors = anchors
         /\ report.inventory = inventory /\ report.skipped = skipped
         /\ report.files = Cardinality(AnalysedFiles)
         /\ report.suppressed = suppressed + Len(findings) - Len(Shown(findings))
         /\ report.exit_code = {ExitCode(Cardinality(AnalysedFiles), report.failures, Shown(findings))}
<1>1. Collected /\ report = ScanReport /\ document = Render(report)
  BY DEF Inv, PrintInv, Printed, Collected
<1>2. /\ ScanReport.root = job.root /\ ScanReport.findings = Shown(findings) /\ ScanReport.anchors = anchors
      /\ ScanReport.inventory = inventory /\ ScanReport.skipped = skipped
      /\ ScanReport.files = Cardinality(AnalysedFiles)
      /\ ScanReport.suppressed = suppressed + Len(findings) - Len(Shown(findings))
      /\ ScanReport.exit_code = {ExitCode(Cardinality(AnalysedFiles), ScanReport.failures, Shown(findings))}
  BY DEF ScanReport
<1> QED
  BY <1>1, <1>2

\* The judged are the raised, one by one.
LEMMA JudgedFacts ==
  ASSUME Inv, Collected
  PROVE  /\ Len(judged) \in Nat /\ DOMAIN judged = 1..Len(judged)
         /\ Len(judged) = Cardinality(AllRaised)
         /\ {j.finding : j \in Range(judged)} = Findings(job, AllRaised)
         /\ \A i \in DOMAIN judged : judged[i].kept \in BOOLEAN
<1> DEFINE A == AllRaised
           n == Len(judged)
<1>1. PICK cur : Chronicle(job, AnalysedFiles, cur, judged, <<>>)
  BY AllIsRead
<1>2. judged \in Seq(Verdicts(job, A))
  BY <1>1 DEF Chronicle, AllRaised
<1>3. n \in Nat /\ DOMAIN judged = 1..n /\ \A i \in 1..n : judged[i] \in Verdicts(job, A)
  BY <1>2
<1>4. PICK h : Numbering(A, h, n) /\ \A i \in 1..n : judged[i].finding = ToldIn(job, h[i])
  <2>1. PICK h : Numbering(A, h, n + Len(<<>>)) /\ Tells(job, judged, <<>>, cur, h)
    BY <1>1 DEF Chronicle, AllRaised
  <2>2. n + Len(<<>>) = n
    BY <1>3
  <2> QED
    BY <2>1, <2>2 DEF Tells
<1> HIDE DEF A, n
<1>5. /\ h \in [1..n -> A]
      /\ \A t \in A : \E i \in 1..n : h[i] = t
      /\ \A i, k \in 1..n : h[i] = h[k] => i = k
  BY <1>4 DEF Numbering
<1>6. n = Cardinality(A)
  <2>1. IsFiniteSet(1..n) /\ Cardinality(1..n) = n
    BY <1>3, UpToCount
  <2> QED
    BY <1>5, <2>1, SameNumber
<1>7. {j.finding : j \in Range(judged)} = Findings(job, A)
  <2>1. ASSUME NEW i \in 1..n
        PROVE  judged[i].finding \in Findings(job, A)
    BY <1>4, <1>5 DEF Findings
  <2>2. ASSUME NEW t \in A
        PROVE  ToldIn(job, t) \in {j.finding : j \in Range(judged)}
    <3>1. PICK i \in 1..n : h[i] = t
      BY <1>5
    <3>2. judged[i].finding = ToldIn(job, t) /\ judged[i] \in Range(judged)
      BY <1>3, <1>4, <3>1 DEF Range
    <3> QED
      BY <3>2
  <2>3. \A j \in Range(judged) : j.finding \in Findings(job, A)
    BY <1>3, <2>1 DEF Range
  <2>4. \A f \in Findings(job, A) : f \in {j.finding : j \in Range(judged)}
    BY <2>2 DEF Findings
  <2> QED
    BY <2>3, <2>4
<1>8. ASSUME NEW i \in DOMAIN judged
      PROVE  judged[i].kept \in BOOLEAN
  BY <1>3 DEF Verdicts
<1> QED
  BY <1>3, <1>6, <1>7, <1>8 DEF A, n

\* Those kept are those found.
LEMMA KeptFacts ==
  ASSUME Inv, Collected
  PROVE  /\ {j.finding : j \in {j \in Range(judged) : j.kept}} = Range(findings)
         /\ Count(judged, LAMBDA j : ~j.kept) = suppressed
         /\ suppressed \in Nat
<1>1. Len(judged) \in Nat /\ DOMAIN judged = 1..Len(judged)
  BY JudgedFacts
<1>2. Range(findings) = {judged[i].finding : i \in KeptAt(judged)} /\ suppressed = Cardinality(HiddenAt(judged))
  BY AllIsRead DEF Sifted
<1>3. {j.finding : j \in {j \in Range(judged) : j.kept}} = {judged[i].finding : i \in KeptAt(judged)}
  BY <1>1 DEF KeptAt, Range
<1>4. Count(judged, LAMBDA j : ~j.kept) = Cardinality({i \in DOMAIN judged : ~judged[i].kept})
  BY DEF Count
<1>5. {i \in DOMAIN judged : ~judged[i].kept} = HiddenAt(judged)
  BY <1>1 DEF HiddenAt
<1>6. Cardinality(HiddenAt(judged)) \in Nat
  <2>1. IsFiniteSet(1..Len(judged)) /\ HiddenAt(judged) \in SUBSET (1..Len(judged))
    BY <1>1, UpToCount DEF HiddenAt
  <2> QED
    BY <2>1, FS_Subset, FS_CardinalityType
<1> QED
  BY <1>2, <1>3, <1>4, <1>5, <1>6

\* The module's words for what is raised.
LEMMA RaisedIsAll ==
  /\ UNION {RaisedBy(f) : f \in AnalysedFiles} = AllRaised
  /\ \A t : Told(t) = ToldIn(job, t)
<1>1. Rules = RulesOf(job)
  BY DEF Rules, RulesOf
<1>2. \A f : RaisedBy(f) = Triples(f, For(job, f.language))
  BY <1>1 DEF RaisedBy, Triples, For
<1>3. UNION {RaisedBy(f) : f \in AnalysedFiles} = AllRaised
  BY <1>2 DEF AllRaised, RaisedIn
<1>4. \A t : Told(t) = ToldIn(job, t)
  BY OfTheJob DEF Told, ToldIn, PlaceOf, RawOf
<1> QED
  BY <1>3, <1>4

LEMMA LostNothing == Inv => NothingIsLost
<1> SUFFICES ASSUME Inv, Printed
             PROVE  NothingIsLost
  BY DEF NothingIsLost
<1> DEFINE raised == UNION {RaisedBy(f) : f \in AnalysedFiles}
           kept == {j.finding : j \in {j \in Range(judged) : j.kept}}
           guesses == {f \in kept : f.evidence = "SPECULATIVE" /\ job.noSpeculative}
           shown == report.findings
<1>1. Collected /\ shown = Shown(findings)
      /\ report.suppressed = suppressed + Len(findings) - Len(shown)
  BY PrintedFacts
<1>2. kept = Range(findings)
  BY <1>1, KeptFacts
<1>3. guesses = {f \in Range(findings) : ~Wanted(f)} /\ Range(findings) \ guesses = {f \in Range(findings) : Wanted(f)}
  <2>1. job.noSpeculative \in BOOLEAN
    BY DEF Inv, Shape, OptionsFit
  <2>2. \A f : ~Wanted(f) <=> f.evidence = "SPECULATIVE" /\ job.noSpeculative
    BY <2>1 DEF Wanted
  <2> QED
    BY <1>2, <2>2
<1>4. Len(judged) = Cardinality(raised)
  BY <1>1, JudgedFacts, RaisedIsAll
<1>5. {j.finding : j \in Range(judged)} = {Told(t) : t \in raised}
  <2>1. {Told(t) : t \in raised} = Findings(job, AllRaised)
    BY RaisedIsAll DEF Findings
  <2> QED
    BY <1>1, <2>1, JudgedFacts
<1> HIDE DEF raised, kept, shown, guesses
<1>6. Range(shown) = kept \ guesses
  BY <1>1, <1>2, <1>3, ShownFacts
<1>7. \A j, k \in DOMAIN shown : j < k =>
        /\ ~FindingBefore(shown[k], shown[j])
        /\ <<shown[j].rule_id, shown[j].location>> # <<shown[k].rule_id, shown[k].location>>
  <2>1. Tidy(job, shown)
    BY <1>1, ShownFacts
  <2> QED
    BY <2>1, OfTheJob DEF Tidy
<1>8. report.suppressed = Count(judged, LAMBDA j : ~j.kept) + Cardinality(guesses)
  <2>1. /\ Len(shown) \in Nat /\ Cardinality(guesses) \in Nat /\ Len(findings) = Len(shown) + Cardinality(guesses)
    BY <1>1, <1>3, ShownFacts
  <2>2. suppressed + Len(findings) - Len(shown) = suppressed + Cardinality(guesses)
    BY <1>1, <2>1, KeptFacts
  <2> QED
    BY <1>1, <2>2, KeptFacts
<1> QED
  BY <1>4, <1>5, <1>6, <1>7, <1>8 DEF NothingIsLost, raised, kept, shown, guesses

(* What is printed holds every finding the rules raised in the files read, *)
(* or a copy of it, or counts it among the suppressed, in order and once.  *)
THEOREM NothingIsLostCorrect == Spec => []NothingIsLost
BY GatheredIsRaised, LostNothing, PTL

-----------------------------------------------------------------------------
\* The gate.

Levels == [INFO |-> {"note", "warning", "error"}, WARN |-> {"warning", "error"}, ERROR |-> {"error"}]

\* The ways to read a class, a severity and a threshold.
Counted(e, s, t) == CountsTowardVerdict(e) /\ FailOnRank[s] >= FailOnRank[t]

LEMMA Ranks ==
  ASSUME NEW s \in Severity, NEW t \in Severity
  PROVE  /\ FailOnRank[s] \in Nat /\ SeverityScale[s].fail_on_rank = FailOnRank[s]
         /\ LevelForSeverity[s] \in Levels[t] <=> FailOnRank[s] >= FailOnRank[t]
<1>1. s \in {"INFO", "WARN", "ERROR"} /\ t \in {"INFO", "WARN", "ERROR"}
  BY DEF Severity
<1>2. FailOnRank["INFO"] = 0 /\ FailOnRank["WARN"] = 1 /\ FailOnRank["ERROR"] = 2
  BY DEF FailOnRank
<1>3. /\ LevelForSeverity["INFO"] = "note" /\ LevelForSeverity["WARN"] = "warning"
      /\ LevelForSeverity["ERROR"] = "error"
  BY DEF LevelForSeverity
<1>4. /\ Levels["INFO"] = {"note", "warning", "error"} /\ Levels["WARN"] = {"warning", "error"}
      /\ Levels["ERROR"] = {"error"}
  BY DEF Levels
<1>5. SeverityScale[s].fail_on_rank = FailOnRank[s]
  BY DEF SeverityScale
<1>6. CASE t = "INFO"
  BY <1>1, <1>2, <1>3, <1>4, <1>5, <1>6
<1>7. CASE t = "WARN"
  BY <1>1, <1>2, <1>3, <1>4, <1>5, <1>7
<1>8. CASE t = "ERROR"
  BY <1>1, <1>2, <1>3, <1>4, <1>5, <1>8
<1> QED
  BY <1>1, <1>6, <1>7, <1>8

LEMMA Classes ==
  ASSUME NEW e \in EvidenceClass, NEW s \in Severity
  PROVE  /\ DemotionSuffix(e) = "" <=> CountsTowardVerdict(e)
         /\ SarifRank[e] > 20 <=> CountsTowardVerdict(e)
         /\ Grid[e][s].gate_eligible <=> CountsTowardVerdict(e)
         /\ CountsTowardVerdict(e) => SarifLevel(e, s) = LevelForSeverity[s]
<1>1. e \in {"HEURISTIC", "DATAFLOW", "PROTOCOL", "SPECULATIVE"}
  BY DEF EvidenceClass
<1>2. DemotionSuffix(e) = "" <=> CountsTowardVerdict(e)
  BY DEF DemotionSuffix
<1>3. SarifRank[e] > 20 <=> CountsTowardVerdict(e)
  BY <1>1 DEF SarifRank, CountsTowardVerdict
<1>4. Grid[e][s].gate_eligible = CountsTowardVerdict(e)
  BY DEF Grid
<1>5. CountsTowardVerdict(e) => SarifLevel(e, s) = LevelForSeverity[s]
  BY DEF CountsTowardVerdict, SarifLevel
<1> QED
  BY <1>2, <1>3, <1>4, <1>5

\* All four readings agree on a finding.
LEMMA Readings ==
  ASSUME NEW e \in EvidenceClass, NEW s \in Severity, NEW t \in Severity
  PROVE  /\ (DemotionSuffix(e) = "" /\ FailOnRank[s] >= FailOnRank[t]) <=> Counted(e, s, t)
         /\ (SarifLevel(e, s) \in Levels[t] /\ SarifRank[e] > 20) <=> Counted(e, s, t)
         /\ (Grid[e][s].gate_eligible /\ SeverityScale[s].fail_on_rank >= SeverityScale[t].fail_on_rank)
            <=> Counted(e, s, t)
<1>1. SeverityScale[s].fail_on_rank = FailOnRank[s] /\ SeverityScale[t].fail_on_rank = FailOnRank[t]
      /\ (LevelForSeverity[s] \in Levels[t] <=> FailOnRank[s] >= FailOnRank[t])
  BY Ranks
<1>2. /\ DemotionSuffix(e) = "" <=> CountsTowardVerdict(e)
      /\ SarifRank[e] > 20 <=> CountsTowardVerdict(e)
      /\ Grid[e][s].gate_eligible <=> CountsTowardVerdict(e)
      /\ CountsTowardVerdict(e) => SarifLevel(e, s) = LevelForSeverity[s]
  BY Classes
<1>3. (SarifLevel(e, s) \in Levels[t] /\ SarifRank[e] > 20) <=> Counted(e, s, t)
  <2>1. CASE CountsTowardVerdict(e)
    BY <1>1, <1>2, <2>1 DEF Counted
  <2>2. CASE ~CountsTowardVerdict(e)
    BY <1>2, <2>2 DEF Counted
  <2> QED
    BY <2>1, <2>2
<1> QED
  BY <1>1, <1>2, <1>3 DEF Counted

LEMMA ShownKinds ==
  ASSUME Inv, Collected, NEW f \in Range(findings)
  PROVE  f.evidence \in EvidenceClass /\ f.severity \in Severity /\ f.tier \in Tier
         /\ f.evidence = EvidenceOf[f.tier]
<1>1. f \in Findings(job, AllRaised) /\ JobFits(job) /\ AnalysedFiles \in SUBSET job.files
  BY AllIsRead DEF Range
<1>2. PICK t \in RaisedIn(job, AnalysedFiles) : f = ToldIn(job, t)
  BY <1>1 DEF Findings, AllRaised
<1> QED
  BY <1>1, <1>2, ToldFacts

Gated(fs, t) == \E k \in DOMAIN fs : Counted(fs[k].evidence, fs[k].severity, t)

\* The exit code, and the four readings of the whole report.
LEMMA GateReadings ==
  ASSUME Inv, Printed, NEW t \in Severity, NEW shown, shown = report.findings
  PROVE  /\ (\E l \in Range(RenderReport(report, FALSE).lines) :
                l.suffix = "" /\ FailOnRank[l.severity] >= FailOnRank[t]) <=> Gated(shown, t)
         /\ (\E r \in Range(Sarif(report).results) : r.level \in Levels[t] /\ r.rank > 20) <=> Gated(shown, t)
         /\ (\E f \in Range(document.findings) :
                /\ Grid[f.evidence][f.severity].gate_eligible
                /\ SeverityScale[f.severity].fail_on_rank >= SeverityScale[t].fail_on_rank) <=> Gated(shown, t)
         /\ (\E f \in Range(findings) : AtThreshold(f, t)) <=> Gated(shown, t)
         /\ (\E f \in Range(shown) : AtThreshold(f, t)) <=> Gated(shown, t)
<1>1. Collected /\ shown = Shown(findings) /\ document = Render(report)
  BY PrintedFacts
<1>2. Range(shown) = {f \in Range(findings) : Wanted(f)}
  BY <1>1, ShownFacts
<1>3. ASSUME NEW k \in DOMAIN shown
      PROVE  shown[k].evidence \in EvidenceClass /\ shown[k].severity \in Severity
  <2>1. shown[k] \in Range(findings)
    BY <1>2 DEF Range
  <2> QED
    BY <1>1, <2>1, ShownKinds
<1>4. (\E l \in Range(RenderReport(report, FALSE).lines) :
          l.suffix = "" /\ FailOnRank[l.severity] >= FailOnRank[t]) <=> Gated(shown, t)
  <2> DEFINE lines == RenderReport(report, FALSE).lines
  <2>1. lines = [k \in DOMAIN shown |-> RenderOne(shown[k], FALSE)]
    BY DEF RenderReport
  <2>2. \A k \in DOMAIN shown : RenderOne(shown[k], FALSE).suffix = DemotionSuffix(shown[k].evidence)
                                /\ RenderOne(shown[k], FALSE).severity = shown[k].severity
    BY DEF RenderOne
  <2> HIDE DEF lines
  <2>3. DOMAIN lines = DOMAIN shown /\ \A k \in DOMAIN shown : lines[k].suffix = DemotionSuffix(shown[k].evidence)
                                      /\ lines[k].severity = shown[k].severity
    BY <2>1, <2>2
  <2>4. ASSUME NEW k \in DOMAIN shown
        PROVE  (lines[k].suffix = "" /\ FailOnRank[lines[k].severity] >= FailOnRank[t])
               <=> Counted(shown[k].evidence, shown[k].severity, t)
    <3>1. lines[k].suffix = DemotionSuffix(shown[k].evidence) /\ lines[k].severity = shown[k].severity
      BY <2>3
    <3>2. (DemotionSuffix(shown[k].evidence) = "" /\ FailOnRank[shown[k].severity] >= FailOnRank[t])
          <=> Counted(shown[k].evidence, shown[k].severity, t)
      BY <1>3, Readings
    <3> QED
      BY <3>1, <3>2
  <2>5. (\E l \in Range(lines) : l.suffix = "" /\ FailOnRank[l.severity] >= FailOnRank[t])
        <=> \E k \in DOMAIN shown : lines[k].suffix = "" /\ FailOnRank[lines[k].severity] >= FailOnRank[t]
    BY <2>3 DEF Range
  <2>6. (\E k \in DOMAIN shown : lines[k].suffix = "" /\ FailOnRank[lines[k].severity] >= FailOnRank[t])
        <=> Gated(shown, t)
    BY <2>4 DEF Gated
  <2> QED
    BY <2>5, <2>6 DEF lines
<1>5. (\E r \in Range(Sarif(report).results) : r.level \in Levels[t] /\ r.rank > 20) <=> Gated(shown, t)
  <2> DEFINE results == Sarif(report).results
  <2>1. results = [k \in DOMAIN shown |-> Result(report, shown[k])]
    BY DEF Sarif
  <2>2. \A k \in DOMAIN shown : Result(report, shown[k]).level = SarifLevel(shown[k].evidence, shown[k].severity)
                                /\ Result(report, shown[k]).rank = SarifRank[shown[k].evidence]
    BY DEF Result
  <2> HIDE DEF results
  <2>3. DOMAIN results = DOMAIN shown
        /\ \A k \in DOMAIN shown : results[k].level = SarifLevel(shown[k].evidence, shown[k].severity)
                                   /\ results[k].rank = SarifRank[shown[k].evidence]
    BY <2>1, <2>2
  <2>4. ASSUME NEW k \in DOMAIN shown
        PROVE  (results[k].level \in Levels[t] /\ results[k].rank > 20)
               <=> Counted(shown[k].evidence, shown[k].severity, t)
    <3>1. /\ results[k].level = SarifLevel(shown[k].evidence, shown[k].severity)
          /\ results[k].rank = SarifRank[shown[k].evidence]
      BY <2>3
    <3>2. (SarifLevel(shown[k].evidence, shown[k].severity) \in Levels[t] /\ SarifRank[shown[k].evidence] > 20)
          <=> Counted(shown[k].evidence, shown[k].severity, t)
      BY <1>3, Readings
    <3> QED
      BY <3>1, <3>2
  <2> QED
    BY <2>3, <2>4 DEF Range, Gated, results
<1>6. (\E f \in Range(document.findings) :
          /\ Grid[f.evidence][f.severity].gate_eligible
          /\ SeverityScale[f.severity].fail_on_rank >= SeverityScale[t].fail_on_rank) <=> Gated(shown, t)
  <2> DEFINE views == document.findings
  <2>1. views = [k \in DOMAIN shown |-> View(shown[k], report.root)]
    BY <1>1 DEF Render
  <2>2. \A k \in DOMAIN shown : View(shown[k], report.root).evidence = shown[k].evidence
                                /\ View(shown[k], report.root).severity = shown[k].severity
    BY DEF View
  <2> HIDE DEF views
  <2>3. DOMAIN views = DOMAIN shown
        /\ \A k \in DOMAIN shown : views[k].evidence = shown[k].evidence /\ views[k].severity = shown[k].severity
    BY <2>1, <2>2
  <2>4. \A k \in DOMAIN shown :
           /\ Grid[views[k].evidence][views[k].severity].gate_eligible
           /\ SeverityScale[views[k].severity].fail_on_rank >= SeverityScale[t].fail_on_rank
           <=> Counted(shown[k].evidence, shown[k].severity, t)
    BY <1>3, <2>3, Readings
  <2> QED
    BY <2>3, <2>4 DEF Range, Gated, views
<1>7. (\E f \in Range(shown) : AtThreshold(f, t)) <=> Gated(shown, t)
  BY DEF Range, Gated, AtThreshold, Counted
<1>8. (\E f \in Range(findings) : AtThreshold(f, t)) <=> (\E f \in Range(shown) : AtThreshold(f, t))
  <2>1. \A f : AtThreshold(f, t) => Wanted(f)
    BY DEF AtThreshold, CountsTowardVerdict, Wanted
  <2> QED
    BY <1>2, <2>1
<1> QED
  BY <1>4, <1>5, <1>6, <1>7, <1>8

LEMMA RetainedRange ==
  ASSUME NEW X, NEW s \in Seq(X), NEW K \in SUBSET DOMAIN s
  PROVE  Range(At(s, K)) = {s[k] : k \in K}
<1>1. Len(s) \in Nat /\ DOMAIN s = 1..Len(s)
  OBVIOUS
<1> DEFINE new == At(s, K)
           R == {p \in K \X K : p[1] < p[2]}
<1>2. PICK at : Picks(at, s, K, R, new)
  BY <1>1, AtPicks
<1>3. s \in Seq(X) /\ K \in SUBSET (1..Len(s))
  BY <1>1
<1> HIDE DEF new, R
<1>4. /\ DOMAIN new = 1..Cardinality(K)
      /\ \A i \in 1..Cardinality(K) : at[i] \in K /\ new[i] = s[at[i]]
      /\ \A k \in K : \E i \in 1..Cardinality(K) : at[i] = k
  BY <1>2 DEF Picks
<1> QED
  BY <1>4 DEF Range, new

\* Of the positions 1 to n those with and without a mark, when some have none.
LEMMA SomeUnmarked ==
  ASSUME NEW n \in Nat, NEW K \in SUBSET (1..n), NEW k \in 1..n, k \notin K
  PROVE  n - Cardinality(K) > 0
<1>1. IsFiniteSet(1..n) /\ Cardinality(1..n) = n
  BY UpToCount
<1>2. Cardinality(K) \in Nat /\ Cardinality(K) < Cardinality(1..n)
  <2>1. IsFiniteSet(K) /\ Cardinality(K) <= Cardinality(1..n) /\ (Cardinality(K) = Cardinality(1..n) => K = 1..n)
    BY <1>1, FS_Subset
  <2>2. K # 1..n
    OBVIOUS
  <2>3. Cardinality(K) \in Nat
    BY <2>1, FS_CardinalityType
  <2> QED
    BY <1>1, <2>1, <2>2, <2>3
<1> QED
  BY <1>1, <1>2

\* A report is complete when nothing was left out but by policy.
LEMMA CompleteMeans ==
  ASSUME Inv, Printed
  PROVE  StatusOf(report) = "complete-within-policy" <=>
           /\ report.files > 0 /\ Len(report.skipped) = 0 /\ report.failures = {}
           /\ \A e \in Range(RenderReport(report, FALSE).incomplete) : e.outcome = "excluded-by-policy"
<1> DEFINE inv == report.inventory
           K == {k \in DOMAIN inv : inv[k].outcome # "analysed" \/ ~inv[k].analysis_complete}
           X == {Item(f) : f \in job.files}
<1>1. /\ Collected /\ inv = inventory /\ report.skipped = skipped
      /\ report.files = Cardinality(AnalysedFiles)
  BY PrintedFacts
<1>2. Inventoried(job.files, inventory, skipped) /\ JobFits(job) /\ AnalysedFiles \in SUBSET job.files
  BY <1>1, AllIsRead
<1>3. inv \in Seq(X) /\ (\A f \in job.files : \E k \in DOMAIN inv : inv[k] = Item(f)) /\ K \in SUBSET DOMAIN inv
  BY <1>1, <1>2 DEF Inventoried
<1>4. Range(RenderReport(report, FALSE).incomplete) = {inv[k] : k \in K}
  <2>1. RenderReport(report, FALSE).incomplete = At(inv, K)
    BY DEF RenderReport, Retain
  <2> QED
    BY <1>3, <2>1, RetainedRange
<1>5. report.files \in Nat /\ (report.files = 0 <=> AnalysedFiles = {})
  BY <1>1, <1>2, FS_Subset, FS_CardinalityType, FS_EmptySet DEF JobFits
<1>6. skipped \in Seq({f.path : f \in job.files}) /\ (Len(skipped) = 0 <=> skipped = <<>>)
  BY <1>2 DEF Inventoried
<1>7. \A f : Item(f).outcome = f.outcome
  BY DEF Item
<1> HIDE DEF inv, K, X
<1>8. ASSUME skipped = <<>>, NEW f \in job.files
      PROVE  f.outcome \in {"analysed", "excluded-by-policy"}
  <2>1. Range(skipped) = {}
    BY <1>8 DEF Range
  <2> QED
    BY <1>2, <2>1 DEF Inventoried
<1>9. \A e \in Range(inv) : \E f \in job.files : e = Item(f)
  BY <1>3 DEF Range, X
<1>10. ASSUME StatusOf(report) = "complete-within-policy"
       PROVE  /\ report.files > 0 /\ Len(report.skipped) = 0 /\ report.failures = {}
              /\ \A k \in K : inv[k].outcome = "excluded-by-policy"
  <2>1. /\ ~(/\ report.files = 0 /\ report.failures = {}
              /\ \A e \in Range(inv) : e.outcome \in {"unsupported", "excluded-by-policy"})
        /\ skipped = <<>> /\ report.failures = {}
        /\ ~\E e \in Range(inv) : e.outcome = "analysed" /\ ~e.analysis_complete
    BY <1>1, <1>10 DEF StatusOf, Status, inv
  <2>2. report.files > 0
    <3>1. ASSUME report.files = 0, NEW e \in Range(inv)
          PROVE  e.outcome \in {"unsupported", "excluded-by-policy"}
      <4>1. PICK f \in job.files : e = Item(f)
        BY <1>9
      <4>2. f.outcome # "analysed"
        BY <1>5, <3>1 DEF AnalysedFiles
      <4> QED
        BY <1>7, <1>8, <2>1, <4>1, <4>2
    <3> QED
      BY <1>5, <2>1, <3>1
  <2>3. ASSUME NEW k \in K
        PROVE  inv[k].outcome = "excluded-by-policy"
    <3>1. inv[k] \in Range(inv) /\ (inv[k].outcome # "analysed" \/ ~inv[k].analysis_complete)
      BY DEF K, Range
    <3>2. PICK f \in job.files : inv[k] = Item(f)
      BY <1>9, <3>1
    <3> QED
      BY <1>7, <1>8, <2>1, <3>1, <3>2
  <2> QED
    BY <1>1, <1>6, <2>1, <2>2, <2>3
<1>11. ASSUME report.files > 0, Len(report.skipped) = 0, report.failures = {},
              \A k \in K : inv[k].outcome = "excluded-by-policy"
       PROVE  StatusOf(report) = "complete-within-policy"
  <2>1. ~\E e \in Range(inv) : e.outcome = "analysed" /\ ~e.analysis_complete
    <3> SUFFICES ASSUME NEW k \in DOMAIN inv, inv[k].outcome = "analysed", ~inv[k].analysis_complete
                 PROVE  FALSE
      BY DEF Range
    <3>1. k \in K
      BY DEF K
    <3> QED
      BY <1>11, <3>1
  <2>2. skipped = <<>> /\ report.files # 0
    BY <1>1, <1>5, <1>6, <1>11
  <2> QED
    BY <1>1, <1>11, <2>1, <2>2 DEF StatusOf, Status, inv
<1> QED
  BY <1>4, <1>10, <1>11

LEMMA GateFollows == Inv => GateFollowsTheReport
<1> SUFFICES ASSUME Inv, Printed
             PROVE  GateFollowsTheReport
  BY DEF GateFollowsTheReport
<1> DEFINE shown == report.findings
           human == RenderReport(report, FALSE)
           G == {k \in DOMAIN shown : shown[k].evidence = "SPECULATIVE"}
<1>1. Collected /\ shown = Shown(findings) /\ document = Render(report)
  BY PrintedFacts
<1>2. Len(shown) \in Nat /\ DOMAIN shown = 1..Len(shown) /\ G \in SUBSET (1..Len(shown))
  BY <1>1, ShownFacts
<1>3. job.failOn \in SUBSET Severity
  BY DEF Inv, Shape, OptionsFit
<1>4. /\ document.counts.actionable = Len(shown) - Cardinality(G)
      /\ document.counts.demoted_speculative = Cardinality(G)
  BY <1>1 DEF Render, Tally, Count
<1>5. human.verdict = [actionable |-> Len(shown) - Cardinality(G), demoted |-> Cardinality(G)]
  <2>1. {k \in DOMAIN shown : ~CountsTowardVerdict(shown[k].evidence)} = G
    BY DEF CountsTowardVerdict
  <2>2. Count(shown, LAMBDA f : ~CountsTowardVerdict(f.evidence)) = Cardinality(G)
    BY <2>1 DEF Count
  <2> QED
    BY <2>2 DEF RenderReport
<1>6. ASSUME report.exit_code # {2}
      PROVE  report.exit_code = {1} <=> \E t \in job.failOn : Gated(shown, t)
  <2> DEFINE code == ExitCode(Cardinality(AnalysedFiles), report.failures, Shown(findings))
  <2>1. report.exit_code = {code} /\ code # 2
    BY <1>6, PrintedFacts
  <2>2. code = IF \E t \in job.failOn : \E f \in Range(shown) : AtThreshold(f, t) THEN 1 ELSE 0
    BY <1>1, <2>1 DEF ExitCode
  <2>3. (\E t \in job.failOn : \E f \in Range(shown) : AtThreshold(f, t)) <=> \E t \in job.failOn : Gated(shown, t)
    BY <1>3, GateReadings
  <2> HIDE DEF code, shown
  <2> QED
    BY <2>1, <2>2, <2>3
<1>7. ASSUME NEW t, Gated(shown, t)
      PROVE  document.counts.actionable > 0
  <2>1. PICK k \in DOMAIN shown : CountsTowardVerdict(shown[k].evidence)
    BY <1>7 DEF Gated, Counted
  <2>2. k \in 1..Len(shown) /\ k \notin G
    BY <1>2, <2>1 DEF CountsTowardVerdict
  <2> HIDE DEF G
  <2>3. Len(shown) - Cardinality(G) > 0
    BY <1>2, <2>2, SomeUnmarked
  <2> QED
    BY <1>4, <2>3
<1>8. /\ document.scanned.coverage_status = StatusOf(report)
      /\ human.scanned.files = report.files /\ human.scanned.skipped = Len(report.skipped)
      /\ human.failures = report.failures
  BY <1>1 DEF Render, RenderReport
<1>9. document.scanned.coverage_status = "complete-within-policy" <=>
        /\ human.scanned.files > 0 /\ human.scanned.skipped = 0 /\ human.failures = {}
        /\ \A e \in Range(human.incomplete) : e.outcome = "excluded-by-policy"
  BY <1>8, CompleteMeans
<1>10. human.verdict = [actionable |-> document.counts.actionable,
                        demoted |-> document.counts.demoted_speculative]
  BY <1>4, <1>5
<1> HIDE DEF G, human, shown
<1> DEFINE byHuman(t) == \E l \in Range(human.lines) : l.suffix = "" /\ FailOnRank[l.severity] >= FailOnRank[t]
           bySarif(t) == \E r \in Range(Sarif(report).results) : r.level \in Levels[t] /\ r.rank > 20
           byGrid(t)  == \E f \in Range(document.findings) :
                           /\ Grid[f.evidence][f.severity].gate_eligible
                           /\ SeverityScale[f.severity].fail_on_rank >= SeverityScale[t].fail_on_rank
           byAll(t)   == \E f \in Range(findings) : AtThreshold(f, t)
<1>11. \A t \in job.failOn :
         /\ byHuman(t) <=> Gated(shown, t)
         /\ bySarif(t) <=> Gated(shown, t)
         /\ byGrid(t) <=> Gated(shown, t)
         /\ byAll(t) <=> Gated(shown, t)
  BY <1>3, GateReadings DEF human, shown
<1>12. ASSUME report.exit_code # {2}
       PROVE  LET fails == report.exit_code = {1}
              IN  /\ fails <=> \E t \in job.failOn : byHuman(t)
                  /\ fails <=> \E t \in job.failOn : bySarif(t)
                  /\ fails <=> \E t \in job.failOn : byGrid(t)
                  /\ fails <=> \E t \in job.failOn : byAll(t)
                  /\ fails => document.counts.actionable > 0
  <2> HIDE DEF byHuman, bySarif, byGrid, byAll
  <2> QED
    BY <1>6, <1>7, <1>11, <1>12
<1> QED
  BY <1>9, <1>10, <1>12 DEF GateFollowsTheReport, human, Levels

(* The exit code of every scan follows from what is printed, in each of    *)
(* the formats, and a report that says it is complete leaves nothing out.  *)
THEOREM GateFollowsTheReportCorrect == Spec => []GateFollowsTheReport
BY GatheredIsRaised, GateFollows, PTL

-----------------------------------------------------------------------------
\* The report validates.

LEMMA BelowIs ==
  ASSUME NEW X, NEW b \in Seq(X), NEW p \in Seq(X), Within(p, b)
  PROVE  Rebased(X, b, <<>>, p, Below(p, b))
<1> DEFINE r == Below(p, b)
<1>1. r \in Seq(X)
  BY DEF Below
<1>2. r = <<>> \o r /\ <<>> \in Seq(X)
  BY <1>1
<1>3. r = <<>> \o Below(p, b)
  BY <1>2
<1> HIDE DEF r
<1>4. Rebased(X, b, <<>>, p, r)
  BY <1>2, <1>3, Rebasing
<1> QED
  BY <1>4 DEF r

\* What is below a path leads from it to where it was taken of.
LEMMA BelowLeads ==
  ASSUME NEW X, NEW b \in Seq(X), NEW p \in Seq(X), Within(p, b), NEW r, r = Below(p, b)
  PROVE  Rebased(X, b, <<>>, p, r) /\ r \in Seq(X) /\ b \o r = p
<1>1. Rebased(X, b, <<>>, p, r) /\ Len(<<>>) = 0
  BY BelowIs
<1> DEFINE m == Len(b)
           n == Len(p)
           whole == b \o r
<1>2. /\ m \in Nat /\ n \in Nat /\ m <= n /\ r \in Seq(X) /\ Len(r) = 0 + (n - m)
      /\ \A i \in 1..(n - m) : r[0 + i] = p[m + i]
      /\ \A i \in 1..m : p[i] = b[i]
  BY <1>1 DEF Rebased
<1>3. /\ whole \in Seq(X) /\ Len(whole) = m + Len(r)
      /\ \A i \in 1..m : whole[i] = b[i]
      /\ \A i \in 1..Len(r) : whole[m + i] = r[i]
  BY <1>2, ConcatFacts
<1> HIDE DEF m, n, whole
<1>4. Len(whole) = n /\ Len(r) = n - m
  BY <1>2, <1>3
<1>5. ASSUME NEW i \in 1..n
      PROVE  whole[i] = p[i]
  <2>1. CASE i <= m
    BY <1>2, <1>3, <2>1
  <2>2. CASE i > m
    <3> DEFINE k == i - m
    <3>1. k \in 1..(n - m) /\ m + k = i /\ 0 + k = k
      BY <1>2, <2>2
    <3> HIDE DEF k
    <3>2. r[k] = p[m + k]
      BY <1>2, <3>1
    <3>3. whole[m + k] = r[k]
      BY <1>3, <1>4, <3>1
    <3> QED
      BY <3>1, <3>2, <3>3
  <2> QED
    BY <1>2, <2>1, <2>2
<1>6. whole = p
  BY <1>3, <1>4, <1>5, SeqEqual DEF n
<1> QED
  BY <1>1, <1>2, <1>6 DEF whole

\* Where a file is, below the root.
LEMMA FilesBelow ==
  ASSUME NEW j, JobFits(j), NEW f \in j.files, NEW b, b = BaseOf(f.path, j.root),
         NEW r, r = Below(f.path, b)
  PROVE  r \in Seq(Component) /\ r # <<>> /\ r[1] \notin Reserved /\ b \o r = f.path
<1> DEFINE X == Component
<1>1. /\ j.root \in Seq(X) /\ j.base \in Seq(X) /\ Within(j.root, j.base)
      /\ f.path \in Seq(X) /\ PathFits(f.path, j)
  BY DEF JobFits, FileFits
<1> DEFINE l == Len(j.base)
           n == Len(f.path)
           m == Len(b)
<1>2. /\ Len(j.root) \in Nat /\ l \in Nat /\ n \in Nat /\ l <= Len(j.root)
      /\ \A i \in 1..l : j.base[i] = j.root[i]
  BY <1>1, PrefixIs DEF Within
<1> HIDE DEF X
<1>3. b \in Seq(X) /\ Within(f.path, b) /\ m \in Nat /\ l <= m /\ m < n
  <2>1. CASE f.path # j.root
    <3>1. b = j.root /\ IsStrictPrefix(j.root, f.path)
      BY <1>1, <2>1 DEF BaseOf, PathFits
    <3>2. Len(j.root) <= n /\ \A i \in 1..Len(j.root) : j.root[i] = f.path[i]
      BY <1>1, <3>1, PrefixIs DEF IsStrictPrefix
    <3>3. Len(j.root) # n
      <4>1. SUFFICES ASSUME Len(j.root) = n PROVE FALSE
        OBVIOUS
      <4>2. j.root = f.path
        BY <1>1, <3>2, <4>1, SeqEqual
      <4> QED
        BY <2>1, <4>2
    <3>4. Within(f.path, b)
      BY <3>1 DEF IsStrictPrefix, Within
    <3> QED
      BY <1>1, <1>2, <3>1, <3>2, <3>3, <3>4
  <2>2. CASE f.path = j.root
    <3>1. b = SubSeq(j.root, 1, n - 1) /\ j.root # j.base
      BY <1>1, <2>2 DEF BaseOf, PathFits, IsStrictPrefix
    <3>2. l # n
      <4>1. SUFFICES ASSUME l = n PROVE FALSE
        OBVIOUS
      <4>2. j.base = j.root
        BY <1>1, <1>2, <2>2, <4>1, SeqEqual
      <4> QED
        BY <3>1, <4>2
    <3>3. l < n
      BY <1>2, <2>2, <3>2
    <3> DEFINE p == f.path
    <3>4. b \in Seq(X) /\ m = n - 1 /\ \A i \in 1..(n - 1) : b[i] = f.path[i]
      <4>1. b = SubSeq(p, 1, n - 1) /\ p \in Seq(X) /\ Len(p) = n /\ n \in Nat
        BY <1>1, <1>2, <2>2, <3>1
      <4>2. n - 1 \in 0..n
        BY <1>2, <3>3
      <4> HIDE DEF n, l, p
      <4>3. b \in Seq(X) /\ Len(b) = n - 1 /\ \A i \in 1..(n - 1) : b[i] = p[i]
        BY <4>1, <4>2
      <4> QED
        BY <4>3 DEF p, m
    <3> HIDE DEF l, m
    <3>5. m \in Nat /\ l <= m /\ m < n
      BY <1>2, <3>3, <3>4
    <3>6. Within(f.path, b)
      <4>1. Len(b) <= Len(p) /\ (\A i \in 1..Len(b) : b[i] = p[i]) /\ p \in Seq(X)
        BY <1>1, <3>4, <3>5 DEF m
      <4> HIDE DEF p, n
      <4>2. IsPrefix(b, p)
        BY <3>4, <4>1, PrefixIs
      <4> QED
        BY <4>2 DEF Within, p
    <3> QED
      BY <3>4, <3>5, <3>6
  <2> QED
    BY <2>1, <2>2
<1>4. Rebased(X, b, <<>>, f.path, r) /\ r \in Seq(X) /\ b \o r = f.path
  <2> DEFINE p == f.path
  <2>1. b \in Seq(X) /\ p \in Seq(X) /\ Within(p, b) /\ r = Below(p, b)
    BY <1>1, <1>3
  <2> HIDE DEF p, l, m, n
  <2>2. Rebased(X, b, <<>>, p, r) /\ r \in Seq(X) /\ b \o r = p
    BY ONLY <2>1, BelowLeads
  <2> QED
    BY <2>2 DEF p
<1>5. Len(r) > 0 /\ r[1] = f.path[m + 1] /\ m + 1 \in (l + 1)..n
  <2>1. Len(<<>>) = 0
    OBVIOUS
  <2>2. Len(r) = 0 + (n - m) /\ \A i \in 1..(n - m) : r[0 + i] = f.path[m + i]
    BY <1>4, <2>1 DEF Rebased
  <2> HIDE DEF l, m, n
  <2>3. 1 \in 1..(n - m) /\ 0 + 1 = 1 /\ Len(r) > 0 /\ m + 1 \in (l + 1)..n
    BY <1>2, <1>3, <2>2
  <2>4. r[0 + 1] = f.path[m + 1]
    BY <2>2, <2>3
  <2> QED
    BY <2>3, <2>4
<1>6. r[1] \notin Reserved
  BY <1>1, <1>5 DEF PathFits
<1>7. r # <<>>
  BY <1>5
<1> QED
  BY <1>4, <1>6, <1>7 DEF X

\* A path in slashes: of what has a name, something; of plain names, these.
Plainly(r, q) == q \in Seq(STRING) /\ Len(q) = Len(r) /\ \A k \in 1..Len(r) : q[k] = r[k][1]

LEMMA SlashedIs ==
  ASSUME NEW r, r \in Seq(Component)
  PROVE  /\ r # <<>> => Slashed(r) # <<>>
         /\ (\A k \in 1..Len(r) : Len(r[k]) = 1) => Plainly(r, Slashed(r))
<1> DEFINE n == Len(r)
<1>1. n \in Nat /\ DOMAIN r = 1..n /\ r = [k \in 1..n |-> r[k]]
  OBVIOUS
<1>2. \A k \in 1..n : r[k] \in Seq(STRING) /\ r[k] # <<>>
  BY <1>1 DEF Component
<1>3. SeqOfSeqs(r, n, STRING)
  BY <1>1, <1>2 DEF SeqOfSeqs
<1>4. PICK f \in [0..n -> Seq(STRING)] : Joined(r, f) /\ Slashed(r) = f[n]
  BY <1>3, Flattened DEF Slashed
<1>5. f[0] = <<>> /\ \A k \in 1..n : f[k] = f[k-1] \o r[k]
  BY <1>4 DEF Joined
<1>6. ASSUME NEW k \in 1..n
      PROVE  /\ k - 1 \in 0..n /\ f[k-1] \in Seq(STRING) /\ f[k] \in Seq(STRING)
             /\ Len(f[k]) = Len(f[k-1]) + Len(r[k])
             /\ \A i \in 1..Len(f[k-1]) : f[k][i] = f[k-1][i]
             /\ \A i \in 1..Len(r[k]) : f[k][Len(f[k-1]) + i] = r[k][i]
  <2>1. k - 1 \in 0..n
    BY <1>1
  <2>2. f[k-1] \in Seq(STRING) /\ r[k] \in Seq(STRING)
    BY <1>2, <2>1
  <2>3. f[k] = f[k-1] \o r[k]
    BY <1>5
  <2> QED
    BY <2>1, <2>2, <2>3, ConcatFacts
<1>7. ASSUME r # <<>>
      PROVE  Slashed(r) # <<>>
  <2>1. n \in 1..n /\ Len(r[n]) \in Nat
    BY <1>1, <1>2, <1>7
  <2>2. Len(r[n]) # 0
    BY <1>2, <2>1
  <2> DEFINE q == f[n-1]
             s == r[n]
  <2>3. Len(f[n]) = Len(q) + Len(s) /\ q \in Seq(STRING)
    BY <1>6, <2>1
  <2> HIDE DEF q
  <2>4. Len(q) \in Nat /\ Len(s) \in Nat /\ Len(s) # 0
    BY <2>1, <2>2, <2>3
  <2> HIDE DEF s
  <2>5. Len(f[n]) # 0
    BY <2>3, <2>4
  <2>6. Len(<<>>) = 0
    OBVIOUS
  <2> QED
    BY <1>4, <2>5, <2>6
<1>8. ASSUME \A k \in 1..n : Len(r[k]) = 1
      PROVE  Plainly(r, Slashed(r))
  <2> DEFINE T == {k \in 0..n : Len(f[k]) = k /\ \A i \in 1..k : f[k][i] = r[i][1]}
  <2>1. 0 \in T
    <3>1. Len(f[0]) = 0
      BY <1>5
    <3> QED
      BY <1>1, <3>1
  <2>2. ASSUME NEW k \in 0..(n - 1), k \in T
        PROVE  k + 1 \in T
    <3>1. k \in Nat /\ k + 1 \in 1..n /\ k + 1 \in 0..n /\ (k + 1) - 1 = k
      BY <1>1
    <3>2. Len(f[k]) = k /\ \A i \in 1..k : f[k][i] = r[i][1]
      BY <2>2
    <3>3. Len(r[k + 1]) = 1
      BY <1>8, <3>1
    <3>4. /\ Len(f[k + 1]) = k + 1
          /\ \A i \in 1..k : f[k + 1][i] = f[k][i]
          /\ \A i \in 1..1 : f[k + 1][k + i] = r[k + 1][i]
      <4> DEFINE c == k + 1
                 q == f[k]
      <4>1. c \in 1..n /\ f[c-1] = q /\ Len(q) = k /\ Len(r[c]) = 1
        BY <3>1, <3>2, <3>3
      <4> HIDE DEF c, q
      <4>2. /\ Len(f[c]) = Len(q) + Len(r[c])
            /\ \A i \in 1..Len(q) : f[c][i] = q[i]
            /\ \A i \in 1..Len(r[c]) : f[c][Len(q) + i] = r[c][i]
        BY <1>6, <4>1
      <4> QED
        BY <4>1, <4>2 DEF c, q
    <3>5. f[k + 1][k + 1] = r[k + 1][1]
      <4>1. 1 \in 1..1
        OBVIOUS
      <4> QED
        BY <3>4, <4>1
    <3>6. ASSUME NEW i \in 1..(k + 1)
          PROVE  f[k + 1][i] = r[i][1]
      <4>1. i \in 1..k \/ i = k + 1
        BY <3>1
      <4> QED
        BY <3>2, <3>4, <3>5, <4>1
    <3> QED
      BY <3>1, <3>4, <3>6
  <2> HIDE DEF T
  <2>3. 0..n \subseteq T
    BY <1>1, <2>1, <2>2, UpTo
  <2>4. n \in T
    BY <1>1, <2>3
  <2>5. Len(f[n]) = n /\ \A i \in 1..n : f[n][i] = r[i][1]
    BY <2>4 DEF T
  <2>6. f[n] \in Seq(STRING)
    BY <1>1
  <2> QED
    BY <1>4, <2>5, <2>6 DEF Plainly
<1> QED
  BY <1>7, <1>8

LEMMA RelativePaths ==
  ASSUME NEW j, JobFits(j), NEW f \in j.files
  PROVE  RelativePath(f.path, j.root) # <<>>
<1> DEFINE r == Below(f.path, BaseOf(f.path, j.root))
<1>1. r \in Seq(Component) /\ r # <<>>
  BY FilesBelow
<1>2. RelativePath(f.path, j.root) = Slashed(r)
  BY DEF RelativePath
<1> HIDE DEF r
<1> QED
  BY <1>1, <1>2, SlashedIs

\* Plain names are told apart with slashes too, and stay inside the root.
PlainIn(j) ==
  \A f \in j.files : LET below == Below(f.path, BaseOf(f.path, j.root)) IN
    \A k \in DOMAIN below : Len(below[k]) = 1

PlainBelow(j, f, r) ==
  /\ r \in Seq(Component) /\ r # <<>> /\ r[1] \notin Reserved
  /\ BaseOf(f.path, j.root) \o r = f.path
  /\ \A k \in 1..Len(r) : r[k] = <<r[k][1]>>
  /\ Plainly(r, RelativePath(f.path, j.root))

LEMMA PlainPath ==
  ASSUME NEW j, JobFits(j), PlainIn(j), NEW f \in j.files,
         NEW r, r = Below(f.path, BaseOf(f.path, j.root))
  PROVE  PlainBelow(j, f, r)
<1>1. /\ r \in Seq(Component) /\ r # <<>> /\ r[1] \notin Reserved
      /\ BaseOf(f.path, j.root) \o r = f.path
  BY FilesBelow
<1>2. \A k \in 1..Len(r) : Len(r[k]) = 1
  <2>1. \A k \in DOMAIN r : Len(r[k]) = 1
    BY Zenon DEF PlainIn
  <2>2. DOMAIN r = 1..Len(r)
    BY <1>1
  <2> QED
    BY <2>1, <2>2
<1>3. ASSUME NEW k \in 1..Len(r)
      PROVE  r[k] = <<r[k][1]>>
  <2>1. r[k] \in Seq(STRING) /\ Len(r[k]) = 1
    BY <1>1, <1>2 DEF Component
  <2> QED
    BY <2>1
<1>4. Plainly(r, Slashed(r))
  BY <1>1, <1>2, SlashedIs
<1>5. Slashed(r) = RelativePath(f.path, j.root)
  BY DEF RelativePath
<1> QED
  BY <1>1, <1>3, <1>4, <1>5 DEF PlainBelow

LEMMA PlainPathsTell ==
  ASSUME NEW j, JobFits(j), PlainIn(j), NEW f \in j.files, NEW g \in j.files
  PROVE  /\ Inside(RelativePath(f.path, j.root))
         /\ RelativePath(f.path, j.root) = RelativePath(g.path, j.root) => f = g
<1> DEFINE r == Below(f.path, BaseOf(f.path, j.root))
           s == Below(g.path, BaseOf(g.path, j.root))
           pf == RelativePath(f.path, j.root)
           pg == RelativePath(g.path, j.root)
<1>1. PlainBelow(j, f, r)
  BY PlainPath
<1>2. PlainBelow(j, g, s)
  BY PlainPath
<1> HIDE DEF r, s
<1>3. /\ r \in Seq(Component) /\ r # <<>> /\ r[1] \notin Reserved /\ s \in Seq(Component)
      /\ BaseOf(f.path, j.root) \o r = f.path /\ BaseOf(g.path, j.root) \o s = g.path
      /\ \A k \in 1..Len(r) : r[k] = <<r[k][1]>> /\ pf[k] = r[k][1]
      /\ \A k \in 1..Len(s) : s[k] = <<s[k][1]>> /\ pg[k] = s[k][1]
      /\ Len(pf) = Len(r) /\ Len(pg) = Len(s)
  BY <1>1, <1>2 DEF PlainBelow, Plainly
<1> HIDE DEF pf, pg
<1>4. Inside(pf)
  <2>1. 1 \in 1..Len(r)
    BY <1>3
  <2>2. r[1] = <<r[1][1]>> /\ pf[1] = r[1][1]
    BY <1>3, <2>1
  <2>3. r[1] # <<"">> /\ r[1] # <<"..">>
    BY <1>3 DEF Reserved
  <2> QED
    BY <2>2, <2>3 DEF Inside
<1>5. ASSUME pf = pg
      PROVE  f = g
  <2>1. Len(r) = Len(s)
    BY <1>3, <1>5
  <2>2. ASSUME NEW k \in 1..Len(r)
        PROVE  r[k] = s[k]
    <3>1. r[k] = <<r[k][1]>> /\ pf[k] = r[k][1] /\ s[k] = <<s[k][1]>> /\ pg[k] = s[k][1]
      BY <1>3, <2>1
    <3>2. r[k][1] = s[k][1]
      BY <1>5, <3>1
    <3> QED
      BY <3>1, <3>2, Zenon
  <2>3. r = s
    BY <1>3, <2>1, <2>2, SeqEqual
  <2>4. CASE f.path = j.root \/ g.path = j.root
    BY <2>4 DEF JobFits
  <2>5. CASE f.path # j.root /\ g.path # j.root
    <3>1. BaseOf(f.path, j.root) = j.root /\ BaseOf(g.path, j.root) = j.root
      BY <2>5 DEF BaseOf
    <3>2. f.path = g.path
      BY <1>3, <2>3, <3>1, Zenon
    <3> QED
      BY <3>2 DEF JobFits
  <2> QED
    BY <2>4, <2>5
<1> QED
  BY <1>4, <1>5 DEF pf, pg

\* What the document says.
LEMMA DocumentIs ==
  ASSUME Inv, Printed
  PROVE  /\ document.schema_version = SchemaVersion /\ document.exit_code = report.exit_code
         /\ DOMAIN document.scanned = ScannedKeys
         /\ document.scanned.root = report.root /\ document.scanned.coverage_status = StatusOf(report)
         /\ document.scanned.inventory = inventory /\ document.scanned.skipped = skipped
         /\ document.scanned.coverage_failures = report.failures /\ document.scanned.files = report.files
         /\ document.counts = Tally(report.findings)
         /\ document.findings = [k \in DOMAIN report.findings |-> View(report.findings[k], report.root)]
         /\ document.evidence_contract.execution_outcome = StatusOf(report)
         /\ document.evidence_contract.parser_inventory = inventory
         /\ document.evidence_contract.records =
              [k \in DOMAIN report.findings |-> Record(report, report.findings[k])]
<1>1. document = Render(report) /\ report.inventory = inventory /\ report.skipped = skipped
  BY PrintedFacts
<1> QED
  BY <1>1 DEF Render, Contract, ScannedKeys

LEMMA ViewIs ==
  ASSUME NEW f, NEW root, NEW v, v = View(f, root)
  PROVE  /\ v.rule_id = f.rule_id /\ v.tier = f.tier /\ v.evidence = f.evidence /\ v.severity = f.severity
         /\ v.location = f.location /\ v.evidence_note = f.evidence_note
         /\ v.counter_condition = f.counter_condition
         /\ v.semantic_fingerprint = SemanticFingerprint(f, root)
         /\ DOMAIN v = FindingKeys(SchemaVersion)
<1>1. DOMAIN v = FindingKeys(SchemaVersion)
  BY DEF View, FindingKeys, SchemaVersion
<1> QED
  BY <1>1 DEF View

LEMMA RecordIs ==
  ASSUME NEW rep, NEW f, NEW r, r = Record(rep, f)
  PROVE  /\ r.fingerprint = <<"pons-fingerprint-v1", f.rule_id, RelativePath(f.location.file, rep.root), Anchor(rep, f)>>
         /\ r.producer = "pons" /\ r.rule = f.rule_id /\ r.tier = f.tier /\ r.evidence = f.evidence
         /\ r.path = RelativePath(f.location.file, rep.root) /\ r.line = f.location.line_start
         /\ r.trace = f.evidence_note /\ r.unknown_edges = NotesOn(rep.inventory, f.location.file)
         /\ r.counterconditions = f.counter_condition
BY DEF Record

LEMMA SchemaHolds ==
  ASSUME Inv, Printed
  PROVE  Schema(document)
<1> DEFINE shown == report.findings
<1>1. document.schema_version = SchemaVersion /\ SchemaVersion \in Versions
  BY DocumentIs DEF Versions
<1>2. DOMAIN document.scanned = ScannedKeys
  BY DocumentIs
<1>3. DOMAIN document.counts = CountKeys(SchemaVersion)
  <2>1. document.counts = Tally(shown)
    BY DocumentIs
  <2>2. DOMAIN Tally(shown) = {"by_evidence", "total", "actionable", "demoted_speculative"}
    BY DEF Tally
  <2> QED
    BY <2>1, <2>2 DEF CountKeys
<1>4. \A f \in Range(document.findings) : DOMAIN f = FindingKeys(SchemaVersion)
  <2>1. document.findings = [k \in DOMAIN shown |-> View(shown[k], report.root)]
    BY DocumentIs
  <2>2. \A k \in DOMAIN shown : DOMAIN View(shown[k], report.root) = FindingKeys(SchemaVersion)
    BY ViewIs
  <2> QED
    BY <2>1, <2>2 DEF Range
<1>5. \A r \in Range(document.evidence_contract.records) : r.fingerprint # Malformed
  <2>1. document.evidence_contract.records = [k \in DOMAIN shown |-> Record(report, shown[k])]
    BY DocumentIs
  <2>2. \A a, b, c : <<"pons-fingerprint-v1", a, b, c>> # <<"malformed">>
    <3>1. \A a, b, c : <<"pons-fingerprint-v1", a, b, c>>[1] = "pons-fingerprint-v1"
      OBVIOUS
    <3>2. <<"malformed">>[1] = "malformed"
      OBVIOUS
    <3> QED
      BY <3>1, <3>2
  <2>3. ASSUME NEW k \in DOMAIN shown
        PROVE  Record(report, shown[k]).fingerprint # Malformed
    BY <2>2, RecordIs DEF Malformed
  <2> QED
    BY <2>1, <2>3 DEF Range
<1> QED
  BY <1>1, <1>2, <1>3, <1>4, <1>5 DEF Schema

\* The entries of files read are as many as the files.
LEMMA AnalysedAre ==
  ASSUME Inv, Printed
  PROVE  /\ Analysed(document) = {k \in DOMAIN inventory : inventory[k].outcome = "analysed"}
         /\ Cardinality(Analysed(document)) = Cardinality(AnalysedFiles)
         /\ (Analysed(document) = {} <=> AnalysedFiles = {})
         /\ \A f \in AnalysedFiles : \E k \in Analysed(document) : inventory[k].path = f.path
         /\ \A k \in DOMAIN inventory : \E f \in job.files : inventory[k] = Item(f)
<1> DEFINE K == {k \in DOMAIN inventory : inventory[k].outcome = "analysed"}
           g == [f \in AnalysedFiles |-> CHOOSE k \in K : inventory[k] = Item(f)]
<1>1. document.scanned.inventory = inventory
  BY DocumentIs
<1>2. Analysed(document) = K
  BY <1>1 DEF Analysed
<1>3. Inventoried(job.files, inventory, skipped) /\ JobFits(job) /\ AnalysedFiles \in SUBSET job.files
  BY PrintedFacts, AllIsRead
<1>4. ASSUME NEW k \in DOMAIN inventory
      PROVE  \E f \in job.files : inventory[k] = Item(f)
  <2>1. inventory \in Seq({Item(f) : f \in job.files})
    BY <1>3 DEF Inventoried
  <2>2. inventory[k] \in {Item(f) : f \in job.files}
    BY <2>1
  <2> QED
    BY <2>2
<1>5. \A f : Item(f).outcome = f.outcome /\ Item(f).path = f.path
  BY DEF Item
<1>6. ASSUME NEW f \in AnalysedFiles
      PROVE  \E k \in K : inventory[k] = Item(f)
  BY <1>3, <1>5 DEF Inventoried, AnalysedFiles
<1>7. g \in [AnalysedFiles -> K] /\ \A f \in AnalysedFiles : inventory[g[f]] = Item(f)
  BY <1>6
<1>8. ASSUME NEW k \in K
      PROVE  \E f \in AnalysedFiles : g[f] = k
  <2>1. PICK f \in job.files : inventory[k] = Item(f)
    BY <1>4
  <2>2. f \in AnalysedFiles
    BY <1>5, <2>1 DEF AnalysedFiles
  <2>3. g[f] \in DOMAIN inventory /\ inventory[g[f]].path = inventory[k].path
    BY <1>7, <2>1, <2>2
  <2>4. g[f] = k
    BY <1>3, <2>3 DEF Inventoried
  <2> QED
    BY <2>2, <2>4
<1>9. ASSUME NEW f \in AnalysedFiles, NEW h \in AnalysedFiles, g[f] = g[h]
      PROVE  f = h
  <2>1. f.path = h.path
    BY <1>5, <1>7, <1>9
  <2> QED
    BY <1>3, <2>1 DEF JobFits
<1> HIDE DEF g, K
<1>10. IsFiniteSet(AnalysedFiles)
  BY <1>3, FS_Subset DEF JobFits
<1>11. Cardinality(K) = Cardinality(AnalysedFiles)
  BY <1>7, <1>8, <1>9, <1>10, SameNumber
<1>12. K = {} <=> AnalysedFiles = {}
  BY <1>7, <1>8
<1>13. \A f \in AnalysedFiles : \E k \in K : inventory[k].path = f.path
  BY <1>5, <1>7
<1>14. K = {k \in DOMAIN inventory : inventory[k].outcome = "analysed"}
  BY DEF K
<1> QED
  BY <1>2, <1>4, <1>11, <1>12, <1>13, <1>14

LEMMA InventoryHolds ==
  ASSUME Inv, Printed
  PROVE  InventoryFits(document)
<1>1. /\ document.scanned.inventory = inventory /\ document.scanned.skipped = skipped
      /\ document.scanned.files = Cardinality(AnalysedFiles)
  BY DocumentIs, PrintedFacts
<1>2. Inventoried(job.files, inventory, skipped)
  BY PrintedFacts, AllIsRead
<1>3. \A j, k \in DOMAIN inventory : inventory[j].path = inventory[k].path => j = k
  BY <1>2 DEF Inventoried
<1>4. \A k \in Analysed(document) : inventory[k].attested
  <2> SUFFICES ASSUME NEW k \in Analysed(document) PROVE inventory[k].attested
    OBVIOUS
  <2>1. k \in DOMAIN inventory /\ inventory[k].outcome = "analysed"
    BY AnalysedAre
  <2>2. PICK f \in job.files : inventory[k] = Item(f)
    BY <2>1, AnalysedAre
  <2>3. f.outcome = "analysed" /\ Item(f).attested = (f.outcome = "analysed")
    BY <2>1, <2>2 DEF Item
  <2> QED
    BY <2>2, <2>3
<1>5. \A e \in Range(inventory) : e.outcome \notin {"analysed", "excluded-by-policy"} => e.path \in Range(skipped)
  <2> SUFFICES ASSUME NEW k \in DOMAIN inventory, inventory[k].outcome \notin {"analysed", "excluded-by-policy"}
               PROVE  inventory[k].path \in Range(skipped)
    BY DEF Range
  <2>1. PICK f \in job.files : inventory[k] = Item(f)
    BY AnalysedAre
  <2>2. inventory[k].outcome = f.outcome /\ inventory[k].path = f.path
    BY <2>1 DEF Item
  <2> QED
    BY <1>2, <2>2 DEF Inventoried
<1> QED
  BY <1>1, <1>3, <1>4, <1>5, AnalysedAre DEF InventoryFits

LEMMA VerifiedIs ==
  ASSUME Inv, Printed
  PROVE  Verified(document) = StatusOf(report)
<1>1. /\ document.scanned.inventory = report.inventory /\ document.scanned.skipped = report.skipped
      /\ document.scanned.coverage_failures = report.failures
      /\ Cardinality(Analysed(document)) = report.files
  BY DocumentIs, PrintedFacts, AnalysedAre
<1> QED
  BY <1>1 DEF Verified, StatusOf

LEMMA StatusHolds ==
  ASSUME Inv, Printed
  PROVE  StatusFits(document)
<1>1. document.scanned.coverage_status = Verified(document)
  BY DocumentIs, VerifiedIs
<1>2. ASSUME Analysed(document) = {} \/ document.scanned.coverage_failures # {}
      PROVE  document.exit_code = {2}
  <2>1. document.exit_code = report.exit_code /\ document.scanned.coverage_failures = report.failures
    BY DocumentIs
  <2>2. Cardinality(AnalysedFiles) = 0 \/ report.failures # {}
    BY <1>2, <2>1, AnalysedAre, FS_EmptySet
  <2>3. ExitCode(Cardinality(AnalysedFiles), report.failures, Shown(findings)) = 2
    BY <2>2 DEF ExitCode
  <2> QED
    BY <2>1, <2>3, PrintedFacts
<1> QED
  BY <1>1, <1>2 DEF StatusFits

\* What is shown was raised in a file read.
LEMMA ShownRaised ==
  ASSUME Inv, Printed, NEW shown, shown = report.findings, NEW k \in DOMAIN shown
  PROVE  \E t \in RaisedIn(job, AnalysedFiles) :
           /\ shown[k] = ToldIn(job, t) /\ shown[k].rule_id = t[2] /\ shown[k].location.file = t[1]
           /\ FileIn(job, t[1]) \in AnalysedFiles /\ FileIn(job, t[1]).path = t[1]
           /\ shown[k].tier \in Tier /\ shown[k].evidence = EvidenceOf[shown[k].tier]
           /\ shown[k].evidence \in EvidenceClass
           /\ shown[k].location.byte_start \in Nat /\ shown[k].location.byte_end \in Nat
           /\ shown[k].location.byte_start < shown[k].location.byte_end
<1>1. shown \in Seq(Findings(job, AllRaised)) /\ JobFits(job) /\ AnalysedFiles \in SUBSET job.files
  BY PrintedFacts, ShownFacts, AllIsRead
<1>2. shown[k] \in Findings(job, AllRaised)
  BY <1>1
<1>3. PICK t \in RaisedIn(job, AnalysedFiles) : shown[k] = ToldIn(job, t)
  BY <1>2 DEF Findings, AllRaised
<1>4. FileIn(job, t[1]) \in AnalysedFiles /\ FileIn(job, t[1]).path = t[1]
  BY <1>1, TripleFacts
<1> QED
  BY <1>1, <1>3, <1>4, ToldFacts

LEMMA FindingsHold ==
  ASSUME Inv, Printed, PathsTell, NEW f \in Range(document.findings)
  PROVE  FindingFits(document, f)
<1> DEFINE shown == report.findings
<1>1. /\ document.findings = [k \in DOMAIN shown |-> View(shown[k], report.root)]
      /\ document.scanned.root = job.root /\ report.root = job.root
      /\ document.scanned.inventory = inventory
  BY DocumentIs, PrintedFacts
<1>2. PICK k \in DOMAIN shown : f = View(shown[k], job.root)
  BY <1>1 DEF Range
<1>3. /\ f.evidence = shown[k].evidence /\ f.tier = shown[k].tier /\ f.location = shown[k].location
      /\ f.semantic_fingerprint = SemanticFingerprint(shown[k], job.root)
  BY <1>2, ViewIs
<1> HIDE DEF shown
<1>4. PICK t \in RaisedIn(job, AnalysedFiles) :
        /\ shown[k].location.file = t[1]
        /\ FileIn(job, t[1]) \in AnalysedFiles /\ FileIn(job, t[1]).path = t[1]
        /\ shown[k].evidence = EvidenceOf[shown[k].tier]
        /\ shown[k].location.byte_start \in Nat /\ shown[k].location.byte_end \in Nat
        /\ shown[k].location.byte_start < shown[k].location.byte_end
  BY <1>2, ShownRaised DEF shown
<1>5. f.evidence = EvidenceOf[f.tier] /\ f.location.byte_end >= f.location.byte_start
  BY <1>3, <1>4
<1>6. \E i \in Analysed(document) : document.scanned.inventory[i].path = f.location.file
  BY <1>1, <1>3, <1>4, AnalysedAre
<1>7. Inside(RelativePath(f.location.file, job.root))
  <2>1. shown[k] \in Range(shown)
    BY <1>2 DEF Range
  <2>2. Inside(RelativePath(shown[k].location.file, report.root))
    BY <2>1 DEF PathsTell, shown
  <2> QED
    BY <1>1, <1>3, <2>2
<1>8. f.semantic_fingerprint = SemanticFingerprint(f, job.root)
  BY <1>3 DEF SemanticFingerprint
<1> QED
  BY <1>1, <1>5, <1>6, <1>7, <1>8 DEF FindingFits

LEMMA CountsHold ==
  ASSUME Inv, Printed
  PROVE  CountsFit(document)
<1> DEFINE shown == report.findings
           views == document.findings
<1>1. document.counts = Tally(shown) /\ views = [k \in DOMAIN shown |-> View(shown[k], report.root)]
  BY DocumentIs
<1>2. Len(shown) \in Nat /\ DOMAIN shown = 1..Len(shown)
  BY PrintedFacts, ShownFacts
<1>3. \A k \in DOMAIN shown : View(shown[k], report.root).evidence = shown[k].evidence
  BY ViewIs
<1> HIDE DEF shown, views
<1>4. DOMAIN views = DOMAIN shown /\ Len(views) = Len(shown) /\ \A k \in DOMAIN shown : views[k].evidence = shown[k].evidence
  BY <1>1, <1>2, <1>3
<1>5. \A class : {k \in DOMAIN views : views[k].evidence = class} = {k \in DOMAIN shown : shown[k].evidence = class}
  BY <1>4
<1>6. Tally(views) = Tally(shown)
  BY <1>4, <1>5 DEF Tally, Count
<1> QED
  BY <1>1, <1>6 DEF CountsFit, views

\* Two findings shown with one fingerprint are one, when paths tell their files.
LEMMA OneFingerprint ==
  ASSUME Inv, Printed, PathsTell, NEW shown, shown = report.findings,
         NEW i \in DOMAIN shown, NEW k \in DOMAIN shown,
         Record(report, shown[i]).fingerprint = Record(report, shown[k]).fingerprint
  PROVE  i = k
<1>1. /\ Collected /\ shown = Shown(findings) /\ report.anchors = anchors /\ report.root = job.root
      /\ JobFits(job) /\ AnalysedFiles \in SUBSET job.files
  BY PrintedFacts, AllIsRead
<1>2. /\ Range(shown) \in SUBSET Range(findings) /\ Tidy(job, shown)
      /\ Len(shown) \in Nat /\ DOMAIN shown = 1..Len(shown)
  BY <1>1, ShownFacts
<1> DEFINE f == shown[i]
           g == shown[k]
<1>3. PICK t \in RaisedIn(job, AnalysedFiles) :
        /\ f = ToldIn(job, t) /\ f.rule_id = t[2] /\ f.location.file = t[1]
        /\ FileIn(job, t[1]) \in AnalysedFiles /\ FileIn(job, t[1]).path = t[1]
  BY ShownRaised
<1>4. PICK u \in RaisedIn(job, AnalysedFiles) :
        /\ g = ToldIn(job, u) /\ g.rule_id = u[2] /\ g.location.file = u[1]
        /\ FileIn(job, u[1]) \in AnalysedFiles /\ FileIn(job, u[1]).path = u[1]
  BY ShownRaised
<1>5. f \in Range(findings) /\ g \in Range(findings)
  BY <1>2 DEF Range
<1> DEFINE pf == RelativePath(f.location.file, report.root)
           pg == RelativePath(g.location.file, report.root)
           af == Anchor(report, f)
           ag == Anchor(report, g)
<1>6. f.rule_id = g.rule_id /\ pf = pg /\ af = ag
  <2>1. /\ Record(report, f).fingerprint = <<"pons-fingerprint-v1", f.rule_id, pf, af>>
        /\ Record(report, g).fingerprint = <<"pons-fingerprint-v1", g.rule_id, pg, ag>>
    BY RecordIs
  <2>2. <<"pons-fingerprint-v1", f.rule_id, pf, af>> = <<"pons-fingerprint-v1", g.rule_id, pg, ag>>
    BY <2>1
  <2> HIDE DEF pf, pg, af, ag
  <2> QED
    BY <2>2
<1>7. f.location.file = g.location.file
  <2>1. f \in Range(report.findings) /\ g \in Range(report.findings)
    BY <1>2 DEF Range
  <2>2. \A a, b \in Range(report.findings) :
          /\ a.rule_id = b.rule_id
          /\ RelativePath(a.location.file, report.root) = RelativePath(b.location.file, report.root)
          /\ Anchor(report, a) = Anchor(report, b)
          => a.location.file = b.location.file
    BY DEF PathsTell
  <2> HIDE DEF f, g
  <2> QED
    BY <1>6, <2>1, <2>2
<1>8. SpanKey(f) = SpanKey(g)
  <2>1. Anchored(findings, anchors, occurrences)
    BY <1>1, AllIsRead
  <2>2. SpanKey(f) \in DOMAIN anchors /\ SpanKey(g) \in DOMAIN anchors
    BY <1>5, <2>1 DEF Anchored
  <2>3. af = anchors[SpanKey(f)] /\ ag = anchors[SpanKey(g)]
    BY <1>1, <2>2 DEF Anchor, SpanKey
  <2>4. SpanKey(f)[1] = SpanKey(g)[1] /\ SpanKey(f)[2] = SpanKey(g)[2]
    BY <1>6, <1>7 DEF SpanKey
  <2>5. anchors[SpanKey(f)] = anchors[SpanKey(g)]
    BY <1>6, <2>3
  <2>6. \A a, b \in DOMAIN anchors : a[1] = b[1] /\ a[2] = b[2] /\ anchors[a] = anchors[b] => a = b
    BY <2>1 DEF Anchored
  <2> QED
    BY ONLY <2>2, <2>4, <2>5, <2>6
<1>9. f.location.byte_start = g.location.byte_start /\ f.location.byte_end = g.location.byte_end
  BY <1>8 DEF SpanKey
<1>10. f = g
  <2>1. t[1] = u[1] /\ t[2] = u[2]
    BY <1>3, <1>4, <1>6, <1>7
  <2>2. /\ ToldIn(job, t).location.byte_start = ToldIn(job, u).location.byte_start
        /\ ToldIn(job, t).location.byte_end = ToldIn(job, u).location.byte_end
    BY <1>3, <1>4, <1>9
  <2>3. ToldIn(job, t) = ToldIn(job, u)
    BY <1>1, <2>1, <2>2, Copies
  <2> QED
    BY <1>3, <1>4, <2>3
<1>11. ~(i < k) /\ ~(k < i)
  BY <1>2, <1>10 DEF Tidy
<1> QED
  BY <1>2, <1>11

LEMMA RecordsHold ==
  ASSUME Inv, Printed, PathsTell
  PROVE  RecordsFit(document.evidence_contract.records)
<1> DEFINE shown == report.findings
           records == document.evidence_contract.records
<1>1. records = [k \in DOMAIN shown |-> Record(report, shown[k])]
  BY DocumentIs
<1>2. ASSUME NEW k \in DOMAIN shown
      PROVE  records[k].evidence = EvidenceOf[records[k].tier] /\ records[k].path # <<>>
  <2>1. PICK t \in RaisedIn(job, AnalysedFiles) :
          /\ shown[k].location.file = t[1]
          /\ FileIn(job, t[1]) \in AnalysedFiles /\ FileIn(job, t[1]).path = t[1]
          /\ shown[k].evidence = EvidenceOf[shown[k].tier]
    BY ShownRaised
  <2>2. records[k] = Record(report, shown[k])
    BY <1>1
  <2>3. /\ records[k].evidence = shown[k].evidence /\ records[k].tier = shown[k].tier
        /\ records[k].path = RelativePath(shown[k].location.file, report.root)
    BY <2>2, RecordIs
  <2>4. JobFits(job) /\ FileIn(job, t[1]) \in job.files /\ report.root = job.root
    BY <2>1, PrintedFacts, AllIsRead DEF AnalysedFiles
  <2>5. RelativePath(FileIn(job, t[1]).path, job.root) # <<>>
    BY <2>4, RelativePaths
  <2> QED
    BY <2>1, <2>3, <2>4, <2>5
<1>3. ASSUME NEW i \in DOMAIN shown, NEW k \in DOMAIN shown, records[i].fingerprint = records[k].fingerprint
      PROVE  i = k
  <2>1. Record(report, shown[i]).fingerprint = Record(report, shown[k]).fingerprint
    BY <1>1, <1>3
  <2> QED
    BY <2>1, OneFingerprint
<1>4. DOMAIN records = DOMAIN shown
  BY <1>1
<1> HIDE DEF records, shown
<1> QED
  BY <1>2, <1>3, <1>4 DEF RecordsFit, records, Range

LEMMA ContractHolds ==
  ASSUME Inv, Printed, PathsTell
  PROVE  ContractFits(document)
<1> DEFINE shown == report.findings
           records == document.evidence_contract.records
           views == document.findings
<1>1. /\ records = [k \in DOMAIN shown |-> Record(report, shown[k])]
      /\ views = [k \in DOMAIN shown |-> View(shown[k], report.root)]
      /\ document.evidence_contract.execution_outcome = Verified(document)
      /\ document.evidence_contract.parser_inventory = document.scanned.inventory
      /\ document.scanned.root = report.root /\ document.scanned.inventory = report.inventory
  BY DocumentIs, VerifiedIs, PrintedFacts
<1>2. Len(shown) \in Nat /\ DOMAIN shown = 1..Len(shown)
  BY PrintedFacts, ShownFacts
<1>3. RecordsFit(records)
  BY RecordsHold
<1> HIDE DEF records, shown, views
<1>4. Len(records) = Len(views) /\ DOMAIN views = DOMAIN shown
  BY <1>1, <1>2
<1>5. ASSUME NEW k \in DOMAIN shown
      PROVE  Mirrors(document, records[k], views[k])
  <2>1. records[k] = Record(report, shown[k]) /\ views[k] = View(shown[k], report.root)
    BY <1>1
  <2>2. /\ views[k].rule_id = shown[k].rule_id /\ views[k].tier = shown[k].tier
        /\ views[k].evidence = shown[k].evidence /\ views[k].location = shown[k].location
        /\ views[k].evidence_note = shown[k].evidence_note
        /\ views[k].counter_condition = shown[k].counter_condition
    BY <2>1, ViewIs
  <2>3. /\ records[k].rule = shown[k].rule_id /\ records[k].tier = shown[k].tier
        /\ records[k].evidence = shown[k].evidence
        /\ records[k].path = RelativePath(shown[k].location.file, report.root)
        /\ records[k].line = shown[k].location.line_start
        /\ records[k].trace = shown[k].evidence_note
        /\ records[k].unknown_edges = NotesOn(report.inventory, shown[k].location.file)
        /\ records[k].counterconditions = shown[k].counter_condition
    BY <2>1, RecordIs
  <2> QED
    BY <1>1, <2>2, <2>3 DEF Mirrors
<1> QED
  BY <1>1, <1>3, <1>4, <1>5 DEF ContractFits, records, views

\* What validates tells its findings apart by their paths.
LEMMA ValidTells ==
  ASSUME Inv, Printed, Valid(document)
  PROVE  PathsTell
<1> DEFINE shown == report.findings
           views == document.findings
           records == document.evidence_contract.records
           path(f) == RelativePath(f.location.file, report.root)
<1>1. /\ views = [k \in DOMAIN shown |-> View(shown[k], report.root)]
      /\ records = [k \in DOMAIN shown |-> Record(report, shown[k])]
      /\ document.scanned.root = report.root /\ document.schema_version = SchemaVersion
  BY DocumentIs
<1>2. ASSUME NEW i \in DOMAIN shown
      PROVE  Inside(path(shown[i]))
  <2>1. views[i] \in Range(views) /\ views[i] = View(shown[i], report.root)
    BY <1>1 DEF Range
  <2>2. views[i].location = shown[i].location
    BY <2>1, ViewIs
  <2>3. FindingFits(document, views[i])
    BY <2>1 DEF Valid
  <2>4. Inside(RelativePath(views[i].location.file, report.root))
    BY <1>1, <2>3 DEF FindingFits
  <2> QED
    BY <2>2, <2>4
<1>3. ASSUME NEW i \in DOMAIN shown, NEW k \in DOMAIN shown,
             shown[i].rule_id = shown[k].rule_id, path(shown[i]) = path(shown[k]),
             Anchor(report, shown[i]) = Anchor(report, shown[k])
      PROVE  i = k
  <2>1. records[i] = Record(report, shown[i]) /\ records[k] = Record(report, shown[k])
        /\ DOMAIN records = DOMAIN shown
    BY <1>1
  <2>2. records[i].producer = records[k].producer /\ records[i].fingerprint = records[k].fingerprint
    <3>1. /\ records[i].producer = "pons" /\ records[k].producer = "pons"
          /\ records[i].fingerprint = <<"pons-fingerprint-v1", shown[i].rule_id, path(shown[i]), Anchor(report, shown[i])>>
          /\ records[k].fingerprint = <<"pons-fingerprint-v1", shown[k].rule_id, path(shown[k]), Anchor(report, shown[k])>>
      BY <2>1, RecordIs
    <3> QED
      BY <1>3, <3>1
  <2>3. RecordsFit(records)
    BY DEF Valid, ContractFits
  <2> HIDE DEF records, shown
  <2> QED
    BY <2>1, <2>2, <2>3 DEF RecordsFit
<1>4. ASSUME NEW f \in Range(shown), NEW g \in Range(shown)
      PROVE  /\ Inside(path(f))
             /\ f.rule_id = g.rule_id /\ path(f) = path(g) /\ Anchor(report, f) = Anchor(report, g)
                  => f.location.file = g.location.file
  <2>1. PICK i \in DOMAIN shown : f = shown[i]
    BY DEF Range
  <2>2. PICK k \in DOMAIN shown : g = shown[k]
    BY DEF Range
  <2> QED
    BY <1>2, <1>3, <2>1, <2>2
<1> QED
  BY <1>4 DEF PathsTell

\* Without a backslash in their names, files are told apart by their paths.
LEMMA PlainTell ==
  ASSUME Inv, Printed, PlainNames
  PROVE  PathsTell
<1> DEFINE shown == report.findings
           path(f) == RelativePath(f.location.file, report.root)
<1>1. JobFits(job) /\ AnalysedFiles \in SUBSET job.files /\ report.root = job.root
  BY PrintedFacts, AllIsRead
<1>2. PlainIn(job)
  BY DEF PlainNames, PlainIn
<1>3. ASSUME NEW f \in Range(shown)
      PROVE  \E h \in job.files : h.path = f.location.file
  <2>1. PICK k \in DOMAIN shown : f = shown[k]
    BY DEF Range
  <2>2. PICK t \in RaisedIn(job, AnalysedFiles) :
          /\ shown[k].location.file = t[1]
          /\ FileIn(job, t[1]) \in AnalysedFiles /\ FileIn(job, t[1]).path = t[1]
    BY ShownRaised
  <2> QED
    BY <1>1, <2>1, <2>2
<1>4. ASSUME NEW f \in Range(shown), NEW g \in Range(shown)
      PROVE  Inside(path(f)) /\ (path(f) = path(g) => f.location.file = g.location.file)
  <2>1. PICK a \in job.files : a.path = f.location.file
    BY <1>3
  <2>2. PICK b \in job.files : b.path = g.location.file
    BY <1>3
  <2>3. /\ Inside(RelativePath(a.path, job.root))
        /\ RelativePath(a.path, job.root) = RelativePath(b.path, job.root) => a = b
    BY <1>1, <1>2, PlainPathsTell
  <2> QED
    BY <1>1, <2>1, <2>2, <2>3
<1> QED
  BY <1>4 DEF PathsTell

LEMMA Validates == Inv => ReportIsValid
<1> SUFFICES ASSUME Inv, Printed
             PROVE  (Valid(document) <=> PathsTell) /\ (PlainNames => Valid(document))
  BY DEF ReportIsValid
<1>1. PathsTell => Valid(document)
  BY SchemaHolds, InventoryHolds, StatusHolds, FindingsHold, CountsHold, ContractHolds DEF Valid
<1> QED
  BY <1>1, ValidTells, PlainTell

(* A report that is printed validates exactly when its findings' paths, in *)
(* slashes, are below the root and tell their files apart, and always when *)
(* no name has a backslash, whatever the job.                              *)
THEOREM ReportIsValidCorrect == Spec => []ReportIsValid
BY GatheredIsRaised, Validates, PTL

-----------------------------------------------------------------------------
\* What every edit keeps of a document: which of its values are records, and
\* the keys of those that validate-report does not compare.

IsRecord(f) == f = [k \in DOMAIN f |-> f[k]]

DocumentKeys == {"schema_version", "exit_code", "scanned", "counts", "findings", "evidence_contract"}
ContractKeys == {"execution_outcome", "parser_inventory", "records"}
RecordKeys   == {"fingerprint", "producer", "rule", "tier", "evidence", "confidence", "path", "line",
                 "trace", "unknown_edges", "counterconditions"}

FindingsShaped(s) == s \in Seq(Range(s)) /\ \A k \in DOMAIN s : IsRecord(s[k])

RecordsShaped(s) ==
  /\ s \in Seq(Range(s))
  /\ \A k \in DOMAIN s : IsRecord(s[k]) /\ DOMAIN s[k] = RecordKeys

ContractShaped(c) == IsRecord(c) /\ DOMAIN c = ContractKeys /\ RecordsShaped(c.records)

Shaped(d) ==
  /\ IsRecord(d) /\ DOMAIN d = DocumentKeys
  /\ IsRecord(d.scanned) /\ IsRecord(d.counts)
  /\ FindingsShaped(d.findings)
  /\ ContractShaped(d.evidence_contract)

\* One value of a document is put in place of another.
LEMMA Replaced ==
  ASSUME NEW d, Shaped(d), NEW v
  PROVE  /\ Shaped([d EXCEPT !.schema_version = v])
         /\ Shaped([d EXCEPT !.exit_code = v])
         /\ IsRecord(v) => Shaped([d EXCEPT !.scanned = v])
         /\ IsRecord(v) => Shaped([d EXCEPT !.counts = v])
         /\ FindingsShaped(v) => Shaped([d EXCEPT !.findings = v])
         /\ ContractShaped(v) => Shaped([d EXCEPT !.evidence_contract = v])
<1>1. IsRecord(d) /\ DOMAIN d = DocumentKeys
  BY DEF Shaped
<1>2. ASSUME NEW x \in DocumentKeys
      PROVE  /\ IsRecord([d EXCEPT ![x] = v]) /\ DOMAIN [d EXCEPT ![x] = v] = DocumentKeys
             /\ [d EXCEPT ![x] = v][x] = v
             /\ \A y \in DocumentKeys \ {x} : [d EXCEPT ![x] = v][y] = d[y]
  BY <1>1, <1>2 DEF IsRecord
<1>3. Shaped([d EXCEPT !.schema_version = v])
  BY <1>2 DEF Shaped, DocumentKeys
<1>4. Shaped([d EXCEPT !.exit_code = v])
  BY <1>2 DEF Shaped, DocumentKeys
<1>5. IsRecord(v) => Shaped([d EXCEPT !.scanned = v])
  BY <1>2 DEF Shaped, DocumentKeys
<1>6. IsRecord(v) => Shaped([d EXCEPT !.counts = v])
  BY <1>2 DEF Shaped, DocumentKeys
<1>7. FindingsShaped(v) => Shaped([d EXCEPT !.findings = v])
  BY <1>2 DEF Shaped, DocumentKeys
<1>8. ContractShaped(v) => Shaped([d EXCEPT !.evidence_contract = v])
  BY <1>2 DEF Shaped, DocumentKeys
<1> QED
  BY <1>3, <1>4, <1>5, <1>6, <1>7, <1>8

LEMMA RecordsStay ==
  /\ \A f, k, v : IsRecord(f) => IsRecord([f EXCEPT ![k] = v]) /\ DOMAIN [f EXCEPT ![k] = v] = DOMAIN f
  /\ \A f, keys : IsRecord(Without(f, keys)) /\ DOMAIN Without(f, keys) = DOMAIN f \ keys
  /\ \A f, k, v : IsRecord(Insert(f, k, v))
  BY DEF IsRecord, Without, Insert

\* The edits of the values at the head, and of the counts.
LEMMA HeadEdits ==
  ASSUME NEW d, Shaped(d), NEW e \in EditedHead(d) \cup EditedCounts(d)
  PROVE  Shaped(e)
<1>1. IsRecord(d.scanned) /\ IsRecord(d.counts) /\ IsRecord(d.evidence_contract)
  BY DEF Shaped, ContractShaped
<1>2. ASSUME NEW s PROVE Shaped([d EXCEPT !.schema_version = s])
  BY Replaced
<1>3. Shaped(Downgraded(d))
  <2> DEFINE shorn == [k \in DOMAIN d.findings |-> Without(d.findings[k], {"semantic_fingerprint"})]
             counts == Without(d.counts, {"actionable", "demoted_speculative"})
             a == [d EXCEPT !.schema_version = "0.4.0"]
             b == [a EXCEPT !.counts = counts]
             c == [b EXCEPT !.findings = shorn]
  <2>1. FindingsShaped(shorn)
    <3>1. d.findings \in Seq(Range(d.findings))
      BY DEF Shaped, FindingsShaped
    <3>2. shorn \in Seq(Range(shorn))
      BY <3>1 DEF Range
    <3>3. \A k \in DOMAIN shorn : IsRecord(shorn[k])
      BY RecordsStay
    <3> HIDE DEF shorn
    <3> QED
      BY <3>2, <3>3 DEF FindingsShaped
  <2>2. IsRecord(counts)
    BY RecordsStay
  <2> HIDE DEF shorn, counts
  <2>3. Shaped(a)
    BY Replaced
  <2>4. Shaped(b)
    <3> HIDE DEF a
    <3> QED
      BY <2>2, <2>3, Replaced
  <2>5. Shaped(c)
    <3> HIDE DEF b
    <3> QED
      BY <2>1, <2>4, Replaced
  <2>6. Downgraded(d) = c
    BY DEF Downgraded, shorn, counts
  <2> QED
    BY <2>5, <2>6
<1>4. ASSUME NEW w, IsRecord(w) PROVE Shaped([d EXCEPT !.scanned = w])
  BY <1>4, Replaced
<1>5. ASSUME NEW w, IsRecord(w) PROVE Shaped([d EXCEPT !.counts = w])
  BY <1>5, Replaced
<1>6. ASSUME NEW s PROVE Shaped([d EXCEPT !.evidence_contract.execution_outcome = s])
  <2> DEFINE c == [d.evidence_contract EXCEPT !.execution_outcome = s]
  <2>1. ContractShaped(c)
    BY DEF Shaped, ContractShaped, ContractKeys, IsRecord
  <2>2. [d EXCEPT !.evidence_contract.execution_outcome = s] = [d EXCEPT !.evidence_contract = c]
    OBVIOUS
  <2> HIDE DEF c
  <2> QED
    BY <2>1, <2>2, Replaced
<1>7. ASSUME NEW s PROVE Shaped([d EXCEPT !.exit_code = s])
  BY Replaced
<1>8. CASE e \in EditedHead(d)
  <2>1. \/ \E s \in {"0.4.0", "0.6.0"} : e = [d EXCEPT !.schema_version = s]
        \/ e = Downgraded(d)
        \/ e = [d EXCEPT !.scanned = Without(d.scanned, {"inventory"})]
        \/ \E s \in Statuses : e = [d EXCEPT !.scanned = [d.scanned EXCEPT !.coverage_status = s]]
        \/ \E s \in Statuses : e = [d EXCEPT !.evidence_contract.execution_outcome = s]
        \/ \E c \in {{0}, {1}, {}} : e = [d EXCEPT !.exit_code = c]
        \/ e = [d EXCEPT !.scanned = [d.scanned EXCEPT !.files = @ + 1]]
        \/ e = [d EXCEPT !.scanned = [d.scanned EXCEPT !.skipped = <<>>]]
        \/ e = [d EXCEPT !.scanned = [d.scanned EXCEPT !.inventory = SubSeq(@, 2, Len(@))]]
    BY <1>8 DEF EditedHead
  <2>2. /\ IsRecord(Without(d.scanned, {"inventory"}))
        /\ \A x, v : IsRecord([d.scanned EXCEPT ![x] = v])
    BY <1>1, RecordsStay
  <2> QED
    BY <2>1, <2>2, <1>2, <1>3, <1>4, <1>6, <1>7
<1>9. CASE e \in EditedCounts(d)
  <2>1. \/ \E x \in {"total", "actionable", "demoted_speculative"}, n \in 0..1 :
             e = [d EXCEPT !.counts = Insert(d.counts, x, n)]
        \/ \E class \in {"HEURISTIC", "SPECULATIVE"} :
             e = [d EXCEPT !.counts = [d.counts EXCEPT !.by_evidence =
                    [d.counts.by_evidence EXCEPT ![class] = d.counts.by_evidence[class] + 1]]]
    BY <1>9 DEF EditedCounts
  <2>2. /\ \A x, n : IsRecord(Insert(d.counts, x, n))
        /\ \A x, v : IsRecord([d.counts EXCEPT ![x] = v])
    BY <1>1, RecordsStay
  <2> QED
    BY <2>1, <2>2, <1>5
<1> QED
  BY <1>8, <1>9

LEMMA OwnList ==
  ASSUME NEW n \in Nat, NEW s, DOMAIN s = 1..n, s = [k \in 1..n |-> s[k]]
  PROVE  s \in Seq(Range(s))
<1> DEFINE T == Range(s)
<1>1. \A k \in 1..n : s[k] \in T
  BY DEF Range
<1> HIDE DEF T
<1>2. s \in Seq(T)
  BY <1>1, SeqByElements
<1> QED
  BY <1>2 DEF T

LEMMA OwnReplaced ==
  ASSUME NEW s, s \in Seq(Range(s)), NEW k, NEW v
  PROVE  /\ [s EXCEPT ![k] = v] \in Seq(Range([s EXCEPT ![k] = v]))
         /\ DOMAIN [s EXCEPT ![k] = v] = DOMAIN s
<1> DEFINE T == Range(s) \cup {v}
           t == [s EXCEPT ![k] = v]
<1>1. DOMAIN s = 1..Len(s) /\ Len(s) \in Nat /\ \A i \in DOMAIN s : s[i] \in T
  BY DEF Range
<1>2. DOMAIN t = 1..Len(s) /\ t = [i \in 1..Len(s) |-> t[i]] /\ \A i \in 1..Len(s) : t[i] \in T
  BY <1>1
<1> HIDE DEF t, T
<1>3. t \in Seq(T)
  BY <1>1, <1>2, SeqByElements
<1>4. t \in Seq(Range(t))
  BY <1>3, OwnSeq
<1> QED
  BY <1>1, <1>2, <1>4 DEF t

\* The edits of a record and of a finding.
LEMMA RowEdits ==
  ASSUME NEW d, Shaped(d), d.findings # <<>>, d.evidence_contract.records # <<>>,
         NEW e \in EditedRecords(d) \cup EditedFindings(d)
  PROVE  Shaped(e)
<1> DEFINE contract == d.evidence_contract
           records == contract.records
           first == d.findings[1]
<1>1. /\ ContractShaped(contract) /\ RecordsShaped(records) /\ records # <<>>
      /\ FindingsShaped(d.findings) /\ d.findings # <<>>
  BY DEF Shaped, ContractShaped
<1>2. ASSUME NEW s, RecordsShaped(s)
      PROVE  Shaped([d EXCEPT !.evidence_contract.records = s])
  <2> DEFINE c == [d.evidence_contract EXCEPT !.records = s]
  <2>1. ContractShaped(c)
    BY <1>2 DEF Shaped, ContractShaped, ContractKeys, IsRecord
  <2>2. [d EXCEPT !.evidence_contract.records = s] = [d EXCEPT !.evidence_contract = c]
    OBVIOUS
  <2> HIDE DEF c
  <2> QED
    BY <2>1, <2>2, Replaced
<1> HIDE DEF contract, records, first
<1>3. ASSUME NEW r, IsRecord(r), DOMAIN r = RecordKeys
      PROVE  Shaped([d EXCEPT !.evidence_contract.records[1] = r])
  <2> DEFINE s == [records EXCEPT ![1] = r]
  <2>1. s \in Seq(Range(s)) /\ DOMAIN s = DOMAIN records
    BY <1>1, OwnReplaced DEF RecordsShaped
  <2>2. \A k \in DOMAIN s : s[k] = r \/ s[k] = records[k]
    BY <2>1
  <2> HIDE DEF s
  <2>3. RecordsShaped(s)
    BY <1>1, <1>3, <2>1, <2>2 DEF RecordsShaped
  <2>4. [d EXCEPT !.evidence_contract.records[1] = r] = [d EXCEPT !.evidence_contract.records = s]
    BY DEF s, records, contract
  <2> QED
    BY <2>3, <2>4, <1>2
<1>4. ASSUME NEW f, IsRecord(f)
      PROVE  Shaped([d EXCEPT !.findings[1] = f])
  <2> DEFINE s == [d.findings EXCEPT ![1] = f]
  <2>1. s \in Seq(Range(s)) /\ DOMAIN s = DOMAIN d.findings
    BY <1>1, OwnReplaced DEF FindingsShaped
  <2>2. \A k \in DOMAIN s : s[k] = f \/ s[k] = d.findings[k]
    BY <2>1
  <2>4. [d EXCEPT !.findings[1] = f] = [d EXCEPT !.findings = s]
    OBVIOUS
  <2> HIDE DEF s
  <2>3. FindingsShaped(s)
    BY <1>1, <1>4, <2>1, <2>2 DEF FindingsShaped
  <2> QED
    BY <2>3, <2>4, Replaced
<1>5. CASE e \in EditedRecords(d)
  <2>1. 1 \in DOMAIN records /\ Len(records) \in DOMAIN records
    <3>1. records \in Seq(Range(records)) /\ records # <<>>
      BY <1>1 DEF RecordsShaped
    <3> QED
      BY <3>1
  <2>2. RecordsShaped(Tail(records))
    <3>1. records \in Seq(Range(records)) /\ records # <<>>
      BY <1>1 DEF RecordsShaped
    <3>2. /\ Len(Tail(records)) = Len(records) - 1 /\ Len(records) \in Nat
          /\ DOMAIN Tail(records) = 1..(Len(records) - 1)
          /\ \A k \in 1..(Len(records) - 1) : Tail(records)[k] = records[k + 1] /\ k + 1 \in DOMAIN records
      BY <3>1
    <3>3. Tail(records) \in Seq(Range(records))
      BY <3>1
    <3>4. Tail(records) \in Seq(Range(Tail(records)))
      BY <3>3, OwnSeq
    <3> QED
      BY <3>2, <3>4, <1>1 DEF RecordsShaped
  <2>3. /\ IsRecord(records[1]) /\ DOMAIN records[1] = RecordKeys
        /\ IsRecord(records[Len(records)]) /\ DOMAIN records[Len(records)] = RecordKeys
    BY <1>1, <2>1 DEF RecordsShaped
  <2>4. \A x, v : IsRecord([records[1] EXCEPT ![x] = v]) /\ DOMAIN [records[1] EXCEPT ![x] = v] = RecordKeys
    BY <2>3, RecordsStay
  <2>5. \A x, v, y, w : /\ IsRecord([records[1] EXCEPT ![x] = v, ![y] = w])
                        /\ DOMAIN [records[1] EXCEPT ![x] = v, ![y] = w] = RecordKeys
    BY <2>4, RecordsStay
  <2>6. \/ e = [d EXCEPT !.evidence_contract.records = Tail(records)]
        \/ \E r : /\ IsRecord(r) /\ DOMAIN r = RecordKeys
                 /\ e = [d EXCEPT !.evidence_contract.records[1] = r]
    <3> DEFINE with(r) == [d EXCEPT !.evidence_contract.records[1] = r]
               r1 == records[1]
               good(r) == IsRecord(r) /\ DOMAIN r = RecordKeys
    <3>1. \/ e = [d EXCEPT !.evidence_contract.records = Tail(records)]
          \/ e = with(records[Len(records)])
          \/ e = with([r1 EXCEPT !.fingerprint = Malformed])
          \/ \E t \in Tier : e = with([r1 EXCEPT !.tier = t, !.evidence = EvidenceOf[t]])
          \/ e = with([r1 EXCEPT !.line = r1.line + 1])
          \/ e = with([r1 EXCEPT !.path = <<"etc">>])
          \/ e = with([r1 EXCEPT !.unknown_edges = <<>>])
      BY <1>5 DEF EditedRecords, records, contract
    <3>2. /\ good(records[Len(records)])
          /\ \A x, v : good([r1 EXCEPT ![x] = v])
          /\ \A x, v, y, w : good([r1 EXCEPT ![x] = v, ![y] = w])
      BY <2>3, <2>4, <2>5
    <3>3. /\ \A v : good([r1 EXCEPT !.fingerprint = v])
          /\ \A v, w : good([r1 EXCEPT !.tier = v, !.evidence = w])
          /\ \A v : good([r1 EXCEPT !.line = v])
          /\ \A v : good([r1 EXCEPT !.path = v])
          /\ \A v : good([r1 EXCEPT !.unknown_edges = v])
      <4> HIDE DEF good, r1
      <4> QED
        BY <3>2
    <3>4. \/ e = [d EXCEPT !.evidence_contract.records = Tail(records)]
          \/ \E r : good(r) /\ e = with(r)
      <4> HIDE DEF with, good, r1
      <4> QED
        BY <3>1, <3>2, <3>3
    <3> QED
      BY <3>4
  <2> QED
    BY <2>2, <2>6, <1>2, <1>3
<1>6. CASE e \in EditedFindings(d)
  <2>1. IsRecord(first)
    <3>1. d.findings \in Seq(Range(d.findings)) /\ d.findings # <<>>
      BY <1>1 DEF FindingsShaped
    <3>2. 1 \in DOMAIN d.findings
      BY <3>1
    <3> QED
      BY <1>1, <3>2 DEF FindingsShaped, first
  <2>2. \A x, v : IsRecord([first EXCEPT ![x] = v])
    BY <2>1, RecordsStay
  <2>3. \A x, v, y, w : IsRecord([first EXCEPT ![x] = v, ![y] = w])
    BY <2>2, RecordsStay
  <2>4. \E f : IsRecord(f) /\ e = [d EXCEPT !.findings[1] = f]
    <3> DEFINE with(f) == [d EXCEPT !.findings[1] = f]
    <3>1. \/ e = with([first EXCEPT !.tier = "T1"])
          \/ e = with([first EXCEPT !.evidence = "DATAFLOW"])
          \/ e = with([first EXCEPT !.tier = "T1", !.evidence = "DATAFLOW"])
          \/ e = with([first EXCEPT !.location = [first.location EXCEPT !.line_start = first.location.line_start + 1]])
          \/ e = with([first EXCEPT !.location = [first.location EXCEPT !.file = <<<<"etc">>>>]])
      BY <1>6 DEF EditedFindings, first
    <3>2. /\ \A v : IsRecord([first EXCEPT !.tier = v])
          /\ \A v : IsRecord([first EXCEPT !.evidence = v])
          /\ \A v, w : IsRecord([first EXCEPT !.tier = v, !.evidence = w])
          /\ \A v : IsRecord([first EXCEPT !.location = v])
      <4> HIDE DEF first
      <4> QED
        BY <2>2, <2>3
    <3>3. \E f : IsRecord(f) /\ e = with(f)
      <4> HIDE DEF with, first
      <4> QED
        BY <3>1, <3>2
    <3> QED
      BY <3>3
  <2> QED
    BY <2>4, <1>4
<1> QED
  BY <1>5, <1>6

LEMMA EditsKeepShape ==
  ASSUME NEW d, Shaped(d), NEW e \in Edited(d)
  PROVE  Shaped(e)
<1>1. /\ d.findings # <<>> /\ d.evidence_contract.records # <<>>
      /\ e \in EditedHead(d) \cup EditedCounts(d) \cup EditedRecords(d) \cup EditedFindings(d)
  BY DEF Edited
<1> QED
  BY <1>1, HeadEdits, RowEdits

-----------------------------------------------------------------------------
\* A document that is accepted is the one for its findings and its inventory.

Own(f) == [Without(f, {"semantic_fingerprint"}) EXCEPT !.evidence = EvidenceOf[f.tier]]

ToldReport(d) ==
  [root |-> d.scanned.root, anchors |-> <<>>,
   findings |-> [k \in DOMAIN d.findings |-> Own(d.findings[k])],
   inventory |-> d.scanned.inventory, skipped |-> d.scanned.skipped,
   failures |-> d.scanned.coverage_failures, exit_code |-> d.exit_code,
   files |-> Cardinality(Analysed(d)), suppressed |-> d.scanned.suppressed_findings]

LEMMA RetoldIs ==
  ASSUME NEW d
  PROVE  Retold(d) = IF d.schema_version = SchemaVersion THEN Render(ToldReport(d))
                     ELSE Downgraded(Render(ToldReport(d)))
BY DEF Retold, ToldReport, Own

\* Records with the same keys and the same values are equal.
LEMMA SameRecord ==
  ASSUME NEW f, NEW g, IsRecord(f), IsRecord(g), DOMAIN f = DOMAIN g, \A k \in DOMAIN f : f[k] = g[k]
  PROVE  f = g
BY DEF IsRecord

\* A finding of an accepted document, without what it has for consumers, is
\* one of the engine's: its class is its tier's.
LEMMA OwnIs ==
  ASSUME NEW d, Shaped(d), Valid(d), NEW k \in DOMAIN d.findings
  PROVE  /\ d.findings[k].evidence = EvidenceOf[d.findings[k].tier]
         /\ \A x \in FindingKeys("0.4.0") : Own(d.findings[k])[x] = d.findings[k][x]
         /\ IsRecord(d.findings[k]) /\ DOMAIN d.findings[k] = FindingKeys(d.schema_version)
<1> DEFINE f == d.findings[k]
<1>1. f \in Range(d.findings)
  BY DEF Range
<1>2. IsRecord(f) /\ DOMAIN f = FindingKeys(d.schema_version)
  BY <1>1 DEF Shaped, FindingsShaped, Valid, Schema
<1>3. f.evidence = EvidenceOf[f.tier]
  BY <1>1 DEF Valid, FindingFits
<1> HIDE DEF f
<1>4. ASSUME NEW x \in FindingKeys("0.4.0")
      PROVE  Own(f)[x] = f[x]
  <2>1. x \in DOMAIN Without(f, {"semantic_fingerprint"}) /\ Without(f, {"semantic_fingerprint"})[x] = f[x]
    BY <1>2 DEF Without, FindingKeys, SchemaVersion
  <2> QED
    BY <2>1, <1>3 DEF Own
<1> QED
  BY <1>2, <1>3, <1>4 DEF f

LEMMA ToldFindings ==
  ASSUME NEW d, Shaped(d), Valid(d), NEW k \in DOMAIN d.findings
  PROVE  LET f == d.findings[k]  v == View(Own(f), d.scanned.root) IN
         /\ \A x \in FindingKeys("0.4.0") : v[x] = f[x]
         /\ d.schema_version = SchemaVersion => v = f
         /\ d.schema_version # SchemaVersion => Without(v, {"semantic_fingerprint"}) = f
<1> DEFINE f == d.findings[k]
           v == View(Own(f), d.scanned.root)
<1>1. /\ \A x \in FindingKeys("0.4.0") : Own(f)[x] = f[x]
      /\ IsRecord(f) /\ DOMAIN f = FindingKeys(d.schema_version)
  BY OwnIs
<1>2. f \in Range(d.findings)
  BY DEF Range
<1>3. d.schema_version = SchemaVersion => f.semantic_fingerprint = SemanticFingerprint(f, d.scanned.root)
  BY <1>2 DEF Valid, FindingFits
<1> HIDE DEF f
<1>4. /\ DOMAIN v = FindingKeys(SchemaVersion) /\ IsRecord(v)
      /\ v.semantic_fingerprint = SemanticFingerprint(Own(f), d.scanned.root)
      /\ \A x \in FindingKeys("0.4.0") : v[x] = Own(f)[x]
  BY DEF View, FindingKeys, SchemaVersion, IsRecord
<1>5. SemanticFingerprint(Own(f), d.scanned.root) = SemanticFingerprint(f, d.scanned.root)
  <2>1. Own(f).location = f.location /\ Own(f).evidence = f.evidence
    BY <1>1 DEF FindingKeys
  <2> QED
    BY <2>1 DEF SemanticFingerprint
<1> HIDE DEF v
<1>6. \A x \in FindingKeys("0.4.0") : v[x] = f[x]
  BY <1>1, <1>4
<1>7. ASSUME d.schema_version = SchemaVersion
      PROVE  v = f
  <2>1. \A x \in FindingKeys(SchemaVersion) : x \in FindingKeys("0.4.0") \/ x = "semantic_fingerprint"
    BY DEF FindingKeys
  <2>2. \A x \in DOMAIN v : v[x] = f[x]
    BY <2>1, <1>3, <1>4, <1>5, <1>6, <1>7
  <2> QED
    BY <2>2, <1>1, <1>4, <1>7, SameRecord
<1>8. ASSUME d.schema_version # SchemaVersion
      PROVE  Without(v, {"semantic_fingerprint"}) = f
  <2> DEFINE w == Without(v, {"semantic_fingerprint"})
  <2>1. IsRecord(w) /\ DOMAIN w = FindingKeys(SchemaVersion) \ {"semantic_fingerprint"}
    BY <1>4, RecordsStay
  <2>2. \A x \in DOMAIN w : w[x] = v[x]
    BY DEF Without
  <2> HIDE DEF w
  <2>3. /\ FindingKeys(SchemaVersion) \ {"semantic_fingerprint"} = FindingKeys("0.4.0")
        /\ FindingKeys(d.schema_version) = FindingKeys("0.4.0")
    BY <1>8 DEF FindingKeys, SchemaVersion
  <2>4. w = f
    BY <2>1, <2>2, <2>3, <1>1, <1>6, SameRecord
  <2> QED
    BY <2>4 DEF w
<1> QED
  BY <1>6, <1>7, <1>8 DEF f, v

\* So are its counts.
LEMMA ToldCounts ==
  ASSUME NEW d, Shaped(d), Valid(d)
  PROVE  LET t == Tally(ToldReport(d).findings) IN
         /\ d.schema_version = SchemaVersion => d.counts = t
         /\ d.schema_version # SchemaVersion =>
              d.counts = Without(t, {"actionable", "demoted_speculative"})
<1> DEFINE own == ToldReport(d).findings
           t == Tally(own)
<1>1. own = [k \in DOMAIN d.findings |-> Own(d.findings[k])]
  BY DEF ToldReport
<1>2. DOMAIN own = DOMAIN d.findings /\ Len(own) = Len(d.findings)
  <2>1. d.findings \in Seq(Range(d.findings))
    BY DEF Shaped, FindingsShaped
  <2>2. DOMAIN d.findings = 1..Len(d.findings) /\ Len(d.findings) \in Nat
    BY <2>1
  <2>3. own = [k \in 1..Len(d.findings) |-> own[k]] /\ DOMAIN own = 1..Len(d.findings)
    BY <2>2, <1>1
  <2> HIDE DEF own
  <2> QED
    BY <2>2, <2>3
<1>3. \A k \in DOMAIN d.findings : own[k].evidence = d.findings[k].evidence
  BY <1>1, OwnIs DEF FindingKeys
<1> HIDE DEF own
<1>4. \A class : {k \in DOMAIN own : own[k].evidence = class}
               = {k \in DOMAIN d.findings : d.findings[k].evidence = class}
  BY <1>2, <1>3
<1>5. t = Tally(d.findings)
  BY <1>2, <1>4 DEF Tally, Count
<1>6. /\ d.counts.total = t.total /\ d.counts.by_evidence = t.by_evidence
      /\ d.schema_version = SchemaVersion => d.counts = t
  BY <1>5 DEF Valid, CountsFit
<1>7. DOMAIN t = {"by_evidence", "total", "actionable", "demoted_speculative"}
  BY DEF Tally
<1>8. ASSUME d.schema_version # SchemaVersion
      PROVE  d.counts = Without(t, {"actionable", "demoted_speculative"})
  <2> DEFINE w == Without(t, {"actionable", "demoted_speculative"})
  <2>1. IsRecord(d.counts) /\ DOMAIN d.counts = {"by_evidence", "total"}
    BY <1>8 DEF Shaped, Valid, Schema, CountKeys
  <2>2. IsRecord(w) /\ DOMAIN w = {"by_evidence", "total"}
    BY <1>7, RecordsStay
  <2>3. \A x \in DOMAIN w : w[x] = t[x]
    BY DEF Without
  <2> HIDE DEF w, t
  <2>4. d.counts = w
    BY <2>1, <2>2, <2>3, <1>6, SameRecord
  <2> QED
    BY <2>4 DEF w
<1> QED
  BY <1>6, <1>8 DEF t, own

Gone == {"fingerprint", "producer", "confidence"}

LEMMA ToldRecords ==
  ASSUME NEW d, Shaped(d), Valid(d), NEW k \in DOMAIN d.findings
  PROVE  Without(Record(ToldReport(d), Own(d.findings[k])), Gone)
           = Without(d.evidence_contract.records[k], Gone)
<1> DEFINE f == d.findings[k]
           t == ToldReport(d)
           r == d.evidence_contract.records[k]
           told == Record(t, Own(f))
<1>1. Mirrors(d, r, f)
  BY DEF Valid, ContractFits
<1>2. IsRecord(r) /\ DOMAIN r = RecordKeys
  <2>1. /\ RecordsShaped(d.evidence_contract.records)
        /\ d.findings \in Seq(Range(d.findings))
        /\ Len(d.evidence_contract.records) = Len(d.findings)
    BY DEF Shaped, FindingsShaped, ContractShaped, Valid, ContractFits
  <2>2. DOMAIN d.evidence_contract.records = DOMAIN d.findings
    BY <2>1 DEF RecordsShaped
  <2> QED
    BY <2>1, <2>2 DEF RecordsShaped
<1>3. /\ Own(f).rule_id = f.rule_id /\ Own(f).tier = f.tier /\ Own(f).evidence = f.evidence
      /\ Own(f).location = f.location /\ Own(f).evidence_note = f.evidence_note
      /\ Own(f).counter_condition = f.counter_condition
  BY OwnIs DEF FindingKeys
<1>4. t.root = d.scanned.root /\ t.inventory = d.scanned.inventory
  BY DEF ToldReport
<1> HIDE DEF f, t, r
<1>5. /\ IsRecord(told) /\ DOMAIN told = RecordKeys
      /\ told.rule = f.rule_id /\ told.tier = f.tier /\ told.evidence = f.evidence
      /\ told.path = RelativePath(f.location.file, d.scanned.root)
      /\ told.line = f.location.line_start /\ told.trace = f.evidence_note
      /\ told.unknown_edges = NotesOn(d.scanned.inventory, f.location.file)
      /\ told.counterconditions = f.counter_condition
  BY <1>3, <1>4 DEF Record, RecordKeys, IsRecord
<1> HIDE DEF told
<1>6. \A x \in RecordKeys \ Gone : told[x] = r[x]
  BY <1>1, <1>5 DEF RecordKeys, Gone, Mirrors
<1>7. Without(told, Gone) = Without(r, Gone)
  <2>1. /\ IsRecord(Without(told, Gone)) /\ DOMAIN Without(told, Gone) = RecordKeys \ Gone
        /\ IsRecord(Without(r, Gone)) /\ DOMAIN Without(r, Gone) = RecordKeys \ Gone
    BY <1>2, <1>5, RecordsStay
  <2>2. \A x \in RecordKeys \ Gone : Without(told, Gone)[x] = Without(r, Gone)[x]
    BY <1>2, <1>5, <1>6 DEF Without
  <2> QED
    BY <2>1, <2>2, SameRecord
<1> QED
  BY <1>7 DEF told, f, t, r

\* What validate-report accepts is what the tool prints.
LEMMA AcceptedIsPrinted ==
  ASSUME NEW d, Shaped(d), Valid(d)
  PROVE  Bare(d) = Bare(Retold(d))
<1> DEFINE t == ToldReport(d)
           told == Render(t)
           e == Retold(d)
           records == d.evidence_contract.records
           contract(x) == [x.evidence_contract EXCEPT !.records = [k \in DOMAIN @ |-> Without(@[k], Gone)]]
<1>1. /\ told.scanned = d.scanned /\ told.exit_code = d.exit_code /\ IsRecord(told)
      /\ DOMAIN told = DocumentKeys /\ told.schema_version = SchemaVersion
  <2>1. told.exit_code = d.exit_code /\ IsRecord(told) /\ DOMAIN told = DocumentKeys /\ told.schema_version = SchemaVersion
    BY DEF Render, ToldReport, IsRecord, DocumentKeys
  <2>2. IsRecord(d.scanned) /\ DOMAIN d.scanned = ScannedKeys
    BY DEF Shaped, Valid, Schema
  <2>3. IsRecord(told.scanned) /\ DOMAIN told.scanned = ScannedKeys
    BY DEF Render, IsRecord, ScannedKeys
  <2>4. d.scanned.coverage_status = StatusOf(t)
    BY DEF Valid, StatusFits, Verified, StatusOf, ToldReport
  <2>5. d.scanned.files = t.files
    BY DEF Valid, InventoryFits, ToldReport
  <2>6. /\ told.scanned.root = d.scanned.root /\ told.scanned.coverage_status = d.scanned.coverage_status
        /\ told.scanned.inventory = d.scanned.inventory
        /\ told.scanned.coverage_failures = d.scanned.coverage_failures
        /\ told.scanned.files = d.scanned.files
        /\ told.scanned.suppressed_findings = d.scanned.suppressed_findings
        /\ told.scanned.skipped = d.scanned.skipped
    BY <2>4, <2>5 DEF Render, ToldReport
  <2> HIDE DEF told
  <2>7. \A x \in ScannedKeys : told.scanned[x] = d.scanned[x]
    BY <2>6 DEF ScannedKeys
  <2>8. told.scanned = d.scanned
    BY <2>2, <2>3, <2>7, SameRecord
  <2> QED
    BY <2>1, <2>8
<1>2. /\ DOMAIN told.findings = DOMAIN d.findings
      /\ \A k \in DOMAIN d.findings : told.findings[k] = View(Own(d.findings[k]), d.scanned.root)
      /\ IsRecord(told.findings) /\ IsRecord(d.findings)
  <2>1. d.findings \in Seq(Range(d.findings))
    BY DEF Shaped, FindingsShaped
  <2>2. IsRecord(d.findings)
    BY <2>1 DEF IsRecord
  <2> QED
    BY <2>2 DEF Render, ToldReport, IsRecord
<1>3. told.counts = Tally(t.findings)
  BY DEF Render
<1>4. /\ IsRecord(told.evidence_contract) /\ DOMAIN told.evidence_contract = ContractKeys
      /\ told.evidence_contract.execution_outcome = StatusOf(t)
      /\ told.evidence_contract.parser_inventory = d.scanned.inventory
      /\ told.evidence_contract.records = [k \in DOMAIN d.findings |-> Record(t, Own(d.findings[k]))]
  BY DEF Render, Contract, ToldReport, IsRecord, ContractKeys
<1>5. /\ IsRecord(e) /\ DOMAIN e = DocumentKeys /\ e.schema_version = d.schema_version
      /\ e.scanned = d.scanned /\ e.exit_code = d.exit_code
      /\ e.evidence_contract = told.evidence_contract
      /\ e.counts = d.counts /\ e.findings = d.findings
  <2>1. CASE d.schema_version = SchemaVersion
    <3>1. e = told
      BY <2>1, RetoldIs
    <3>2. told.counts = d.counts
      BY <2>1, <1>3, ToldCounts
    <3>3. \A k \in DOMAIN d.findings : told.findings[k] = d.findings[k]
      BY <2>1, <1>2, ToldFindings
    <3>4. told.findings = d.findings
      BY <3>3, <1>2, SameRecord
    <3> HIDE DEF told, e
    <3> QED
      BY <2>1, <3>1, <3>2, <3>4, <1>1
  <2>2. CASE d.schema_version # SchemaVersion
    <3>1. e = Downgraded(told)
      BY <2>2, RetoldIs
    <3>2. d.schema_version = "0.4.0"
      BY <2>2 DEF Valid, Schema, Versions
    <3> HIDE DEF told
    <3>3. /\ IsRecord(e) /\ DOMAIN e = DocumentKeys /\ e.schema_version = "0.4.0"
          /\ e.scanned = told.scanned /\ e.exit_code = told.exit_code
          /\ e.evidence_contract = told.evidence_contract
          /\ e.counts = Without(told.counts, {"actionable", "demoted_speculative"})
          /\ e.findings = [k \in DOMAIN told.findings |-> Without(told.findings[k], {"semantic_fingerprint"})]
      BY <1>1, <3>1 DEF Downgraded, DocumentKeys, IsRecord
    <3>4. e.counts = d.counts
      BY <2>2, <3>3, <1>3, ToldCounts
    <3>5. \A k \in DOMAIN d.findings : e.findings[k] = d.findings[k]
      BY <2>2, <3>3, <1>2, ToldFindings
    <3>6. IsRecord(e.findings) /\ DOMAIN e.findings = DOMAIN d.findings
      BY <3>3, <1>2 DEF IsRecord
    <3>7. e.findings = d.findings
      BY <3>5, <3>6, <1>2, SameRecord
    <3> QED
      BY <3>2, <3>3, <3>4, <3>7, <1>1
  <2> QED
    BY <2>1, <2>2
<1> HIDE DEF told, e
<1>6. contract(d) = contract(e)
  <2>1. /\ IsRecord(d.evidence_contract) /\ DOMAIN d.evidence_contract = ContractKeys
        /\ IsRecord(records) /\ DOMAIN records = DOMAIN d.findings
    <3>1. /\ ContractShaped(d.evidence_contract)
          /\ d.findings \in Seq(Range(d.findings)) /\ records \in Seq(Range(records))
          /\ Len(records) = Len(d.findings)
      BY DEF Shaped, FindingsShaped, ContractShaped, RecordsShaped, Valid, ContractFits
    <3> HIDE DEF records
    <3>2. IsRecord(records) /\ DOMAIN records = DOMAIN d.findings
      BY <3>1 DEF IsRecord
    <3> QED
      BY <3>1, <3>2 DEF ContractShaped
  <2>2. /\ d.evidence_contract.execution_outcome = StatusOf(t)
        /\ d.evidence_contract.parser_inventory = d.scanned.inventory
    BY DEF Valid, ContractFits, Verified, StatusOf, ToldReport
  <2>3. \A k \in DOMAIN d.findings :
          Without(e.evidence_contract.records[k], Gone) = Without(records[k], Gone)
    BY <1>4, <1>5, ToldRecords
  <2>4. DOMAIN e.evidence_contract.records = DOMAIN d.findings
    BY <1>4, <1>5
  <2>5. /\ IsRecord(contract(d)) /\ DOMAIN contract(d) = ContractKeys
        /\ contract(d).execution_outcome = StatusOf(t)
        /\ contract(d).parser_inventory = d.scanned.inventory
        /\ contract(d).records = [k \in DOMAIN d.findings |-> Without(records[k], Gone)]
    BY <2>1, <2>2 DEF IsRecord, ContractKeys
  <2>6. /\ IsRecord(contract(e)) /\ DOMAIN contract(e) = ContractKeys
        /\ contract(e).execution_outcome = StatusOf(t)
        /\ contract(e).parser_inventory = d.scanned.inventory
        /\ contract(e).records =
             [k \in DOMAIN d.findings |-> Without(e.evidence_contract.records[k], Gone)]
    BY <1>4, <1>5, <2>4 DEF IsRecord, ContractKeys
  <2> HIDE DEF contract, records, t
  <2>7. contract(d).records = contract(e).records
    BY <2>3, <2>5, <2>6
  <2>8. \A x \in ContractKeys : contract(d)[x] = contract(e)[x]
    BY <2>5, <2>6, <2>7 DEF ContractKeys
  <2> QED
    BY <2>5, <2>6, <2>8, SameRecord
<1>7. IsRecord(d) /\ DOMAIN d = DocumentKeys
  BY DEF Shaped
<1>8. /\ Bare(d) = [d EXCEPT !.evidence_contract = contract(d)]
      /\ Bare(e) = [e EXCEPT !.evidence_contract = contract(e)]
  BY DEF Bare, Gone
<1> HIDE DEF contract
<1>9. Bare(d) = Bare(e)
  <2> DEFINE b == [d EXCEPT !.evidence_contract = contract(d)]
             c == [e EXCEPT !.evidence_contract = contract(e)]
  <2>1. /\ IsRecord(b) /\ DOMAIN b = DocumentKeys
        /\ b.evidence_contract = contract(d) /\ b.schema_version = d.schema_version
        /\ b.exit_code = d.exit_code /\ b.scanned = d.scanned /\ b.counts = d.counts
        /\ b.findings = d.findings
    BY <1>7 DEF IsRecord, DocumentKeys
  <2>2. /\ IsRecord(c) /\ DOMAIN c = DocumentKeys
        /\ c.evidence_contract = contract(e) /\ c.schema_version = e.schema_version
        /\ c.exit_code = e.exit_code /\ c.scanned = e.scanned /\ c.counts = e.counts
        /\ c.findings = e.findings
    BY <1>5 DEF IsRecord, DocumentKeys
  <2> HIDE DEF b, c
  <2>3. \A x \in DocumentKeys : b[x] = c[x]
    BY <2>1, <2>2, <1>5, <1>6 DEF DocumentKeys
  <2>4. b = c
    BY <2>1, <2>2, <2>3, SameRecord
  <2> QED
    BY <2>4, <1>8 DEF b, c
<1> QED
  BY <1>9 DEF e

-----------------------------------------------------------------------------
\* What is printed, and edited since, has the shape.
DocumentInv ==
  /\ phase = "printed" => Shaped(document)
  /\ edits # 0 => phase = "printed"

LEMMA PrintedShape ==
  ASSUME Inv, Collected
  PROVE  Shaped(Render(ScanReport))
<1> DEFINE report0 == ScanReport
           d == Render(report0)
           shown == Shown(findings)
<1>1. shown \in Seq(Findings(job, AllRaised)) /\ DOMAIN shown = 1..Len(shown) /\ Len(shown) \in Nat
  BY ShownFacts
<1>2. report0.findings = shown
  BY DEF ScanReport
<1> HIDE DEF report0, shown
<1>3. /\ IsRecord(d) /\ DOMAIN d = DocumentKeys /\ IsRecord(d.scanned) /\ IsRecord(d.counts)
      /\ IsRecord(d.evidence_contract) /\ DOMAIN d.evidence_contract = ContractKeys
  BY DEF Render, IsRecord, DocumentKeys, Tally, Contract, ContractKeys
<1>4. FindingsShaped(d.findings)
  <2>1. d.findings = [k \in 1..Len(shown) |-> View(shown[k], report0.root)]
    BY <1>1, <1>2 DEF Render
  <2>2. \A k \in DOMAIN d.findings : IsRecord(d.findings[k])
    BY <2>1 DEF View, IsRecord
  <2>3. d.findings \in Seq(Range(d.findings))
    BY <1>1, <2>1, OwnList
  <2> QED
    BY <2>2, <2>3 DEF FindingsShaped
<1>5. RecordsShaped(d.evidence_contract.records)
  <2> DEFINE s == d.evidence_contract.records
  <2>1. s = [k \in 1..Len(shown) |-> Record(report0, shown[k])]
    BY <1>1, <1>2 DEF Render, Contract
  <2> HIDE DEF s
  <2>2. \A k \in DOMAIN s : IsRecord(s[k]) /\ DOMAIN s[k] = RecordKeys
    BY <2>1 DEF Record, IsRecord, RecordKeys
  <2>3. s \in Seq(Range(s))
    BY <1>1, <2>1, OwnList
  <2>4. RecordsShaped(s)
    BY <2>2, <2>3 DEF RecordsShaped
  <2> QED
    BY <2>4 DEF s
<1> HIDE DEF d
<1>6. Shaped(d)
  BY <1>3, <1>4, <1>5 DEF Shaped, ContractShaped
<1> QED
  BY <1>6 DEF d, report0

LEMMA DocumentStays ==
  ASSUME Inv, DocumentInv, [Next]_vars
  PROVE  DocumentInv'
<1>1. CASE Gather
  <2>1. UNCHANGED <<document, edits>>
    BY <1>1 DEF Gather, reportVars
  <2>2. phase # "printed" /\ phase' # "printed"
    BY <1>1 DEF Gather, CollectNext, Tick, Compile, Judge, Finish, Open
  <2> QED
    BY <2>1, <2>2 DEF DocumentInv
<1>2. CASE Conclude
  <2>1. phase = "collected" /\ phase' = "printed" /\ document' = Render(ScanReport) /\ edits' = edits
    BY <1>2 DEF Conclude
  <2>2. Shaped(Render(ScanReport))
    BY <2>1, PrintedShape DEF Collected
  <2> QED
    BY <2>1, <2>2 DEF DocumentInv
<1>3. CASE Rescan
  BY <1>3 DEF Rescan, DocumentInv
<1>4. CASE Edit
  <2>1. phase = "printed" /\ phase' = "printed" /\ document' \in Edited(document)
    BY <1>4 DEF Edit, collectVars
  <2>2. Shaped(document)'
    BY <2>1, EditsKeepShape DEF DocumentInv
  <2> QED
    BY <2>1, <2>2 DEF DocumentInv
<1>5. CASE UNCHANGED vars
  BY <1>5 DEF vars, collectVars, reportVars, DocumentInv
<1> QED
  BY <1>1, <1>2, <1>3, <1>4, <1>5 DEF Next

(* Whatever was edited in a report, and however often, validate-report     *)
(* accepts it only if it is the report that the tool prints for the        *)
(* findings and the inventory in it.                                       *)
THEOREM EditsAreRefusedCorrect == Spec => []EditsAreRefused
<1>1. Init => DocumentInv
  BY DEF Init, CollectInit, CollectStart, DocumentInv
<1>2. Inv /\ DocumentInv /\ [Next]_vars => DocumentInv'
  BY DocumentStays
<1>3. DocumentInv => EditsAreRefused
  <2> SUFFICES ASSUME DocumentInv, edits > 0, Valid(document)
               PROVE  Bare(document) = Bare(Retold(document))
    BY DEF EditsAreRefused
  <2>1. Shaped(document)
    BY DEF DocumentInv
  <2> QED
    BY <2>1, AcceptedIsPrinted
<1> QED
  BY <1>1, <1>2, <1>3, GatheredIsRaised, PTL DEF Spec
=============================================================================
