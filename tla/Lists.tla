-------------------------------- MODULE Lists -------------------------------
(***************************************************************************)
(* What Rust's Vec does to findings and entries: retain, dedup, a stable   *)
(* sort, counting.  Each is said of the positions that are left and of an  *)
(* order of them, a set of pairs, so that it can be reasoned about with    *)
(* the cardinality of sets.  And HashMap::insert.                          *)
(***************************************************************************)
EXTENDS Naturals, Sequences, FiniteSets

Ahead(R, K, k) == {j \in K : <<j, k>> \in R}

\* The elements of seq at the positions K, in the order R.
Arranged(seq, K, R) ==
  [n \in 1..Cardinality(K) |-> seq[CHOOSE k \in K : Cardinality(Ahead(R, K, k)) + 1 = n]]

At(seq, K) == Arranged(seq, K, {p \in K \X K : p[1] < p[2]})

Retain(seq, test(_)) == At(seq, {k \in DOMAIN seq : test(seq[k])})
Count(seq, test(_))  == Cardinality({k \in DOMAIN seq : test(seq[k])})

\* Equal elements stay in their order.
Sorted(seq, before(_, _)) ==
  LET K == 1..Len(seq)
  IN Arranged(seq, K, {p \in K \X K : \/ before(seq[p[1]], seq[p[2]])
                                      \/ ~before(seq[p[2]], seq[p[1]]) /\ p[1] < p[2]})

\* What equals its neighbour is removed.
Dedup(seq, same(_, _)) == At(seq, {k \in DOMAIN seq : k = 1 \/ ~same(seq[k], seq[k-1])})

Insert(map, key, value) ==
  [k \in DOMAIN map \cup {key} |-> IF k = key THEN value ELSE map[k]]
=============================================================================
