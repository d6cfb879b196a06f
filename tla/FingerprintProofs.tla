--------------------------- MODULE FingerprintProofs ------------------------
(***************************************************************************)
(* That fingerprints survive a rescan of moved sources with a blank line   *)
(* more.  A job gives an account of what the rules raise in it (Account),  *)
(* in which nothing is left of where the sources are and of how many       *)
(* lines precede a finding: the moved job gives the same (AccountStays).   *)
(* And the account, with what was hidden, determines the fingerprints of a *)
(* printed report (Expected): which are printed, in which order, and how   *)
(* each is numbered, whatever the order of the walk.                       *)
(*                                                                         *)
(* And that SARIF shows the findings: a position in a text, read back as   *)
(* an editor does, is the boundary it was counted from.                    *)
(***************************************************************************)
EXTENDS ReportProofs

-----------------------------------------------------------------------------
\* What a job's rules raise, without places.

AnalysedOf(j) == {f \in j.files : f.outcome = "analysed"}
AllOf(j)      == RaisedIn(j, AnalysedOf(j))

\* The text of t's file, and the snippet of t.
TextIn(j, t) == Decode(FileIn(j, t[1]).artifact)
Snip(j, t)   == Folded(SubSeq(TextIn(j, t), RawOf(j, t).from + 1, RawOf(j, t).to))

\* Which finding t is: the file and the rule, and its number among theirs.
Mark(j, t) == <<<<RankIn(j, t[1]), t[2]>>, t[3]>>

Entry(j, t) ==
  [mark |-> Mark(j, t), path |-> RelativePath(t[1], j.root), snip |-> Snip(j, t),
   guess |-> j.noSpeculative /\ RawOf(j, t).tier = "T3"]

\* What the report's order has first, and what it takes for copies.
Comes(j, t, u) ==
  \/ RankIn(j, t[1]) < RankIn(j, u[1])
  \/ /\ t[1] = u[1]
     /\ \/ RawOf(j, t).from < RawOf(j, u).from
        \/ /\ RawOf(j, t).from = RawOf(j, u).from
           /\ t[2] < u[2] \/ (t[2] = u[2] /\ t[3] < u[3])

Alike(j, t, u) ==
  t[1] = u[1] /\ t[2] = u[2] /\ RawOf(j, t).from = RawOf(j, u).from /\ RawOf(j, t).to = RawOf(j, u).to

Account(j) ==
  [entries |-> {Entry(j, t) : t \in AllOf(j)},
   comes   |-> {<<Entry(j, p[1]), Entry(j, p[2])>> : p \in {p \in AllOf(j) \X AllOf(j) : Comes(j, p[1], p[2])}},
   alike   |-> {<<Entry(j, p[1]), Entry(j, p[2])>> : p \in {p \in AllOf(j) \X AllOf(j) : Alike(j, p[1], p[2])}}]

\* The copies of an entry are one finding.  It is numbered when the last copy that
\* is kept is judged, among the kept of its file and rule with its snippet.
Kept(a, hid)        == {x \in a.entries : x.mark \notin hid}
CopiesOf(a, x)      == {y \in a.entries : <<x, y>> \in a.alike}
Listed(a, hid)      == {CopiesOf(a, x) : x \in {x \in Kept(a, hid) : ~x.guess}}
Earlier(a, hid, C, x) ==
  {y \in Kept(a, hid) : /\ y.mark[1] = x.mark[1] /\ y.snip = x.snip
                        /\ \E z \in C \cap Kept(a, hid) : y.mark[2] < z.mark[2]}
FingerprintFor(a, hid, C) ==
  LET x == CHOOSE x \in C : TRUE
  IN <<"pons-fingerprint-v1", x.mark[1][2], x.path, <<x.snip, Cardinality(Earlier(a, hid, C, x))>>>>

ListOrder(a, hid) ==
  {p \in Listed(a, hid) \X Listed(a, hid) :
     p[1] # p[2] /\ \E x \in p[1], y \in p[2] : <<x, y>> \in a.comes}

Expected(a, hid) ==
  Arranged([C \in Listed(a, hid) |-> FingerprintFor(a, hid, C)], Listed(a, hid), ListOrder(a, hid))

-----------------------------------------------------------------------------
\* How the anchors were numbered, so far.

SnipOf(j, f) == Folded(Slice(Decode(FileIn(j, f.location.file).artifact), f.location.byte_start, f.location.byte_end))
PrintKey(j, f) == <<f.rule_id, f.location.file, SnipOf(j, f)>>

Sharing(j, ju, key) == {i \in KeptAt(ju) : PrintKey(j, ju[i].finding) = key}
Preceding(j, ju, f) ==
  {i \in Sharing(j, ju, PrintKey(j, f)) :
     \E m \in KeptAt(ju) : SpanKey(ju[m].finding) = SpanKey(f) /\ i < m}

SeenIn(oc, key) == IF key \in DOMAIN oc THEN oc[key] ELSE 0

NumberedAnchors(j, ju, an) ==
  \A n \in KeptAt(ju) :
    LET f == ju[n].finding IN
    SpanKey(f) \in DOMAIN an /\ an[SpanKey(f)] = <<SnipOf(j, f), Cardinality(Preceding(j, ju, f))>>

CountedSnippets(j, ju, oc) == \A key : SeenIn(oc, key) = Cardinality(Sharing(j, ju, key))

\* The inductive invariant, besides what was gathered (Inv).
PrintsInv ==
  /\ CountedSnippets(job, judged, occurrences)
  /\ NumberedAnchors(job, judged, anchors)
  /\ Collected => \E g : Ordered(job, RaisedIn(job, ReadFiles), findings, g)
  /\ earlier # None => earlier.fingerprints = Expected(Account(job), earlier.hid)

-----------------------------------------------------------------------------
\* Positions that keep their order.

InRow(at, n, K, R) ==
  /\ n \in Nat /\ at \in [1..n -> K]
  /\ \A k \in K : \E i \in 1..n : at[i] = k
  /\ \A i, k \in 1..n : i < k => <<at[i], at[k]>> \in R /\ <<at[k], at[i]>> \notin R
  /\ \A k \in K : <<k, k>> \notin R

\* What is in a row is arranged as it is.
LEMMA ArrangedIs ==
  ASSUME NEW K, NEW R, NEW n, NEW at, InRow(at, n, K, R), NEW seq
  PROVE  /\ IsFiniteSet(K) /\ Cardinality(K) = n
         /\ Arranged(seq, K, R) = [i \in 1..n |-> seq[at[i]]]
<1>1. /\ n \in Nat /\ at \in [1..n -> K]
      /\ \A k \in K : \E i \in 1..n : at[i] = k
      /\ \A i, k \in 1..n : i < k => <<at[i], at[k]>> \in R /\ <<at[k], at[i]>> \notin R
      /\ \A k \in K : <<k, k>> \notin R
  BY DEF InRow
<1>2. ASSUME NEW i \in 1..n, NEW k \in 1..n
      PROVE  (at[i] = at[k] => i = k) /\ (<<at[i], at[k]>> \in R <=> i < k)
  <2>1. at[i] \in K /\ at[k] \in K
    BY <1>1
  <2>2. i < k \/ i = k \/ k < i
    BY <1>1
  <2>3. i < k => ~(k < i)
    BY <1>1
  <2> QED
    BY <1>1, <2>1, <2>2, <2>3
<1>3. IsFiniteSet(K) /\ Cardinality(K) = n
  <2>1. IsFiniteSet(1..n) /\ Cardinality(1..n) = n
    BY <1>1, UpToCount
  <2>2. \A i, k \in 1..n : at[i] = at[k] => i = k
    BY <1>2
  <2> QED
    BY <1>1, <2>1, <2>2, SameNumber
<1>4. ASSUME NEW i \in 1..n
      PROVE  Cardinality(Ahead(R, K, at[i])) = i - 1
  <2> DEFINE A == Ahead(R, K, at[i])
             g == [k \in 1..(i - 1) |-> at[k]]
  <2>1. i - 1 \in Nat /\ 1..(i - 1) \subseteq 1..n /\ \A k \in 1..n : k \in 1..(i - 1) <=> k < i
    BY <1>1
  <2>2. \A k \in 1..(i - 1) : g[k] \in A
    BY <1>1, <1>2, <2>1 DEF Ahead
  <2>3. \A a \in A : \E k \in 1..(i - 1) : g[k] = a
    <3> SUFFICES ASSUME NEW a \in A PROVE \E k \in 1..(i - 1) : g[k] = a
      OBVIOUS
    <3>1. a \in K /\ <<a, at[i]>> \in R
      BY DEF Ahead
    <3>2. PICK k \in 1..n : at[k] = a
      BY <1>1, <3>1
    <3>3. k < i
      BY <1>2, <3>1, <3>2
    <3>4. k \in 1..(i - 1)
      BY <2>1, <3>3
    <3> QED
      BY <3>2, <3>4
  <2>4. \A k, l \in 1..(i - 1) : g[k] = g[l] => k = l
    BY <1>2, <2>1
  <2>5. IsFiniteSet(1..(i - 1)) /\ Cardinality(1..(i - 1)) = i - 1
    BY <2>1, UpToCount
  <2>6. g \in [1..(i - 1) -> A]
    BY <2>2
  <2> HIDE DEF g, A
  <2>7. Cardinality(A) = i - 1
    BY <2>3, <2>4, <2>5, <2>6, SameNumber
  <2> QED
    BY <2>7 DEF A
<1>5. ASSUME NEW i \in 1..n
      PROVE  (CHOOSE k \in K : Cardinality(Ahead(R, K, k)) + 1 = i) = at[i]
  <2>1. at[i] \in K /\ Cardinality(Ahead(R, K, at[i])) + 1 = i
    BY <1>1, <1>4
  <2>2. \A k \in K : Cardinality(Ahead(R, K, k)) + 1 = i => k = at[i]
    <3> SUFFICES ASSUME NEW k \in K, Cardinality(Ahead(R, K, k)) + 1 = i PROVE k = at[i]
      OBVIOUS
    <3>1. PICK m \in 1..n : at[m] = k
      BY <1>1
    <3>2. Cardinality(Ahead(R, K, k)) = m - 1
      BY <1>4, <3>1
    <3>3. m = i
      BY <1>1, <3>2
    <3> QED
      BY <3>1, <3>3
  <2> QED
    BY <2>1, <2>2
<1>6. Arranged(seq, K, R) = [i \in 1..n |-> seq[CHOOSE k \in K : Cardinality(Ahead(R, K, k)) + 1 = i]]
  BY <1>3, Zenon DEF Arranged
<1>7. [i \in 1..n |-> seq[CHOOSE k \in K : Cardinality(Ahead(R, K, k)) + 1 = i]] = [i \in 1..n |-> seq[at[i]]]
  <2> DEFINE pick(i) == CHOOSE k \in K : Cardinality(Ahead(R, K, k)) + 1 = i
  <2>1. \A i \in 1..n : pick(i) = at[i]
    BY <1>5
  <2> HIDE DEF pick
  <2>2. [i \in 1..n |-> seq[pick(i)]] = [i \in 1..n |-> seq[at[i]]]
    BY <2>1
  <2> QED
    BY <2>2 DEF pick
<1> QED
  BY <1>3, <1>6, <1>7

\* Elements at positions that rise with others are the same list.
Rises(f, m, K, n, L, a, b) ==
  /\ m \in Nat /\ n \in Nat /\ K \in SUBSET (1..m) /\ L \in SUBSET (1..n)
  /\ f \in [K -> L] /\ \A l \in L : \E k \in K : f[k] = l
  /\ \A i, k \in K : i < k => f[i] < f[k]
  /\ \A k \in K : b[f[k]] = a[k]

LEMMA AtMoves ==
  ASSUME NEW m, NEW n, NEW K, NEW L, NEW f, NEW a, NEW b, Rises(f, m, K, n, L, a, b)
  PROVE  At(b, L) = At(a, K)
<1> DEFINE R == {p \in K \X K : p[1] < p[2]}
           S == {p \in L \X L : p[1] < p[2]}
           c == Cardinality(K)
<1>0. m \in Nat /\ n \in Nat /\ K \in SUBSET (1..m) /\ L \in SUBSET (1..n)
  BY DEF Rises
<1>1. PICK at : Picks(at, a, K, R, At(a, K)) /\ \A i, j \in 1..c : i < j <=> at[i] < at[j]
  BY <1>0, AtPicks
<1>2. /\ c \in Nat /\ at \in [1..c -> K]
      /\ \A k \in K : \E i \in 1..c : at[i] = k
      /\ At(a, K) = [i \in 1..c |-> a[at[i]]]
  BY <1>1 DEF Picks
<1> HIDE DEF c
<1>3. /\ f \in [K -> L] /\ \A l \in L : \E k \in K : f[k] = l
      /\ \A i, k \in K : i < k => f[i] < f[k]
      /\ \A k \in K : b[f[k]] = a[k]
  BY DEF Rises
<1> DEFINE to == [i \in 1..c |-> f[at[i]]]
<1>4. to \in [1..c -> L] /\ \A i \in 1..c : to[i] = f[at[i]]
  BY <1>2, <1>3
<1>5. \A l \in L : \E i \in 1..c : to[i] = l
  BY <1>2, <1>3, <1>4
<1>6. ASSUME NEW i \in 1..c, NEW k \in 1..c, i < k
      PROVE  <<to[i], to[k]>> \in S /\ <<to[k], to[i]>> \notin S
  <2>1. at[i] \in K /\ at[k] \in K /\ at[i] < at[k]
    BY <1>1, <1>2, <1>6
  <2>2. to[i] = f[at[i]] /\ to[k] = f[at[k]] /\ to[i] \in L /\ to[k] \in L
    BY <1>4
  <2>3. f[at[i]] < f[at[k]]
    BY <1>3, <2>1
  <2> HIDE DEF to
  <2>4. to[i] < to[k]
    BY <2>2, <2>3, Zenon
  <2>5. \A l \in L : l \in Nat
    BY <1>0
  <2>6. to[i] \in Nat /\ to[k] \in Nat
    BY <2>2, <2>5
  <2> QED
    BY <2>2, <2>4, <2>6
<1> HIDE DEF to
<1>7. \A l \in L : <<l, l>> \notin S
  BY <1>0
<1>8. InRow(to, c, L, S)
  BY <1>2, <1>4, <1>5, <1>6, <1>7 DEF InRow
<1>9. Arranged(b, L, S) = [i \in 1..c |-> b[to[i]]]
  <2> HIDE DEF S
  <2> QED
    BY <1>8, ArrangedIs
<1>10. At(b, L) = [i \in 1..c |-> b[to[i]]]
  BY <1>9 DEF At
<1>11. \A i \in 1..c : b[to[i]] = a[at[i]]
  BY <1>2, <1>3, <1>4
<1> QED
  BY <1>2, <1>10, <1>11

-----------------------------------------------------------------------------
\* A snippet folds to the same, whatever blank lines are put between its lines.

Ink(text)       == {k \in DOMAIN text : text[k] \notin Blanks}
Begins(text, k) == k - 1 \notin Ink(text) /\ \E i \in Ink(text) : i < k
Inked(text)     == [k \in DOMAIN text |-> <<text[k], Begins(text, k)>>]

\* The form of it that is reasoned about.
LEMMA FoldedIs == \A text : Folded(text) = At(Inked(text), Ink(text))
  BY Zenon DEF Folded, Inked, Begins, Ink

\* A newline at the end of a line is one blank more among blanks.
LEMMA FoldedGains ==
  ASSUME NEW X, NEW x \in Seq(X), NEW q \in 1..Len(x), x[q] = Newline,
         NEW y \in Seq(X \cup {Newline}), Gains(x, q, y)
  PROVE  Folded(y) = Folded(x)
<1> DEFINE n == Len(x)
           K == Ink(x)
           L == Ink(y)
           up(k) == IF k <= q THEN k ELSE k + 1
           f == [k \in K |-> up(k)]
<1>1. /\ n \in Nat /\ Len(y) = n + 1 /\ DOMAIN x = 1..n /\ DOMAIN y = 1..(n + 1) /\ q \in Nat
      /\ \A k \in 1..q : y[k] = x[k]
      /\ y[q + 1] = Newline /\ \A k \in (q + 1)..n : y[k + 1] = x[k]
  BY DEF Gains
<1>2. Newline \in Blanks
  BY DEF Blanks
<1>3. \A k \in 1..n : up(k) \in 1..(n + 1) /\ up(k) # q + 1 /\ y[up(k)] = x[k]
  BY <1>1
<1>4. \A l \in 1..(n + 1) : l = q + 1 \/ \E k \in 1..n : up(k) = l
  <2> SUFFICES ASSUME NEW l \in 1..(n + 1), l # q + 1 PROVE \E k \in 1..n : up(k) = l
    OBVIOUS
  <2>1. CASE l <= q
    <3>1. l \in 1..n /\ up(l) = l
      BY <1>1, <2>1
    <3> QED
      BY <3>1
  <2>2. CASE l > q + 1
    <3>1. l - 1 \in 1..n /\ up(l - 1) = l
      BY <1>1, <2>2
    <3> QED
      BY <3>1
  <2> QED
    BY <1>1, <2>1, <2>2
<1>5. \A i, k \in 1..n : i < k <=> up(i) < up(k)
  BY <1>1
<1>6. q \notin K /\ q + 1 \notin L
  BY <1>1, <1>2 DEF Ink
<1>7. K \subseteq 1..n /\ L \subseteq 1..(n + 1) /\ \A k \in 1..n : k \in K <=> up(k) \in L
  <2>1. \A k : k \in K <=> k \in 1..n /\ x[k] \notin Blanks
    BY <1>1 DEF Ink
  <2>2. \A k : k \in L <=> k \in 1..(n + 1) /\ y[k] \notin Blanks
    BY <1>1 DEF Ink
  <2> HIDE DEF K, L, up
  <2> QED
    BY <1>3, <2>1, <2>2
<1>8. \A l \in L : \E k \in K : up(k) = l
  <2> HIDE DEF K, L, up
  <2> QED
    BY <1>4, <1>6, <1>7
<1>9. ASSUME NEW k \in K
      PROVE  Begins(y, up(k)) <=> Begins(x, k)
  <2>0. k \in 1..n
    BY <1>7
  <2>1. (\E i \in K : i < k) <=> \E i \in L : i < up(k)
    <3>1. ASSUME NEW i \in K, i < k PROVE \E l \in L : l < up(k)
      <4>1. up(i) \in L /\ up(i) < up(k)
        BY <1>5, <1>7, <2>0, <3>1
      <4> QED
        BY <4>1
    <3>2. ASSUME NEW l \in L, l < up(k) PROVE \E i \in K : i < k
      <4>1. PICK i \in K : up(i) = l
        BY <1>8
      <4>2. i < k
        BY <1>5, <1>7, <2>0, <3>2, <4>1
      <4> QED
        BY <4>2
    <3> QED
      BY <3>1, <3>2
  <2>2. k - 1 \in K <=> up(k) - 1 \in L
    <3>1. CASE k - 1 \in 1..n /\ k # q + 1
      <4>1. up(k) - 1 = up(k - 1)
        BY <1>1, <2>0, <3>1
      <4> HIDE DEF up, K, L
      <4> QED
        BY <1>7, <3>1, <4>1
    <3>2. CASE k = q + 1
      <4>1. k - 1 = q /\ up(k) - 1 = q + 1
        BY <1>1, <3>2
      <4> HIDE DEF up, K, L
      <4> QED
        BY <1>6, <4>1
    <3>3. CASE k = 1
      <4>1. up(k) - 1 = 0 /\ k - 1 = 0
        BY <1>1, <3>3
      <4>2. 0 \notin 1..n /\ 0 \notin 1..(n + 1)
        BY <1>1
      <4> HIDE DEF up, K, L
      <4> QED
        BY <1>7, <4>1, <4>2
    <3> QED
      BY <1>1, <2>0, <3>1, <3>2, <3>3
  <2> HIDE DEF up
  <2> QED
    BY <2>1, <2>2 DEF Begins
<1>10. \A k \in K : Inked(y)[f[k]] = Inked(x)[k]
  <2> SUFFICES ASSUME NEW k \in K PROVE Inked(y)[f[k]] = Inked(x)[k]
    OBVIOUS
  <2>1. k \in 1..n /\ f[k] = up(k) /\ up(k) \in 1..(n + 1) /\ y[up(k)] = x[k]
    BY <1>3, <1>7
  <2>2. Begins(y, up(k)) <=> Begins(x, k)
    BY <1>9
  <2>3. Begins(y, up(k)) = Begins(x, k)
    BY <2>2 DEF Begins
  <2>4. Inked(y)[up(k)] = <<y[up(k)], Begins(y, up(k))>>
    BY <1>1, <2>1 DEF Inked
  <2>5. Inked(x)[k] = <<x[k], Begins(x, k)>>
    BY <1>1, <2>1 DEF Inked
  <2> HIDE DEF up, f, K
  <2> QED
    BY <2>1, <2>3, <2>4, <2>5, Zenon
<1>11. Rises(f, n, K, n + 1, L, Inked(x), Inked(y))
  <2>1. \A k \in K : f[k] = up(k) /\ k \in 1..n /\ up(k) \in L
    BY <1>7
  <2>2. f \in [K -> L]
    BY <2>1
  <2>3. \A i, k \in K : i < k => f[i] < f[k]
    BY <1>5, <2>1
  <2>4. \A l \in L : \E k \in K : f[k] = l
    BY <1>8, <2>1
  <2>5. n \in Nat /\ n + 1 \in Nat /\ K \in SUBSET (1..n) /\ L \in SUBSET (1..(n + 1))
    BY <1>1, <1>7
  <2> HIDE DEF f, K, L, n
  <2> QED
    BY <1>10, <2>2, <2>3, <2>4, <2>5 DEF Rises
<1>12. At(Inked(y), L) = At(Inked(x), K)
  <2> HIDE DEF f, K, L, n
  <2> QED
    BY <1>11, AtMoves
<1> QED
  BY <1>12, FoldedIs

LEMMA SameList ==
  ASSUME NEW X, NEW s \in Seq(X), NEW t \in Seq(X), Len(s) = Len(t), \A i \in 1..Len(t) : s[i] = t[i]
  PROVE  s = t
OBVIOUS

\* What SubSeq gives.
LEMMA PartIs ==
  ASSUME NEW X, NEW s \in Seq(X), NEW i \in Nat, NEW k \in Nat, i <= k, k <= Len(s)
  PROVE  LET r == SubSeq(s, i + 1, k) IN
         r \in Seq(X) /\ Len(r) = k - i /\ \A m \in 1..(k - i) : r[m] = s[i + m]
<1>1. Len(s) \in Nat /\ i + 1 \in 1..(Len(s) + 1) /\ k \in i..Len(s)
  OBVIOUS
<1> DEFINE r == SubSeq(s, i + 1, k)
<1>2. r \in Seq(X) /\ Len(r) = k - i /\ \A m \in 1..(k - i) : r[m] = s[i + m]
  BY <1>1
<1> QED
  BY <1>2

\* The snippet of what a rule raised, a line further on.
LEMMA SnippetStays ==
  ASSUME NEW X, NEW t \in Seq(X), NEW q \in Nat, NEW new \in Seq(X \cup {Newline}), Gains(t, q, new),
         q = 0 \/ t[q] = Newline,
         NEW from \in Nat, NEW to \in Nat, from < to, to <= Len(t)
  PROVE  Folded(SubSeq(new, Shift(q, from) + 1, Shift(q, to - 1) + 1)) = Folded(SubSeq(t, from + 1, to))
<1> DEFINE x == SubSeq(t, from + 1, to)
           a == Shift(q, from)
           b == Shift(q, to - 1) + 1
           y == SubSeq(new, a + 1, b)
           Y == X \cup {Newline}
<1>1. /\ Len(t) \in Nat /\ Len(new) = Len(t) + 1 /\ q <= Len(t)
      /\ \A k \in 1..q : new[k] = t[k]
      /\ new[q + 1] = Newline
      /\ \A k \in (q + 1)..Len(t) : new[k + 1] = t[k]
  BY DEF Gains
<1>2. a \in Nat /\ b \in Nat /\ a <= b /\ b <= Len(new)
  BY <1>1 DEF Shift
<1>3. x \in Seq(X) /\ Len(x) = to - from /\ \A m \in 1..(to - from) : x[m] = t[from + m]
  BY PartIs
<1>4. y \in Seq(Y) /\ Len(y) = b - a /\ \A m \in 1..(b - a) : y[m] = new[a + m]
  <2> HIDE DEF a, b, Y
  <2>1. new \in Seq(Y)
    BY DEF Y
  <2> QED
    BY <1>2, <2>1, PartIs
<1>5. ASSUME q <= from \/ to <= q PROVE Folded(y) = Folded(x)
  <2>1. b - a = to - from
    BY <1>5 DEF Shift
  <2>2. ASSUME NEW m \in 1..(to - from)
        PROVE  y[m] = x[m]
    <3>1. y[m] = new[a + m] /\ x[m] = t[from + m]
      BY <1>3, <1>4, <2>1
    <3>2. CASE q <= from
      <4>1. a = from + 1 /\ a + m = (from + m) + 1 /\ from + m \in (q + 1)..Len(t)
        BY <3>2 DEF Shift
      <4> QED
        BY <1>1, <3>1, <4>1
    <3>3. CASE to <= q
      <4>1. a = from /\ from + m \in 1..q
        BY <3>3 DEF Shift
      <4> QED
        BY <1>1, <3>1, <4>1
    <3> QED
      BY <1>5, <3>2, <3>3
  <2>3. x \in Seq(Y)
    <3> HIDE DEF x
    <3> QED
      BY <1>3
  <2>4. y = x
    <3> HIDE DEF x, y, a, b
    <3>1. Len(y) = Len(x) /\ \A m \in 1..Len(x) : y[m] = x[m]
      BY <1>3, <1>4, <2>1, <2>2
    <3> QED
      BY <1>4, <2>3, <3>1, SameList
  <2> HIDE DEF x, y
  <2> QED
    BY <2>4
<1>6. ASSUME from < q /\ q < to PROVE Folded(y) = Folded(x)
  <2> DEFINE p == q - from
  <2>1. a = from /\ b = to + 1 /\ p \in 1..(to - from) /\ p \in Nat /\ q # 0
    BY <1>6 DEF Shift
  <2>2. x[p] = Newline
    <3>1. from + p = q
      BY <2>1
    <3> QED
      BY <1>3, <2>1, <3>1
  <2>3. Len(y) = Len(x) + 1 /\ p \in 0..Len(x) /\ p \in 1..Len(x)
    BY <1>3, <1>4, <2>1
  <2>4. \A m \in 1..p : y[m] = x[m]
    <3> SUFFICES ASSUME NEW m \in 1..p PROVE y[m] = x[m]
      OBVIOUS
    <3>1. m \in 1..(to - from) /\ m \in 1..(b - a) /\ from + m \in 1..q
      BY <1>6, <2>1
    <3> QED
      BY <1>1, <1>3, <1>4, <2>1, <3>1
  <2>5. y[p + 1] = Newline
    <3>1. p + 1 \in 1..(b - a) /\ a + (p + 1) = q + 1
      BY <1>6, <2>1
    <3>2. y[p + 1] = new[a + (p + 1)]
      BY <1>4, <3>1
    <3>3. y[p + 1] = new[q + 1]
      BY <3>1, <3>2
    <3> HIDE DEF y, p
    <3> QED
      BY <1>1, <3>3
  <2>6. \A m \in (p + 1)..Len(x) : y[m + 1] = x[m]
    <3> SUFFICES ASSUME NEW m \in (p + 1)..Len(x) PROVE y[m + 1] = x[m]
      OBVIOUS
    <3>1. /\ m \in 1..(to - from) /\ m + 1 \in 1..(b - a) /\ from + m \in (q + 1)..Len(t)
          /\ a + (m + 1) = (from + m) + 1
      BY <1>3, <1>6, <2>1
    <3>2. y[m + 1] = new[a + (m + 1)]
      BY <1>4, <3>1
    <3>3. y[m + 1] = new[(from + m) + 1]
      BY <3>1, <3>2
    <3> QED
      BY <1>1, <1>3, <3>1, <3>3
  <2> HIDE DEF x, y, a, b, p
  <2>7. Gains(x, p, y)
    BY <2>3, <2>4, <2>5, <2>6 DEF Gains
  <2>8. x \in Seq(X) /\ y \in Seq(X \cup {Newline}) /\ p \in 1..Len(x)
    BY <1>3, <1>4, <2>3 DEF Y
  <2> QED
    BY ONLY <2>2, <2>7, <2>8, FoldedGains
<1>7. (q <= from \/ to <= q) \/ (from < q /\ q < to)
  OBVIOUS
<1>8. Folded(y) = Folded(x)
  <2> HIDE DEF x, y
  <2> QED
    BY <1>5, <1>6, <1>7
<1> QED
  BY <1>8

-----------------------------------------------------------------------------
\* Entries, and the order of what is raised.

\* The pairs of an account.
LEMMA AccountIs ==
  ASSUME NEW j
  PROVE  /\ Account(j).entries = {Entry(j, t) : t \in AllOf(j)}
         /\ \A x, y : <<x, y>> \in Account(j).comes <=>
              \E t, u \in AllOf(j) : x = Entry(j, t) /\ y = Entry(j, u) /\ Comes(j, t, u)
         /\ \A x, y : <<x, y>> \in Account(j).alike <=>
              \E t, u \in AllOf(j) : x = Entry(j, t) /\ y = Entry(j, u) /\ Alike(j, t, u)
<1> DEFINE C == {<<Entry(j, p[1]), Entry(j, p[2])>> : p \in {p \in AllOf(j) \X AllOf(j) : Comes(j, p[1], p[2])}}
           L == {<<Entry(j, p[1]), Entry(j, p[2])>> : p \in {p \in AllOf(j) \X AllOf(j) : Alike(j, p[1], p[2])}}
<1>1. /\ Account(j).entries = {Entry(j, t) : t \in AllOf(j)}
      /\ Account(j).comes = C /\ Account(j).alike = L
  BY DEF Account
<1> DEFINE A == AllOf(j)
           e(t) == Entry(j, t)
<1>2. ASSUME NEW x, NEW y
      PROVE  <<x, y>> \in C <=> \E t, u \in A : x = e(t) /\ y = e(u) /\ Comes(j, t, u)
  <2> HIDE DEF A, e
  <2>1. C = {<<e(p[1]), e(p[2])>> : p \in {p \in A \X A : Comes(j, p[1], p[2])}}
    BY DEF A, e
  <2>2. ASSUME NEW t \in A, NEW u \in A, Comes(j, t, u), x = e(t), y = e(u)
        PROVE  <<x, y>> \in C
    <3>1. <<t, u>> \in {p \in A \X A : Comes(j, p[1], p[2])}
      BY <2>2
    <3>2. <<t, u>>[1] = t /\ <<t, u>>[2] = u
      OBVIOUS
    <3> HIDE DEF C
    <3> QED
      BY <2>1, <2>2, <3>1, <3>2
  <2>3. ASSUME <<x, y>> \in C
        PROVE  \E t, u \in A : x = e(t) /\ y = e(u) /\ Comes(j, t, u)
    <3>1. PICK p \in A \X A : Comes(j, p[1], p[2]) /\ <<x, y>> = <<e(p[1]), e(p[2])>>
      BY <2>1, <2>3
    <3>2. p[1] \in A /\ p[2] \in A /\ x = e(p[1]) /\ y = e(p[2])
      BY <3>1
    <3> QED
      BY <3>1, <3>2
  <2> QED
    BY <2>2, <2>3
<1>3. ASSUME NEW x, NEW y
      PROVE  <<x, y>> \in L <=> \E t, u \in A : x = e(t) /\ y = e(u) /\ Alike(j, t, u)
  <2> HIDE DEF A, e
  <2>1. L = {<<e(p[1]), e(p[2])>> : p \in {p \in A \X A : Alike(j, p[1], p[2])}}
    BY DEF A, e
  <2>2. ASSUME NEW t \in A, NEW u \in A, Alike(j, t, u), x = e(t), y = e(u)
        PROVE  <<x, y>> \in L
    <3>1. <<t, u>> \in {p \in A \X A : Alike(j, p[1], p[2])}
      BY <2>2
    <3>2. <<t, u>>[1] = t /\ <<t, u>>[2] = u
      OBVIOUS
    <3> HIDE DEF L
    <3> QED
      BY <2>1, <2>2, <3>1, <3>2
  <2>3. ASSUME <<x, y>> \in L
        PROVE  \E t, u \in A : x = e(t) /\ y = e(u) /\ Alike(j, t, u)
    <3>1. PICK p \in A \X A : Alike(j, p[1], p[2]) /\ <<x, y>> = <<e(p[1]), e(p[2])>>
      BY <2>1, <2>3
    <3>2. p[1] \in A /\ p[2] \in A /\ x = e(p[1]) /\ y = e(p[2])
      BY <3>1
    <3> QED
      BY <3>1, <3>2
  <2> QED
    BY <2>2, <2>3
<1> QED
  BY <1>1, <1>2, <1>3

\* What a triple is, and what it stands for.
LEMMA AllFacts ==
  ASSUME NEW j, JobFits(j), NEW t \in AllOf(j)
  PROVE  /\ FileIn(j, t[1]) \in j.files /\ FileIn(j, t[1]).outcome = "analysed" /\ FileIn(j, t[1]).path = t[1]
         /\ t = <<t[1], t[2], t[3]>> /\ t[2] \in Nat /\ t[3] \in Nat /\ RankIn(j, t[1]) \in Nat
         /\ RawFits(RawOf(j, t))
<1>1. AnalysedOf(j) \in SUBSET j.files
  BY DEF AnalysedOf
<1>2. /\ FileIn(j, t[1]) \in AnalysedOf(j) /\ FileIn(j, t[1]).path = t[1]
      /\ t = <<t[1], t[2], t[3]>> /\ t[2] \in Nat
      /\ t[3] \in DOMAIN FileIn(j, t[1]).raws[t[2]]
      /\ DOMAIN FileIn(j, t[1]).raws[t[2]] = 1..Len(FileIn(j, t[1]).raws[t[2]])
      /\ RawFits(RawOf(j, t))
  BY <1>1, TripleFacts DEF AllOf
<1>3. t[3] \in Nat
  BY <1>2
<1>4. FileIn(j, t[1]) \in j.files /\ FileIn(j, t[1]).outcome = "analysed"
  BY <1>2 DEF AnalysedOf
<1>5. RankIn(j, t[1]) \in Nat
  BY <1>4 DEF JobFits, FileFits, RankIn
<1> QED
  BY <1>2, <1>3, <1>4, <1>5

\* A mark says what was raised.
LEMMA MarkTells ==
  ASSUME NEW j, JobFits(j), NEW t \in AllOf(j), NEW u \in AllOf(j)
  PROVE  /\ RankIn(j, t[1]) = RankIn(j, u[1]) => t[1] = u[1]
         /\ Mark(j, t) = Mark(j, u) => t = u
         /\ Entry(j, t) = Entry(j, u) => t = u
<1>1. /\ FileIn(j, t[1]) \in j.files /\ FileIn(j, t[1]).path = t[1] /\ t = <<t[1], t[2], t[3]>>
      /\ FileIn(j, u[1]) \in j.files /\ FileIn(j, u[1]).path = u[1] /\ u = <<u[1], u[2], u[3]>>
  BY AllFacts
<1>2. RankIn(j, t[1]) = RankIn(j, u[1]) => t[1] = u[1]
  BY <1>1 DEF RankIn, JobFits
<1>3. Mark(j, t) = Mark(j, u) => t = u
  BY <1>1, <1>2 DEF Mark
<1>4. Entry(j, t) = Entry(j, u) => Mark(j, t) = Mark(j, u)
  BY DEF Entry
<1> QED
  BY <1>2, <1>3, <1>4

\* What is alike is told alike.
LEMMA AlikeTells ==
  ASSUME NEW j, JobFits(j), NEW t \in AllOf(j), NEW u \in AllOf(j)
  PROVE  /\ Alike(j, t, u) <=> ToldIn(j, t) = ToldIn(j, u)
         /\ Alike(j, t, u) <=> SpanKey(ToldIn(j, t)) = SpanKey(ToldIn(j, u))
<1> DEFINE f == ToldIn(j, t)
           g == ToldIn(j, u)
           text == Decode(FileIn(j, t[1]).artifact)
           texu == Decode(FileIn(j, u[1]).artifact)
<1>1. AnalysedOf(j) \in SUBSET j.files
  BY DEF AnalysedOf
<1>2. /\ f.rule_id = t[2] /\ f.location.file = t[1]
      /\ f.location.byte_start = Offset(text, RawOf(j, t).from)
      /\ f.location.byte_end = Offset(text, RawOf(j, t).to)
  BY <1>1, ToldFacts DEF AllOf
<1>3. /\ g.rule_id = u[2] /\ g.location.file = u[1]
      /\ g.location.byte_start = Offset(texu, RawOf(j, u).from)
      /\ g.location.byte_end = Offset(texu, RawOf(j, u).to)
  BY <1>1, ToldFacts DEF AllOf
<1>4. t[1] = u[1] => text = texu
  OBVIOUS
<1>5. /\ RawOf(j, t).from \in Nat /\ RawOf(j, u).from \in Nat /\ RawOf(j, t).to \in Nat /\ RawOf(j, u).to \in Nat
  BY AllFacts DEF RawFits
<1>6. ASSUME t[1] = u[1], t[2] = u[2], f.location.byte_start = g.location.byte_start,
             f.location.byte_end = g.location.byte_end
      PROVE  f = g
  BY <1>1, <1>6, Copies DEF AllOf
<1> HIDE DEF f, g, text, texu
<1>7. SpanKey(f) = <<t[2], t[1], f.location.byte_start, f.location.byte_end>>
      /\ SpanKey(g) = <<u[2], u[1], g.location.byte_start, g.location.byte_end>>
  BY <1>2, <1>3 DEF SpanKey
<1>8. Alike(j, t, u) => f = g
  BY <1>2, <1>3, <1>4, <1>6 DEF Alike
<1>9. f = g => SpanKey(f) = SpanKey(g)
  OBVIOUS
<1>10. ASSUME SpanKey(f) = SpanKey(g)
       PROVE  Alike(j, t, u)
  <2>1. t[1] = u[1] /\ t[2] = u[2] /\ f.location.byte_start = g.location.byte_start
        /\ f.location.byte_end = g.location.byte_end
    BY <1>7, <1>10
  <2>2. Offset(text, RawOf(j, t).from) = Offset(text, RawOf(j, u).from)
        /\ Offset(text, RawOf(j, t).to) = Offset(text, RawOf(j, u).to)
    BY <1>2, <1>3, <1>4, <2>1
  <2>3. RawOf(j, t).from = RawOf(j, u).from /\ RawOf(j, t).to = RawOf(j, u).to
    BY <1>5, <2>2, OffsetsTell
  <2> QED
    BY <2>1, <2>3 DEF Alike
<1> QED
  BY <1>8, <1>9, <1>10 DEF f, g

\* What comes first, by the keys of the report's order.
LEMMA ComesIs ==
  ASSUME NEW j, JobFits(j), NEW t \in AllOf(j), NEW u \in AllOf(j)
  PROVE  Comes(j, t, u) <=>
           Lex(KeyOf(j, t), KeyOf(j, u)) \/ (KeyOf(j, t) = KeyOf(j, u) /\ t[3] < u[3])
<1> DEFINE rt == RankIn(j, t[1])
           ru == RankIn(j, u[1])
           text == Decode(FileIn(j, t[1]).artifact)
           a == RawOf(j, t).from
           b == RawOf(j, u).from
           oa == Offset(text, a)
           ob == ToldIn(j, u).location.byte_start
<1>1. AnalysedOf(j) \in SUBSET j.files
  BY DEF AnalysedOf
<1>2. ToldIn(j, t).location.byte_start = oa
  BY <1>1, ToldFacts DEF AllOf
<1>3. ob = Offset(Decode(FileIn(j, u[1]).artifact), b) /\ ob \in Nat
  BY <1>1, ToldFacts DEF AllOf
<1>4. /\ a \in Nat /\ b \in Nat /\ t[2] \in Nat /\ t[3] \in Nat /\ u[2] \in Nat /\ u[3] \in Nat
      /\ rt \in Nat /\ ru \in Nat
  BY AllFacts DEF RawFits
<1>5. rt = ru <=> t[1] = u[1]
  BY MarkTells
<1>6. KeyOf(j, t) = <<rt, oa, t[2]>> /\ KeyOf(j, u) = <<ru, ob, u[2]>>
  BY <1>2 DEF KeyOf
<1>7. /\ Comes(j, t, u) <=> \/ rt < ru
                            \/ /\ t[1] = u[1]
                               /\ \/ a < b
                                  \/ a = b /\ (t[2] < u[2] \/ (t[2] = u[2] /\ t[3] < u[3]))
  BY DEF Comes
<1>8. ASSUME t[1] = u[1]
      PROVE  (a < b <=> oa < ob) /\ (a = b <=> oa = ob)
  <2>1. ob = Offset(text, b)
    BY <1>3, <1>8
  <2> HIDE DEF text, ob, a, b
  <2>2. (a < b => oa < ob) /\ (b < a => ob < oa) /\ oa \in Nat /\ ob \in Nat
    BY <1>4, <2>1, OffsetsGrow
  <2> QED
    BY <1>4, <2>1, <2>2
<1> HIDE DEF rt, ru, a, b, oa, ob
<1>9. Lex(KeyOf(j, t), KeyOf(j, u)) <=> rt < ru \/ (rt = ru /\ oa < ob) \/ (rt = ru /\ oa = ob /\ t[2] < u[2])
  BY <1>6 DEF Lex
<1>10. KeyOf(j, t) = KeyOf(j, u) <=> rt = ru /\ oa = ob /\ t[2] = u[2]
  BY <1>6
<1> QED
  BY <1>4, <1>5, <1>7, <1>8, <1>9, <1>10

\* The copies of one finding come before those of another.
LEMMA CopiesCome ==
  ASSUME NEW j, JobFits(j), NEW t \in AllOf(j), NEW u \in AllOf(j), ToldIn(j, t) # ToldIn(j, u),
         ~BeforeIn(j, ToldIn(j, u), ToldIn(j, t)),
         ~BeforeIn(j, ToldIn(j, t), ToldIn(j, u)) /\ t[1] = u[1] /\ t[2] = u[2] => t[3] < u[3],
         NEW v \in AllOf(j), ToldIn(j, v) = ToldIn(j, t), NEW w \in AllOf(j), ToldIn(j, w) = ToldIn(j, u)
  PROVE  Comes(j, v, w) /\ ~Comes(j, w, v)
<1> DEFINE x == KeyOf(j, t)
           y == KeyOf(j, u)
<1>1. AnalysedOf(j) \in SUBSET j.files
  BY DEF AnalysedOf
<1>2. v[1] = t[1] /\ v[2] = t[2] /\ w[1] = u[1] /\ w[2] = u[2]
  BY AlikeTells DEF Alike
<1>3. KeyOf(j, v) = x /\ KeyOf(j, w) = y
  BY <1>2 DEF KeyOf
<1>4. /\ x \in Nat \X Nat \X Nat /\ y \in Nat \X Nat \X Nat
      /\ BeforeIn(j, ToldIn(j, t), ToldIn(j, u)) <=> Lex(x, y)
      /\ x = y => /\ t[1] = u[1] /\ t[2] = u[2]
                  /\ ToldIn(j, t).location.byte_start = ToldIn(j, u).location.byte_start
  BY <1>1, KeysOfTold DEF AllOf
<1>5. BeforeIn(j, ToldIn(j, u), ToldIn(j, t)) <=> Lex(y, x)
  BY <1>1, KeysOfTold DEF AllOf
<1> HIDE DEF x, y
<1>6. v[3] \in Nat /\ w[3] \in Nat /\ t[3] \in Nat /\ u[3] \in Nat
  BY AllFacts
<1>7. Comes(j, v, w) <=> Lex(x, y) \/ (x = y /\ v[3] < w[3])
  BY <1>3, ComesIs
<1>8. Comes(j, w, v) <=> Lex(y, x) \/ (y = x /\ w[3] < v[3])
  BY <1>3, ComesIs
<1>9. (Lex(x, y) => ~Lex(y, x)) /\ (Lex(x, y) \/ Lex(y, x) \/ x = y) /\ ~Lex(x, x)
  BY <1>4, LexFacts
<1>10. ASSUME x = y
       PROVE  v[3] < w[3]
  <2>1. t[3] < u[3] /\ t[1] = u[1] /\ t[2] = u[2]
    BY <1>4, <1>9, <1>10
  <2>2. ToldIn(j, t).location.byte_start = ToldIn(j, u).location.byte_start
    BY <1>4, <1>10
  <2>3. CASE w[3] <= v[3] /\ t[3] <= w[3]
    <3>1. ToldIn(j, w) = ToldIn(j, t)
      <4>1. \A k \in RaisedIn(j, AnalysedOf(j)) :
              /\ k[1] = t[1] /\ k[2] = t[2] /\ t[3] <= k[3] /\ k[3] <= v[3]
              /\ ToldIn(j, k).location.byte_start = ToldIn(j, t).location.byte_start
              => ToldIn(j, k) = ToldIn(j, t)
        BY <1>1, <1>2, Copies DEF AllOf
      <4> QED
        BY <1>2, <2>1, <2>2, <2>3, <4>1 DEF AllOf
    <3> QED
      BY <3>1
  <2>4. CASE w[3] <= v[3] /\ w[3] <= t[3]
    <3>1. ToldIn(j, t) = ToldIn(j, w)
      <4>1. \A k \in RaisedIn(j, AnalysedOf(j)) :
              /\ k[1] = w[1] /\ k[2] = w[2] /\ w[3] <= k[3] /\ k[3] <= u[3]
              /\ ToldIn(j, k).location.byte_start = ToldIn(j, w).location.byte_start
              => ToldIn(j, k) = ToldIn(j, w)
        BY <1>1, <1>2, Copies DEF AllOf
      <4>2. t[3] <= u[3]
        BY <1>6, <2>1
      <4> QED
        BY <1>2, <2>1, <2>2, <2>4, <4>1, <4>2 DEF AllOf
    <3> QED
      BY <3>1
  <2> QED
    BY <1>6, <2>3, <2>4
<1>11. ASSUME x = y
       PROVE  ~(w[3] < v[3])
  BY <1>6, <1>10, <1>11
<1> QED
  BY <1>4, <1>5, <1>7, <1>8, <1>9, <1>10, <1>11

-----------------------------------------------------------------------------
\* How what was raised was judged.

\* h tells what each finding judged was raised as.
Recounts(j, ju, h) ==
  /\ Len(ju) \in Nat /\ DOMAIN ju = 1..Len(ju)
  /\ h \in [1..Len(ju) -> AllOf(j)]
  /\ \A t \in AllOf(j) : \E i \in 1..Len(ju) : h[i] = t
  /\ \A i, k \in 1..Len(ju) : h[i] = h[k] => i = k
  /\ \A i, k \in 1..Len(ju) : i < k /\ h[i][1] = h[k][1] /\ h[i][2] = h[k][2] => h[i][3] < h[k][3]
  /\ \A i \in 1..Len(ju) : ju[i].finding = ToldIn(j, h[i]) /\ ju[i].kept \in BOOLEAN

\* Everything raised was judged, once.
LEMMA HowJudged ==
  ASSUME Inv, Collected
  PROVE  \E h : Recounts(job, judged, h)
<1> DEFINE n == Len(judged)
<1>1. PICK cur : Chronicle(job, AnalysedFiles, cur, judged, <<>>)
  BY AllIsRead
<1>2. n \in Nat /\ DOMAIN judged = 1..n /\ \A i \in 1..n : judged[i].kept \in BOOLEAN
  BY JudgedFacts
<1>3. RaisedIn(job, AnalysedFiles) = AllOf(job)
  BY DEF AllOf, AnalysedOf, AnalysedFiles
<1>4. PICK h : Numbering(AllOf(job), h, n + Len(<<>>)) /\ Tells(job, judged, <<>>, cur, h)
  BY <1>1, <1>3 DEF Chronicle
<1>5. n + Len(<<>>) = n
  BY <1>2
<1>6. Numbering(AllOf(job), h, n) /\ \A i \in 1..n : judged[i].finding = ToldIn(job, h[i])
  BY <1>4, <1>5 DEF Tells
<1>7. Recounts(job, judged, h)
  BY <1>2, <1>6 DEF Numbering, Recounts
<1> QED
  BY <1>7

\* A rule that raised something raised what it numbers before.
LEMMA RaisedBefore ==
  ASSUME NEW j, JobFits(j), NEW t \in AllOf(j), NEW k \in 1..(t[3])
  PROVE  <<t[1], t[2], k>> \in AllOf(j)
<1> DEFINE f == FileIn(j, t[1])
<1>1. AnalysedOf(j) \in SUBSET j.files
  BY DEF AnalysedOf
<1>2. /\ f \in AnalysedOf(j) /\ f.path = t[1] /\ t \in Triples(f, For(j, f.language))
      /\ t[3] \in DOMAIN f.raws[t[2]] /\ DOMAIN f.raws[t[2]] = 1..Len(f.raws[t[2]])
      /\ Len(f.raws[t[2]]) \in Nat
  BY <1>1, TripleFacts DEF AllOf
<1>3. k \in DOMAIN f.raws[t[2]]
  BY <1>2
<1> HIDE DEF f
<1>4. PICK r \in For(j, f.language) : t \in {<<f.path, r.id, i>> : i \in DOMAIN f.raws[r.id]}
  BY <1>2 DEF Triples
<1>5. t[2] = r.id
  BY <1>4
<1>6. <<t[1], t[2], k>> \in {<<f.path, r.id, i>> : i \in DOMAIN f.raws[r.id]}
  BY <1>2, <1>3, <1>5
<1>7. <<t[1], t[2], k>> \in Triples(f, For(j, f.language))
  BY <1>6 DEF Triples
<1> QED
  BY <1>2, <1>7 DEF AllOf, RaisedIn

\* The number of a finding judged is its own among what its rule raised.
LEMMA NumberIs ==
  ASSUME Inv, Collected, NEW h, Recounts(job, judged, h), NEW n \in 1..Len(judged)
  PROVE  <<Site(n), Number(n)>> = Mark(job, h[n])
<1> DEFINE j == job
           K == {m \in 1..n : Site(m) = Site(n)}
           g == [m \in K |-> h[m][3]]
           c == h[n][3]
<1>0. JobFits(j)
  BY AllIsRead
<1>1. /\ Len(judged) \in Nat /\ h \in [1..Len(judged) -> AllOf(j)]
      /\ \A t \in AllOf(j) : \E i \in 1..Len(judged) : h[i] = t
      /\ \A i, k \in 1..Len(judged) : h[i] = h[k] => i = k
      /\ \A i, k \in 1..Len(judged) : i < k /\ h[i][1] = h[k][1] /\ h[i][2] = h[k][2] => h[i][3] < h[k][3]
      /\ \A i \in 1..Len(judged) : judged[i].finding = ToldIn(j, h[i])
  BY DEF Recounts
<1>2. ASSUME NEW i \in 1..Len(judged)
      PROVE  /\ h[i] \in AllOf(j) /\ Site(i) = <<RankIn(j, h[i][1]), h[i][2]>>
             /\ h[i] = <<h[i][1], h[i][2], h[i][3]>> /\ h[i][3] \in Nat /\ h[i][3] >= 1
  <2>1. h[i] \in AllOf(j) /\ judged[i].finding = ToldIn(j, h[i])
    BY <1>1
  <2>2. AnalysedOf(j) \in SUBSET j.files
    BY DEF AnalysedOf
  <2>3. ToldIn(j, h[i]).rule_id = h[i][2] /\ ToldIn(j, h[i]).location.file = h[i][1]
    BY <1>0, <2>1, <2>2, ToldFacts DEF AllOf
  <2>4. Site(i) = <<RankIn(j, h[i][1]), h[i][2]>>
    BY <2>1, <2>3, OfTheJob DEF Site
  <2>5. /\ h[i][3] \in DOMAIN FileIn(j, h[i][1]).raws[h[i][2]]
        /\ DOMAIN FileIn(j, h[i][1]).raws[h[i][2]] = 1..Len(FileIn(j, h[i][1]).raws[h[i][2]])
    BY <1>0, <2>1, <2>2, TripleFacts DEF AllOf
  <2>6. h[i][3] >= 1 /\ h[i][3] \in Nat
    BY <2>5
  <2>7. h[i] = <<h[i][1], h[i][2], h[i][3]>>
    BY <1>0, <2>1, AllFacts
  <2> QED
    BY <2>1, <2>4, <2>6, <2>7
<1>3. \A i, k \in 1..Len(judged) : Site(i) = Site(k) <=> h[i][1] = h[k][1] /\ h[i][2] = h[k][2]
  <2> SUFFICES ASSUME NEW i \in 1..Len(judged), NEW k \in 1..Len(judged)
               PROVE  Site(i) = Site(k) <=> h[i][1] = h[k][1] /\ h[i][2] = h[k][2]
    OBVIOUS
  <2>1. RankIn(j, h[i][1]) = RankIn(j, h[k][1]) => h[i][1] = h[k][1]
    BY <1>0, <1>2, MarkTells
  <2>2. Site(i) = <<RankIn(j, h[i][1]), h[i][2]>> /\ Site(k) = <<RankIn(j, h[k][1]), h[k][2]>>
    BY <1>2
  <2> QED
    BY <2>1, <2>2
<1>4. n \in Nat /\ \A m \in 1..n : m \in 1..Len(judged) /\ m <= n /\ m \in Nat
  BY <1>1
<1>5. c \in Nat /\ c >= 1
  BY <1>2
<1>6. ASSUME NEW m \in K
      PROVE  h[m][3] \in 1..c
  <2>1. m \in 1..Len(judged) /\ h[m][1] = h[n][1] /\ h[m][2] = h[n][2] /\ m <= n /\ m \in Nat
    BY <1>3, <1>4
  <2>2. m < n => h[m][3] < c
    BY <1>1, <2>1
  <2>3. m = n => h[m][3] = c
    OBVIOUS
  <2>4. m < n \/ m = n
    BY <1>4, <2>1
  <2>5. h[m][3] \in Nat /\ h[m][3] >= 1
    BY <1>2, <2>1
  <2> HIDE DEF c
  <2> QED
    BY <1>5, <2>2, <2>3, <2>4, <2>5
<1>7. ASSUME NEW k \in 1..c
      PROVE  \E m \in K : g[m] = k
  <2> DEFINE t == <<h[n][1], h[n][2], k>>
  <2>1. t \in AllOf(j)
    BY <1>0, <1>2, RaisedBefore
  <2>2. PICK m \in 1..Len(judged) : h[m] = t
    BY <1>1, <2>1
  <2>3. h[m][1] = h[n][1] /\ h[m][2] = h[n][2] /\ h[m][3] = k
    BY <2>2
  <2>4. ~(n < m)
    <3> SUFFICES ASSUME n < m PROVE FALSE
      OBVIOUS
    <3>1. c < k
      BY <1>1, <2>3
    <3> HIDE DEF c
    <3> QED
      BY <1>5, <3>1
  <2>5. m \in 1..n /\ Site(m) = Site(n)
    BY <1>3, <1>4, <2>3, <2>4
  <2>6. m \in K
    BY <2>5
  <2> QED
    BY <2>3, <2>6
<1>8. ASSUME NEW i \in K, NEW k \in K, g[i] = g[k]
      PROVE  i = k
  <2>1. i \in 1..Len(judged) /\ k \in 1..Len(judged) /\ Site(i) = Site(n) /\ Site(k) = Site(n)
    BY <1>4
  <2>2. h[i][3] = h[k][3]
    BY <1>8
  <2>3. h[i][1] = h[k][1] /\ h[i][2] = h[k][2]
    BY <1>3, <2>1
  <2>4. h[i] = <<h[i][1], h[i][2], h[i][3]>> /\ h[k] = <<h[k][1], h[k][2], h[k][3]>>
    BY <1>2, <2>1
  <2>5. h[i] = h[k]
    BY <2>2, <2>3, <2>4
  <2> QED
    BY <1>1, <2>1, <2>5
<1>9. IsFiniteSet(K)
  <2>1. IsFiniteSet(1..n) /\ K \in SUBSET (1..n)
    BY <1>4, UpToCount
  <2> QED
    BY <2>1, FS_Subset
<1>10. g \in [K -> 1..c]
  BY <1>6
<1>11. Cardinality(K) = c
  <2> HIDE DEF g, K, c
  <2>1. Cardinality(1..c) = Cardinality(K)
    BY <1>7, <1>8, <1>9, <1>10, SameNumber
  <2> QED
    BY <1>5, <2>1, UpToCount
<1>12. Number(n) = h[n][3] /\ Site(n) = <<RankIn(j, h[n][1]), h[n][2]>>
  BY <1>2, <1>11 DEF Number
<1> QED
  BY <1>12 DEF Mark

\* What was hidden, by the marks.
LEMMA HidIs ==
  ASSUME Inv, Collected, NEW h, Recounts(job, judged, h), NEW i \in 1..Len(judged)
  PROVE  Mark(job, h[i]) \in Hid <=> ~judged[i].kept
<1>0. JobFits(job)
  BY AllIsRead
<1>1. /\ DOMAIN judged = 1..Len(judged) /\ \A k \in 1..Len(judged) : h[k] \in AllOf(job)
      /\ \A k, m \in 1..Len(judged) : h[k] = h[m] => k = m
  BY DEF Recounts
<1>2. \A k \in 1..Len(judged) : <<Site(k), Number(k)>> = Mark(job, h[k])
  BY NumberIs
<1>3. Hid = {Mark(job, h[k]) : k \in {k \in 1..Len(judged) : ~judged[k].kept}}
  BY <1>1, <1>2 DEF Hid
<1>4. ASSUME NEW k \in 1..Len(judged), Mark(job, h[k]) = Mark(job, h[i])
      PROVE  k = i
  <2>1. h[k] = h[i]
    BY <1>0, <1>1, <1>4, MarkTells
  <2> QED
    BY <1>1, <2>1
<1> QED
  BY <1>3, <1>4

-----------------------------------------------------------------------------
\* Snippets, and how a finding is numbered.

\* A byte offset gives back the boundary it came from.
LEMMA BoundaryIs ==
  ASSUME NEW text, Len(text) \in Nat, NEW k \in 0..Len(text)
  PROVE  Boundary(text, Offset(text, k)) = k
<1> DEFINE n == Len(text)
           b == Offset(text, k)
           Is(i) == Offset(text, i) <= b /\ (i < n => Offset(text, i + 1) > b)
<1>1. \A i \in 0..(n + 1) : Offset(text, i) \in Nat
  BY OffsetsGrow
<1>2. \A i, m \in 0..(n + 1) : i < m => Offset(text, i) < Offset(text, m)
  BY OffsetsGrow
<1>3. k \in 0..(n + 1) /\ k + 1 \in 0..(n + 1) /\ n \in Nat
  OBVIOUS
<1>4. Is(k)
  <2>1. Offset(text, k) < Offset(text, k + 1)
    BY <1>2, <1>3
  <2> HIDE DEF n
  <2> QED
    BY <1>1, <1>3, <2>1
<1>5. ASSUME NEW i \in 0..n, Is(i)
      PROVE  i = k
  <2>1. i \in 0..(n + 1) /\ i + 1 \in 0..(n + 1)
    BY <1>3
  <2>2. ~(k < i)
    <3> SUFFICES ASSUME k < i PROVE FALSE
      OBVIOUS
    <3>1. Offset(text, k) < Offset(text, i)
      BY <1>2, <1>3, <2>1
    <3> HIDE DEF n
    <3> QED
      BY <1>1, <1>3, <1>5, <2>1, <3>1
  <2>3. ~(i < k)
    <3> SUFFICES ASSUME i < k PROVE FALSE
      OBVIOUS
    <3>1. i < n /\ (i + 1 = k \/ i + 1 < k)
      BY <1>3
    <3>2. Offset(text, i + 1) = Offset(text, k) \/ Offset(text, i + 1) < Offset(text, k)
      BY <1>2, <1>3, <2>1, <3>1
    <3> HIDE DEF n
    <3> QED
      BY <1>1, <1>3, <1>5, <2>1, <3>1, <3>2
  <2> QED
    BY <1>3, <2>2, <2>3
<1>6. (CHOOSE i \in 0..n : Is(i)) = k
  <2> HIDE DEF Is
  <2> QED
    BY <1>4, <1>5
<1> QED
  BY <1>6, Zenon DEF Boundary

\* What is raised is in the text.
LEMMA ExtentFits ==
  ASSUME NEW j, JobFits(j), NEW t \in AllOf(j)
  PROVE  /\ Len(TextIn(j, t)) \in Nat /\ RawOf(j, t).to <= Len(TextIn(j, t))
         /\ TextIn(j, t) \in Seq(Range(FileIn(j, t[1]).artifact) \cup {"high", Newline})
<1> DEFINE f == FileIn(j, t[1])
<1>1. f \in AnalysedOf(j) /\ FileFits(f) /\ t \in Triples(f, For(j, f.language))
  <2>1. AnalysedOf(j) \in SUBSET j.files
    BY DEF AnalysedOf
  <2> QED
    BY <2>1, TripleFacts DEF AllOf, JobFits
<1>2. RawOf(j, t) = f.raws[t[2]][t[3]]
  BY DEF RawOf
<1> HIDE DEF f
<1>3. PICK r \in For(j, f.language) : t \in {<<f.path, r.id, k>> : k \in DOMAIN f.raws[r.id]}
  BY <1>1 DEF Triples
<1>4. t[2] = r.id /\ t[3] \in DOMAIN f.raws[r.id]
  BY <1>3
<1>5. PICK m \in DOMAIN Registry : r = Registry[m]
  BY RulesAre DEF For, RuleList, Range
<1>6. \A raw \in Range(f.raws[Registry[m].id]) : raw.to <= Len(Decode(f.artifact))
  BY <1>1 DEF FileFits
<1>7. f.raws[t[2]][t[3]] \in Range(f.raws[Registry[m].id])
  BY <1>4, <1>5 DEF Range
<1>8. RawOf(j, t).to <= Len(Decode(f.artifact))
  BY <1>2, <1>6, <1>7
<1>9. f.artifact \in Seq(Range(f.artifact))
  BY <1>1 DEF FileFits
<1>10. Decode(f.artifact) \in Seq(Range(f.artifact) \cup {"high", Newline})
  BY <1>9, DecodeIs
<1> QED
  BY <1>8, <1>10 DEF TextIn, f

\* The snippet that is judged is the one of what was raised.
LEMMA SnipIs ==
  ASSUME NEW j, JobFits(j), NEW t \in AllOf(j)
  PROVE  SnipOf(j, ToldIn(j, t)) = Snip(j, t)
<1> DEFINE text == TextIn(j, t)
           raw == RawOf(j, t)
<1>1. AnalysedOf(j) \in SUBSET j.files
  BY DEF AnalysedOf
<1>2. /\ ToldIn(j, t).location.file = t[1]
      /\ ToldIn(j, t).location.byte_start = Offset(text, raw.from)
      /\ ToldIn(j, t).location.byte_end = Offset(text, raw.to)
  BY <1>1, ToldFacts DEF AllOf, TextIn
<1>3. raw.from \in Nat /\ raw.to \in Nat /\ raw.from < raw.to
  BY AllFacts DEF RawFits
<1>4. Len(text) \in Nat /\ raw.to <= Len(text)
  BY ExtentFits
<1> HIDE DEF raw
<1>5. raw.from \in 0..Len(text) /\ raw.to \in 0..Len(text)
  BY <1>3, <1>4
<1>6. Boundary(text, Offset(text, raw.from)) = raw.from /\ Boundary(text, Offset(text, raw.to)) = raw.to
  BY <1>4, <1>5, BoundaryIs
<1>7. Slice(text, Offset(text, raw.from), Offset(text, raw.to)) = SubSeq(text, raw.from + 1, raw.to)
  BY <1>6 DEF Slice
<1>8. SnipOf(j, ToldIn(j, t)) = Folded(Slice(text, Offset(text, raw.from), Offset(text, raw.to)))
  BY <1>2 DEF SnipOf, TextIn
<1> QED
  BY <1>7, <1>8 DEF Snip, raw

\* Findings with one span have one key of counting.
LEMMA SpanTells ==
  ASSUME NEW j, NEW f, NEW g, SpanKey(f) = SpanKey(g)
  PROVE  PrintKey(j, f) = PrintKey(j, g) /\ SnipOf(j, f) = SnipOf(j, g)
<1>1. /\ f.rule_id = g.rule_id /\ f.location.file = g.location.file
      /\ f.location.byte_start = g.location.byte_start /\ f.location.byte_end = g.location.byte_end
  BY DEF SpanKey
<1>2. SnipOf(j, f) = SnipOf(j, g)
  BY <1>1 DEF SnipOf
<1> QED
  BY <1>1, <1>2 DEF PrintKey

\* Of what was judged, what was kept.
Hides(j, ju, h, hid) == \A i \in 1..Len(ju) : Mark(j, h[i]) \in hid <=> ~ju[i].kept

LEMMA KeptIs ==
  ASSUME NEW j, NEW ju, NEW h, Recounts(j, ju, h), NEW hid, Hides(j, ju, h, hid)
  PROVE  Kept(Account(j), hid) = {Entry(j, h[i]) : i \in KeptAt(ju)}
<1>1. /\ \A i \in 1..Len(ju) : h[i] \in AllOf(j) /\ ju[i].kept \in BOOLEAN
      /\ \A t \in AllOf(j) : \E i \in 1..Len(ju) : h[i] = t
  BY DEF Recounts
<1>2. \A t : Entry(j, t).mark = Mark(j, t)
  BY DEF Entry
<1>3. Kept(Account(j), hid) = {x \in {Entry(j, t) : t \in AllOf(j)} : x.mark \notin hid}
  BY AccountIs DEF Kept
<1>4. ASSUME NEW i \in KeptAt(ju)
      PROVE  Entry(j, h[i]) \in {x \in {Entry(j, t) : t \in AllOf(j)} : x.mark \notin hid}
  <2>1. i \in 1..Len(ju) /\ ju[i].kept
    BY DEF KeptAt
  <2>2. h[i] \in AllOf(j) /\ Mark(j, h[i]) \notin hid
    BY <1>1, <2>1 DEF Hides
  <2> QED
    BY <1>2, <2>2
<1>5. ASSUME NEW t \in AllOf(j), Entry(j, t).mark \notin hid
      PROVE  \E i \in KeptAt(ju) : Entry(j, t) = Entry(j, h[i])
  <2>1. PICK i \in 1..Len(ju) : h[i] = t
    BY <1>1
  <2>2. ju[i].kept
    BY <1>1, <1>2, <1>5, <2>1 DEF Hides
  <2>3. i \in KeptAt(ju)
    BY <2>2 DEF KeptAt
  <2> QED
    BY <2>1, <2>3
<1> QED
  BY <1>3, <1>4, <1>5

\* The entries of what is told as f.
Class(j, f) == {Entry(j, u) : u \in {u \in AllOf(j) : ToldIn(j, u) = f}}

LEMMA CopiesAre ==
  ASSUME NEW j, JobFits(j), NEW t \in AllOf(j)
  PROVE  CopiesOf(Account(j), Entry(j, t)) = Class(j, ToldIn(j, t))
<1> DEFINE A == AllOf(j)
           e(u) == Entry(j, u)
           x == Entry(j, t)
<1>1. CopiesOf(Account(j), x) = {y \in {e(u) : u \in A} : <<x, y>> \in Account(j).alike}
  BY AccountIs DEF CopiesOf
<1>2. ASSUME NEW u \in A
      PROVE  <<x, e(u)>> \in Account(j).alike <=> ToldIn(j, u) = ToldIn(j, t)
  <2>1. <<x, e(u)>> \in Account(j).alike <=>
          \E v, w \in A : x = e(v) /\ e(u) = e(w) /\ Alike(j, v, w)
    BY AccountIs
  <2>2. \A v, w \in A : x = e(v) /\ e(u) = e(w) => v = t /\ w = u
    BY MarkTells
  <2>3. Alike(j, t, u) <=> ToldIn(j, t) = ToldIn(j, u)
    BY AlikeTells
  <2>4. t \in A /\ u \in A /\ x = e(t) /\ e(u) = e(u)
    OBVIOUS
  <2> HIDE DEF A, e, x
  <2> QED
    BY <2>1, <2>2, <2>3, <2>4
<1>3. Class(j, ToldIn(j, t)) = {e(u) : u \in {u \in A : ToldIn(j, u) = ToldIn(j, t)}}
  BY DEF Class
<1> HIDE DEF A, e, x
<1>4. {y \in {e(u) : u \in A} : <<x, y>> \in Account(j).alike}
        = {e(u) : u \in {u \in A : ToldIn(j, u) = ToldIn(j, t)}}
  BY <1>2
<1> QED
  BY <1>1, <1>3, <1>4 DEF x

-----------------------------------------------------------------------------
\* The fingerprint of a finding, from the account.

\* The parts of an entry.
LEMMA EntryIs ==
  ASSUME NEW j, NEW t
  PROVE  LET x == Entry(j, t) IN
         /\ x.mark = Mark(j, t) /\ x.mark[1] = <<RankIn(j, t[1]), t[2]>> /\ x.mark[2] = t[3]
         /\ x.mark[1][2] = t[2] /\ x.path = RelativePath(t[1], j.root) /\ x.snip = Snip(j, t)
         /\ x.guess <=> j.noSpeculative /\ RawOf(j, t).tier = "T3"
BY DEF Entry, Mark

\* What was judged i-th has the key of counting of what t is told as if it is of
\* its file and its rule and has its snippet.
LEMMA SharingIs ==
  ASSUME NEW j, JobFits(j), NEW t \in AllOf(j), NEW u \in AllOf(j)
  PROVE  /\ PrintKey(j, ToldIn(j, t)) = PrintKey(j, ToldIn(j, u))
              <=> Entry(j, t).mark[1] = Entry(j, u).mark[1] /\ Entry(j, t).snip = Entry(j, u).snip
         /\ Entry(j, t).mark[1] = Entry(j, u).mark[1] <=> t[1] = u[1] /\ t[2] = u[2]
<1>1. AnalysedOf(j) \in SUBSET j.files
  BY DEF AnalysedOf
<1>2. /\ ToldIn(j, t).rule_id = t[2] /\ ToldIn(j, t).location.file = t[1]
      /\ ToldIn(j, u).rule_id = u[2] /\ ToldIn(j, u).location.file = u[1]
  BY <1>1, ToldFacts DEF AllOf
<1>3. PrintKey(j, ToldIn(j, t)) = <<t[2], t[1], Snip(j, t)>> /\ PrintKey(j, ToldIn(j, u)) = <<u[2], u[1], Snip(j, u)>>
  BY <1>2, SnipIs DEF PrintKey
<1>4. /\ Entry(j, t).mark[1] = <<RankIn(j, t[1]), t[2]>> /\ Entry(j, t).snip = Snip(j, t)
      /\ Entry(j, u).mark[1] = <<RankIn(j, u[1]), u[2]>> /\ Entry(j, u).snip = Snip(j, u)
  BY EntryIs
<1>5. RankIn(j, t[1]) = RankIn(j, u[1]) <=> t[1] = u[1]
  BY MarkTells
<1> QED
  BY <1>3, <1>4, <1>5

LEMMA FingerprintIs ==
  ASSUME NEW j, JobFits(j), NEW ju, NEW h, Recounts(j, ju, h), NEW hid, Hides(j, ju, h, hid),
         NEW n \in KeptAt(ju), NEW f, f = ju[n].finding
  PROVE  FingerprintFor(Account(j), hid, Class(j, f)) =
           <<"pons-fingerprint-v1", f.rule_id, RelativePath(f.location.file, j.root),
             <<SnipOf(j, f), Cardinality(Preceding(j, ju, f))>>>>
<1> DEFINE C == Class(j, f)
           x == CHOOSE x \in C : TRUE
           T == Earlier(Account(j), hid, C, x)
           K == Preceding(j, ju, f)
           e(i) == Entry(j, h[i])
           g == [i \in K |-> e(i)]
<1>1. /\ Len(ju) \in Nat
      /\ \A i \in 1..Len(ju) : h[i] \in AllOf(j) /\ ju[i].finding = ToldIn(j, h[i]) /\ ju[i].kept \in BOOLEAN
      /\ \A t \in AllOf(j) : \E i \in 1..Len(ju) : h[i] = t
      /\ \A i, k \in 1..Len(ju) : h[i] = h[k] => i = k
      /\ \A i, k \in 1..Len(ju) : i < k /\ h[i][1] = h[k][1] /\ h[i][2] = h[k][2] => h[i][3] < h[k][3]
  BY DEF Recounts
<1>2. \A i \in KeptAt(ju) : i \in 1..Len(ju) /\ i \in Nat
  BY <1>1 DEF KeptAt
<1>3. h[n] \in AllOf(j) /\ ToldIn(j, h[n]) = f
  BY <1>1, <1>2
<1>4. PICK u \in AllOf(j) : x = Entry(j, u) /\ ToldIn(j, u) = f
  <2>1. Entry(j, h[n]) \in C
    BY <1>3 DEF Class
  <2>2. x \in C
    BY <2>1
  <2> HIDE DEF x
  <2> QED
    BY <2>2 DEF Class
<1> HIDE DEF x
<1>5. u[2] = f.rule_id /\ u[1] = f.location.file
  <2>1. AnalysedOf(j) \in SUBSET j.files
    BY DEF AnalysedOf
  <2> QED
    BY <1>4, <2>1, ToldFacts DEF AllOf
<1>6. Kept(Account(j), hid) = {e(i) : i \in KeptAt(ju)}
  BY KeptIs
<1>7. ASSUME NEW i \in KeptAt(ju)
      PROVE  /\ PrintKey(j, ju[i].finding) = PrintKey(j, f) <=> e(i).mark[1] = x.mark[1] /\ e(i).snip = x.snip
             /\ e(i).mark[1] = x.mark[1] <=> h[i][1] = u[1] /\ h[i][2] = u[2]
             /\ e(i).mark[2] = h[i][3] /\ h[i][3] \in Nat
  <2>1. h[i] \in AllOf(j) /\ ju[i].finding = ToldIn(j, h[i])
    BY <1>1, <1>2
  <2>2. /\ PrintKey(j, ToldIn(j, h[i])) = PrintKey(j, ToldIn(j, u))
             <=> Entry(j, h[i]).mark[1] = Entry(j, u).mark[1] /\ Entry(j, h[i]).snip = Entry(j, u).snip
        /\ Entry(j, h[i]).mark[1] = Entry(j, u).mark[1] <=> h[i][1] = u[1] /\ h[i][2] = u[2]
    BY <2>1, SharingIs
  <2>3. e(i).mark[2] = h[i][3] /\ h[i][3] \in Nat
    BY <2>1, EntryIs, AllFacts
  <2> QED
    BY <1>4, <2>1, <2>2, <2>3
<1>8. ASSUME NEW m \in KeptAt(ju)
      PROVE  e(m) \in C <=> SpanKey(ju[m].finding) = SpanKey(f)
  <2>1. h[m] \in AllOf(j) /\ ju[m].finding = ToldIn(j, h[m])
    BY <1>1, <1>2
  <2>2. e(m) \in C <=> ToldIn(j, h[m]) = f
    BY <2>1, MarkTells DEF Class
  <2>3. ToldIn(j, h[m]) = ToldIn(j, u) <=> SpanKey(ToldIn(j, h[m])) = SpanKey(ToldIn(j, u))
    BY <2>1, AlikeTells
  <2> QED
    BY <1>4, <2>1, <2>2, <2>3
<1>9. ASSUME NEW m \in KeptAt(ju), e(m) \in C
      PROVE  h[m][1] = u[1] /\ h[m][2] = u[2]
  <2>1. h[m] \in AllOf(j) /\ ToldIn(j, h[m]) = ToldIn(j, u)
    BY <1>1, <1>2, <1>4, <1>9, MarkTells DEF Class
  <2> QED
    BY <2>1, AlikeTells DEF Alike
<1>10. ASSUME NEW i \in KeptAt(ju), NEW m \in KeptAt(ju), h[i][1] = h[m][1], h[i][2] = h[m][2]
       PROVE  i < m <=> h[i][3] < h[m][3]
  <2>1. i \in 1..Len(ju) /\ m \in 1..Len(ju) /\ i \in Nat /\ m \in Nat /\ h[i][3] \in Nat /\ h[m][3] \in Nat
    BY <1>2, <1>7
  <2>2. i < m => h[i][3] < h[m][3]
    BY <1>1, <1>10, <2>1
  <2>3. m < i => h[m][3] < h[i][3]
    BY <1>1, <1>10, <2>1
  <2>4. i < m \/ m < i \/ i = m
    BY <2>1
  <2>5. i = m => h[i][3] = h[m][3]
    OBVIOUS
  <2> QED
    BY <2>1, <2>2, <2>3, <2>4, <2>5
<1> HIDE DEF C, e
<1>11. ASSUME NEW i \in KeptAt(ju)
       PROVE  e(i) \in T <=> i \in K
  <2> DEFINE Sooner == \E z \in C \cap Kept(Account(j), hid) : e(i).mark[2] < z.mark[2]
             Later == \E m \in KeptAt(ju) : SpanKey(ju[m].finding) = SpanKey(f) /\ i < m
             Like == e(i).mark[1] = x.mark[1] /\ e(i).snip = x.snip
  <2>1. e(i) \in T <=> Like /\ Sooner
    BY <1>6 DEF Earlier
  <2>2. i \in K <=> PrintKey(j, ju[i].finding) = PrintKey(j, f) /\ Later
    BY DEF Preceding, Sharing
  <2>3. ASSUME Like, Sooner
        PROVE  Later
    <3>1. PICK z \in C \cap Kept(Account(j), hid) : e(i).mark[2] < z.mark[2]
      BY <2>3
    <3>2. PICK m \in KeptAt(ju) : z = e(m)
      BY <1>6, <3>1
    <3>3. e(m) \in C
      BY <3>1, <3>2
    <3>4. h[m][1] = h[i][1] /\ h[m][2] = h[i][2]
      BY <1>7, <1>9, <2>3, <3>3
    <3>5. h[i][3] < h[m][3]
      BY <1>7, <3>1, <3>2
    <3>6. i < m
      BY <1>10, <3>4, <3>5
    <3> QED
      BY <1>8, <3>3, <3>6
  <2>4. ASSUME Like, Later
        PROVE  Sooner
    <3>1. PICK m \in KeptAt(ju) : SpanKey(ju[m].finding) = SpanKey(f) /\ i < m
      BY <2>4
    <3>2. e(m) \in C /\ e(m) \in Kept(Account(j), hid)
      BY <1>6, <1>8, <3>1
    <3>3. h[m][1] = h[i][1] /\ h[m][2] = h[i][2]
      BY <1>7, <1>9, <2>4, <3>2
    <3>4. h[i][3] < h[m][3]
      BY <1>10, <3>1, <3>3
    <3>5. e(i).mark[2] < e(m).mark[2]
      BY <1>7, <3>4
    <3> QED
      BY <3>2, <3>5
  <2> HIDE DEF Sooner, Later, Like, T, K
  <2>5. PrintKey(j, ju[i].finding) = PrintKey(j, f) <=> Like
    BY <1>7 DEF Like
  <2> QED
    BY <2>1, <2>2, <2>3, <2>4, <2>5
<1>12. K \in SUBSET KeptAt(ju) /\ \A y \in T : \E i \in KeptAt(ju) : y = e(i)
  <2>1. \A y \in T : y \in Kept(Account(j), hid)
    BY DEF Earlier
  <2>2. K \in SUBSET KeptAt(ju)
    BY DEF Preceding, Sharing
  <2> QED
    BY <1>6, <2>1, <2>2
<1> HIDE DEF T, K
<1>13. g \in [K -> T] /\ \A y \in T : \E i \in K : g[i] = y
  BY <1>11, <1>12
<1>14. ASSUME NEW i \in K, NEW k \in K, g[i] = g[k]
       PROVE  i = k
  <2>1. i \in 1..Len(ju) /\ k \in 1..Len(ju) /\ e(i) = e(k)
    BY <1>2, <1>12, <1>14
  <2>2. h[i] = h[k]
    BY <1>1, <2>1, MarkTells DEF e
  <2> QED
    BY <1>1, <2>1, <2>2
<1>15. IsFiniteSet(K)
  <2>1. IsFiniteSet(1..Len(ju)) /\ K \in SUBSET (1..Len(ju))
    BY <1>1, <1>2, <1>12, UpToCount
  <2> QED
    BY <2>1, FS_Subset
<1>16. Cardinality(T) = Cardinality(K)
  <2> HIDE DEF g
  <2> QED
    BY <1>13, <1>14, <1>15, SameNumber
<1>17. /\ x.mark[1][2] = f.rule_id /\ x.path = RelativePath(f.location.file, j.root)
       /\ x.snip = SnipOf(j, f)
  BY <1>4, <1>5, EntryIs, SnipIs
<1>18. FingerprintFor(Account(j), hid, C) =
         <<"pons-fingerprint-v1", x.mark[1][2], x.path, <<x.snip, Cardinality(T)>>>>
  BY DEF FingerprintFor, x, T
<1> QED
  BY <1>16, <1>17, <1>18 DEF C, K

-----------------------------------------------------------------------------
\* What a report shows is what the account lists, in its order.

\* g tells what shown lists, in order and once; it lists what was kept but guesses.
Lists(j, ju, shown, g) ==
  /\ Len(shown) \in Nat /\ DOMAIN shown = 1..Len(shown)
  /\ Ordered(j, AllOf(j), shown, g) /\ Tidy(j, shown)
  /\ Range(shown) = {f \in {ju[i].finding : i \in KeptAt(ju)} : ~j.noSpeculative \/ f.evidence # "SPECULATIVE"}

\* --no-speculative leaves a finding out by its class, the account by its tier.
LEMMA GuessIs ==
  ASSUME NEW j, JobFits(j), NEW t \in AllOf(j)
  PROVE  ~Entry(j, t).guess <=> ~j.noSpeculative \/ ToldIn(j, t).evidence # "SPECULATIVE"
<1> DEFINE raw == RawOf(j, t)
<1>1. RawFits(raw)
  BY AllFacts
<1>2. ToldIn(j, t).evidence = EvidenceOf[raw.tier]
  BY DEF ToldIn, Finding
<1> HIDE DEF raw
<1>3. ToldIn(j, t).evidence = "SPECULATIVE" <=> raw.tier = "T3"
  BY <1>1, <1>2 DEF RawFits, Tier, EvidenceOf
<1>4. Entry(j, t).guess <=> j.noSpeculative /\ raw.tier = "T3"
  BY EntryIs DEF raw
<1> QED
  BY <1>3, <1>4

\* The classes shown, one by one.
LEMMA ListedIs ==
  ASSUME NEW j, JobFits(j), NEW ju, NEW h, Recounts(j, ju, h), NEW hid, Hides(j, ju, h, hid),
         NEW shown, NEW g, Lists(j, ju, shown, g)
  PROVE  /\ \A k \in 1..Len(shown) : \E i \in KeptAt(ju) : shown[k] = ju[i].finding
         /\ \A k \in 1..Len(shown) : Class(j, shown[k]) \in Listed(Account(j), hid)
         /\ \A C \in Listed(Account(j), hid) : \E k \in 1..Len(shown) : Class(j, shown[k]) = C
<1> DEFINE Fine(f) == ~j.noSpeculative \/ f.evidence # "SPECULATIVE"
<1>1. /\ Len(shown) \in Nat /\ DOMAIN shown = 1..Len(shown)
      /\ Range(shown) = {f \in {ju[i].finding : i \in KeptAt(ju)} : Fine(f)}
  BY DEF Lists
<1>2. \A i \in KeptAt(ju) : h[i] \in AllOf(j) /\ ju[i].finding = ToldIn(j, h[i])
  BY DEF Recounts, KeptAt
<1>3. ASSUME NEW i \in KeptAt(ju)
      PROVE  /\ ~Entry(j, h[i]).guess <=> Fine(ju[i].finding)
             /\ CopiesOf(Account(j), Entry(j, h[i])) = Class(j, ju[i].finding)
  BY <1>2, GuessIs, CopiesAre
<1> HIDE DEF Fine
<1>4. Kept(Account(j), hid) = {Entry(j, h[i]) : i \in KeptAt(ju)}
  BY KeptIs
<1>5. ASSUME NEW k \in 1..Len(shown)
      PROVE  \E i \in KeptAt(ju) : shown[k] = ju[i].finding /\ Fine(ju[i].finding)
  <2>1. shown[k] \in Range(shown)
    BY <1>1 DEF Range
  <2> QED
    BY <1>1, <2>1
<1>6. ASSUME NEW k \in 1..Len(shown)
      PROVE  Class(j, shown[k]) \in Listed(Account(j), hid)
  <2>1. PICK i \in KeptAt(ju) : shown[k] = ju[i].finding /\ Fine(ju[i].finding)
    BY <1>5
  <2>2. Entry(j, h[i]) \in Kept(Account(j), hid) /\ ~Entry(j, h[i]).guess
    BY <1>3, <1>4, <2>1
  <2>3. CopiesOf(Account(j), Entry(j, h[i])) \in Listed(Account(j), hid)
    BY <2>2 DEF Listed
  <2> QED
    BY <1>3, <2>1, <2>3
<1>7. ASSUME NEW C \in Listed(Account(j), hid)
      PROVE  \E k \in 1..Len(shown) : Class(j, shown[k]) = C
  <2>1. PICK x \in Kept(Account(j), hid) : ~x.guess /\ C = CopiesOf(Account(j), x)
    BY DEF Listed
  <2>2. PICK i \in KeptAt(ju) : x = Entry(j, h[i])
    BY <1>4
  <2>3. Fine(ju[i].finding) /\ C = Class(j, ju[i].finding)
    BY <1>3, <2>1, <2>2
  <2>4. ju[i].finding \in Range(shown)
    BY <1>1, <2>3
  <2>5. PICK k \in 1..Len(shown) : shown[k] = ju[i].finding
    BY <1>1, <2>4 DEF Range
  <2> QED
    BY <2>3, <2>5
<1> QED
  BY <1>5, <1>6, <1>7

\* Of two findings shown, the account has the first one first.
LEMMA ListOrderIs ==
  ASSUME NEW j, JobFits(j), NEW ju, NEW shown, NEW g, Lists(j, ju, shown, g), NEW hid,
         NEW i \in 1..Len(shown), NEW k \in 1..Len(shown), i < k,
         Class(j, shown[i]) \in Listed(Account(j), hid), Class(j, shown[k]) \in Listed(Account(j), hid)
  PROVE  /\ <<Class(j, shown[i]), Class(j, shown[k])>> \in ListOrder(Account(j), hid)
         /\ <<Class(j, shown[k]), Class(j, shown[i])>> \notin ListOrder(Account(j), hid)
<1> DEFINE C == Class(j, shown[i])
           D == Class(j, shown[k])
           t == g[i]
           u == g[k]
           L == Listed(Account(j), hid)
           After(P, Q) == \E x \in P, y \in Q : <<x, y>> \in Account(j).comes
<1>1. /\ t \in AllOf(j) /\ u \in AllOf(j) /\ shown[i] = ToldIn(j, t) /\ shown[k] = ToldIn(j, u)
      /\ ~BeforeIn(j, shown[k], shown[i])
      /\ ~BeforeIn(j, shown[i], shown[k]) /\ t[1] = u[1] /\ t[2] = u[2] => t[3] < u[3]
  BY DEF Lists, Ordered
<1>2. shown[i] # shown[k]
  <2>1. <<shown[i].rule_id, shown[i].location>> # <<shown[k].rule_id, shown[k].location>>
    BY DEF Lists, Tidy
  <2> QED
    BY <2>1
<1> HIDE DEF t, u
<1>3. ASSUME NEW v \in AllOf(j), ToldIn(j, v) = shown[i], NEW w \in AllOf(j), ToldIn(j, w) = shown[k]
      PROVE  Comes(j, v, w) /\ ~Comes(j, w, v)
  BY <1>1, <1>2, <1>3, CopiesCome
<1>4. Entry(j, t) \in C /\ Entry(j, u) \in D
  BY <1>1 DEF Class
<1>5. After(C, D)
  <2>1. <<Entry(j, t), Entry(j, u)>> \in Account(j).comes
    BY <1>1, <1>3, AccountIs
  <2> HIDE DEF C, D
  <2> QED
    BY <1>4, <2>1
<1>6. ~After(D, C)
  <2> SUFFICES ASSUME NEW x \in D, NEW y \in C, <<x, y>> \in Account(j).comes
               PROVE  FALSE
    OBVIOUS
  <2>1. PICK w \in AllOf(j) : x = Entry(j, w) /\ ToldIn(j, w) = shown[k]
    BY DEF Class
  <2>2. PICK v \in AllOf(j) : y = Entry(j, v) /\ ToldIn(j, v) = shown[i]
    BY DEF Class
  <2>3. PICK a, b \in AllOf(j) : x = Entry(j, a) /\ y = Entry(j, b) /\ Comes(j, a, b)
    BY AccountIs
  <2>4. a = w /\ b = v
    BY <2>1, <2>2, <2>3, MarkTells
  <2> QED
    BY <1>3, <2>1, <2>2, <2>3, <2>4
<1>7. C # D
  <2> SUFFICES ASSUME C = D PROVE FALSE
    OBVIOUS
  <2>1. Entry(j, t) \in D
    BY <1>4
  <2>2. PICK w \in AllOf(j) : Entry(j, t) = Entry(j, w) /\ ToldIn(j, w) = shown[k]
    BY <2>1 DEF Class
  <2>3. w = t
    BY <1>1, <2>2, MarkTells
  <2> QED
    BY <1>1, <1>2, <2>2, <2>3
<1>8. ListOrder(Account(j), hid) = {p \in L \X L : p[1] # p[2] /\ After(p[1], p[2])}
  BY DEF ListOrder
<1>9. C \in L /\ D \in L
  OBVIOUS
<1> HIDE DEF C, D, L, After
<1>10. <<C, D>> \in ListOrder(Account(j), hid) /\ <<D, C>> \notin ListOrder(Account(j), hid)
  <2>1. <<C, D>> \in L \X L /\ <<C, D>>[1] = C /\ <<C, D>>[2] = D /\ <<D, C>>[1] = D /\ <<D, C>>[2] = C
    BY <1>9
  <2> QED
    BY <1>5, <1>6, <1>7, <1>8, <2>1
<1> QED
  BY <1>10 DEF C, D

\* The fingerprints of what is shown are those to be expected.
LEMMA ExpectedIs ==
  ASSUME NEW j, JobFits(j), NEW ju, NEW h, Recounts(j, ju, h), NEW hid, Hides(j, ju, h, hid),
         NEW an, NumberedAnchors(j, ju, an), NEW shown, NEW g, Lists(j, ju, shown, g)
  PROVE  /\ Expected(Account(j), hid) =
              [k \in 1..Len(shown) |->
                 <<"pons-fingerprint-v1", shown[k].rule_id, RelativePath(shown[k].location.file, j.root),
                   an[SpanKey(shown[k])]>>]
         /\ \A k \in 1..Len(shown) : SpanKey(shown[k]) \in DOMAIN an
<1> DEFINE n == Len(shown)
           L == Listed(Account(j), hid)
           R == ListOrder(Account(j), hid)
           at == [k \in 1..n |-> Class(j, shown[k])]
           F == [C \in L |-> FingerprintFor(Account(j), hid, C)]
           fp(k) == <<"pons-fingerprint-v1", shown[k].rule_id, RelativePath(shown[k].location.file, j.root),
                      an[SpanKey(shown[k])]>>
<1>1. n \in Nat
  BY DEF Lists
<1>2. /\ \A k \in 1..n : \E i \in KeptAt(ju) : shown[k] = ju[i].finding
      /\ \A k \in 1..n : Class(j, shown[k]) \in L
      /\ \A C \in L : \E k \in 1..n : Class(j, shown[k]) = C
  BY ListedIs
<1>3. \A i, k \in 1..n : i < k => <<at[i], at[k]>> \in R /\ <<at[k], at[i]>> \notin R
  BY <1>2, ListOrderIs
<1>4. \A C \in L : <<C, C>> \notin R
  <2> SUFFICES ASSUME NEW C \in L, <<C, C>> \in R PROVE FALSE
    OBVIOUS
  <2>1. <<C, C>>[1] # <<C, C>>[2]
    BY DEF ListOrder
  <2> QED
    BY <2>1
<1>5. at \in [1..n -> L] /\ \A k \in 1..n : at[k] = Class(j, shown[k])
  BY <1>2
<1> HIDE DEF at, L, R, n
<1>6. InRow(at, n, L, R)
  BY <1>1, <1>2, <1>3, <1>4, <1>5 DEF InRow
<1>7. ASSUME NEW k \in 1..n
      PROVE  F[at[k]] = fp(k) /\ SpanKey(shown[k]) \in DOMAIN an
  <2>1. PICK i \in KeptAt(ju) : shown[k] = ju[i].finding
    BY <1>2
  <2>2. /\ SpanKey(shown[k]) \in DOMAIN an
        /\ an[SpanKey(shown[k])] = <<SnipOf(j, shown[k]), Cardinality(Preceding(j, ju, shown[k]))>>
    BY <2>1 DEF NumberedAnchors
  <2>3. FingerprintFor(Account(j), hid, Class(j, shown[k])) =
          <<"pons-fingerprint-v1", shown[k].rule_id, RelativePath(shown[k].location.file, j.root),
            <<SnipOf(j, shown[k]), Cardinality(Preceding(j, ju, shown[k]))>>>>
    BY <2>1, FingerprintIs
  <2>4. F[at[k]] = FingerprintFor(Account(j), hid, Class(j, shown[k]))
    BY <1>2, <1>5
  <2> HIDE DEF F
  <2> QED
    BY <2>2, <2>3, <2>4
<1>8. Expected(Account(j), hid) = Arranged(F, L, R)
  BY DEF Expected, F, L, R
<1> HIDE DEF F, fp
<1>9. Arranged(F, L, R) = [k \in 1..n |-> F[at[k]]]
  BY <1>6, ArrangedIs
<1>10. [k \in 1..n |-> F[at[k]]] = [k \in 1..n |-> fp(k)]
  BY <1>7
<1>11. Expected(Account(j), hid) = [k \in 1..n |-> fp(k)]
  BY <1>8, <1>9, <1>10
<1> QED
  BY <1>7, <1>11 DEF n, fp

-----------------------------------------------------------------------------
\* The fingerprints of a printed report.

\* A part of an ordered list is ordered.
LEMMA OrderedPart ==
  ASSUME NEW j, NEW A, NEW X, NEW s \in Seq(X), NEW g, Ordered(j, A, s, g),
         NEW K \in SUBSET (1..Len(s)), NEW new, new = At(s, K)
  PROVE  \E f : Ordered(j, A, new, f)
<1>1. Len(s) \in Nat
  OBVIOUS
<1>2. PICK at : /\ Picks(at, s, K, {p \in K \X K : p[1] < p[2]}, new)
                /\ \A i, k \in 1..Cardinality(K) : i < k <=> at[i] < at[k]
  <2>1. \E at : /\ Picks(at, s, K, {p \in K \X K : p[1] < p[2]}, At(s, K))
                /\ \A i, k \in 1..Cardinality(K) : i < k <=> at[i] < at[k]
    BY <1>1, AtPicks
  <2> QED
    BY <2>1
<1>3. PickedFrom(X, s, K, at, new)
  BY <1>2, Picked
<1>4. /\ Len(new) = Cardinality(K) /\ DOMAIN new = 1..Len(new)
      /\ \A n \in 1..Len(new) : at[n] \in 1..Len(s) /\ new[n] = s[at[n]]
  BY <1>3 DEF PickedFrom
<1>5. \A i, k \in 1..Len(new) : i < k => at[i] < at[k]
  BY <1>2, <1>4
<1> DEFINE f == [n \in 1..Len(new) |-> g[at[n]]]
<1>6. /\ g \in [1..Len(s) -> A]
      /\ \A n \in 1..Len(s) : s[n] = ToldIn(j, g[n])
      /\ \A m, n \in 1..Len(s) : m < n =>
           /\ ~BeforeIn(j, s[n], s[m])
           /\ ~BeforeIn(j, s[m], s[n]) /\ g[m][1] = g[n][1] /\ g[m][2] = g[n][2] => g[m][3] < g[n][3]
  BY DEF Ordered
<1>7. f \in [1..Len(new) -> A] /\ \A n \in 1..Len(new) : f[n] = g[at[n]]
  BY <1>4, <1>6
<1> HIDE DEF f
<1>8. \A n \in 1..Len(new) : new[n] = ToldIn(j, f[n])
  BY <1>4, <1>6, <1>7
<1>9. ASSUME NEW m \in 1..Len(new), NEW n \in 1..Len(new), m < n
      PROVE  /\ ~BeforeIn(j, new[n], new[m])
             /\ ~BeforeIn(j, new[m], new[n]) /\ f[m][1] = f[n][1] /\ f[m][2] = f[n][2] => f[m][3] < f[n][3]
  <2> DEFINE a == at[m]
             b == at[n]
  <2>1. /\ a \in 1..Len(s) /\ b \in 1..Len(s) /\ a < b /\ new[m] = s[a] /\ new[n] = s[b]
        /\ f[m] = g[a] /\ f[n] = g[b]
    BY <1>4, <1>5, <1>7, <1>9
  <2> HIDE DEF a, b
  <2>2. /\ ~BeforeIn(j, s[b], s[a])
        /\ ~BeforeIn(j, s[a], s[b]) /\ g[a][1] = g[b][1] /\ g[a][2] = g[b][2] => g[a][3] < g[b][3]
    BY <1>6, <2>1
  <2> QED
    BY <2>1, <2>2
<1>10. Ordered(j, A, new, f)
  BY <1>7, <1>8, <1>9 DEF Ordered
<1> QED
  BY <1>10

\* What is shown is what was kept, each finding once, without the guesses left out.
LEMMA ShownLists ==
  ASSUME Inv, PrintsInv, Collected, NEW shown, shown = Shown(findings)
  PROVE  \E g : Lists(job, judged, shown, g)
<1> DEFINE K == {k \in DOMAIN findings : Wanted(findings[k])}
<1>1. /\ Len(shown) \in Nat /\ DOMAIN shown = 1..Len(shown)
      /\ Range(shown) = {f \in Range(findings) : Wanted(f)} /\ Tidy(job, shown)
  BY ShownFacts
<1>2. Range(findings) = {judged[i].finding : i \in KeptAt(judged)}
  BY AllIsRead DEF Sifted
<1>3. findings \in Seq(Findings(job, AllRaised))
  BY AllIsRead
<1>4. shown = At(findings, K)
  BY DEF Shown, Retain, Wanted
<1>5. RaisedIn(job, ReadFiles) = AllOf(job)
  <2>1. Opened = job.files
    BY DEF Inv, Shape, Collected, Opened
  <2> QED
    BY <2>1 DEF ReadFiles, AllOf, AnalysedOf
<1>6. PICK e : Ordered(job, AllOf(job), findings, e)
  BY <1>5 DEF PrintsInv
<1>7. K \in SUBSET (1..Len(findings))
  BY <1>3
<1> HIDE DEF K
<1>8. PICK g : Ordered(job, AllOf(job), shown, g)
  BY <1>3, <1>4, <1>6, <1>7, OrderedPart
<1>9. Lists(job, judged, shown, g)
  BY <1>1, <1>2, <1>8 DEF Lists, Wanted
<1> QED
  BY <1>9

\* A printed report has the fingerprints that the account of its job gives.
LEMMA PrintedIsExpected ==
  ASSUME Inv, PrintsInv, Printed
  PROVE  Fingerprints(document) = Expected(Account(job), Hid)
<1> DEFINE shown == report.findings
           fp(k) == <<"pons-fingerprint-v1", shown[k].rule_id, RelativePath(shown[k].location.file, job.root),
                      anchors[SpanKey(shown[k])]>>
<1>1. Collected /\ shown = Shown(findings) /\ report.anchors = anchors /\ report.root = job.root /\ JobFits(job)
  BY PrintedFacts, AllIsRead
<1>2. PICK g : Lists(job, judged, shown, g)
  BY <1>1, ShownLists
<1>3. PICK h : Recounts(job, judged, h)
  BY <1>1, HowJudged
<1>4. Hides(job, judged, h, Hid)
  BY <1>1, <1>3, HidIs DEF Hides
<1>5. NumberedAnchors(job, judged, anchors)
  BY DEF PrintsInv
<1>6. DOMAIN shown = 1..Len(shown)
  BY <1>2 DEF Lists
<1>7. /\ Expected(Account(job), Hid) = [k \in 1..Len(shown) |-> fp(k)]
      /\ \A k \in 1..Len(shown) : SpanKey(shown[k]) \in DOMAIN anchors
  BY <1>1, <1>2, <1>3, <1>4, <1>5, ExpectedIs
<1>8. ASSUME NEW k \in 1..Len(shown)
      PROVE  Record(report, shown[k]).fingerprint = fp(k)
  <2>1. Anchor(report, shown[k]) = anchors[SpanKey(shown[k])]
    BY <1>1, <1>7 DEF Anchor, SpanKey
  <2>2. Record(report, shown[k]).fingerprint =
          <<"pons-fingerprint-v1", shown[k].rule_id, RelativePath(shown[k].location.file, report.root),
            Anchor(report, shown[k])>>
    BY RecordIs
  <2> QED
    BY <1>1, <2>1, <2>2
<1>9. document.evidence_contract.records = [k \in 1..Len(shown) |-> Record(report, shown[k])]
  BY <1>6, DocumentIs
<1> HIDE DEF shown, fp
<1>10. Fingerprints(document) = [k \in 1..Len(shown) |-> Record(report, shown[k]).fingerprint]
  <2> DEFINE r(k) == Record(report, shown[k])
  <2>1. document.evidence_contract.records = [k \in 1..Len(shown) |-> r(k)]
    BY <1>9
  <2> HIDE DEF r
  <2>2. DOMAIN document.evidence_contract.records = 1..Len(shown)
    BY <2>1
  <2>3. Fingerprints(document) = [k \in 1..Len(shown) |-> r(k).fingerprint]
    BY <2>1, <2>2 DEF Fingerprints
  <2> QED
    BY <2>3 DEF r
<1> QED
  BY <1>7, <1>8, <1>10

-----------------------------------------------------------------------------
\* Anchors are numbered as what was judged before them asks.

\* A finding that is hidden counts for nobody.
LEMMA HidingCounts ==
  ASSUME NEW j, NEW V, NEW ju \in Seq(V), NEW x \in V, x.kept = FALSE,
         NEW oc, NEW an, CountedSnippets(j, ju, oc), NumberedAnchors(j, ju, an)
  PROVE  CountedSnippets(j, Append(ju, x), oc) /\ NumberedAnchors(j, Append(ju, x), an)
<1> DEFINE new == Append(ju, x)
           n == Len(ju)
<1>1. /\ n \in Nat /\ Len(new) = n + 1
      /\ \A i \in 1..n : i \in 1..(n + 1) /\ new[i] = ju[i]
      /\ \A i \in 1..(n + 1) : i \in 1..n \/ i = n + 1
      /\ new[n + 1] = x
  BY AppendFacts
<1> HIDE DEF new, n
<1>2. KeptAt(new) = KeptAt(ju) /\ \A i \in KeptAt(ju) : new[i] = ju[i]
  <2>1. KeptAt(new) = {i \in 1..(n + 1) : new[i].kept}
    BY <1>1 DEF KeptAt
  <2>2. KeptAt(ju) = {i \in 1..n : ju[i].kept}
    BY DEF KeptAt, n
  <2> QED
    BY <1>1, <2>1, <2>2
<1>3. \A key : Sharing(j, new, key) = Sharing(j, ju, key)
  BY <1>2 DEF Sharing
<1>4. \A f : Preceding(j, new, f) = Preceding(j, ju, f)
  BY <1>2, <1>3 DEF Preceding
<1>5. CountedSnippets(j, new, oc)
  BY <1>3 DEF CountedSnippets
<1>6. NumberedAnchors(j, new, an)
  BY <1>2, <1>4 DEF NumberedAnchors
<1> QED
  BY <1>5, <1>6 DEF new

\* One that is kept counts as one more with its snippet, and anchors its span anew.
LEMMA KeepingCounts ==
  ASSUME NEW j, NEW V, NEW ju \in Seq(V), NEW x \in V, x.kept = TRUE, NEW f, f = x.finding,
         NEW oc, NEW an, CountedSnippets(j, ju, oc), NumberedAnchors(j, ju, an),
         NEW key, key = PrintKey(j, f), NEW seen, seen = SeenIn(oc, key)
  PROVE  /\ CountedSnippets(j, Append(ju, x), Insert(oc, key, seen + 1))
         /\ NumberedAnchors(j, Append(ju, x), Insert(an, SpanKey(f), <<SnipOf(j, f), seen>>))
<1> DEFINE new == Append(ju, x)
           n == Len(ju)
           oc2 == Insert(oc, key, seen + 1)
           span == SpanKey(f)
           an2 == Insert(an, span, <<SnipOf(j, f), seen>>)
<1>1. /\ n \in Nat /\ Len(new) = n + 1
      /\ \A i \in 1..n : i \in 1..(n + 1) /\ new[i] = ju[i]
      /\ \A i \in 1..(n + 1) : i \in 1..n \/ i = n + 1
      /\ new[n + 1] = x /\ n + 1 \in 1..(n + 1) /\ n + 1 \notin 1..n
  BY AppendFacts
<1>2. /\ \A k : SeenIn(oc2, k) = IF k = key THEN seen + 1 ELSE SeenIn(oc, k)
      /\ \A k : k \in DOMAIN an2 <=> k \in DOMAIN an \/ k = span
      /\ \A k \in DOMAIN an2 : an2[k] = IF k = span THEN <<SnipOf(j, f), seen>> ELSE an[k]
  <2> HIDE DEF span
  <2> QED
    BY DEF Insert, SeenIn
<1> HIDE DEF new, n, oc2, an2, span
<1>3. /\ KeptAt(new) = KeptAt(ju) \cup {n + 1} /\ \A i \in KeptAt(ju) : new[i] = ju[i] /\ i \in 1..n
      /\ KeptAt(ju) \in SUBSET (1..n)
  <2>1. KeptAt(new) = {i \in 1..(n + 1) : new[i].kept}
    BY <1>1 DEF KeptAt
  <2>2. KeptAt(ju) = {i \in 1..n : ju[i].kept}
    BY DEF KeptAt, n
  <2> QED
    BY <1>1, <2>1, <2>2
<1>4. ASSUME NEW k
      PROVE  /\ k # key => Sharing(j, new, k) = Sharing(j, ju, k)
             /\ k = key => Sharing(j, new, k) = Sharing(j, ju, k) \cup {n + 1}
             /\ n + 1 \notin Sharing(j, ju, k) /\ IsFiniteSet(Sharing(j, ju, k))
             /\ Sharing(j, ju, k) \in SUBSET (1..n)
  <2>1. PrintKey(j, new[n + 1].finding) = key
    BY <1>1
  <2>2. Sharing(j, ju, k) = {i \in KeptAt(ju) : PrintKey(j, ju[i].finding) = k}
    BY DEF Sharing
  <2>3. Sharing(j, new, k) = {i \in KeptAt(ju) \cup {n + 1} : PrintKey(j, new[i].finding) = k}
    BY <1>3 DEF Sharing
  <2>4. Sharing(j, ju, k) \in SUBSET (1..n)
    BY <1>3, <2>2
  <2>5. IsFiniteSet(Sharing(j, ju, k))
    <3>1. IsFiniteSet(1..n)
      BY <1>1, UpToCount
    <3> QED
      BY <2>4, <3>1, FS_Subset
  <2>6. \A i \in KeptAt(ju) : new[i] = ju[i]
    BY <1>3
  <2>7. n + 1 \notin Sharing(j, ju, k)
    BY <1>1, <2>4
  <2>8. k # key => Sharing(j, new, k) = Sharing(j, ju, k)
    BY <2>1, <2>2, <2>3, <2>6
  <2>9. k = key => Sharing(j, new, k) = Sharing(j, ju, k) \cup {n + 1}
    BY <2>1, <2>2, <2>3, <2>6
  <2> QED
    BY <2>4, <2>5, <2>7, <2>8, <2>9
<1>5. seen = Cardinality(Sharing(j, ju, key)) /\ \A k : SeenIn(oc, k) = Cardinality(Sharing(j, ju, k))
  BY DEF CountedSnippets
<1>6. CountedSnippets(j, new, oc2)
  <2> SUFFICES ASSUME NEW k PROVE SeenIn(oc2, k) = Cardinality(Sharing(j, new, k))
    BY DEF CountedSnippets
  <2>1. CASE k = key
    <3>1. Cardinality(Sharing(j, ju, key) \cup {n + 1}) = Cardinality(Sharing(j, ju, key)) + 1
      BY <1>4, FS_AddElement
    <3>2. Sharing(j, new, key) = Sharing(j, ju, key) \cup {n + 1}
      BY <1>4
    <3> QED
      BY <1>2, <1>5, <2>1, <3>1, <3>2
  <2>2. CASE k # key
    BY <1>2, <1>4, <1>5, <2>2
  <2> QED
    BY <2>1, <2>2
<1>7. ASSUME NEW m \in KeptAt(new), SpanKey(new[m].finding) = span
      PROVE  Preceding(j, new, new[m].finding) = Sharing(j, ju, key) /\ SnipOf(j, new[m].finding) = SnipOf(j, f)
  <2> DEFINE g == new[m].finding
  <2>1. PrintKey(j, g) = key /\ SnipOf(j, g) = SnipOf(j, f)
    BY <1>7, SpanTells DEF span
  <2> HIDE DEF g
  <2>2. Preceding(j, new, g) =
          {i \in Sharing(j, new, key) : \E k \in KeptAt(new) : SpanKey(new[k].finding) = span /\ i < k}
    BY <1>7, <2>1 DEF Preceding, g
  <2>3. Sharing(j, new, key) = Sharing(j, ju, key) \cup {n + 1} /\ Sharing(j, ju, key) \in SUBSET (1..n)
    BY <1>4
  <2>4. n + 1 \in KeptAt(new) /\ SpanKey(new[n + 1].finding) = span
    BY <1>1, <1>3 DEF span
  <2>5. \A i \in Sharing(j, ju, key) : i < n + 1
    BY <1>1, <2>3
  <2>6. \A k \in KeptAt(new) : ~(n + 1 < k)
    BY <1>1, <1>3
  <2>7. n + 1 \notin Sharing(j, ju, key)
    BY <1>4
  <2>8. Preceding(j, new, g) = Sharing(j, ju, key)
    BY <2>2, <2>3, <2>4, <2>5, <2>6, <2>7
  <2> QED
    BY <2>1, <2>8 DEF g
<1>8. ASSUME NEW m \in KeptAt(new), SpanKey(new[m].finding) # span
      PROVE  m \in KeptAt(ju) /\ new[m] = ju[m] /\ Preceding(j, new, new[m].finding) = Preceding(j, ju, ju[m].finding)
  <2>1. SpanKey(new[n + 1].finding) = span
    BY <1>1 DEF span
  <2>2. m \in KeptAt(ju) /\ new[m] = ju[m] /\ m \in 1..n
    BY <1>3, <1>8, <2>1
  <2> DEFINE g == ju[m].finding
             P(s, i) == \E k \in KeptAt(s) : SpanKey(s[k].finding) = SpanKey(g) /\ i < k
  <2>3. SpanKey(g) # span
    BY <1>8, <2>2
  <2> HIDE DEF g
  <2>4. \A i : P(new, i) <=> P(ju, i)
    BY <1>3, <2>1, <2>3
  <2>5. \A i \in Sharing(j, new, PrintKey(j, g)) : i \in Sharing(j, ju, PrintKey(j, g)) \/ i = n + 1
    BY <1>4
  <2>6. \A i \in Sharing(j, ju, PrintKey(j, g)) : i \in Sharing(j, new, PrintKey(j, g))
    BY <1>4
  <2>7. ~P(ju, n + 1)
    <3> SUFFICES ASSUME NEW k \in KeptAt(ju), n + 1 < k PROVE FALSE
      OBVIOUS
    <3>1. k \in 1..n
      BY <1>3
    <3> QED
      BY <1>1, <2>7, <3>1
  <2>8. /\ Preceding(j, new, g) = {i \in Sharing(j, new, PrintKey(j, g)) : P(new, i)}
        /\ Preceding(j, ju, g) = {i \in Sharing(j, ju, PrintKey(j, g)) : P(ju, i)}
    BY DEF Preceding
  <2> HIDE DEF P
  <2>9. Preceding(j, new, g) = Preceding(j, ju, g)
    BY <2>4, <2>5, <2>6, <2>7, <2>8
  <2> QED
    BY <2>2, <2>9 DEF g
<1>9. NumberedAnchors(j, new, an2)
  <2> SUFFICES ASSUME NEW m \in KeptAt(new)
               PROVE  /\ SpanKey(new[m].finding) \in DOMAIN an2
                      /\ an2[SpanKey(new[m].finding)]
                           = <<SnipOf(j, new[m].finding), Cardinality(Preceding(j, new, new[m].finding))>>
    BY DEF NumberedAnchors
  <2>1. CASE SpanKey(new[m].finding) = span
    BY <1>2, <1>5, <1>7, <2>1
  <2>2. CASE SpanKey(new[m].finding) # span
    <3>1. /\ SpanKey(ju[m].finding) \in DOMAIN an
          /\ an[SpanKey(ju[m].finding)] = <<SnipOf(j, ju[m].finding), Cardinality(Preceding(j, ju, ju[m].finding))>>
      BY <1>8, <2>2 DEF NumberedAnchors
    <3> QED
      BY <1>2, <1>8, <2>2, <3>1
  <2> QED
    BY <2>1, <2>2
<1> QED
  BY <1>6, <1>9 DEF new, oc2, an2, span

\* Steps that leave the counts alone.
LEMMA PrintsIdle ==
  ASSUME PrintsInv, UNCHANGED <<job, judged, occurrences, anchors, earlier>>,
         Collected' => Collected /\ findings' = findings /\ ReadFiles' = ReadFiles
  PROVE  PrintsInv'
<1>1. CountedSnippets(job, judged, occurrences)' /\ NumberedAnchors(job, judged, anchors)'
  BY DEF PrintsInv
<1>2. earlier' # None => earlier'.fingerprints = Expected(Account(job'), earlier'.hid)
  BY DEF PrintsInv
<1>3. Collected' => \E g : Ordered(job', RaisedIn(job', ReadFiles'), findings', g)
  BY DEF PrintsInv
<1> QED
  BY <1>1, <1>2, <1>3 DEF PrintsInv

\* Judge counts right.
LEMMA JudgePrints ==
  ASSUME Inv, PrintsInv, Judge, UNCHANGED reportVars
  PROVE  PrintsInv'
<1> DEFINE text == TextOf(current)
           raw == Head(todo).raw
           at == FromNode(current, raw, text)
           finding == Finding(Head(todo).rule, raw, at)
           snippet == Folded(Slice(text, at.byte_start, at.byte_end))
           x == [finding |-> finding, kept |-> ~Hidden(finding)]
           V == Verdicts(job, RaisedIn(job, ReadFiles)) \cup {x}
<1>1. /\ phase = "read" /\ judged' = Append(judged, x)
      /\ UNCHANGED <<job, phase, earlier>>
  BY DEF Judge, reportVars
<1>2. Suppress(finding) \/ (~Hidden(finding) /\ Keep(finding, snippet))
  BY DEF Judge
<1>3. judged \in Seq(V)
  <2>1. judged \in Seq(Verdicts(job, RaisedIn(job, ReadFiles)))
    BY DEF Inv, Chronicle
  <2> HIDE DEF x
  <2> QED
    BY <2>1
<1>4. snippet = SnipOf(job, finding)
  <2>1. finding.location = at /\ at.file = current
    BY DEF Finding, FromNode
  <2>2. text = Decode(FileIn(job, current).artifact)
    BY OfTheJob
  <2> HIDE DEF finding, at, text
  <2> QED
    BY <2>1, <2>2 DEF SnipOf
<1>5. x.finding = finding /\ (x.kept <=> ~Hidden(finding)) /\ x \in V /\ Hidden(finding) \in BOOLEAN
  BY DEF Hidden
<1>6. x.kept = ~Hidden(finding)
  OBVIOUS
<1> HIDE DEF x, V, finding, snippet
<1>7. CountedSnippets(job, judged, occurrences) /\ NumberedAnchors(job, judged, anchors)
  BY DEF PrintsInv
<1>8. CountedSnippets(job, judged', occurrences') /\ NumberedAnchors(job, judged', anchors')
  <2>1. CASE Suppress(finding)
    <3>1. x.kept = FALSE /\ anchors' = anchors /\ occurrences' = occurrences
      BY <1>5, <1>6, <2>1 DEF Suppress
    <3> QED
      BY <1>1, <1>3, <1>5, <1>7, <3>1, HidingCounts
  <2>2. CASE ~Hidden(finding) /\ Keep(finding, snippet)
    <3> DEFINE key == <<finding.rule_id, finding.location.file, snippet>>
    <3>1. /\ anchors' = Insert(anchors, SpanKey(finding), <<snippet, Seen(key)>>)
          /\ occurrences' = Insert(occurrences, key, Seen(key) + 1)
      BY <2>2 DEF Keep
    <3>2. Seen(key) = SeenIn(occurrences, key) /\ key = PrintKey(job, finding)
      BY <1>4 DEF Seen, SeenIn, PrintKey
    <3>3. x.kept = TRUE
      BY <1>5, <1>6, <2>2
    <3> HIDE DEF key
    <3> QED
      BY <1>1, <1>3, <1>4, <1>5, <1>7, <3>1, <3>2, <3>3, KeepingCounts
  <2> QED
    BY <1>2, <2>1, <2>2
<1>9. ~Collected'
  BY <1>1 DEF Collected
<1>10. earlier' # None => earlier'.fingerprints = Expected(Account(job'), earlier'.hid)
  BY <1>1 DEF PrintsInv
<1> QED
  BY <1>1, <1>8, <1>9, <1>10 DEF PrintsInv

\* Finish leaves what was found in order.
LEMMA FinishPrints ==
  ASSUME Inv, PrintsInv, Finish, UNCHANGED reportVars
  PROVE  PrintsInv'
<1> DEFINE A == RaisedIn(job, ReadFiles)
           s == SortedBy(job, findings)
           K == {k \in DOMAIN s : k = 1 \/ ~Same(s[k], s[k-1])}
<1>1. /\ phase = "read" /\ pending = {} /\ todo = <<>> /\ phase' = "collected"
      /\ UNCHANGED <<job, pending, anchors, occurrences, judged, earlier>>
  BY DEF Finish, reportVars, engineVars
<1>2. /\ JobFits(job) /\ ReadFiles \in SUBSET job.files
      /\ Chronicle(job, ReadFiles, current, judged, <<>>)
      /\ findings \in Seq(Findings(job, A)) /\ InOrder(judged, findings)
  BY <1>1 DEF Inv, Shape, ReadFiles, Opened, Collected
<1>3. findings' = At(s, K)
  <2>1. Sorted(findings, FindingBefore) = s
    BY OfTheJob DEF SortedBy, Sorted
  <2>2. findings' = Dedup(Sorted(findings, FindingBefore), Same)
    BY DEF Finish
  <2> HIDE DEF s
  <2> QED
    BY <2>1, <2>2 DEF Dedup
<1>4. PICK g : InTurn(job, A, findings, g)
  BY <1>2, FoundInTurn
<1>5. s \in Seq(Findings(job, A)) /\ \E h : Ordered(job, A, s, h)
  BY <1>2, <1>4, SortedFindings
<1>6. PICK h : Ordered(job, A, s, h)
  BY <1>5
<1>7. K \in SUBSET (1..Len(s))
  <2> HIDE DEF s
  <2> QED
    BY <1>5
<1> HIDE DEF s, K
<1>8. \E f : Ordered(job, A, findings', f)
  BY <1>3, <1>5, <1>6, <1>7, OrderedPart
<1>9. ReadFiles' = ReadFiles
  BY <1>1 DEF ReadFiles, Opened
<1>10. /\ CountedSnippets(job, judged, occurrences)' /\ NumberedAnchors(job, judged, anchors)'
       /\ earlier' # None => earlier'.fingerprints = Expected(Account(job'), earlier'.hid)
  BY <1>1 DEF PrintsInv
<1>11. \E f : Ordered(job', RaisedIn(job', ReadFiles'), findings', f)
  BY <1>1, <1>8, <1>9
<1> QED
  BY <1>10, <1>11 DEF PrintsInv

\* Nothing judged, nothing counted.
LEMMA NothingCounted ==
  ASSUME NEW j
  PROVE  CountedSnippets(j, <<>>, <<>>) /\ NumberedAnchors(j, <<>>, <<>>)
<1>1. KeptAt(<<>>) = {}
  BY DEF KeptAt
<1>2. \A key : Sharing(j, <<>>, key) = {}
  BY <1>1 DEF Sharing
<1>3. Cardinality({}) = 0
  BY FS_EmptySet
<1>4. \A key : SeenIn(<<>>, key) = 0
  <2>1. DOMAIN <<>> = {}
    OBVIOUS
  <2> QED
    BY <2>1, Zenon DEF SeenIn
<1> QED
  BY <1>1, <1>2, <1>3, <1>4 DEF CountedSnippets, NumberedAnchors

LEMMA PrintsInit == Init => PrintsInv
BY NothingCounted DEF Init, CollectInit, CollectStart, PrintsInv, Collected

-----------------------------------------------------------------------------
\* The account of the moved sources.

Moves(j, file, p, m) == /\ JobFits(j) /\ OptionsFit(j) /\ file \in j.files
                        /\ p \in LineEnds(file) /\ m = JobMoved(j, file, p)

\* What is raised there again, and how far into the text.
Along(j, t) == <<RootedIn(j, t[1]), t[2], t[3]>>
Put(file, p, f, k) == IF f = file THEN Shift(Decoded(file.artifact, p), k) ELSE k

\* Of the job only places and files change.
LEMMA MovedJob ==
  ASSUME NEW j, NEW file, NEW p, NEW m, Moves(j, file, p, m)
  PROVE  /\ JobFits(m) /\ m.root = RootedIn(j, j.root) /\ m.base = j.elsewhere
         /\ m.files = {FileMoved(j, file, p, f) : f \in j.files}
         /\ \A l : For(m, l) = For(j, l)
         /\ m.noSpeculative = j.noSpeculative
<1>1. JobFits(m)
  BY JobsMove DEF Moves
<1>2. {"root", "base", "elsewhere", "files", "select", "noSpeculative"} \subseteq DOMAIN j
  BY DEF Moves, JobFits, OptionsFit
<1> DEFINE root == RootedIn(j, j.root)
           files == {FileMoved(j, file, p, f) : f \in j.files}
<1>3. m = [j EXCEPT !.root = root, !.base = j.elsewhere, !.files = files]
  BY DEF Moves, JobMoved
<1> HIDE DEF root, files
<1>4. /\ m.root = root /\ m.base = j.elsewhere /\ m.files = files
      /\ m.select = j.select /\ m.noSpeculative = j.noSpeculative
  BY <1>2, <1>3
<1>5. RulesOf(m) = RulesOf(j)
  BY <1>4 DEF RulesOf
<1>6. \A l : For(m, l) = For(j, l)
  BY <1>5 DEF For
<1> QED
  BY <1>1, <1>4, <1>6 DEF root, files

\* What of a file the blank line changes.
LEMMA SpacedIs ==
  ASSUME NEW f, FileFits(f), NEW p
  PROVE  /\ Spaced(f, p).language = f.language /\ Spaced(f, p).outcome = f.outcome
         /\ Spaced(f, p).artifact = InsertAt(f.artifact, p + 1, Newline)
         /\ Spaced(f, p).raws = [r \in DOMAIN f.raws |-> ShiftRaws(Decoded(f.artifact, p), f.raws[r])]
<1> DEFINE q == Decoded(f.artifact, p)
           new == InsertAt(f.artifact, p + 1, Newline)
           comments == {[c EXCEPT !.at = Shift(q, @)] : c \in f.comments}
           raws == [r \in DOMAIN f.raws |-> ShiftRaws(q, f.raws[r])]
<1>1. Spaced(f, p) = [f EXCEPT !.artifact = new, !.comments = comments, !.raws = raws]
  BY DEF Spaced
<1>2. {"path", "rank", "language", "outcome", "artifact", "comments", "raws"} \subseteq DOMAIN f
  BY DEF FileFits
<1> HIDE DEF q, new, comments, raws
<1>3. /\ Spaced(f, p).language = f.language /\ Spaced(f, p).outcome = f.outcome
      /\ Spaced(f, p).artifact = new /\ Spaced(f, p).raws = raws
  BY <1>1, <1>2
<1> QED
  BY <1>3 DEF new, raws, q

\* A file as it is found again.
Again(j, file, p, f, g) ==
  /\ FileFits(f) /\ FileFits(g) /\ g.path = RootedIn(j, f.path) /\ g.rank = f.rank
  /\ g.language = f.language /\ g.outcome = f.outcome
  /\ g.artifact = IF f = file THEN InsertAt(f.artifact, p + 1, Newline) ELSE f.artifact
  /\ DOMAIN g.raws = DOMAIN f.raws
  /\ \A r \in DOMAIN f.raws :
       g.raws[r] = IF f = file THEN ShiftRaws(Decoded(f.artifact, p), f.raws[r]) ELSE f.raws[r]

\* Each file is found again, with its rank, at its new path.
LEMMA FileAgain ==
  ASSUME NEW j, NEW file, NEW p, NEW m, Moves(j, file, p, m), NEW f \in j.files
  PROVE  /\ Again(j, file, p, f, FileMoved(j, file, p, f))
         /\ FileIn(m, RootedIn(j, f.path)) = FileMoved(j, file, p, f)
         /\ Rebased(Component, j.base, j.elsewhere, f.path, RootedIn(j, f.path))
<1> DEFINE g == FileMoved(j, file, p, f)
           h == IF f = file THEN Spaced(f, p) ELSE f
           path == RootedIn(j, f.path)
<1>1. /\ JobFits(j) /\ p \in LineEnds(file) /\ FileFits(f)
  BY DEF Moves, JobFits
<1>2. /\ FileFits(g) /\ g.path = path /\ g.rank = f.rank
      /\ Rebased(Component, j.base, j.elsewhere, f.path, g.path)
  BY <1>1, FilesMove
<1>3. g \in m.files /\ JobFits(m)
  BY MovedJob
<1>4. FileIn(m, path) = g
  <2> HIDE DEF g
  <2> QED
    BY <1>2, <1>3, FileIs
<1>5. FileFits(h) /\ h.path = f.path
  BY <1>1, SpacedFits
<1>6. g = [h EXCEPT !.path = path]
  BY <1>5 DEF FileMoved
<1>7. g.language = h.language /\ g.outcome = h.outcome /\ g.artifact = h.artifact /\ g.raws = h.raws
  <2> HIDE DEF g, h, path
  <2>1. {"path", "rank", "language", "outcome", "artifact", "comments", "raws"} \subseteq DOMAIN h
    BY <1>5 DEF FileFits
  <2> QED
    BY <1>6, <2>1
<1>8. /\ h.language = f.language /\ h.outcome = f.outcome
      /\ h.artifact = IF f = file THEN InsertAt(f.artifact, p + 1, Newline) ELSE f.artifact
      /\ DOMAIN h.raws = DOMAIN f.raws
      /\ \A r \in DOMAIN f.raws :
           h.raws[r] = IF f = file THEN ShiftRaws(Decoded(f.artifact, p), f.raws[r]) ELSE f.raws[r]
  <2> DEFINE s == Spaced(f, p)
             q == Decoded(f.artifact, p)
             new == InsertAt(f.artifact, p + 1, Newline)
  <2>1. /\ s.language = f.language /\ s.outcome = f.outcome /\ s.artifact = new
        /\ s.raws = [r \in DOMAIN f.raws |-> ShiftRaws(q, f.raws[r])]
    BY <1>1, SpacedIs
  <2> HIDE DEF s, q, new
  <2>2. DOMAIN s.raws = DOMAIN f.raws /\ \A r \in DOMAIN f.raws : s.raws[r] = ShiftRaws(q, f.raws[r])
    BY <2>1
  <2>3. h = IF f = file THEN s ELSE f
    BY DEF s
  <2> HIDE DEF h
  <2>4. CASE f = file
    BY <2>1, <2>2, <2>3, <2>4 DEF q, new
  <2>5. CASE f # file
    BY <2>3, <2>5
  <2> QED
    BY <2>4, <2>5
<1>9. Again(j, file, p, f, g)
  <2> HIDE DEF g, h, path
  <2>1. g.path = RootedIn(j, f.path)
    BY <1>2 DEF path
  <2> QED
    BY <1>1, <1>2, <1>7, <1>8, <2>1 DEF Again
<1> QED
  BY <1>2, <1>4, <1>9

\* What is raised, one by one.
Names(j, f, r, k, t) ==
  f \in j.files /\ f.outcome = "analysed" /\ r \in For(j, f.language) /\ k \in DOMAIN f.raws[r.id]
  /\ t = <<f.path, r.id, k>>

LEMMA AllIs ==
  \A j, t : t \in AllOf(j) <=> \E f, r, k : Names(j, f, r, k, t)
BY DEF AllOf, RaisedIn, Triples, AnalysedOf, Names

\* A rule's findings in a file are a list of raws.
LEMMA RuleKnown ==
  ASSUME NEW j, NEW f, FileFits(f), NEW r \in For(j, f.language)
  PROVE  r.id \in DOMAIN f.raws /\ RawsFit(f.raws[r.id])
<1>1. PICK n \in DOMAIN Registry : r = Registry[n]
  BY RulesAre DEF For, RuleList, Range
<1> QED
  BY <1>1 DEF FileFits

\* What a rule raises is raised again, and nothing else is.
LEMMA NamesMove ==
  ASSUME NEW j, NEW file, NEW p, NEW m, Moves(j, file, p, m), NEW f \in j.files, NEW r, NEW k, NEW t
  PROVE  /\ Names(j, f, r, k, t) => Names(m, FileMoved(j, file, p, f), r, k, Along(j, t))
         /\ Names(m, FileMoved(j, file, p, f), r, k, t) =>
              Names(j, f, r, k, <<f.path, r.id, k>>) /\ t = Along(j, <<f.path, r.id, k>>)
<1> DEFINE g == FileMoved(j, file, p, f)
<1>1. Again(j, file, p, f, g) /\ g \in m.files /\ For(m, f.language) = For(j, f.language)
  BY FileAgain, MovedJob
<1> HIDE DEF g
<1>2. r \in For(j, f.language) => DOMAIN g.raws[r.id] = DOMAIN f.raws[r.id]
  <2> SUFFICES ASSUME r \in For(j, f.language) PROVE DOMAIN g.raws[r.id] = DOMAIN f.raws[r.id]
    OBVIOUS
  <2>1. r.id \in DOMAIN f.raws
    BY <1>1, RuleKnown DEF Again
  <2> QED
    BY <1>1, <2>1 DEF Again, ShiftRaws
<1>3. /\ g.path = RootedIn(j, f.path) /\ g.language = f.language /\ g.outcome = f.outcome
  BY <1>1 DEF Again
<1>4. Names(j, f, r, k, t) => Names(m, g, r, k, Along(j, t))
  BY <1>1, <1>2, <1>3 DEF Names, Along
<1>5. Names(m, g, r, k, t) => Names(j, f, r, k, <<f.path, r.id, k>>) /\ t = Along(j, <<f.path, r.id, k>>)
  BY <1>1, <1>2, <1>3 DEF Names, Along
<1> QED
  BY <1>4, <1>5 DEF g

LEMMA AllMove ==
  ASSUME NEW j, NEW file, NEW p, NEW m, Moves(j, file, p, m)
  PROVE  AllOf(m) = {Along(j, t) : t \in AllOf(j)}
<1>1. ASSUME NEW t \in AllOf(j)
      PROVE  Along(j, t) \in AllOf(m)
  <2>1. PICK f, r, k : Names(j, f, r, k, t)
    BY AllIs
  <2>2. f \in j.files
    BY <2>1 DEF Names
  <2>3. Names(m, FileMoved(j, file, p, f), r, k, Along(j, t))
    BY <2>1, <2>2, NamesMove
  <2> QED
    BY <2>3, AllIs
<1>2. ASSUME NEW t \in AllOf(m)
      PROVE  \E u \in AllOf(j) : t = Along(j, u)
  <2>1. PICK g, r, k : Names(m, g, r, k, t)
    BY AllIs
  <2>2. PICK f \in j.files : g = FileMoved(j, file, p, f)
    BY <2>1, MovedJob DEF Names
  <2>3. Names(j, f, r, k, <<f.path, r.id, k>>) /\ t = Along(j, <<f.path, r.id, k>>)
    BY <2>1, <2>2, NamesMove
  <2> QED
    BY <2>3, AllIs
<1> QED
  BY <1>1, <1>2

\* A raw comes again, put further on when it is below the blank line.
LEMMA RawMoves ==
  ASSUME NEW j, NEW file, NEW p, NEW m, Moves(j, file, p, m), NEW t \in AllOf(j)
  PROVE  LET f == FileIn(j, t[1])  raw == RawOf(j, t)  new == RawOf(m, Along(j, t)) IN
         /\ f \in j.files /\ f.path = t[1] /\ FileIn(m, Along(j, t)[1]) = FileMoved(j, file, p, f)
         /\ new.from = Put(file, p, f, raw.from) /\ new.to = Put(file, p, f, raw.to - 1) + 1
         /\ new.tier = raw.tier
<1> DEFINE f == FileIn(j, t[1])
           g == FileMoved(j, file, p, f)
           q == Decoded(file.artifact, p)
           raw == RawOf(j, t)
           new == RawOf(m, Along(j, t))
<1>1. JobFits(j) /\ f \in j.files /\ f.path = t[1] /\ RawFits(raw)
  BY AllFacts DEF Moves
<1>2. FileIn(m, RootedIn(j, f.path)) = g /\ Again(j, file, p, f, g)
  BY <1>1, FileAgain
<1>3. Along(j, t)[1] = RootedIn(j, f.path) /\ Along(j, t)[2] = t[2] /\ Along(j, t)[3] = t[3]
  BY <1>1 DEF Along
<1>4. FileIn(m, Along(j, t)[1]) = g
  BY <1>2, <1>3
<1>5. new = g.raws[t[2]][t[3]] /\ raw = f.raws[t[2]][t[3]]
  BY <1>3, <1>4 DEF RawOf
<1>6. t[2] \in DOMAIN f.raws /\ t[3] \in DOMAIN f.raws[t[2]]
  <2> HIDE DEF f
  <2>1. PICK h, r, k : Names(j, h, r, k, t)
    BY AllIs
  <2>2. h = f
    BY <1>1, <2>1 DEF Names, Moves, JobFits
  <2>3. r.id \in DOMAIN f.raws
    BY <1>2, <2>1, <2>2, RuleKnown DEF Names, Again
  <2> QED
    BY <2>1, <2>2, <2>3 DEF Names
<1> HIDE DEF f, g, raw, new
<1>7. new = IF f = file THEN ShiftRaw(q, raw) ELSE raw
  <2>1. g.raws[t[2]] = IF f = file THEN ShiftRaws(Decoded(f.artifact, p), f.raws[t[2]]) ELSE f.raws[t[2]]
    BY <1>2, <1>6 DEF Again
  <2> DEFINE raws == f.raws[t[2]]
  <2>2. ShiftRaws(q, raws)[t[3]] = ShiftRaw(q, raws[t[3]])
    BY <1>6 DEF ShiftRaws
  <2> HIDE DEF raws
  <2>3. CASE f = file
    <3>1. g.raws[t[2]] = ShiftRaws(q, raws)
      BY <2>1, <2>3 DEF raws
    <3> QED
      BY <1>5, <2>2, <2>3, <3>1 DEF raws
  <2>4. CASE f # file
    BY <1>5, <2>1, <2>4 DEF raws
  <2> QED
    BY <2>3, <2>4
<1>8. {"from", "to", "tier", "severity"} \subseteq DOMAIN raw /\ raw.from \in Nat /\ raw.to \in Nat
  BY <1>1 DEF RawFits
<1>9. /\ new.from = Put(file, p, f, raw.from) /\ new.to = Put(file, p, f, raw.to - 1) + 1
      /\ new.tier = raw.tier
  <2>1. CASE f = file
    <3> HIDE DEF q
    <3>1. new = [raw EXCEPT !.from = Shift(q, raw.from), !.to = Shift(q, raw.to - 1) + 1]
      BY <1>7, <2>1 DEF ShiftRaw
    <3>2. new.from = Shift(q, raw.from) /\ new.to = Shift(q, raw.to - 1) + 1 /\ new.tier = raw.tier
      BY <1>8, <3>1
    <3> QED
      BY <2>1, <3>2 DEF Put, q
  <2>2. CASE f # file
    BY <1>7, <1>8, <2>2 DEF Put
  <2> QED
    BY <2>1, <2>2
<1> QED
  BY <1>1, <1>4, <1>9 DEF f, g, raw, new

\* Its snippet is the same.
LEMMA SnipMoves ==
  ASSUME NEW j, NEW file, NEW p, NEW m, Moves(j, file, p, m), NEW t \in AllOf(j)
  PROVE  Snip(m, Along(j, t)) = Snip(j, t)
<1> DEFINE f == FileIn(j, t[1])
           g == FileMoved(j, file, p, f)
           raw == RawOf(j, t)
           new == RawOf(m, Along(j, t))
           a == f.artifact
           q == Decoded(file.artifact, p)
<1>1. /\ f \in j.files /\ FileIn(m, Along(j, t)[1]) = g
      /\ new.from = Put(file, p, f, raw.from) /\ new.to = Put(file, p, f, raw.to - 1) + 1
  BY RawMoves
<1>2. /\ raw.from \in Nat /\ raw.to \in Nat /\ raw.from < raw.to
      /\ Len(Decode(a)) \in Nat /\ raw.to <= Len(Decode(a)) /\ JobFits(j)
  <2>1. JobFits(j)
    BY DEF Moves
  <2>2. RawFits(raw)
    BY <2>1, AllFacts
  <2>3. Len(Decode(a)) \in Nat /\ raw.to <= Len(Decode(a))
    BY <2>1, ExtentFits DEF TextIn
  <2> QED
    BY <2>1, <2>2, <2>3 DEF RawFits
<1>3. Snip(j, t) = Folded(SubSeq(Decode(a), raw.from + 1, raw.to))
  BY DEF Snip, TextIn
<1>4. Snip(m, Along(j, t)) = Folded(SubSeq(Decode(g.artifact), new.from + 1, new.to))
  BY <1>1 DEF Snip, TextIn
<1>5. Again(j, file, p, f, g)
  BY <1>1, FileAgain
<1> HIDE DEF f, g, raw, new, a
<1>6. CASE f # file
  <2>1. g.artifact = a
    BY <1>5, <1>6 DEF Again, a
  <2>2. new.from = raw.from /\ new.to = raw.to
    BY <1>1, <1>2, <1>6 DEF Put
  <2> QED
    BY <1>3, <1>4, <2>1, <2>2
<1>7. CASE f = file
  <2> DEFINE b == InsertAt(a, p + 1, Newline)
             X == Range(a)
             Y == X \cup {"high", Newline}
  <2>1. g.artifact = b
    BY <1>5, <1>7 DEF Again, a
  <2>2. a \in Seq(X)
    BY <1>5 DEF Again, FileFits, a
  <2>3. p \in 0..Len(a) /\ (p = 0 \/ a[p] = Newline)
    <3>1. p \in LineEnds(f)
      BY <1>7 DEF Moves
    <3>2. DOMAIN a = 1..Len(a) /\ Len(a) \in Nat
      <4> HIDE DEF X
      <4> QED
        BY <2>2
    <3>3. p = 0 \/ (p \in DOMAIN a /\ a[p] = Newline)
      BY <3>1 DEF LineEnds, a
    <3> QED
      BY <3>2, <3>3
  <2> HIDE DEF X
  <2>4. b \in Seq(X \cup {Newline}) /\ TextGains(a, p, b)
    BY <2>2, <2>3, DecodeGains
  <2> HIDE DEF b
  <2>5. Decoded(a, p) = q
    BY <1>7 DEF q, a
  <2> HIDE DEF q
  <2>6. Gains(Decode(a), q, Decode(b)) /\ (q = 0 \/ Decode(a)[q] = Newline)
    BY <2>4, <2>5 DEF TextGains
  <2>7. Decode(a) \in Seq(Y)
    BY <2>2, DecodeIs
  <2>8. Decode(b) \in Seq(Y \cup {Newline})
    <3>1. Decode(b) \in Seq((X \cup {Newline}) \cup {"high", Newline})
      BY <2>4, DecodeIs
    <3>2. (X \cup {Newline}) \cup {"high", Newline} = Y \cup {Newline}
      OBVIOUS
    <3> QED
      BY <3>1, <3>2, Zenon
  <2>9. q \in Nat
    BY <1>2, <2>6 DEF Gains
  <2> HIDE DEF Y
  <2>10. Folded(SubSeq(Decode(b), Shift(q, raw.from) + 1, Shift(q, raw.to - 1) + 1))
           = Folded(SubSeq(Decode(a), raw.from + 1, raw.to))
    BY <1>2, <2>6, <2>7, <2>8, <2>9, SnippetStays
  <2>11. new.from = Shift(q, raw.from) /\ new.to = Shift(q, raw.to - 1) + 1
    BY <1>1, <1>7 DEF Put, q
  <2> QED
    BY <1>3, <1>4, <2>1, <2>10, <2>11
<1> QED
  BY <1>6, <1>7

\* What is below stays below, under the same name.
LEMMA BelowMoves ==
  ASSUME NEW X, NEW b, NEW e, NEW p \in Seq(X), NEW q \in Seq(X), NEW r, NEW s,
         Rebased(X, b, e, p, r), Rebased(X, b, e, q, s), Within(q, p)
  PROVE  Below(s, r) = Below(q, p)
<1>1. Within(s, r)
  <2>1. CASE p = q
    <3>2. r \in Seq(X) /\ s \in Seq(X) /\ Len(r) = Len(s)
      BY <2>1 DEF Rebased
    <3>3. \A i \in 1..Len(r) : r[i] = s[i]
      <4> SUFFICES ASSUME NEW i \in 1..Len(r) PROVE r[i] = s[i]
        OBVIOUS
      <4>1. CASE i <= Len(e)
        BY <4>1 DEF Rebased
      <4>2. CASE i > Len(e)
        <5>1. i - Len(e) \in 1..(Len(p) - Len(b)) /\ Len(e) + (i - Len(e)) = i
          BY <4>2 DEF Rebased
        <5> DEFINE k == i - Len(e)
        <5>2. r[Len(e) + k] = p[Len(b) + k] /\ s[Len(e) + k] = p[Len(b) + k]
          BY <2>1, <5>1 DEF Rebased
        <5>3. Len(e) + k = i
          BY <5>1
        <5> HIDE DEF k
        <5> QED
          BY <5>2, <5>3
      <4> QED
        BY <4>1, <4>2 DEF Rebased
    <3> QED
      BY <3>2, <3>3, PrefixIs DEF Within
  <2>2. CASE p # q
    <3>1. IsStrictPrefix(p, q)
      BY <2>2 DEF Within, IsStrictPrefix
    <3>2. IsStrictPrefix(r, s)
      BY <3>1, RebasedBelow
    <3> QED
      BY <3>2 DEF Within, IsStrictPrefix
  <2> QED
    BY <2>1, <2>2
<1> DEFINE u == Below(q, p)
           v == Below(s, r)
<1>2. r \in Seq(X) /\ s \in Seq(X)
  BY DEF Rebased
<1>3. Rebased(X, p, <<>>, q, u) /\ Rebased(X, r, <<>>, s, v)
  BY <1>1, <1>2, BelowIs
<1> HIDE DEF u, v
<1>4. /\ Len(p) \in Nat /\ Len(q) \in Nat /\ Len(b) \in Nat /\ Len(e) \in Nat
      /\ Len(b) <= Len(p) /\ Len(b) <= Len(q) /\ Len(p) <= Len(q)
      /\ Len(r) = Len(e) + (Len(p) - Len(b)) /\ Len(s) = Len(e) + (Len(q) - Len(b))
  BY <1>3 DEF Rebased
<1>5. Len(<<>>) = 0
  OBVIOUS
<1>6. /\ u \in Seq(X) /\ Len(u) = 0 + (Len(q) - Len(p)) /\ \A i \in 1..(Len(q) - Len(p)) : u[0 + i] = q[Len(p) + i]
      /\ v \in Seq(X) /\ Len(v) = 0 + (Len(s) - Len(r)) /\ \A i \in 1..(Len(s) - Len(r)) : v[0 + i] = s[Len(r) + i]
  BY <1>3, <1>5 DEF Rebased
<1>7. Len(s) - Len(r) = Len(q) - Len(p)
  BY <1>4
<1>8. ASSUME NEW i \in 1..Len(u)
      PROVE  v[i] = u[i]
  <2>1. i \in 1..(Len(q) - Len(p)) /\ 0 + i = i
    BY <1>4, <1>6
  <2>2. u[i] = q[Len(p) + i] /\ v[i] = s[Len(r) + i]
    BY <1>6, <1>7, <2>1
  <2> DEFINE k == (Len(p) - Len(b)) + i
  <2>3. k \in 1..(Len(q) - Len(b)) /\ Len(e) + k = Len(r) + i /\ Len(b) + k = Len(p) + i
    BY <1>4, <2>1
  <2> HIDE DEF k
  <2>4. s[Len(e) + k] = q[Len(b) + k]
    BY <2>3 DEF Rebased
  <2> QED
    BY <2>2, <2>3, <2>4
<1>9. Len(v) = Len(u)
  BY <1>4, <1>6, <1>7
<1>10. u = v
  BY <1>6, <1>8, <1>9, SeqEqual
<1> QED
  BY <1>10 DEF u, v

\* So is its path below the root.
LEMMA PathMoves ==
  ASSUME NEW j, NEW file, NEW p, NEW m, Moves(j, file, p, m), NEW f \in j.files
  PROVE  RelativePath(RootedIn(j, f.path), m.root) = RelativePath(f.path, j.root)
<1> DEFINE X == Component
           path == RootedIn(j, f.path)
           root == RootedIn(j, j.root)
<1>1. /\ JobFits(j) /\ m.root = root /\ f.path \in Seq(X) /\ PathFits(f.path, j)
      /\ j.root \in Seq(X) /\ j.base \in Seq(X) /\ j.elsewhere \in Seq(X) /\ Within(j.root, j.base)
  <2>1. m.root = root /\ JobFits(j)
    BY MovedJob DEF Moves
  <2> HIDE DEF root
  <2> QED
    BY <2>1 DEF JobFits, FileFits
<1>2. /\ Rebased(X, j.base, j.elsewhere, f.path, path)
      /\ Rebased(X, j.base, j.elsewhere, j.root, root)
  <2>1. Rebased(X, j.base, j.elsewhere, f.path, path)
    BY FileAgain
  <2>2. root = j.elsewhere \o Below(j.root, j.base)
    BY DEF RootedIn
  <2> HIDE DEF root, path, X
  <2>3. Rebased(X, j.base, j.elsewhere, j.root, root)
    BY <1>1, <2>2, Rebasing
  <2> QED
    BY <2>1, <2>3
<1> HIDE DEF X, path, root
<1>3. path = root <=> f.path = j.root
  <2>1. path = root => f.path = j.root
    BY <1>1, <1>2, RebasedTells
  <2>2. f.path = j.root => path = root
    BY DEF path, root
  <2> QED
    BY <2>1, <2>2
<1>4. CASE f.path # j.root
  <2>1. Within(f.path, j.root)
    BY <1>1, <1>4 DEF PathFits, IsStrictPrefix, Within
  <2>2. Below(path, root) = Below(f.path, j.root)
    BY <1>1, <1>2, <2>1, BelowMoves
  <2>3. BaseOf(path, root) = root /\ BaseOf(f.path, j.root) = j.root
    BY <1>3, <1>4 DEF BaseOf
  <2>4. Below(path, BaseOf(path, root)) = Below(f.path, BaseOf(f.path, j.root))
    BY <2>2, <2>3
  <2> QED
    BY <1>1, <2>4 DEF RelativePath, path
<1>5. CASE f.path = j.root
  <2> DEFINE n == Len(j.root)
             n2 == Len(root)
             nb == Len(j.base)
             ne == Len(j.elsewhere)
             up == SubSeq(j.root, 1, n - 1)
             up2 == SubSeq(root, 1, n2 - 1)
  <2>1. j.root # j.base
    BY <1>1, <1>5 DEF PathFits, IsStrictPrefix
  <2>2. n \in Nat /\ nb \in Nat /\ nb <= n /\ \A i \in 1..nb : j.base[i] = j.root[i]
    BY <1>1, PrefixIs DEF Within
  <2>3. nb < n
    <3> SUFFICES ASSUME nb = n PROVE FALSE
      BY <2>2
    <3>1. j.base = j.root
      BY <1>1, <2>2, SeqEqual
    <3> QED
      BY <2>1, <3>1
  <2>4. /\ n2 = ne + (n - nb) /\ ne \in Nat /\ root \in Seq(X)
        /\ \A i \in 1..ne : root[i] = j.elsewhere[i]
        /\ \A i \in 1..(n - nb) : root[ne + i] = j.root[nb + i]
        /\ \A i \in 1..nb : j.root[i] = j.base[i]
    BY <1>2 DEF Rebased
  <2>5. up \in Seq(X) /\ Len(up) = n - 1 /\ \A i \in 1..(n - 1) : up[i] = j.root[i]
    BY <1>1, <2>2, <2>3
  <2>6. up2 \in Seq(X) /\ Len(up2) = n2 - 1 /\ \A i \in 1..(n2 - 1) : up2[i] = root[i]
    <3>1. n2 \in Nat /\ n2 >= 1
      <4> HIDE DEF n, n2, nb, ne
      <4> QED
        BY <2>2, <2>3, <2>4
    <3>2. root \in Seq(X) /\ n2 - 1 \in Nat /\ 0 \in Nat /\ 0 <= n2 - 1 /\ n2 - 1 <= Len(root)
      <4>1. n2 = Len(root)
        OBVIOUS
      <4> HIDE DEF n2
      <4>2. n2 - 1 \in Nat /\ 0 \in Nat /\ 0 <= n2 - 1 /\ n2 - 1 <= n2
        BY <3>1
      <4> QED
        BY <2>4, <4>1, <4>2
    <3> DEFINE k == n2 - 1
    <3>3. up2 = SubSeq(root, 0 + 1, k) /\ k - 0 = k
      BY <3>1
    <3> HIDE DEF up2, k, n2
    <3>4. up2 \in Seq(X) /\ Len(up2) = k - 0 /\ \A i \in 1..(k - 0) : up2[i] = root[0 + i]
      BY <3>2, <3>3, PartIs DEF k
    <3>5. \A i \in 1..k : 0 + i = i
      BY <3>2 DEF k
    <3> QED
      BY <3>3, <3>4, <3>5 DEF k
  <2> HIDE DEF n, n2, up, up2
  <2>7. Rebased(X, j.base, j.elsewhere, up, up2)
    <3> HIDE DEF nb, ne
    <3>1. Len(up2) = ne + (Len(up) - nb) /\ Len(up) \in Nat /\ nb <= Len(up)
      BY <2>2, <2>3, <2>4, <2>5, <2>6
    <3>2. \A i \in 1..ne : up2[i] = j.elsewhere[i]
      <4>1. \A i \in 1..ne : i \in 1..(n2 - 1)
        BY <2>2, <2>3, <2>4
      <4> QED
        BY <2>4, <2>6, <4>1
    <3>3. \A i \in 1..(Len(up) - nb) : up2[ne + i] = up[nb + i]
      <4> SUFFICES ASSUME NEW i \in 1..(Len(up) - nb) PROVE up2[ne + i] = up[nb + i]
        OBVIOUS
      <4>1. i \in 1..(n - nb) /\ ne + i \in 1..(n2 - 1) /\ nb + i \in 1..(n - 1)
        BY <2>2, <2>3, <2>4, <2>5
      <4> QED
        BY <2>4, <2>5, <2>6, <4>1
    <3>4. \A i \in 1..nb : up[i] = j.base[i]
      BY <2>2, <2>3, <2>4, <2>5
    <3> QED
      BY <2>2, <2>4, <2>6, <3>1, <3>2, <3>3, <3>4 DEF Rebased, nb, ne
  <2>8. Within(j.root, up)
    <3>1. Len(up) <= Len(j.root)
      BY <2>2, <2>5 DEF n
    <3>2. \A i \in 1..Len(up) : up[i] = j.root[i]
      BY <2>5
    <3> QED
      BY <1>1, <2>5, <3>1, <3>2, PrefixIs DEF Within
  <2>9. Below(root, up2) = Below(j.root, up)
    BY <1>1, <1>2, <2>5, <2>7, <2>8, BelowMoves
  <2>10. BaseOf(path, root) = up2 /\ BaseOf(f.path, j.root) = up
    BY <1>3, <1>5 DEF BaseOf, up, up2, n, n2
  <2>11. Below(path, BaseOf(path, root)) = Below(f.path, BaseOf(f.path, j.root))
    BY <1>3, <1>5, <2>9, <2>10
  <2> QED
    BY <1>1, <2>11 DEF RelativePath, path
<1> QED
  BY <1>4, <1>5

\* And so is its entry.
LEMMA EntryMoves ==
  ASSUME NEW j, NEW file, NEW p, NEW m, Moves(j, file, p, m), NEW t \in AllOf(j)
  PROVE  Entry(m, Along(j, t)) = Entry(j, t)
<1> DEFINE f == FileIn(j, t[1])
           g == FileMoved(j, file, p, f)
           u == Along(j, t)
<1>1. /\ f \in j.files /\ f.path = t[1] /\ FileIn(m, u[1]) = g /\ RawOf(m, u).tier = RawOf(j, t).tier
  BY RawMoves
<1>2. g.rank = f.rank
  BY <1>1, FileAgain DEF Again
<1>3. u[1] = RootedIn(j, f.path) /\ u[2] = t[2] /\ u[3] = t[3]
  BY <1>1 DEF Along
<1>4. RankIn(m, u[1]) = RankIn(j, t[1])
  BY <1>1, <1>2 DEF RankIn
<1>5. RelativePath(u[1], m.root) = RelativePath(t[1], j.root)
  BY <1>1, <1>3, PathMoves
<1>6. Snip(m, u) = Snip(j, t)
  BY SnipMoves
<1>7. m.noSpeculative = j.noSpeculative
  BY MovedJob
<1> HIDE DEF u
<1>8. Mark(m, u) = Mark(j, t)
  BY <1>3, <1>4 DEF Mark
<1>9. Entry(m, u) = Entry(j, t)
  BY <1>1, <1>5, <1>6, <1>7, <1>8 DEF Entry
<1> QED
  BY <1>9 DEF u

\* Putting things further on keeps their order and tells them apart.
LEMMA PutFacts ==
  ASSUME NEW file, NEW p, NEW f, Decoded(file.artifact, p) \in Nat, NEW i \in Nat, NEW k \in Nat
  PROVE  /\ Put(file, p, f, i) \in Nat
         /\ Put(file, p, f, i) < Put(file, p, f, k) <=> i < k
         /\ Put(file, p, f, i) = Put(file, p, f, k) <=> i = k
<1> DEFINE q == Decoded(file.artifact, p)
<1>1. q \in Nat
  OBVIOUS
<1> HIDE DEF q
<1> QED
  BY <1>1 DEF Put, Shift, q

LEMMA LineWithin ==
  ASSUME NEW f, FileFits(f), NEW p \in LineEnds(f)
  PROVE  Decoded(f.artifact, p) \in Nat
<1> DEFINE a == f.artifact
           X == Range(a)
<1>1. a \in Seq(X)
  BY DEF FileFits
<1> HIDE DEF X
<1>2. p \in 0..Len(a) /\ (p = 0 \/ a[p] = Newline)
  <2>1. DOMAIN a = 1..Len(a) /\ Len(a) \in Nat
    <3> HIDE DEF a
    <3> QED
      BY <1>1
  <2>2. p = 0 \/ (p \in DOMAIN a /\ a[p] = Newline)
    BY DEF LineEnds
  <2> QED
    BY <2>1, <2>2
<1> HIDE DEF a
<1>3. TextGains(a, p, InsertAt(a, p + 1, Newline))
  BY <1>1, <1>2, DecodeGains
<1>4. Len(Decode(a)) \in Nat
  BY <1>1, DecodeIs
<1>5. Decoded(a, p) \in 0..Len(Decode(a))
  BY <1>3 DEF TextGains, Gains
<1>6. Decoded(a, p) \in Nat
  BY <1>4, <1>5
<1> QED
  BY <1>6 DEF a

\* What comes before what, and what is a copy of what, stay.
LEMMA OrderMoves ==
  ASSUME NEW j, NEW file, NEW p, NEW m, Moves(j, file, p, m), NEW t \in AllOf(j), NEW u \in AllOf(j)
  PROVE  /\ Comes(m, Along(j, t), Along(j, u)) <=> Comes(j, t, u)
         /\ Alike(m, Along(j, t), Along(j, u)) <=> Alike(j, t, u)
<1> DEFINE f == FileIn(j, t[1])
           v == Along(j, t)
           w == Along(j, u)
<1>1. Decoded(file.artifact, p) \in Nat
  BY LineWithin DEF Moves, JobFits
<1>2. JobFits(j) /\ JobFits(m) /\ v \in AllOf(m) /\ w \in AllOf(m)
  BY MovedJob, AllMove DEF Moves
<1>3. /\ RawOf(j, t).from \in Nat /\ RawOf(j, t).to - 1 \in Nat /\ RawOf(j, t).to \in Nat
      /\ RawOf(j, u).from \in Nat /\ RawOf(j, u).to - 1 \in Nat /\ RawOf(j, u).to \in Nat
  BY <1>2, AllFacts DEF RawFits
<1>4. RankIn(m, v[1]) = RankIn(j, t[1]) /\ RankIn(m, w[1]) = RankIn(j, u[1])
  <2>1. Entry(m, v) = Entry(j, t) /\ Entry(m, w) = Entry(j, u)
    BY EntryMoves
  <2> HIDE DEF v, w
  <2>2. /\ Entry(m, v).mark[1] = <<RankIn(m, v[1]), v[2]>> /\ Entry(j, t).mark[1] = <<RankIn(j, t[1]), t[2]>>
        /\ Entry(m, w).mark[1] = <<RankIn(m, w[1]), w[2]>> /\ Entry(j, u).mark[1] = <<RankIn(j, u[1]), u[2]>>
    BY EntryIs
  <2> QED
    BY <2>1, <2>2
<1>5. v[1] = w[1] <=> t[1] = u[1]
  <2>1. t[1] = u[1] => v[1] = w[1]
    BY DEF Along
  <2>2. v[1] = w[1] => RankIn(j, t[1]) = RankIn(j, u[1])
    BY <1>4
  <2>3. RankIn(j, t[1]) = RankIn(j, u[1]) => t[1] = u[1]
    BY <1>2, MarkTells
  <2> QED
    BY <2>1, <2>2, <2>3
<1>6. v[2] = t[2] /\ v[3] = t[3] /\ w[2] = u[2] /\ w[3] = u[3]
  BY DEF Along
<1>7. ASSUME t[1] = u[1]
      PROVE  /\ RawOf(m, v).from < RawOf(m, w).from <=> RawOf(j, t).from < RawOf(j, u).from
             /\ RawOf(m, v).from = RawOf(m, w).from <=> RawOf(j, t).from = RawOf(j, u).from
             /\ RawOf(m, v).to = RawOf(m, w).to <=> RawOf(j, t).to = RawOf(j, u).to
  <2> DEFINE a == RawOf(j, t)
             b == RawOf(j, u)
             c == RawOf(m, v)
             d == RawOf(m, w)
  <2>1. /\ c.from = Put(file, p, f, a.from) /\ c.to = Put(file, p, f, a.to - 1) + 1
    BY RawMoves
  <2>2. /\ d.from = Put(file, p, f, b.from) /\ d.to = Put(file, p, f, b.to - 1) + 1
    BY <1>7, RawMoves
  <2>3. /\ Put(file, p, f, a.from) < Put(file, p, f, b.from) <=> a.from < b.from
        /\ Put(file, p, f, a.from) = Put(file, p, f, b.from) <=> a.from = b.from
    BY <1>1, <1>3, PutFacts
  <2>4. /\ Put(file, p, f, a.to - 1) \in Nat /\ Put(file, p, f, b.to - 1) \in Nat
        /\ Put(file, p, f, a.to - 1) = Put(file, p, f, b.to - 1) <=> a.to - 1 = b.to - 1
    BY <1>1, <1>3, PutFacts
  <2>5. a.to - 1 = b.to - 1 <=> a.to = b.to
    BY <1>3
  <2> HIDE DEF a, b, c, d
  <2>6. c.from < d.from <=> a.from < b.from
    BY <2>1, <2>2, <2>3
  <2>7. c.from = d.from <=> a.from = b.from
    BY <2>1, <2>2, <2>3
  <2>8. c.to = d.to <=> a.to = b.to
    BY <2>1, <2>2, <2>4, <2>5
  <2> QED
    BY <2>6, <2>7, <2>8 DEF a, b, c, d
<1> HIDE DEF v, w, f
<1>8. Comes(m, v, w) <=> Comes(j, t, u)
  <2>1. CASE t[1] = u[1]
    BY <1>4, <1>5, <1>6, <1>7, <2>1 DEF Comes
  <2>2. CASE t[1] # u[1]
    BY <1>4, <1>5, <2>2 DEF Comes
  <2> QED
    BY <2>1, <2>2
<1>9. Alike(m, v, w) <=> Alike(j, t, u)
  <2>1. CASE t[1] = u[1]
    BY <1>5, <1>6, <1>7, <2>1 DEF Alike
  <2>2. CASE t[1] # u[1]
    BY <1>5, <2>2 DEF Alike
  <2> QED
    BY <2>1, <2>2
<1> QED
  BY <1>8, <1>9 DEF v, w

LEMMA PairsAre ==
  ASSUME NEW j
  PROVE  /\ \A x \in Account(j).comes : \E y, z : x = <<y, z>>
         /\ \A x \in Account(j).alike : \E y, z : x = <<y, z>>
<1> DEFINE E == {Entry(j, t) : t \in AllOf(j)}
           C == {<<Entry(j, p[1]), Entry(j, p[2])>> : p \in {p \in AllOf(j) \X AllOf(j) : Comes(j, p[1], p[2])}}
           A == {<<Entry(j, p[1]), Entry(j, p[2])>> : p \in {p \in AllOf(j) \X AllOf(j) : Alike(j, p[1], p[2])}}
<1>1. \A x \in C : \E y, z : x = <<y, z>>
  OBVIOUS
<1>2. \A x \in A : \E y, z : x = <<y, z>>
  OBVIOUS
<1> HIDE DEF E, C, A
<1>3. Account(j) = [entries |-> E, comes |-> C, alike |-> A]
  BY Zenon DEF Account, E, C, A
<1>4. Account(j).comes = C /\ Account(j).alike = A
  BY <1>3
<1> QED
  BY <1>1, <1>2, <1>4

\* The moved sources give the same account.
LEMMA AccountStays ==
  ASSUME NEW j, NEW file, NEW p, NEW m, Moves(j, file, p, m)
  PROVE  Account(m) = Account(j)
<1>1. /\ \A t \in AllOf(j) : Along(j, t) \in AllOf(m)
      /\ \A v \in AllOf(m) : \E t \in AllOf(j) : v = Along(j, t)
  BY AllMove
<1>2. \A t \in AllOf(j) : Entry(m, Along(j, t)) = Entry(j, t)
  BY EntryMoves
<1>3. \A t, u \in AllOf(j) : /\ Comes(m, Along(j, t), Along(j, u)) <=> Comes(j, t, u)
                             /\ Alike(m, Along(j, t), Along(j, u)) <=> Alike(j, t, u)
  BY OrderMoves
<1>4. Account(m).entries = Account(j).entries
  <2>1. {Entry(m, t) : t \in AllOf(m)} = {Entry(j, t) : t \in AllOf(j)}
    BY <1>1, <1>2
  <2> QED
    BY <2>1, AccountIs
<1>5. Account(m).comes = Account(j).comes
  <2>1. ASSUME NEW x, NEW y
        PROVE  <<x, y>> \in Account(m).comes => <<x, y>> \in Account(j).comes
    <3> SUFFICES ASSUME NEW v \in AllOf(m), NEW w \in AllOf(m), x = Entry(m, v), y = Entry(m, w), Comes(m, v, w)
                 PROVE  \E t, u \in AllOf(j) : x = Entry(j, t) /\ y = Entry(j, u) /\ Comes(j, t, u)
      BY AccountIs
    <3> QED
      BY <1>1, <1>2, <1>3
  <2>2. ASSUME NEW x, NEW y
        PROVE  <<x, y>> \in Account(j).comes => <<x, y>> \in Account(m).comes
    <3> SUFFICES ASSUME NEW t \in AllOf(j), NEW u \in AllOf(j), x = Entry(j, t), y = Entry(j, u), Comes(j, t, u)
                 PROVE  \E v, w \in AllOf(m) : x = Entry(m, v) /\ y = Entry(m, w) /\ Comes(m, v, w)
      BY AccountIs
    <3> QED
      BY <1>1, <1>2, <1>3
  <2>3. Account(m).comes \subseteq Account(j).comes
    <3> SUFFICES ASSUME NEW x \in Account(m).comes PROVE x \in Account(j).comes
      OBVIOUS
    <3>1. PICK y, z : x = <<y, z>>
      BY PairsAre
    <3> QED
      BY <2>1, <3>1
  <2>4. Account(j).comes \subseteq Account(m).comes
    <3> SUFFICES ASSUME NEW x \in Account(j).comes PROVE x \in Account(m).comes
      OBVIOUS
    <3>1. PICK y, z : x = <<y, z>>
      BY PairsAre
    <3> QED
      BY <2>2, <3>1
  <2> QED
    BY <2>3, <2>4
<1>6. Account(m).alike = Account(j).alike
  <2>1. ASSUME NEW x, NEW y
        PROVE  <<x, y>> \in Account(m).alike => <<x, y>> \in Account(j).alike
    <3> SUFFICES ASSUME NEW v \in AllOf(m), NEW w \in AllOf(m), x = Entry(m, v), y = Entry(m, w), Alike(m, v, w)
                 PROVE  \E t, u \in AllOf(j) : x = Entry(j, t) /\ y = Entry(j, u) /\ Alike(j, t, u)
      BY AccountIs
    <3> QED
      BY <1>1, <1>2, <1>3
  <2>2. ASSUME NEW x, NEW y
        PROVE  <<x, y>> \in Account(j).alike => <<x, y>> \in Account(m).alike
    <3> SUFFICES ASSUME NEW t \in AllOf(j), NEW u \in AllOf(j), x = Entry(j, t), y = Entry(j, u), Alike(j, t, u)
                 PROVE  \E v, w \in AllOf(m) : x = Entry(m, v) /\ y = Entry(m, w) /\ Alike(m, v, w)
      BY AccountIs
    <3> QED
      BY <1>1, <1>2, <1>3
  <2>3. Account(m).alike \subseteq Account(j).alike
    <3> SUFFICES ASSUME NEW x \in Account(m).alike PROVE x \in Account(j).alike
      OBVIOUS
    <3>1. PICK y, z : x = <<y, z>>
      BY PairsAre
    <3> QED
      BY <2>1, <3>1
  <2>4. Account(j).alike \subseteq Account(m).alike
    <3> SUFFICES ASSUME NEW x \in Account(j).alike PROVE x \in Account(m).alike
      OBVIOUS
    <3>1. PICK y, z : x = <<y, z>>
      BY PairsAre
    <3> QED
      BY <2>2, <3>1
  <2> QED
    BY <2>3, <2>4
<1>7. \A i : Account(i) = [entries |-> Account(i).entries, comes |-> Account(i).comes, alike |-> Account(i).alike]
  BY DEF Account
<1> QED
  BY <1>4, <1>5, <1>6, <1>7, Zenon

-----------------------------------------------------------------------------
\* Every step.

\* Steps after the scan leave it alone.
LEMMA ReadStay ==
  ASSUME UNCHANGED <<job, phase, pending, current, todo, findings, judged, occurrences, anchors, earlier>>, PrintsInv
  PROVE  PrintsInv'
<1>1. Collected' => Collected /\ findings' = findings /\ ReadFiles' = ReadFiles
  BY DEF Collected, ReadFiles, Opened
<1> QED
  BY <1>1, PrintsIdle

\* A rescan starts with the fingerprints that the new job, too, is to have.
LEMMA RescanPrints ==
  ASSUME Inv, PrintsInv, Rescan
  PROVE  PrintsInv'
<1>1. PICK f \in AnalysedFiles : \E p \in LineEnds(f) : job' = Moved(f, p)
  BY DEF Rescan
<1>2. PICK p \in LineEnds(f) : job' = Moved(f, p)
  BY <1>1
<1>3. Moved(f, p) = JobMoved(job, f, p)
  <2> SUFFICES
        [job EXCEPT !.root = Rooted(@), !.base = job.elsewhere,
           !.files = {[(IF g = f THEN Spaced(g, p) ELSE g) EXCEPT !.path = Rooted(@)] : g \in @}]
        = JobMoved(job, f, p)
    BY DEF Moved
  <2>1. \A path : Rooted(path) = RootedIn(job, path)
    BY DEF Rooted, RootedIn
  <2> QED
    BY <2>1 DEF JobMoved, FileMoved
<1>4. Moves(job, f, p, job')
  <2>1. f \in job.files
    BY DEF AnalysedFiles
  <2> QED
    BY <1>2, <1>3, <2>1 DEF Moves, Inv, Shape
<1>5. Account(job') = Account(job)
  BY <1>4, AccountStays
<1>6. /\ Printed /\ phase' = "start" /\ anchors' = <<>> /\ occurrences' = <<>> /\ judged' = <<>>
      /\ earlier' = [kind |-> "scan", hid |-> Hid, fingerprints |-> Fingerprints(document)]
  BY DEF Rescan, Printed
<1>7. Fingerprints(document) = Expected(Account(job), Hid)
  BY <1>6, PrintedIsExpected
<1>8. earlier'.fingerprints = Expected(Account(job'), earlier'.hid)
  <2>1. earlier'.fingerprints = Fingerprints(document) /\ earlier'.hid = Hid
    BY <1>6
  <2> QED
    BY <1>5, <1>7, <2>1
<1>9. CountedSnippets(job', judged', occurrences') /\ NumberedAnchors(job', judged', anchors')
  BY <1>6, NothingCounted
<1>10. ~Collected'
  BY <1>6 DEF Collected
<1> QED
  BY <1>8, <1>9, <1>10 DEF PrintsInv

\* Every step keeps the numbering.
LEMMA PrintsStay == Inv /\ PrintsInv /\ [Next]_vars => PrintsInv'
<1> SUFFICES ASSUME Inv, PrintsInv, [Next]_vars PROVE PrintsInv'
  OBVIOUS
<1>1. CASE Gather
  <2>1. UNCHANGED reportVars
    BY <1>1 DEF Gather
  <2>2. CASE Tick
    <3>1. ~Collected' /\ UNCHANGED <<job, judged, occurrences, anchors, earlier>>
      BY <2>1, <2>2 DEF Tick, Collected, engineVars, resultVars, reportVars
    <3> QED
      BY <3>1, PrintsIdle
  <2>3. CASE Compile
    <3>1. ~Collected' /\ UNCHANGED <<job, judged, occurrences, anchors, earlier>>
      BY <2>1, <2>3 DEF Compile, Collected, resultVars, reportVars
    <3> QED
      BY <3>1, PrintsIdle
  <2>4. CASE Judge
    BY <2>1, <2>4, JudgePrints
  <2>5. CASE Finish
    BY <2>1, <2>5, FinishPrints
  <2>6. CASE \E f \in pending : Open(f)
    <3>1. ~Collected' /\ UNCHANGED <<job, judged, occurrences, anchors, earlier>>
      BY <2>1, <2>6 DEF Open, Collected, reportVars
    <3> QED
      BY <3>1, PrintsIdle
  <2> QED
    BY <1>1, <2>2, <2>3, <2>4, <2>5, <2>6 DEF Gather, CollectNext
<1>2. CASE Conclude
  <2>1. /\ UNCHANGED <<job, pending, current, todo, findings, judged, occurrences, anchors, earlier>>
        /\ phase = "collected"
    BY <1>2 DEF Conclude, engineVars, resultVars
  <2>2. Collected' => Collected /\ findings' = findings /\ ReadFiles' = ReadFiles
    BY <2>1 DEF Collected, ReadFiles, Opened
  <2> QED
    BY <2>1, <2>2, PrintsIdle
<1>3. CASE Rescan
  BY <1>3, RescanPrints
<1>4. CASE Edit
  BY <1>4, ReadStay DEF Edit, collectVars, engineVars, resultVars
<1>5. CASE UNCHANGED vars
  BY <1>5, ReadStay DEF vars, collectVars, reportVars, engineVars, resultVars
<1> QED
  BY <1>1, <1>2, <1>3, <1>4, <1>5 DEF Next

(* "Checkout relocation and added blank lines preserve them" (EVIDENCE-    *)
(* CONTRACT.adoc): for any registry and any jobs that fit, through any     *)
(* walk and any judging, a second scan of the moved sources with a blank   *)
(* line more prints the fingerprints of the first one, in the same order,  *)
(* as long as the same findings are hidden (scan_files numbers its         *)
(* anchors, report/json.rs makes fingerprints of them).                    *)
THEOREM FingerprintsSurviveCorrect == Spec => []FingerprintsSurvive
<1>1. Inv /\ PrintsInv => FingerprintsSurvive
  <2> SUFFICES ASSUME Inv, PrintsInv, Printed, earlier # None, earlier.hid = Hid
               PROVE  Fingerprints(document) = earlier.fingerprints
    BY DEF FingerprintsSurvive
  <2>1. Fingerprints(document) = Expected(Account(job), Hid)
    BY PrintedIsExpected
  <2>2. earlier.fingerprints = Expected(Account(job), earlier.hid)
    BY DEF PrintsInv
  <2> QED
    BY <2>1, <2>2
<1> QED
  BY <1>1, GatheredIsRaised, PrintsInit, PrintsStay, PTL DEF Spec

-----------------------------------------------------------------------------
\* What SARIF shows.  Lines are told apart by the newlines before them; in a
\* line UTF-16 columns grow with every character, so a column is one boundary.

\* A line starts at s, and none starts after it up to k.
Starts(text, s, k) == /\ s = 0 \/ text[s] = Newline
                      /\ \A i \in (s + 1)..k : text[i] # Newline

\* A boundary is in a line, the one LineStart gives.
LEMMA LineStartIs ==
  ASSUME NEW text, NEW k \in Nat
  PROVE  LineStart(text, k) \in 0..k /\ Starts(text, LineStart(text, k), k)
<1> DEFINE T == {m \in 0..k : \E s \in 0..m : Starts(text, s, m)}
<1>1. 0 \in T
  BY DEF Starts
<1>2. ASSUME NEW m \in 0..(k - 1), m \in T
      PROVE  m + 1 \in T
  <2>1. m + 1 \in 0..k /\ m + 1 \in 0..(m + 1) /\ 0..m \subseteq 0..(m + 1)
    OBVIOUS
  <2>2. CASE text[m + 1] = Newline
    <3>1. Starts(text, m + 1, m + 1)
      BY <2>2 DEF Starts
    <3> QED
      BY <2>1, <3>1
  <2>3. CASE text[m + 1] # Newline
    <3>1. PICK s \in 0..m : Starts(text, s, m)
      BY <1>2
    <3>2. \A i \in (s + 1)..(m + 1) : i \in (s + 1)..m \/ i = m + 1
      OBVIOUS
    <3>3. Starts(text, s, m + 1)
      BY <2>3, <3>1, <3>2 DEF Starts
    <3> QED
      BY <2>1, <3>3
  <2> QED
    BY <2>2, <2>3
<1> HIDE DEF T
<1>3. 0..k \subseteq T
  BY <1>1, <1>2, UpTo
<1>4. \E s \in 0..k : Starts(text, s, k)
  <2>1. k \in T
    BY <1>3
  <2> QED
    BY <2>1 DEF T
<1>5. LineStart(text, k) = CHOOSE s \in 0..k : Starts(text, s, k)
  BY Zenon DEF LineStart, Starts
<1> QED
  BY <1>4, <1>5

\* The newlines before a boundary.
NewlinesTo(text, k) == {i \in 1..k : text[i] = Newline}

\* They are counted.
LEMMA NewlinesCount ==
  ASSUME NEW text, NEW k \in Nat
  PROVE  IsFiniteSet(NewlinesTo(text, k)) /\ Cardinality(NewlinesTo(text, k)) \in Nat
<1>1. IsFiniteSet(1..k) /\ NewlinesTo(text, k) \in SUBSET (1..k)
  BY UpToCount DEF NewlinesTo
<1> QED
  BY <1>1, FS_Subset, FS_CardinalityType

\* A line's number is that of each boundary in it.
LEMMA SameRow ==
  ASSUME NEW text, NEW k \in Nat, NEW s \in 0..k, Starts(text, s, k)
  PROVE  Row(text, k) = Cardinality(NewlinesTo(text, s))
<1>1. \A i \in 1..k : i \in 1..s \/ i \in (s + 1)..k
  OBVIOUS
<1>2. 1..s \subseteq 1..k
  OBVIOUS
<1>3. NewlinesTo(text, k) = NewlinesTo(text, s)
  BY <1>1, <1>2 DEF NewlinesTo, Starts
<1> QED
  BY <1>3 DEF Row, NewlinesTo

\* Lines that start at different places have different numbers.
LEMMA StartTells ==
  ASSUME NEW text, NEW r \in Nat, NEW s \in Nat, r < s, text[s] = Newline
  PROVE  Cardinality(NewlinesTo(text, r)) < Cardinality(NewlinesTo(text, s))
<1>1. /\ IsFiniteSet(NewlinesTo(text, s)) /\ Cardinality(NewlinesTo(text, s)) \in Nat
      /\ Cardinality(NewlinesTo(text, r)) \in Nat
  BY NewlinesCount
<1>2. NewlinesTo(text, r) \subseteq NewlinesTo(text, s)
  <2>1. 1..r \subseteq 1..s
    OBVIOUS
  <2> QED
    BY <2>1 DEF NewlinesTo
<1>3. s \in NewlinesTo(text, s) /\ s \notin NewlinesTo(text, r)
  <2>1. s \in 1..s /\ s \notin 1..r
    OBVIOUS
  <2> QED
    BY <2>1 DEF NewlinesTo
<1>4. /\ Cardinality(NewlinesTo(text, r)) <= Cardinality(NewlinesTo(text, s))
      /\ Cardinality(NewlinesTo(text, r)) = Cardinality(NewlinesTo(text, s)) => NewlinesTo(text, r) = NewlinesTo(text, s)
  BY <1>1, <1>2, FS_Subset
<1>5. NewlinesTo(text, r) # NewlinesTo(text, s)
  BY <1>3
<1> DEFINE a == Cardinality(NewlinesTo(text, r))
           b == Cardinality(NewlinesTo(text, s))
<1>6. a \in Nat /\ b \in Nat /\ a <= b /\ a # b
  BY <1>1, <1>4, <1>5
<1> HIDE DEF a, b
<1>7. a < b
  BY <1>6
<1> QED
  BY <1>7 DEF a, b

\* Columns grow with the boundary.
LEMMA ColumnsGrow ==
  ASSUME NEW X, NEW text \in Seq(X), NEW s \in Nat, NEW i \in Nat, NEW k \in Nat,
         s <= i, i < k, k <= Len(text)
  PROVE  /\ Utf16(SubSeq(text, s + 1, i)) \in Nat /\ Utf16(SubSeq(text, s + 1, k)) \in Nat
         /\ Utf16(SubSeq(text, s + 1, i)) < Utf16(SubSeq(text, s + 1, k))
<1> DEFINE a == SubSeq(text, s + 1, i)
           b == SubSeq(text, s + 1, k)
           A == {m \in DOMAIN a : a[m] = "astral"}
           B == {m \in DOMAIN b : b[m] = "astral"}
<1>1. a \in Seq(X) /\ Len(a) = i - s /\ \A m \in 1..(i - s) : a[m] = text[s + m]
  <2>1. i <= Len(text)
    <3> DEFINE l == Len(text)
    <3>1. l \in Nat /\ k <= l
      OBVIOUS
    <3> HIDE DEF l
    <3>2. i <= l
      BY <3>1
    <3> QED
      BY <3>2 DEF l
  <2> QED
    BY <2>1, PartIs
<1>2. b \in Seq(X) /\ Len(b) = k - s /\ \A m \in 1..(k - s) : b[m] = text[s + m]
  <2>1. s <= k
    OBVIOUS
  <2> QED
    BY <2>1, PartIs
<1>3. Utf16(a) = Len(a) + Cardinality(A) /\ Utf16(b) = Len(b) + Cardinality(B)
  BY DEF Utf16
<1> HIDE DEF a, b
<1>4. i - s \in Nat /\ k - s \in Nat /\ i - s < k - s /\ 1..(i - s) \subseteq 1..(k - s)
  OBVIOUS
<1>5. DOMAIN a = 1..(i - s) /\ DOMAIN b = 1..(k - s)
  BY <1>1, <1>2
<1>6. A \subseteq B /\ B \subseteq 1..(k - s)
  BY <1>1, <1>2, <1>4, <1>5
<1> HIDE DEF A, B
<1>7. IsFiniteSet(B) /\ IsFiniteSet(A) /\ Cardinality(A) <= Cardinality(B)
  <2>1. IsFiniteSet(1..(k - s))
    BY <1>4, UpToCount
  <2>2. IsFiniteSet(B)
    BY <1>6, <2>1, FS_Subset
  <2> QED
    BY <1>6, <2>2, FS_Subset
<1>8. Cardinality(A) \in Nat /\ Cardinality(B) \in Nat
  BY <1>7, FS_CardinalityType
<1> DEFINE ca == Cardinality(A)
           cb == Cardinality(B)
<1>9. ca \in Nat /\ cb \in Nat /\ ca <= cb /\ Utf16(a) = (i - s) + ca /\ Utf16(b) = (k - s) + cb
  BY <1>1, <1>2, <1>3, <1>7, <1>8
<1> HIDE DEF ca, cb
<1>10. Utf16(a) \in Nat /\ Utf16(b) \in Nat /\ Utf16(a) < Utf16(b)
  BY <1>9
<1> QED
  BY <1>10 DEF a, b

\* A line ends somewhere.
LEMMA LineEndIs ==
  ASSUME NEW text, NEW n \in Nat, n = Len(text), NEW k \in 0..n
  PROVE  \E e \in k..n : /\ e = n \/ text[e + 1] = Newline
                         /\ \A i \in (k + 1)..e : text[i] # Newline
<1> DEFINE T == {e \in k..n : e = n \/ text[e + 1] = Newline}
<1>1. n \in T /\ T \in SUBSET Nat
  OBVIOUS
<1>2. PICK e \in T : \A m \in T : e <= m
  <2> HIDE DEF T
  <2> QED
    BY <1>1, LeastNatural
<1>3. ASSUME NEW i \in (k + 1)..e
      PROVE  text[i] # Newline
  <2>1. i - 1 \in k..n /\ (i - 1) + 1 = i /\ ~ (e <= i - 1)
    BY <1>1
  <2> QED
    BY <1>2, <2>1
<1> QED
  BY <1>3

\* A reader who takes the place for what a node says comes to its boundary.
LEMMA ReadersFind ==
  ASSUME NEW X, NEW text \in Seq(X), NEW k \in 0..Len(text)
  PROVE  AtColumn(text, Row(text, k) + 1, Utf16(SubSeq(text, LineStart(text, k) + 1, k)) + 1) = {k}
<1> DEFINE n == Len(text)
           s == LineStart(text, k)
           line == Row(text, k) + 1
           column == Utf16(SubSeq(text, s + 1, k)) + 1
<1>1. n \in Nat /\ k \in Nat /\ k \in 0..n
  OBVIOUS
<1>2. s \in 0..k /\ s \in Nat /\ s \in 0..n /\ Starts(text, s, k)
  <2>1. s \in 0..k /\ Starts(text, s, k)
    BY <1>1, LineStartIs
  <2> HIDE DEF s
  <2> QED
    BY <1>1, <2>1
<1> HIDE DEF n, s
<1>3. line = Cardinality(NewlinesTo(text, s)) + 1 /\ Cardinality(NewlinesTo(text, s)) \in Nat
  BY <1>1, <1>2, SameRow, NewlinesCount
<1> HIDE DEF line
<1>4. PICK e \in k..n : (e = n \/ text[e + 1] = Newline) /\ \A i \in (k + 1)..e : text[i] # Newline
  BY <1>1, LineEndIs DEF n
<1>5. IsLine(text, line, s, e)
  <2>1. s = 0 \/ text[s] = Newline
    BY <1>2 DEF Starts
  <2>2. \A i \in (s + 1)..e : i \in (s + 1)..k \/ i \in (k + 1)..e
    BY <1>1, <1>2, <1>4
  <2>3. \A i \in (s + 1)..e : text[i] # Newline
    BY <1>2, <1>4, <2>2 DEF Starts
  <2>4. Cardinality(NewlinesTo(text, s)) = line - 1
    BY <1>3
  <2> QED
    BY <1>4, <2>1, <2>3, <2>4 DEF IsLine, NewlinesTo, n
<1>6. \A i \in s..n : Utf16(SubSeq(text, s + 1, i)) \in Nat
  <2> SUFFICES ASSUME NEW i \in s..n PROVE Utf16(SubSeq(text, s + 1, i)) \in Nat
    OBVIOUS
  <2>1. CASE i < n
    <3>1. i \in Nat /\ s <= i /\ n <= Len(text)
      BY <1>1, <1>2 DEF n
    <3> QED
      BY <1>1, <1>2, <2>1, <3>1, ColumnsGrow
  <2>2. CASE i = n /\ s < n
    <3>1. s <= s /\ n <= Len(text)
      BY <1>1, <1>2 DEF n
    <3> QED
      BY <1>1, <1>2, <2>2, <3>1, ColumnsGrow
  <2>3. CASE i = s
    <3>1. s <= Len(text) /\ s <= s
      BY <1>1, <1>2 DEF n
    <3>2. SubSeq(text, s + 1, s) \in Seq(X) /\ Len(SubSeq(text, s + 1, s)) = s - s
      BY <1>2, <3>1, PartIs
    <3>3. Len(SubSeq(text, s + 1, s)) = 0 /\ DOMAIN SubSeq(text, s + 1, s) = {}
      BY <1>2, <3>2
    <3>4. Utf16(SubSeq(text, s + 1, s)) = 0 + Cardinality({})
      BY <3>3 DEF Utf16
    <3> QED
      BY <2>3, <3>4, FS_EmptySet
  <2> QED
    BY <1>1, <1>2, <2>1, <2>2, <2>3
<1>7. \A i \in s..n, m \in s..n : i < m => Utf16(SubSeq(text, s + 1, i)) < Utf16(SubSeq(text, s + 1, m))
  <2> SUFFICES ASSUME NEW i \in s..n, NEW m \in s..n, i < m
               PROVE  Utf16(SubSeq(text, s + 1, i)) < Utf16(SubSeq(text, s + 1, m))
    OBVIOUS
  <2>1. i \in Nat /\ m \in Nat /\ s <= i /\ m <= Len(text)
    BY <1>1, <1>2 DEF n
  <2> QED
    BY <1>2, <2>1, ColumnsGrow
<1> DEFINE u(i) == Utf16(SubSeq(text, s + 1, i))
<1>8. \A i \in s..n : u(i) = u(k) => i = k
  <2>1. k \in s..n
    BY <1>1, <1>2
  <2>2. \A i \in s..n : u(i) \in Nat
    BY <1>6
  <2>3. \A i, m \in s..n : i < m => u(i) < u(m)
    BY <1>7
  <2> HIDE DEF u
  <2>4. ASSUME NEW i \in s..n, u(i) = u(k)
        PROVE  i = k
    <3>1. ~(i < k) /\ ~(k < i)
      BY <2>1, <2>2, <2>3, <2>4
    <3> QED
      BY <1>1, <1>2, <3>1
  <2> QED
    BY <2>4
<1>9. ASSUME NEW i \in 0..n, NEW a \in 0..i, NEW b \in i..n, IsLine(text, line, a, b), u(i) = u(k) \/ a # s
      PROVE  i = k
  <2>1. /\ a = 0 \/ text[a] = Newline
        /\ Cardinality(NewlinesTo(text, a)) = Cardinality(NewlinesTo(text, s))
    <3>1. Cardinality(NewlinesTo(text, a)) = line - 1 /\ (a = 0 \/ text[a] = Newline)
      BY <1>9 DEF IsLine, NewlinesTo
    <3>2. Cardinality(NewlinesTo(text, s)) = line - 1
      BY <1>3
    <3> QED
      BY <3>1, <3>2
  <2>2. a \in Nat /\ Cardinality(NewlinesTo(text, a)) \in Nat
    BY <1>1, NewlinesCount
  <2>3. ~(a < s)
    <3> SUFFICES ASSUME a < s PROVE FALSE
      OBVIOUS
    <3>1. text[s] = Newline
      BY <1>2, <2>2 DEF Starts
    <3>2. Cardinality(NewlinesTo(text, a)) < Cardinality(NewlinesTo(text, s))
      BY <1>2, <2>2, <3>1, StartTells
    <3> QED
      BY <2>1, <2>2, <3>2
  <2>4. ~(s < a)
    <3> SUFFICES ASSUME s < a PROVE FALSE
      OBVIOUS
    <3>1. text[a] = Newline
      BY <1>2, <2>1
    <3>2. Cardinality(NewlinesTo(text, s)) < Cardinality(NewlinesTo(text, a))
      BY <1>2, <2>2, <3>1, StartTells
    <3> QED
      BY <1>3, <2>1, <2>2, <3>2
  <2>5. a = s
    BY <1>2, <2>2, <2>3, <2>4
  <2>6. i \in s..n
    BY <1>1, <1>2, <2>5
  <2> QED
    BY <1>8, <1>9, <2>5, <2>6
<1>10. AtColumn(text, line, column) =
         {i \in 0..n : \E a \in 0..i, b \in i..n :
            IsLine(text, line, a, b) /\ Utf16(SubSeq(text, a + 1, i)) = column - 1}
  BY DEF AtColumn, n
<1>11. column - 1 = u(k) /\ u(k) \in Nat
  <2>1. u(k) \in Nat
    BY <1>1, <1>2, <1>6
  <2>2. column = u(k) + 1
    BY DEF s
  <2> HIDE DEF u, column
  <2> QED
    BY <2>1, <2>2
<1> HIDE DEF column
<1>12. k \in AtColumn(text, line, column)
  <2>1. s \in 0..k /\ e \in k..n /\ IsLine(text, line, s, e) /\ Utf16(SubSeq(text, s + 1, k)) = column - 1
    BY <1>2, <1>4, <1>5, <1>11
  <2> QED
    BY <1>1, <1>10, <2>1
<1>13. ASSUME NEW i \in AtColumn(text, line, column)
       PROVE  i = k
  <2>1. PICK a \in 0..i, b \in i..n : IsLine(text, line, a, b) /\ Utf16(SubSeq(text, a + 1, i)) = column - 1
    BY <1>10
  <2>2. i \in 0..n
    BY <1>10
  <2>3. a = s => u(i) = u(k)
    BY <1>11, <2>1
  <2> HIDE DEF u
  <2> QED
    BY <1>9, <2>1, <2>2, <2>3
<1>14. AtColumn(text, line, column) = {k}
  BY <1>12, <1>13
<1> QED
  BY <1>14 DEF line, column, s

\* The bytes from the start of its line lead back to it.
LEMMA ColumnIs ==
  ASSUME NEW text, Len(text) \in Nat, NEW k \in 0..Len(text)
  PROVE  Utf16Column(text, Offset(text, k), ColBytes(text, k)) =
           Utf16(SubSeq(text, LineStart(text, k) + 1, k)) + 1
<1> DEFINE n == Len(text)
           s == LineStart(text, k)
           a == Offset(text, s)
           b == Offset(text, k)
<1>1. n \in Nat /\ k \in Nat /\ k \in 0..n
  OBVIOUS
<1>2. s \in 0..k
  BY <1>1, LineStartIs
<1> HIDE DEF s
<1>3. s \in 0..n /\ s \in Nat
  <2> HIDE DEF n
  <2> QED
    BY <1>1, <1>2
<1>4. a \in Nat /\ b \in Nat
  BY <1>1, <1>3, OffsetsGrow
<1>5. ColBytes(text, k) = b - a
  BY DEF ColBytes, s
<1>6. Boundary(text, a) = s /\ Boundary(text, b) = k
  BY <1>1, <1>3, BoundaryIs
<1> HIDE DEF a, b
<1>7. b - (b - a) = a
  BY <1>4
<1>8. Slice(text, b - (b - a), b) = SubSeq(text, s + 1, k)
  BY <1>6, <1>7 DEF Slice
<1>9. Utf16Column(text, b, b - a) = Utf16(SubSeq(text, s + 1, k)) + 1
  BY <1>8 DEF Utf16Column
<1> QED
  BY <1>5, <1>9 DEF b, s

\* Where a finding is said to be is where it was raised.
LEMMA PlacesRead ==
  ASSUME NEW j, JobFits(j), NEW t \in AllOf(j)
  PROVE  LET loc == PlaceOf(j, t)  text == TextIn(j, t)  raw == RawOf(j, t) IN
         /\ AtColumn(text, loc.line_start, loc.col_start) = {raw.from}
         /\ AtColumn(text, loc.line_end, loc.col_end) = {raw.to}
         /\ Slice(text, loc.byte_start, loc.byte_start + (loc.byte_end - loc.byte_start))
              = SubSeq(text, raw.from + 1, raw.to)
<1> DEFINE loc == PlaceOf(j, t)
           text == TextIn(j, t)
           raw == RawOf(j, t)
           X == Range(FileIn(j, t[1]).artifact) \cup {"high", Newline}
           at(k) == Utf16Column(text, Offset(text, k), ColBytes(text, k))
<1>1. raw.from \in Nat /\ raw.to \in Nat /\ raw.from < raw.to
  BY AllFacts DEF RawFits
<1>2. Len(text) \in Nat /\ raw.to <= Len(text) /\ text \in Seq(X)
  BY ExtentFits
<1>3. /\ loc.line_start = Row(text, raw.from) + 1 /\ loc.col_start = at(raw.from)
      /\ loc.line_end = Row(text, raw.to) + 1 /\ loc.col_end = at(raw.to)
      /\ loc.byte_start = Offset(text, raw.from) /\ loc.byte_end = Offset(text, raw.to)
  BY DEF PlaceOf, FromNode, TextIn
<1> HIDE DEF loc, raw, text, X
<1>4. raw.from \in 0..Len(text) /\ raw.to \in 0..Len(text)
  <2> DEFINE n == Len(text)
  <2>1. n \in Nat /\ raw.to <= n
    BY <1>2
  <2> HIDE DEF n
  <2>2. raw.from \in 0..n /\ raw.to \in 0..n
    BY <1>1, <2>1
  <2> QED
    BY <2>2 DEF n
<1>5. AtColumn(text, loc.line_start, loc.col_start) = {raw.from}
  <2>1. at(raw.from) = Utf16(SubSeq(text, LineStart(text, raw.from) + 1, raw.from)) + 1
    BY <1>2, <1>4, ColumnIs
  <2>2. AtColumn(text, Row(text, raw.from) + 1,
                 Utf16(SubSeq(text, LineStart(text, raw.from) + 1, raw.from)) + 1) = {raw.from}
    BY <1>2, <1>4, ReadersFind
  <2> HIDE DEF at
  <2> QED
    BY <1>3, <2>1, <2>2, Zenon
<1>6. AtColumn(text, loc.line_end, loc.col_end) = {raw.to}
  <2>1. at(raw.to) = Utf16(SubSeq(text, LineStart(text, raw.to) + 1, raw.to)) + 1
    BY <1>2, <1>4, ColumnIs
  <2>2. AtColumn(text, Row(text, raw.to) + 1,
                 Utf16(SubSeq(text, LineStart(text, raw.to) + 1, raw.to)) + 1) = {raw.to}
    BY <1>2, <1>4, ReadersFind
  <2> HIDE DEF at
  <2> QED
    BY <1>3, <2>1, <2>2, Zenon
<1> HIDE DEF at
<1>7. Slice(text, loc.byte_start, loc.byte_start + (loc.byte_end - loc.byte_start))
        = SubSeq(text, raw.from + 1, raw.to)
  <2> DEFINE a == Offset(text, raw.from)
             b == Offset(text, raw.to)
  <2>1. a \in Nat /\ b \in Nat
    BY <1>1, OffsetsGrow
  <2>2. Boundary(text, a) = raw.from /\ Boundary(text, b) = raw.to
    BY <1>2, <1>4, BoundaryIs
  <2>3. loc.byte_start = a /\ loc.byte_end = b
    BY <1>3
  <2> HIDE DEF a, b
  <2>4. a + (b - a) = b
    BY <2>1
  <2>5. Slice(text, a, b) = SubSeq(text, raw.from + 1, raw.to)
    BY <2>2 DEF Slice
  <2> QED
    BY <2>3, <2>4, <2>5
<1> QED
  BY <1>5, <1>6, <1>7 DEF loc, raw, text

-----------------------------------------------------------------------------
\* Descriptors.

\* Each rule of a finding has its place among those that fired.
LEMMA FiredIs ==
  ASSUME NEW X, NEW fs \in Seq(X), \A f \in X : f.rule_id \in Nat, NEW i \in 1..Len(fs)
  PROVE  LET fired == Fired(fs)
             k     == CHOOSE m \in DOMAIN fired : fired[m] = fs[i].rule_id
         IN  k \in Nat /\ k \in DOMAIN fired /\ fired[k] = fs[i].rule_id
<1> DEFINE ids == {f.rule_id : f \in Range(fs)}
           seq == [id \in ids |-> id]
           R == {p \in ids \X ids : p[1] < p[2]}
           fired == Fired(fs)
           c == Cardinality(ids)
<1>1. Len(fs) \in Nat /\ DOMAIN fs = 1..Len(fs) /\ \A m \in 1..Len(fs) : fs[m] \in X
  OBVIOUS
<1>2. ids = {fs[m].rule_id : m \in 1..Len(fs)}
  BY <1>1 DEF Range
<1>3. ids \in SUBSET Nat /\ fs[i].rule_id \in ids
  BY <1>1, <1>2
<1>4. IsFiniteSet(ids)
  <2> DEFINE S == 1..Len(fs)
             g == [m \in S |-> fs[m].rule_id]
  <2>1. IsFiniteSet(S)
    BY <1>1, UpToCount
  <2>2. g \in Surjection(S, ids)
    BY <1>2 DEF Surjection
  <2> HIDE DEF S, g, ids
  <2> QED
    BY <2>1, <2>2, FS_Surjection
<1>5. StrictOrder(R, ids)
  <2> HIDE DEF ids
  <2>1. \A m, k \in ids : <<m, k>> \in R <=> m < k
    OBVIOUS
  <2> HIDE DEF R
  <2> QED
    BY <1>3, <2>1 DEF StrictOrder
<1>6. fired = Arranged(seq, ids, R)
  BY DEF Fired, At
<1> HIDE DEF ids, R, fired
<1>7. PICK at : Picks(at, seq, ids, R, fired)
  <2> HIDE DEF seq
  <2> QED
    BY <1>4, <1>5, <1>6, ArrangedPicks
<1>8. /\ DOMAIN fired = 1..c /\ c \in Nat
      /\ \A m \in 1..c : at[m] \in ids /\ fired[m] = seq[at[m]]
      /\ \A id \in ids : \E m \in 1..c : at[m] = id
  BY <1>7 DEF Picks
<1>9. \E m \in DOMAIN fired : fired[m] = fs[i].rule_id
  <2>1. \A id \in ids : seq[id] = id
    OBVIOUS
  <2>2. PICK m \in 1..c : at[m] = fs[i].rule_id
    BY <1>3, <1>8
  <2> HIDE DEF seq
  <2>3. fired[m] = fs[i].rule_id
    BY <1>3, <1>8, <2>1, <2>2
  <2> QED
    BY <1>8, <2>3
<1> DEFINE k == CHOOSE m \in DOMAIN fired : fired[m] = fs[i].rule_id
<1>10. k \in DOMAIN fired /\ fired[k] = fs[i].rule_id
  BY <1>9
<1> HIDE DEF k
<1>11. k \in Nat
  BY <1>8, <1>10
<1> QED
  BY <1>10, <1>11 DEF k, fired

\* A descriptor speaks of a finding of its rule.
LEMMA DescriptorIs ==
  ASSUME NEW X, NEW fs \in Seq(X), NEW i \in 1..Len(fs)
  PROVE  /\ Descriptor(fs, fs[i].rule_id).id = fs[i].rule_id
         /\ \E m \in 1..Len(fs) : /\ fs[m].rule_id = fs[i].rule_id
                                  /\ Descriptor(fs, fs[i].rule_id).evidence_class = fs[m].evidence
<1> DEFINE id == fs[i].rule_id
           K == {k \in DOMAIN fs : fs[k].rule_id = id}
           R == {p \in K \X K : p[1] < p[2]}
           part == At(fs, K)
<1>1. Len(fs) \in Nat /\ DOMAIN fs = 1..Len(fs)
  OBVIOUS
<1>2. K \in SUBSET (1..Len(fs)) /\ i \in K
  BY <1>1
<1>3. PICK at : Picks(at, fs, K, R, part)
  BY <1>1, <1>2, AtPicks
<1>4. Retain(fs, LAMBDA f : f.rule_id = id) = part
  BY DEF Retain
<1> HIDE DEF R, part
<1>5. /\ Cardinality(K) \in Nat /\ \A n \in 1..Cardinality(K) : at[n] \in K
      /\ \E n \in 1..Cardinality(K) : at[n] = i
      /\ part = [n \in 1..Cardinality(K) |-> fs[at[n]]]
  BY <1>2, <1>3 DEF Picks
<1> DEFINE c == Cardinality(K)
<1>6. c \in Nat /\ c >= 1
  <2> HIDE DEF K, c
  <2>1. c \in Nat /\ \E n \in 1..c : at[n] = i
    BY <1>5 DEF c
  <2> QED
    BY <2>1
<1>7. 1 \in 1..c
  <2> HIDE DEF c
  <2> QED
    BY <1>6
<1>8. part[1] = fs[at[1]] /\ at[1] \in K
  BY <1>5, <1>7
<1>9. Head(part) = fs[at[1]]
  BY <1>8 DEF Head
<1>10. at[1] \in 1..Len(fs) /\ fs[at[1]].rule_id = id
  BY <1>2, <1>8
<1>11. /\ Descriptor(fs, id).id = id
       /\ Descriptor(fs, id).evidence_class = Head(Retain(fs, LAMBDA f : f.rule_id = id)).evidence
  BY DEF Descriptor
<1> QED
  BY <1>4, <1>9, <1>10, <1>11

-----------------------------------------------------------------------------
\* Paths.

\* When all are kept, nothing changes.
LEMMA AllRetained ==
  ASSUME NEW X, NEW s \in Seq(X)
  PROVE  At(s, DOMAIN s) = s
<1> DEFINE n == Len(s)
           K == 1..n
           R == {p \in K \X K : p[1] < p[2]}
           at == [k \in K |-> k]
<1>1. n \in Nat /\ DOMAIN s = K /\ s = [k \in K |-> s[k]]
  OBVIOUS
<1> HIDE DEF n
<1>2. \A i, k \in K : <<i, k>> \in R <=> i < k
  OBVIOUS
<1>3. \A i, k \in K : (i < k => ~(k < i)) /\ ~(k < k)
  BY <1>1
<1>4. at \in [1..n -> K] /\ \A k \in K : at[k] = k
  OBVIOUS
<1> HIDE DEF R, at
<1>5. InRow(at, n, K, R)
  BY <1>1, <1>2, <1>3, <1>4 DEF InRow
<1>6. Arranged(s, K, R) = [i \in 1..n |-> s[at[i]]]
  <2> HIDE DEF K
  <2> QED
    BY <1>5, ArrangedIs
<1>7. [i \in 1..n |-> s[at[i]]] = s
  BY <1>1, <1>4
<1> QED
  BY <1>1, <1>6, <1>7 DEF At, R

\* A URI has what is below the root.
LEMMA UriBelow ==
  ASSUME NEW j, JobFits(j), NEW f \in j.files
  PROVE  ArtifactUri(f.path, j.root) = Below(f.path, BaseOf(f.path, j.root))
<1> DEFINE X == Component
           p == f.path
<1>1. /\ j.root \in Seq(X) /\ j.base \in Seq(X) /\ Within(j.root, j.base)
      /\ p \in Seq(X) /\ PathFits(p, j)
  BY DEF JobFits, FileFits
<1>2. /\ Len(j.root) \in Nat /\ Len(j.base) \in Nat /\ Len(j.base) <= Len(j.root)
      /\ \A i \in 1..Len(j.base) : j.base[i] = j.root[i]
  BY <1>1, PrefixIs DEF Within
<1> HIDE DEF X, p
<1>3. CASE p = j.root
  <2> DEFINE n == Len(p)
             up == SubSeq(p, 1, n - 1)
             r == Below(p, up)
  <2>1. n \in Nat /\ n >= 1
    <3>1. j.root # j.base
      BY <1>1, <1>3 DEF PathFits, IsStrictPrefix
    <3>2. Len(j.base) # n
      <4> SUFFICES ASSUME Len(j.base) = n PROVE FALSE
        OBVIOUS
      <4>1. j.base = j.root
        BY <1>1, <1>2, <1>3, SeqEqual
      <4> QED
        BY <3>1, <4>1
    <3> QED
      BY <1>2, <1>3, <3>2
  <2>2. up \in Seq(X) /\ Len(up) = n - 1 /\ \A i \in 1..(n - 1) : up[i] = p[i]
    <3>1. p \in Seq(X) /\ Len(p) = n
      BY <1>1
    <3> HIDE DEF n
    <3> QED
      BY <2>1, <3>1
  <2>3. Below(p, BaseOf(p, j.root)) = r
    BY <1>3 DEF BaseOf, r, up, n
  <2> HIDE DEF up, r
  <2>4. Within(p, up)
    <3>1. Len(up) <= Len(p)
      BY <2>1, <2>2
    <3> QED
      BY <1>1, <2>2, <3>1, PrefixIs DEF Within
  <2>5. Rebased(X, up, <<>>, p, r)
    BY <1>1, <2>2, <2>4, BelowIs DEF r
  <2>6. r \in Seq(X) /\ Len(r) = 1 /\ r[1] = p[n]
    <3>1. Len(<<>>) = 0
      OBVIOUS
    <3>2. /\ r \in Seq(X) /\ Len(r) = 0 + (n - Len(up))
          /\ \A i \in 1..(n - Len(up)) : r[0 + i] = p[Len(up) + i]
      BY <2>5, <3>1 DEF Rebased
    <3>3. n - Len(up) = 1 /\ 1 \in 1..1 /\ 0 + 1 = 1 /\ Len(up) + 1 = n
      BY <2>1, <2>2
    <3>4. r[0 + 1] = p[Len(up) + 1]
      BY <3>2, <3>3
    <3> QED
      BY <3>2, <3>3, <3>4
  <2>7. r = <<Last(p)>>
    <3>1. Last(p) = r[1] /\ r[1] \in X
      <4>1. Last(p) = p[n]
        BY DEF Last
      <4>2. r[1] \in X
        <5>1. r \in Seq(X) /\ 1 \in 1..Len(r)
          BY <2>6
        <5> QED
          BY ONLY <5>1
      <4> HIDE DEF n
      <4> QED
        BY <2>6, <4>1, <4>2
    <3>2. <<Last(p)>> \in Seq(X) /\ Len(<<Last(p)>>) = 1 /\ <<Last(p)>>[1] = r[1]
      BY <3>1
    <3> QED
      BY <2>6, <3>2, SeqEqual
  <2> QED
    BY <1>3, <2>3, <2>7 DEF ArtifactUri, p
<1>4. CASE p # j.root
  <2> DEFINE r == Below(p, j.root)
             K == {k \in DOMAIN r : r[k] # <<".">>}
  <2>1. IsStrictPrefix(j.root, p) /\ Within(p, j.root)
    BY <1>1, <1>4 DEF PathFits, IsStrictPrefix, Within
  <2>2. Rebased(X, j.root, <<>>, p, r)
    BY <1>1, <2>1, BelowIs
  <2> HIDE DEF r
  <2>3. r \in Seq(X) /\ Len(r) = Len(p) - Len(j.root) /\ Len(r) \in Nat /\ DOMAIN r = 1..Len(r)
    <3>1. Len(<<>>) = 0
      OBVIOUS
    <3>2. r \in Seq(X) /\ Len(r) = 0 + (Len(p) - Len(j.root)) /\ Len(p) \in Nat
      BY <2>2, <3>1 DEF Rebased
    <3>3. Len(r) \in Nat /\ DOMAIN r = 1..Len(r)
      BY <3>2
    <3> QED
      BY <1>2, <3>2, <3>3
  <2>4. \A k \in 1..Len(r) : r[k] # <<".">>
    <3> SUFFICES ASSUME NEW k \in 1..Len(r) PROVE r[k] # <<".">>
      OBVIOUS
    <3>1. k \in 1..(Len(p) - Len(j.root)) /\ 0 + k = k
      BY <2>3
    <3>2. r[k] = p[Len(j.root) + k]
      <4>1. Len(<<>>) = 0
        OBVIOUS
      <4>2. r[0 + k] = p[Len(j.root) + k]
        BY <2>2, <3>1, <4>1 DEF Rebased
      <4> QED
        BY <3>1, <4>2
    <3>3. Len(j.root) + k \in (Len(j.base) + 1)..Len(p)
      <4> DEFINE a == Len(j.base)
                 b == Len(j.root)
                 c == Len(p)
      <4>1. a \in Nat /\ b \in Nat /\ c \in Nat /\ a <= b /\ k \in 1..(c - b)
        BY <1>1, <1>2, <3>1
      <4> HIDE DEF a, b, c
      <4>2. b + k \in (a + 1)..c
        BY <4>1
      <4> QED
        BY <4>2 DEF a, b, c
    <3>4. p[Len(j.root) + k] \notin Reserved
      BY <1>1, <3>3 DEF PathFits
    <3> QED
      BY <3>2, <3>4 DEF Reserved
  <2>5. K = DOMAIN r
    BY <2>3, <2>4
  <2>6. At(r, K) = r
    BY <2>3, <2>5, AllRetained
  <2>7. ArtifactUri(p, j.root) = At(r, K)
    BY <1>4 DEF ArtifactUri, Retain, r
  <2>8. Below(p, BaseOf(p, j.root)) = r
    BY <1>4 DEF BaseOf, r
  <2> QED
    BY <2>6, <2>7, <2>8 DEF p
<1> QED
  BY <1>3, <1>4

\* The URI of a file is what is below the root, and its path in the report has
\* slashes for its backslashes.
LEMMA UriIs ==
  ASSUME NEW j, JobFits(j), NEW f \in j.files, NEW uri, uri = ArtifactUri(f.path, j.root)
  PROVE  /\ BaseOf(f.path, j.root) \o uri = f.path
         /\ Slashed(uri) = RelativePath(f.path, j.root)
<1>1. ArtifactUri(f.path, j.root) = Below(f.path, BaseOf(f.path, j.root))
  BY UriBelow
<1>2. BaseOf(f.path, j.root) \o uri = f.path
  BY <1>1, FilesBelow
<1> QED
  BY <1>1, <1>2 DEF RelativePath

\* All of the rules' findings keep their tiers when sources move.
LEMMA TiersMove ==
  ASSUME NEW j, TiersFit(j), NEW file, NEW p, NEW m, Moves(j, file, p, m)
  PROVE  TiersFit(m)
<1> DEFINE id(k) == Registry[k].id
<1>1. ASSUME NEW g \in m.files, NEW k \in DOMAIN Registry, NEW v \in Range(g.raws[id(k)])
      PROVE  \E f \in j.files : \E w \in Range(f.raws[id(k)]) : v.tier = w.tier
  <2>1. PICK f \in j.files : g = FileMoved(j, file, p, f)
    BY MovedJob
  <2>2. Again(j, file, p, f, g)
    BY <2>1, FileAgain
  <2> DEFINE raws == f.raws[id(k)]
             q == Decoded(f.artifact, p)
  <2>3. id(k) \in DOMAIN f.raws /\ RawsFit(raws)
    BY <2>2 DEF Again, FileFits
  <2>4. g.raws[id(k)] = IF f = file THEN ShiftRaws(q, raws) ELSE raws
    BY <2>2, <2>3 DEF Again
  <2>5. CASE f # file
    <3>1. v \in Range(raws)
      BY <2>4, <2>5
    <3> QED
      BY <3>1
  <2>6. CASE f = file
    <3> HIDE DEF raws, q, id
    <3>1. g.raws[id(k)] = [n \in DOMAIN raws |-> ShiftRaw(q, raws[n])]
      BY <2>4, <2>6 DEF ShiftRaws
    <3>2. PICK n \in DOMAIN raws : v = ShiftRaw(q, raws[n])
      BY <3>1 DEF Range
    <3>3. raws[n] \in Range(raws)
      BY DEF Range
    <3>4. {"from", "to", "tier", "severity"} \subseteq DOMAIN raws[n]
      BY <2>3, <3>3 DEF RawsFit
    <3>5. v.tier = raws[n].tier
      BY <3>2, <3>4 DEF ShiftRaw
    <3> QED
      BY <3>3, <3>5 DEF raws
  <2> QED
    BY <2>5, <2>6
<1>2. ASSUME NEW f \in m.files, NEW g \in m.files, NEW k \in DOMAIN Registry,
             NEW v \in Range(f.raws[id(k)]), NEW w \in Range(g.raws[id(k)])
      PROVE  v.tier = w.tier
  <2>1. PICK a \in j.files : \E x \in Range(a.raws[id(k)]) : v.tier = x.tier
    BY <1>1
  <2>2. PICK b \in j.files : \E x \in Range(b.raws[id(k)]) : w.tier = x.tier
    BY <1>1
  <2> QED
    BY <2>1, <2>2 DEF TiersFit
<1> QED
  BY <1>2 DEF TiersFit

\* A rescan moves the sources.
LEMMA RescanMoves ==
  ASSUME Inv, Rescan
  PROVE  \E f, p : Moves(job, f, p, job')
<1>1. PICK f \in AnalysedFiles : \E p \in LineEnds(f) : job' = Moved(f, p)
  BY DEF Rescan
<1>2. PICK p \in LineEnds(f) : job' = Moved(f, p)
  BY <1>1
<1>3. Moved(f, p) = JobMoved(job, f, p)
  <2> SUFFICES
        [job EXCEPT !.root = Rooted(@), !.base = job.elsewhere,
           !.files = {[(IF g = f THEN Spaced(g, p) ELSE g) EXCEPT !.path = Rooted(@)] : g \in @}]
        = JobMoved(job, f, p)
    BY DEF Moved
  <2>1. \A path : Rooted(path) = RootedIn(job, path)
    BY DEF Rooted, RootedIn
  <2> QED
    BY <2>1 DEF JobMoved, FileMoved
<1>4. f \in job.files
  BY DEF AnalysedFiles
<1>5. Moves(job, f, p, job')
  BY <1>2, <1>3, <1>4 DEF Moves, Inv, Shape
<1> QED
  BY <1>5

\* The tiers of the rules, whatever was rescanned.
TiersInv == TiersFit(job)

\* No step gives a rule a second tier.
LEMMA TiersStay == Inv /\ TiersInv /\ [Next]_vars => TiersInv'
<1> SUFFICES ASSUME Inv, TiersInv, [Next]_vars PROVE TiersInv'
  OBVIOUS
<1>1. CASE Rescan
  BY <1>1, RescanMoves, TiersMove DEF TiersInv
<1>2. CASE ~Rescan
  <2>1. job' = job
    BY <1>2 DEF Next, Gather, CollectNext, Tick, Compile, Judge, Finish, Open, Conclude, Edit, vars, collectVars
  <2> QED
    BY <2>1 DEF TiersInv
<1> QED
  BY <1>1, <1>2

\* Findings of one rule have one tier.
LEMMA RuleTiers ==
  ASSUME NEW j, JobFits(j), TiersFit(j), NEW t \in AllOf(j), NEW u \in AllOf(j), t[2] = u[2]
  PROVE  RawOf(j, t).tier = RawOf(j, u).tier
<1>1. ASSUME NEW x \in AllOf(j)
      PROVE  /\ FileIn(j, x[1]) \in j.files
             /\ \E k \in DOMAIN Registry :
                  Registry[k].id = x[2] /\ RawOf(j, x) \in Range(FileIn(j, x[1]).raws[x[2]])
  <2>1. PICK f, r, k : Names(j, f, r, k, x)
    BY AllIs
  <2>2. f \in j.files /\ r \in For(j, f.language) /\ k \in DOMAIN f.raws[r.id] /\ x = <<f.path, r.id, k>>
    BY <2>1 DEF Names
  <2>3. FileIn(j, x[1]) = f
    BY <2>2, FileIs
  <2>4. PICK n \in DOMAIN Registry : r = Registry[n]
    <3>1. RuleList(RulesOf(j)) /\ r \in Range(RulesOf(j))
      BY <2>2, RulesAre DEF For
    <3> QED
      BY <3>1 DEF RuleList, Range
  <2>5. RawOf(j, x) \in Range(f.raws[r.id])
    BY <2>2, <2>3 DEF RawOf, Range
  <2> QED
    BY <2>2, <2>3, <2>4, <2>5
<1>2. PICK k \in DOMAIN Registry :
        Registry[k].id = t[2] /\ RawOf(j, t) \in Range(FileIn(j, t[1]).raws[t[2]])
  BY <1>1
<1>3. RawOf(j, u) \in Range(FileIn(j, u[1]).raws[u[2]])
  BY <1>1
<1> QED
  BY <1>1, <1>2, <1>3 DEF TiersFit

\* A printed report in SARIF and in JSON, result by result and record by record.
LEMMA SarifShows == Inv /\ TiersInv => SarifShowsTheFindings
<1> SUFFICES ASSUME Inv, TiersInv, Printed PROVE SarifShowsTheFindings
  BY DEF SarifShowsTheFindings
<1> DEFINE fs == report.findings
           sarif == Sarif(report)
           records == document.evidence_contract.records
           X == Findings(job, AllRaised)
<1>1. JobFits(job) /\ AllRaised = AllOf(job) /\ AnalysedOf(job) \in SUBSET job.files /\ Collected
  BY PrintedFacts, AllIsRead DEF AllRaised, AllOf, AnalysedFiles, AnalysedOf
<1>2. fs \in Seq(X) /\ Len(fs) \in Nat /\ DOMAIN fs = 1..Len(fs)
  BY <1>1, PrintedFacts, ShownFacts
<1>3. records = [k \in DOMAIN fs |-> Record(report, fs[k])]
  BY DocumentIs
<1>4. /\ report.root = job.root /\ report.skipped = skipped /\ document.scanned.skipped = skipped
      /\ report.transcoded = {f.path : f \in {g \in AnalysedFiles : Transcoded(g.artifact)}}
  BY PrintedFacts, DocumentIs DEF ScanReport
<1>5. sarif.results = [k \in DOMAIN fs |-> Result(report, fs[k])]
  BY DEF Sarif
<1>6. sarif.rules = [k \in DOMAIN Fired(fs) |-> Descriptor(fs, Fired(fs)[k])]
  BY DEF Sarif
<1>7. Len(sarif.notifications) = Len(document.scanned.skipped)
  <2>1. skipped \in Seq({f.path : f \in job.files})
    BY <1>1, AllIsRead DEF Inventoried
  <2>2. DOMAIN skipped = 1..Len(skipped) /\ Len(skipped) \in Nat
    BY <2>1
  <2>3. DOMAIN sarif.notifications = 1..Len(skipped) /\ sarif.notifications = [k \in 1..Len(skipped) |-> sarif.notifications[k]]
    BY <1>4, <2>2 DEF Sarif
  <2> HIDE DEF sarif
  <2>4. Len(sarif.notifications) = Len(skipped)
    BY <2>2, <2>3
  <2> QED
    BY <1>4, <2>4
<1> HIDE DEF fs, sarif, records, X
<1>8. Len(sarif.results) = Len(records)
  BY <1>2, <1>3, <1>5
<1>9. ASSUME NEW k \in DOMAIN records
      PROVE  LET result == sarif.results[k]  region == result.region
                 loc    == fs[k].location
                 file   == FileAt(loc.file)
                 text   == Decode(file.artifact)
             IN /\ sarif.rules[result.rule_index + 1].id = records[k].rule
                /\ sarif.rules[result.rule_index + 1].evidence_class = records[k].evidence
                /\ BaseOf(loc.file, report.root) \o result.uri = loc.file
                /\ Slashed(result.uri) = records[k].path
                /\ \E raw \in Range(file.raws[records[k].rule]) :
                     /\ raw.evidence_note = records[k].trace
                     /\ AtColumn(text, region.start_line, region.start_column) = {raw.from}
                     /\ AtColumn(text, region.end_line, region.end_column) = {raw.to}
                     /\ \A b \in region.byte_offset, n \in region.byte_length :
                          Slice(file.artifact, b, b + n) = SubSeq(text, raw.from + 1, raw.to)
  <2> DEFINE f == fs[k]
             result == sarif.results[k]
             region == result.region
  <2>1. k \in 1..Len(fs) /\ f \in X
    BY <1>2, <1>3, <1>9
  <2>2. PICK t \in AllOf(job) : f = ToldIn(job, t)
    BY <1>1, <2>1 DEF X, Findings
  <2> DEFINE file == FileIn(job, t[1])
             text == TextIn(job, t)
             raw == RawOf(job, t)
             loc == PlaceOf(job, t)
  <2>3. /\ f.rule_id = t[2] /\ f.location = loc /\ f.location.file = t[1]
        /\ f.tier = raw.tier /\ f.evidence = EvidenceOf[raw.tier] /\ f.evidence_note = raw.evidence_note
    BY <1>1, <2>2, ToldFacts DEF AllOf, ToldIn, Finding
  <2>4. /\ file \in job.files /\ file.outcome = "analysed" /\ file.path = t[1] /\ FileAt(t[1]) = file
        /\ raw \in Range(file.raws[t[2]])
    <3>1. file \in job.files /\ file.outcome = "analysed" /\ file.path = t[1]
      BY <1>1, <2>2, AllFacts
    <3>2. FileAt(t[1]) = file
      BY DEF FileAt, FileIn
    <3>3. t[3] \in DOMAIN file.raws[t[2]]
      BY <1>1, <2>2, TripleFacts DEF AllOf
    <3>4. raw \in Range(file.raws[t[2]])
      BY <3>3 DEF RawOf, Range
    <3> QED
      BY <3>1, <3>2, <3>4
  <2>5. /\ records[k].rule = f.rule_id /\ records[k].evidence = f.evidence
        /\ records[k].path = RelativePath(f.location.file, job.root) /\ records[k].trace = f.evidence_note
    <3>1. records[k] = Record(report, f)
      BY <1>2, <1>3, <2>1
    <3> HIDE DEF f
    <3> QED
      BY <1>4, <3>1, RecordIs
  <2>6. result = Result(report, f)
    BY <1>2, <1>5, <2>1
  <2> HIDE DEF f, result
  <2>7. /\ BaseOf(f.location.file, report.root) \o result.uri = f.location.file
        /\ Slashed(result.uri) = records[k].path
    <3>1. result.uri = ArtifactUri(f.location.file, job.root)
      BY <1>4, <2>6 DEF Result
    <3>2. f.location.file = file.path
      BY <2>3, <2>4
    <3>3. result.uri = ArtifactUri(file.path, job.root)
      BY <3>1, <3>2
    <3>4. /\ BaseOf(file.path, job.root) \o result.uri = file.path
          /\ Slashed(result.uri) = RelativePath(file.path, job.root)
      BY <1>1, <2>4, <3>3, UriIs
    <3> QED
      BY <1>4, <2>5, <3>2, <3>4
  <2>8. /\ sarif.rules[result.rule_index + 1].id = records[k].rule
        /\ sarif.rules[result.rule_index + 1].evidence_class = records[k].evidence
    <3> DEFINE fired == Fired(fs)
               n == CHOOSE m \in DOMAIN fired : fired[m] = fs[k].rule_id
    <3>1. n \in Nat /\ n \in DOMAIN fired /\ fired[n] = fs[k].rule_id
      <4>1. \A x \in X : x.rule_id \in Nat
        BY <1>1, ToldFacts DEF X, Findings, AllOf
      <4> QED
        BY <1>2, <2>1, <4>1, FiredIs
    <3>2. result.rule_index = n - 1
      BY <2>6 DEF Result, fs, f
    <3> HIDE DEF n
    <3>3. result.rule_index + 1 = n
      BY <3>1, <3>2
    <3>4. sarif.rules[n] = Descriptor(fs, fs[k].rule_id)
      BY <1>6, <3>1
    <3>5. PICK i \in 1..Len(fs) : /\ Descriptor(fs, fs[k].rule_id).id = fs[k].rule_id
                                  /\ fs[i].rule_id = fs[k].rule_id
                                  /\ Descriptor(fs, fs[k].rule_id).evidence_class = fs[i].evidence
      BY <1>2, <2>1, DescriptorIs
    <3>6. PICK u \in AllOf(job) : fs[i] = ToldIn(job, u)
      <4>1. fs[i] \in X
        BY <1>2
      <4> QED
        BY <1>1, <4>1 DEF X, Findings
    <3>7. fs[i].rule_id = u[2] /\ fs[i].evidence = EvidenceOf[RawOf(job, u).tier]
      BY <3>6 DEF ToldIn, Finding
    <3>8. t[2] = u[2]
      BY <2>3, <3>5, <3>7 DEF f
    <3>9. RawOf(job, u).tier = raw.tier
      BY <1>1, <3>8, RuleTiers DEF TiersInv
    <3>10. fs[i].evidence = f.evidence
      BY <2>3, <3>7, <3>9
    <3> QED
      BY <2>5, <3>3, <3>4, <3>5, <3>10 DEF f
  <2>9. /\ region.start_line = loc.line_start /\ region.start_column = loc.col_start
        /\ region.end_line = loc.line_end /\ region.end_column = loc.col_end
        /\ \A b \in region.byte_offset : b = loc.byte_start /\ t[1] \notin report.transcoded
        /\ \A n \in region.byte_length : n = loc.byte_end - loc.byte_start
    <3>1. region = Region(loc, t[1] \in report.transcoded)
      BY <2>3, <2>6 DEF Result
    <3> HIDE DEF region, loc
    <3> QED
      BY <3>1 DEF Region
  <2>10. t[1] \notin report.transcoded => file.artifact = text
    <3> SUFFICES ASSUME t[1] \notin report.transcoded PROVE file.artifact = text
      OBVIOUS
    <3>1. ~Transcoded(file.artifact)
      BY <1>4, <2>4 DEF AnalysedFiles
    <3> QED
      BY <3>1 DEF TextIn, Decode
  <2>11. /\ AtColumn(text, loc.line_start, loc.col_start) = {raw.from}
         /\ AtColumn(text, loc.line_end, loc.col_end) = {raw.to}
         /\ Slice(text, loc.byte_start, loc.byte_start + (loc.byte_end - loc.byte_start))
              = SubSeq(text, raw.from + 1, raw.to)
    BY <1>1, PlacesRead
  <2>12. FileAt(fs[k].location.file) = file /\ Decode(file.artifact) = text
    BY <2>3, <2>4 DEF TextIn, f
  <2> HIDE DEF text, loc, raw, region, file
  <2>13. /\ raw \in Range(file.raws[records[k].rule]) /\ raw.evidence_note = records[k].trace
         /\ AtColumn(text, region.start_line, region.start_column) = {raw.from}
         /\ AtColumn(text, region.end_line, region.end_column) = {raw.to}
    BY <2>3, <2>4, <2>5, <2>9, <2>11
  <2>14. ASSUME NEW b \in region.byte_offset, NEW n \in region.byte_length
         PROVE  Slice(file.artifact, b, b + n) = SubSeq(text, raw.from + 1, raw.to)
    BY <2>9, <2>10, <2>11
  <2>15. /\ AtColumn(Decode(file.artifact), region.start_line, region.start_column) = {raw.from}
         /\ AtColumn(Decode(file.artifact), region.end_line, region.end_column) = {raw.to}
         /\ \A b \in region.byte_offset, n \in region.byte_length :
              Slice(file.artifact, b, b + n) = SubSeq(Decode(file.artifact), raw.from + 1, raw.to)
    BY <2>12, <2>13, <2>14
  <2>16. BaseOf(loc.file, report.root) \o result.uri = loc.file
    BY <2>3, <2>7
  <2> QED
    BY <2>3, <2>7, <2>8, <2>12, <2>13, <2>15, <2>16 DEF region, result, f
<1> QED
  BY <1>7, <1>8, <1>9, Zenon DEF SarifShowsTheFindings, sarif, records, fs

(* SARIF shows the findings of the JSON report in its order, each under    *)
(* its own rule's descriptor, with a URI that leads from the root to the   *)
(* file itself and is its record's path but for backslashes, and at        *)
(* columns and bytes from which a reader gets back the very text the rule  *)
(* matched (sarif.rs; finding.rs from_node), whatever the file's name and  *)
(* the widths of its characters.                                           *)
THEOREM SarifShowsTheFindingsCorrect == Spec => []SarifShowsTheFindings
<1>1. Init => TiersInv
  BY TiersAssumption DEF Init, CollectInit, TiersInv
<1> QED
  BY <1>1, TiersStay, SarifShows, GatheredIsRaised, PTL DEF Spec

=============================================================================
