------------------------------ MODULE ScanProofs ----------------------------
(***************************************************************************)
(* Proofs about Scan.tla, for every tree, every policy and whatever the    *)
(* file system does meanwhile.  A walk that has nothing left to reach has  *)
(* been to every path below directories it could open: the paths it has    *)
(* not been to, among those above a path that stood, would be closed       *)
(* under Parent and hold the root.  What the two walks saw of such a path  *)
(* is kept in the inventory, the skips or the files to read.               *)
(***************************************************************************)
EXTENDS Scan, FunctionTheorems, FiniteSetTheorems, TLAPS

\* The accounting: analysed entries and files counted are the same.
Unread == phase \in {"open", "walk1", "walk2"} => pending = {} /\ scanned = {}

CountedOnce ==
  /\ pending \subseteq files /\ pending \cap scanned = {}
  /\ \A e \in AnalysedEntries : e.file \in scanned
  /\ \A p \in scanned : \E e \in AnalysedEntries : e.file = p
  /\ \A d, e \in AnalysedEntries : d.file = e.file => d = e

\* The gate's answer, kept until the report is out.
Gated ==
  code # {} =>
    /\ phase \in {"emit", "exited"}
    /\ pending = {}
    /\ failures = {l \in options.required : Missing(l)}
    /\ scanned = {} \/ failures # {} => code = {2}

Accounting == Unread /\ CountedOnce /\ Gated /\ SkipsListed

HasEntry(p) == \E e \in inventory : e.file = p /\ e.language = Language[p]

\* The scan got past the first walk, past the second.
PastFirst  == phase \in {"walk2", "read"} \/ code # {}
PastSecond == phase = "read" \/ code # {}

\* What is known of the files the first walk included.
Remembered ==
  /\ \A p \in included : p \in files \/ HasEntry(p)
  /\ \A p \in included : Language[p] = "native" => p \in files
  /\ \A p \in included : Language[p] = "recognised" => skipped # {}
  /\ PastSecond => \A p \in files \ pending : p \in scanned \/ skipped # {}

Hides == Ignored \cup Opaque

FirstWalk ==
  phase = "walk1" => \A p \in steady \ todo : p \notin Hides =>
    /\ node[p] = "dir" => p \in entered
    /\ node[p] = "file" => p \in included

Included ==
  PastFirst => \A p \in Path :
    Standing(p) /\ node[p] = "file" /\ Ancestors[p] \cap Hides = {} => p \in included

SecondWalkSaw ==
  phase = "walk2" => \A p \in steady \ todo :
    /\ node[p] = "dir" /\ p \notin Opaque => p \in entered
    /\ node[p] \in {"file", "symlink"} => HasEntry(p) \/ p \in files
    /\ node[p] = "locked" /\ p \notin Opaque => Display[p] \in Shown(skipped)

Accounted ==
  PastSecond => \A p \in Path : Standing(p) =>
    /\ node[p] \in {"file", "symlink"} => HasEntry(p) \/ p \in pending
    /\ node[p] = "locked" /\ p \notin Opaque => Display[p] \in Inventoried \cap Shown(skipped)

Sight == Remembered /\ FirstWalk /\ Included /\ SecondWalkSaw /\ Accounted

IInv == TypeOK /\ Accounting /\ Sight

-----------------------------------------------------------------------------
(* The directories above a path: itself, and with each its parent.         *)
LEMMA AncestorsFacts ==
  ASSUME NEW p \in Path
  PROVE  /\ p \in Ancestors[p] /\ Ancestors[p] \subseteq Path
         /\ \A q \in Ancestors[p] : Parent[q] \in Ancestors[p]
<1>1. Ancestors[p] = {q \in Path : \A S \in SUBSET Path :
                        p \in S /\ (\A r \in S : Parent[r] \in S) => q \in S}
  BY DEF Ancestors
<1>2. ASSUME NEW q \in Ancestors[p]
      PROVE  Parent[q] \in Ancestors[p]
  <2>1. Parent[q] \in Path
    BY <1>1, <1>2, TreeAssumption
  <2> QED BY <1>1, <1>2, <2>1
<1> QED BY <1>1, <1>2

(* A walk with nothing left to reach has been to every path below          *)
(* directories it opened wherever it came to them.                         *)
LEMMA WalkedDown ==
  ASSUME Exhausted, NEW p \in Path,
         \A q \in Ancestors[p] \ {p} : q \notin todo => q \in entered
  PROVE  p \notin todo
<1> SUFFICES ASSUME p \in todo PROVE FALSE
  OBVIOUS
<1> DEFINE T == {q \in Ancestors[p] : q \in todo}
<1>1. T \in (SUBSET Path) \ {{}}
  BY AncestorsFacts
<1>2. ASSUME NEW q \in T
      PROVE  Parent[q] \in T
  <2>1. Parent[q] \in Ancestors[p] /\ Parent[q] \notin entered
    BY <1>2, AncestorsFacts DEF Exhausted
  <2> QED BY <2>1
<1>3. Root \in T
  BY <1>1, <1>2, TreeAssumption
<1> QED BY <1>3 DEF Exhausted

(* What stands after a step stood before it, as the same kind of node.     *)
LEMMA StandingStep ==
  ASSUME TypeOK, UNCHANGED fsVars \/ \E q \in Path : Change(q),
         NEW p \in Path
  PROVE  /\ p \in steady' => p \in steady /\ node'[p] = node[p]
         /\ Standing(p)' => Standing(p) /\ p \in steady'
<1>1. \A q \in steady' : q \in steady /\ node'[q] = node[q]
  BY DEF TypeOK, DiscoveryTypeOK, fsVars, Change
<1>2. p \in Ancestors[p]
  BY AncestorsFacts
<1> QED BY <1>1, <1>2 DEF Standing

-----------------------------------------------------------------------------
(* Entries are records of the inventory's kind, with the fields given.     *)
LEMMA ListedFacts ==
  ASSUME NEW p \in Path, NEW o \in Outcome,
         NEW s \in {"listed", "policy", "skip", "read"}
  PROVE  /\ Listed(p, o, s) \in Entry
         /\ Listed(p, o, s).file = p /\ Listed(p, o, s).outcome = o
         /\ Listed(p, o, s).language = Language[p]
         /\ Listed(p, o, s).complete = FALSE
BY TreeAssumption DEF Listed, Entry, LanguageName

LEMMA AnalysedFacts ==
  ASSUME NEW p \in Path, NEW w \in BOOLEAN
  PROVE  /\ Analysed(p, w) \in Entry
         /\ Analysed(p, w).file = p /\ Analysed(p, w).outcome = "analysed"
         /\ Analysed(p, w).language = Language[p]
         /\ Analysed(p, w).complete = w
BY TreeAssumption DEF Analysed, Listed, Entry, LanguageName, Outcome

LEMMA UnreadableFacts ==
  ASSUME NEW p \in Path
  PROVE  /\ Unreadable(p) \in Entry
         /\ Unreadable(p).file = p /\ Unreadable(p).outcome = "unreadable"
BY TreeAssumption DEF Unreadable, Listed, Entry, LanguageName, Outcome

-----------------------------------------------------------------------------
(* A step of either walk adds entries that are not analysed and the skips  *)
(* that go with them, and leaves the engine alone.                         *)
LEMMA DiscoverEffect ==
  ASSUME TypeOK, Discover
  PROVE  /\ TypeOK'
         /\ inventory \subseteq inventory' /\ skipped \subseteq skipped'
         /\ included \subseteq included' /\ files \subseteq files'
         /\ \A e \in inventory' \ inventory :
              /\ e.outcome # "analysed"
              /\ e.outcome = "excluded-by-policy" \/ e.file \in skipped'
         /\ UNCHANGED <<fsVars, options, engineVars, code, exit>>
         /\ phase \in {"open", "walk1", "walk2"} /\ phase' \in {"walk1", "walk2"}
<1> USE DEF TypeOK, DiscoveryTypeOK, engineVars
<1>1. CASE OpenRoot
  BY <1>1 DEF OpenRoot, StartWalk, fsVars, discoveryVars, Discover
<1>2. CASE SecondWalk
  BY <1>2 DEF SecondWalk, StartWalk, fsVars, discoveryVars, Discover
<1>3. ASSUME NEW p \in Path, Visit(p), Discover
      PROVE  /\ included' \subseteq Path /\ files' \subseteq included' /\ skipped' \subseteq Path
             /\ inventory' \subseteq Entry /\ todo' \subseteq Path /\ entered' \subseteq Path
             /\ inventory \subseteq inventory' /\ skipped \subseteq skipped'
             /\ included \subseteq included' /\ files \subseteq files'
             /\ \A e \in inventory' \ inventory :
                  /\ e.outcome # "analysed"
                  /\ e.outcome = "excluded-by-policy" \/ e.file \in skipped'
             /\ UNCHANGED fsVars /\ phase = "walk1" /\ phase' = phase
  <2>1. UNCHANGED fsVars /\ phase = "walk1" /\ phase' = phase /\ todo' \subseteq Path
    BY <1>3 DEF Visit, Reach
  <2>2. CASE Pass
    BY <2>1, <2>2 DEF Pass, discoveryVars
  <2>3. CASE Enter(p)
    BY <2>1, <2>3 DEF Enter, discoveryVars
  <2>4. CASE Fail(p)
    BY <2>1, <2>4 DEF Fail
  <2>5. CASE Include(p)
    <3>1. \A o \in {"excluded-by-policy", "unsupported"} :
            /\ Listed(p, o, "listed") \in Entry /\ Listed(p, o, "listed").file = p
            /\ Listed(p, o, "listed").outcome = o
      BY <1>3, TreeAssumption DEF Listed, Entry, LanguageName, Outcome
    <3> QED BY <2>1, <2>5, <3>1 DEF Include
  <2> QED BY <1>3, <2>2, <2>3, <2>4, <2>5 DEF Visit
<1>4. ASSUME NEW p \in Path, Account(p), Discover
      PROVE  /\ included' = included /\ files' = files /\ skipped' \subseteq Path
             /\ inventory' \subseteq Entry /\ todo' \subseteq Path /\ entered' \subseteq Path
             /\ inventory \subseteq inventory' /\ skipped \subseteq skipped'
             /\ \A e \in inventory' \ inventory : e.outcome = "excluded-by-policy"
             /\ UNCHANGED fsVars /\ phase = "walk2" /\ phase' = phase
  <2>1. UNCHANGED fsVars /\ phase = "walk2" /\ phase' = phase /\ todo' \subseteq Path
    BY <1>4 DEF Account, Reach
  <2>2. CASE Pass
    BY <2>1, <2>2 DEF Pass, discoveryVars
  <2>3. CASE Enter(p)
    BY <2>1, <2>3 DEF Enter, discoveryVars
  <2>4. CASE Fail(p)
    BY <2>1, <2>4 DEF Fail
  <2>5. CASE Exclude(p)
    <3>1. /\ Listed(p, "excluded-by-policy", "policy") \in Entry
          /\ Listed(p, "excluded-by-policy", "policy").outcome = "excluded-by-policy"
      BY <1>4, TreeAssumption DEF Listed, Entry, LanguageName, Outcome
    <3> QED BY <2>1, <2>5, <3>1 DEF Exclude
  <2> QED BY <1>4, <2>2, <2>3, <2>4, <2>5 DEF Account
<1>5. UNCHANGED <<options, engineVars, code, exit>>
  BY DEF Discover
<1>6. CASE \E p \in Path : Visit(p)
  BY <1>3, <1>5, <1>6 DEF fsVars
<1>7. CASE \E p \in Path : Account(p)
  BY <1>4, <1>5, <1>7 DEF fsVars
<1> QED BY <1>1, <1>2, <1>6, <1>7 DEF Discover

(* Walking keeps the accounting: nothing is analysed yet.                  *)
LEMMA DiscoverAccounting ==
  ASSUME TypeOK, Accounting, Discover
  PROVE  Accounting'
<1>1. AnalysedEntries' = AnalysedEntries
  BY DiscoverEffect DEF AnalysedEntries
<1>2. scanned = {} /\ pending = {} /\ UNCHANGED <<pending, scanned, code>>
  BY DiscoverEffect DEF engineVars, Accounting, Unread
<1>3. Unread' /\ CountedOnce'
  BY <1>1, <1>2 DEF Accounting, Unread, CountedOnce
<1>4. code = {}
  BY DiscoverEffect DEF Accounting, Gated
<1>5. Gated'
  BY <1>2, <1>4 DEF Gated
<1>6. SkipsListed'
  BY DiscoverEffect DEF Accounting, SkipsListed, Shown
<1> QED BY <1>3, <1>5, <1>6 DEF Accounting

(* Discovery's last step gives each skip without an entry one.             *)
LEMMA UnexplainedFacts ==
  ASSUME TypeOK
  PROVE  /\ \A e \in UnexplainedSkips :
              e \in Entry /\ e.outcome = "unreadable" /\ e.file \in skipped
         /\ \A n \in Shown(skipped) \ Inventoried :
              \E e \in UnexplainedSkips : Display[e.file] = n
<1> DEFINE Of(n) == CHOOSE p \in skipped : Display[p] = n
<1>1. ASSUME NEW n \in Shown(skipped)
      PROVE  /\ Of(n) \in skipped /\ Display[Of(n)] = n
             /\ Unreadable(Of(n)) \in Entry /\ Unreadable(Of(n)).file = Of(n)
             /\ Unreadable(Of(n)).outcome = "unreadable"
  <2>1. Of(n) \in skipped /\ Display[Of(n)] = n
    BY <1>1 DEF Shown
  <2> QED BY <2>1, UnreadableFacts DEF TypeOK, DiscoveryTypeOK
<1>2. UnexplainedSkips = {Unreadable(Of(n)) : n \in Shown(skipped) \ Inventoried}
  BY DEF UnexplainedSkips
<1> HIDE DEF Of
<1> QED BY <1>1, <1>2

LEMMA StartReadingAccounting ==
  ASSUME TypeOK, Accounting, StartReading
  PROVE  TypeOK' /\ Accounting'
<1>1. /\ phase = "walk2" /\ phase' = "read" /\ pending' = files
      /\ inventory' = inventory \cup UnexplainedSkips
      /\ UNCHANGED <<fsVars, included, files, skipped, options, scanned, failures, gating, code, exit>>
      /\ todo' = {} /\ entered' = {}
  BY DEF StartReading, FinishDiscovery
<1>2. TypeOK'
  BY <1>1, UnexplainedFacts DEF TypeOK, DiscoveryTypeOK, fsVars
<1>3. AnalysedEntries' = AnalysedEntries
  BY <1>1, UnexplainedFacts DEF AnalysedEntries
<1>4. scanned = {} /\ code = {}
  BY <1>1 DEF Accounting, Unread, Gated
<1>5. Unread' /\ CountedOnce' /\ Gated'
  BY <1>1, <1>3, <1>4 DEF Accounting, Unread, CountedOnce, Gated
<1>6. SkipsListed'
  BY <1>1, UnexplainedFacts DEF Accounting, SkipsListed, Shown
<1> QED BY <1>2, <1>5, <1>6 DEF Accounting

(* A file read is counted and listed, or skipped and listed.               *)
LEMMA ReadAccounting ==
  ASSUME TypeOK, Accounting, NEW p \in Path, Read(p)
  PROVE  /\ TypeOK' /\ Accounting'
         /\ skipped \subseteq skipped' /\ scanned \subseteq scanned'
         /\ inventory \subseteq inventory'
         /\ \E e \in inventory' : e.file = p /\ e.language = Language[p]
         /\ p \in scanned' \/ p \in skipped'
<1>1. /\ phase = "read" /\ p \in pending /\ pending' = pending \ {p}
      /\ UNCHANGED <<fsVars, phase, walkVars, included, files, options, failures, code, exit>>
  BY DEF Read
<1>2. code = {} /\ p \in files /\ p \notin scanned
  BY <1>1 DEF Accounting, Gated, CountedOnce
<1>3. ASSUME NEW o \in Outcome, Setback(p, o)
      PROVE  /\ o \in {"unreadable", "timeout", "parse-error", "unsupported"}
             /\ inventory' = inventory \cup {Listed(p, o, "read")}
             /\ Listed(p, o, "read") \in Entry /\ Listed(p, o, "read").file = p
             /\ Listed(p, o, "read").outcome = o /\ Listed(p, o, "read").language = Language[p]
             /\ skipped' = skipped \cup {p} /\ UNCHANGED <<scanned, gating>>
  BY <1>3, TreeAssumption DEF Setback, Listed, Entry, LanguageName
<1>4. ASSUME NEW w \in BOOLEAN, NEW g \in BOOLEAN, Analyse(p, w, g)
      PROVE  /\ inventory' = inventory \cup {Analysed(p, w)}
             /\ scanned' = scanned \cup {p} /\ skipped' = skipped
             /\ gating' \in {gating, gating \cup {p}}
  BY <1>4 DEF Analyse
<1>5. CASE \E o \in Outcome : Setback(p, o)
  <2>1. PICK o \in Outcome : Setback(p, o)
    BY <1>5
  <2>2. TypeOK'
    BY <1>1, <1>3, <2>1 DEF TypeOK, DiscoveryTypeOK, fsVars, walkVars
  <2>3. AnalysedEntries' = AnalysedEntries
    BY <1>3, <2>1 DEF AnalysedEntries
  <2>4. Unread' /\ CountedOnce' /\ Gated'
    BY <1>1, <1>2, <1>3, <2>1, <2>3 DEF Accounting, Unread, CountedOnce, Gated
  <2>5. SkipsListed'
    BY <1>3, <2>1 DEF Accounting, SkipsListed, Shown
  <2> QED BY <1>3, <2>1, <2>2, <2>4, <2>5 DEF Accounting
<1>6. CASE \E w, g \in BOOLEAN : Analyse(p, w, g)
  <2>1. PICK w \in BOOLEAN, g \in BOOLEAN : Analyse(p, w, g)
    BY <1>6
  <2> DEFINE e == Analysed(p, w)
  <2>2. /\ e \in Entry /\ e.file = p /\ e.outcome = "analysed" /\ e.language = Language[p]
    BY AnalysedFacts
  <2> HIDE DEF e
  <2>3. /\ inventory' = inventory \cup {e} /\ scanned' = scanned \cup {p}
        /\ skipped' = skipped /\ gating' \in {gating, gating \cup {p}}
    BY <1>4, <2>1 DEF e
  <2>4. TypeOK'
    BY <1>1, <1>2, <2>2, <2>3 DEF TypeOK, DiscoveryTypeOK, fsVars, walkVars
  <2>5. AnalysedEntries' = AnalysedEntries \cup {e}
    BY <2>2, <2>3 DEF AnalysedEntries
  <2>6. CountedOnce'
    BY <1>1, <1>2, <2>2, <2>3, <2>5 DEF Accounting, CountedOnce
  <2>7. Unread' /\ Gated'
    BY <1>1, <1>2 DEF Unread, Gated
  <2>8. SkipsListed'
    BY <2>2, <2>3 DEF Accounting, SkipsListed, Shown
  <2> QED BY <2>2, <2>3, <2>4, <2>6, <2>7, <2>8 DEF Accounting
<1> QED BY <1>5, <1>6 DEF Read

(* The gate answers 2 for a scan of nothing and for a failed requirement.  *)
LEMMA GateAccounting ==
  ASSUME TypeOK, Accounting, Gate
  PROVE  TypeOK' /\ Accounting'
<1> DEFINE failed == {l \in options.required : Missing(l)}
<1>1. /\ phase = "read" /\ pending = {} /\ phase' = "emit" /\ failures' = failed
      /\ code' = IF CoverageFailed(failed) THEN {2}
                 ELSE IF options.failOn /\ gating # {} THEN {1} ELSE {0}
      /\ UNCHANGED <<fsVars, walkVars, discoveryVars, options, pending, scanned, gating, exit>>
  BY DEF Gate
<1>2. failed' = failed
  BY <1>1 DEF discoveryVars, Missing
<1> HIDE DEF failed
<1>3. failed \subseteq options.required
  BY DEF failed
<1>4. scanned = {} \/ failed # {} => code' = {2}
  BY <1>1 DEF CoverageFailed
<1>5. TypeOK'
  BY <1>1, <1>3 DEF TypeOK, DiscoveryTypeOK, fsVars, walkVars, discoveryVars
<1>6. AnalysedEntries' = AnalysedEntries
  BY <1>1 DEF AnalysedEntries, discoveryVars
<1>7. Unread' /\ CountedOnce' /\ SkipsListed'
  BY <1>1, <1>6 DEF Accounting, Unread, CountedOnce, SkipsListed, Shown, discoveryVars
<1>8. Gated'
  <2>1. failures' = failed'
    BY <1>1, <1>2
  <2>2. failures' = {l \in options' .required : Missing(l)'}
    BY <2>1 DEF failed
  <2> QED BY <1>1, <1>4, <2>2 DEF Gated
<1> QED BY <1>5, <1>7, <1>8 DEF Accounting

-----------------------------------------------------------------------------
(* What changes elsewhere leaves what was seen as it is: for a step that   *)
(* keeps the phase and forgets nothing.                                    *)
LEMMA SightKept ==
  ASSUME TypeOK, Accounting, Sight, UNCHANGED fsVars \/ \E q \in Path : Change(q),
         UNCHANGED <<phase, walkVars, discoveryVars, options, engineVars, code>>
  PROVE  Sight'
<1> USE DEF walkVars, discoveryVars, engineVars
<1>1. Remembered'
  BY DEF Sight, PastSecond, Remembered, HasEntry
<1>2. \A p \in Path : p \in steady' => p \in steady /\ node'[p] = node[p]
  BY StandingStep
<1>3. \A p \in Path : Standing(p)' => Standing(p) /\ node'[p] = node[p]
  BY StandingStep
<1>4. steady' \subseteq Path
  BY DEF TypeOK, DiscoveryTypeOK, fsVars, Change
<1>5. FirstWalk'
  BY <1>2, <1>4 DEF Sight, FirstWalk
<1>6. Included'
  BY <1>3 DEF Sight, Included, PastFirst
<1>7. SecondWalkSaw'
  BY <1>2, <1>4 DEF Sight, SecondWalkSaw, HasEntry, Shown
<1>8. Accounted'
  BY <1>3 DEF Sight, Accounted, PastSecond, HasEntry, Shown, Inventoried
<1> QED BY <1>1, <1>5, <1>6, <1>7, <1>8 DEF Sight

(* A step that leaves the file system alone and stays in its walk keeps    *)
(* what was seen of each path but the one it comes to.                     *)
LEMMA OpenRootSight ==
  ASSUME TypeOK, Accounting, Sight, OpenRoot, Discover
  PROVE  Sight'
<1>1. /\ phase' = "walk1" /\ todo' = Path /\ code' = code /\ code = {}
      /\ UNCHANGED <<fsVars, discoveryVars, engineVars>>
  BY DEF OpenRoot, StartWalk, Discover, Accounting, Gated
<1>2. Remembered'
  BY <1>1 DEF Sight, PastSecond, Remembered, HasEntry, discoveryVars
<1>3. FirstWalk'
  BY <1>1 DEF FirstWalk, TypeOK, DiscoveryTypeOK, fsVars
<1> QED BY <1>1, <1>2, <1>3 DEF Sight, Included, PastFirst, SecondWalkSaw, Accounted, PastSecond

LEMMA VisitSight ==
  ASSUME TypeOK, Accounting, Sight, NEW p \in Path, Visit(p), Discover
  PROVE  Sight'
<1>1. /\ phase = "walk1" /\ phase' = "walk1" /\ todo' = todo \ {p} /\ UNCHANGED fsVars
      /\ code' = code /\ code = {} /\ UNCHANGED engineVars
  BY DEF Visit, Reach, Discover, Accounting, Gated
<1>2. /\ inventory \subseteq inventory' /\ skipped \subseteq skipped'
      /\ included \subseteq included' /\ files \subseteq files'
  BY DiscoverEffect
<1>3. entered \subseteq entered'
  BY DEF Visit, Pass, Enter, Fail, Include, discoveryVars
<1>4. ASSUME NEW q \in included', q \notin included
      PROVE  /\ q = p /\ Include(p)
  BY <1>4 DEF Visit, Pass, Enter, Fail, discoveryVars, Include
<1>5. ASSUME Include(p)
      PROVE  /\ p \in included'
             /\ p \in files' \/ HasEntry(p)'
             /\ Language[p] = "native" => p \in files'
             /\ Language[p] = "recognised" => skipped' # {}
  <2>1. \A o \in Outcome : Listed(p, o, "listed").file = p /\ Listed(p, o, "listed").language = Language[p]
    BY DEF Listed
  <2>2. CASE Language[p] = "native"
    BY <1>5, <2>2 DEF Include
  <2>3. CASE Language[p] # "native"
    <3>1. \E o \in Outcome : inventory' = inventory \cup {Listed(p, o, "listed")}
      BY <1>5, <2>3 DEF Include, Outcome
    <3>2. Language[p] = "recognised" => p \in skipped'
      BY <1>5, <2>3 DEF Include, OutOfScope
    <3>3. p \in included'
      BY <1>5 DEF Include
    <3> QED BY <2>1, <2>3, <3>1, <3>2, <3>3 DEF HasEntry
  <2> QED BY <2>2, <2>3
<1>6. Remembered'
  <2>1. \A q \in Path : HasEntry(q) => HasEntry(q)'
    BY <1>2 DEF HasEntry
  <2>2. included \subseteq Path
    BY DEF TypeOK, DiscoveryTypeOK
  <2>3. ASSUME NEW q \in included'
        PROVE  /\ q \in files' \/ HasEntry(q)'
               /\ Language[q] = "native" => q \in files'
               /\ Language[q] = "recognised" => skipped' # {}
    <3>1. CASE q \in included
      BY <1>2, <2>1, <2>2, <3>1 DEF Sight, PastSecond, Remembered
    <3>2. CASE q \notin included
      BY <1>4, <1>5, <2>3, <3>2
    <3> QED BY <3>1, <3>2
  <2> QED BY <1>1, <2>3 DEF Remembered, PastSecond
<1>7. FirstWalk'
  <2>1. p \notin Hides =>
          /\ node[p] = "dir" => p \in entered'
          /\ node[p] = "file" => p \in included'
    BY <1>5 DEF Visit, Hides, Enter
  <2>2. \A q \in steady \ todo : q \notin Hides =>
          /\ node[q] = "dir" => q \in entered
          /\ node[q] = "file" => q \in included
    BY <1>1 DEF Sight, FirstWalk
  <2>3. node' = node /\ steady' = steady
    BY <1>1 DEF fsVars
  <2> QED BY <1>1, <1>2, <1>3, <2>1, <2>2, <2>3 DEF FirstWalk
<1> QED BY <1>1, <1>6, <1>7 DEF Sight, Included, PastFirst, SecondWalkSaw, Accounted, PastSecond

(* The first walk has been to every standing path no policy hides.         *)
LEMMA SecondWalkSight ==
  ASSUME TypeOK, Accounting, Sight, SecondWalk, Discover
  PROVE  Sight'
<1>1. /\ phase = "walk1" /\ Exhausted /\ phase' = "walk2" /\ todo' = Path
      /\ code' = code /\ code = {} /\ UNCHANGED <<fsVars, discoveryVars, engineVars>>
  BY DEF SecondWalk, StartWalk, Discover, Accounting, Gated
<1>2. Remembered'
  BY <1>1 DEF Sight, PastSecond, Remembered, HasEntry, discoveryVars
<1>3. ASSUME NEW p \in Path, Standing(p), node[p] = "file", Ancestors[p] \cap Hides = {}
      PROVE  p \in included
  <2>1. Ancestors[p] \subseteq steady /\ p \in Ancestors[p]
    BY <1>3, AncestorsFacts DEF Standing
  <2>2. \A q \in Ancestors[p] \ {p} : q \notin todo => q \in entered
    BY <1>1, <1>3, <2>1 DEF Standing, Sight, FirstWalk
  <2>3. p \notin todo
    BY <1>1, <2>2, WalkedDown
  <2> QED BY <1>1, <1>3, <2>1, <2>3 DEF Sight, FirstWalk
<1>4. Included'
  <2>1. \A p \in Path : Standing(p)' => Standing(p)
    BY <1>1 DEF Standing, fsVars
  <2> QED BY <1>1, <1>3, <2>1 DEF Included, fsVars, discoveryVars
<1>5. SecondWalkSaw'
  BY <1>1 DEF SecondWalkSaw, TypeOK, DiscoveryTypeOK, fsVars
<1> QED BY <1>1, <1>2, <1>4, <1>5 DEF Sight, FirstWalk, Accounted, PastSecond

LEMMA AccountSight ==
  ASSUME TypeOK, Accounting, Sight, NEW p \in Path, Account(p), Discover
  PROVE  Sight'
<1>1. /\ phase = "walk2" /\ phase' = "walk2" /\ todo' = todo \ {p} /\ UNCHANGED fsVars
      /\ code' = code /\ code = {} /\ UNCHANGED engineVars
  BY DEF Account, Reach, Discover, Accounting, Gated
<1>2. /\ inventory \subseteq inventory' /\ skipped \subseteq skipped'
      /\ included' = included /\ files' = files /\ entered \subseteq entered'
  BY DiscoverEffect DEF Account, Pass, Enter, Fail, Exclude, discoveryVars
<1>3. \A q \in Path : HasEntry(q) => HasEntry(q)'
  BY <1>2 DEF HasEntry
<1>4. included \subseteq Path
  BY DEF TypeOK, DiscoveryTypeOK
<1>5. Remembered'
  BY <1>1, <1>2, <1>3, <1>4 DEF Sight, PastSecond, Remembered
<1>6. node' = node /\ steady' = steady
  BY <1>1 DEF fsVars
<1>7. Included'
  <2>1. \A q \in Path : Standing(q)' => Standing(q)
    BY <1>6 DEF Standing
  <2> QED BY <1>1, <1>2, <1>6, <2>1 DEF Sight, Included, PastFirst
<1>8. SecondWalkSaw'
  <2>1. /\ node[p] = "dir" /\ p \notin Opaque => p \in entered'
        /\ node[p] \in {"file", "symlink"} => HasEntry(p)' \/ p \in files'
        /\ node[p] = "locked" /\ p \notin Opaque => Display[p] \in Shown(skipped')
    <3>1. node[p] = "dir" /\ p \notin Opaque => p \in entered'
      BY DEF Account, Enter
    <3>2. node[p] \in {"file", "symlink"} => HasEntry(p)' \/ p \in files'
      <4>1. CASE p \in included
        BY <1>2, <1>3, <4>1 DEF Sight, PastSecond, Remembered
      <4>2. CASE p \notin included
        <5> DEFINE e == Listed(p, "excluded-by-policy", "policy")
        <5>1. e.file = p /\ e.language = Language[p]
          BY DEF Listed
        <5>2. node[p] \in {"file", "symlink"} => inventory' = inventory \cup {e}
          BY <4>2 DEF Account, Exclude, IsDir
        <5> HIDE DEF e
        <5> QED BY <5>1, <5>2 DEF HasEntry
      <4> QED BY <4>1, <4>2
    <3>3. node[p] = "locked" /\ p \notin Opaque => Display[p] \in Shown(skipped')
      BY DEF Account, Pass, Fail, IsDir, Shown, discoveryVars
    <3> QED BY <3>1, <3>2, <3>3
  <2>2. \A q \in steady \ todo :
          /\ node[q] = "dir" /\ q \notin Opaque => q \in entered
          /\ node[q] \in {"file", "symlink"} => HasEntry(q) \/ q \in files
          /\ node[q] = "locked" /\ q \notin Opaque => Display[q] \in Shown(skipped)
    BY <1>1 DEF Sight, SecondWalkSaw
  <2>3. Shown(skipped) \subseteq Shown(skipped')
    BY <1>2 DEF Shown
  <2>4. steady \subseteq Path
    BY DEF TypeOK, DiscoveryTypeOK
  <2>5. ASSUME NEW q \in steady', q \notin todo'
        PROVE  /\ node'[q] = "dir" /\ q \notin Opaque => q \in entered'
               /\ node'[q] \in {"file", "symlink"} => HasEntry(q)' \/ q \in files'
               /\ node'[q] = "locked" /\ q \notin Opaque => Display[q] \in Shown(skipped')
    <3>1. CASE q = p
      BY <1>6, <2>1, <3>1
    <3>2. CASE q # p
      BY <1>1, <1>2, <1>3, <1>6, <2>2, <2>3, <2>4, <2>5, <3>2
    <3> QED BY <3>1, <3>2
  <2>6. Shown(skipped)' = Shown(skipped')
    BY DEF Shown
  <2> QED BY <2>5, <2>6 DEF SecondWalkSaw
<1> QED BY <1>1, <1>5, <1>7, <1>8 DEF Sight, FirstWalk, Accounted, PastSecond

(* The second walk has been to every standing path outside the boundaries. *)
LEMMA StartReadingSight ==
  ASSUME TypeOK, Accounting, Sight, StartReading
  PROVE  Sight'
<1>1. /\ phase = "walk2" /\ Exhausted /\ phase' = "read" /\ pending' = files
      /\ inventory' = inventory \cup UnexplainedSkips
      /\ UNCHANGED <<fsVars, included, files, skipped, scanned, code>>
  BY DEF StartReading, FinishDiscovery
<1>2. node' = node /\ steady' = steady
  BY <1>1 DEF fsVars
<1>3. \A q \in Path : Standing(q)' => Standing(q)
  BY <1>2 DEF Standing
<1>4. \A q \in Path : HasEntry(q) => HasEntry(q)'
  BY <1>1 DEF HasEntry
<1>5. Remembered'
  BY <1>1, <1>4 DEF Sight, PastSecond, Remembered, TypeOK, DiscoveryTypeOK
<1>6. Included'
  BY <1>1, <1>2, <1>3 DEF Sight, Included, PastFirst
<1>7. ASSUME NEW p \in Path, Standing(p)
      PROVE  p \in steady /\ p \notin todo
  <2>1. Ancestors[p] \subseteq steady /\ p \in Ancestors[p]
    BY <1>7, AncestorsFacts DEF Standing
  <2>2. \A q \in Ancestors[p] \ {p} : q \notin todo => q \in entered
    BY <1>1, <1>7, <2>1 DEF Standing, Sight, SecondWalkSaw
  <2> QED BY <1>1, <2>1, <2>2, WalkedDown
<1>8. Shown(skipped) \subseteq Inventoried'
  BY <1>1, UnexplainedFacts DEF Inventoried, Shown
<1>9. Accounted'
  BY <1>1, <1>2, <1>3, <1>4, <1>7, <1>8 DEF Sight, SecondWalkSaw, Accounted, Shown
<1> QED BY <1>1, <1>5, <1>6, <1>9 DEF Sight, FirstWalk, SecondWalkSaw

LEMMA ReadSight ==
  ASSUME TypeOK, Accounting, Sight, NEW p \in Path, Read(p)
  PROVE  Sight'
<1>1. /\ phase = "read" /\ p \in pending /\ pending' = pending \ {p}
      /\ UNCHANGED <<fsVars, phase, walkVars, included, files, code>>
  BY DEF Read
<1>2. /\ skipped \subseteq skipped' /\ scanned \subseteq scanned'
      /\ inventory \subseteq inventory' /\ HasEntry(p)'
      /\ p \in scanned' \/ p \in skipped'
  BY ReadAccounting DEF HasEntry
<1>3. node' = node /\ steady' = steady
  BY <1>1 DEF fsVars
<1>4. \A q \in Path : Standing(q)' => Standing(q)
  BY <1>3 DEF Standing
<1>5. \A q \in Path : HasEntry(q) => HasEntry(q)'
  BY <1>2 DEF HasEntry
<1>6. included \subseteq Path /\ files \subseteq Path
  BY DEF TypeOK, DiscoveryTypeOK
<1>7. Remembered'
  BY <1>1, <1>2, <1>5, <1>6 DEF Sight, PastSecond, Remembered
<1>8. Included'
  BY <1>1, <1>3, <1>4 DEF Sight, Included, PastFirst
<1>9. Accounted'
  <2>1. Shown(skipped) \subseteq Shown(skipped)' /\ Inventoried \subseteq Inventoried'
    BY <1>2 DEF Shown, Inventoried
  <2> QED BY <1>1, <1>2, <1>3, <1>4, <1>5, <2>1 DEF Sight, Accounted, PastSecond
<1> QED BY <1>1, <1>7, <1>8, <1>9 DEF Sight, FirstWalk, SecondWalkSaw

LEMMA GateSight ==
  ASSUME TypeOK, Accounting, Sight, Gate
  PROVE  Sight'
<1>1. /\ phase = "read" /\ phase' = "emit"
      /\ UNCHANGED <<fsVars, walkVars, discoveryVars, pending, scanned>>
  BY DEF Gate
<1> USE DEF walkVars, discoveryVars
<1>2. node' = node /\ steady' = steady
  BY <1>1 DEF fsVars
<1>3. \A q \in Path : Standing(q)' => Standing(q)
  BY <1>2 DEF Standing
<1>4. Remembered'
  BY <1>1 DEF Sight, PastSecond, Remembered, HasEntry
<1>5. Included'
  BY <1>1, <1>2, <1>3 DEF Sight, Included, PastFirst
<1>6. Accounted'
  BY <1>1, <1>2, <1>3 DEF Sight, Accounted, PastSecond, HasEntry, Shown, Inventoried
<1> QED BY <1>1, <1>4, <1>5, <1>6 DEF Sight, FirstWalk, SecondWalkSaw

(* A process that ends keeps what it reported.                             *)
LEMMA ExitKeeps ==
  ASSUME TypeOK, Accounting, Sight, Refuse \/ Emit \/ EmitFails
  PROVE  TypeOK' /\ Accounting' /\ Sight'
<1>1. /\ phase \in {"open", "emit"} /\ phase' = "exited"
      /\ UNCHANGED <<fsVars, walkVars, discoveryVars, options, engineVars, code>>
  BY DEF Refuse, Emit, EmitFails
<1> USE DEF walkVars, discoveryVars, engineVars
<1>2. exit' \in SUBSET (0..2)
  <2>1. 0 \in 0..2 /\ 2 \in 0..2
    OBVIOUS
  <2>2. exit' = {2} \/ exit' = {0} \/ exit' = code
    BY DEF Refuse, Emit, EmitFails
  <2>3. code \in SUBSET (0..2)
    BY DEF TypeOK
  <2> QED BY <2>1, <2>2, <2>3
<1>3. TypeOK'
  BY <1>1, <1>2 DEF TypeOK, DiscoveryTypeOK, fsVars
<1>4. phase = "open" => pending = {} /\ scanned = {} /\ code = {}
  BY DEF Accounting, Unread, Gated
<1>5. AnalysedEntries' = AnalysedEntries /\ \A l : Missing(l)' = Missing(l)
  BY <1>1 DEF AnalysedEntries, Missing
<1>6. Unread' /\ CountedOnce' /\ SkipsListed'
  BY <1>1, <1>5 DEF Accounting, Unread, CountedOnce, SkipsListed, Shown
<1>7. Gated'
  BY <1>1, <1>5 DEF Accounting, Gated
<1>8. node' = node /\ steady' = steady
  BY <1>1 DEF fsVars
<1>9. \A q \in Path : Standing(q)' => Standing(q)
  BY <1>8 DEF Standing
<1>10. Remembered'
  BY <1>1, <1>4 DEF Sight, PastSecond, Remembered, HasEntry
<1>11. Included' /\ Accounted'
  BY <1>1, <1>8, <1>9 DEF Sight, Included, PastFirst, PastSecond, Accounted, HasEntry, Shown, Inventoried
<1> QED BY <1>1, <1>3, <1>6, <1>7, <1>10, <1>11 DEF Accounting, Sight, FirstWalk, SecondWalkSaw

-----------------------------------------------------------------------------
LEMMA InitInv == Init => IInv
<1> SUFFICES ASSUME Init PROVE IInv
  OBVIOUS
<1> USE DEF Init, DiscoveryInit
<1>1. TypeOK
  <2>1. node \in [Path -> Kind]
    BY TreeAssumption
  <2>2. code \in SUBSET (0..2) /\ exit \in SUBSET (0..2)
    OBVIOUS
  <2> QED BY <2>1, <2>2, TreeAssumption DEF TypeOK, DiscoveryTypeOK
<1>2. AnalysedEntries = {}
  BY DEF AnalysedEntries
<1>3. Accounting
  BY <1>2 DEF Accounting, Unread, CountedOnce, Gated, SkipsListed
<1>4. Sight
  BY DEF Sight, Remembered, FirstWalk, Included, SecondWalkSaw, Accounted, PastFirst, PastSecond
<1> QED BY <1>1, <1>3, <1>4 DEF IInv

(* Neither a change elsewhere nor a stutter disturbs the accounting.       *)
LEMMA ElsewhereInv ==
  ASSUME IInv, Environment \/ UNCHANGED vars
  PROVE  IInv'
<1>1. /\ UNCHANGED <<phase, walkVars, discoveryVars, options, engineVars, code, exit>>
      /\ UNCHANGED fsVars \/ \E q \in Path : Change(q)
  BY DEF Environment, Change, vars
<1>2. TypeOK /\ Accounting /\ Sight
  BY DEF IInv
<1>3. Sight'
  BY <1>1, <1>2, SightKept
<1> USE DEF walkVars, discoveryVars, engineVars
<1>4. DiscoveryTypeOK'
  <2>1. CASE UNCHANGED fsVars
    BY <1>1, <1>2, <2>1 DEF TypeOK, DiscoveryTypeOK, fsVars
  <2>2. ASSUME NEW q \in Path, Change(q)
        PROVE  node' \in [Path -> Kind] /\ steady' \subseteq Path /\ changes' \in 0..MaxChanges
    <3>1. PICK k \in Kinds[q] : node' = [node EXCEPT ![q] = k]
      BY <2>2 DEF Change
    <3>2. k \in Kind
      BY <3>1, <2>2, TreeAssumption
    <3>3. changes' \in 0..MaxChanges
      BY <1>2, <2>2, TreeAssumption DEF Change, TypeOK, DiscoveryTypeOK
    <3> QED BY <1>2, <2>2, <3>1, <3>2, <3>3 DEF Change, TypeOK, DiscoveryTypeOK
  <2> QED BY <1>1, <1>2, <2>1, <2>2 DEF TypeOK, DiscoveryTypeOK
<1>5. TypeOK'
  BY <1>1, <1>2, <1>4 DEF TypeOK
<1>6. Accounting'
  BY <1>1, <1>2 DEF Accounting, Unread, CountedOnce, Gated, SkipsListed, AnalysedEntries, Missing, Shown
<1> QED BY <1>3, <1>5, <1>6 DEF IInv

LEMMA NextInv == IInv /\ [Next]_vars => IInv'
<1> SUFFICES ASSUME IInv, [Next]_vars PROVE IInv'
  OBVIOUS
<1> USE DEF IInv
<1>1. ASSUME Discover PROVE IInv'
  <2>1. TypeOK' /\ Accounting'
    BY <1>1, DiscoverEffect, DiscoverAccounting
  <2>2. CASE OpenRoot
    BY <1>1, <2>1, <2>2, OpenRootSight
  <2>3. CASE SecondWalk
    BY <1>1, <2>1, <2>3, SecondWalkSight
  <2>4. ASSUME NEW p \in Path, Visit(p) PROVE Sight'
    BY <1>1, <2>4, VisitSight
  <2>5. ASSUME NEW p \in Path, Account(p) PROVE Sight'
    BY <1>1, <2>5, AccountSight
  <2> QED BY <1>1, <2>1, <2>2, <2>3, <2>4, <2>5 DEF Discover
<1>2. CASE StartReading
  BY <1>2, StartReadingAccounting, StartReadingSight
<1>3. ASSUME NEW p \in Path, Read(p) PROVE IInv'
  BY <1>3, ReadAccounting, ReadSight
<1>4. CASE Gate
  BY <1>4, GateAccounting, GateSight
<1>5. CASE Refuse \/ Emit \/ EmitFails
  BY <1>5, ExitKeeps
<1>6. CASE Environment \/ UNCHANGED vars
  BY <1>6, ElsewhereInv
<1> QED BY <1>1, <1>2, <1>3, <1>4, <1>5, <1>6 DEF Next, Step

LEMMA AlwaysInv == Spec => []IInv
BY InitInv, NextInv, PTL DEF Spec

-----------------------------------------------------------------------------
(* Nothing of the scan leaves its type, whatever the tree and its changes. *)
THEOREM TypeCorrect == Spec => []TypeOK
<1>1. IInv => TypeOK
  BY DEF IInv
<1> QED BY <1>1, AlwaysInv, PTL

(* The files counted and the analysed entries match one to one.            *)
LEMMA CountsAgree ==
  ASSUME TypeOK, CountedOnce
  PROVE  CountMatches
<1> DEFINE f == [e \in AnalysedEntries |-> e.file]
<1>1. scanned \subseteq Path /\ IsFiniteSet(Path)
  BY TreeAssumption DEF TypeOK, DiscoveryTypeOK
<1>2. IsFiniteSet(scanned)
  BY <1>1, FS_Subset
<1>3. f \in Bijection(AnalysedEntries, scanned)
  <2>1. f \in [AnalysedEntries -> scanned]
    BY DEF CountedOnce
  <2>2. \A d, e \in AnalysedEntries : f[d] = f[e] => d = e
    BY DEF CountedOnce
  <2>3. \A p \in scanned : \E e \in AnalysedEntries : f[e] = p
    BY DEF CountedOnce
  <2> HIDE DEF f
  <2> QED BY <2>1, <2>2, <2>3, Fun_IsBij
<1>4. ExistsBijection(AnalysedEntries, scanned)
  BY <1>3 DEF ExistsBijection
<1>5. ExistsBijection(scanned, AnalysedEntries)
  BY <1>4, Fun_ExistsBijSymmetric
<1>6. IsFiniteSet(AnalysedEntries) /\ Cardinality(AnalysedEntries) = Cardinality(scanned)
  BY <1>2, <1>5, FS_Bijection
<1> QED BY <1>6 DEF CountMatches

(* The report's accounting passes the tool's own validator, for every tree *)
(* and whatever the file system did during the scan.                       *)
THEOREM AccountingCorrect == Spec => []AccountingAgrees
<1>1. ASSUME IInv PROVE AccountingAgrees
  <2>1. TypeOK /\ CountedOnce /\ Gated /\ SkipsListed
    BY <1>1 DEF IInv, Accounting
  <2>2. CountMatches
    BY <2>1, CountsAgree
  <2>3. Reported => ExitFits
    BY <2>1 DEF Reported, ExitFits, CountedOnce, Gated
  <2>4. FindingsInInput
    BY <2>1 DEF FindingsInInput, CountedOnce, TypeOK
  <2> QED BY <2>1, <2>2, <2>3, <2>4 DEF AccountingAgrees
<1> QED BY <1>1, AlwaysInv, PTL

(* Each file or link that stood throughout the scan is in the inventory,   *)
(* each directory that stood locked is a skip.                             *)
THEOREM NothingUnseenCorrect == Spec => []NothingUnseen
<1>1. ASSUME IInv PROVE NothingUnseen
  <2>1. code # {} => pending = {}
    BY <1>1 DEF IInv, Accounting, Gated
  <2>2. \A p \in Path : HasEntry(p) => Display[p] \in Inventoried
    BY DEF HasEntry, Inventoried
  <2> QED BY <1>1, <2>1, <2>2 DEF IInv, Sight, Accounted, PastSecond, NothingUnseen, Reported
<1> QED BY <1>1, AlwaysInv, PTL

(* A complete report analysed, in full, every source or configuration file *)
(* that stood throughout and that no policy excludes.                      *)
THEOREM CompleteCorrect == Spec => []CompleteMeansAll
<1>1. ASSUME IInv PROVE CompleteMeansAll
  <2> SUFFICES ASSUME Reported, CoverageStatus = "complete-within-policy", NEW p \in Path,
                      Standing(p), node[p] = "file", Language[p] # "out-of-scope",
                      Ancestors[p] \cap (Ignored \cup Opaque) = {}
               PROVE  AnalysedInFull(p)
    BY DEF CompleteMeansAll
  <2>1. skipped = {} /\ \A e \in inventory : e.outcome = "analysed" => e.complete
    BY DEF CoverageStatus
  <2>2. pending = {} /\ PastFirst /\ PastSecond
    BY <1>1 DEF IInv, Accounting, Gated, Reported, PastFirst, PastSecond
  <2>3. p \in included
    BY <1>1, <2>2 DEF IInv, Sight, Included, Hides
  <2>4. Language[p] = "native"
    BY <1>1, <2>1, <2>3, TreeAssumption DEF IInv, Sight, Remembered
  <2>5. p \in scanned
    BY <1>1, <2>1, <2>2, <2>3, <2>4 DEF IInv, Sight, Remembered
  <2>6. PICK e \in AnalysedEntries : e.file = p
    BY <1>1, <2>5 DEF IInv, Accounting, CountedOnce
  <2> QED BY <2>1, <2>6 DEF AnalysedEntries, AnalysedInFull
<1> QED BY <1>1, AlwaysInv, PTL

(* A gate that passes has looked at something, and at all of each required *)
(* language that stood throughout.                                         *)
THEOREM GateCorrect == Spec => []GateSawTheRequired
<1>1. ASSUME IInv PROVE GateSawTheRequired
  <2> SUFFICES ASSUME Reported, code # {2} PROVE GateSawTheRequired
    BY DEF GateSawTheRequired
  <2>1. /\ pending = {} /\ scanned # {} /\ failures = {}
        /\ failures = {l \in options.required : Missing(l)}
    BY <1>1 DEF IInv, Accounting, Gated, Reported
  <2>2. \E e \in inventory : e.outcome = "analysed"
    BY <1>1, <2>1 DEF IInv, Accounting, CountedOnce, AnalysedEntries
  <2>3. ASSUME NEW p \in Path, Standing(p), node[p] \in {"file", "symlink"},
               Language[p] \in options.required
        PROVE  AnalysedInFull(p)
    <3>1. PICK e \in inventory : e.file = p /\ e.language = Language[p]
      BY <1>1, <2>1, <2>3 DEF IInv, Sight, Accounted, PastSecond, Reported, HasEntry
    <3>2. ~Missing(Language[p])
      BY <2>1, <2>3
    <3>3. e.outcome = "analysed" /\ e.complete
      BY <3>1, <3>2 DEF Missing
    <3> QED BY <3>1, <3>3 DEF AnalysedInFull
  <2> QED BY <2>2, <2>3 DEF GateSawTheRequired
<1> QED BY <1>1, AlwaysInv, PTL

-----------------------------------------------------------------------------
(* On a tree that nobody changes each path comes to the inventory once:    *)
(* from the first walk if that included it, from the second if not, from   *)
(* the skips if neither listed it, from the engine if it was to be read.   *)
Alone ==
  steady = Path =>
    /\ \A p \in included : node[p] = "file"
    /\ \A p \in files : Language[p] = "native"
    /\ phase = "open" => included = {}
    /\ phase \in {"open", "walk1"} => \A e \in inventory : e.file \in included
    /\ phase = "walk1" => included \cap todo = {}
    /\ phase = "walk2" => \A e \in inventory : e.file \in included \/ e.file \notin todo
    /\ phase \in {"open", "walk1", "walk2"} =>
         /\ \A e \in inventory : e.file \notin files
         /\ \A p \in skipped : node[p] = "locked" \/ Language[p] # "native"
    /\ phase = "read" => \A e \in inventory : e.file \notin pending
    /\ \A d, e \in inventory : d.file = e.file => d = e

OnePerPath == \A d, e \in inventory : d.file = e.file => d = e

LEMMA OneMoreEntry ==
  ASSUME OnePerPath, NEW p, NEW e, e.file = p, \A d \in inventory : d.file # p,
         inventory' = inventory \cup {e}
  PROVE  OnePerPath'
BY DEF OnePerPath

LEMMA VisitAlone ==
  ASSUME TypeOK, Alone, NEW p \in Path, Visit(p), steady = Path
  PROVE  Alone'
<1>1. /\ phase = "walk1" /\ phase' = "walk1" /\ p \in todo /\ todo' = todo \ {p}
      /\ node' = node /\ steady' = steady
  BY DEF Visit, Reach, fsVars
<1>2. CASE UNCHANGED discoveryVars
  BY <1>1, <1>2 DEF Alone, discoveryVars
<1>3. CASE Fail(p) /\ node[p] = "locked"
  BY <1>1, <1>3 DEF Alone, Fail
<1>4. CASE Include(p) /\ node[p] = "file"
  <2>1. p \notin included /\ included' = included \cup {p} /\ \A d \in inventory : d.file # p
    BY <1>1, <1>4 DEF Alone, Include
  <2>2. CASE Language[p] = "native" /\ files' = files \cup {p} /\ UNCHANGED <<skipped, inventory>>
    BY <1>1, <1>4, <2>1, <2>2 DEF Alone
  <2>3. ASSUME NEW o \in Outcome, Language[p] # "native", files' = files,
               inventory' = inventory \cup {Listed(p, o, "listed")},
               skipped' \in {skipped, skipped \cup {p}}
        PROVE  Alone'
    <3> DEFINE e == Listed(p, o, "listed")
    <3>1. e.file = p
      BY ListedFacts
    <3> HIDE DEF e
    <3>2. inventory' = inventory \cup {e}
      BY <2>3 DEF e
    <3>3. OnePerPath'
      <4>1. OnePerPath
        BY DEF Alone, OnePerPath
      <4> QED
        BY <2>1, <3>1, <3>2, <4>1, OneMoreEntry
    <3>4. files \subseteq included /\ p \notin files
      BY <2>1 DEF TypeOK, DiscoveryTypeOK
    <3> QED
      BY <1>1, <1>4, <2>1, <2>3, <3>1, <3>2, <3>3, <3>4 DEF Alone, OnePerPath
  <2>4. "excluded-by-policy" \in Outcome /\ "unsupported" \in Outcome
    BY DEF Outcome
  <2> QED
    BY <1>4, <2>2, <2>3, <2>4 DEF Include
<1> QED
  BY <1>2, <1>3, <1>4 DEF Visit, Pass, Enter

LEMMA AccountAlone ==
  ASSUME TypeOK, Alone, NEW p \in Path, Account(p), steady = Path
  PROVE  Alone'
<1>1. /\ phase = "walk2" /\ phase' = "walk2" /\ p \in todo /\ todo' = todo \ {p}
      /\ node' = node /\ steady' = steady
  BY DEF Account, Reach, fsVars
<1>2. CASE UNCHANGED discoveryVars
  BY <1>1, <1>2 DEF Alone, discoveryVars
<1>3. CASE Fail(p) /\ node[p] = "locked"
  BY <1>1, <1>3 DEF Alone, Fail
<1>4. CASE Exclude(p) /\ p \notin included
  <2> DEFINE e == Listed(p, "excluded-by-policy", "policy")
  <2>0. "excluded-by-policy" \in Outcome
    BY DEF Outcome
  <2>1. e.file = p
    BY <2>0, ListedFacts
  <2>2. inventory' = inventory \cup {e} /\ UNCHANGED <<included, files, skipped>>
    BY <1>4 DEF Exclude
  <2> HIDE DEF e
  <2>3. \A d \in inventory : d.file # p
    BY <1>1, <1>4 DEF Alone
  <2>4. OnePerPath'
    <3>1. OnePerPath
      BY DEF Alone, OnePerPath
    <3> QED
      BY <2>1, <2>2, <2>3, <3>1, OneMoreEntry
  <2>5. p \notin files
    BY <1>4 DEF TypeOK, DiscoveryTypeOK
  <2> QED
    BY <1>1, <2>1, <2>2, <2>4, <2>5 DEF Alone, OnePerPath
<1>5. IsDir(p) => p \notin included
  BY DEF IsDir, Alone
<1> QED
  BY <1>2, <1>3, <1>4, <1>5 DEF Account, Pass, Enter

LEMMA StartReadingAlone ==
  ASSUME TypeOK, Alone, StartReading, steady = Path
  PROVE  Alone'
<1>1. /\ phase = "walk2" /\ phase' = "read" /\ pending' = files
      /\ inventory' = inventory \cup UnexplainedSkips
      /\ UNCHANGED <<fsVars, included, files, skipped>>
  BY DEF StartReading, FinishDiscovery
<1>2. node' = node /\ steady' = steady
  BY <1>1 DEF fsVars
<1> DEFINE Of(n) == CHOOSE p \in skipped : Display[p] = n
<1>3. ASSUME NEW n \in Shown(skipped) \ Inventoried
      PROVE  /\ Of(n) \in skipped /\ Display[Of(n)] = n /\ Unreadable(Of(n)).file = Of(n)
             /\ \A d \in inventory : d.file # Of(n)
  <2>1. Of(n) \in skipped /\ Display[Of(n)] = n
    BY <1>3 DEF Shown
  <2>2. Unreadable(Of(n)).file = Of(n)
    BY <2>1, UnreadableFacts DEF TypeOK, DiscoveryTypeOK
  <2> HIDE DEF Of
  <2>3. \A d \in inventory : d.file # Of(n)
    BY <1>3, <2>1 DEF Inventoried
  <2> QED
    BY <2>1, <2>2, <2>3
<1>4. UnexplainedSkips = {Unreadable(Of(n)) : n \in Shown(skipped) \ Inventoried}
  BY DEF UnexplainedSkips
<1> HIDE DEF Of
<1>5. OnePerPath'
  <2>1. ASSUME NEW d \in UnexplainedSkips, NEW e \in UnexplainedSkips, d.file = e.file
        PROVE  d = e
    <3>1. PICK m \in Shown(skipped) \ Inventoried : d = Unreadable(Of(m))
      BY <1>4
    <3>2. PICK n \in Shown(skipped) \ Inventoried : e = Unreadable(Of(n))
      BY <1>4
    <3>3. m = n
      BY <1>3, <2>1, <3>1, <3>2
    <3> QED
      BY <3>1, <3>2, <3>3
  <2>2. \A d \in UnexplainedSkips : \A e \in inventory : d.file # e.file
    BY <1>3, <1>4
  <2> QED
    BY <1>1, <2>1, <2>2 DEF Alone, OnePerPath
<1>6. \A e \in inventory' : e.file \notin files
  <2>1. \A e \in UnexplainedSkips : e.file \in skipped
    BY <1>3, <1>4
  <2>2. skipped \cap files = {}
    BY <1>1 DEF Alone, TypeOK, DiscoveryTypeOK
  <2> QED
    BY <1>1, <2>1, <2>2 DEF Alone
<1> QED
  BY <1>1, <1>2, <1>5, <1>6 DEF Alone, OnePerPath

LEMMA ReadAlone ==
  ASSUME TypeOK, Alone, NEW p \in Path, Read(p), steady = Path
  PROVE  Alone'
<1>1. /\ phase = "read" /\ phase' = "read" /\ p \in pending /\ pending' = pending \ {p}
      /\ UNCHANGED <<fsVars, included, files>>
  BY DEF Read
<1>2. node' = node /\ steady' = steady
  BY <1>1 DEF fsVars
<1>3. PICK e : e.file = p /\ inventory' = inventory \cup {e}
  <2>1. ASSUME NEW o \in Outcome, Setback(p, o)
        PROVE  Listed(p, o, "read").file = p /\ inventory' = inventory \cup {Listed(p, o, "read")}
    BY <2>1, ListedFacts DEF Setback
  <2>2. ASSUME NEW w \in BOOLEAN, NEW g, Analyse(p, w, g)
        PROVE  Analysed(p, w).file = p /\ inventory' = inventory \cup {Analysed(p, w)}
    BY <2>2, AnalysedFacts DEF Analyse
  <2> QED
    BY <2>1, <2>2, Zenon DEF Read
<1>4. OnePerPath'
  <2>1. OnePerPath /\ \A d \in inventory : d.file # p
    BY <1>1 DEF Alone, OnePerPath
  <2> QED
    BY <1>3, <2>1, OneMoreEntry
<1> QED
  BY <1>1, <1>2, <1>3, <1>4 DEF Alone, OnePerPath

LEMMA AloneStep == TypeOK /\ Alone /\ [Next]_vars => Alone'
<1> SUFFICES ASSUME TypeOK, Alone, [Next]_vars
             PROVE  Alone'
  OBVIOUS
<1>1. CASE steady # Path
  <2>1. steady \subseteq Path /\ steady' \in SUBSET steady
    <3>1. steady \subseteq Path
      BY DEF TypeOK, DiscoveryTypeOK
    <3>2. CASE UNCHANGED fsVars
      BY <3>1, <3>2 DEF fsVars
    <3>3. ASSUME NEW q \in Path, Change(q) PROVE steady' \in SUBSET steady
      BY <3>3 DEF Change
    <3>4. \/ UNCHANGED fsVars
          \/ \E q \in Path : Change(q)
      <4>1. Discover \/ StartReading \/ (\E q \in Path : Read(q)) => UNCHANGED fsVars
        BY DEF Discover, OpenRoot, SecondWalk, Visit, Account, Reach, StartReading, FinishDiscovery, Read
      <4>2. Refuse \/ Gate \/ Emit \/ EmitFails \/ UNCHANGED vars => UNCHANGED fsVars
        BY DEF Refuse, Gate, Emit, EmitFails, vars
      <4> QED
        BY <4>1, <4>2, Zenon DEF Next, Step, Environment
    <3> QED
      BY <3>1, <3>2, <3>3, <3>4
  <2> QED
    BY <1>1, <2>1 DEF Alone
<1>2. CASE steady = Path
  <2>1. CASE OpenRoot
    BY <1>2, <2>1 DEF OpenRoot, StartWalk, fsVars, discoveryVars, Alone
  <2>2. CASE SecondWalk
    <3>1. phase = "walk1" /\ phase' = "walk2" /\ UNCHANGED <<fsVars, discoveryVars>>
      BY <2>2 DEF SecondWalk, StartWalk
    <3>2. \A e \in inventory : e.file \in included
      BY <1>2, <3>1 DEF Alone
    <3> QED
      BY <1>2, <3>1, <3>2 DEF fsVars, discoveryVars, Alone
  <2>3. ASSUME NEW p \in Path, Visit(p) PROVE Alone'
    BY <1>2, <2>3, VisitAlone
  <2>4. ASSUME NEW p \in Path, Account(p) PROVE Alone'
    BY <1>2, <2>4, AccountAlone
  <2>5. CASE StartReading
    BY <1>2, <2>5, StartReadingAlone
  <2>6. ASSUME NEW p \in Path, Read(p) PROVE Alone'
    BY <1>2, <2>6, ReadAlone
  <2>7. CASE Refuse \/ Gate \/ Emit \/ EmitFails
    BY <1>2, <2>7 DEF Refuse, Gate, Emit, EmitFails, fsVars, walkVars, discoveryVars, Alone
  <2>8. ASSUME NEW p \in Path, Change(p) PROVE Alone'
    <3>1. steady' = steady \ {p}
      BY <2>8 DEF Change
    <3>2. steady' # Path
      BY <1>2, <3>1
    <3> QED
      BY <3>2 DEF Alone
  <2>9. CASE UNCHANGED vars
    BY <1>2, <2>9 DEF vars, fsVars, walkVars, discoveryVars, engineVars, Alone
  <2> QED
    BY <2>1, <2>2, <2>3, <2>4, <2>5, <2>6, <2>7, <2>8, <2>9, Zenon
       DEF Next, Step, Environment, Discover
<1> QED
  BY <1>1, <1>2

(* On a tree that nobody changed, and whose paths are all shown by names   *)
(* of their own, the report names each path once: the validator's check    *)
(* for duplicates (report/validate.rs) refuses no such report.             *)
THEOREM NamesCorrect ==
  ASSUME \A p, q \in Path : Display[p] = Display[q] => p = q
  PROVE  Spec => []InventoryNamesPathsOnce
<1>1. Init => Alone
  BY DEF Init, DiscoveryInit, Alone
<1>2. IInv => TypeOK
  BY DEF IInv
<1>3. TypeOK /\ Alone => InventoryNamesPathsOnce
  <2> SUFFICES ASSUME TypeOK, Alone, steady = Path
               PROVE  UniquePaths
    BY DEF InventoryNamesPathsOnce
  <2>1. \A e \in inventory : e.file \in Path
    BY DEF TypeOK, DiscoveryTypeOK, Entry
  <2> QED
    BY <2>1 DEF Alone, UniquePaths
<1> QED
  BY <1>1, <1>2, <1>3, AlwaysInv, AloneStep, PTL DEF Spec
=============================================================================
