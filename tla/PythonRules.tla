----------------------------- MODULE PythonRules ----------------------------
(***************************************************************************)
(* The rules for Python that go by the source and not by the graph.        *)
(***************************************************************************)
EXTENDS Syntax, FiniteSets

(***************************************************************************)
(* The pass by which read-before-init leaves out the reads under a guard   *)
(* `X is [not] None' that an earlier guard of the same text is taken to    *)
(* have bound (prune_function, crates/pons-rules/src/t1/read_before_init.rs).*)
(* It goes by the order of the source (the keys of the table), not by the  *)
(* graph.  An augmented assignment and an assignment that reads its target *)
(* are not told apart: the programs have no such store under a guard.      *)
(***************************************************************************)
Children(n) ==
  LET s == prog.code[n]
  IN  Range(s.body) \cup Range(s.orelse) \cup Range(s.final)
        \cup UNION {Range(arm.body) : arm \in Range(s.arms)}

\* The statements of these bodies, nested ones included.
Within(nodes) ==
  LET W[depth \in 0..Cardinality(Node)] ==
        IF depth = 0 THEN nodes
        ELSE LET S == W[depth - 1] IN S \cup UNION {Children(n) : n \in S}
  IN  W[Cardinality(Node)]

GuardIfs == {n \in Node : prog.code[n].guard # ""}

\* The guard that went first into the map for this key.
First(g) == CHOOSE e \in GuardIfs : /\ prog.code[e].guard = prog.code[g].guard
                                    /\ \A h \in GuardIfs :
                                         prog.code[h].guard = prog.code[g].guard => e <= h

\* Mutant: nothing is looked for between the guards.
MutatedNever(earlier, later) == FALSE

\* An assignment spelt like the base, behind the whole of the one if and before the other.
MutatedBetween(earlier, later) ==
  \E n \in Node \ Within({earlier}) :
    earlier < n /\ n < later /\ prog.code[n].rebinds = "assign"

\* Plain assignments that sit directly in the consequence.
AssignedNames(g) ==
  {o.name : o \in UNION {{r \in Range(prog.code[n].ops) : r.op = "store"} :
                           n \in {m \in Range(prog.code[g].body) : prog.code[m].kind = "simple"}}}

Identifiers(nodes, names) ==
  {place \in UNION {{Place(n, arm, i) : arm \in 0..Len(prog.code[n].arms), i \in 1..3} : n \in nodes} :
     place[3] \in DOMAIN OpsOf(place[1], place[2]) /\ OpsOf(place[1], place[2])[place[3]].name \in names}

Correlated ==
  UNION {Identifiers(Within(Range(prog.code[g].body)), AssignedNames(First(g))) :
           g \in {h \in GuardIfs : h # First(h) /\ ~ MutatedBetween(First(h), h)}}

(***************************************************************************)
(* Two rules that go by the shape of the syntax alone:                     *)
(* unreachable-after-jump and while-true-no-break                          *)
(* (crates/pons-rules/src/t0).  A function nested in the one at hand has   *)
(* no statements here, so that the walk of the second has no boundary to   *)
(* stop at, and neither has it an await.                                   *)
(***************************************************************************)
Kind(n) == prog.code[n].kind

Bodies ==
  {prog.body} \cup
  UNION {LET s == prog.code[n] IN {s.body, s.orelse, s.final} \cup {arm.body : arm \in Range(s.arms)} :
           n \in Node}

\* Mutant: a jump further in will do.
JumpsAnywhere(n) == \E m \in Within({n}) : Kind(m) \in {"return", "raise", "break", "continue"}

Jumps(n) == Kind(n) \in {"return", "raise", "break", "continue"}

\* The statement right behind a jump in one body.
AfterJump ==
  UNION {{body[i + 1] : i \in {j \in 1..(Len(body) - 1) : Jumps(body[j])}} : body \in Bodies}

\* Mutant: what an inner loop holds is not looked at.
HasExitOutsideLoops(body) ==
  \E n \in body : \/ Kind(n) \in {"break", "return", "raise"}
                  \/ /\ Kind(n) \notin {"while", "for"}
                     /\ \E m \in Within({n}) : Kind(m) \in {"break", "return", "raise"}

\* The break of an inner loop counts, though it does not leave this one.
HasExit(body) == \E n \in Within(body) : Kind(n) \in {"break", "return", "raise"}

EndlessLoops ==
  {n \in Node : Kind(n) = "while" /\ prog.code[n].sure /\ ~ HasExit(Range(prog.code[n].body))}
=============================================================================
