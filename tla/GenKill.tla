------------------------------- MODULE GenKill -------------------------------
(***************************************************************************)
(* The two gen/kill problems of crates/pons-core/src/dataflow.rs and the   *)
(* equations they put on a function's blocks.  A fact is a set of locals:  *)
(* the live ones, or the possibly unbound ones.                            *)
(*                                                                         *)
(* The transfer of a run of events is given in closed form (the last event *)
(* that decides a local wins) and not as a loop; PathSemantics compares it *)
(* with the event-by-event loop.                                           *)
(***************************************************************************)
EXTENDS FunctionCfg

CONSTANT Problem   \* which instance of the trait Problem is solved

ASSUME ProblemAssumption == Problem \in {"Liveness", "MayUnbound"}

Forward == Problem = "MayUnbound"

\* Mutants: a Kill that unbinds nothing; a WeakDef that ends a live range.
SetsNoKill(e)     == ~ Forward /\ e.kind = "Use"
ClearsWeakDefs(e) == e.kind \in {"Def", "WeakDef", "Kill"}

Sets(e)   == e.kind = IF Forward THEN "Kill" ELSE "Use"
Clears(e) == e.kind \in IF Forward THEN {"Def", "WeakDef"} ELSE {"Def", "Kill"}

Decides(e, x) == e.local = x /\ (Sets(e) \/ Clears(e))

\* The effect of one event on a fact.
TransferEvent(e, S) ==
  IF Sets(e) THEN S \cup {e.local}
  ELSE IF Clears(e) THEN S \ {e.local} ELSE S

\* Mutant: the events of a backward block are not reversed.
PrecedesUnreversed(i, j) == i < j

\* The analysis meets event i of a block before event j.
Precedes(i, j) == IF Forward THEN i < j ELSE j < i

(***************************************************************************)
(* The fact that S has become once the events at positions `done' of block *)
(* b have been applied, in the analysis's direction.                       *)
(***************************************************************************)
FactAfter(c, b, done, S) ==
  {x \in Local :
     \/ \E i \in done : /\ c.events[b][i].local = x
                        /\ Sets(c.events[b][i])
                        /\ \A j \in done : Precedes(i, j) => ~ Decides(c.events[b][j], x)
     \/ x \in S /\ \A j \in done : ~ Decides(c.events[b][j], x)}

\* Mutant: LocalSet::insert flips the bit instead of setting it.
TransferToggling(c, b, S) ==
  LET done == Points(c, b)
  IN  {x \in FactAfter(c, b, done, S) :
         x \in S => \A i \in done : ~ (c.events[b][i].local = x /\ Sets(c.events[b][i]))}

Transfer(c, b, S) == FactAfter(c, b, Points(c, b), S)

\* Mutant: replay() visits an event after its transfer.
FactAtTooLate(c, b, i, S) == FactAfter(c, b, {j \in Points(c, b) : j = i \/ Precedes(j, i)}, S)

\* The fact replay() shows its visitor together with event i of block b.
FactAt(c, b, i, S) == FactAfter(c, b, {j \in Points(c, b) : Precedes(j, i)}, S)

-----------------------------------------------------------------------------
\* Mutants: unreachable predecessors join in; successors are woken in both directions.
IntoOfUnfiltered(c, reach, b) == IF Forward THEN Preds(c, b) ELSE c.succs[b]
FlowsToSuccs(c, b)            == c.succs[b]

(***************************************************************************)
(* Where facts enter a block from, and where they flow to.  Forward joins  *)
(* ignore unreachable predecessors; backward joins keep every successor.   *)
(***************************************************************************)
IntoOf(c, reach, b) == IF Forward THEN Preds(c, b) \cap reach ELSE c.succs[b]
FlowsTo(c, b)       == IF Forward THEN c.succs[b] ELSE Preds(c, b)

BoundaryBlock == IF Forward THEN ENTRY ELSE EXIT
Boundary(c)   == IF Forward THEN Local \ c.params ELSE {}

\* The union meet at block b, given the facts `f' that leave every block.
Meet(c, reach, f, b) ==
  (IF b = BoundaryBlock THEN Boundary(c) ELSE {})
    \cup UNION {f[p] : p \in IntoOf(c, reach, b)}

Fact == [Block -> SUBSET Local]

\* f satisfies the data-flow equations, or over-approximates a solution.
Above(c, reach, f) == \A b \in Block : Transfer(c, b, Meet(c, reach, f, b)) \subseteq f[b]
==============================================================================
