------------------------------ MODULE Dataflow ------------------------------
(***************************************************************************)
(* The worklist solver of crates/pons-core/src/dataflow.rs and the two     *)
(* queries that read its solution.  One action is one iteration of the     *)
(* `while let Some(b) = queue.pop_front()' loop.                           *)
(*                                                                         *)
(* The order in which an iteration pushes the blocks it wakes is that of a *)
(* Vec of successors; here it is any order.                                *)
(***************************************************************************)
EXTENDS GenKill, SequencesExt

CONSTANT Cfgs   \* the functions the solver may be called on

ASSUME CfgsAssumption == Cfgs \subseteq Cfg

VARIABLES
  cfg,         \* the function being analysed
  reachable,   \* cfg.reachable(), computed once
  into,        \* the fact entering each block, in the analysis's direction
  from,        \* the fact leaving it
  queue,       \* the worklist
  queued       \* which blocks are on it

solverVars == <<cfg, reachable, into, from, queue, queued>>

TypeOK ==
  /\ cfg \in Cfgs
  /\ reachable \in SUBSET Block
  /\ into \in Fact
  /\ from \in Fact
  /\ queue \in Seq(Block)
  /\ queued \in [Block -> BOOLEAN]

InitialQueue == [i \in 1..N |-> i-1]

Init ==
  /\ cfg \in Cfgs
  /\ reachable = Reachable(cfg)
  /\ into = [b \in Block |-> {}]
  /\ from = [b \in Block |-> {}]
  /\ queue = InitialQueue
  /\ queued = [b \in Block |-> TRUE]

\* Mutants: b's own flag still counts; no fact is carried back round a loop.
WokenNotSelf(b, out) ==
  IF out = from[b] THEN {} ELSE {s \in FlowsTo(cfg, b) : ~ queued[s]}
WokenAhead(b, out) ==
  IF out = from[b] THEN {} ELSE {s \in FlowsTo(cfg, b) : ~ queued[s] /\ s > b}

\* The blocks an iteration adds to the worklist: b's own flag is down by then.
Woken(b, out) ==
  IF out = from[b] THEN {} ELSE {s \in FlowsTo(cfg, b) : queued[s] => s = b}

(***************************************************************************)
(* Pop block b, recompute it, and if the fact that leaves it has changed   *)
(* queue every block it flows to that is not queued already.  A block that *)
(* flows to itself is queued again.                                        *)
(***************************************************************************)
Solve ==
  /\ queue # <<>>
  /\ LET b     == Head(queue)
         state == Meet(cfg, reachable, from, b)
         out   == Transfer(cfg, b, state)
         woken == Woken(b, out)
     IN  /\ into' = [into EXCEPT ![b] = state]
         /\ from' = [from EXCEPT ![b] = out]
         /\ queued' = [s \in Block |-> s \in woken \/ (queued[s] /\ s # b)]
         /\ \E pushed \in SetToSeqs(woken) : queue' = Tail(queue) \o pushed
  /\ UNCHANGED <<cfg, reachable>>

Solved == queue = <<>>

Spec     == Init /\ [][Solve]_solverVars
FairSpec == Spec /\ WF_solverVars(Solve)

-----------------------------------------------------------------------------
(***************************************************************************)
(* The queries.  Each combines the copies of one source location: a store  *)
(* counts only if it is dead in every reachable copy, a read if it is      *)
(* unbound in any.                                                         *)
(***************************************************************************)
EventAt(p) == cfg.events[p[1]][p[2]]

Copies(l) ==
  {p \in UNION {{b} \X Points(cfg, b) : b \in reachable} : EventAt(p).loc = l}

IsReportable(e) == e.kind = "Def" /\ e.flag
IsCheckable(e)  == e.kind = "Use" /\ e.flag

\* The local of the event at point p is in the fact replay() shows there.
Holds(p) == EventAt(p).local \in FactAt(cfg, p[1], p[2], into[p[1]])

DeadStores ==
  {l \in Loc : LET copies == {p \in Copies(l) : IsReportable(EventAt(p))}
               IN  copies # {} /\ \A p \in copies : ~ Holds(p)}

UnboundReads ==
  {l \in Loc : \E p \in Copies(l) : IsCheckable(EventAt(p)) /\ Holds(p)}

-----------------------------------------------------------------------------
(***************************************************************************)
(* The worklist never holds a block twice, and `queued' tells exactly      *)
(* which blocks it holds.  If the flag and the queue ever disagreed, a     *)
(* block whose input has grown would never be looked at again.             *)
(***************************************************************************)
QueueMatchesFlags ==
  /\ \A i, j \in 1..Len(queue) : i # j => queue[i] # queue[j]
  /\ \A b \in Block : queued[b] <=> \E i \in 1..Len(queue) : queue[i] = b

(***************************************************************************)
(* A block that is off the worklist satisfies its equations: nothing that  *)
(* feeds it has changed since it was last computed.                        *)
(***************************************************************************)
SettledOffQueue ==
  \A b \in Block : ~ queued[b] =>
    /\ into[b] = Meet(cfg, reachable, from, b)
    /\ from[b] = Transfer(cfg, b, into[b])

\* What the solver knows so far never exceeds what the equations yield.
BelowEquations ==
  \A b \in Block : /\ into[b] \subseteq Meet(cfg, reachable, from, b)
                   /\ from[b] \subseteq Transfer(cfg, b, into[b])

(***************************************************************************)
(* No iteration withdraws a fact.  The module's header relies on it: "the  *)
(* worklist terminates without a widening operator" only because facts     *)
(* grow in a finite lattice.                                               *)
(***************************************************************************)
OnlyGrows ==
  [][\A b \in Block : into[b] \subseteq into'[b] /\ from[b] \subseteq from'[b]]_solverVars

\* The loop ends on every function, loops and self-loops included.
Terminates == <>Solved

(***************************************************************************)
(* The worklist implements LeastSolution: when it runs empty, whatever the *)
(* order blocks were visited in, the facts are the least ones that satisfy *)
(* the equations; and it does run empty.                                   *)
(***************************************************************************)
Oracle == INSTANCE LeastSolution WITH answer <- IF Solved THEN {from} ELSE {}

ImplementsLeastSolution == Oracle!Spec
==============================================================================
