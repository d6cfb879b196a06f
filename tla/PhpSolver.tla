------------------------------ MODULE PhpSolver ------------------------------
(***************************************************************************)
(* The may-flow solver of the PHP adapter (crates/pons-core/src/php.rs,    *)
(* solve): which request data may be in which local at which block.  A     *)
(* fact is a set of pairs of a source line and an output context in which  *)
(* the data is still dangerous; a state gives the facts of the locals met  *)
(* so far, and a local it does not name has none.                          *)
(*                                                                         *)
(* Blocks are numbered from 1: block b is blocks[b - 1] of the code.       *)
(***************************************************************************)
EXTENDS Naturals, Sequences, FiniteSets, Functions

CONSTANTS
  Name,          \* the locals
  Line,          \* the lines of the file
  Bit,           \* the output contexts
  MaxTransfers,  \* 50,000
  MaxNames       \* 512

ASSUME PhpBudgets == MaxTransfers \in Nat \ {0} /\ MaxNames \in Nat \ {0}

VARIABLES
  blocks,   \* the graph; empty when no function is being solved
  states,
  queue, reached, queued, steps

solverVars == <<blocks, states, queue, reached, queued, steps>>

Id    == DOMAIN blocks
Fact  == SUBSET (Line \X Bit)
State == UNION {[names -> Fact] : names \in SUBSET Name}

(***************************************************************************)
(* What an expression evaluates to: the request data it names itself, and  *)
(* what it copies from locals, with the contexts that no escaping function *)
(* around it clears.                                                       *)
(***************************************************************************)
Expr == [direct : Fact, copied : SUBSET (Name \X Bit)]

Held(state, name) == IF name \in DOMAIN state THEN state[name] ELSE {}

Eval(expr, state) ==
  expr.direct \cup {f \in UNION Range(state) :
                      \E c \in expr.copied : c[2] = f[2] /\ f \in Held(state, c[1])}

(***************************************************************************)
(* An operation is a record with a field `op': "nop", "assign" (a name and *)
(* an expression), or "sink" (an expression, a context and a line).        *)
(***************************************************************************)
Assigned(state, name, fact) ==
  [n \in DOMAIN state \cup {name} |-> IF n = name THEN fact ELSE state[n]]

\* What block b makes of a state.
Passed(b, state) ==
  LET op == blocks[b].op
  IN  IF op.op = "assign" THEN Assigned(state, op.name, Eval(op.expr, state)) ELSE state

After(b) == Passed(b, states[b])

Joined(prior, state) ==
  [n \in DOMAIN prior \cup DOMAIN state |-> Held(prior, n) \cup Held(state, n)]

-----------------------------------------------------------------------------
\* A whole function is solved from its first block on.
Start(graph, entry) ==
  /\ blocks' = graph
  /\ states' = [b \in DOMAIN graph |-> <<>>]
  /\ queue' = <<entry>>
  /\ reached' = {entry}
  /\ queued' = {entry}
  /\ steps' = 0

Idle ==
  /\ blocks = <<>> /\ states = <<>> /\ queue = <<>>
  /\ reached = {} /\ queued = {} /\ steps = 0

\* The solver's state is dropped with the function.
Stop ==
  /\ blocks' = <<>> /\ states' = <<>> /\ queue' = <<>>
  /\ reached' = {} /\ queued' = {} /\ steps' = 0

Busy == blocks # <<>> /\ queue # <<>>
Now  == Head(queue)

\* Mutant: only the first visit counts as a change.
ChangedOnce(b, state) == b \notin reached

\* Does the arrival of `state' at block b change anything there?
Changed(b, state) ==
  b \notin reached \/ \E n \in DOMAIN state : ~ state[n] \subseteq Held(states[b], n)

Successors(b) == Range(blocks[b].next)

\* Block Now is itself off the queue already.
Wakes(s, state) == Changed(s, state) /\ s \notin queued \ {Now}

(***************************************************************************)
(* What goes on the queue, in order.  A block has at most two successors,  *)
(* and a branch whose arms are empty has the same one twice.               *)
(***************************************************************************)
Woken(state) ==
  LET next   == blocks[Now].next
      one(i) == IF i \in DOMAIN next /\ Wakes(next[i], state) THEN <<next[i]>> ELSE <<>>
  IN  IF DOMAIN next = 1..2 /\ next[1] = next[2] THEN one(1) ELSE one(1) \o one(2)

OverTransfers == steps + 1 > MaxTransfers
OverNames     == Cardinality(DOMAIN After(Now)) > MaxNames

Transfer ==
  /\ Busy /\ ~ OverTransfers /\ ~ OverNames
  /\ LET state == After(Now)
         woken == Woken(state)
     IN  /\ states' = [b \in Id |-> IF b \in Successors(Now) THEN Joined(states[b], state)
                                   ELSE states[b]]
         /\ reached' = reached \cup Successors(Now)
         /\ queued' = (queued \ {Now}) \cup Range(woken)
         /\ queue' = Tail(queue) \o woken
  /\ steps' = steps + 1
  /\ UNCHANGED blocks

-----------------------------------------------------------------------------
(***************************************************************************)
(* The solver by itself, given any graph whose blocks have one or two or   *)
(* no successors in it and assign to locals.                               *)
(***************************************************************************)
Fits(graph, b) ==
  LET op == graph[b].op
  IN  /\ DOMAIN graph[b].next \in {{}, {1}, 1..2} /\ Range(graph[b].next) \subseteq DOMAIN graph
      /\ op.op = "assign" =>
           /\ op.name \in Name
           /\ op.expr.direct \subseteq Line \X Bit /\ op.expr.copied \subseteq Name \X Bit

WellFormed(graph, entry) == entry \in DOMAIN graph /\ \A b \in DOMAIN graph : Fits(graph, b)

Given ==
  /\ blocks = <<>> /\ queue' # <<>>
  /\ WellFormed(blocks', Head(queue')) /\ Start(blocks', Head(queue'))

SolverNext == Given \/ Transfer \/ Stop

SolverSpec == Idle /\ [][SolverNext]_solverVars

(***************************************************************************)
(* Whatever a file holds, the rest of the adapter uses the solver so: it   *)
(* hands over graphs that are well formed, one at a time, and changes      *)
(* nothing until the solver has stopped (php.rs:416-430).                  *)
(***************************************************************************)
SolverIsGivenGraphs == SolverSpec

-----------------------------------------------------------------------------
PhpTypeOK ==
  /\ states \in [Id -> State]
  /\ reached \subseteq Id /\ queued \subseteq reached
  /\ steps \in 0..MaxTransfers
  /\ queue \in Seq(Id) /\ IsInjective(queue) /\ Range(queue) = queued

(***************************************************************************)
(* A block that was reached and is off the queue has told its successors   *)
(* all it knows: no arrival is forgotten by the test for a change.         *)
(***************************************************************************)
ToldItsSuccessors ==
  \A b \in reached \ queued : \A s \in Successors(b) :
    /\ s \in reached
    /\ \A n \in Name : Held(After(b), n) \subseteq Held(states[s], n)
=============================================================================
