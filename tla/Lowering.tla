------------------------------ MODULE Lowering ------------------------------
(***************************************************************************)
(* A function from its syntax to the two reports, and then run: build_units*)
(* calls the builder, the T1 rules solve the two problems on its graph and *)
(* ask dead_stores and unbound_reads.  What the solver answers is taken    *)
(* from the equations (Dataflow shows that its worklist finds them), so    *)
(* that what is left to judge is the graph: whatever Python does with the  *)
(* function, the reports must fit.  Used by the model checker only.        *)
(***************************************************************************)
EXTENDS Builder, Python, PythonRules

CONSTANT N   \* bound on the blocks of a graph

VARIABLES
  stage,
  cfg, reachable,
  liveInto, unboundInto,     \* the solutions of the two problems
  deadStores, unboundReads,  \* the identifiers reported
  covered                    \* history: the identifiers with an event in a reachable block

reportVars == <<stage, cfg, reachable, liveInto, unboundInto, deadStores, unboundReads, covered>>
allVars    == <<builderVars, runVars, reportVars>>

Places == Node \X (0..2) \X (0..3)

Liveness == INSTANCE Dataflow WITH
  Problem <- "Liveness", Loc <- Places, Cfgs <- {}, into <- liveInto, from <- liveInto,
  queue <- <<>>, queued <- <<>>

MayUnbound == INSTANCE Dataflow WITH
  Problem <- "MayUnbound", Loc <- Places, Cfgs <- {}, into <- unboundInto, from <- unboundInto,
  queue <- <<>>, queued <- <<>>

Block_ == 0..(N - 1)

Graph ==
  [succs  |-> [b \in Block_ |-> IF b < Len(blocks) THEN blocks[b + 1].succs ELSE {}],
   events |-> [b \in Block_ |-> IF b < Len(blocks) THEN blocks[b + 1].events ELSE <<>>],
   params |-> prog.params]

\* What N applications of an increasing operator make of `least'.
Fixpoint(least, Grow(_)) ==
  LET W[k \in 0..N] ==
        IF k = 0 THEN <<least, FALSE>>
        ELSE LET before == W[k-1]
             IN  IF before[2] THEN before
                 ELSE LET after == Grow(before[1]) IN <<after, after = before[1]>>
  IN  W[N][1]

ReachableIn(g) == Fixpoint({ENTRY}, LAMBDA S : S \cup UNION {g.succs[b] : b \in S})

Nothing == [b \in Block_ |-> {}]

LiveFrom ==
  Fixpoint(Nothing, LAMBDA f : [b \in Block_ |->
    Liveness!Transfer(cfg, b, Liveness!Meet(cfg, reachable, f, b))])

UnboundFrom ==
  Fixpoint(Nothing, LAMBDA f : [b \in Block_ |->
    MayUnbound!Transfer(cfg, b, MayUnbound!Meet(cfg, reachable, f, b))])

-----------------------------------------------------------------------------
CompileInit ==
  /\ Init /\ RunInit
  /\ stage = "build"
  /\ cfg = <<>> /\ reachable = {}
  /\ liveInto = <<>> /\ unboundInto = <<>>
  /\ deadStores = {} /\ unboundReads = {} /\ covered = {}

Build == /\ stage = "build" /\ ~ Built
         /\ Next
         /\ UNCHANGED <<runVars, reportVars>>

Deliver == /\ stage = "build" /\ Built
           /\ stage' = "solve"
           /\ cfg' = Graph
           /\ reachable' = ReachableIn(Graph)
           /\ blocks' = <<>>
           /\ UNCHANGED <<prog, cur, frames, raiseTo, seenDefs, inWith, todo, runVars,
                          liveInto, unboundInto, deadStores, unboundReads, covered>>

SolveBoth == /\ stage = "solve"
             /\ stage' = "query"
             /\ LET f == LiveFrom
                IN  liveInto' = [b \in Block_ |-> Liveness!Meet(cfg, reachable, f, b)]
             /\ LET f == UnboundFrom
                IN  unboundInto' = [b \in Block_ |-> MayUnbound!Meet(cfg, reachable, f, b)]
             /\ UNCHANGED <<builderVars, runVars, cfg, reachable, deadStores, unboundReads, covered>>

Query == /\ stage = "query"
         /\ stage' = "run"
         /\ deadStores' = Liveness!DeadStores
         /\ unboundReads' = MayUnbound!UnboundReads \ Correlated
         /\ covered' = UNION {{e.loc : e \in Range(cfg.events[b])} : b \in reachable}
         /\ cfg' = <<>> /\ reachable' = {} /\ liveInto' = <<>> /\ unboundInto' = <<>>
         /\ UNCHANGED <<builderVars, runVars>>

Execute == /\ stage = "run"
           /\ Run
           /\ UNCHANGED <<builderVars, reportVars>>

CompileNext == Build \/ Deliver \/ SolveBoth \/ Query \/ Execute

CompileSpec == CompileInit /\ [][CompileNext]_allVars

-----------------------------------------------------------------------------
Reads(x) == Pending /\ Op_ = [op |-> "read", name |-> x]

(* No run of the function reads what a reported store wrote, itself or     *)
(* through a closure it has created: dead_store reports "a store to a      *)
(* local that no path reads before it is redefined or the function ends"   *)
(* (t1/dead_store.rs:14-15), and around a with it "loses some dead-store   *)
(* reports rather than inventing one" (builder.rs:178).                    *)
ReportedStoresAreDead ==
  stage = "run" =>
    \A x \in Local : Reads(x) \/ x \in closures => origin[x] \notin deadStores

ReadFails(x) == Reads(x) /\ origin[x] = Unbound
Here         == Place(Inner.node, Inner.arm, Inner.i)
ReportedHere == Here \in unboundReads

(* Every read that a run reaches with its local unbound is reported, but   *)
(* for runs in which a context manager swallows an exception (there a def  *)
(* of the with body clears may-unbound though it was skipped) or an except *)
(* clause that binds the local is left by a jump or an exception.  Under a *)
(* guard the same holds, as the pass on guards drops none of these reads.  *)
ReadsThatFailAreReported ==
  stage = "run" /\ ~ suppressed =>
    \A x \in Local \ abandoned : ReadFails(x) => ReportedHere

(* The same of functions for which two comments promise it: "Python        *)
(* deletes the `as` name when the handler exits" (builder.rs:981), however *)
(* it is left; and "any assignment to `X` in between disables the pruning" *)
(* of reads under two guards on X (read_before_init.rs:52-55).             *)
FailingReadsAreReported ==
  stage = "run" /\ ~ suppressed => \A x \in Local : ReadFails(x) => ReportedHere

(* No run gets to code the graph calls unreachable, where findings "belong *)
(* to unreachable-after-jump, not to the dataflow rules" (mod.rs:139-141). *)
(* What that rule reports is never in the graph's reachable part, so that  *)
(* no statement has findings of both and none that runs is reported; and a *)
(* loop that while-true-no-break reports is left by an exception only.     *)
RunsReachableCode ==
  stage = "run" =>
    /\ Pending => Here \in covered
    /\ {place[1] : place \in covered} \cap Within(AfterJump) = {}
    /\ Unwinding("loop") /\ mode # "raise" => mode = "continue" \/ Inner.node \notin EndlessLoops
=============================================================================
