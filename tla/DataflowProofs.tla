--------------------------- MODULE DataflowProofs ---------------------------
(***************************************************************************)
(* Proofs about the worklist solver, for every number of blocks, every set *)
(* of locals, every set of functions and both problems; that what the      *)
(* queries of dataflow.rs report is true of every execution of every       *)
(* function; and that the solution means what PathSemantics says: the      *)
(* facts are those of the loop over a block's events, and over a whole     *)
(* function those of the paths of its graph.                               *)
(*                                                                         *)
(* Of the paths, soundness is an induction over the walk; for completeness *)
(* the paths give a solution of the equations, and the solver's is below   *)
(* every one.  That PathSemantics counts enough edges is Saturation's      *)
(* matter.                                                                 *)
(***************************************************************************)
EXTENDS Execution, PathSemantics, Induction, FunctionTheorems, SequenceTheorems, TLAPS

(***************************************************************************)
(* Operators of GenKill: where their values lie, and that a larger fact    *)
(* never leads to a smaller one.                                           *)
(***************************************************************************)
LEMMA TransferType ==
  ASSUME NEW c, NEW b, NEW S
  PROVE  Transfer(c, b, S) \subseteq Local
  BY DEF Transfer, FactAfter

\* More facts before a block never give fewer after it.
LEMMA TransferMonotone ==
  ASSUME NEW c, NEW b, NEW S, NEW T, S \subseteq T
  PROVE  Transfer(c, b, S) \subseteq Transfer(c, b, T)
  BY DEF Transfer, FactAfter

\* The neighbours of a block, on either side, are blocks.
LEMMA NeighboursType ==
  ASSUME NEW c \in Cfg, NEW reach, NEW b \in Block
  PROVE  /\ IntoOf(c, reach, b) \subseteq Block
         /\ FlowsTo(c, b) \subseteq Block
  BY DEF IntoOf, FlowsTo, Preds, Cfg

\* The two directions of an edge: what feeds a block is what flows to it.
LEMMA FlowsToFeeds ==
  ASSUME NEW c \in Cfg, NEW reach, NEW b \in Block, NEW p \in IntoOf(c, reach, b)
  PROVE  b \in FlowsTo(c, p)
  BY DEF IntoOf, FlowsTo, Preds, Cfg

\* What meets at a block is a set of locals.
LEMMA MeetType ==
  ASSUME NEW c \in Cfg, NEW reach, NEW f \in Fact, NEW b \in Block
  PROVE  Meet(c, reach, f, b) \subseteq Local
<1>1. \A p \in IntoOf(c, reach, b) : f[p] \subseteq Local
  BY NeighboursType DEF Fact
<1>2. Boundary(c) \subseteq Local
  BY DEF Boundary
<1>3. QED
  BY <1>1, <1>2 DEF Meet

\* More facts at the feeding blocks never give fewer at the block.
LEMMA MeetMonotone ==
  ASSUME NEW c \in Cfg, NEW reach, NEW f, NEW g, NEW b \in Block,
         \A p \in IntoOf(c, reach, b) : f[p] \subseteq g[p]
  PROVE  Meet(c, reach, f, b) \subseteq Meet(c, reach, g, b)
  BY DEF Meet

\* A block's meet depends on nothing but the facts of the blocks that feed it.
LEMMA MeetEqual ==
  ASSUME NEW c \in Cfg, NEW reach, NEW f, NEW g, NEW b \in Block,
         \A p \in IntoOf(c, reach, b) : f[p] = g[p]
  PROVE  Meet(c, reach, f, b) = Meet(c, reach, g, b)
  BY DEF Meet

(***************************************************************************)
(* An order in which a finite set is pushed is a sequence that holds every *)
(* element of the set exactly once.                                        *)
(***************************************************************************)
LEMMA PushOrder ==
  ASSUME NEW S, IsFiniteSet(S), NEW q \in SetToSeqs(S)
  PROVE  /\ q \in Seq(S)
         /\ \A i, j \in 1..Len(q) : i # j => q[i] # q[j]
         /\ \A s \in S : \E i \in 1..Len(q) : q[i] = s
<1> DEFINE n == Cardinality(S)
           D == 1..n
<1>1. n \in Nat
  BY FS_CardinalityType
<1>2. q \in [D -> S] /\ \A i, j \in D : i # j => q[i] # q[j]
  BY DEF SetToSeqs
<1>3. q \in Seq(S) /\ Len(q) = n
  BY <1>1, <1>2
<1>4. q \in Injection(D, S)
  BY <1>2 DEF Injection, IsInjective
<1>5. Cardinality(D) = n
  BY <1>1, FS_Interval
<1>6. q \in Surjection(D, S)
  BY <1>4, <1>5, FS_Injection
<1>7. QED
  BY <1>2, <1>3, <1>6 DEF Surjection

\* A function has finitely many blocks.
LEMMA BlockFinite == IsFiniteSet(Block)
  BY NAssumption, FS_Interval DEF Block

-----------------------------------------------------------------------------
\* The parts of Solve, with its block, its new facts and its pushes named.
StepOf(b, pushed) ==
  LET state == Meet(cfg, reachable, from, b)
      out   == Transfer(cfg, b, state)
  IN  /\ queue # <<>> /\ b = Head(queue)
      /\ into' = [into EXCEPT ![b] = state]
      /\ from' = [from EXCEPT ![b] = out]
      /\ queued' = [s \in Block |-> s \in Woken(b, out) \/ (queued[s] /\ s # b)]
      /\ pushed \in SetToSeqs(Woken(b, out))
      /\ queue' = Tail(queue) \o pushed
      /\ cfg' = cfg /\ reachable' = reachable

\* A step of the solver is StepOf some block and some order of pushes.
LEMMA SolveIsAStep ==
  ASSUME TypeOK, Solve
  PROVE  \E b \in Block : \E pushed : StepOf(b, pushed)
<1>1. Head(queue) \in Block
  BY HeadTailProperties DEF TypeOK, Solve
<1>2. QED
  BY <1>1 DEF Solve, StepOf

\* What a step pushes is a finite set of blocks.
LEMMA WokenType ==
  ASSUME TypeOK, NEW b \in Block, NEW out
  PROVE  Woken(b, out) \subseteq Block /\ IsFiniteSet(Woken(b, out))
<1>1. Woken(b, out) \subseteq Block
  BY NeighboursType, CfgsAssumption DEF TypeOK, Woken
<1>2. QED
  BY <1>1, BlockFinite, FS_Subset

(***************************************************************************)
(* Type correctness.                                                       *)
(***************************************************************************)
LEMMA InitType == Init => TypeOK
<1> SUFFICES ASSUME Init PROVE TypeOK
  OBVIOUS
<1>1. queue \in Seq(Block)
  BY NAssumption DEF Init, InitialQueue, Block
<1>2. QED
  BY <1>1 DEF Init, TypeOK, Reachable, Fact

\* One iteration of the worklist keeps the state well typed.
LEMMA StepType ==
  ASSUME TypeOK, NEW b \in Block, NEW pushed, StepOf(b, pushed)
  PROVE  TypeOK'
<1>1. cfg \in Cfg
  BY CfgsAssumption DEF TypeOK
<1>2. into' \in Fact
  BY <1>1, MeetType DEF TypeOK, StepOf, Fact
<1>3. from' \in Fact
  BY TransferType DEF TypeOK, StepOf, Fact
<1>4. queue' \in Seq(Block)
  <2> DEFINE W == Woken(b, Transfer(cfg, b, Meet(cfg, reachable, from, b)))
  <2>1. pushed \in Seq(W) /\ W \subseteq Block
    BY WokenType, PushOrder DEF StepOf
  <2>2. pushed \in Seq(Block)
    BY <2>1, SeqMonotonic
  <2>3. Tail(queue) \in Seq(Block)
    BY HeadTailProperties DEF TypeOK, StepOf
  <2>4. QED
    BY <2>2, <2>3, ConcatProperties DEF StepOf
<1>5. queued' \in [Block -> BOOLEAN]
  BY Zenon DEF StepOf
<1>6. QED
  BY <1>2, <1>3, <1>4, <1>5 DEF TypeOK, StepOf

\* Every variable keeps its type: facts stay sets of locals, the worklist holds blocks.
THEOREM TypeCorrect == Spec => []TypeOK
<1>1. TypeOK /\ [Solve]_solverVars => TypeOK'
  <2> SUFFICES ASSUME TypeOK, [Solve]_solverVars PROVE TypeOK'
    OBVIOUS
  <2>1. CASE Solve
    BY <2>1, SolveIsAStep, StepType
  <2>2. CASE UNCHANGED solverVars
    BY <2>2 DEF solverVars, TypeOK
  <2>3. QED
    BY <2>1, <2>2
<1>2. QED
  BY InitType, <1>1, PTL DEF Spec

-----------------------------------------------------------------------------
(***************************************************************************)
(* The worklist and its flags agree.                                       *)
(***************************************************************************)
LEMMA InitQueue == Init => QueueMatchesFlags
<1> SUFFICES ASSUME Init PROVE QueueMatchesFlags
  OBVIOUS
<1>1. Len(queue) = N /\ \A i \in 1..N : queue[i] = i-1
  BY NAssumption DEF Init, InitialQueue
<1>2. ASSUME NEW b \in Block PROVE \E i \in 1..Len(queue) : queue[i] = b
  <2>1. b+1 \in 1..N /\ (b+1)-1 = b
    BY NAssumption DEF Block
  <2>2. QED
    BY <1>1, <2>1
<1>3. QED
  BY <1>1, <1>2, NAssumption DEF QueueMatchesFlags, Init, InitialQueue

\* One iteration keeps the worklist free of duplicates and its flags exact.
LEMMA StepQueue ==
  ASSUME TypeOK, QueueMatchesFlags, NEW b \in Block, NEW pushed, StepOf(b, pushed)
  PROVE  QueueMatchesFlags'
<1> DEFINE W == Woken(b, Transfer(cfg, b, Meet(cfg, reachable, from, b)))
           T == Tail(queue)
           q == T \o pushed
<1>1. /\ pushed \in Seq(W) /\ W \subseteq Block
      /\ \A i, j \in 1..Len(pushed) : i # j => pushed[i] # pushed[j]
      /\ \A s \in W : \E i \in 1..Len(pushed) : pushed[i] = s
  BY WokenType, PushOrder DEF StepOf
<1>2. pushed \in Seq(Block) /\ \A i \in 1..Len(pushed) : pushed[i] \in W
  BY <1>1, SeqMonotonic, ElementOfSeq
<1>3. /\ queue \in Seq(Block) /\ queue # <<>> /\ T \in Seq(Block)
      /\ Len(T) = Len(queue) - 1
      /\ \A i \in 1..Len(T) : T[i] = queue[i+1]
      /\ queue[1] = b /\ Len(queue) \in Nat \ {0}
  BY HeadTailProperties, EmptySeq DEF TypeOK, StepOf
<1>4. \A i \in 1..Len(T) : queued[T[i]] /\ T[i] # b /\ T[i] \in Block
  BY <1>3 DEF QueueMatchesFlags
<1>5. \A i, j \in 1..Len(T) : i # j => T[i] # T[j]
  BY <1>3 DEF QueueMatchesFlags
<1>6. \A s \in Block : queued[s] /\ s # b => \E i \in 1..Len(T) : T[i] = s
  <2> SUFFICES ASSUME NEW s \in Block, queued[s], s # b
               PROVE  \E i \in 1..Len(T) : T[i] = s
    OBVIOUS
  <2>1. PICK k \in 1..Len(queue) : queue[k] = s
    BY DEF QueueMatchesFlags
  <2>2. k # 1 /\ k-1 \in 1..Len(T) /\ (k-1)+1 = k
    BY <2>1, <1>3
  <2>3. QED
    BY <2>1, <2>2, <1>3
<1>7. /\ q \in Seq(Block) /\ Len(q) = Len(T) + Len(pushed)
      /\ \A i \in 1..Len(q) : q[i] = IF i <= Len(T) THEN T[i] ELSE pushed[i - Len(T)]
  BY <1>2, <1>3, ConcatProperties
<1>8. \A s \in W : queued[s] => s = b
  BY DEF Woken
<1>9. Len(T) \in Nat /\ Len(pushed) \in Nat
  BY <1>2, <1>3, LenProperties
<1> HIDE DEF W, T, q
<1>10. \A i, j \in 1..Len(q) : i # j => q[i] # q[j]
  <2> SUFFICES ASSUME NEW i \in 1..Len(q), NEW j \in 1..Len(q), i < j
               PROVE  q[i] # q[j]
    <3>1. \A i, j \in 1..Len(q) : i # j => i < j \/ j < i
      BY <1>7, <1>9
    <3> QED
      BY <3>1
  <2>1. CASE j <= Len(T)
    BY <2>1, <1>5, <1>7, <1>9
  <2>2. CASE i <= Len(T) /\ j > Len(T)
    <3>1. i \in 1..Len(T) /\ q[i] = T[i]
      BY <2>2, <1>7, <1>9
    <3>2. j - Len(T) \in 1..Len(pushed) /\ q[j] = pushed[j - Len(T)]
      BY <2>2, <1>7, <1>9
    <3>3. q[j] \in W
      BY <3>2, <1>2
    <3>4. QED
      BY <3>1, <3>3, <1>4, <1>8
  <2>3. CASE i > Len(T)
    <3>1. i - Len(T) \in 1..Len(pushed) /\ q[i] = pushed[i - Len(T)]
      BY <2>3, <1>7, <1>9
    <3>2. j - Len(T) \in 1..Len(pushed) /\ q[j] = pushed[j - Len(T)]
      BY <2>3, <1>7, <1>9
    <3>3. i - Len(T) # j - Len(T)
      BY <1>9
    <3>4. QED
      BY <3>1, <3>2, <3>3, <1>1
  <2>4. QED
    BY <2>1, <2>2, <2>3, <1>9
<1>11. \A s \in Block : (s \in W \/ (queued[s] /\ s # b)) <=> \E i \in 1..Len(q) : q[i] = s
  <2> SUFFICES ASSUME NEW s \in Block
               PROVE  (s \in W \/ (queued[s] /\ s # b)) <=> \E i \in 1..Len(q) : q[i] = s
    OBVIOUS
  <2>1. ASSUME s \in W PROVE \E i \in 1..Len(q) : q[i] = s
    <3>1. PICK k \in 1..Len(pushed) : pushed[k] = s
      BY <2>1, <1>1
    <3>2. k + Len(T) \in 1..Len(q) /\ ~(k + Len(T) <= Len(T)) /\ (k + Len(T)) - Len(T) = k
      BY <1>7, <1>9
    <3>3. QED
      BY <3>1, <3>2, <1>7
  <2>2. ASSUME queued[s] /\ s # b PROVE \E i \in 1..Len(q) : q[i] = s
    <3>1. PICK k \in 1..Len(T) : T[k] = s
      BY <2>2, <1>6
    <3>2. QED
      BY <3>1, <1>7, <1>9
  <2>3. ASSUME NEW i \in 1..Len(q), q[i] = s PROVE s \in W \/ (queued[s] /\ s # b)
    <3>1. CASE i <= Len(T)
      <4>1. i \in 1..Len(T) /\ T[i] = s
        BY <2>3, <3>1, <1>7, <1>9
      <4>2. QED
        BY <4>1, <1>4
    <3>2. CASE ~ (i <= Len(T))
      <4>1. i - Len(T) \in 1..Len(pushed) /\ pushed[i - Len(T)] = s
        BY <2>3, <3>2, <1>7, <1>9
      <4>2. QED
        BY <4>1, <1>2
    <3>3. QED
      BY <3>1, <3>2
  <2>4. QED
    BY <2>1, <2>2, <2>3
<1>12. queue' = q /\ \A s \in Block : queued'[s] <=> (s \in W \/ (queued[s] /\ s # b))
  BY Zenon DEF StepOf, q, T, W
<1>13. QED
  BY <1>10, <1>11, <1>12 DEF QueueMatchesFlags

-----------------------------------------------------------------------------
(***************************************************************************)
(* The facts: what a step does to them, that they only grow, and that a    *)
(* block off the worklist satisfies its equations.                         *)
(***************************************************************************)
IInv == TypeOK /\ QueueMatchesFlags /\ BelowEquations /\ SettledOffQueue

\* One iteration writes the facts of one block and of no other.
LEMMA StepFacts ==
  ASSUME TypeOK, NEW b \in Block, NEW pushed, StepOf(b, pushed), NEW s \in Block
  PROVE  /\ into'[s] = IF s = b THEN Meet(cfg, reachable, from, b) ELSE into[s]
         /\ from'[s] = IF s = b THEN Transfer(cfg, b, Meet(cfg, reachable, from, b))
                       ELSE from[s]
  BY DEF TypeOK, StepOf, Fact

\* No iteration takes a fact away.
LEMMA StepGrows ==
  ASSUME TypeOK, BelowEquations, NEW b \in Block, NEW pushed, StepOf(b, pushed),
         NEW s \in Block
  PROVE  into[s] \subseteq into'[s] /\ from[s] \subseteq from'[s]
<1>1. into[b] \subseteq Meet(cfg, reachable, from, b)
  BY DEF BelowEquations
<1>2. from[b] \subseteq Transfer(cfg, b, Meet(cfg, reachable, from, b))
  BY <1>1, TransferMonotone DEF BelowEquations
<1>3. QED
  BY <1>1, <1>2, StepFacts

\* One iteration leaves every fact at or below its equation.
LEMMA StepBelow ==
  ASSUME TypeOK, BelowEquations, NEW b \in Block, NEW pushed, StepOf(b, pushed)
  PROVE  BelowEquations'
<1>1. cfg \in Cfg /\ cfg' = cfg /\ reachable' = reachable
  BY CfgsAssumption DEF TypeOK, StepOf
<1>2. ASSUME NEW s \in Block
      PROVE  Meet(cfg, reachable, from, s) \subseteq Meet(cfg, reachable, from', s)
  BY <1>1, StepGrows, NeighboursType, MeetMonotone
<1>3. ASSUME NEW s \in Block
      PROVE  /\ into'[s] \subseteq Meet(cfg, reachable, from', s)
             /\ from'[s] \subseteq Transfer(cfg, s, into'[s])
  BY <1>2, StepFacts DEF BelowEquations
<1>4. QED
  BY <1>1, <1>3 DEF BelowEquations

\* One iteration leaves the equations true of every block off the worklist.
LEMMA StepSettled ==
  ASSUME TypeOK, SettledOffQueue, NEW b \in Block, NEW pushed, StepOf(b, pushed)
  PROVE  SettledOffQueue'
<1> DEFINE out == Transfer(cfg, b, Meet(cfg, reachable, from, b))
<1>1. cfg \in Cfg /\ cfg' = cfg /\ reachable' = reachable
  BY CfgsAssumption DEF TypeOK, StepOf
<1> SUFFICES ASSUME NEW s \in Block, ~ queued'[s]
             PROVE  /\ into'[s] = Meet(cfg, reachable, from', s)
                    /\ from'[s] = Transfer(cfg, s, into'[s])
  BY <1>1 DEF SettledOffQueue
<1>2. s \notin Woken(b, out) /\ ~ (queued[s] /\ s # b)
  BY DEF StepOf
<1>3. Meet(cfg, reachable, from', s) = Meet(cfg, reachable, from, s)
  <2>1. ASSUME NEW p \in IntoOf(cfg, reachable, s) PROVE from'[p] = from[p]
    <3>1. p \in Block
      BY <1>1, NeighboursType
    <3>2. CASE p # b \/ out = from[b]
      BY <3>1, <3>2, StepFacts
    <3>3. CASE p = b /\ out # from[b]
      \* b feeds s and has changed: s would have been woken.
      BY <3>3, <1>1, <1>2, FlowsToFeeds DEF Woken
    <3>4. QED
      BY <3>2, <3>3
  <2>2. QED
    BY <2>1, <1>1, MeetEqual
<1>4. CASE s = b
  BY <1>3, <1>4, StepFacts
<1>5. CASE s # b
  BY <1>2, <1>3, <1>5, StepFacts DEF SettledOffQueue
<1>6. QED
  BY <1>4, <1>5

\* The solver starts inside the inductive invariant.
LEMMA InitInductive == Init => IInv
<1> SUFFICES ASSUME Init PROVE IInv
  OBVIOUS
<1>1. BelowEquations /\ SettledOffQueue
  BY DEF Init, BelowEquations, SettledOffQueue
<1>2. QED
  BY <1>1, InitType, InitQueue DEF IInv

\* No iteration leaves the inductive invariant.
LEMMA NextInductive == IInv /\ [Solve]_solverVars => IInv'
<1> SUFFICES ASSUME IInv, [Solve]_solverVars PROVE IInv'
  OBVIOUS
<1> USE DEF IInv
<1>1. CASE Solve
  BY <1>1, SolveIsAStep, StepType, StepQueue, StepBelow, StepSettled
<1>2. CASE UNCHANGED solverVars
  BY <1>2 DEF solverVars, TypeOK, QueueMatchesFlags, BelowEquations, SettledOffQueue
<1>3. QED
  BY <1>1, <1>2

\* The inductive invariant holds in every reachable state.
LEMMA Inductive == Spec => []IInv
  BY InitInductive, NextInductive, PTL DEF Spec

\* The worklist holds no block twice and its flags say what it holds.
THEOREM QueueCorrect == Spec => []QueueMatchesFlags
  BY Inductive, PTL DEF IInv

\* No change to what feeds a block is ever lost: off the worklist, the equations hold.
THEOREM SettledCorrect == Spec => []SettledOffQueue
  BY Inductive, PTL DEF IInv

\* The solver never claims more than the equations give.
THEOREM BelowCorrect == Spec => []BelowEquations
  BY Inductive, PTL DEF IInv

\* Facts are never withdrawn.
THEOREM GrowthCorrect == Spec => OnlyGrows
<1> DEFINE Grows == \A b \in Block : into[b] \subseteq into'[b] /\ from[b] \subseteq from'[b]
<1>1. IInv /\ [Solve]_solverVars => [Grows]_solverVars
  <2> SUFFICES ASSUME IInv, Solve PROVE Grows
    OBVIOUS
  <2>1. QED
    BY SolveIsAStep, StepGrows DEF IInv
<1>2. QED
  BY <1>1, Inductive, PTL DEF Spec, OnlyGrows

-----------------------------------------------------------------------------
(***************************************************************************)
(* The solution is the least one, and the worklist implements              *)
(* LeastSolution.                                                          *)
(***************************************************************************)

\* No fact leaves a block unless every solution of the equations has it there.
BelowEverySolution ==
  /\ reachable = Reachable(cfg)
  /\ \A f \in Fact : Above(cfg, reachable, f) =>
       \A b \in Block : from[b] \subseteq f[b]

\* One iteration stays below every solution of the equations.
LEMMA StepBelowSolutions ==
  ASSUME TypeOK, BelowEverySolution, NEW b \in Block, NEW pushed, StepOf(b, pushed)
  PROVE  BelowEverySolution'
<1>1. cfg \in Cfg /\ cfg' = cfg /\ reachable' = reachable
  BY CfgsAssumption DEF TypeOK, StepOf
<1>2. ASSUME NEW f \in Fact, Above(cfg, reachable, f), NEW s \in Block
      PROVE  from'[s] \subseteq f[s]
  <2>1. \A t \in Block : from[t] \subseteq f[t]
    BY <1>2 DEF BelowEverySolution
  <2>2. Meet(cfg, reachable, from, b) \subseteq Meet(cfg, reachable, f, b)
    BY <2>1, <1>1, NeighboursType, MeetMonotone
  <2>3. Transfer(cfg, b, Meet(cfg, reachable, from, b))
          \subseteq Transfer(cfg, b, Meet(cfg, reachable, f, b))
    BY <2>2, TransferMonotone
  <2>4. Transfer(cfg, b, Meet(cfg, reachable, from, b)) \subseteq f[b]
    BY <2>3, <1>2 DEF Above
  <2>5. QED
    BY <2>1, <2>4, StepFacts
<1>3. QED
  BY <1>1, <1>2 DEF BelowEverySolution

\* The facts never exceed any solution of the equations.
LEMMA BelowSolutions == Spec => []BelowEverySolution
<1>1. Init => BelowEverySolution
  BY DEF Init, BelowEverySolution
<1>2. IInv /\ BelowEverySolution /\ [Solve]_solverVars => BelowEverySolution'
  <2> SUFFICES ASSUME IInv, BelowEverySolution, [Solve]_solverVars
               PROVE  BelowEverySolution'
    OBVIOUS
  <2>1. CASE Solve
    BY <2>1, SolveIsAStep, StepBelowSolutions DEF IInv
  <2>2. CASE UNCHANGED solverVars
    BY <2>2 DEF solverVars, BelowEverySolution
  <2>3. QED
    BY <2>1, <2>2
<1>3. QED
  BY <1>1, <1>2, Inductive, PTL DEF Spec

\* LeastSolution's instance of the equations is the solver's own.
LEMMA OracleEquations ==
  /\ Oracle!Block = Block
  /\ Oracle!Fact = Fact
  /\ \A c : Oracle!Reachable(c) = Reachable(c)
  /\ \A c, reach, f : Oracle!Above(c, reach, f) = Above(c, reach, f)
<1>1. Oracle!Block = Block /\ Oracle!ENTRY = ENTRY /\ Oracle!EXIT = EXIT
  BY DEF Oracle!Block, Block, Oracle!ENTRY, ENTRY, Oracle!EXIT, EXIT
<1>2. Oracle!Forward = Forward
  BY DEF Oracle!Forward, Forward
<1>3. \A c : Oracle!Reachable(c) = Reachable(c)
  BY <1>1 DEF Oracle!Reachable, Reachable
<1>4. \A c, b, S : Oracle!Transfer(c, b, S) = Transfer(c, b, S)
  BY <1>2 DEF Oracle!Transfer, Transfer, Oracle!FactAfter, FactAfter, Oracle!Points, Points,
     Oracle!Sets, Sets, Oracle!Decides, Decides, Oracle!Clears, Clears,
     Oracle!Precedes, Precedes
<1>5. \A c, reach, f, b : Oracle!Meet(c, reach, f, b) = Meet(c, reach, f, b)
  BY <1>1, <1>2 DEF Oracle!Meet, Meet, Oracle!IntoOf, IntoOf, Oracle!Preds, Preds,
     Oracle!BoundaryBlock, BoundaryBlock, Oracle!Boundary, Boundary
<1>6. \A c, reach, f : Oracle!Above(c, reach, f) = Above(c, reach, f)
  BY <1>1, <1>4, <1>5 DEF Oracle!Above, Above
<1>7. QED
  BY <1>1, <1>3, <1>6 DEF Oracle!Fact, Fact

\* With the worklist empty, the facts are the least solution.
LEMMA SolvedIsLeast == IInv /\ BelowEverySolution /\ Solved => from = Oracle!Least(cfg)
<1> SUFFICES ASSUME IInv, BelowEverySolution, Solved PROVE from = Oracle!Least(cfg)
  OBVIOUS
<1>1. ASSUME NEW b \in Block PROVE ~ queued[b]
  BY DEF IInv, QueueMatchesFlags, Solved
<1>2. ASSUME NEW b \in Block
      PROVE  from[b] = Transfer(cfg, b, Meet(cfg, reachable, from, b))
  BY <1>1 DEF IInv, SettledOffQueue
<1>3. Above(cfg, reachable, from)
  BY <1>2 DEF Above
<1>4. from \in Fact
  BY DEF IInv, TypeOK
<1>5. ASSUME NEW b \in Block
      PROVE  from[b] = {x \in Local : \A f \in Fact : Above(cfg, reachable, f) => x \in f[b]}
  BY <1>3, <1>4 DEF BelowEverySolution, Fact
<1>6. from = [b \in Block |-> from[b]]
  BY <1>4 DEF Fact
<1>7. from = [b \in Block |->
                {x \in Local : \A f \in Fact : Above(cfg, reachable, f) => x \in f[b]}]
  BY <1>5, <1>6
<1>8. reachable = Reachable(cfg)
  BY DEF BelowEverySolution
<1>9. QED
  BY <1>7, <1>8, OracleEquations DEF Oracle!Least

(***************************************************************************)
(* Whatever order the blocks are visited in, the solver answers with the   *)
(* least solution and with nothing else: the safety part of                *)
(* ImplementsLeastSolution.                                                *)
(***************************************************************************)
THEOREM Refinement == Spec => Oracle!Safety
<1> DEFINE Out == IF Solved THEN {from} ELSE {}
<1>1. Init => Oracle!Init
  <2> SUFFICES ASSUME Init PROVE Oracle!Init
    OBVIOUS
  <2>1. Len(queue) = N
    BY NAssumption DEF Init, InitialQueue
  <2>2. ~ Solved
    BY <2>1, NAssumption DEF Solved
  <2>3. QED
    BY <2>2 DEF Init, Oracle!Init
<1>2. /\ IInv /\ BelowEverySolution /\ IInv' /\ BelowEverySolution' /\ [Solve]_solverVars
      => [Oracle!Answer]_<<cfg, Out>>
  <2> SUFFICES ASSUME IInv, BelowEverySolution, IInv', BelowEverySolution', [Solve]_solverVars
               PROVE  [Oracle!Answer]_<<cfg, Out>>
    OBVIOUS
  <2>1. CASE Solve
    <3>1. ~ Solved /\ cfg' = cfg
      BY <2>1 DEF Solve, Solved
    <3>2. CASE Solved'
      <4>1. (IInv /\ BelowEverySolution /\ Solved => from = Oracle!Least(cfg))'
        BY SolvedIsLeast, PTL
      <4>2. from' = Oracle!Least(cfg)
        BY <3>1, <3>2, <4>1 DEF Oracle!Least
      <4>3. QED
        BY <3>1, <3>2, <4>2 DEF Oracle!Answer
    <3>3. CASE ~ Solved'
      BY <3>1, <3>3
    <3>4. QED
      BY <3>2, <3>3
  <2>2. CASE UNCHANGED solverVars
    BY <2>2 DEF solverVars, Solved
  <2>3. QED
    BY <2>1, <2>2
<1>3. QED
  BY <1>1, <1>2, Inductive, BelowSolutions, PTL DEF Spec, Oracle!Safety

-----------------------------------------------------------------------------
(***************************************************************************)
(* Executions.                                                             *)
(***************************************************************************)
\* The positions of block b the fact at position i of an execution accounts for.
Done(c, b, i) == {j \in Points(c, b) : IF Forward THEN j < i ELSE j >= i}

Here(c, b, i, S) == FactAfter(c, b, Done(c, b, i), S)

\* The program points of a block number its events from one.
LEMMA PointsAreAnInterval ==
  ASSUME NEW c \in Cfg, NEW b \in Block
  PROVE  /\ Points(c, b) = 1..Len(c.events[b]) /\ Len(c.events[b]) \in Nat
         /\ \A i \in Points(c, b) : c.events[b][i] \in Event
<1>1. c.events[b] \in Seq(Event)
  BY DEF Cfg
<1>2. QED
  BY <1>1, LenProperties, ElementOfSeq DEF Points

\* Walking past an event that does not decide x leaves x where it was.
LEMMA HereUndecided ==
  ASSUME NEW c \in Cfg, NEW b \in Block, NEW i \in Points(c, b), NEW S, NEW x \in Local,
         ~ Decides(c.events[b][i], x)
  PROVE  x \in Here(c, b, i+1, S) <=> x \in Here(c, b, i, S)
<1>1. Points(c, b) \subseteq Nat /\ i \in Nat
  BY PointsAreAnInterval
<1>2. CASE Forward
  <2>1. Done(c, b, i+1) = Done(c, b, i) \cup {i} /\ i \notin Done(c, b, i)
    BY <1>1, <1>2 DEF Done
  <2>2. QED
    BY <2>1 DEF Here, FactAfter, Decides
<1>3. CASE ~ Forward
  <2>1. Done(c, b, i) = Done(c, b, i+1) \cup {i} /\ i \notin Done(c, b, i+1)
    BY <1>1, <1>3 DEF Done
  <2>2. QED
    BY <2>1 DEF Here, FactAfter, Decides
<1>4. QED
  BY <1>2, <1>3

\* Forward, the fact after an event that sets x holds x.
LEMMA HereAfterSet ==
  ASSUME NEW c \in Cfg, NEW b \in Block, NEW i \in Points(c, b), NEW S, Forward,
         c.events[b][i].local \in Local, Sets(c.events[b][i])
  PROVE  c.events[b][i].local \in Here(c, b, i+1, S)
<1>1. Points(c, b) \subseteq Nat /\ i \in Nat
  BY PointsAreAnInterval
<1>2. i \in Done(c, b, i+1) /\ \A j \in Done(c, b, i+1) : ~ Precedes(i, j)
  BY <1>1 DEF Done, Precedes
<1>3. QED
  BY <1>2 DEF Here, FactAfter

\* Backward, the fact before an event that sets x holds x.
LEMMA HereBeforeSet ==
  ASSUME NEW c \in Cfg, NEW b \in Block, NEW i \in Points(c, b), NEW S, ~ Forward,
         c.events[b][i].local \in Local, Sets(c.events[b][i])
  PROVE  c.events[b][i].local \in Here(c, b, i, S)
<1>1. Points(c, b) \subseteq Nat /\ i \in Nat
  BY PointsAreAnInterval
<1>2. i \in Done(c, b, i) /\ \A j \in Done(c, b, i) : ~ Precedes(i, j)
  BY <1>1 DEF Done, Precedes
<1>3. QED
  BY <1>2 DEF Here, FactAfter

\* Backward, the fact replay() shows at an event is the one just after it.
LEMMA FactAtIsHere ==
  ASSUME NEW c \in Cfg, NEW b \in Block, NEW i \in Points(c, b), NEW S, ~ Forward
  PROVE  FactAt(c, b, i, S) = Here(c, b, i+1, S)
<1>1. Points(c, b) \subseteq Nat /\ i \in Nat
  BY PointsAreAnInterval
<1>2. {j \in Points(c, b) : Precedes(j, i)} = Done(c, b, i+1)
  BY <1>1 DEF Done, Precedes
<1>3. QED
  BY <1>2 DEF FactAt, Here

\* Forward, the fact replay() shows at an event is the one just before it.
LEMMA FactAtIsHereForward ==
  ASSUME NEW c \in Cfg, NEW b \in Block, NEW i \in Points(c, b), NEW S, Forward
  PROVE  FactAt(c, b, i, S) = Here(c, b, i, S)
<1>1. {j \in Points(c, b) : Precedes(j, i)} = Done(c, b, i)
  BY DEF Done, Precedes
<1>2. QED
  BY <1>1 DEF FactAt, Here

\* At one end of the block nothing is done, at the other everything is.
LEMMA HereAtEnds ==
  ASSUME NEW c \in Cfg, NEW b \in Block, NEW S \in SUBSET Local
  PROVE  /\ Forward => /\ Here(c, b, 1, S) = S
                       /\ Here(c, b, Len(c.events[b]) + 1, S) = Transfer(c, b, S)
         /\ ~ Forward => /\ Here(c, b, 1, S) = Transfer(c, b, S)
                         /\ Here(c, b, Len(c.events[b]) + 1, S) = S
<1> DEFINE n == Len(c.events[b])
<1>1. Points(c, b) = 1..n /\ n \in Nat
  BY PointsAreAnInterval
<1>2. CASE Forward
  <2>1. Done(c, b, 1) = {} /\ Done(c, b, n+1) = Points(c, b)
    BY <1>1, <1>2 DEF Done
  <2>2. QED
    BY <1>2, <2>1 DEF Here, FactAfter, Transfer
<1>3. CASE ~ Forward
  <2>1. Done(c, b, n+1) = {} /\ Done(c, b, 1) = Points(c, b)
    BY <1>1, <1>3 DEF Done
  <2>2. QED
    BY <1>3, <2>1 DEF Here, FactAfter, Transfer
<1>4. QED
  BY <1>2, <1>3

\* Reachability contains the entry and follows every edge.
LEMMA ReachableClosed ==
  ASSUME NEW c \in Cfg
  PROVE  /\ ENTRY \in Reachable(c)
         /\ \A b \in Reachable(c) : c.succs[b] \subseteq Reachable(c)
<1>1. ENTRY \in Block
  BY NAssumption DEF ENTRY, Block
<1>2. QED
  BY <1>1 DEF Reachable, Cfg

-----------------------------------------------------------------------------
(***************************************************************************)
(* The inductive invariant.  Until the solver is done the execution has    *)
(* not started; from then on the solution no longer changes and satisfies  *)
(* the equations everywhere.                                               *)
(***************************************************************************)
NotStarted ==
  ~ Solved => /\ pc = <<ENTRY, 1>>
              /\ status = [x \in Local |-> IF x \in cfg.params THEN "bound" ELSE "unbound"]
              /\ origin = [x \in Local |-> {}]

RunInv == /\ RunTypeOK /\ IInv
          /\ reachable = Reachable(cfg)
          /\ NotStarted
          /\ FactsCoverTheRun

RunStep == Store \/ SkipWeakDef \/ Unbind \/ Read

\* What the type invariant says of the point and the facts, split for the provers.
LEMMA CfgFacts ==
  ASSUME RunTypeOK
  PROVE  /\ cfg \in Cfg /\ pc[1] \in Block /\ pc[2] \in Nat \ {0} /\ pc = <<pc[1], pc[2]>>
         /\ into \in Fact /\ from \in Fact
  BY CfgsAssumption DEF RunTypeOK, TypeOK

\* FactHere is Here at the point of the execution.
LEMMA FactHereIsHere ==
  FactHere = Here(cfg, pc[1], pc[2], into[pc[1]])
  BY DEF FactHere, Here, Done

\* A step of the execution stays in its block, moves one event on, and touches one local.
LEMMA RunStepFacts ==
  ASSUME RunTypeOK, RunStep
  PROVE  /\ Solved /\ pc[2] \in Points(cfg, pc[1]) /\ EventAt(pc) \in Event
         /\ pc' = <<pc[1], pc[2] + 1>> /\ UNCHANGED solverVars
         /\ \A x \in Local : x # EventAt(pc).local =>
              status'[x] = status[x] /\ origin'[x] = origin[x]
<1>1. pc' = <<pc[1], pc[2] + 1>> /\ UNCHANGED solverVars /\ AtEvent
  BY CfgFacts DEF RunStep, Store, SkipWeakDef, Unbind, Read, Advance
<1>2. EventAt(pc) \in Event
  BY <1>1, CfgFacts, PointsAreAnInterval DEF AtEvent, EventAt
<1>3. \A x \in Local : x # EventAt(pc).local => status'[x] = status[x] /\ origin'[x] = origin[x]
  BY DEF RunTypeOK, RunStep, Store, SkipWeakDef, Unbind, Read
<1>4. QED
  BY <1>1, <1>2, <1>3 DEF AtEvent

\* What a step does to the local of its event, by the kind of the event.
LEMMA RunStepLocal ==
  ASSUME RunTypeOK, RunStep, NEW x \in Local, x = EventAt(pc).local
  PROVE  LET k == EventAt(pc).kind
         IN  /\ k = "Def" => status'[x] = "bound" /\ origin'[x] = {pc}
             /\ k = "WeakDef" => /\ status'[x] # "unbound"
                                 /\ origin'[x] = {pc} \/ origin'[x] = origin[x]
             /\ k = "Kill" => origin'[x] = {}
             /\ k = "Use" => status'[x] = status[x] /\ origin'[x] = origin[x]
  BY DEF RunTypeOK, RunStep, Store, SkipWeakDef, Unbind, Read

\* A step inside a block keeps the state well typed.
LEMMA RunStepType ==
  ASSUME RunTypeOK, RunStep
  PROVE  RunTypeOK'
<1>1. TypeOK' /\ cfg' = cfg
  BY RunStepFacts DEF RunTypeOK, TypeOK, solverVars
<1>2. /\ pc' \in Block \X (Nat \ {0})
      /\ pc'[1] = pc[1] /\ pc'[2] = pc[2] + 1 /\ pc[2] <= Len(cfg.events[pc[1]])
  BY RunStepFacts, CfgFacts, PointsAreAnInterval
<1>3. Len(cfg.events[pc[1]]) \in Nat
  BY CfgFacts, PointsAreAnInterval
<1>4. pc'[2] <= Len(cfg'.events[pc'[1]]) + 1
  BY <1>1, <1>2, <1>3, CfgFacts
<1>5. pc \in Block \X Nat /\ EventAt(pc).local \in Local
  BY RunStepFacts, CfgFacts DEF Event
<1>6. status' \in [Local -> {"bound", "unbound", "assumed"}]
  BY <1>5 DEF RunTypeOK, RunStep, Store, SkipWeakDef, Unbind, Read
<1>7. origin' \in [Local -> SUBSET (Block \X Nat)]
  BY <1>5 DEF RunTypeOK, RunStep, Store, SkipWeakDef, Unbind, Read
<1>8. QED
  BY <1>1, <1>2, <1>4, <1>6, <1>7 DEF RunTypeOK

\* Forward: an unbound local is in the fact after the event.
LEMMA RunStepForward ==
  ASSUME RunInv, RunStep, Forward, NEW x \in Local, status'[x] = "unbound"
  PROVE  x \in Here(cfg, pc[1], pc[2] + 1, into[pc[1]])
<1> DEFINE e == EventAt(pc)
<1>1. RunTypeOK /\ Solved
  BY RunStepFacts DEF RunInv
<1>2. /\ cfg \in Cfg /\ pc[1] \in Block /\ pc[2] \in Points(cfg, pc[1])
      /\ e = cfg.events[pc[1]][pc[2]] /\ e \in Event
  BY <1>1, RunStepFacts, CfgFacts DEF EventAt
<1>3. status[x] = "unbound" => x \in Here(cfg, pc[1], pc[2], into[pc[1]])
  BY <1>1, FactHereIsHere DEF RunInv, FactsCoverTheRun
<1>4. CASE Decides(e, x)
  <2>1. e.kind = "Kill"
    BY <1>1, <1>2, <1>4, RunStepLocal DEF Decides, Sets, Clears, Event, Kind
  <2>2. QED
    BY <1>2, <1>4, <2>1, HereAfterSet DEF Decides, Sets
<1>5. CASE ~ Decides(e, x)
  <2>1. status[x] = "unbound"
    BY <1>1, <1>2, <1>5, RunStepFacts, RunStepLocal DEF Decides, Sets, Clears, Event, Kind
  <2>2. QED
    BY <1>2, <1>3, <1>5, <2>1, HereUndecided
<1>6. QED
  BY <1>4, <1>5

\* Backward: a value whose store is dead at its point is not live after the event either.
LEMMA RunStepBackward ==
  ASSUME RunInv, RunStep, ~ Forward, NEW x \in Local, NEW p \in origin'[x]
  PROVE  /\ p[2] \in Points(cfg, p[1]) /\ p[1] \in reachable
         /\ EventAt(p).local = x
         /\ IsReportable(EventAt(p)) /\ ~ Holds(p) =>
              x \notin Here(cfg, pc[1], pc[2] + 1, into[pc[1]])
<1> DEFINE e == EventAt(pc)
<1>1. RunTypeOK /\ Solved
  BY RunStepFacts DEF RunInv
<1>2. /\ cfg \in Cfg /\ pc[1] \in Block /\ pc[2] \in Points(cfg, pc[1])
      /\ e = cfg.events[pc[1]][pc[2]] /\ e \in Event
  BY <1>1, RunStepFacts, CfgFacts DEF EventAt
<1>3. ASSUME p \in origin[x]
      PROVE  /\ p[2] \in Points(cfg, p[1]) /\ p[1] \in reachable
             /\ EventAt(p).local = x
             /\ IsReportable(EventAt(p)) /\ ~ Holds(p)
                  => x \notin Here(cfg, pc[1], pc[2], into[pc[1]])
  BY <1>1, <1>3, FactHereIsHere DEF RunInv, FactsCoverTheRun
<1>4. CASE p \in origin[x] /\ ~ Decides(e, x)
  BY <1>2, <1>3, <1>4, HereUndecided
<1>5. CASE p \in origin[x] /\ Decides(e, x) /\ Sets(e)
  \* The event reads x, so x is live before it.
  BY <1>2, <1>3, <1>5, HereBeforeSet DEF Decides
<1>6. CASE p = pc /\ e.local = x
  <2>1. Holds(p) <=> x \in Here(cfg, pc[1], pc[2] + 1, into[pc[1]])
    BY <1>2, <1>6, FactAtIsHere DEF Holds, EventAt
  <2>2. pc[1] \in reachable
    BY DEF RunInv, FactsCoverTheRun
  <2>3. QED
    BY <1>2, <1>6, <2>1, <2>2
<1>7. (p \in origin[x] /\ (~ Decides(e, x) \/ Sets(e))) \/ (p = pc /\ e.local = x)
  <2>1. CASE e.local # x
    BY <1>1, <2>1, RunStepFacts DEF Decides
  <2>2. CASE e.local = x
    <3>1. e.kind \in {"Use", "Def", "WeakDef", "Kill"}
      BY <1>2 DEF Event, Kind
    <3>2. e.kind = "Kill" => origin'[x] = {}
      BY <1>1, <2>2, RunStepLocal
    <3>3. e.kind = "Def" => origin'[x] = {pc}
      BY <1>1, <2>2, RunStepLocal
    <3>4. e.kind = "WeakDef" => origin'[x] = {pc} \/ origin'[x] = origin[x]
      BY <1>1, <2>2, RunStepLocal
    <3>5. e.kind = "Use" => origin'[x] = origin[x]
      BY <1>1, <2>2, RunStepLocal
    <3>6. (e.kind = "Use" => Sets(e)) /\ (e.kind = "WeakDef" => ~ Decides(e, x))
      BY DEF Sets, Clears, Decides
    <3>7. QED
      BY <2>2, <3>1, <3>2, <3>3, <3>4, <3>5, <3>6
  <2>3. QED
    BY <2>1, <2>2
<1>8. QED
  BY <1>4, <1>5, <1>6, <1>7

\* A step inside a block keeps the facts covering the execution.
LEMMA RunStepCovers ==
  ASSUME RunInv, RunStep
  PROVE  FactsCoverTheRun'
<1>1. /\ RunTypeOK /\ pc' = <<pc[1], pc[2] + 1>> /\ UNCHANGED solverVars
      /\ pc'[1] = pc[1] /\ pc'[2] = pc[2] + 1
  BY RunStepFacts DEF RunInv
<1>2. FactHere' = Here(cfg, pc[1], pc[2] + 1, into[pc[1]])
  BY <1>1 DEF FactHere, Here, Done, FactAfter, Points, Decides, Sets, Clears, Precedes,
     solverVars
<1>3. pc'[1] \in reachable'
  BY <1>1 DEF RunInv, FactsCoverTheRun, solverVars
<1>4. \A p : /\ Points(cfg', p[1]) = Points(cfg, p[1])
             /\ EventAt(p)' = EventAt(p)
             /\ (Holds(p))' <=> Holds(p)
  BY <1>1 DEF Points, EventAt, Holds, FactAt, FactAfter, Decides, Sets, Clears, Precedes,
     solverVars
<1>5. ASSUME NEW x \in Local, Forward, status'[x] = "unbound"
      PROVE  x \in FactHere'
  BY <1>2, <1>5, RunStepForward
<1>6. ASSUME NEW x \in Local, ~ Forward, NEW p \in origin'[x]
      PROVE  /\ p[2] \in Points(cfg', p[1]) /\ p[1] \in reachable'
             /\ EventAt(p)'.local = x
             /\ IsReportable(EventAt(p)') /\ ~ (Holds(p))' => x \notin FactHere'
  BY <1>1, <1>2, <1>4, <1>6, RunStepBackward DEF solverVars
<1>7. QED
  BY <1>3, <1>5, <1>6 DEF FactsCoverTheRun, IsReportable

\* Following an edge: what leaves one block is in what enters the next, or the reverse.
LEMMA BranchCovers ==
  ASSUME RunInv, Branch
  PROVE  FactsCoverTheRun' /\ RunTypeOK'
<1>1. PICK s \in cfg.succs[pc[1]] : pc' = <<s, 1>>
  BY DEF Branch
<1>2. /\ UNCHANGED solverVars /\ UNCHANGED <<status, origin>> /\ Solved
      /\ pc[2] = Len(cfg.events[pc[1]]) + 1
  BY DEF Branch
<1> DEFINE b == pc[1]
<1>3. /\ cfg \in Cfg /\ b \in Block /\ into \in Fact /\ from \in Fact
      /\ s \in Block /\ into[b] \in SUBSET Local /\ into[s] \in SUBSET Local
  BY CfgFacts DEF RunInv, Cfg, Fact
<1>4. b \in reachable /\ s \in reachable
  BY <1>3, ReachableClosed DEF RunInv, FactsCoverTheRun
<1>5. ASSUME NEW t \in Block
      PROVE  /\ into[t] = Meet(cfg, reachable, from, t)
             /\ from[t] = Transfer(cfg, t, into[t])
  BY <1>2 DEF RunInv, IInv, QueueMatchesFlags, SettledOffQueue, Solved
<1>6. FactHere' = Here(cfg, s, 1, into[s])
  BY <1>1, <1>2 DEF FactHere, Here, Done, FactAfter, Points, Decides, Sets, Clears, Precedes,
     solverVars
<1>7. FactHere = Here(cfg, b, Len(cfg.events[b]) + 1, into[b])
  BY <1>2, FactHereIsHere
<1>8. ASSUME Forward PROVE FactsCoverTheRun'
  <2>1. FactHere = from[b] /\ FactHere' = into[s]
    BY <1>3, <1>5, <1>6, <1>7, <1>8, HereAtEnds
  <2>2. b \in IntoOf(cfg, reachable, s)
    BY <1>3, <1>4, <1>8 DEF IntoOf, Preds
  <2>3. from[b] \subseteq into[s]
    BY <1>3, <1>5, <2>2 DEF Meet
  <2>4. pc'[1] \in reachable'
    BY <1>1, <1>2, <1>4 DEF solverVars
  <2>5. \A x \in Local : status'[x] = "unbound" => x \in FactHere
    BY <1>2, <1>8 DEF RunInv, FactsCoverTheRun
  <2>6. QED
    BY <1>8, <2>1, <2>3, <2>4, <2>5 DEF FactsCoverTheRun
<1>9. ASSUME ~ Forward PROVE FactsCoverTheRun'
  <2>1. FactHere = into[b] /\ FactHere' = from[s]
    BY <1>3, <1>5, <1>6, <1>7, <1>9, HereAtEnds
  <2>2. s \in IntoOf(cfg, reachable, b)
    BY <1>3, <1>9 DEF IntoOf
  <2>3. from[s] \subseteq into[b]
    BY <1>3, <1>5, <2>2 DEF Meet
  <2>4. \A p : /\ Points(cfg', p[1]) = Points(cfg, p[1])
               /\ EventAt(p)' = EventAt(p)
               /\ (Holds(p))' <=> Holds(p)
    BY <1>2 DEF Points, EventAt, Holds, FactAt, FactAfter, Decides, Sets, Clears, Precedes,
       solverVars
  <2>5. pc'[1] \in reachable'
    BY <1>1, <1>2, <1>4 DEF solverVars
  <2>6. ASSUME NEW x \in Local, NEW p \in origin'[x]
        PROVE  /\ p[2] \in Points(cfg', p[1]) /\ p[1] \in reachable'
               /\ EventAt(p)'.local = x
               /\ IsReportable(EventAt(p)') /\ ~ (Holds(p))' => x \notin FactHere'
    <3>1. p \in origin[x] /\ reachable' = reachable
      BY <1>2, <2>6 DEF solverVars
    <3>2. /\ p[2] \in Points(cfg, p[1]) /\ p[1] \in reachable
          /\ EventAt(p).local = x
          /\ IsReportable(EventAt(p)) /\ ~ Holds(p) => x \notin FactHere
      BY <1>2, <1>9, <3>1 DEF RunInv, FactsCoverTheRun
    <3>3. x \notin FactHere => x \notin FactHere'
      BY <2>1, <2>3
    <3>4. QED
      BY <3>1, <3>2, <3>3, <2>4
  <2>7. QED
    BY <1>9, <2>5, <2>6 DEF FactsCoverTheRun, IsReportable
<1>10. RunTypeOK'
  <2>1. TypeOK'
    BY <1>2 DEF RunInv, RunTypeOK, TypeOK, solverVars
  <2>2. pc' \in Block \X (Nat \ {0}) /\ pc'[2] = 1 /\ pc'[1] = s
    BY <1>1, <1>3
  <2>3. Len(cfg.events[s]) \in Nat
    BY <1>3, PointsAreAnInterval
  <2>4. QED
    BY <1>2, <2>1, <2>2, <2>3 DEF RunInv, RunTypeOK, solverVars
<1>11. QED
  BY <1>8, <1>9, <1>10

\* The solver's last iteration: the execution is about to start in ENTRY.
LEMMA SolveCovers ==
  ASSUME RunInv, IInv', Solve, UNCHANGED runVars
  PROVE  FactsCoverTheRun' /\ NotStarted' /\ RunTypeOK'
<1>1. /\ ~ Solved /\ cfg' = cfg /\ reachable' = reachable
      /\ pc' = pc /\ status' = status /\ origin' = origin
  BY DEF Solve, Solved, runVars
<1>2. /\ pc = <<ENTRY, 1>>
      /\ status = [x \in Local |-> IF x \in cfg.params THEN "bound" ELSE "unbound"]
      /\ origin = [x \in Local |-> {}]
  BY <1>1 DEF RunInv, NotStarted
<1>3. cfg \in Cfg /\ ENTRY \in Block /\ ENTRY \in reachable
  BY CfgFacts, NAssumption, ReachableClosed DEF RunInv, ENTRY, Block
<1>4. ASSUME Solved', Forward, NEW x \in Local, x \notin cfg.params
      PROVE  x \in FactHere'
  <2>1. into'[ENTRY] = Meet(cfg, reachable, from', ENTRY)
    BY <1>1, <1>3, <1>4 DEF IInv, QueueMatchesFlags, SettledOffQueue, Solved
  <2>2. x \in into'[ENTRY]
    BY <1>4, <2>1 DEF Meet, BoundaryBlock, Boundary
  <2>3. into'[ENTRY] \in SUBSET Local
    BY <1>3 DEF IInv, TypeOK, Fact
  <2>4. Here(cfg, ENTRY, 1, into'[ENTRY]) = into'[ENTRY]
    BY <1>3, <1>4, <2>3, HereAtEnds
  <2>5. FactHere' = Here(cfg, ENTRY, 1, into'[ENTRY])
    BY <1>1, <1>2 DEF FactHere, Here, Done, FactAfter, Points, Decides, Sets, Clears, Precedes
  <2>6. QED
    BY <2>2, <2>4, <2>5
<1>5. FactsCoverTheRun'
  BY <1>1, <1>2, <1>3, <1>4 DEF FactsCoverTheRun
<1>6. RunTypeOK' /\ NotStarted'
  BY <1>1, <1>2 DEF RunInv, RunTypeOK, NotStarted, IInv
<1>7. QED
  BY <1>5, <1>6

\* The execution starts inside its inductive invariant.
LEMMA RunInit_Inv == RunInit => RunInv
<1> SUFFICES ASSUME RunInit PROVE RunInv
  OBVIOUS
<1>1. IInv
  BY InitInductive DEF RunInit
<1>2. ~ Solved /\ cfg \in Cfg /\ reachable = Reachable(cfg)
  <2>1. Len(queue) = N
    BY NAssumption DEF RunInit, Init, InitialQueue
  <2>2. ~ Solved
    BY <2>1, NAssumption DEF Solved
  <2>3. QED
    BY <2>2, CfgsAssumption DEF RunInit, Init
<1>3. ENTRY \in Block /\ ENTRY \in reachable
  BY <1>2, NAssumption, ReachableClosed DEF ENTRY, Block
<1>4. Len(cfg.events[ENTRY]) \in Nat
  BY <1>2, <1>3, PointsAreAnInterval
<1>5. RunTypeOK
  BY <1>1, <1>3, <1>4 DEF RunTypeOK, IInv, RunInit
<1>6. NotStarted /\ FactsCoverTheRun
  BY <1>2, <1>3 DEF NotStarted, FactsCoverTheRun, RunInit
<1>7. QED
  BY <1>1, <1>2, <1>5, <1>6 DEF RunInv

\* No step of the solver or of the execution leaves the inductive invariant.
LEMMA RunNext_Inv == RunInv /\ [RunNext]_allVars => RunInv'
<1> SUFFICES ASSUME RunInv, [RunNext]_allVars PROVE RunInv'
  OBVIOUS
<1>1. IInv' /\ reachable' = Reachable(cfg)'
  <2>1. [Solve]_solverVars
    BY DEF RunNext, allVars, Store, SkipWeakDef, Unbind, Read, Branch, Advance
  <2>2. reachable' = reachable /\ cfg' = cfg
    BY <2>1 DEF Solve, solverVars
  <2>3. QED
    BY <2>1, <2>2, NextInductive DEF RunInv, Reachable
<1>2. CASE Solve /\ UNCHANGED runVars
  BY <1>1, <1>2, SolveCovers DEF RunInv
<1>3. CASE RunStep
  <2>1. FactsCoverTheRun' /\ RunTypeOK'
    BY <1>3, RunStepCovers, RunStepType DEF RunInv
  <2>2. Solved'
    BY <1>3, RunStepFacts DEF RunInv, Solved, solverVars
  <2>3. QED
    BY <1>1, <2>1, <2>2 DEF RunInv, NotStarted
<1>4. CASE Branch
  <2>1. Solved'
    BY <1>4 DEF Branch, Solved, solverVars
  <2>2. QED
    BY <1>1, <1>4, <2>1, BranchCovers DEF RunInv, NotStarted
<1>5. CASE UNCHANGED allVars
  <2>1. /\ cfg' = cfg /\ reachable' = reachable /\ into' = into /\ (Solved' <=> Solved)
        /\ pc' = pc /\ status' = status /\ origin' = origin
    BY <1>5 DEF allVars, solverVars, runVars, Solved
  <2>2. FactHere' = FactHere
    BY <2>1 DEF FactHere, FactAfter, Points, Decides, Sets, Clears, Precedes
  <2>3. \A p : EventAt(p)' = EventAt(p) /\ ((Holds(p))' <=> Holds(p))
    BY <2>1 DEF EventAt, Holds, FactAt, FactAfter, Points, Decides, Sets, Clears, Precedes
  <2>4. FactsCoverTheRun'
    BY <2>1, <2>2, <2>3 DEF RunInv, FactsCoverTheRun, IsReportable, Points
  <2>5. RunTypeOK' /\ NotStarted'
    BY <1>1, <2>1 DEF RunInv, RunTypeOK, NotStarted, IInv
  <2>6. QED
    BY <1>1, <2>4, <2>5 DEF RunInv
<1>6. QED
  BY <1>2, <1>3, <1>4, <1>5 DEF RunNext, RunStep

\* The execution model keeps its types.
THEOREM RunTypeCorrect == RunSpec => []RunTypeOK
  BY RunInit_Inv, RunNext_Inv, PTL DEF RunSpec, RunInv

\* The solution covers every state of every execution.
THEOREM CoverCorrect == RunSpec => []FactsCoverTheRun
  BY RunInit_Inv, RunNext_Inv, PTL DEF RunSpec, RunInv

(***************************************************************************)
(* No execution of any function reads a value left by a store the          *)
(* dead-store query reports.                                               *)
(***************************************************************************)
THEOREM DeadStoresSound == RunSpec => []DeadStoresAreNeverRead
<1>1. RunInv => DeadStoresAreNeverRead
  <2> SUFFICES ASSUME RunInv, ~ Forward, NEW x \in Local, Reading(x), NEW p \in origin[x],
                      IsReportable(EventAt(p)), EventAt(p).loc \in DeadStores
               PROVE  FALSE
    BY DEF DeadStoresAreNeverRead
  <2>1. Solved /\ pc[2] \in Points(cfg, pc[1]) /\ EventAt(pc).local = x /\ Sets(EventAt(pc))
    BY DEF Reading, AtEvent, Sets
  <2>2. cfg \in Cfg /\ pc[1] \in Block
    BY CfgFacts DEF RunInv
  <2>3. x \in FactHere
    BY <2>1, <2>2, HereBeforeSet, FactHereIsHere DEF EventAt
  <2>4. Holds(p) /\ p[2] \in Points(cfg, p[1]) /\ p[1] \in reachable
    BY <2>1, <2>3 DEF RunInv, FactsCoverTheRun
  <2>5. p \in Block \X Nat
    BY DEF RunInv, RunTypeOK
  <2>6. p \in Copies(EventAt(p).loc)
    <3>1. p \in {p[1]} \X Points(cfg, p[1])
      BY <2>4, <2>5
    <3>2. QED
      BY <2>4, <3>1 DEF Copies, EventAt
  <2>7. QED
    BY <2>4, <2>6 DEF DeadStores
<1>2. QED
  BY <1>1, RunInit_Inv, RunNext_Inv, PTL DEF RunSpec

(***************************************************************************)
(* A checkable read that some execution of some function reaches with its  *)
(* local unbound is reported, weak definitions apart.                      *)
(***************************************************************************)
THEOREM UnboundReadsComplete == RunSpec => []UnboundReadsAreReported
<1>1. RunInv => UnboundReadsAreReported
  <2> SUFFICES ASSUME RunInv, Forward, NEW x \in Local, Reading(x),
                      IsCheckable(EventAt(pc)), status[x] = "unbound"
               PROVE  EventAt(pc).loc \in UnboundReads
    BY DEF UnboundReadsAreReported
  <2>1. Solved /\ pc[2] \in Points(cfg, pc[1]) /\ EventAt(pc).local = x
    BY DEF Reading, AtEvent
  <2>2. /\ cfg \in Cfg /\ pc[1] \in Block /\ pc = <<pc[1], pc[2]>>
        /\ EventAt(pc) \in Event /\ pc[1] \in reachable
    BY <2>1, CfgFacts, PointsAreAnInterval DEF RunInv, EventAt, FactsCoverTheRun
  <2>3. x \in FactHere
    BY <2>1 DEF RunInv, FactsCoverTheRun
  <2>4. Holds(pc)
    BY <2>1, <2>2, <2>3, FactHereIsHere, FactAtIsHereForward DEF Holds, EventAt
  <2>5. pc \in Copies(EventAt(pc).loc)
    <3>1. pc \in {pc[1]} \X Points(cfg, pc[1])
      BY <2>1, <2>2
    <3>2. QED
      BY <2>2, <3>1 DEF Copies, EventAt
  <2>6. EventAt(pc).loc \in Loc
    BY <2>2 DEF Event
  <2>7. QED
    BY <2>4, <2>5, <2>6 DEF UnboundReads
<1>2. QED
  BY <1>1, RunInit_Inv, RunNext_Inv, PTL DEF RunSpec

(***************************************************************************)
(* The loop over the events of a block, and the closed form of it.         *)
(***************************************************************************)

\* One event more or less: Here moves by TransferEvent.
LEMMA HereStep ==
  ASSUME NEW c \in Cfg, NEW b \in Block, NEW i \in Points(c, b), NEW S
  PROVE  /\ Forward => Here(c, b, i+1, S) = TransferEvent(c.events[b][i], Here(c, b, i, S))
         /\ ~ Forward => Here(c, b, i, S) = TransferEvent(c.events[b][i], Here(c, b, i+1, S))
<1> DEFINE e == c.events[b][i]
<1>1. Points(c, b) \subseteq Nat /\ i \in Nat /\ e.local \in Local
  BY PointsAreAnInterval DEF Event
<1>2. ASSUME NEW near \in SUBSET Points(c, b), i \notin near, \A j \in near : Precedes(j, i) /\ ~ Precedes(i, j)
      PROVE  FactAfter(c, b, near \cup {i}, S) = TransferEvent(e, FactAfter(c, b, near, S))
  <2>0. ~ Precedes(i, i)
    BY <1>1 DEF Precedes
  <2>1. ASSUME NEW x \in Local, x # e.local \/ ~ (Sets(e) \/ Clears(e))
        PROVE  x \in FactAfter(c, b, near \cup {i}, S) <=> x \in FactAfter(c, b, near, S)
    <3>1. ~ Decides(e, x)
      BY <2>1 DEF Decides
    <3> QED
      BY <3>1 DEF FactAfter, Decides
  <2>2. ASSUME Sets(e)
        PROVE  e.local \in FactAfter(c, b, near \cup {i}, S)
    BY <1>1, <1>2, <2>0, <2>2 DEF FactAfter
  <2>3. ASSUME Clears(e), ~ Sets(e)
        PROVE  e.local \notin FactAfter(c, b, near \cup {i}, S)
    <3>1. Decides(e, e.local)
      BY <2>3 DEF Decides
    <3> QED
      BY <1>2, <2>3, <3>1 DEF FactAfter
  <2>4. FactAfter(c, b, near \cup {i}, S) \subseteq Local /\ FactAfter(c, b, near, S) \subseteq Local
    BY DEF FactAfter
  <2> HIDE DEF e
  <2> QED
    BY <1>1, <2>1, <2>2, <2>3, <2>4 DEF TransferEvent
<1>3. CASE Forward
  <2>1. /\ Done(c, b, i+1) = Done(c, b, i) \cup {i} /\ i \notin Done(c, b, i)
        /\ \A j \in Done(c, b, i) : Precedes(j, i) /\ ~ Precedes(i, j)
    BY <1>1, <1>3 DEF Done, Precedes
  <2>2. Done(c, b, i) \in SUBSET Points(c, b)
    BY DEF Done
  <2> QED
    BY <1>2, <1>3, <2>1, <2>2 DEF Here
<1>4. CASE ~ Forward
  <2>1. /\ Done(c, b, i) = Done(c, b, i+1) \cup {i} /\ i \notin Done(c, b, i+1)
        /\ \A j \in Done(c, b, i+1) : Precedes(j, i) /\ ~ Precedes(i, j)
    BY <1>1, <1>4 DEF Done, Precedes
  <2>2. Done(c, b, i+1) \in SUBSET Points(c, b)
    BY DEF Done
  <2> QED
    BY <1>2, <1>4, <2>1, <2>2 DEF Here
<1> QED
  BY <1>3, <1>4

LoopEquation(evs, start, loop) ==
  loop = [k \in 0..Len(evs) |-> IF k = 0 THEN start ELSE TransferEvent(evs[k], loop[k-1])]

Loop(evs, start) == CHOOSE loop : LoopEquation(evs, start, loop)

\* The loop over the events has the values its equation gives.
LEMMA LoopIs ==
  ASSUME NEW evs, evs \in Seq(Event), NEW start, start \in SUBSET Local
  PROVE  /\ Loop(evs, start)[0] = start
         /\ \A k \in 1..Len(evs) : Loop(evs, start)[k] = TransferEvent(evs[k], Loop(evs, start)[k-1])
<1> DEFINE n == Len(evs)
           Facts == SUBSET Local
           step == [k \in 1..n |-> [S \in Facts |-> TransferEvent(evs[k], S)]]
<1>1. n \in Nat /\ \A k \in 1..n : evs[k] \in Event
  BY ElementOfSeq
<1>2. \A e \in Event : \A S \in Facts : TransferEvent(e, S) \in Facts
  BY DEF Event, TransferEvent
<1>3. step \in [1..n -> [Facts -> Facts]]
  BY <1>1, <1>2
<1> HIDE DEF n, Facts, step
<1>4. PICK f \in [0..n -> Facts] : f[0] = start /\ \A k \in 1..n : f[k] = step[k][f[k-1]]
  <2>1. start \in Facts /\ n \in Nat
    BY <1>1 DEF Facts
  <2> QED
    BY <1>3, <2>1, Iteration
<1>5. LoopEquation(evs, start, f)
  <2>1. \A k \in 0..n : f[k] = IF k = 0 THEN start ELSE TransferEvent(evs[k], f[k-1])
    <3> TAKE k \in 0..n
    <3>1. CASE k = 0
      BY <1>4, <3>1
    <3>2. CASE k # 0
      <4>1. k \in 1..n /\ k - 1 \in 0..n
        BY <1>1, <3>2
      <4>2. f[k] = step[k][f[k-1]] /\ f[k-1] \in Facts
        BY <1>4, <4>1
      <4> QED
        BY <3>2, <4>1, <4>2 DEF step
    <3> QED
      BY <3>1, <3>2
  <2>2. f = [k \in 0..n |-> f[k]]
    BY <1>4
  <2> QED
    BY <2>1, <2>2, Zenon DEF LoopEquation, n
<1>6. LoopEquation(evs, start, Loop(evs, start))
  BY <1>5, Zenon DEF Loop
<1>7. \A k \in 0..n : Loop(evs, start)[k] = IF k = 0 THEN start ELSE TransferEvent(evs[k], Loop(evs, start)[k-1])
  <2> DEFINE g == Loop(evs, start)
  <2> HIDE DEF g
  <2>1. g = [k \in 0..n |-> IF k = 0 THEN start ELSE TransferEvent(evs[k], g[k-1])]
    BY <1>6, Zenon DEF LoopEquation, n, g
  <2>2. \A k \in 0..n : g[k] = IF k = 0 THEN start ELSE TransferEvent(evs[k], g[k-1])
    BY <2>1, Zenon
  <2> QED
    BY <2>2 DEF g
<1>8. 0 \in 0..n /\ \A k \in 1..n : k \in 0..n /\ k # 0
  BY <1>1
<1> QED
  BY <1>7, <1>8 DEF n

\* Solving and replaying agree, when the equations of settled blocks hold.
LEMMA LoopIsHere ==
  ASSUME TypeOK, NEW b \in Block, NEW k \in 0..Len(cfg.events[b])
  PROVE  Loop(InOrder(b), into[b])[k] =
           Here(cfg, b, IF Forward THEN k + 1 ELSE Len(cfg.events[b]) + 1 - k, into[b])
<1> DEFINE n == Len(cfg.events[b])
           evs == InOrder(b)
           At(m) == Here(cfg, b, IF Forward THEN m + 1 ELSE n + 1 - m, into[b])
           T == {m \in 0..n : Loop(evs, into[b])[m] = At(m)}
<1>1. cfg \in Cfg /\ into[b] \in SUBSET Local
  BY CfgsAssumption DEF TypeOK, Fact
<1>2. n \in Nat /\ Points(cfg, b) = 1..n /\ cfg.events[b] \in Seq(Event)
  BY <1>1, PointsAreAnInterval DEF Cfg
<1>3. /\ evs \in Seq(Event) /\ Len(evs) = n
      /\ \A m \in 1..n : evs[m] = cfg.events[b][IF Forward THEN m ELSE n + 1 - m]
  <2>1. CASE Forward
    BY <1>2, <2>1 DEF InOrder
  <2>2. CASE ~ Forward
    <3>1. evs = [m \in 1..n |-> cfg.events[b][(n - m) + 1]]
      BY <2>2 DEF InOrder, Reverse
    <3>2. \A m \in 1..n : (n - m) + 1 \in 1..n /\ (n - m) + 1 = n + 1 - m
      BY <1>2
    <3>3. \A m \in 1..n : cfg.events[b][m] \in Event
      BY <1>2, ElementOfSeq
    <3> HIDE DEF n, evs
    <3> QED
      BY <1>2, <2>2, <3>1, <3>2, <3>3
  <2> QED
    BY <2>1, <2>2
<1> HIDE DEF evs
<1>4. /\ Loop(evs, into[b])[0] = into[b]
      /\ \A m \in 1..n : Loop(evs, into[b])[m] = TransferEvent(evs[m], Loop(evs, into[b])[m-1])
  BY <1>1, <1>3, LoopIs
<1>5. 0 \in T
  <2>1. At(0) = into[b]
    <3>1. CASE Forward
      BY <1>1, <3>1, HereAtEnds
    <3>2. CASE ~ Forward
      <4>1. Here(cfg, b, n + 1, into[b]) = into[b]
        BY <1>1, <3>2, HereAtEnds
      <4> HIDE DEF n
      <4>2. n + 1 - 0 = n + 1
        BY <1>2
      <4> QED
        BY <3>2, <4>1, <4>2
    <3> QED
      BY <3>1, <3>2
  <2> QED
    BY <1>2, <1>4, <2>1
<1>6. ASSUME NEW m \in 0..(n - 1), m \in T
      PROVE  m + 1 \in T
  <2>1. PICK new \in 1..n : new = m + 1
    BY <1>2
  <2>2. Loop(evs, into[b])[new] = TransferEvent(evs[new], At(m))
    <3>1. new - 1 = m
      BY <2>1
    <3> QED
      BY <1>4, <1>6, <3>1
  <2>3. TransferEvent(evs[new], At(m)) = At(new)
    <3>1. CASE Forward
      <4>1. new \in Points(cfg, b) /\ evs[new] = cfg.events[b][new]
        BY <1>2, <1>3, <3>1
      <4>2. At(m) = Here(cfg, b, new, into[b]) /\ At(new) = Here(cfg, b, new + 1, into[b])
        BY <2>1, <3>1
      <4> QED
        BY <1>1, <3>1, <4>1, <4>2, HereStep
    <3>2. CASE ~ Forward
      <4> HIDE DEF n
      <4>1. PICK i \in 1..n : i = n + 1 - new
        BY <1>2
      <4>2. i \in Points(cfg, b) /\ evs[new] = cfg.events[b][i]
        BY <1>2, <1>3, <3>2, <4>1
      <4>4. i + 1 = n + 1 - m
        BY <1>2, <2>1, <4>1
      <4>3. At(m) = Here(cfg, b, i + 1, into[b]) /\ At(new) = Here(cfg, b, i, into[b])
        BY <3>2, <4>1, <4>4
      <4> QED
        BY <1>1, <3>2, <4>2, <4>3, HereStep
    <3> QED
      BY <3>1, <3>2
  <2> HIDE DEF At
  <2>4. Loop(evs, into[b])[new] = At(new)
    BY <2>2, <2>3
  <2> QED
    BY <1>2, <2>1, <2>4
<1> HIDE DEF At, T, n
<1>7. 0..n \subseteq T
  BY <1>2, <1>5, <1>6, UpTo
<1>8. k \in T
  BY <1>7 DEF n
<1> QED
  BY <1>8 DEF T, At, n, evs

LEMMA ReplayIsLoop ==
  ASSUME TypeOK, SettledOffQueue
  PROVE  ReplayAgrees
<1> SUFFICES ASSUME NEW b \in Block
             PROVE  LET evs    == InOrder(b)
                        Pos(k) == IF Forward THEN k ELSE Len(evs) + 1 - k
                    IN  /\ ~ queued[b] => from[b] = Loop(evs, into[b])[Len(evs)]
                        /\ \A k \in 1..Len(evs) : FactAt(cfg, b, Pos(k), into[b]) = Loop(evs, into[b])[k-1]
  BY Zenon DEF ReplayAgrees, Loop, LoopEquation
<1> DEFINE n == Len(cfg.events[b])
           evs == InOrder(b)
<1>1. cfg \in Cfg /\ into[b] \in SUBSET Local
  BY CfgsAssumption DEF TypeOK, Fact
<1>2. n \in Nat /\ Points(cfg, b) = 1..n
  BY <1>1, PointsAreAnInterval
<1>3. Len(evs) = n
  BY <1>2 DEF InOrder, Reverse
<1>4. ASSUME ~ queued[b]
      PROVE  from[b] = Loop(evs, into[b])[n]
  <2>1. from[b] = Transfer(cfg, b, into[b])
    BY <1>4 DEF SettledOffQueue
  <2>2. Loop(evs, into[b])[n] = Here(cfg, b, IF Forward THEN n + 1 ELSE n + 1 - n, into[b])
    BY <1>2, LoopIsHere
  <2>3. n + 1 - n = 1
    BY <1>2
  <2> QED
    BY <1>1, <2>1, <2>2, <2>3, HereAtEnds
<1>5. ASSUME NEW k \in 1..n
      PROVE  FactAt(cfg, b, IF Forward THEN k ELSE n + 1 - k, into[b]) = Loop(evs, into[b])[k-1]
  <2>1. k - 1 \in 0..n
    BY <1>2
  <2>2. Loop(evs, into[b])[k-1] = Here(cfg, b, IF Forward THEN (k-1) + 1 ELSE n + 1 - (k-1), into[b])
    BY <2>1, LoopIsHere
  <2>3. CASE Forward
    <3>1. (k-1) + 1 = k
      OBVIOUS
    <3> QED
      BY <1>1, <1>2, <2>2, <2>3, <3>1, FactAtIsHereForward
  <2>4. CASE ~ Forward
    <3> HIDE DEF n, evs
    <3>1. PICK i \in 1..n : i = n + 1 - k
      BY <1>2
    <3>2. n + 1 - (k-1) = i + 1
      BY <1>2, <3>1
    <3>3. FactAt(cfg, b, i, into[b]) = Here(cfg, b, i + 1, into[b])
      BY <1>1, <1>2, <2>4, FactAtIsHere
    <3> QED
      BY <2>2, <2>4, <3>1, <3>2, <3>3
  <2> QED
    BY <2>3, <2>4
<1> HIDE DEF n, evs
<1> QED
  BY <1>3, <1>4, <1>5 DEF evs

(* The fact replay() shows before an event is the one the loop over the    *)
(* block's events has there (dataflow.rs, replay and solve).               *)
THEOREM ReplayCorrect == Spec => []ReplayAgrees
BY ReplayIsLoop, Inductive, PTL DEF IInv

-----------------------------------------------------------------------------
(***************************************************************************)
(* The solution of the equations is what the paths of the graph give.      *)
(* Backward: the walks that look for a read of the local.                  *)
(***************************************************************************)

\* A solved function satisfies its equations at every block.
LEMMA SolvedEquations ==
  ASSUME IInv, Solved
  PROVE  /\ cfg \in Cfg /\ into \in Fact /\ from \in Fact
         /\ \A b \in Block : into[b] \in SUBSET Local /\ from[b] \in SUBSET Local
         /\ \A b \in Block : into[b] = Meet(cfg, reachable, from, b)
         /\ \A b \in Block : from[b] = Transfer(cfg, b, into[b])
<1>1. ASSUME NEW b \in Block PROVE ~ queued[b]
  BY DEF IInv, QueueMatchesFlags, Solved
<1>2. cfg \in Cfg /\ into \in Fact /\ from \in Fact
  BY CfgsAssumption DEF IInv, TypeOK
<1> QED
  BY <1>1, <1>2 DEF IInv, SettledOffQueue, Fact

\* Backward, the first event of a block that mentions a local settles it.
LEMMA FirstSettles ==
  ASSUME cfg \in Cfg, ~ Forward, NEW s \in Block, NEW x \in Local, NEW S \in SUBSET Local
  PROVE  x \in Transfer(cfg, s, S) <=> \/ \E i \in First(s, x) : Sets(cfg.events[s][i])
                                       \/ First(s, x) = {} /\ x \in S
<1> DEFINE ev(i) == cfg.events[s][i]
           D == {i \in Points(cfg, s) : Decides(ev(i), x)}
<1>1. Points(cfg, s) = 1..Len(cfg.events[s]) /\ Len(cfg.events[s]) \in Nat
  BY PointsAreAnInterval
<1>2. ASSUME D # {}
      PROVE  First(s, x) # {}
  <2>1. PICK m \in D : \A k \in D : m <= k
    <3>1. D \in SUBSET Nat
      BY <1>1
    <3> HIDE DEF D
    <3> QED
      BY <1>2, <3>1, LeastNatural
  <2>2. m \in First(s, x)
    BY <1>1, <2>1 DEF First
  <2> QED
    BY <2>2
<1>3. First(s, x) \subseteq D
  BY DEF First
<1>4. x \in Transfer(cfg, s, S) <=>
        \/ \E i \in Points(cfg, s) : /\ ev(i).local = x /\ Sets(ev(i))
                                     /\ \A j \in Points(cfg, s) : j < i => ~ Decides(ev(j), x)
        \/ x \in S /\ D = {}
  BY DEF Transfer, FactAfter, Precedes
<1>5. (\E i \in Points(cfg, s) : /\ ev(i).local = x /\ Sets(ev(i))
                                 /\ \A j \in Points(cfg, s) : j < i => ~ Decides(ev(j), x))
        <=> \E i \in First(s, x) : Sets(ev(i))
  <2>1. ASSUME NEW i \in Points(cfg, s), ev(i).local = x, Sets(ev(i)),
               \A j \in Points(cfg, s) : j < i => ~ Decides(ev(j), x)
        PROVE  i \in First(s, x)
    BY <1>1, <2>1 DEF First, Decides
  <2>2. ASSUME NEW i \in First(s, x), Sets(ev(i))
        PROVE  /\ i \in Points(cfg, s) /\ ev(i).local = x
               /\ \A j \in Points(cfg, s) : j < i => ~ Decides(ev(j), x)
    BY <1>1 DEF First, Decides
  <2> QED
    BY <2>1, <2>2
<1>6. D = {} <=> First(s, x) = {}
  BY <1>2, <1>3
<1> HIDE DEF D
<1> QED
  BY ONLY <1>4, <1>5, <1>6

WalkEquation(b, x, R) ==
  R = [k \in 0..N |-> IF k = 0 THEN cfg.succs[b] ELSE Through(x, R[k-1])]

\* The stages of a walk.
Walked(b, x) == CHOOSE R : WalkEquation(b, x, R)

LEMMA WalkedIs ==
  ASSUME cfg \in Cfg, NEW b \in Block, NEW x \in Local
  PROVE  /\ Walk(b, x) = Walked(b, x)[N]
         /\ Walked(b, x) \in [0..N -> SUBSET Block]
         /\ Walked(b, x)[0] = cfg.succs[b]
         /\ \A k \in 1..N : Walked(b, x)[k] = Through(x, Walked(b, x)[k-1])
<1> DEFINE S == SUBSET Block
           step == [k \in 1..N |-> [seen \in S |-> Through(x, seen)]]
           first == cfg.succs[b]
<1>0. N \in Nat
  BY NAssumption
<1>1. \A seen \in S : Through(x, seen) \in S
  BY DEF Through, Cfg
<1>2. first \in S /\ step \in [1..N -> [S -> S]]
  BY <1>1 DEF Cfg
<1>3. PICK f \in [0..N -> S] : f[0] = first /\ \A k \in 1..N : f[k] = step[k][f[k-1]]
  <2> HIDE DEF S, step, first
  <2> QED
    BY <1>0, <1>2, Iteration
<1>4. \A k \in 1..N : k - 1 \in 0..N /\ f[k-1] \in S
  BY <1>0, <1>3
<1>5. \A k \in 1..N : f[k] = Through(x, f[k-1])
  BY <1>3, <1>4
<1>6. WalkEquation(b, x, f)
  <2>1. \A k \in 0..N : f[k] = IF k = 0 THEN cfg.succs[b] ELSE Through(x, f[k-1])
    BY <1>0, <1>3, <1>5
  <2>2. f = [k \in 0..N |-> f[k]]
    BY <1>3
  <2> QED
    BY <2>1, <2>2, Zenon DEF WalkEquation
<1> DEFINE R == Walked(b, x)
<1>7. WalkEquation(b, x, R)
  BY <1>6, Zenon DEF Walked
<1>8. Walk(b, x) = R[N]
  BY Zenon DEF Walk, Walked, WalkEquation
<1> HIDE DEF R
<1>9. R = [k \in 0..N |-> R[k]] /\ \A k \in 0..N : R[k] = IF k = 0 THEN cfg.succs[b] ELSE Through(x, R[k-1])
  <2>1. R = [k \in 0..N |-> IF k = 0 THEN cfg.succs[b] ELSE Through(x, R[k-1])]
    BY <1>7, Zenon DEF WalkEquation
  <2>2. \A k \in 0..N : R[k] = IF k = 0 THEN cfg.succs[b] ELSE Through(x, R[k-1])
    BY <2>1, Zenon
  <2> QED
    BY <2>1, <2>2, Zenon
<1>10. R[0] = cfg.succs[b] /\ \A k \in 1..N : R[k] = Through(x, R[k-1])
  <2>1. 0 \in 0..N /\ \A k \in 1..N : k \in 0..N /\ k # 0
    BY <1>0
  <2> QED
    BY <1>9, <2>1
<1>11. \A k \in 0..N : R[k] \in S
  <2> DEFINE T == {k \in 0..N : R[k] \in S}
  <2>1. 0 \in T
    BY <1>0, <1>2, <1>10
  <2>2. ASSUME NEW k \in 0..(N - 1), k \in T
        PROVE  k + 1 \in T
    <3>1. PICK m \in 1..N : m = k + 1
      BY <1>0
    <3>2. m - 1 = k /\ m \in 0..N
      BY <1>0, <3>1
    <3>3. R[m] = Through(x, R[k]) /\ R[k] \in S
      BY <1>10, <2>2, <3>1, <3>2
    <3>4. R[m] \in S
      BY <1>1, <3>3
    <3> QED
      BY <3>1, <3>2, <3>4
  <2> HIDE DEF T
  <2>3. 0..N \subseteq T
    BY <1>0, <2>1, <2>2, UpTo
  <2> QED
    BY <2>3 DEF T
<1> QED
  BY <1>8, <1>9, <1>10, <1>11 DEF R

\* A walk takes every edge out of the blocks it passes through.
LEMMA WalkClosed ==
  ASSUME cfg \in Cfg, NEW b \in Block, NEW x \in Local
  PROVE  /\ Walk(b, x) \subseteq Block /\ cfg.succs[b] \subseteq Walk(b, x)
         /\ \A t \in Walk(b, x) : First(t, x) = {} => cfg.succs[t] \subseteq Walk(b, x)
<1> DEFINE w == Walked(b, x)
           step == [seen \in SUBSET Block |-> Through(x, seen)]
<1>0. N \in Nat /\ N \in 0..N /\ 0 \in 0..N
  BY NAssumption
<1>1. /\ w \in [0..N -> SUBSET Block] /\ w[0] = cfg.succs[b] /\ Walk(b, x) = w[N]
      /\ \A k \in 1..N : w[k] = Through(x, w[k-1])
  BY WalkedIs
<1>2. IsFiniteSet(Block) /\ Cardinality(Block) <= N
  BY NAssumption, FS_Interval DEF Block
<1>3. /\ step \in [SUBSET Block -> SUBSET Block]
      /\ \A seen \in SUBSET Block : seen \subseteq step[seen] /\ step[seen] = Through(x, seen)
  BY DEF Through, Cfg
<1> HIDE DEF w, step
<1>4. \A k \in 1..N : w[k-1] \in SUBSET Block /\ w[k] = step[w[k-1]]
  <2>1. \A k \in 1..N : k - 1 \in 0..N
    BY <1>0
  <2> QED
    BY <1>1, <1>3, <2>1
<1>5. step[w[N]] = w[N]
  <2> DEFINE U == Block
             n == N
  <2>1. IsFiniteSet(U) /\ n \in Nat /\ Cardinality(U) <= n
    BY <1>0, <1>2
  <2>2. step \in [SUBSET U -> SUBSET U] /\ \A S \in SUBSET U : S \subseteq step[S]
    BY <1>3
  <2>3. w \in [0..n -> SUBSET U] /\ \A k \in 1..n : w[k] = step[w[k-1]]
    BY <1>1, <1>4
  <2> HIDE DEF U, n
  <2>4. step[w[n]] = w[n]
    <3>1. Saturates(U, n, step, w)
      BY <2>1, <2>2, <2>3 DEF Saturates
    <3> QED
      BY ONLY <3>1, Saturation
  <2> QED
    BY <2>4 DEF n
<1>6. w[N] \in SUBSET Block /\ Through(x, w[N]) = w[N]
  BY <1>0, <1>1, <1>3, <1>5
<1>7. w[0] \subseteq w[N]
  <2> DEFINE T == {k \in 0..N : w[0] \subseteq w[k]}
  <2>1. 0 \in T
    BY <1>0
  <2>2. ASSUME NEW k \in 0..(N - 1), k \in T
        PROVE  k + 1 \in T
    <3>1. PICK m \in 1..N : m = k + 1
      BY <1>0
    <3>2. m - 1 = k /\ m \in 0..N
      BY <1>0, <3>1
    <3>3. w[k] \subseteq w[m]
      BY <1>1, <3>1, <3>2 DEF Through
    <3> QED
      BY <2>2, <3>1, <3>2, <3>3
  <2> HIDE DEF T
  <2>3. 0..N \subseteq T
    BY <1>0, <2>1, <2>2, UpTo
  <2> QED
    BY <1>0, <2>3 DEF T
<1> QED
  BY <1>1, <1>6, <1>7 DEF Through

\* It goes nowhere else.
LEMMA WalkLeast ==
  ASSUME cfg \in Cfg, NEW b \in Block, NEW x \in Local, NEW C, cfg.succs[b] \subseteq C,
         \A t \in C : First(t, x) = {} => cfg.succs[t] \subseteq C
  PROVE  Walk(b, x) \subseteq C
<1> DEFINE w == Walked(b, x)
           T == {k \in 0..N : w[k] \subseteq C}
<1>0. N \in Nat /\ N \in 0..N /\ 0 \in 0..N
  BY NAssumption
<1>1. /\ w[0] = cfg.succs[b] /\ Walk(b, x) = w[N]
      /\ \A k \in 1..N : w[k] = Through(x, w[k-1])
  BY WalkedIs
<1> HIDE DEF w
<1>2. 0 \in T
  BY <1>0, <1>1
<1>3. ASSUME NEW k \in 0..(N - 1), k \in T
      PROVE  k + 1 \in T
  <2>1. PICK m \in 1..N : m = k + 1
    BY <1>0
  <2>2. m - 1 = k /\ m \in 0..N
    BY <1>0, <2>1
  <2>3. w[m] = Through(x, w[k]) /\ w[k] \subseteq C
    BY <1>1, <1>3, <2>1, <2>2
  <2>4. w[m] \subseteq C
    BY <2>3 DEF Through
  <2> QED
    BY <2>1, <2>2, <2>4
<1> HIDE DEF T
<1>4. 0..N \subseteq T
  BY <1>0, <1>2, <1>3, UpTo
<1> QED
  BY <1>0, <1>1, <1>4 DEF T

\* Backward, the solution is the locals read on some path before they are overwritten.
LEMMA ExactBackward ==
  ASSUME IInv, BelowEverySolution, Solved, ~ Forward, NEW b \in Block
  PROVE  into[b] = ReadOnSomePath(b)
<1> DEFINE g == [s \in Block |-> Transfer(cfg, s, ReadOnSomePath(s))]
<1>1. /\ cfg \in Cfg /\ into \in Fact /\ from \in Fact
      /\ \A s \in Block : into[s] \in SUBSET Local /\ from[s] \in SUBSET Local
      /\ \A s \in Block : into[s] = Meet(cfg, reachable, from, s)
      /\ \A s \in Block : from[s] = Transfer(cfg, s, into[s])
  BY SolvedEquations
<1>2. \A s, f : Meet(cfg, reachable, f, s) = UNION {f[p] : p \in cfg.succs[s]}
  BY DEF Meet, IntoOf, Boundary, BoundaryBlock
<1>3. \A s \in Block : ReadOnSomePath(s) \in SUBSET Local /\ cfg.succs[s] \subseteq Block
  BY <1>1 DEF ReadOnSomePath, Cfg
<1>4. ASSUME NEW x \in ReadOnSomePath(b)
      PROVE  x \in into[b]
  <2> DEFINE C == {s \in Block : x \in from[s] => x \in into[b]}
  <2>1. cfg.succs[b] \subseteq C
    BY <1>1, <1>2, <1>3
  <2>2. ASSUME NEW t \in C, First(t, x) = {}
        PROVE  cfg.succs[t] \subseteq C
    <3>1. ASSUME NEW s \in cfg.succs[t], x \in from[s]
          PROVE  x \in into[b]
      <4>1. t \in Block /\ x \in Local
        BY <1>3
      <4>2. x \in into[t]
        BY <1>1, <1>2, <3>1, <4>1
      <4>3. x \in Transfer(cfg, t, into[t])
        BY <1>1, <2>2, <4>1, <4>2, FirstSettles
      <4> QED
        BY <1>1, <4>1, <4>3
    <3> QED
      BY <1>3, <3>1
  <2> HIDE DEF C
  <2>3. x \in Local /\ Walk(b, x) \subseteq C
    <3>1. x \in Local
      BY <1>3
    <3> QED
      BY <1>1, <2>1, <2>2, <3>1, WalkLeast
  <2>4. PICK s \in Walk(b, x) : \E i \in First(s, x) : Sets(cfg.events[s][i])
    BY DEF ReadOnSomePath
  <2>5. s \in Block /\ x \in Transfer(cfg, s, into[s])
    <3>1. s \in Block
      BY <1>1, <2>3, <2>4, WalkClosed
    <3> QED
      BY <1>1, <2>3, <2>4, <3>1, FirstSettles
  <2> QED
    BY <1>1, <2>3, <2>4, <2>5 DEF C
<1>5. ASSUME NEW s \in Block
      PROVE  Meet(cfg, reachable, g, s) \subseteq ReadOnSomePath(s)
  <2> SUFFICES ASSUME NEW p \in cfg.succs[s], NEW x \in g[p]
               PROVE  x \in ReadOnSomePath(s)
    BY <1>2
  <2>1. p \in Block /\ x \in Transfer(cfg, p, ReadOnSomePath(p))
    BY <1>3
  <2>2. x \in Local
    BY <2>1, TransferType
  <2>3. /\ p \in Walk(s, x)
        /\ \A t \in Walk(s, x) : First(t, x) = {} => cfg.succs[t] \subseteq Walk(s, x)
    BY <1>1, <2>2, WalkClosed
  <2>4. CASE \E i \in First(p, x) : Sets(cfg.events[p][i])
    BY <2>2, <2>3, <2>4 DEF ReadOnSomePath
  <2>5. CASE First(p, x) = {} /\ x \in ReadOnSomePath(p)
    <3>1. Walk(p, x) \subseteq Walk(s, x)
      BY <1>1, <2>1, <2>2, <2>3, <2>5, WalkLeast
    <3> QED
      BY <2>2, <2>5, <3>1 DEF ReadOnSomePath
  <2> QED
    BY <1>1, <1>3, <2>1, <2>2, <2>4, <2>5, FirstSettles
<1>6. g \in Fact /\ \A s \in Block : g[s] = Transfer(cfg, s, ReadOnSomePath(s))
  BY TransferType DEF Fact
<1> HIDE DEF g
<1>7. Above(cfg, reachable, g)
  BY <1>5, <1>6, TransferMonotone DEF Above
<1>8. Meet(cfg, reachable, from, b) \subseteq Meet(cfg, reachable, g, b)
  BY <1>1, <1>6, <1>7, NeighboursType, MeetMonotone DEF BelowEverySolution
<1> QED
  BY <1>1, <1>4, <1>5, <1>8

-----------------------------------------------------------------------------
(***************************************************************************)
(* Forward: the bits executions bring to the blocks.                       *)
(***************************************************************************)

\* The bit of a local moves with an event as a fact does.
LEMMA BitStepIs ==
  ASSUME NEW x, NEW e, NEW S, NEW bit, bit = (x \in S)
  PROVE  BitStep(x, bit, e) = (x \in TransferEvent(e, S))
<1>1. /\ x \in TransferEvent(e, {}) => x \in TransferEvent(e, S)
      /\ x \notin TransferEvent(e, {x}) => x \notin TransferEvent(e, S)
      /\ x \notin TransferEvent(e, {}) /\ x \in TransferEvent(e, {x})
           => (x \in TransferEvent(e, S) <=> x \in S)
      /\ x \in TransferEvent(e, {}) => x \in TransferEvent(e, {x})
  BY DEF TransferEvent
<1>2. CASE x \in TransferEvent(e, {})
  <2>1. BitStep(x, bit, e) = TRUE /\ x \in TransferEvent(e, S)
    BY <1>1, <1>2, Zenon DEF BitStep
  <2> QED
    BY <2>1, Zenon
<1>3. CASE x \notin TransferEvent(e, {x})
  <2>1. BitStep(x, bit, e) = FALSE /\ x \notin TransferEvent(e, S)
    BY <1>1, <1>3, Zenon DEF BitStep
  <2>2. (x \in TransferEvent(e, S)) = FALSE
    BY <2>1
  <2> QED
    BY <2>1, <2>2, Zenon
<1>4. CASE x \notin TransferEvent(e, {}) /\ x \in TransferEvent(e, {x})
  <2>1. BitStep(x, bit, e) = (x \in S)
    BY <1>4, Zenon DEF BitStep
  <2>2. (x \in S) = (x \in TransferEvent(e, S))
    BY <1>1, <1>4
  <2> QED
    BY <2>1, <2>2, Zenon
<1> QED
  BY <1>2, <1>3, <1>4, Zenon

BitEquation(b, x, start, bit) ==
  bit = [k \in 0..Len(cfg.events[b]) |->
           IF k = 0 THEN start ELSE BitStep(x, bit[k-1], cfg.events[b][k])]

Bits(b, x, start) == CHOOSE bit : BitEquation(b, x, start, bit)

\* Through a whole block it moves as the closed form of the transfer says.
LEMMA AtEndIs ==
  ASSUME cfg \in Cfg, Forward, NEW b \in Block, NEW x \in Local, NEW S \in SUBSET Local
  PROVE  AtEnd(b, x, x \in S) = (x \in Transfer(cfg, b, S))
<1> DEFINE n == Len(cfg.events[b])
           start == x \in S
           ev(k) == cfg.events[b][k]
           f == [k \in 0..n |-> x \in Here(cfg, b, k + 1, S)]
<1>1. n \in Nat /\ Points(cfg, b) = 1..n
  BY PointsAreAnInterval
<1>2. /\ Here(cfg, b, 1, S) = S /\ Here(cfg, b, n + 1, S) = Transfer(cfg, b, S)
      /\ \A k \in 1..n : Here(cfg, b, k + 1, S) = TransferEvent(ev(k), Here(cfg, b, k, S))
  BY <1>1, HereAtEnds, HereStep
<1> HIDE DEF n, ev
<1>3. ASSUME NEW k \in 1..n
      PROVE  BitStep(x, x \in Here(cfg, b, k, S), ev(k)) = (x \in Here(cfg, b, k + 1, S))
  <2> DEFINE before == x \in Here(cfg, b, k, S)
  <2>1. before = (x \in Here(cfg, b, k, S))
    BY Zenon
  <2> HIDE DEF before
  <2>2. BitStep(x, before, ev(k)) = (x \in TransferEvent(ev(k), Here(cfg, b, k, S)))
    BY <2>1, BitStepIs
  <2> QED
    BY <1>2, <2>1, <2>2, Zenon
<1>4. \A k \in 1..n : k - 1 \in 0..n /\ (k - 1) + 1 = k
  BY <1>1
<1>5. BitEquation(b, x, start, f)
  <2>1. \A k \in 0..n : f[k] = IF k = 0 THEN start ELSE BitStep(x, f[k-1], ev(k))
    <3> TAKE k \in 0..n
    <3>1. CASE k = 0
      <4>1. k + 1 = 1
        BY <3>1
      <4>2. f[k] = (x \in Here(cfg, b, k + 1, S))
        BY Zenon
      <4>3. f[k] = start
        BY <1>2, <4>1, <4>2, Zenon
      <4> QED
        BY <3>1, <4>3, Zenon
    <3>2. CASE k # 0
      <4>1. k \in 1..n
        BY <1>1, <3>2
      <4>2. k - 1 \in 0..n /\ (k - 1) + 1 = k
        BY <1>4, <4>1
      <4>3. f[k] = (x \in Here(cfg, b, k + 1, S)) /\ f[k-1] = (x \in Here(cfg, b, (k - 1) + 1, S))
        BY <4>2, Zenon
      <4>4. f[k-1] = (x \in Here(cfg, b, k, S))
        BY <4>2, <4>3, Zenon
      <4>5. f[k] = BitStep(x, f[k-1], ev(k))
        BY <1>3, <4>1, <4>3, <4>4, Zenon
      <4> QED
        BY <3>2, <4>5, Zenon
    <3> QED
      BY <3>1, <3>2
  <2>2. f = [k \in 0..n |-> f[k]]
    BY Zenon
  <2> HIDE DEF f, start
  <2> QED
    BY <2>1, <2>2, Zenon DEF BitEquation, n, ev
<1> DEFINE g == Bits(b, x, start)
<1>6. BitEquation(b, x, start, g)
  BY <1>5, Zenon DEF Bits
<1>7. AtEnd(b, x, start) = g[n]
  BY Zenon DEF AtEnd, Bits, BitEquation, n
<1> HIDE DEF g, f
<1>8. \A k \in 0..n : g[k] = IF k = 0 THEN start ELSE BitStep(x, g[k-1], ev(k))
  <2> HIDE DEF start
  <2>1. g = [k \in 0..n |-> IF k = 0 THEN start ELSE BitStep(x, g[k-1], ev(k))]
    BY <1>6, Zenon DEF BitEquation, n, ev
  <2> QED
    BY <2>1, Zenon
<1> DEFINE T == {k \in 0..n : g[k] = (x \in Here(cfg, b, k + 1, S))}
<1>9. 0 \in T
  <2>1. 0 \in 0..n /\ 0 + 1 = 1
    BY <1>1
  <2>2. g[0] = start
    BY <1>8, <2>1, Zenon
  <2> QED
    BY <1>2, <2>1, <2>2, Zenon
<1>10. ASSUME NEW k \in 0..(n - 1), k \in T
       PROVE  k + 1 \in T
  <2>1. PICK m \in 1..n : m = k + 1
    BY <1>1
  <2>2. m \in 0..n /\ m # 0 /\ m - 1 = k
    BY <1>1, <2>1
  <2>3. g[k] = (x \in Here(cfg, b, m, S))
    BY <1>10, <2>1, Zenon
  <2>4. g[m] = BitStep(x, g[k], ev(m))
    BY <1>8, <2>2, Zenon
  <2>5. g[m] = (x \in Here(cfg, b, m + 1, S))
    BY <1>3, <2>3, <2>4, Zenon
  <2> QED
    BY <2>1, <2>2, <2>5, Zenon
<1> HIDE DEF T
<1>11. 0..n \subseteq T
  BY <1>1, <1>9, <1>10, UpTo
<1>12. n \in T
  BY <1>1, <1>11
<1>13. g[n] = (x \in Here(cfg, b, n + 1, S))
  BY <1>12, Zenon DEF T
<1> QED
  BY <1>2, <1>7, <1>13, Zenon

\* It is a bit again.
LEMMA AtEndType ==
  ASSUME cfg \in Cfg, Forward, NEW b \in Block, NEW x \in Local, NEW bit \in BOOLEAN
  PROVE  AtEnd(b, x, bit) \in BOOLEAN
<1>1. CASE bit = TRUE
  <2>1. {x} \in SUBSET Local /\ (x \in {x}) = TRUE
    OBVIOUS
  <2>2. AtEnd(b, x, x \in {x}) = (x \in Transfer(cfg, b, {x}))
    <3> DEFINE S == {x}
    <3>1. S \in SUBSET Local
      BY <2>1
    <3> HIDE DEF S
    <3>2. AtEnd(b, x, x \in S) = (x \in Transfer(cfg, b, S))
      BY <3>1, AtEndIs, Zenon
    <3> QED
      BY <3>2, Zenon DEF S
  <2>3. AtEnd(b, x, x \in {x}) = TRUE \/ AtEnd(b, x, x \in {x}) = FALSE
    BY <2>2
  <2> QED
    BY <1>1, <2>1, <2>3, Zenon
<1>2. CASE bit = FALSE
  <2>1. {} \in SUBSET Local /\ (x \in {}) = FALSE
    OBVIOUS
  <2>2. AtEnd(b, x, x \in {}) = (x \in Transfer(cfg, b, {}))
    BY <2>1, AtEndIs, Zenon
  <2>3. AtEnd(b, x, x \in {}) = TRUE \/ AtEnd(b, x, x \in {}) = FALSE
    BY <2>2
  <2> QED
    BY <1>2, <2>1, <2>3, Zenon
<1> QED
  BY <1>1, <1>2

Bringable == Block \X Local \X BOOLEAN

Starts == {<<ENTRY, x, x \notin cfg.params>> : x \in Local}

ArrivalsEquation(W) ==
  W = [k \in 0..MaySteps |-> IF k = 0 THEN Starts ELSE Further(W[k-1])]

\* What executions bring in so many edges.
Arrivals == CHOOSE W : ArrivalsEquation(W)

LEMMA FurtherType ==
  ASSUME cfg \in Cfg, Forward, NEW seen \in SUBSET Bringable
  PROVE  Further(seen) \in SUBSET Bringable
<1> SUFFICES ASSUME NEW t \in seen, NEW s \in cfg.succs[t[1]]
             PROVE  <<s, t[2], AtEnd(t[1], t[2], t[3])>> \in Bringable
  BY DEF Further
<1>1. t[1] \in Block /\ t[2] \in Local /\ t[3] \in BOOLEAN
  BY DEF Bringable
<1>2. s \in Block
  BY <1>1 DEF Cfg
<1>3. AtEnd(t[1], t[2], t[3]) \in BOOLEAN
  BY <1>1, AtEndType
<1> QED
  BY <1>1, <1>2, <1>3 DEF Bringable

LEMMA ArrivalsIs ==
  ASSUME cfg \in Cfg, Forward
  PROVE  /\ ArrivesWith = Arrivals[MaySteps]
         /\ Arrivals[0] = Starts
         /\ \A k \in 1..MaySteps : Arrivals[k] = Further(Arrivals[k-1])
         /\ \A k \in 0..MaySteps : Arrivals[k] \in SUBSET Bringable
<1> DEFINE n == MaySteps
           S == SUBSET Bringable
           step == [k \in 1..n |-> [seen \in S |-> Further(seen)]]
           first == Starts
<1>0. n \in Nat
  BY NAssumption DEF MaySteps
<1>1. first \in S /\ \A seen \in S : Further(seen) \in S
  <2>1. ENTRY \in Block
    BY NAssumption DEF ENTRY, Block
  <2>2. first \in S
    <3>1. ASSUME NEW x \in Local
          PROVE  <<ENTRY, x, x \notin cfg.params>> \in Bringable
      <4>1. (x \notin cfg.params) \in BOOLEAN
        OBVIOUS
      <4> QED
        BY <2>1, <4>1, Zenon DEF Bringable
    <3> QED
      BY <3>1 DEF Starts
  <2> QED
    BY <2>2, FurtherType
<1>2. n \in Nat /\ first \in S /\ step \in [1..n -> [S -> S]]
  BY <1>0, <1>1
<1>3. PICK f \in [0..n -> S] : f[0] = first /\ \A k \in 1..n : f[k] = step[k][f[k-1]]
  <2>1. \E f \in [0..n -> S] : f[0] = first /\ \A k \in 1..n : f[k] = step[k][f[k-1]]
    <3> HIDE DEF S, step, first, n
    <3> QED
      BY ONLY <1>2, Iteration
  <2> QED
    BY <2>1
<1> HIDE DEF n
<1>4. \A k \in 1..n : k - 1 \in 0..n /\ f[k-1] \in S
  BY <1>0, <1>3
<1>5. \A k \in 1..n : f[k] = Further(f[k-1])
  BY <1>3, <1>4
<1>6. ArrivalsEquation(f)
  <2>1. \A k \in 0..n : f[k] = IF k = 0 THEN Starts ELSE Further(f[k-1])
    BY <1>0, <1>3, <1>5
  <2>2. f = [k \in 0..n |-> f[k]]
    BY <1>3
  <2> QED
    BY <2>1, <2>2, Zenon DEF ArrivalsEquation, n
<1> DEFINE W == Arrivals
<1>7. ArrivalsEquation(W)
  BY <1>6, Zenon DEF Arrivals
<1>8. ArrivesWith = W[n]
  BY Zenon DEF ArrivesWith, Arrivals, ArrivalsEquation, Starts, n
<1> HIDE DEF W
<1>9. \A k \in 0..n : W[k] = IF k = 0 THEN Starts ELSE Further(W[k-1])
  <2>1. W = [k \in 0..n |-> IF k = 0 THEN Starts ELSE Further(W[k-1])]
    BY <1>7, Zenon DEF ArrivalsEquation, n
  <2> QED
    BY <2>1, Zenon
<1>10. W[0] = Starts /\ \A k \in 1..n : W[k] = Further(W[k-1])
  <2>1. 0 \in 0..n /\ \A k \in 1..n : k \in 0..n /\ k # 0
    BY <1>0
  <2> QED
    BY <1>9, <2>1
<1>11. \A k \in 0..n : W[k] \in S
  <2> DEFINE T == {k \in 0..n : W[k] \in S}
  <2>1. 0 \in T
    BY <1>0, <1>1, <1>10
  <2>2. ASSUME NEW k \in 0..(n - 1), k \in T
        PROVE  k + 1 \in T
    <3>1. PICK m \in 1..n : m = k + 1
      BY <1>0
    <3>2. m - 1 = k /\ m \in 0..n
      BY <1>0, <3>1
    <3>3. W[m] = Further(W[k]) /\ W[k] \in S
      BY <1>10, <2>2, <3>1, <3>2
    <3>4. W[m] \in S
      BY <1>1, <3>3
    <3> QED
      BY <3>1, <3>2, <3>4
  <2> HIDE DEF T
  <2>3. 0..n \subseteq T
    BY <1>0, <2>1, <2>2, UpTo
  <2> QED
    BY <2>3 DEF T
<1> QED
  BY <1>8, <1>10, <1>11 DEF W, n

\* What holds of every start and is kept along every edge holds of every arrival.
LEMMA ArrivalsWithin ==
  ASSUME cfg \in Cfg, Forward, NEW C, Starts \subseteq C,
         \A t \in C \cap Bringable : \A s \in cfg.succs[t[1]] : <<s, t[2], AtEnd(t[1], t[2], t[3])>> \in C
  PROVE  ArrivesWith \subseteq C \cap Bringable
<1> DEFINE n == MaySteps
           W == Arrivals
           T == {k \in 0..n : W[k] \subseteq C}
<1>0. n \in Nat /\ n \in 0..n /\ 0 \in 0..n
  BY NAssumption DEF MaySteps
<1>1. /\ ArrivesWith = W[n] /\ W[0] = Starts
      /\ \A k \in 1..n : W[k] = Further(W[k-1])
      /\ \A k \in 0..n : W[k] \in SUBSET Bringable
  BY ArrivalsIs
<1> HIDE DEF n, W
<1>2. 0 \in T
  BY <1>0, <1>1
<1>3. ASSUME NEW k \in 0..(n - 1), k \in T
      PROVE  k + 1 \in T
  <2>1. PICK m \in 1..n : m = k + 1
    BY <1>0
  <2>2. m - 1 = k /\ m \in 0..n /\ k \in 0..n
    BY <1>0, <2>1
  <2>3. W[m] = Further(W[k]) /\ W[k] \subseteq C \cap Bringable
    BY <1>1, <1>3, <2>1, <2>2
  <2>4. W[m] \subseteq C
    BY <2>3 DEF Further
  <2> QED
    BY <2>1, <2>2, <2>4
<1> HIDE DEF T
<1>4. 0..n \subseteq T
  BY <1>0, <1>2, <1>3, UpTo
<1> QED
  BY <1>0, <1>1, <1>4 DEF T

\* What the arrivals know of one local, and one more round of edges.
About(x, seen)   == {p \in Block \X BOOLEAN : <<p[1], x, p[2]>> \in seen}
OneMore(x, bits) == bits \cup UNION {{<<s, AtEnd(p[1], x, p[2])>> : s \in cfg.succs[p[1]]} : p \in bits}

\* Twice as many edges as there are blocks bring every bit of a local.
LEMMA ArrivalsClosed ==
  ASSUME cfg \in Cfg, Forward
  PROVE  /\ Starts \subseteq ArrivesWith
         /\ \A b \in Block, x \in Local, bit \in BOOLEAN : <<b, x, bit>> \in ArrivesWith =>
              \A s \in cfg.succs[b] : <<s, x, AtEnd(b, x, bit)>> \in ArrivesWith
<1> DEFINE n == MaySteps
           W == Arrivals
<1>0. n \in Nat /\ n \in 0..n /\ 0 \in 0..n
  BY NAssumption DEF MaySteps
<1>1. /\ ArrivesWith = W[n] /\ W[0] = Starts
      /\ \A k \in 1..n : W[k] = Further(W[k-1])
      /\ \A k \in 0..n : W[k] \in SUBSET Bringable
  BY ArrivalsIs
<1>2. IsFiniteSet(Block \X BOOLEAN) /\ Cardinality(Block \X BOOLEAN) <= n
  <2>1. IsFiniteSet(Block) /\ Cardinality(Block) = N
    BY NAssumption, FS_Interval DEF Block
  <2>2. IsFiniteSet({FALSE}) /\ Cardinality({FALSE}) = 1
    BY FS_Singleton
  <2>3. IsFiniteSet({FALSE} \cup {TRUE}) /\ Cardinality({FALSE} \cup {TRUE}) = 2
    <3> DEFINE S == {FALSE}
               yes == TRUE
    <3>1. IsFiniteSet(S) /\ Cardinality(S) = 1 /\ yes \notin S
      BY <2>2
    <3> HIDE DEF S, yes
    <3>2. IsFiniteSet(S \cup {yes}) /\ Cardinality(S \cup {yes}) = 2
      BY <3>1, FS_AddElement
    <3> QED
      BY <3>2 DEF S, yes
  <2>4. BOOLEAN = {FALSE} \cup {TRUE}
    OBVIOUS
  <2>5. IsFiniteSet(BOOLEAN) /\ Cardinality(BOOLEAN) = 2
    BY <2>3, <2>4
  <2>6. IsFiniteSet(Block \X BOOLEAN) /\ Cardinality(Block \X BOOLEAN) = N * 2
    BY <2>1, <2>5, FS_Product
  <2> QED
    BY <2>6, NAssumption DEF MaySteps
<1> HIDE DEF n, W
<1>3. Starts \subseteq W[n]
  <2> DEFINE T == {k \in 0..n : Starts \subseteq W[k]}
  <2>1. 0 \in T
    BY <1>0, <1>1
  <2>2. ASSUME NEW k \in 0..(n - 1), k \in T
        PROVE  k + 1 \in T
    <3>1. PICK m \in 1..n : m = k + 1
      BY <1>0
    <3>2. m - 1 = k /\ m \in 0..n
      BY <1>0, <3>1
    <3>3. W[k] \subseteq W[m]
      BY <1>1, <3>1, <3>2 DEF Further
    <3> QED
      BY <2>2, <3>1, <3>2, <3>3
  <2> HIDE DEF T
  <2>3. 0..n \subseteq T
    BY <1>0, <2>1, <2>2, UpTo
  <2> QED
    BY <1>0, <2>3 DEF T
<1>4. ASSUME NEW x \in Local
      PROVE  OneMore(x, About(x, W[n])) = About(x, W[n])
  <2> DEFINE U == Block \X BOOLEAN
             step == [bits \in SUBSET U |-> OneMore(x, bits)]
             w == [k \in 0..n |-> About(x, W[k])]
  <2>1. /\ step \in [SUBSET U -> SUBSET U]
        /\ \A bits \in SUBSET U : bits \subseteq step[bits]
    <3>1. ASSUME NEW bits \in SUBSET U
          PROVE  OneMore(x, bits) \in SUBSET U
      <4>1. ASSUME NEW p \in bits, NEW s \in cfg.succs[p[1]]
            PROVE  <<s, AtEnd(p[1], x, p[2])>> \in U
        <5>1. p[1] \in Block /\ p[2] \in BOOLEAN
          OBVIOUS
        <5>2. s \in Block /\ AtEnd(p[1], x, p[2]) \in BOOLEAN
          BY <5>1, AtEndType DEF Cfg
        <5> QED
          BY <5>2
      <4> QED
        BY <4>1 DEF OneMore
    <3> QED
      BY <3>1 DEF OneMore
  <2>2. w \in [0..n -> SUBSET U]
    BY DEF About
  <2>3. ASSUME NEW k \in 1..n
        PROVE  w[k] = step[w[k-1]]
    <3>1. k - 1 \in 0..n /\ k \in 0..n
      BY <1>0
    <3>2. W[k] = Further(W[k-1]) /\ W[k-1] \in SUBSET Bringable
      BY <1>1, <3>1
    <3>3. About(x, Further(W[k-1])) = OneMore(x, About(x, W[k-1]))
      <4> DEFINE V == W[k-1]
      <4>1. V \in SUBSET Bringable
        BY <3>2
      <4> HIDE DEF V
      <4>2. ASSUME NEW p \in About(x, Further(V))
            PROVE  p \in OneMore(x, About(x, V))
        <5>1. p[1] \in Block /\ p[2] \in BOOLEAN /\ p = <<p[1], p[2]>> /\ <<p[1], x, p[2]>> \in Further(V)
          BY DEF About
        <5>2. CASE <<p[1], x, p[2]>> \in V
          BY <5>1, <5>2 DEF About, OneMore
        <5>3. CASE \E t \in V : \E s \in cfg.succs[t[1]] :
                     <<p[1], x, p[2]>> = <<s, t[2], AtEnd(t[1], t[2], t[3])>>
          <6>0. PICK t \in V : \E s \in cfg.succs[t[1]] :
                  <<p[1], x, p[2]>> = <<s, t[2], AtEnd(t[1], t[2], t[3])>>
            BY <5>3
          <6>1. PICK s \in cfg.succs[t[1]] : p[1] = s /\ x = t[2] /\ p[2] = AtEnd(t[1], x, t[3])
            BY <6>0
          <6>2. t[1] \in Block /\ t[3] \in BOOLEAN /\ t = <<t[1], x, t[3]>>
            BY <4>1, <6>1 DEF Bringable
          <6>3. <<t[1], t[3]>> \in About(x, V)
            BY <6>2 DEF About
          <6>4. p = <<s, AtEnd(t[1], x, t[3])>>
            BY <5>1, <6>1
          <6> QED
            BY <6>1, <6>3, <6>4 DEF OneMore
        <5> QED
          BY <5>1, <5>2, <5>3 DEF Further
      <4>3. ASSUME NEW p \in OneMore(x, About(x, V))
            PROVE  p \in About(x, Further(V))
        <5>1. CASE p \in About(x, V)
          BY <5>1 DEF About, Further
        <5>2. CASE \E q \in About(x, V) : \E s \in cfg.succs[q[1]] : p = <<s, AtEnd(q[1], x, q[2])>>
          <6>0. PICK q \in About(x, V) : \E s \in cfg.succs[q[1]] : p = <<s, AtEnd(q[1], x, q[2])>>
            BY <5>2
          <6>1. PICK s \in cfg.succs[q[1]] : p = <<s, AtEnd(q[1], x, q[2])>>
            BY <6>0
          <6>2. q[1] \in Block /\ q[2] \in BOOLEAN /\ <<q[1], x, q[2]>> \in V
            BY DEF About
          <6>3. <<s, x, AtEnd(q[1], x, q[2])>> \in Further(V)
            BY <6>1, <6>2 DEF Further
          <6>4. s \in Block /\ AtEnd(q[1], x, q[2]) \in BOOLEAN
            BY <6>1, <6>2, AtEndType DEF Cfg
          <6> QED
            BY <6>1, <6>3, <6>4 DEF About
        <5> QED
          BY <5>1, <5>2 DEF OneMore
      <4> QED
        BY <4>2, <4>3 DEF V
    <3>4. About(x, W[k-1]) \in SUBSET U
      BY DEF About
    <3> QED
      BY <3>1, <3>2, <3>3, <3>4
  <2>4. IsFiniteSet(U) /\ Cardinality(U) <= n
    BY <1>2
  <2> HIDE DEF U, step, w
  <2>5. step[w[n]] = w[n]
    <3>1. Saturates(U, n, step, w)
      BY <1>0, <2>1, <2>2, <2>3, <2>4 DEF Saturates
    <3> QED
      BY ONLY <3>1, Saturation
  <2>6. w[n] = About(x, W[n]) /\ w[n] \in SUBSET U
    BY <1>0, <2>2 DEF w
  <2> QED
    BY <2>5, <2>6 DEF step
<1>5. ASSUME NEW b \in Block, NEW x \in Local, NEW bit \in BOOLEAN, <<b, x, bit>> \in W[n],
             NEW s \in cfg.succs[b]
      PROVE  <<s, x, AtEnd(b, x, bit)>> \in W[n]
  <2>1. <<b, bit>> \in About(x, W[n])
    BY <1>5 DEF About
  <2>2. <<s, AtEnd(b, x, bit)>> \in OneMore(x, About(x, W[n]))
    BY <2>1 DEF OneMore
  <2>3. <<s, AtEnd(b, x, bit)>> \in About(x, W[n])
    BY <1>4, <2>2
  <2> QED
    BY <2>3 DEF About
<1> QED
  BY <1>1, <1>3, <1>5

\* Executions come to every reachable block, with some bit of each local.
LEMMA ArrivalsReach ==
  ASSUME cfg \in Cfg, Forward, NEW b \in Reachable(cfg), NEW x \in Local
  PROVE  <<b, x, TRUE>> \in ArrivesWith \/ <<b, x, FALSE>> \in ArrivesWith
<1> DEFINE C == {s \in Block : \E bit \in BOOLEAN : <<s, x, bit>> \in ArrivesWith}
<1>1. ENTRY \in C
  <2>1. ENTRY \in Block /\ (x \notin cfg.params) \in BOOLEAN
    BY NAssumption DEF ENTRY, Block
  <2>2. <<ENTRY, x, x \notin cfg.params>> \in ArrivesWith
    <3>1. <<ENTRY, x, x \notin cfg.params>> \in Starts
      BY Zenon DEF Starts
    <3> QED
      BY <3>1, ArrivalsClosed
  <2> QED
    BY <2>1, <2>2, Zenon
<1>2. ASSUME NEW s \in C
      PROVE  cfg.succs[s] \subseteq C
  <2>1. PICK bit \in BOOLEAN : <<s, x, bit>> \in ArrivesWith
    BY <1>2
  <2>2. s \in Block /\ cfg.succs[s] \subseteq Block
    BY DEF Cfg
  <2>3. AtEnd(s, x, bit) \in BOOLEAN /\ \A q \in cfg.succs[s] : <<q, x, AtEnd(s, x, bit)>> \in ArrivesWith
    BY <2>1, <2>2, AtEndType, ArrivalsClosed
  <2> QED
    BY <2>2, <2>3
<1>3. C \in SUBSET Block
  OBVIOUS
<1> HIDE DEF C
<1>4. b \in C
  BY <1>1, <1>2, <1>3 DEF Reachable
<1>5. PICK bit \in BOOLEAN : <<b, x, bit>> \in ArrivesWith
  BY <1>4 DEF C
<1> QED
  BY <1>5

\* Forward, the solution is the locals some path leaves unbound.
LEMMA ExactForward ==
  ASSUME IInv, BelowEverySolution, Solved, Forward, NEW b \in Block, b \in reachable
  PROVE  into[b] = UnboundOnSomePath(b)
<1> DEFINE g == [s \in Block |-> IF s \in reachable THEN Transfer(cfg, s, UnboundOnSomePath(s)) ELSE Local]
<1>1. /\ cfg \in Cfg /\ into \in Fact /\ from \in Fact
      /\ \A s \in Block : into[s] \in SUBSET Local /\ from[s] \in SUBSET Local
      /\ \A s \in Block : into[s] = Meet(cfg, reachable, from, s)
      /\ \A s \in Block : from[s] = Transfer(cfg, s, into[s])
  BY SolvedEquations
<1>2. \A s, f : Meet(cfg, reachable, f, s)
                  = (IF s = ENTRY THEN Local \ cfg.params ELSE {})
                      \cup UNION {f[p] : p \in Preds(cfg, s) \cap reachable}
  BY DEF Meet, IntoOf, Boundary, BoundaryBlock
<1>3. /\ reachable = Reachable(cfg) /\ reachable \subseteq Block /\ ENTRY \in reachable
      /\ \A s \in reachable : cfg.succs[s] \subseteq reachable
  BY <1>1, ReachableClosed DEF BelowEverySolution, Reachable
<1>4. \A s \in Block : UnboundOnSomePath(s) \in SUBSET Local
  BY DEF UnboundOnSomePath
<1>5. ASSUME NEW x \in UnboundOnSomePath(b)
      PROVE  x \in into[b]
  <2> DEFINE C == {t \in Bringable : t[1] \in reachable /\ (t[3] => t[2] \in into[t[1]])}
  <2>1. Starts \subseteq C
    <3>1. ASSUME NEW y \in Local
          PROVE  <<ENTRY, y, y \notin cfg.params>> \in C
      <4>1. ENTRY \in Block /\ (y \notin cfg.params) \in BOOLEAN
        BY <1>3
      <4>2. y \notin cfg.params => y \in into[ENTRY]
        BY <1>1, <1>2, <4>1
      <4> DEFINE bit == y \notin cfg.params
      <4>3. bit \in BOOLEAN /\ (bit => y \in into[ENTRY])
        BY <4>1, <4>2
      <4> HIDE DEF bit
      <4>4. <<ENTRY, y, bit>> \in C
        BY <1>3, <4>1, <4>3 DEF Bringable
      <4> QED
        BY <4>4, Zenon DEF bit
    <3> QED
      BY <3>1 DEF Starts
  <2>2. ASSUME NEW t \in C \cap Bringable, NEW s \in cfg.succs[t[1]]
        PROVE  <<s, t[2], AtEnd(t[1], t[2], t[3])>> \in C
    <3>1. /\ t[1] \in Block /\ t[2] \in Local /\ t[3] \in BOOLEAN
          /\ t[1] \in reachable /\ (t[3] => t[2] \in into[t[1]])
      BY DEF Bringable
    <3>2. s \in Block /\ s \in reachable /\ t[1] \in Preds(cfg, s)
      BY <1>1, <1>3, <3>1 DEF Cfg, Preds
    <3>3. AtEnd(t[1], t[2], t[3]) \in BOOLEAN
      BY <1>1, <3>1, AtEndType
    <3>4. ASSUME AtEnd(t[1], t[2], t[3])
          PROVE  t[2] \in into[s]
      <4>1. PICK S \in SUBSET into[t[1]] : t[3] = (t[2] \in S)
        <5>1. CASE t[3] = TRUE
          <6>1. {t[2]} \in SUBSET into[t[1]] /\ t[3] = (t[2] \in {t[2]})
            BY <3>1, <5>1
          <6> QED
            BY <6>1
        <5>2. CASE t[3] = FALSE
          <6>0. (t[2] \in {}) = FALSE
            OBVIOUS
          <6>1. {} \in SUBSET into[t[1]] /\ t[3] = (t[2] \in {})
            BY <5>2, <6>0, Zenon
          <6> QED
            BY <6>1
        <5> QED
          BY <3>1, <5>1, <5>2
      <4>2. S \in SUBSET Local
        BY <1>1, <3>1
      <4>3. AtEnd(t[1], t[2], t[2] \in S) = (t[2] \in Transfer(cfg, t[1], S))
        BY <1>1, <3>1, <4>2, AtEndIs, Zenon
      <4>4. t[2] \in Transfer(cfg, t[1], S)
        BY <3>4, <4>1, <4>3, Zenon
      <4>5. t[2] \in from[t[1]]
        BY <1>1, <3>1, <4>1, <4>4, TransferMonotone
      <4> QED
        BY <1>1, <1>2, <3>1, <3>2, <4>5
    <3> DEFINE bit == AtEnd(t[1], t[2], t[3])
    <3>5. bit \in BOOLEAN /\ (bit => t[2] \in into[s])
      BY <3>3, <3>4
    <3> HIDE DEF bit
    <3>6. <<s, t[2], bit>> \in C
      BY <3>1, <3>2, <3>5 DEF Bringable
    <3> QED
      BY <3>6, Zenon DEF bit
  <2>3. ArrivesWith \subseteq C
    <3> HIDE DEF C
    <3>1. \A t \in C \cap Bringable : \A s \in cfg.succs[t[1]] : <<s, t[2], AtEnd(t[1], t[2], t[3])>> \in C
      BY <2>2
    <3> QED
      BY <1>1, <2>1, <3>1, ArrivalsWithin
  <2>4. <<b, x, TRUE>> \in C
    BY <2>3 DEF UnboundOnSomePath
  <2> QED
    BY <2>4
<1>6. ASSUME NEW s \in reachable
      PROVE  Meet(cfg, reachable, g, s) \subseteq UnboundOnSomePath(s)
  <2> SUFFICES ASSUME NEW x \in Meet(cfg, reachable, g, s)
               PROVE  x \in UnboundOnSomePath(s)
    OBVIOUS
  <2>1. CASE s = ENTRY /\ x \in Local \ cfg.params
    <3>1. <<ENTRY, x, x \notin cfg.params>> \in ArrivesWith
      <4>1. <<ENTRY, x, x \notin cfg.params>> \in Starts
        BY <2>1, Zenon DEF Starts
      <4> QED
        BY <1>1, <4>1, ArrivalsClosed
    <3>2. (x \notin cfg.params) = TRUE
      BY <2>1
    <3>3. <<ENTRY, x, TRUE>> \in ArrivesWith
      BY <3>1, <3>2, Zenon
    <3> QED
      BY <2>1, <3>3 DEF UnboundOnSomePath
  <2>2. CASE \E p \in Preds(cfg, s) \cap reachable : x \in g[p]
    <3>1. PICK p \in Preds(cfg, s) \cap reachable : x \in g[p]
      BY <2>2
    <3>2. p \in Block /\ s \in cfg.succs[p] /\ x \in Transfer(cfg, p, UnboundOnSomePath(p))
      BY <1>3, <3>1 DEF Preds
    <3>3. x \in Local
      BY <3>2, TransferType
    <3>4. AtEnd(p, x, x \in UnboundOnSomePath(p)) = TRUE
      <4>1. AtEnd(p, x, x \in UnboundOnSomePath(p)) = (x \in Transfer(cfg, p, UnboundOnSomePath(p)))
        <5> DEFINE S == UnboundOnSomePath(p)
        <5>1. S \in SUBSET Local /\ cfg \in Cfg /\ p \in Block
          BY <1>1, <1>4, <3>2
        <5> HIDE DEF S
        <5>2. AtEnd(p, x, x \in S) = (x \in Transfer(cfg, p, S))
          BY <3>3, <5>1, AtEndIs, Zenon
        <5> QED
          BY <5>2, Zenon DEF S
      <4>2. (x \in Transfer(cfg, p, UnboundOnSomePath(p))) = TRUE
        BY <3>2
      <4> QED
        BY <4>1, <4>2, Zenon
    <3>5. PICK bit \in BOOLEAN : bit = (x \in UnboundOnSomePath(p)) /\ <<p, x, bit>> \in ArrivesWith
      <4>1. CASE x \in UnboundOnSomePath(p)
        <5>1. TRUE = (x \in UnboundOnSomePath(p)) /\ <<p, x, TRUE>> \in ArrivesWith
          BY <4>1 DEF UnboundOnSomePath
        <5> QED
          BY <5>1
      <4>2. CASE x \notin UnboundOnSomePath(p)
        <5>1. <<p, x, TRUE>> \notin ArrivesWith
          BY <3>3, <4>2 DEF UnboundOnSomePath
        <5>2. <<p, x, FALSE>> \in ArrivesWith
          BY <1>1, <1>3, <3>1, <3>3, <5>1, ArrivalsReach
        <5>3. FALSE = (x \in UnboundOnSomePath(p))
          BY <4>2
        <5> QED
          BY <5>2, <5>3
      <4> QED
        BY <4>1, <4>2
    <3>6. AtEnd(p, x, bit) = TRUE
      BY <3>4, <3>5, Zenon
    <3>7. <<s, x, AtEnd(p, x, bit)>> \in ArrivesWith
      BY <1>1, <3>2, <3>3, <3>5, ArrivalsClosed
    <3>8. <<s, x, TRUE>> \in ArrivesWith
      BY <3>6, <3>7, Zenon
    <3> QED
      BY <3>3, <3>8 DEF UnboundOnSomePath
  <2> HIDE DEF g
  <2> QED
    BY <1>2, <2>1, <2>2
<1>7. /\ g \in Fact
      /\ \A s \in reachable : g[s] = Transfer(cfg, s, UnboundOnSomePath(s))
      /\ \A s \in Block : s \notin reachable => g[s] = Local
  BY <1>3, TransferType DEF Fact
<1> HIDE DEF g
<1>8. Above(cfg, reachable, g)
  <2>1. ASSUME NEW s \in Block
        PROVE  Transfer(cfg, s, Meet(cfg, reachable, g, s)) \subseteq g[s]
    <3>1. CASE s \in reachable
      BY <1>6, <1>7, <3>1, TransferMonotone
    <3>2. CASE s \notin reachable
      BY <1>7, <3>2, TransferType
    <3> QED
      BY <3>1, <3>2
  <2> QED
    BY <2>1 DEF Above
<1>9. Meet(cfg, reachable, from, b) \subseteq Meet(cfg, reachable, g, b)
  BY <1>1, <1>7, <1>8, NeighboursType, MeetMonotone DEF BelowEverySolution
<1> QED
  BY <1>1, <1>5, <1>6, <1>9

(***************************************************************************)
(* The facts the solver ends with are exactly what the paths of the graph  *)
(* give, at every reachable block of every function: nothing a dead block  *)
(* does is in them, and nothing is missed round a loop (dataflow.rs,       *)
(* solve).                                                                 *)
(***************************************************************************)
THEOREM ExactCorrect == Spec => []ExactOnPaths
<1>1. IInv /\ BelowEverySolution => ExactOnPaths
  BY ExactForward, ExactBackward DEF ExactOnPaths
<1> QED
  BY <1>1, Inductive, BelowSolutions, PTL
=============================================================================
