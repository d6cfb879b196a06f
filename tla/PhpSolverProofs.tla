--------------------------- MODULE PhpSolverProofs --------------------------
(***************************************************************************)
(* Theorems about PhpSolver, for any well-formed graphs, names, lines,     *)
(* contexts and budgets.  Types and ToldItsSuccessors are inductive        *)
(* together: a block off the queue has told its successors all it knows    *)
(* only because whatever changes a block's state puts it on the queue, and *)
(* the flags name what the queue holds.  From that the solution is what    *)
(* the runs of the graph bring, no more (RunsBringIt) and no less          *)
(* (RunsAreCovered).                                                       *)
(***************************************************************************)
EXTENDS PhpSolver, Induction, SequenceTheorems

GraphFits == \A b \in Id : Fits(blocks, b)

(***************************************************************************)
(* Any states that satisfy the equations of the reached blocks hold at     *)
(* least what the solver has found.                                        *)
(***************************************************************************)
Solves(solution) ==
  \A b \in reached : \A s \in Successors(b) : \A n \in Name :
    Held(Passed(b, solution[b]), n) \subseteq Held(solution[s], n)

NothingInvented ==
  \A solution \in [Id -> State] :
    Solves(solution) => \A b \in Id : \A n \in Name : Held(states[b], n) \subseteq Held(solution[b], n)

IInv == GraphFits /\ PhpTypeOK /\ ToldItsSuccessors /\ NothingInvented

-----------------------------------------------------------------------------
(* States.                                                                 *)
LEMMA InState ==
  ASSUME NEW state
  PROVE  state \in State <=> /\ DOMAIN state \subseteq Name /\ state = [n \in DOMAIN state |-> state[n]]
                             /\ \A n \in DOMAIN state : state[n] \subseteq Line \X Bit
BY DEF State, Fact

LEMMA EmptyInState == <<>> \in State
<1>1. <<>> = [n \in {} |-> n] /\ DOMAIN <<>> = {}
  OBVIOUS
<1> QED
  BY <1>1, InState

LEMMA HeldIsFact ==
  ASSUME NEW state \in State, NEW n
  PROVE  Held(state, n) \subseteq Line \X Bit
BY InState DEF Held

LEMMA InEval ==
  ASSUME NEW expr, NEW state, NEW f
  PROVE  f \in Eval(expr, state) <=>
           f \in expr.direct \/ \E c \in expr.copied : c[2] = f[2] /\ f \in Held(state, c[1])
BY DEF Eval, Held, Range

LEMMA EvalIsFact ==
  ASSUME NEW expr, expr.direct \subseteq Line \X Bit, NEW state \in State
  PROVE  Eval(expr, state) \subseteq Line \X Bit
BY InEval, HeldIsFact

LEMMA HeldOfAssigned ==
  ASSUME NEW state, NEW name, NEW fact, NEW n
  PROVE  Held(Assigned(state, name, fact), n) = IF n = name THEN fact ELSE Held(state, n)
BY DEF Held, Assigned

LEMMA HeldOfJoined ==
  ASSUME NEW prior, NEW state, NEW n
  PROVE  Held(Joined(prior, state), n) = Held(prior, n) \cup Held(state, n)
BY DEF Held, Joined

LEMMA AssignedInState ==
  ASSUME NEW state \in State, NEW name \in Name, NEW fact \in SUBSET (Line \X Bit)
  PROVE  Assigned(state, name, fact) \in State
BY InState DEF Assigned

LEMMA JoinedInState ==
  ASSUME NEW prior \in State, NEW state \in State
  PROVE  Joined(prior, state) \in State
<1>1. \A n : Held(prior, n) \cup Held(state, n) \subseteq Line \X Bit
  BY HeldIsFact
<1>2. DOMAIN prior \cup DOMAIN state \subseteq Name
  BY InState
<1> QED
  BY <1>1, <1>2, InState DEF Joined

LEMMA PassedInState ==
  ASSUME NEW b \in Id, Fits(blocks, b), NEW state \in State
  PROVE  Passed(b, state) \in State
<1>1. CASE blocks[b].op.op = "assign"
  <2>1. Eval(blocks[b].op.expr, state) \in SUBSET (Line \X Bit)
    BY <1>1, EvalIsFact DEF Fits
  <2> QED
    BY <1>1, <2>1, AssignedInState DEF Fits, Passed
<1>2. CASE blocks[b].op.op # "assign"
  BY <1>2 DEF Passed
<1> QED
  BY <1>1, <1>2

\* A block makes more of more.
LEMMA PassedMonotone ==
  ASSUME NEW b \in Id, Fits(blocks, b), NEW less, NEW more,
         \A n \in Name : Held(less, n) \subseteq Held(more, n)
  PROVE  \A n \in Name : Held(Passed(b, less), n) \subseteq Held(Passed(b, more), n)
<1>1. CASE blocks[b].op.op = "assign"
  <2> DEFINE op == blocks[b].op
  <2>1. \A c \in op.expr.copied : c[1] \in Name
    BY <1>1 DEF Fits
  <2>2. Eval(op.expr, less) \subseteq Eval(op.expr, more)
    BY <2>1, InEval
  <2>3. /\ Passed(b, less) = Assigned(less, op.name, Eval(op.expr, less))
        /\ Passed(b, more) = Assigned(more, op.name, Eval(op.expr, more))
    BY <1>1 DEF Passed
  <2> HIDE DEF op
  <2> QED
    BY <2>2, <2>3, HeldOfAssigned
<1>2. CASE blocks[b].op.op # "assign"
  BY <1>2 DEF Passed
<1> QED
  BY <1>1, <1>2

-----------------------------------------------------------------------------
(* Queues.                                                                 *)
LEMMA TailOf ==
  ASSUME NEW S, NEW q \in Seq(S), q # <<>>, IsInjective(q)
  PROVE  /\ Head(q) \in Range(q) /\ Tail(q) \in Seq(S) /\ IsInjective(Tail(q))
         /\ Range(Tail(q)) = Range(q) \ {Head(q)}
<1>1. Len(q) \in Nat \ {0} /\ DOMAIN q = 1..Len(q) /\ Head(q) = q[1]
  OBVIOUS
<1>2. /\ Tail(q) \in Seq(S) /\ DOMAIN Tail(q) = 1..(Len(q) - 1)
      /\ \A i \in 1..(Len(q) - 1) : Tail(q)[i] = q[i + 1]
  BY <1>1
<1>3. IsInjective(Tail(q))
  BY <1>1, <1>2 DEF IsInjective
<1>4. ASSUME NEW e
      PROVE  e \in Range(Tail(q)) <=> e \in Range(q) /\ e # Head(q)
  <2>1. ASSUME NEW i \in 1..(Len(q) - 1), e = Tail(q)[i]
        PROVE  e \in Range(q) /\ e # Head(q)
    BY <1>1, <1>2, <2>1 DEF Range, IsInjective
  <2>2. ASSUME NEW i \in 1..Len(q), e = q[i], e # Head(q)
        PROVE  e \in Range(Tail(q))
    <3>1. i - 1 \in 1..(Len(q) - 1) /\ Tail(q)[i - 1] = e
      BY <1>1, <1>2, <2>2
    <3> QED
      BY <1>2, <3>1 DEF Range
  <2> QED
    BY <1>1, <1>2, <2>1, <2>2 DEF Range
<1>5. Head(q) \in Range(q)
  BY <1>1 DEF Range
<1>6. Range(Tail(q)) = Range(q) \ {Head(q)}
  BY <1>4
<1> QED
  BY <1>2, <1>3, <1>5, <1>6

LEMMA ConcatOf ==
  ASSUME NEW S, NEW p \in Seq(S), NEW q \in Seq(S), IsInjective(p), IsInjective(q),
         Range(p) \cap Range(q) = {}
  PROVE  /\ p \o q \in Seq(S) /\ IsInjective(p \o q)
         /\ Range(p \o q) = Range(p) \cup Range(q)
<1>1. /\ p \o q \in Seq(S) /\ DOMAIN (p \o q) = 1..(Len(p) + Len(q))
      /\ DOMAIN p = 1..Len(p) /\ DOMAIN q = 1..Len(q) /\ Len(p) \in Nat /\ Len(q) \in Nat
      /\ \A i \in 1..(Len(p) + Len(q)) : (p \o q)[i] = IF i <= Len(p) THEN p[i] ELSE q[i - Len(p)]
  OBVIOUS
<1>2. ASSUME NEW i \in 1..(Len(p) + Len(q)), i > Len(p)
      PROVE  i - Len(p) \in 1..Len(q) /\ (p \o q)[i] \in Range(q)
  BY <1>1, <1>2 DEF Range
<1>3. ASSUME NEW i \in 1..(Len(p) + Len(q)), i <= Len(p)
      PROVE  i \in 1..Len(p) /\ (p \o q)[i] \in Range(p)
  BY <1>1, <1>3 DEF Range
<1>4. ASSUME NEW i \in 1..(Len(p) + Len(q)), NEW j \in 1..(Len(p) + Len(q)), (p \o q)[i] = (p \o q)[j]
      PROVE  i = j
  <2>1. CASE i <= Len(p) /\ j <= Len(p)
    BY <1>1, <1>3, <1>4, <2>1 DEF IsInjective
  <2>2. CASE i > Len(p) /\ j > Len(p)
    <3>1. i - Len(p) = j - Len(p)
      BY <1>1, <1>2, <1>4, <2>2 DEF IsInjective
    <3> QED
      BY <1>1, <3>1
  <2>3. CASE (i <= Len(p) /\ j > Len(p)) \/ (i > Len(p) /\ j <= Len(p))
    BY <1>2, <1>3, <1>4, <2>3
  <2> QED
    BY <1>1, <2>1, <2>2, <2>3
<1>5. IsInjective(p \o q)
  BY <1>1, <1>4 DEF IsInjective
<1>6. Range(p \o q) \subseteq Range(p) \cup Range(q)
  BY <1>1, <1>2, <1>3 DEF Range
<1>7. ASSUME NEW i \in 1..Len(p)
      PROVE  p[i] \in Range(p \o q)
  BY <1>1 DEF Range
<1>8. ASSUME NEW i \in 1..Len(q)
      PROVE  q[i] \in Range(p \o q)
  <2>1. PICK k \in 1..(Len(p) + Len(q)) : k = i + Len(p)
    BY <1>1
  <2>2. k \in DOMAIN (p \o q) /\ (p \o q)[k] = q[i]
    BY <1>1, <2>1
  <2> QED
    BY <2>2 DEF Range
<1>9. Range(p) \cup Range(q) \subseteq Range(p \o q)
  <2>1. \A a \in Range(p) : \E i \in 1..Len(p) : a = p[i]
    BY <1>1 DEF Range
  <2>2. \A a \in Range(q) : \E i \in 1..Len(q) : a = q[i]
    BY <1>1 DEF Range
  <2> QED
    BY <1>7, <1>8, <2>1, <2>2
<1> QED
  BY <1>1, <1>5, <1>6, <1>9

\* The next block, and what it puts on the queue.
LEMMA NowOnQueue ==
  ASSUME PhpTypeOK, queue # <<>>
  PROVE  /\ Now \in queued /\ Now \in reached /\ Now \in Id
         /\ Tail(queue) \in Seq(Id) /\ IsInjective(Tail(queue))
         /\ Range(Tail(queue)) = queued \ {Now}
BY TailOf DEF PhpTypeOK, Now

LEMMA WokenIs ==
  ASSUME NEW state, Fits(blocks, Now)
  PROVE  /\ Woken(state) \in Seq(Id) /\ IsInjective(Woken(state))
         /\ Range(Woken(state)) = {s \in Successors(Now) : Wakes(s, state)}
<1> DEFINE next == blocks[Now].next
           one(i) == IF i \in DOMAIN next /\ Wakes(next[i], state) THEN <<next[i]>> ELSE <<>>
<1>1. DOMAIN next \in {{}, {1}, 1..2} /\ Successors(Now) = {next[i] : i \in DOMAIN next}
  BY DEF Fits, Successors, Range
<1>2. \A i \in DOMAIN next : next[i] \in Id
  BY DEF Fits, Range, Id
<1>3. ASSUME NEW i \in {1, 2}
      PROVE  /\ one(i) \in Seq(Id) /\ IsInjective(one(i))
             /\ \A e : e \in Range(one(i)) <=>
                        i \in DOMAIN next /\ Wakes(next[i], state) /\ e = next[i]
  <2>1. CASE i \in DOMAIN next /\ Wakes(next[i], state)
    <3> DEFINE s == next[i]
    <3>1. one(i) = <<s>> /\ s \in Id
      BY <1>2, <2>1
    <3>2. Range(<<s>>) = {s} /\ IsInjective(<<s>>)
      <4> HIDE DEF s
      <4> QED
        BY DEF Range, IsInjective
    <3> HIDE DEF one
    <3> QED
      BY <2>1, <3>1, <3>2
  <2>2. CASE ~ (i \in DOMAIN next /\ Wakes(next[i], state))
    <3>1. one(i) = <<>>
      BY <2>2
    <3>2. <<>> \in Seq(Id) /\ IsInjective(<<>>) /\ Range(<<>>) = {}
      BY DEF Range, IsInjective
    <3> HIDE DEF one
    <3> QED
      BY <2>2, <3>1, <3>2
  <2> QED
    BY <2>1, <2>2
<1>4. CASE DOMAIN next = 1..2 /\ next[1] = next[2]
  <2>1. Woken(state) = one(1)
    BY <1>4 DEF Woken
  <2>2. Range(one(1)) = {s \in Successors(Now) : Wakes(s, state)}
    <3> HIDE DEF one
    <3> QED
      BY <1>1, <1>3, <1>4
  <2> HIDE DEF one
  <2> QED
    BY <1>3, <2>1, <2>2
<1>5. CASE ~ (DOMAIN next = 1..2 /\ next[1] = next[2])
  <2>1. Woken(state) = one(1) \o one(2)
    BY <1>5 DEF Woken
  <2> HIDE DEF one
  <2>2. Range(one(1)) \cap Range(one(2)) = {}
    BY <1>1, <1>3, <1>5
  <2>3. Range(one(1)) \cup Range(one(2)) = {s \in Successors(Now) : Wakes(s, state)}
    BY <1>1, <1>3
  <2> QED
    BY <1>3, <2>1, <2>2, <2>3, ConcatOf
<1> QED
  BY <1>4, <1>5

-----------------------------------------------------------------------------
(* The steps.                                                              *)
LEMMA IdleInv == Idle => IInv
<1> SUFFICES ASSUME Idle PROVE IInv
  OBVIOUS
<1>1. Id = {} /\ states \in [Id -> State]
  BY DEF Idle, Id
<1>2. queue \in Seq(Id) /\ IsInjective(queue) /\ Range(queue) = {}
  BY DEF Idle, IsInjective, Range
<1>3. reached = {} /\ queued = {} /\ steps = 0
  BY DEF Idle
<1> QED
  BY <1>1, <1>2, <1>3, PhpBudgets DEF IInv, GraphFits, PhpTypeOK, ToldItsSuccessors, NothingInvented

LEMMA GivenInv == IInv /\ Given => IInv'
<1> SUFFICES ASSUME IInv, Given PROVE IInv'
  OBVIOUS
<1> DEFINE entry == Head(queue')
<1>1. /\ entry \in Id' /\ GraphFits'
      /\ states' = [b \in Id' |-> <<>>]
      /\ queue' = <<entry>> /\ reached' = {entry} /\ queued' = {entry} /\ steps' = 0
  BY Zenon DEF Given, WellFormed, Start, GraphFits, Id
<1> HIDE DEF entry
<1>2. states' \in [Id' -> State]
  BY <1>1, EmptyInState
<1>3. queue' \in Seq(Id') /\ IsInjective(queue') /\ Range(queue') = {entry}
  BY <1>1 DEF IsInjective, Range
<1>4. ToldItsSuccessors'
  BY <1>1 DEF ToldItsSuccessors
<1>5. NothingInvented'
  BY <1>1 DEF NothingInvented, Held
<1> QED
  BY <1>1, <1>2, <1>3, <1>4, <1>5, PhpBudgets DEF IInv, PhpTypeOK

LEMMA StopInv == Stop => IInv'
<1> SUFFICES ASSUME Stop PROVE IInv'
  OBVIOUS
<1>1. Id' = {} /\ states' \in [Id' -> State]
  BY DEF Stop, Id
<1>2. queue' \in Seq(Id') /\ IsInjective(queue') /\ Range(queue') = {}
  BY DEF Stop, IsInjective, Range
<1>3. reached' = {} /\ queued' = {} /\ steps' = 0
  BY DEF Stop
<1> QED
  BY <1>1, <1>2, <1>3, PhpBudgets DEF IInv, GraphFits, PhpTypeOK, ToldItsSuccessors, NothingInvented

LEMMA TransferInv == IInv /\ Transfer => IInv'
<1> SUFFICES ASSUME IInv, Transfer PROVE IInv'
  OBVIOUS
<1> DEFINE state == After(Now)
           woken == Woken(state)
<1>1. /\ queue # <<>> /\ ~ OverTransfers /\ blocks' = blocks /\ steps' = steps + 1
      /\ states' = [b \in Id |-> IF b \in Successors(Now) THEN Joined(states[b], state) ELSE states[b]]
      /\ reached' = reached \cup Successors(Now)
      /\ queued' = (queued \ {Now}) \cup Range(woken)
      /\ queue' = Tail(queue) \o woken
  BY DEF Transfer, Busy
<1>2. /\ Now \in queued /\ Now \in reached /\ Now \in Id
      /\ Tail(queue) \in Seq(Id) /\ IsInjective(Tail(queue)) /\ Range(Tail(queue)) = queued \ {Now}
  BY <1>1, NowOnQueue DEF IInv
<1>3. /\ states \in [Id -> State] /\ reached \subseteq Id /\ queued \subseteq reached
      /\ steps \in 0..MaxTransfers /\ \A b \in Id : Fits(blocks, b)
  BY DEF IInv, PhpTypeOK, GraphFits
<1>4. state \in State
  BY <1>2, <1>3, PassedInState DEF After
<1>5. /\ woken \in Seq(Id) /\ IsInjective(woken)
      /\ Range(woken) = {s \in Successors(Now) : Wakes(s, state)}
  BY <1>2, <1>3, WokenIs
<1>6. Successors(Now) \subseteq Id
  BY <1>2, <1>3 DEF Fits, Successors, Id
<1> HIDE DEF state, woken
<1>7. Id' = Id /\ GraphFits'
  <2>1. Id' = Id
    BY <1>1 DEF Id
  <2> QED
    BY <1>1, <1>3, <2>1 DEF GraphFits
<1>8. PhpTypeOK'
  <2>1. \A b \in Id : Joined(states[b], state) \in State /\ states[b] \in State
    BY <1>3, <1>4, JoinedInState
  <2>2. states' \in [Id' -> State]
    BY <1>1, <1>7, <2>1
  <2>3. reached' \subseteq Id' /\ queued' \subseteq reached'
    BY <1>1, <1>3, <1>5, <1>6, <1>7
  <2>4. steps' \in 0..MaxTransfers
    BY <1>1, <1>3, PhpBudgets DEF OverTransfers
  <2>5. (queued \ {Now}) \cap Range(woken) = {}
    BY <1>2, <1>5 DEF Wakes
  <2>6. queue' \in Seq(Id') /\ IsInjective(queue') /\ Range(queue') = queued'
    <3> DEFINE rest == Tail(queue)
    <3>1. rest \in Seq(Id) /\ IsInjective(rest) /\ Range(rest) = queued \ {Now} /\ queue' = rest \o woken
      BY <1>1, <1>2
    <3> HIDE DEF rest
    <3>2. /\ rest \o woken \in Seq(Id) /\ IsInjective(rest \o woken)
          /\ Range(rest \o woken) = Range(rest) \cup Range(woken)
      BY <1>5, <2>5, <3>1, ConcatOf
    <3> QED
      BY <1>1, <1>7, <3>1, <3>2, Zenon
  <2> QED
    BY <2>2, <2>3, <2>4, <2>6 DEF PhpTypeOK
<1>9. ASSUME NEW b \in Id, NEW n
      PROVE  Held(states'[b], n) = IF b \in Successors(Now) THEN Held(states[b], n) \cup Held(state, n)
                                  ELSE Held(states[b], n)
  <2>1. states'[b] = IF b \in Successors(Now) THEN Joined(states[b], state) ELSE states[b]
    BY <1>1
  <2>2. Held(Joined(states[b], state), n) = Held(states[b], n) \cup Held(state, n)
    BY HeldOfJoined
  <2> DEFINE after == states'[b]
  <2>3. after = IF b \in Successors(Now) THEN Joined(states[b], state) ELSE states[b]
    BY <2>1
  <2> HIDE DEF after
  <2>4. Held(after, n) = IF b \in Successors(Now) THEN Held(states[b], n) \cup Held(state, n)
                         ELSE Held(states[b], n)
    BY <2>2, <2>3
  <2> QED
    BY <2>4 DEF after
<1>10. ToldItsSuccessors'
  <2> SUFFICES ASSUME NEW b \in reached', b \notin queued', NEW s \in Successors(b)
               PROVE  /\ s \in reached'
                      /\ \A n \in Name : Held(Passed(b, states'[b]), n) \subseteq Held(states'[s], n)
    <3>1. ASSUME NEW b
          PROVE  Successors(b)' = Successors(b) /\ After(b)' = Passed(b, states'[b])
      BY <1>1 DEF Successors, After, Passed
    <3> QED
      BY <3>1 DEF ToldItsSuccessors
  <2>1. b \in reached /\ b \in Id /\ s \in Id
    <3>1. b \in Successors(Now) => b \in reached
      BY <1>1, <1>2, <1>3, <1>5 DEF Wakes, Changed
    <3> QED
      BY <1>1, <1>3, <3>1 DEF Fits, Successors, Id
  \* What arrives at a block that stays off the queue changes nothing there.
  <2>2. \A n \in Name : Held(states'[b], n) = Held(states[b], n)
    <3>1. CASE b \in Successors(Now)
      <4>1. ~ Changed(b, state)
        BY <1>1, <1>5, <3>1 DEF Wakes
      <4>2. \A n : Held(state, n) \subseteq Held(states[b], n)
        BY <4>1 DEF Changed, Held
      <4> QED
        BY <1>9, <2>1, <3>1, <4>2
    <3> QED
      BY <1>9, <2>1, <3>1
  <2>3. \A n \in Name : Held(Passed(b, states'[b]), n) \subseteq Held(After(b), n)
    BY <1>3, <2>1, <2>2, PassedMonotone DEF After
  <2>4. CASE b = Now
    <3>1. s \in reached'
      BY <1>1, <2>4
    <3>2. \A n \in Name : Held(state, n) \subseteq Held(states'[s], n)
      BY <1>9, <2>1, <2>4
    <3> QED
      BY <2>3, <2>4, <3>1, <3>2 DEF state
  <2>5. CASE b # Now
    <3>1. b \notin queued
      BY <1>1, <2>5
    <3>2. s \in reached /\ \A n \in Name : Held(After(b), n) \subseteq Held(states[s], n)
      BY <2>1, <3>1 DEF IInv, ToldItsSuccessors
    <3>3. \A n \in Name : Held(states[s], n) \subseteq Held(states'[s], n)
      BY <1>9, <2>1
    <3> QED
      BY <1>1, <2>3, <3>2, <3>3
  <2> QED
    BY <2>4, <2>5
<1>11. NothingInvented'
  <2> SUFFICES ASSUME NEW g \in [Id -> State], Solves(g)', NEW b \in Id, NEW n \in Name
               PROVE  Held(states'[b], n) \subseteq Held(g[b], n)
    BY <1>7 DEF NothingInvented
  <2>1. \A c \in reached' : \A s \in Successors(c) : \A m \in Name :
          Held(Passed(c, g[c]), m) \subseteq Held(g[s], m)
    BY <1>1 DEF Solves, Successors, Passed
  <2>2. \A c \in Id : \A m \in Name : Held(states[c], m) \subseteq Held(g[c], m)
    <3>1. Solves(g)
      BY <1>1, <2>1 DEF Solves
    <3> QED
      BY <3>1 DEF IInv, NothingInvented
  <2>3. \A m \in Name : Held(state, m) \subseteq Held(Passed(Now, g[Now]), m)
    BY <1>2, <1>3, <2>2, PassedMonotone DEF After, state
  <2>4. b \in Successors(Now) => Held(state, n) \subseteq Held(g[b], n)
    <3>1. Now \in reached'
      BY <1>1, <1>2
    <3> QED
      BY <2>1, <2>3, <3>1
  <2> QED
    BY <1>9, <2>2, <2>4
<1> QED
  BY <1>7, <1>8, <1>10, <1>11 DEF IInv

LEMMA InvInductive == IInv /\ [SolverNext]_solverVars => IInv'
<1> SUFFICES ASSUME IInv, [SolverNext]_solverVars PROVE IInv'
  OBVIOUS
<1>1. CASE UNCHANGED solverVars
  <2>1. /\ blocks' = blocks /\ states' = states /\ queue' = queue /\ reached' = reached
        /\ queued' = queued /\ steps' = steps
    BY <1>1 DEF solverVars
  <2>2. Id' = Id /\ GraphFits'
    BY <2>1 DEF IInv, GraphFits, Id
  <2>3. PhpTypeOK'
    BY <2>1, <2>2 DEF IInv, PhpTypeOK
  <2>4. ASSUME NEW b
        PROVE  Successors(b)' = Successors(b) /\ After(b)' = After(b)
    BY <2>1 DEF Successors, After, Passed
  <2>5. ToldItsSuccessors'
    BY <2>1, <2>4 DEF IInv, ToldItsSuccessors
  <2>6. ASSUME NEW g
        PROVE  Solves(g)' <=> Solves(g)
    BY <2>1 DEF Solves, Successors, Passed
  <2>7. NothingInvented'
    BY <2>1, <2>2, <2>6 DEF IInv, NothingInvented
  <2> QED
    BY <2>2, <2>3, <2>5, <2>7 DEF IInv
<1> QED
  BY <1>1, GivenInv, TransferInv, StopInv DEF SolverNext

-----------------------------------------------------------------------------
(***************************************************************************)
(* The inductive invariant, for every sequence of graphs the solver is     *)
(* given (php.rs, solve).                                                  *)
(***************************************************************************)
THEOREM IInvCorrect == SolverSpec => []IInv
<1>1. SolverSpec => Idle /\ [][SolverNext]_solverVars
  BY DEF SolverSpec
<1> QED
  BY <1>1, IdleInv, InvInductive, PTL

(***************************************************************************)
(* Every state is a state, the queue repeats no block and the flags name   *)
(* just what it holds: a block is never queued twice, and never left       *)
(* unqueued with its flag set (php.rs, solve).                             *)
(***************************************************************************)
THEOREM TypeCorrect == SolverSpec => []PhpTypeOK
<1>1. IInv => PhpTypeOK
  BY DEF IInv
<1> QED
  BY <1>1, IInvCorrect, PTL

(***************************************************************************)
(* No change is forgotten, for every graph, in the order of the queue      *)
(* (php.rs, solve).                                                        *)
(***************************************************************************)
THEOREM ToldCorrect == SolverSpec => []ToldItsSuccessors
<1>1. IInv => ToldItsSuccessors
  BY DEF IInv
<1> QED
  BY <1>1, IInvCorrect, PTL

(***************************************************************************)
(* When its queue is empty the solver has found the least solution of the  *)
(* equations of the reached blocks: all that may arrive and nothing else   *)
(* (php.rs, solve).                                                        *)
(***************************************************************************)
LeastWhenDone == queue = <<>> => Solves(states) /\ NothingInvented

THEOREM LeastSolutionFound == SolverSpec => []LeastWhenDone
<1>1. IInv => LeastWhenDone
  <2> SUFFICES ASSUME IInv, queue = <<>> PROVE Solves(states) /\ NothingInvented
    BY DEF LeastWhenDone
  <2>1. queued = {}
    BY DEF IInv, PhpTypeOK, Range
  <2> QED
    BY <2>1 DEF IInv, ToldItsSuccessors, Solves, After
<1> QED
  BY <1>1, IInvCorrect, PTL
-----------------------------------------------------------------------------
(***************************************************************************)
(* Runs: a function is entered with no request data in any local, and goes *)
(* from block to block, each with what the one before makes of the state.  *)
(***************************************************************************)
Run(entry, w) ==
  /\ w \in Seq(Id \X State) /\ w # <<>>
  /\ w[1] = <<entry, <<>>>>
  /\ \A i \in 1..(Len(w) - 1) :
       w[i+1][1] \in Successors(w[i][1]) /\ w[i+1][2] = Passed(w[i][1], w[i][2])

Arrives(entry, b, state) == \E w \in Seq(Id \X State) : Run(entry, w) /\ w[Len(w)] = <<b, state>>

Arriving(entry, b) == {state \in State : Arrives(entry, b, state)}

\* What the solver has found so far, some run brings.
RunsBringIt(entry) ==
  blocks # <<>> =>
    /\ entry \in reached
    /\ \A b \in reached : Arriving(entry, b) # {}
    /\ \A b \in Id : \A n \in Name :
         Held(states[b], n) \subseteq UNION {Held(state, n) : state \in Arriving(entry, b)}

LEMMA RunEnters ==
  ASSUME NEW entry \in Id
  PROVE  <<>> \in Arriving(entry, entry)
<1> DEFINE w == <<<<entry, <<>>>>>>
<1>1. w \in Seq(Id \X State) /\ w # <<>> /\ Len(w) = 1 /\ w[1] = <<entry, <<>>>>
  BY EmptyInState
<1> HIDE DEF w
<1>2. Run(entry, w)
  BY <1>1 DEF Run
<1> QED
  BY <1>1, <1>2, EmptyInState DEF Arriving, Arrives

LEMMA RunGoesOn ==
  ASSUME GraphFits, NEW entry, NEW b \in Id, NEW state \in Arriving(entry, b), NEW s \in Successors(b)
  PROVE  s \in Id /\ Passed(b, state) \in Arriving(entry, s)
<1>1. PICK w \in Seq(Id \X State) : Run(entry, w) /\ w[Len(w)] = <<b, state>>
  BY DEF Arriving, Arrives
<1>2. s \in Id
  BY DEF GraphFits, Fits, Successors, Id
<1>3. Passed(b, state) \in State
  BY PassedInState DEF GraphFits, Arriving
<1> DEFINE next == Passed(b, state)
           v == Append(w, <<s, next>>)
<1> HIDE DEF next
<1>4. /\ v \in Seq(Id \X State) /\ Len(v) = Len(w) + 1 /\ Len(w) \in Nat \ {0} /\ v # <<>>
      /\ v[Len(w) + 1] = <<s, next>> /\ \A i \in 1..Len(w) : v[i] = w[i]
  BY <1>1, <1>2, <1>3 DEF Run, next
<1> HIDE DEF v
<1>5. ASSUME NEW i \in 1..(Len(v) - 1)
      PROVE  v[i+1][1] \in Successors(v[i][1]) /\ v[i+1][2] = Passed(v[i][1], v[i][2])
  <2>1. CASE i = Len(w)
    BY <1>1, <1>4, <2>1 DEF next
  <2>2. CASE i # Len(w)
    <3>1. i \in 1..(Len(w) - 1) /\ v[i] = w[i] /\ v[i+1] = w[i+1]
      BY <1>4, <2>2
    <3> QED
      BY <1>1, <3>1 DEF Run
  <2> QED
    BY <2>1, <2>2
<1>6. Run(entry, v)
  BY <1>1, <1>4, <1>5 DEF Run
<1> QED
  BY <1>2, <1>3, <1>4, <1>6 DEF Arriving, Arrives, next

\* A state that holds at most what one or another of some states holds is passed
\* on as at most what one or another of them is passed on as.
LEMMA PassedOfUnion ==
  ASSUME NEW b \in Id, Fits(blocks, b), NEW state, NEW Some, Some # {},
         \A n \in Name : Held(state, n) \subseteq UNION {Held(one, n) : one \in Some}
  PROVE  \A n \in Name : Held(Passed(b, state), n) \subseteq UNION {Held(Passed(b, one), n) : one \in Some}
<1>1. CASE blocks[b].op.op = "assign"
  <2> DEFINE op == blocks[b].op
  <2>1. \A c \in op.expr.copied : c[1] \in Name
    BY <1>1 DEF Fits
  <2>2. \A any : Passed(b, any) = Assigned(any, op.name, Eval(op.expr, any))
    BY <1>1 DEF Passed
  <2> HIDE DEF op
  <2>3. \A any, n : Held(Passed(b, any), n) = IF n = op.name THEN Eval(op.expr, any) ELSE Held(any, n)
    BY <2>2, HeldOfAssigned
  <2>4. ASSUME NEW f \in Eval(op.expr, state)
        PROVE  \E one \in Some : f \in Eval(op.expr, one)
    BY <2>1, <2>4, InEval
  <2> QED
    BY <2>3, <2>4
<1>2. CASE blocks[b].op.op # "assign"
  BY <1>2 DEF Passed
<1> QED
  BY <1>1, <1>2

\* Whatever the graph, a run enters it: so also the graph of the next state.
RunsEnter == \A entry \in Id : <<>> \in Arriving(entry, entry)

LEMMA RunsEnterAny == RunsEnter
BY RunEnters DEF RunsEnter

LEMMA RunsEnterNext == RunsEnter'
BY RunsEnterAny, PTL

LEMMA GivenRuns ==
  ASSUME NEW CONSTANT entry, Given, Head(queue') = entry
  PROVE  RunsBringIt(entry)'
<1>1. entry \in Id' /\ states' = [b \in Id' |-> <<>>] /\ reached' = {entry}
  BY Zenon DEF Given, WellFormed, Start, Id
<1>2. Arriving(entry, entry)' # {}
  BY <1>1, RunsEnterNext DEF RunsEnter
<1> QED
  BY <1>1, <1>2 DEF RunsBringIt, Held

LEMMA TransferRuns ==
  ASSUME NEW CONSTANT entry, IInv, RunsBringIt(entry), Transfer
  PROVE  RunsBringIt(entry)'
<1> DEFINE state == After(Now)
<1>1. /\ blocks # <<>> /\ queue # <<>> /\ blocks' = blocks
      /\ states' = [b \in Id |-> IF b \in Successors(Now) THEN Joined(states[b], state) ELSE states[b]]
      /\ reached' = reached \cup Successors(Now)
  BY DEF Transfer, Busy
<1>2. Now \in reached /\ Now \in Id /\ GraphFits /\ Fits(blocks, Now) /\ reached \subseteq Id
  BY <1>1, NowOnQueue DEF IInv, GraphFits, PhpTypeOK
<1>3. /\ entry \in reached /\ \A b \in reached : Arriving(entry, b) # {}
      /\ \A b \in Id : \A n \in Name :
           Held(states[b], n) \subseteq UNION {Held(one, n) : one \in Arriving(entry, b)}
  BY <1>1 DEF RunsBringIt
<1>4. Id' = Id /\ \A b : Arriving(entry, b)' = Arriving(entry, b)
  BY <1>1 DEF Id, Arriving, Arrives, Run, Successors, Passed
<1>5. \A n \in Name : Held(state, n) \subseteq UNION {Held(Passed(Now, one), n) : one \in Arriving(entry, Now)}
  BY <1>2, <1>3, PassedOfUnion DEF After
<1>6. \A s \in Successors(Now), one \in Arriving(entry, Now) : s \in Id /\ Passed(Now, one) \in Arriving(entry, s)
  BY <1>2, RunGoesOn
<1> HIDE DEF state
<1>7. \A b \in reached' : Arriving(entry, b) # {}
  BY <1>1, <1>2, <1>3, <1>6
<1>8. ASSUME NEW b \in Id, NEW n \in Name
      PROVE  Held(states'[b], n) \subseteq UNION {Held(one, n) : one \in Arriving(entry, b)}
  <2>1. CASE b \in Successors(Now)
    <3>1. states'[b] = Joined(states[b], state)
      BY <1>1, <2>1
    <3>2. Held(Joined(states[b], state), n) = Held(states[b], n) \cup Held(state, n)
      BY HeldOfJoined
    <3>3. Held(states[b], n) \subseteq UNION {Held(one, n) : one \in Arriving(entry, b)}
      BY <1>3
    <3>4. ASSUME NEW f \in Held(state, n)
          PROVE  \E one \in Arriving(entry, b) : f \in Held(one, n)
      <4>1. PICK one \in Arriving(entry, Now) : f \in Held(Passed(Now, one), n)
        BY <1>5
      <4> QED
        BY <1>6, <2>1, <4>1
    <3> QED
      BY <3>1, <3>2, <3>3, <3>4
  <2>2. CASE b \notin Successors(Now)
    BY <1>1, <1>3, <2>2
  <2> QED
    BY <2>1, <2>2
<1>9. entry \in reached'
  BY <1>1, <1>3
<1>10. \A b \in reached' : Arriving(entry, b)' # {}
  BY <1>4, <1>7
<1>11. ASSUME NEW b \in Id', NEW n \in Name
       PROVE  Held(states[b], n)' \subseteq UNION {Held(one, n) : one \in Arriving(entry, b)'}
  <2>1. b \in Id /\ Arriving(entry, b)' = Arriving(entry, b)
    BY <1>4
  <2>2. Held(states'[b], n) \subseteq UNION {Held(one, n) : one \in Arriving(entry, b)}
    BY <1>8, <2>1
  <2> QED
    BY <2>1, <2>2
<1> QED
  BY <1>9, <1>10, <1>11 DEF RunsBringIt

\* Conversely, what a run brings the solver has, once every block has told its
\* successors what it knows.
LEMMA RunsAreCovered ==
  ASSUME IInv, queue = <<>>, NEW entry \in reached, NEW b, NEW state \in Arriving(entry, b)
  PROVE  b \in reached /\ \A n \in Name : Held(state, n) \subseteq Held(states[b], n)
<1> DEFINE Covered(at) == at[1] \in reached /\ \A n \in Name : Held(at[2], n) \subseteq Held(states[at[1]], n)
<1>1. queued = {} /\ reached \subseteq Id /\ GraphFits
  BY DEF IInv, PhpTypeOK, Range
<1>2. PICK w \in Seq(Id \X State) : Run(entry, w) /\ w[Len(w)] = <<b, state>>
  BY DEF Arriving, Arrives
<1>3. /\ Len(w) \in Nat \ {0} /\ w[1] = <<entry, <<>>>>
      /\ \A i \in 1..(Len(w) - 1) :
           w[i+1][1] \in Successors(w[i][1]) /\ w[i+1][2] = Passed(w[i][1], w[i][2])
  <2>1. w # <<>>
    BY <1>2, Zenon DEF Run
  <2>2. Len(w) \in Nat \ {0}
    BY <2>1
  <2> QED
    BY <1>2, <2>2, Zenon DEF Run
<1>4. Covered(w[1])
  BY <1>3 DEF Held
<1>5. ASSUME NEW i \in 1..(Len(w) - 1), Covered(w[i])
      PROVE  Covered(w[i+1])
  <2> DEFINE c == w[i][1]  s == w[i+1][1]  less == w[i][2]
  <2>1. /\ c \in reached /\ s \in Successors(c) /\ w[i+1][2] = Passed(c, less)
        /\ \A n \in Name : Held(less, n) \subseteq Held(states[c], n)
    BY <1>3, <1>5
  <2> HIDE DEF c, s, less
  <2>2. \A n \in Name : Held(Passed(c, less), n) \subseteq Held(Passed(c, states[c]), n)
    BY <1>1, <2>1, PassedMonotone DEF GraphFits
  <2>3. s \in reached /\ \A n \in Name : Held(Passed(c, states[c]), n) \subseteq Held(states[s], n)
    BY <1>1, <2>1 DEF IInv, ToldItsSuccessors, After
  <2>4. s \in reached /\ \A n \in Name : Held(w[i+1][2], n) \subseteq Held(states[s], n)
    BY <2>1, <2>2, <2>3
  <2> QED
    BY <2>4 DEF s
<1> DEFINE T == {k \in 0..(Len(w) - 1) : Covered(w[k+1])}
<1>6. 0 \in T /\ \A k \in 0..((Len(w) - 1) - 1) : k \in T => k + 1 \in T
  <2> HIDE DEF Covered
  <2>1. 0 \in T
    BY <1>3, <1>4
  <2>2. ASSUME NEW k \in 0..((Len(w) - 1) - 1), k \in T
        PROVE  k + 1 \in T
    <3>1. k + 1 \in 1..(Len(w) - 1) /\ Covered(w[k+1])
      BY <1>3, <2>2
    <3> QED
      BY <1>3, <1>5, <3>1
  <2> QED
    BY <2>1, <2>2
<1> HIDE DEF T
<1>7. Len(w) - 1 \in T
  <2>1. Len(w) - 1 \in Nat
    BY <1>3
  <2>2. 0..(Len(w) - 1) \subseteq T
    BY <1>6, <2>1, UpTo
  <2> QED
    BY <2>1, <2>2
<1>8. Covered(w[Len(w)])
  <2> HIDE DEF Covered
  <2> QED
    BY <1>3, <1>7 DEF T
<1> QED
  BY <1>2, <1>8
(***************************************************************************)
(* When its queue is empty the solver has reached the blocks that runs     *)
(* from the entry come to, and an expression evaluates in a block's state  *)
(* to what it evaluates to in one or another of the states that runs       *)
(* arrive with: a sink sees the data of some path, and those of all of     *)
(* them ("may-flow", php.rs, solve).  The entry is a parameter of solve;   *)
(* that it is the same for all graphs of a behaviour loses nothing, since  *)
(* blocks may be numbered as one likes.                                    *)
(***************************************************************************)
SolvedIsRun(entry) ==
  queue = <<>> /\ blocks # <<>> =>
    \A b \in Id :
      /\ b \in reached <=> Arriving(entry, b) # {}
      /\ b \in reached => \A expr \in Expr :
           Eval(expr, states[b]) = UNION {Eval(expr, state) : state \in Arriving(entry, b)}

THEOREM SolvedIsRunCorrect ==
  ASSUME NEW CONSTANT entry
  PROVE  SolverSpec /\ [][Given => Head(queue') = entry]_solverVars => []SolvedIsRun(entry)
<1>1. Idle => RunsBringIt(entry)
  BY DEF Idle, RunsBringIt
<1>2. IInv /\ RunsBringIt(entry) /\ [SolverNext]_solverVars /\ [Given => Head(queue') = entry]_solverVars
        => RunsBringIt(entry)'
  <2> SUFFICES ASSUME IInv, RunsBringIt(entry), [SolverNext]_solverVars,
                      [Given => Head(queue') = entry]_solverVars
               PROVE  RunsBringIt(entry)'
    OBVIOUS
  <2>1. CASE UNCHANGED solverVars
    <3>1. blocks' = blocks /\ states' = states /\ reached' = reached
      BY <2>1 DEF solverVars
    <3>2. \A b : Arriving(entry, b)' = Arriving(entry, b)
      BY <3>1 DEF Arriving, Arrives, Run, Successors, Passed, Id
    <3> QED
      BY <3>1, <3>2 DEF RunsBringIt, Id
  <2>2. CASE ~ UNCHANGED solverVars /\ Given
    BY <2>2, GivenRuns
  <2>3. CASE Transfer
    BY <2>3, TransferRuns
  <2>4. CASE Stop
    BY <2>4 DEF Stop, RunsBringIt
  <2> QED
    BY <2>1, <2>2, <2>3, <2>4 DEF SolverNext
<1>3. IInv /\ RunsBringIt(entry) => SolvedIsRun(entry)
  <2> SUFFICES ASSUME IInv, RunsBringIt(entry), queue = <<>>, blocks # <<>>, NEW b \in Id
               PROVE  /\ b \in reached <=> Arriving(entry, b) # {}
                      /\ b \in reached => \A expr \in Expr :
                           Eval(expr, states[b]) = UNION {Eval(expr, state) : state \in Arriving(entry, b)}
    BY DEF SolvedIsRun
  <2>1. /\ entry \in reached /\ (b \in reached => Arriving(entry, b) # {})
        /\ \A n \in Name : Held(states[b], n) \subseteq UNION {Held(one, n) : one \in Arriving(entry, b)}
    BY DEF RunsBringIt
  <2>2. \A one \in Arriving(entry, b) : b \in reached /\ \A n \in Name : Held(one, n) \subseteq Held(states[b], n)
    BY <2>1, RunsAreCovered
  <2>3. ASSUME NEW expr \in Expr, b \in reached
        PROVE  Eval(expr, states[b]) = UNION {Eval(expr, one) : one \in Arriving(entry, b)}
    <3>1. \A c \in expr.copied : c[1] \in Name
      BY DEF Expr
    <3>2. ASSUME NEW f \in Eval(expr, states[b])
          PROVE  \E one \in Arriving(entry, b) : f \in Eval(expr, one)
      BY <2>1, <2>3, <3>1, <3>2, InEval
    <3>3. ASSUME NEW one \in Arriving(entry, b), NEW f \in Eval(expr, one)
          PROVE  f \in Eval(expr, states[b])
      BY <2>2, <3>1, <3>3, InEval
    <3> QED
      BY <3>2, <3>3
  <2> QED
    BY <2>1, <2>2, <2>3
<1> QED
  BY <1>1, <1>2, <1>3, IInvCorrect, PTL DEF SolverSpec
=============================================================================
