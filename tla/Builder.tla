------------------------------- MODULE Builder ------------------------------
(***************************************************************************)
(* The builder of control-flow graphs (crates/pons-core/src/cfg/builder.rs)*)
(* on one function.  The code recurses over the syntax tree; here `todo'   *)
(* is its call stack: what is still to be done, innermost first.  An       *)
(* action is the code of one method between two of its calls of block().   *)
(*                                                                         *)
(* Blocks are numbered from 0 as in the code: block b is blocks[b + 1].    *)
(***************************************************************************)
EXTENDS Syntax

CONSTANT Programs   \* the functions that may be lowered

ASSUME ProgramsAssumption == Programs \subseteq Function

VARIABLES
  blocks,    \* its blocks so far: events and succs
  cur,       \* the block under construction
  frames,    \* what a jump has to pass on its way out, innermost last
  raiseTo,   \* where an exception raised here goes
  seenDefs,  \* the locals with a definition already emitted
  inWith,    \* in_with_body
  todo

builderVars == <<prog, blocks, cur, frames, raiseTo, seenDefs, inWith, todo>>

ENTRY == 0
EXIT  == 1

Built == todo = <<>>

-----------------------------------------------------------------------------
(* Events: the methods event, use_ and def, for all the operations of a    *)
(* statement's header or of one of its arms.                               *)

IsDef(o) == o.op \in {"store", "bind"}

\* Does a definition by operation i come after an earlier one, inside a with?
Weakened(ops, i) ==
  inWith /\ \/ ops[i].name \in seenDefs
            \/ \E j \in 1..(i-1) : IsDef(ops[j]) /\ ops[j].name = ops[i].name

KindOf(ops, i) ==
  CASE ops[i].op \in {"read", "mention", "capture"} -> "Use"
    [] ops[i].op = "walrus" \/ (IsDef(ops[i]) /\ Weakened(ops, i)) -> "WeakDef"
    [] ops[i].op = "del" -> "Kill"
    [] OTHER -> "Def"

\* A read is checkable, a definition may be reported.
Flagged(ops, i) ==
  \/ ops[i].op = "read"
  \/ ops[i].op = "store" /\ KindOf(ops, i) = "Def" /\ ops[i].name \notin Captured

EventsOf(node, arm) ==
  LET ops == OpsOf(node, arm)
  IN  [i \in DOMAIN ops |-> [kind |-> KindOf(ops, i), local |-> ops[i].name,
                             loc |-> Place(node, arm, i), flag |-> Flagged(ops, i)]]

DefinedBy(node, arm) ==
  LET ops == OpsOf(node, arm)
  IN  {ops[i].name : i \in {j \in DOMAIN ops : IsDef(ops[j])}}

\* Mutant: the name stays bound.
KillsOfNone(node, arm) == <<>>

\* Python deletes the name an except clause binds when the handler exits.
KillsOf(node, arm) ==
  IF arm = 0 THEN <<>>
  ELSE LET alias == prog.code[node].arms[arm].alias
       IN  [i \in DOMAIN alias |-> [kind |-> "Kill", local |-> alias[i],
                                    loc |-> Place(node, arm, 0), flag |-> FALSE]]

-----------------------------------------------------------------------------
(* Graph plumbing.                                                         *)

NoStmts == [events |-> <<>>, succs |-> {}]

\* The new block's number is Len(bs).
New(bs) == Append(bs, NoStmts)

Edges(bs, from, targets) == [bs EXCEPT ![from + 1].succs = @ \cup targets]
Edge(bs, from, to)       == Edges(bs, from, {to})
Fork(bs, from)           == New(Edge(bs, from, Len(bs)))
Emit(bs, b, evs)         == [bs EXCEPT ![b + 1].events = @ \o evs]

InTryRegion == raiseTo # {EXIT}

Raised(bs, from) == IF InTryRegion THEN Edges(bs, from, raiseTo) ELSE bs

Top  == Head(todo)
Do(item) == ~ Built /\ Top.do = item

\* The call returns to its caller, or makes other calls before that.
Return          == todo' = Tail(todo)
Continue(items) == todo' = items \o Tail(todo)

Statements(stmts) == [do |-> "block", stmts |-> stmts]
JoinAt(b)         == [do |-> "join", to |-> b]

-----------------------------------------------------------------------------
Init ==
  /\ prog \in Programs
  /\ blocks = <<NoStmts, NoStmts>>
  /\ cur = ENTRY
  /\ frames = <<>>
  /\ raiseTo = {EXIT}
  /\ seenDefs = {}
  /\ inWith = FALSE
  /\ todo = <<Statements(prog.body), JoinAt(EXIT)>>

\* Mutant: the block before a statement does not raise.
BeforeStatementQuiet ==
  IF InTryRegion THEN Fork(blocks, cur) ELSE blocks

\* In a try region an exception may leave before each statement.
BeforeStatement ==
  IF InTryRegion THEN Fork(Edges(blocks, cur, raiseTo), cur) ELSE blocks

Block ==
  /\ Do("block")
  /\ IF Top.stmts = <<>> THEN Return /\ UNCHANGED <<blocks, cur>>
     ELSE /\ blocks' = BeforeStatement
          /\ cur' = IF InTryRegion THEN Len(blocks) ELSE cur
          /\ Continue(<<[do |-> "stmt", node |-> Head(Top.stmts)], Statements(Tail(Top.stmts))>>)
  /\ UNCHANGED <<prog, frames, raiseTo, seenDefs, inWith>>

Join ==
  /\ Do("join")
  /\ blocks' = Edge(blocks, cur, Top.to)
  /\ cur' = Top.to
  /\ Return
  /\ UNCHANGED <<prog, frames, raiseTo, seenDefs, inWith>>

\* The next thing to do is a statement of one of these kinds.
At(kinds) == Do("stmt") /\ prog.code[Top.node].kind \in kinds
Now       == prog.code[Top.node]

Simple ==
  /\ At({"simple"})
  /\ blocks' = Emit(blocks, cur, EventsOf(Top.node, 0))
  /\ seenDefs' = seenDefs \cup DefinedBy(Top.node, 0)
  /\ Return
  /\ UNCHANGED <<prog, cur, frames, raiseTo, inWith>>

Raise ==
  /\ At({"raise"})
  /\ blocks' = New(Edges(Emit(blocks, cur, EventsOf(Top.node, 0)), cur, raiseTo))
  /\ cur' = Len(blocks)
  /\ seenDefs' = seenDefs \cup DefinedBy(Top.node, 0)
  /\ Return
  /\ UNCHANGED <<prog, frames, raiseTo, inWith>>

-----------------------------------------------------------------------------
(* return, break and continue: run every finally between here and the      *)
(* destination, innermost first, each as its own copy of the finally body. *)

Jump ==
  /\ At({"return", "break", "continue"})
  /\ blocks' = Emit(blocks, cur, EventsOf(Top.node, 0))
  /\ seenDefs' = seenDefs \cup DefinedBy(Top.node, 0)
  /\ Continue(<<[do |-> "jump", kind |-> Now.kind, passed |-> Len(frames)]>>)
  /\ UNCHANGED <<prog, cur, frames, raiseTo, inWith>>

\* The jump has still to pass frames 1..Top.passed.
Passing == frames[Top.passed]

LandIn(dest) ==
  /\ blocks' = New(Edge(blocks, cur, dest))
  /\ cur' = Len(blocks)
  /\ Return
  /\ UNCHANGED <<prog, frames, raiseTo, seenDefs, inWith>>

LeaveFunction == Do("jump") /\ Top.passed = 0 /\ LandIn(EXIT)

\* Mutant: break and continue are mixed up.
LandingSwapped(kind, loop) == IF kind = "continue" THEN loop.brk ELSE loop.cont

Landing(kind, loop) == IF kind = "break" THEN loop.brk ELSE loop.cont

LandInLoop ==
  /\ Do("jump") /\ Top.passed # 0 /\ Top.kind # "return" /\ Passing.frame = "loop"
  /\ LandIn(Landing(Top.kind, Passing))

ReturnFromLoop ==
  /\ Do("jump") /\ Top.passed # 0 /\ Top.kind = "return" /\ Passing.frame = "loop"
  /\ Continue(<<[Top EXCEPT !.passed = @ - 1]>>)
  /\ UNCHANGED <<prog, blocks, cur, frames, raiseTo, seenDefs, inWith>>

\* The frames that a jump in the body of frame k has to pass.
FramesOutside(k) == SubSeq(frames, 1, k - 1)

RunFinally ==
  /\ Do("jump") /\ Top.passed # 0 /\ Passing.frame = "finally"
  /\ frames' = FramesOutside(Top.passed)
  /\ raiseTo' = Passing.outerRaise
  /\ blocks' = Fork(blocks, cur)
  /\ cur' = Len(blocks)
  /\ Continue(<<Statements(Passing.body),
                [do |-> "restore", tail |-> SubSeq(frames, Top.passed, Len(frames)), saved |-> raiseTo],
                [Top EXCEPT !.passed = @ - 1]>>)
  /\ UNCHANGED <<prog, seenDefs, inWith>>

Restore ==
  /\ Do("restore")
  /\ raiseTo' = Top.saved
  /\ frames' = frames \o Top.tail
  /\ Return
  /\ UNCHANGED <<prog, blocks, cur, seenDefs, inWith>>

-----------------------------------------------------------------------------
(* if, elif and else.  The item "if" stands for the code after the body of *)
(* alternative k (0 is the consequence); `fork' is the last condition.     *)

If ==
  /\ At({"if"})
  /\ LET after == Len(blocks)
         body  == after + 1
     IN  /\ blocks' = Fork(Emit(New(blocks), cur, EventsOf(Top.node, 0)), cur)
         /\ cur' = body
         /\ Continue(<<Statements(Now.body),
                       [do |-> "if", node |-> Top.node, k |-> 0, fork |-> cur, after |-> after]>>)
  /\ seenDefs' = seenDefs \cup DefinedBy(Top.node, 0)
  /\ UNCHANGED <<prog, frames, raiseTo, inWith>>

Elif ==
  /\ Do("if") /\ Top.k < Len(Now.arms)
  /\ LET k    == Top.k + 1
         head == Len(blocks)
         body == head + 1
     IN  /\ blocks' = Fork(Emit(Fork(Edge(blocks, cur, Top.after), Top.fork),
                                head, EventsOf(Top.node, k)), head)
         /\ cur' = body
         /\ Continue(<<Statements(Now.arms[k].body), [Top EXCEPT !.k = k, !.fork = head]>>)
         /\ seenDefs' = seenDefs \cup DefinedBy(Top.node, k)
  /\ UNCHANGED <<prog, frames, raiseTo, inWith>>

Else ==
  /\ Do("if") /\ Top.k = Len(Now.arms) /\ Now.orelse # <<>>
  /\ blocks' = Fork(Edge(blocks, cur, Top.after), Top.fork)
  /\ cur' = Len(blocks)
  /\ Continue(<<Statements(Now.orelse), JoinAt(Top.after)>>)
  /\ UNCHANGED <<prog, frames, raiseTo, seenDefs, inWith>>

NoElse ==
  /\ Do("if") /\ Top.k = Len(Now.arms) /\ Now.orelse = <<>>
  /\ blocks' = Edge(Edge(blocks, cur, Top.after), Top.fork, Top.after)
  /\ cur' = Top.after
  /\ Return
  /\ UNCHANGED <<prog, frames, raiseTo, seenDefs, inWith>>

-----------------------------------------------------------------------------
(* while and for.  The item "loop" stands for the code after the body.     *)

LoopFrame(brk, cont) == [frame |-> "loop", brk |-> brk, cont |-> cont]

While ==
  /\ At({"while"})
  /\ LET header == Len(blocks)
         after  == header + 1
         body   == header + 2
     IN  /\ blocks' = Fork(New(Emit(Fork(blocks, cur), header, EventsOf(Top.node, 0))), header)
         /\ cur' = body
         /\ frames' = Append(frames, LoopFrame(after, header))
         /\ Continue(<<Statements(Now.body),
                       [do |-> "loop", node |-> Top.node, again |-> header, iterate |-> header,
                        after |-> after]>>)
  /\ seenDefs' = seenDefs \cup DefinedBy(Top.node, 0)
  /\ UNCHANGED <<prog, raiseTo, inWith>>

(***************************************************************************)
(* The target is bound on the iterate edge, in a block of its own.  Over a *)
(* non-empty literal the body comes back to a block after the iteration    *)
(* and not to the header, so that the loop cannot be left before.          *)
(***************************************************************************)
For ==
  /\ At({"for"})
  /\ LET header  == Len(blocks)
         iterate == header + 1
         after   == header + 2
         again   == IF Now.sure THEN header + 3 ELSE header
         body    == IF Now.sure THEN header + 4 ELSE header + 3
         lowered == Emit(Fork(Fork(Emit(blocks, cur, EventsOf(Top.node, 0)), cur), header),
                         iterate, EventsOf(Top.node, 1))
     IN  /\ blocks' = Fork(IF Now.sure THEN New(New(lowered)) ELSE New(lowered), iterate)
         /\ cur' = body
         /\ frames' = Append(frames, LoopFrame(after, again))
         /\ Continue(<<Statements(Now.body),
                       [do |-> "loop", node |-> Top.node, again |-> again, iterate |-> iterate,
                        after |-> after]>>)
  /\ seenDefs' = seenDefs \cup DefinedBy(Top.node, 0) \cup DefinedBy(Top.node, 1)
  /\ UNCHANGED <<prog, raiseTo, inWith>>

\* A literal `while True' has no exit but a break; its else is never reached.
EndLoop ==
  /\ Do("loop")
  /\ LET back == Edge(blocks, cur, Top.again)
         loop == IF Now.kind = "for" /\ Now.sure THEN Edge(back, Top.again, Top.iterate) ELSE back
         forever == Now.kind = "while" /\ Now.sure
     IN  IF forever /\ Now.orelse = <<>>
         THEN /\ blocks' = back
              /\ cur' = Top.after
              /\ Return
         ELSE /\ blocks' = IF forever THEN New(back) ELSE Fork(loop, Top.again)
              /\ cur' = Len(blocks)
              /\ Continue(<<Statements(Now.orelse), JoinAt(Top.after)>>)
  /\ frames' = SubSeq(frames, 1, Len(frames) - 1)
  /\ UNCHANGED <<prog, raiseTo, seenDefs, inWith>>

-----------------------------------------------------------------------------
(* with and match.                                                         *)

With ==
  /\ At({"with"})
  /\ blocks' = Emit(blocks, cur, EventsOf(Top.node, 0))
  /\ seenDefs' = seenDefs \cup DefinedBy(Top.node, 0)
  /\ inWith' = TRUE
  /\ Continue(<<Statements(Now.body), [do |-> "with", outer |-> inWith]>>)
  /\ UNCHANGED <<prog, cur, frames, raiseTo>>

LeaveWith ==
  /\ Do("with")
  /\ inWith' = Top.outer
  /\ Return
  /\ UNCHANGED <<prog, blocks, cur, frames, raiseTo, seenDefs>>

Match ==
  /\ At({"match"})
  /\ blocks' = New(Emit(blocks, cur, EventsOf(Top.node, 0)))
  /\ seenDefs' = seenDefs \cup DefinedBy(Top.node, 0)
  /\ Continue(<<[do |-> "match", node |-> Top.node, k |-> 0, fork |-> cur, after |-> Len(blocks)]>>)
  /\ UNCHANGED <<prog, cur, frames, raiseTo, inWith>>

\* The arm before, if any, goes on after the match; every arm follows the subject.
Case ==
  /\ Do("match")
  /\ LET left == IF Top.k = 0 THEN blocks ELSE Edge(blocks, cur, Top.after)
         k    == Top.k + 1
     IN  IF Top.k < Len(Now.arms)
         THEN /\ blocks' = Emit(Fork(left, Top.fork), Len(blocks), EventsOf(Top.node, k))
              /\ cur' = Len(blocks)
              /\ seenDefs' = seenDefs \cup DefinedBy(Top.node, k)
              /\ Continue(<<Statements(Now.arms[k].body), [Top EXCEPT !.k = k]>>)
         ELSE /\ blocks' = IF Now.sure THEN left ELSE Edge(left, Top.fork, Top.after)
              /\ cur' = Top.after
              /\ Return
              /\ UNCHANGED seenDefs
  /\ UNCHANGED <<prog, frames, raiseTo, inWith>>

-----------------------------------------------------------------------------
(* try.  The items "body" and "handlers" stand for the code after the body *)
(* and after the else (k = 0) or the body of handler k; "finally" for the  *)
(* code after the normal copy of the finally, "reraise" for the code after *)
(* the exceptional one.                                                    *)

Try ==
  /\ At({"try"})
  /\ LET exc     == Len(blocks)   \* the exceptional copy of the finally, if there is one
         first   == IF Now.final = <<>> THEN exc ELSE exc + 1
         past    == IF Now.final = <<>> THEN raiseTo ELSE {exc}
         entry   == first + Len(Now.arms)
     IN  /\ blocks' = Edge(blocks \o [i \in 1..(entry + 1 - Len(blocks)) |-> NoStmts], cur, entry)
         /\ cur' = entry
         /\ frames' = IF Now.final = <<>> THEN frames
                      ELSE Append(frames, [frame |-> "finally", body |-> Now.final,
                                           outerRaise |-> raiseTo])
         /\ raiseTo' = (first .. entry - 1) \cup past
         /\ Continue(<<Statements(Now.body),
                       [do |-> "body", node |-> Top.node, first |-> first, past |-> past,
                        outer |-> raiseTo]>>)
  /\ UNCHANGED <<prog, seenDefs, inWith>>

EndBody ==
  /\ Do("body")
  /\ blocks' = Edges(blocks, cur, raiseTo)
  /\ raiseTo' = Top.past
  /\ Continue(<<Statements(Now.orelse),
                [do |-> "handlers", node |-> Top.node, first |-> Top.first, outer |-> Top.outer,
                 k |-> 0, ends |-> {}]>>)
  /\ UNCHANGED <<prog, cur, frames, seenDefs, inWith>>

\* The end of the else or of handler k: the alias goes, and only then may an exception leave.
EndOfPart(k) == Raised(Emit(blocks, cur, KillsOf(Top.node, k)), cur)

Handler ==
  /\ Do("handlers") /\ Top.k < Len(Now.arms)
  /\ LET k     == Top.k + 1
         entry == Top.first + Top.k
     IN  /\ blocks' = Emit(EndOfPart(Top.k), entry, EventsOf(Top.node, k))
         /\ cur' = entry
         /\ seenDefs' = seenDefs \cup DefinedBy(Top.node, k)
         /\ Continue(<<Statements(Now.arms[k].body),
                       [Top EXCEPT !.k = k, !.ends = @ \cup {cur}]>>)
  /\ UNCHANGED <<prog, frames, raiseTo, inWith>>

EndTry ==
  /\ Do("handlers") /\ Top.k = Len(Now.arms)
  /\ LET join == Len(blocks)
         ends == Top.ends \cup {cur}
         done == EndOfPart(Top.k)
     IN  /\ blocks' = New([i \in DOMAIN done |->
                             IF i - 1 \in ends THEN [done[i] EXCEPT !.succs = @ \cup {join}]
                             ELSE done[i]])
         /\ cur' = join
  /\ raiseTo' = Top.outer
  /\ IF Now.final = <<>>
     THEN Return /\ UNCHANGED frames
     ELSE /\ frames' = SubSeq(frames, 1, Len(frames) - 1)
          /\ Continue(<<Statements(Now.final),
                        [do |-> "finally", node |-> Top.node, exc |-> Top.first - 1]>>)
  /\ UNCHANGED <<prog, seenDefs, inWith>>

ExceptionalCopy ==
  /\ Do("finally")
  /\ cur' = Top.exc
  /\ Continue(<<Statements(Now.final), [do |-> "reraise", after |-> cur]>>)
  /\ UNCHANGED <<prog, blocks, frames, raiseTo, seenDefs, inWith>>

Reraise ==
  /\ Do("reraise")
  /\ blocks' = Edges(blocks, cur, raiseTo)
  /\ cur' = Top.after
  /\ Return
  /\ UNCHANGED <<prog, frames, raiseTo, seenDefs, inWith>>

Next ==
  \/ Block \/ Join \/ Simple \/ Raise
  \/ Jump \/ LeaveFunction \/ LandInLoop \/ ReturnFromLoop \/ RunFinally \/ Restore
  \/ If \/ Elif \/ Else \/ NoElse
  \/ While \/ For \/ EndLoop
  \/ With \/ LeaveWith \/ Match \/ Case
  \/ Try \/ EndBody \/ Handler \/ EndTry \/ ExceptionalCopy \/ Reraise

Spec == Init /\ [][Next]_builderVars
=============================================================================
