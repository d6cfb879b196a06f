------------------------------- MODULE Python -------------------------------
(***************************************************************************)
(* How Python runs a function, as the repository's rules and documents     *)
(* assume it: the language reference's statements, with an exception       *)
(* possible at every step of an expression, and conditions, iterators and  *)
(* patterns that may go either way.  No code of the repository is modelled *)
(* here; the builder's graphs are judged against it.                       *)
(*                                                                         *)
(* `stack' holds what is still to be run, innermost first.  While `mode'   *)
(* is not "run" the stack unwinds: a jump or an exception is on its way.   *)
(***************************************************************************)
EXTENDS Syntax

VARIABLES
  stack,
  mode,
  origin,      \* the identifier that stored a local's value; Unbound, or Parameter
  closures,    \* the locals that a closure created so far may read
  suppressed,  \* has a context manager swallowed an exception?
  abandoned,   \* the aliases of except clauses left by a jump or an exception
  base         \* is the name that guards ask for None?

runVars == <<stack, mode, origin, closures, suppressed, abandoned, base>>

Unbound   == <<>>
Parameter == <<0, 0, 0>>

Body(stmts)       == [at |-> "block", stmts |-> stmts]
Eval(node, arm)   == [at |-> "ops", node |-> node, arm |-> arm, i |-> 1]
InLoop(node)      == [at |-> "loop", node |-> node]
Fetch(node, fst)  == [at |-> "fetch", node |-> node, first |-> fst]
InTry(node, part, arm) == [at |-> "try", node |-> node, part |-> part, arm |-> arm]
InFinally(then)   == [at |-> "finally", then |-> then]
InWith            == [at |-> "with"]

Inner     == Head(stack)
Outer     == Tail(stack)
Running(at) == stack # <<>> /\ mode = "run" /\ Inner.at = at
Unwinding(at) == stack # <<>> /\ mode # "run" /\ Inner.at = at
Node_     == prog.code[Inner.node]

GoOn(items) == stack' = items \o Outer

\* The base matters to functions with a guard only.
Values == IF \E n \in Node : prog.code[n].guard # "" THEN {"none", "not-none"} ELSE {"none"}

RunInit ==
  /\ stack = <<Body(prog.body)>>
  /\ mode = "run"
  /\ origin = [x \in Local |-> IF x \in prog.params THEN Parameter ELSE Unbound]
  /\ closures = {}
  /\ suppressed = FALSE
  /\ abandoned = {}
  /\ base \in Values

-----------------------------------------------------------------------------
(* Expressions.                                                            *)

Ops     == OpsOf(Inner.node, Inner.arm)
Pending == Running("ops") /\ Inner.i <= Len(Ops)
Done    == Running("ops") /\ Inner.i > Len(Ops)
Op_     == Ops[Inner.i]

\* A read or a del of an unbound local raises.
Misses == Op_.op \in {"read", "del"} /\ origin[Op_.name] = Unbound

Operate ==
  /\ Pending /\ ~ Misses
  /\ GoOn(<<[Inner EXCEPT !.i = @ + 1]>>)
  /\ origin' = [origin EXCEPT ![Op_.name] =
                  CASE Op_.op \in {"store", "bind", "walrus"} -> Place(Inner.node, Inner.arm, Inner.i)
                    [] Op_.op = "del" -> Unbound
                    [] OTHER -> @]
  /\ closures' = IF Op_.op = "capture" THEN closures \cup {Op_.name} ELSE closures
  /\ UNCHANGED <<mode, suppressed, abandoned, base>>

\* Any expression, and fetching from any iterator, may raise.
Fail ==
  /\ \/ Running("ops") /\ Node_.kind \notin {"break", "continue", "try"}
     \/ Running("ops") /\ Inner.arm # 0
     \/ Running("fetch")
  /\ mode' = "raise"
  /\ UNCHANGED <<stack, origin, closures, suppressed, abandoned, base>>

-----------------------------------------------------------------------------
(* Statements, once their own expressions are evaluated.                   *)

NextStatement ==
  /\ Running("block")
  /\ IF Inner.stmts = <<>> THEN stack' = Outer
     ELSE GoOn(<<Eval(Head(Inner.stmts), 0), Body(Tail(Inner.stmts))>>)
  /\ UNCHANGED <<mode, origin, closures, suppressed, abandoned, base>>

RunSimple ==
  /\ Done /\ Node_.kind = "simple"
  /\ stack' = Outer
  /\ IF Node_.rebinds = "" THEN UNCHANGED base ELSE base' \in Values
  /\ UNCHANGED <<mode, origin, closures, suppressed, abandoned>>

RunJump ==
  /\ Done /\ Node_.kind \in {"return", "break", "continue", "raise"}
  /\ stack' = Outer
  /\ mode' = Node_.kind
  /\ UNCHANGED <<origin, closures, suppressed, abandoned, base>>

\* The next alternative of an if, or the next case of a match.
Otherwise == IF Inner.arm < Len(Node_.arms) THEN Eval(Inner.node, Inner.arm + 1)
             ELSE Body(Node_.orelse)

BodyOfArm == IF Inner.arm = 0 THEN Node_.body ELSE Node_.arms[Inner.arm].body

Guarded == Inner.arm = 0 /\ Node_.guard # ""

RunIf ==
  /\ Done /\ Node_.kind = "if"
  /\ \/ (Guarded => base = Node_.guard) /\ GoOn(<<Body(BodyOfArm)>>)
     \/ (Guarded => base # Node_.guard) /\ GoOn(<<Otherwise>>)
  /\ UNCHANGED <<mode, origin, closures, suppressed, abandoned, base>>

RunWhile ==
  /\ Done /\ Node_.kind = "while"
  /\ \/ GoOn(<<Body(Node_.body), InLoop(Inner.node)>>)
     \/ ~ Node_.sure /\ GoOn(<<Body(Node_.orelse)>>)
  /\ UNCHANGED <<mode, origin, closures, suppressed, abandoned, base>>

RunFor ==
  /\ Done /\ Node_.kind = "for"
  /\ GoOn(IF Inner.arm = 0 THEN <<Fetch(Inner.node, TRUE)>>
          ELSE <<Body(Node_.body), InLoop(Inner.node)>>)
  /\ UNCHANGED <<mode, origin, closures, suppressed, abandoned, base>>

RunFetch ==
  /\ Running("fetch")
  /\ \/ GoOn(<<Eval(Inner.node, 1)>>)
     \/ ~ (Node_.sure /\ Inner.first) /\ GoOn(<<Body(Node_.orelse)>>)
  /\ UNCHANGED <<mode, origin, closures, suppressed, abandoned, base>>

Again(node) == IF prog.code[node].kind = "while" THEN Eval(node, 0) ELSE Fetch(node, FALSE)

RunAgain ==
  /\ Running("loop")
  /\ GoOn(<<Again(Inner.node)>>)
  /\ UNCHANGED <<mode, origin, closures, suppressed, abandoned, base>>

RunWith ==
  /\ Done /\ Node_.kind = "with"
  /\ GoOn(<<Body(Node_.body), InWith>>)
  /\ UNCHANGED <<mode, origin, closures, suppressed, abandoned, base>>

RunLeaveWith ==
  /\ Running("with")
  /\ stack' = Outer
  /\ UNCHANGED <<mode, origin, closures, suppressed, abandoned, base>>

RunMatch ==
  /\ Done /\ Node_.kind = "match"
  /\ GoOn(IF Inner.arm = 0 THEN <<Otherwise>> ELSE <<Body(BodyOfArm)>>)
  /\ UNCHANGED <<mode, origin, closures, suppressed, abandoned, base>>

\* A pattern or its guard fails, some of its captures bound or none.
Mismatch ==
  /\ Running("ops") /\ Node_.kind = "match" /\ Inner.arm # 0
  /\ ~ (Node_.sure /\ Inner.arm = Len(Node_.arms))
  /\ GoOn(<<Otherwise>>)
  /\ UNCHANGED <<mode, origin, closures, suppressed, abandoned, base>>

-----------------------------------------------------------------------------
(* try.                                                                    *)

RunTry ==
  /\ Done /\ Node_.kind = "try"
  /\ GoOn(IF Inner.arm = 0 THEN <<Body(Node_.body), InTry(Inner.node, "body", 0)>>
          ELSE <<Body(BodyOfArm)>>)
  /\ UNCHANGED <<mode, origin, closures, suppressed, abandoned, base>>

RunElse ==
  /\ Running("try") /\ Inner.part = "body"
  /\ GoOn(<<Body(Node_.orelse), InTry(Inner.node, "else", 0)>>)
  /\ UNCHANGED <<mode, origin, closures, suppressed, abandoned, base>>

\* The body raises and handler k takes the exception.
Catch ==
  /\ Unwinding("try") /\ mode = "raise" /\ Inner.part = "body"
  /\ \E k \in DOMAIN Node_.arms : GoOn(<<Eval(Inner.node, k), InTry(Inner.node, "handler", k)>>)
  /\ mode' = "run"
  /\ UNCHANGED <<origin, closures, suppressed, abandoned, base>>

\* The try is over, one way or another: its alias goes and its finally runs.
RunFinallyBody ==
  /\ stack # <<>> /\ Inner.at = "try" /\ (mode = "run" => Inner.part # "body")
  /\ LET alias == IF Inner.part = "handler" THEN Range(Node_.arms[Inner.arm].alias) ELSE {}
     IN  /\ origin' = [x \in Local |-> IF x \in alias THEN Unbound ELSE origin[x]]
         /\ abandoned' = IF mode = "run" THEN abandoned ELSE abandoned \cup alias
  /\ IF Node_.final = <<>> THEN stack' = Outer /\ UNCHANGED mode
     ELSE GoOn(<<Body(Node_.final), InFinally(mode)>>) /\ mode' = "run"
  /\ UNCHANGED <<closures, suppressed, base>>

EndFinally ==
  /\ Running("finally")
  /\ stack' = Outer
  /\ mode' = Inner.then
  /\ UNCHANGED <<origin, closures, suppressed, abandoned, base>>

-----------------------------------------------------------------------------
(* Jumps and exceptions on their way out.                                  *)

Unwind ==
  /\ \/ \E at \in {"block", "ops", "fetch", "with", "finally"} : Unwinding(at)
     \/ Unwinding("loop") /\ mode \in {"return", "raise"}
  /\ stack' = Outer
  /\ UNCHANGED <<mode, origin, closures, suppressed, abandoned, base>>

Arrive ==
  /\ Unwinding("loop") /\ mode \in {"break", "continue"}
  /\ IF mode = "break" THEN stack' = Outer ELSE GoOn(<<Again(Inner.node)>>)
  /\ mode' = "run"
  /\ UNCHANGED <<origin, closures, suppressed, abandoned, base>>

\* __exit__ returns a true value.
Suppress ==
  /\ Unwinding("with") /\ mode = "raise"
  /\ stack' = Outer
  /\ mode' = "run"
  /\ suppressed' = TRUE
  /\ UNCHANGED <<origin, closures, abandoned, base>>

Run ==
  \/ Operate \/ Fail \/ NextStatement \/ RunSimple \/ RunJump
  \/ RunIf \/ RunWhile \/ RunFor \/ RunFetch \/ RunAgain
  \/ RunWith \/ RunLeaveWith \/ RunMatch \/ Mismatch
  \/ RunTry \/ RunElse \/ Catch \/ RunFinallyBody \/ EndFinally
  \/ Unwind \/ Arrive \/ Suppress
=============================================================================
