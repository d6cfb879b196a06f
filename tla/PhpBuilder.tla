------------------------------ MODULE PhpBuilder -----------------------------
(***************************************************************************)
(* From the syntax of a PHP function to the graph that is solved (php.rs,  *)
(* expression and Builder).  The graph is built backwards: a statement is  *)
(* lowered knowing the block that follows it, and answers with the block   *)
(* it begins with.  Anything not understood makes the whole function       *)
(* opaque.  Used by the model checker only.                                *)
(*                                                                         *)
(* Syntax is nested records.  An expression has a kind, the line of a      *)
(* source, the name of a variable and arguments:                           *)
(*   literal, source, variable                                             *)
(*   join     concatenation, parentheses, interpolation, strip_tags ...    *)
(*   value    comparisons and other operators: the result is no copy       *)
(*   escape   htmlspecialchars and its like, which clear "html"            *)
(*   other    anything else                                                *)
(***************************************************************************)
EXTENDS PhpSolver

CONSTANT MaxBlocks   \* 1,024

ASSUME HtmlIsABit == "html" \in Bit

Clean == [ok |-> TRUE, direct |-> {}, copied |-> {}]
Opaque == [Clean EXCEPT !.ok = FALSE]

JoinAll(exprs) ==
  [ok |-> \A i \in DOMAIN exprs : exprs[i].ok,
   direct |-> UNION {exprs[i].direct : i \in DOMAIN exprs},
   copied |-> UNION {exprs[i].copied : i \in DOMAIN exprs}]

Sanitised(expr, bits) ==
  [expr EXCEPT !.direct = {f \in @ : f[2] \notin bits},
               !.copied = {c \in @ : c[2] \notin bits}]

RECURSIVE Expression(_)
Expression(e) ==
  LET args == [i \in DOMAIN e.args |-> Expression(e.args[i])]
      all  == JoinAll(args)
  IN  CASE e.kind = "literal"  -> Clean
        [] e.kind = "source"   -> [Clean EXCEPT !.direct = {e.line} \X Bit]
        [] e.kind = "variable" -> [Clean EXCEPT !.copied = {e.name} \X Bit]
        [] e.kind = "join"     -> all
        [] e.kind = "value"    -> [Clean EXCEPT !.ok = all.ok]
        [] e.kind = "escape" /\ args # <<>> -> [Sanitised(args[1], {"html"}) EXCEPT !.ok = all.ok]
        [] OTHER -> Opaque

-----------------------------------------------------------------------------
(***************************************************************************)
(* What a call of stmt leaves: the blocks, the block to begin with, and    *)
(* whether all went well.  After an error nothing is changed any more.     *)
(***************************************************************************)
Nop == [op |-> "nop"]
Assign(name, expr) == [op |-> "assign", name |-> name, expr |-> expr]
Sink(expr, bit, line) == [op |-> "sink", expr |-> expr, bit |-> bit, line |-> line]

\* Block 1 (the code's block 0) is the end of the function.
Begin == [ok |-> TRUE, blocks |-> <<[op |-> Nop, next |-> <<>>]>>, head |-> 1]

Require(b, condition) == [b EXCEPT !.ok = @ /\ condition]
Check(b, e)           == Require(b, Expression(e).ok)
CheckAll(b, es)       == Require(b, \A i \in DOMAIN es : Expression(es[i]).ok)

\* Mutant: the block is numbered after it was pushed.
AddThenNumber(b, op, next) ==
  IF b.ok /\ Len(b.blocks) < MaxBlocks
  THEN [b EXCEPT !.blocks = Append(@, [op |-> op, next |-> next]), !.head = Len(b.blocks) + 2]
  ELSE Require(b, FALSE)

Add(b, op, next) ==
  IF b.ok /\ Len(b.blocks) < MaxBlocks
  THEN [b EXCEPT !.blocks = Append(@, [op |-> op, next |-> next]), !.head = Len(b.blocks) + 1]
  ELSE Require(b, FALSE)

\* Mutant: break and continue are mixed up.
LoopEdgesSwapped(after, cond) == [breaks |-> cond, continues |-> after]

LoopEdges(after, cond) == [breaks |-> after, continues |-> cond]

NoLoop == [breaks |-> 0, continues |-> 0]

(***************************************************************************)
(* A statement has a kind and, as the kind needs them: a name, expressions *)
(* `args', a body, clauses (of an if: a body and at most one condition),   *)
(* and the line and the context of a sink.                                 *)
(***************************************************************************)
RECURSIVE Stmt(_, _, _, _), Stmts(_, _, _, _), Otherwise(_, _, _, _)

Stmts(b, body, next, loop) ==
  IF body = <<>> THEN [b EXCEPT !.head = next]
  ELSE LET rest == Stmts(b, Tail(body), next, loop)
       IN  Stmt(rest, Head(body), rest.head, loop)

\* The elseif and else clauses, the last one first.
Otherwise(b, clauses, next, loop) ==
  IF clauses = <<>> THEN [b EXCEPT !.head = next]
  ELSE LET no   == Otherwise(b, Tail(clauses), next, loop)
           body == Stmts(no, Head(clauses).body, next, loop)
       IN  IF Head(clauses).args = <<>> THEN body
           ELSE Add(CheckAll(body, Head(clauses).args), Nop, <<body.head, no.head>>)

Stmt(b, s, next, loop) ==
  CASE s.kind = "skip" -> [b EXCEPT !.head = next]   \* comments, nested functions and classes
    [] s.kind = "if" ->
         LET yes == Stmts(CheckAll(b, s.args), s.body, next, loop)
             no  == Otherwise(yes, s.clauses, next, loop)
         IN  Add(no, Nop, <<yes.head, no.head>>)
    [] s.kind = "while" ->
         LET cond == Add(CheckAll(b, s.args), Nop, <<>>)
             body == Stmts(cond, s.body, cond.head, LoopEdges(next, cond.head))
         IN  IF ~ body.ok THEN body
             ELSE [body EXCEPT !.blocks[cond.head].next = <<body.head, next>>, !.head = cond.head]
    [] s.kind = "break"    -> Add(Require(b, loop # NoLoop), Nop, <<loop.breaks>>)
    [] s.kind = "continue" -> Add(Require(b, loop # NoLoop), Nop, <<loop.continues>>)
    [] s.kind = "return"   -> Add(CheckAll(b, s.args), Nop, <<>>)
    [] s.kind = "throw"    -> Add(b, Nop, <<>>)
    [] s.kind = "echo" ->
         Add(CheckAll(b, s.args), Sink(JoinAll([i \in DOMAIN s.args |-> Expression(s.args[i])]), "html", s.line),
             <<next>>)
    [] s.kind = "assign" -> Add(CheckAll(b, s.args), Assign(s.name, Expression(s.args[1])), <<next>>)
    [] s.kind = "call" /\ s.index \in DOMAIN s.args ->   \* a known sink; its other arguments are not looked at
         Add(Check(b, s.args[s.index]), Sink(Expression(s.args[s.index]), s.bit, s.line), <<next>>)
    [] s.kind = "evaluate" -> Add(CheckAll(b, s.args), Nop, <<next>>)
    [] OTHER -> Require(b, FALSE)

Lowered(body) == Stmts(Begin, body, 1, NoLoop)
=============================================================================
