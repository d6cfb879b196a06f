------------------------------- MODULE Syntax -------------------------------
(***************************************************************************)
(* The part of a Python function that the builder of control-flow graphs   *)
(* looks at (crates/pons-core/src/cfg/builder.rs, scope.rs): nested        *)
(* statements, and in each statement's own expressions the names it reads, *)
(* stores and deletes, in the order in which the builder meets them.       *)
(*                                                                         *)
(* A function is a table of statements, whose keys follow the order of the *)
(* source; a body is a sequence of keys.  An absent `else' or `finally' is *)
(* an empty sequence.                                                      *)
(***************************************************************************)
EXTENDS Naturals, Sequences, Functions

CONSTANTS
  Node,    \* the keys of the table: numbers
  Local

(***************************************************************************)
(* What an expression or a target does to a local name:                    *)
(*   read     an ordinary read                                             *)
(*   mention  an identifier in a case pattern, which is no read            *)
(*   capture  a nested def, lambda or class mentions the name              *)
(*   store    the bare-name target of an assignment                        *)
(*   bind     any other target: import, for, with .. as, nested def        *)
(*   walrus   a named expression, or the capture of a case pattern         *)
(*   del      a target of del                                              *)
(***************************************************************************)
OpKind == {"read", "mention", "capture", "store", "bind", "walrus", "del"}
Op     == [op : OpKind, name : Local]

StmtKind == {"simple", "return", "break", "continue", "raise",
             "if", "while", "for", "try", "with", "match"}

(***************************************************************************)
(* An arm is an elif with its condition, an except clause with its type    *)
(* and its alias, a case with its pattern and its guard, or (the only arm  *)
(* of a for) the target.  `alias' holds the name an except clause binds, if any.*)
(***************************************************************************)
Arm == [ops : Seq(Op), body : Seq(Node), alias : Seq(Local)]

(***************************************************************************)
(* `ops' is what the statement, or its header, does: the condition of an   *)
(* if or a while, the iterable of a for, the context expressions and       *)
(* aliases of a with, the subject of a match.  `sure' marks a literal      *)
(* `while True', a for over a non-empty literal, a match whose last case   *)
(* is irrefutable.                                                         *)
(*                                                                         *)
(* One more name, the base, is no local of the graph: `guard' says whether *)
(* the condition of an if is exactly `base is None' or `base is not None', *)
(* `rebinds' whether a simple statement changes the base, by an assignment *)
(* to that very name or in any other way (a tuple, a call, an alias).      *)
(***************************************************************************)
Stmt == [kind : StmtKind, ops : Seq(Op), body : Seq(Node), arms : Seq(Arm),
         orelse : Seq(Node), final : Seq(Node), sure : BOOLEAN,
         guard : {"", "none", "not-none"}, rebinds : {"", "assign", "other"}]

VARIABLE prog   \* the function at hand

Function == [code : [Node -> Stmt], body : Seq(Node), params : SUBSET Local]

\* An identifier of the source: operation i of a statement's header (arm 0) or of an arm.
Place(node, arm, i) == <<node, arm, i>>

OpsOf(node, arm) ==
  IF arm = 0 THEN prog.code[node].ops ELSE prog.code[node].arms[arm].ops

\* The names some nested scope mentions, wherever it is (Scope.captured).
Captured ==
  {x \in Local : \E n \in Node : \E arm \in 0..Len(prog.code[n].arms) :
     [op |-> "capture", name |-> x] \in Range(OpsOf(n, arm))}
=============================================================================
