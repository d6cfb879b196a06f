----------------------------- MODULE FunctionCfg -----------------------------
(***************************************************************************)
(* The control-flow graph one analysable Python function is turned into    *)
(* (crates/pons-core/src/cfg/mod.rs).  Blocks are numbered from 0; block 0 *)
(* is ENTRY and block 1 is EXIT.  A block's statements matter to the       *)
(* analyses only through the events they perform on locals, so a block is  *)
(* the sequence of its events in evaluation order.                         *)
(*                                                                         *)
(* A source location may occur in several blocks: a `finally' body is      *)
(* copied once per way out of its `try'.                                   *)
(***************************************************************************)
EXTENDS Naturals, Sequences, FiniteSets

CONSTANTS
  N,       \* number of basic blocks
  Local,   \* local names of the function (LocalId)
  Loc      \* source locations of events (byte offsets)

ASSUME NAssumption == N \in Nat /\ N >= 2

ENTRY == 0
EXIT  == 1
Block == 0 .. N-1

Kind == {"Use", "Def", "WeakDef", "Kill"}

(***************************************************************************)
(* `flag' is the payload of the two kinds that have one: `checkable' for a *)
(* Use, "report is Some" for a Def.                                        *)
(***************************************************************************)
Event == [kind : Kind, local : Local, loc : Loc, flag : BOOLEAN]

Cfg == [succs  : [Block -> SUBSET Block],
        events : [Block -> Seq(Event)],
        params : SUBSET Local]

Points(c, b) == DOMAIN c.events[b]

Preds(c, b) == {p \in Block : b \in c.succs[p]}

(***************************************************************************)
(* The blocks the depth-first search from ENTRY marks: what every set that *)
(* holds ENTRY and is closed under succs has in common.                    *)
(***************************************************************************)
Reachable(c) ==
  LET Closed(S) == ENTRY \in S /\ \A b \in S : c.succs[b] \subseteq S
  IN  {b \in Block : \A S \in SUBSET Block : Closed(S) => b \in S}
==============================================================================
