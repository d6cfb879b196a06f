----------------------------- MODULE MCExecution -----------------------------
(***************************************************************************)
(* Functions with one local for the execution model: every graph over      *)
(* ENTRY, EXIT and two more blocks, two events in one block and one in the *)
(* other.                                                                  *)
(***************************************************************************)
EXTENDS Execution, PathSemantics

CONSTANTS x, l1, l2, MCParams

MCEvent(k, l, f) == [kind |-> k, local |-> x, loc |-> l, flag |-> f]

MCEvents(l) == {MCEvent("Use", l, TRUE), MCEvent("Def", l, TRUE),
                MCEvent("WeakDef", l, FALSE), MCEvent("Kill", l, FALSE)}

MCGraphs ==
  {s \in [Block -> SUBSET (Block \ {ENTRY})] : s[EXIT] = {} /\ s[ENTRY] \subseteq {EXIT, 2}}

MCEventMaps ==
  {[b \in Block |-> IF b = 2 THEN <<e1, e2>> ELSE IF b = 3 THEN <<e3>> ELSE <<>>] :
     e1 \in MCEvents(l1), e2 \in MCEvents(l2), e3 \in MCEvents(l1) \cup MCEvents(l2)}

MCCfgs == [succs : MCGraphs, events : MCEventMaps, params : MCParams]
==============================================================================
