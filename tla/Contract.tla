------------------------------ MODULE Contract ------------------------------
(***************************************************************************)
(* A protocol contract (struct Protocol, crates/pons-protocols/src/lib.rs): *)
(* what makes one valid and what it says of a call in a state.  "" stands  *)
(* for any blank string.  Left out: id, channel, description, messages and *)
(* an operation's kind, and the checks that each is there.                 *)
(***************************************************************************)
EXTENDS Integers, FiniteSets, Sequences, Functions

Valid(p) ==
  LET states == Range(p.states) IN
  /\ p.schema \in {"0.1.0", "0.2.0"}
  /\ p.schema = "0.1.0" => ~p.strict
  /\ IsInjective(p.states) /\ "" \notin states /\ p.initial \in states
  /\ \A k \in DOMAIN p.transitions :
       LET t == p.transitions[k] IN
       /\ {t.from, t.to} \subseteq states /\ t.on # ""
       /\ \A j \in DOMAIN p.transitions \ {k} :
            <<p.transitions[j].on, p.transitions[j].from>> # <<t.on, t.from>>
  /\ \A o \in Range(p.operations) :
       o.on # "" /\ o.forbidden # {} /\ o.forbidden \subseteq states
  /\ p.mustExit \subseteq states
  /\ Len(p.transitions) + Len(p.operations) > 0

IsTransition(p, call) == \E t \in Range(p.transitions) : t.on = call
Known(p, call)        == IsTransition(p, call) \/ \E o \in Range(p.operations) : o.on = call

\* The operations that forbid call in state s, and the transitions it takes.
Forbids(p, s, call) == {k \in DOMAIN p.operations :
                          p.operations[k].on = call /\ s \in p.operations[k].forbidden}
Moves(p, s, call)   == {t \in Range(p.transitions) : t.on = call /\ t.from = s}

Denied == 0
Exited == -1

\* A transition call that the state does not take, under strict_transitions.
Denial(p, s, call) ==
  IF p.strict /\ IsTransition(p, call) /\ Moves(p, s, call) = {} THEN {Denied} ELSE {}

MayExitIn(p, s) == p.mustExit = {} \/ s \in p.mustExit
=============================================================================
