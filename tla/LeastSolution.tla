---------------------------- MODULE LeastSolution ----------------------------
(***************************************************************************)
(* What solve() promises, without a worklist: on a function's graph it     *)
(* answers, once, with the least facts that satisfy the equations.         *)
(***************************************************************************)
EXTENDS GenKill

CONSTANT Cfgs

VARIABLES
  cfg,      \* the function asked about
  answer    \* {} until the solver has answered, then {the facts that leave the blocks}

Least(c) ==
  LET reach == Reachable(c)
      above == {f \in Fact : Above(c, reach, f)}
  IN  [b \in Block |-> {x \in Local : \A f \in above : x \in f[b]}]

Init == cfg \in Cfgs /\ answer = {}

Answer == /\ answer = {}
          /\ answer' = {Least(cfg)}
          /\ UNCHANGED cfg

Safety == Init /\ [][Answer]_<<cfg, answer>>
Spec   == Safety /\ WF_<<cfg, answer>>(Answer)
==============================================================================
