------------------------------ MODULE Execution ------------------------------
(***************************************************************************)
(* The analysed function runs.  Once the solver has finished, an execution *)
(* walks the graph event by event; it remembers which locals are bound and *)
(* which store each value came from.  It is the meaning the events have in *)
(* crates/pons-core/src/cfg/mod.rs, and what the queries of dataflow.rs    *)
(* talk about.                                                             *)
(***************************************************************************)
EXTENDS Dataflow

VARIABLES
  pc,       \* <<block, position of the next event>>
  status,   \* is the local bound?  "assumed": only a WeakDef that did not run
            \* stands between it and unbound
  origin    \* the event that stored the local's value ({} if none did)

runVars == <<pc, status, origin>>
allVars == <<solverVars, runVars>>

AtEvent    == Solved /\ pc[2] \in Points(cfg, pc[1])

RunTypeOK ==
  /\ TypeOK
  /\ pc \in Block \X (Nat \ {0})
  /\ pc[2] <= Len(cfg.events[pc[1]]) + 1
  /\ status \in [Local -> {"bound", "unbound", "assumed"}]
  /\ origin \in [Local -> SUBSET (Block \X Nat)]

RunInit ==
  /\ Init
  /\ pc = <<ENTRY, 1>>
  /\ status = [x \in Local |-> IF x \in cfg.params THEN "bound" ELSE "unbound"]
  /\ origin = [x \in Local |-> {}]

Advance == pc' = [pc EXCEPT ![2] = @ + 1] /\ UNCHANGED solverVars

\* A Def, or a WeakDef that does run, stores its local.
Store == /\ AtEvent /\ EventAt(pc).kind \in {"Def", "WeakDef"}
         /\ status' = [status EXCEPT ![EventAt(pc).local] = "bound"]
         /\ origin' = [origin EXCEPT ![EventAt(pc).local] = {pc}]
         /\ Advance

\* A WeakDef may not run (cfg/mod.rs:53-56).
SkipWeakDef == /\ AtEvent /\ EventAt(pc).kind = "WeakDef"
               /\ status' = [status EXCEPT ![EventAt(pc).local] =
                               IF @ = "unbound" THEN "assumed" ELSE @]
               /\ Advance /\ UNCHANGED origin

Unbind == /\ AtEvent /\ EventAt(pc).kind = "Kill"
          /\ status' = [status EXCEPT ![EventAt(pc).local] = "unbound"]
          /\ origin' = [origin EXCEPT ![EventAt(pc).local] = {}]
          /\ Advance

Read == /\ AtEvent /\ EventAt(pc).kind = "Use"
        /\ Advance /\ UNCHANGED <<status, origin>>

Branch == /\ Solved /\ pc[2] = Len(cfg.events[pc[1]]) + 1
          /\ \E s \in cfg.succs[pc[1]] : pc' = <<s, 1>>
          /\ UNCHANGED <<solverVars, status, origin>>

RunNext ==
  \/ Solve /\ UNCHANGED runVars
  \/ Store \/ SkipWeakDef \/ Unbind \/ Read \/ Branch

RunSpec == RunInit /\ [][RunNext]_allVars

\* The solver is one thread that nothing blocks; the analysed function may stop anywhere.
FairRunSpec == RunSpec /\ WF_allVars(Solve /\ UNCHANGED runVars)

-----------------------------------------------------------------------------
Reading(x) == AtEvent /\ EventAt(pc).kind = "Use" /\ EventAt(pc).local = x

(***************************************************************************)
(* "A store is dead only if it is dead in every reachable copy"            *)
(* (dataflow.rs:19-21): no execution of the function ever reads a value    *)
(* that a reported store left.                                             *)
(***************************************************************************)
DeadStoresAreNeverRead ==
  ~ Forward => \A x \in Local : Reading(x) =>
    \A p \in origin[x] : IsReportable(EventAt(p)) => EventAt(p).loc \notin DeadStores

(***************************************************************************)
(* The same of every copy of a reported location, the weak ones included:  *)
(* the location is what the user is shown.                                 *)
(***************************************************************************)
NoCopyOfADeadStoreIsRead ==
  ~ Forward => \A x \in Local : Reading(x) =>
    \A p \in origin[x] : EventAt(p).loc \notin DeadStores

(***************************************************************************)
(* A checkable read that an execution reaches with the local unbound is    *)
(* reported, unless a WeakDef that did not run hides it: the may-unbound   *)
(* analysis takes a WeakDef to bind (dataflow.rs:268-274).                 *)
(***************************************************************************)
UnboundReadsAreReported ==
  Forward => \A x \in Local :
    Reading(x) /\ IsCheckable(EventAt(pc)) /\ status[x] = "unbound"
      => EventAt(pc).loc \in UnboundReads

-----------------------------------------------------------------------------
(***************************************************************************)
(* Why: the execution only visits reachable blocks, and the fact replay()  *)
(* shows at the point it has reached covers its state.                     *)
(***************************************************************************)
FactHere ==
  FactAfter(cfg, pc[1],
            {j \in Points(cfg, pc[1]) : IF Forward THEN j < pc[2] ELSE j >= pc[2]},
            into[pc[1]])

FactsCoverTheRun ==
  /\ pc[1] \in reachable
  /\ Solved =>
       \A x \in Local :
         /\ Forward => (status[x] = "unbound" => x \in FactHere)
         /\ ~ Forward => \A p \in origin[x] :
              /\ p[2] \in Points(cfg, p[1]) /\ p[1] \in reachable
              /\ EventAt(p).local = x
              /\ IsReportable(EventAt(p)) /\ ~ Holds(p) => x \notin FactHere
==============================================================================
