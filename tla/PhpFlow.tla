------------------------------- MODULE PhpFlow -------------------------------
(***************************************************************************)
(* The analysis of one PHP file (php.rs, analyse): a survey of the file    *)
(* that may withhold every verdict, and then, function by function, the    *)
(* lowering, the solver and the flows found at its sinks.                  *)
(***************************************************************************)
EXTENDS PhpBuilder

CONSTANT Files

VARIABLES
  file,      \* [ambiguous, units]; a unit is a function: [callback, body]
  unit,      \* the function being analysed; 0 before the survey
  flows, unknowns

vars == <<file, unit, flows, unknowns, solverVars>>

Paths == INSTANCE PhpPaths

Done == unit > Len(file.units)
Body == file.units[unit].body

Init ==
  /\ file \in Files
  /\ unit = 0
  /\ flows = {} /\ unknowns = {}
  /\ Idle

\* Nothing the file says can be trusted if it has namespaces, imports, shadowing or text.
Survey ==
  /\ unit = 0
  /\ unit' = IF file.ambiguous THEN Len(file.units) + 1 ELSE 1
  /\ unknowns' = {<<"callback", u>> : u \in {v \in DOMAIN file.units : file.units[v].callback}}
                 \cup (IF file.ambiguous THEN {<<"withheld", 0>>} ELSE {})
  /\ UNCHANGED <<file, flows, solverVars>>

Ready == unit \in DOMAIN file.units /\ blocks = <<>>

Lower ==
  /\ Ready /\ Lowered(Body).ok
  /\ Start(Lowered(Body).blocks, Lowered(Body).head)
  /\ UNCHANGED <<file, unit, flows, unknowns>>

Leave == unit' = unit + 1 /\ Stop

NoVerdict == Leave /\ unknowns' = unknowns \cup {<<"scope", unit>>} /\ UNCHANGED <<file, flows>>

GiveUpLowering  == Ready /\ ~ Lowered(Body).ok /\ NoVerdict
GiveUpTransfers == Busy /\ OverTransfers /\ NoVerdict
GiveUpNames     == Busy /\ ~ OverTransfers /\ OverNames /\ NoVerdict

Step == Transfer /\ UNCHANGED <<file, unit, flows, unknowns>>

\* Mutant: dead code is reported too.
LiveSinksAll == {b \in Id : blocks[b].op.op = "sink"}

\* Code that is not reached must not be reported for the sources it names itself.
LiveSinks == {b \in reached : blocks[b].op.op = "sink"}

FlowAt(b) ==
  LET sink == blocks[b].op
  IN  [unit |-> unit, line |-> sink.line,
       sources |-> {f[1] : f \in {g \in Eval(sink.expr, states[b]) : g[2] = sink.bit}}]

Report ==
  /\ blocks # <<>> /\ queue = <<>>
  /\ flows' = flows \cup {f \in {FlowAt(b) : b \in LiveSinks} : f.sources # {}}
  /\ Leave
  /\ UNCHANGED <<file, unknowns>>

Next == Survey \/ Lower \/ GiveUpLowering \/ GiveUpTransfers \/ GiveUpNames \/ Step \/ Report

Spec == Init /\ [][Next]_vars

-----------------------------------------------------------------------------
HasNoVerdict(u) == file.ambiguous \/ <<"scope", u>> \in unknowns

Found(u) ==
  UNION {{<<f.line, source>> : source \in f.sources} : f \in {g \in flows : g.unit = u}}

(***************************************************************************)
(* A function has no verdict and no flow, or it was wholly understood and  *)
(* its flows are exactly those of its paths: no function is called clean   *)
(* because something in it was not understood or a budget ran out, and     *)
(* nothing leaks from one function into the next.                          *)
(***************************************************************************)
VerdictsFitThePaths ==
  Done => \A u \in DOMAIN file.units :
    IF HasNoVerdict(u) THEN Found(u) = {} /\ unknowns # {}
    ELSE /\ Paths!Understood(file.units[u].body, FALSE)
         /\ Found(u) = Paths!HitsOf(file.units[u].body)
=============================================================================
