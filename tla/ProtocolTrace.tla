---------------------------- MODULE ProtocolTrace ---------------------------
(***************************************************************************)
(* Protocol::check_trace (crates/pons-protocols/src/lib.rs): the events of *)
(* several instances, interleaved in one trace, are checked against one    *)
(* contract.  The trace is whatever a producer recorded.                   *)
(*                                                                         *)
(* The violations are a set; a violation's message is the operation it     *)
(* comes from, by its index, or Denied or Exited.                          *)
(***************************************************************************)
EXTENDS Contract

CONSTANTS
  Instance,   \* the instance keys of a trace; "" is a blank one
  Watched,    \* any one of them, for the property about one instance
  Call,       \* the calls of a trace, misspelt ones included
  Protocols,  \* the contracts, valid or not
  MaxLine,    \* bound on line, a usize in the code
  Budget      \* 100_000 in the code

ASSUME WatchedAssumption == Watched \in Instance
ASSUME BoundsAssumption == MaxLine \in Nat /\ Budget \in Nat
ASSUME ProtocolsAssumption ==   \* the operations of a contract are a Vec
  \A p \in Protocols : p.operations \in Seq(Range(p.operations))

VARIABLES
  protocol,
  instances,   \* the entries of the instances with an event: a function
  violations,
  last,
  verdict,     \* "parsed", "checking", then Ok ("done") or Err ("error")
  log          \* history: the events checked

traceVars == <<protocol, instances, violations, last, verdict, log>>

States  == Range(protocol.states)
Entry   == [state : States, since : 1..MaxLine, moved : BOOLEAN]
Event   == [instance : Instance, call : Call, line : 0..MaxLine]

TraceTypeOK ==
  /\ protocol \in Protocols
  /\ verdict \in {"parsed", "checking", "done", "error"}
  /\ DOMAIN instances \subseteq Instance /\ Range(instances) \subseteq Entry
  /\ last \in 0..MaxLine
  /\ \A v \in violations : /\ v.instance \in Instance /\ v.state \in States
                           /\ v.entered \in 1..MaxLine /\ v.observed \in 1..MaxLine
  /\ log \in Seq(Event) /\ Len(log) <= Budget

TraceInit ==
  /\ protocol \in Protocols
  /\ instances = <<>>
  /\ violations = {} /\ last = 0 /\ verdict = "parsed" /\ log = <<>>

Validate == /\ verdict = "parsed"
            /\ verdict' = IF Valid(protocol) THEN "checking" ELSE "error"
            /\ UNCHANGED <<protocol, instances, violations, last, log>>

\* Mutant: one entry serves every instance.
EntryShared(i, line) ==
  IF instances = <<>> THEN [state |-> protocol.initial, since |-> line, moved |-> FALSE]
  ELSE instances[CHOOSE j \in DOMAIN instances : TRUE]

EntryOf(i, line) ==
  IF i \in DOMAIN instances THEN instances[i]
  ELSE [state |-> protocol.initial, since |-> line, moved |-> FALSE]

Violation(i, entry, observed, cause) ==
  [instance |-> i, state |-> entry.state, entered |-> entry.since,
   observed |-> observed, cause |-> cause]

\* Mutant: an instance back in its initial state never moved.
AfterForgetting(entry, call, line) ==
  LET moves == Moves(protocol, entry.state, call)
  IN IF moves = {} THEN entry
     ELSE LET t == CHOOSE t \in moves : TRUE
          IN [state |-> t.to, since |-> line, moved |-> t.to # protocol.initial]

\* Mutant: entered_at stays at the first event.
AfterStale(entry, call, line) ==
  LET moves == Moves(protocol, entry.state, call)
  IN IF moves = {} THEN entry
     ELSE LET t == CHOOSE t \in moves : TRUE
          IN [state |-> t.to, since |-> entry.since, moved |-> entry.moved \/ t.to # protocol.initial]

After(entry, call, line) ==
  LET moves == Moves(protocol, entry.state, call)
  IN IF moves = {} THEN entry
     ELSE LET t == CHOOSE t \in moves : TRUE
          IN [state |-> t.to, since |-> line, moved |-> entry.moved \/ t.to # protocol.initial]

WellFormed(e) == e.instance # "" /\ e.line # 0 /\ e.line >= last /\ Known(protocol, e.call)

Check(e) ==
  LET entry  == EntryOf(e.instance, e.line)
      causes == Forbids(protocol, entry.state, e.call)
                  \cup Denial(protocol, entry.state, e.call)
  IN
  /\ verdict = "checking" /\ Len(log) < Budget /\ WellFormed(e)
  /\ last' = e.line
  /\ violations' = violations \cup {Violation(e.instance, entry, e.line, c) : c \in causes}
  /\ instances' = [i \in DOMAIN instances \cup {e.instance} |->
                     IF i = e.instance THEN After(entry, e.call, e.line) ELSE instances[i]]
  /\ log' = Append(log, e)
  /\ UNCHANGED <<protocol, verdict>>

\* A malformed event or one too many: the whole trace is an error.
Malformed(e) ==
  /\ verdict = "checking" /\ (Len(log) = Budget \/ ~WellFormed(e))
  /\ verdict' = "error"
  /\ UNCHANGED <<protocol, instances, violations, last, log>>

Empty == protocol.schema = "0.2.0" /\ log = <<>>

Outside == {i \in DOMAIN instances : instances[i].moved /\ ~MayExitIn(protocol, instances[i].state)}

End ==
  /\ verdict = "checking"
  /\ \/ Empty /\ verdict' = "error" /\ UNCHANGED violations
     \/ /\ ~Empty /\ verdict' = "done"
        /\ violations' = violations \cup
             {Violation(i, instances[i], last, Exited) : i \in Outside}
  /\ UNCHANGED <<protocol, instances, last, log>>

TraceNext == \/ Validate \/ End
        \/ \E e \in Event : Check(e) \/ Malformed(e)

TraceSpec == TraceInit /\ [][TraceNext]_traceVars

-----------------------------------------------------------------------------
\* The state of instance i after each event of the trace, from the trace and
\* the contract alone.
History(i) ==
  LET at[k \in 0..Len(log)] ==
        IF k = 0 THEN protocol.initial
        ELSE IF log[k].instance # i \/ Moves(protocol, at[k-1], log[k].call) = {} THEN at[k-1]
        ELSE (CHOOSE t \in Moves(protocol, at[k-1], log[k].call) : TRUE).to
  IN at

Lawful(i) ==
  LET at == History(i) IN
  /\ \A k \in DOMAIN log : log[k].instance = i =>
       /\ Forbids(protocol, at[k-1], log[k].call) = {}
       /\ Denial(protocol, at[k-1], log[k].call) = {}
  /\ (\E k \in DOMAIN log : at[k] # protocol.initial) => MayExitIn(protocol, at[Len(log)])

(* A trace comes out with a violation of an instance exactly when that     *)
(* instance's own calls break the contract: a call where it is forbidden   *)
(* or denied, or an exit outside the required states after it had left     *)
(* the initial state, come back to it or not (lib.rs:143-150).             *)
VerdictFitsTrace ==
  verdict = "done" => \A i \in Instance : Lawful(i) <=> ~ \E v \in violations : v.instance = i

(* A violation points at its cause: the instance was in the named state    *)
(* from the event at entered_at up to the one at observed_at.              *)
ViolationsPointAtTheirCause ==
  \A v \in violations :
    LET at == History(v.instance) IN
    \E k \in DOMAIN log, m \in 1..(Len(log) + 1) :
      /\ k <= m /\ log[k].instance = v.instance /\ log[k].line = v.entered
      /\ IF v.cause = Exited THEN m > Len(log) /\ v.observed = last
         ELSE m \in DOMAIN log /\ log[m].instance = v.instance /\ v.observed = log[m].line
      /\ \A j \in (k..(m - 1)) \cup {m - 1} : at[j] = v.state

\* Instance i's part of the state: before any event, the initial state since line 0.
StateOf(i) == IF i \in DOMAIN instances THEN instances[i].state ELSE protocol.initial
SinceOf(i) == IF i \in DOMAIN instances THEN instances[i].since ELSE 0
MovedOf(i) == IF i \in DOMAIN instances THEN instances[i].moved ELSE FALSE

Own(i) ==
  {[state |-> v.state, entered |-> v.entered, observed |-> v.observed, cause |-> v.cause] :
     v \in {w \in violations : w.instance = i}}

Alone == INSTANCE Typestate WITH
  Line <- 1..MaxLine, found <- Own(Watched),
  state <- StateOf(Watched), since <- SinceOf(Watched), moved <- MovedOf(Watched)

(* "Instances have independent states" (lib.rs:146): to any one instance,  *)
(* the checker of an interleaved trace is a checker of its own events.     *)
InstanceIsIndependent == Alone!Spec
=============================================================================
