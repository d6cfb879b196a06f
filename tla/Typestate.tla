------------------------------ MODULE Typestate -----------------------------
(***************************************************************************)
(* What a contract promises about one instance, as if its events were the  *)
(* only ones: the instance's state follows its own calls, and what is      *)
(* found against it depends on nothing else.                               *)
(***************************************************************************)
EXTENDS Contract

CONSTANTS Call, Line

VARIABLES
  protocol,
  state,
  since,   \* line of the event that entered the state; 0 before any event
  moved,   \* has it been in a state other than the initial one?
  found    \* records of state, entered, observed and cause

vars == <<protocol, state, since, moved, found>>

Init == state = protocol.initial /\ since = 0 /\ moved = FALSE /\ found = {}

Found(cause, entered, observed) ==
  [state |-> state, entered |-> entered, observed |-> observed, cause |-> cause]

Observe(call, line) ==
  LET entered == IF since = 0 THEN line ELSE since
      causes  == Forbids(protocol, state, call)
                   \cup Denial(protocol, state, call)
  IN
  /\ found' = found \cup {Found(c, entered, line) : c \in causes}
  /\ \/ /\ Moves(protocol, state, call) = {}
        /\ since' = entered /\ UNCHANGED <<state, moved>>
     \/ \E t \in Moves(protocol, state, call) :
          state' = t.to /\ since' = line /\ moved' = (moved \/ t.to # protocol.initial)
  /\ UNCHANGED protocol

\* The end of the trace, whose last event may be another instance's.
Exit(line) == /\ moved /\ ~MayExitIn(protocol, state)
              /\ found' = found \cup {Found(Exited, since, line)}
              /\ UNCHANGED <<protocol, state, since, moved>>

\* An event of another instance.
Elsewhere == UNCHANGED vars

Next == Elsewhere \/ \E line \in Line : Exit(line) \/ \E call \in Call : Observe(call, line)

Spec == Init /\ [][Next]_vars
=============================================================================
