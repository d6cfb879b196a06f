------------------------- MODULE MCProtocolModels ---------------------------
(***************************************************************************)
(* The three models of pons-protocols that share no state.  A behaviour is *)
(* one of a single model, so that their states add up instead of           *)
(* multiplying; the others stay where they start.                          *)
(***************************************************************************)
EXTENDS Prepared, Frames, ProtocolTrace

VARIABLE model   \* which of the three this behaviour is of

\* protocols/linear-egg.toml.
Egg ==
  [schema |-> "0.1.0", strict |-> FALSE,
   states |-> <<"absent", "available", "consumed">>, initial |-> "absent",
   transitions |-> <<[on |-> "acquire", from |-> "absent", to |-> "available"],
                     [on |-> "eat", from |-> "available", to |-> "consumed"]>>,
   operations |-> <<[on |-> "eat", forbidden |-> {"absent", "consumed"}],
                    [on |-> "acquire", forbidden |-> {"available", "consumed"}]>>,
   mustExit |-> {"consumed"}]

\* One whose states are left and entered again, checked strictly; its initial
\* state is no state to exit in.
Basket ==
  [schema |-> "0.2.0", strict |-> TRUE,
   states |-> <<"empty", "full">>, initial |-> "empty",
   transitions |-> <<[on |-> "acquire", from |-> "empty", to |-> "full"],
                     [on |-> "acquire", from |-> "full", to |-> "full"],
                     [on |-> "eat", from |-> "full", to |-> "empty"]>>,
   operations |-> <<[on |-> "look", forbidden |-> {"empty"}]>>,
   mustExit |-> {"full"}]

\* Contracts that validate refuses.
Adrift    == [Basket EXCEPT !.transitions = <<[on |-> "eat", from |-> "empty", to |-> "gone"]>>]
Ambiguous == [Egg EXCEPT !.transitions = <<[on |-> "eat", from |-> "available", to |-> "consumed"],
                                           [on |-> "eat", from |-> "available", to |-> "absent"]>>]
OldStrict == [Egg EXCEPT !.strict = TRUE]

MCProtocols == {Egg, Basket, Adrift, Ambiguous, OldStrict}

-----------------------------------------------------------------------------
allVars == <<model, vars, framesVars, traceVars>>

MCInit ==
  /\ model \in {"prepared", "frames", "trace"}
  /\ Init /\ FramesInit /\ TraceInit
  /\ model # "trace" => protocol = Egg

MCNext ==
  \/ model = "prepared" /\ Next       /\ UNCHANGED <<model, framesVars, traceVars>>
  \/ model = "frames"   /\ FramesNext /\ UNCHANGED <<model, vars, traceVars>>
  \/ model = "trace"    /\ TraceNext  /\ UNCHANGED <<model, vars, framesVars>>

MCSpec == MCInit /\ [][MCNext]_allVars
=============================================================================
