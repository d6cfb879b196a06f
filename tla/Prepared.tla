------------------------------ MODULE Prepared ------------------------------
(***************************************************************************)
(* policy::Prepared (crates/pons-protocols/src/policy.rs): summaries of    *)
(* prepared statements, bound and then executed under an allow-list.  The  *)
(* adapter may call in any order; it may prepare a name again.             *)
(***************************************************************************)
EXTENDS Naturals, Sequences, Functions

CONSTANTS
  Id,
  Table,
  Allow,         \* the tables of the allow-list
  MaxStatements  \* bound on the statements of one summary

ASSUME PolicyAssumption == Allow \subseteq Table /\ MaxStatements \in Nat

Read     == [kind |-> "read"]
Unknown  == [kind |-> "unknown"]
Write(t) == [kind |-> "write", table |-> t]

Statement == {Read, Unknown} \cup {Write(t) : t \in Table}
Summary   == UNION {[1..n -> Statement] : n \in 0..MaxStatements}

VARIABLES
  statements,  \* the summaries by id: a function
  bound,
  accepted     \* history: the summary each bind accepted last: a function

vars == <<statements, bound, accepted>>

TypeOK ==
  /\ DOMAIN statements \subseteq Id /\ Range(statements) \subseteq Summary
  /\ bound \subseteq DOMAIN statements \cap DOMAIN accepted
  /\ DOMAIN accepted \subseteq Id /\ Range(accepted) \subseteq Summary

Init == statements = <<>> /\ bound = {} /\ accepted = <<>>

\* BTreeMap::insert.
Put(map, i, value) == [j \in DOMAIN map \cup {i} |-> IF j = i THEN value ELSE map[j]]

Forbidden(s) == s.kind = "write" /\ s.table \notin Allow

\* Mutant: an unknown statement is passed over.
DecideKnown(summary, resolved) ==
  IF ~resolved \/ summary = <<>> THEN "unknown"
  ELSE IF \E s \in Range(summary) : Forbidden(s) THEN "deny" ELSE "allow"

Decide(summary, resolved) ==
  IF ~resolved \/ summary = <<>> THEN "unknown"
  ELSE IF \E s \in Range(summary) : Forbidden(s) THEN "deny"
  ELSE IF Unknown \in Range(summary) THEN "unknown" ELSE "allow"

\* Mutant: a name prepared again stays bound.
PrepareBound(i, summary) ==
  /\ statements' = Put(statements, i, summary)
  /\ UNCHANGED <<bound, accepted>>

Prepare(i, summary) ==
  /\ bound' = bound \ {i}
  /\ statements' = Put(statements, i, summary)
  /\ UNCHANGED accepted

Bind(i) ==
  \/ /\ i \in DOMAIN statements
     /\ bound' = bound \cup {i}
     /\ accepted' = Put(accepted, i, statements[i])
     /\ UNCHANGED statements
  \/ i \notin DOMAIN statements /\ UNCHANGED vars

\* execute changes nothing: what it would answer in this state.
Execute(i) == IF i \in bound THEN Decide(statements[i], TRUE) ELSE "unknown"

Next == \E i \in Id : Bind(i) \/ \E summary \in Summary : Prepare(i, summary)

Spec == Init /\ [][Next]_vars

-----------------------------------------------------------------------------
\* The tables a summary may write: an unknown statement may write any.
MayWrite(summary)  == IF Unknown \in Range(summary) THEN Table
                      ELSE {t \in Table : Write(t) \in Range(summary)}
MustWrite(summary) == {t \in Table : Write(t) \in Range(summary)}

(* "preserves statement summaries across prepare, bind and execute,        *)
(* invalidates binding on reprepare" (docs/PROTOCOL-MODELS.adoc:23-24): a  *)
(* decision is about the summary that was bound, whatever was prepared     *)
(* since.  Allowed, it cannot write outside the list; denied, it does.     *)
DecisionIsOfTheBound ==
  \A i \in Id :
    /\ Execute(i) = "allow" => accepted[i] # <<>> /\ MayWrite(accepted[i]) \subseteq Allow
    /\ Execute(i) = "deny"  => MustWrite(accepted[i]) \ Allow # {}
=============================================================================
