-------------------------------- MODULE Wharf --------------------------------
(***************************************************************************)
(* wharf::check (crates/pons-protocols/src/wharf.rs): the reference model  *)
(* that judges a recorded trace of delivery sessions.  Events of several   *)
(* sessions arrive interleaved; each is granted or denied, and a denied    *)
(* one is a violation.  The environment may record any events at all.      *)
(*                                                                         *)
(* The booleans and blank tests of one event (key, root, signature,        *)
(* durable, non-blank names) are always conjoined by the code: `evidence`  *)
(* stands for their conjunction.  Session.policy is stored and never read, *)
(* and is left out; so are the reason and the number of a violation.       *)
(***************************************************************************)
EXTENDS Naturals, Sequences

CONSTANTS Session, Nonce, Artifact,
          Blank,      \* String::new(), the artifact before Bind
          MaxTime     \* bound on Event.now, a u64 in the code

ASSUME BlankAssumption == Blank \notin Artifact
ASSUME TimeAssumption  == MaxTime \in Nat

VARIABLES
  state,      \* the State of each session, "Absent" while it has no entry
  expires,
  artifact,
  nonces,
  last,
  result,     \* of the event just checked
  violations, \* the sessions that violations name
  verdict,    \* "checking", then Ok ("done") or Err ("error")
  log,        \* history: the events granted to each session
  credential  \* history: the nonces granted to each session

sessions == <<state, expires, artifact, nonces>>
history  == <<log, credential>>
vars     == <<sessions, last, result, violations, verdict, history>>

Time     == 0..MaxTime
Ladder   == <<"Authenticated", "Bound", "Transferred", "Verified", "Committed">>
State    == {"Authenticated", "Bound", "Transferred", "Verified", "Committed", "RolledBack"}
Terminal == {"Committed", "RolledBack"}
Entry    == [to : State, artifact : Artifact \cup {Blank}, at : Time]

TypeOK ==
  /\ state \in [Session -> State \cup {"Absent"}]
  /\ expires \in [Session -> 0..(MaxTime + 1)]
  /\ artifact \in [Session -> Artifact \cup {Blank}]
  /\ nonces \subseteq Nonce
  /\ last \in Time
  /\ result \in {"none", "granted", "denied"}
  /\ violations \subseteq Session
  /\ verdict \in {"checking", "done", "error"}
  /\ log \in [Session -> Seq(Entry)]
  /\ credential \in [Session -> SUBSET Nonce]

Init ==
  /\ state = [s \in Session |-> "Absent"]
  /\ expires = [s \in Session |-> 0]
  /\ artifact = [s \in Session |-> Blank]
  /\ nonces = {}
  /\ last = 0
  /\ result = "none"
  /\ violations = {}
  /\ verdict = "checking"
  /\ log = [s \in Session |-> <<>>]
  /\ credential = [s \in Session |-> {}]

-----------------------------------------------------------------------------
\* The closure returned Err: a violation, and nothing else.
Deny(s) == /\ result' = "denied"
           /\ violations' = violations \cup {s}
           /\ UNCHANGED <<sessions, history>>

\* A well-formed event: `last` moves even if the event is then denied.
Receive(now) == /\ verdict = "checking" /\ now >= last
                /\ last' = now
                /\ UNCHANGED verdict

Grant(s, to, bound, new, now) ==
  /\ state' = [state EXCEPT ![s] = to]
  /\ artifact' = [artifact EXCEPT ![s] = bound]
  /\ nonces' = nonces \cup new
  /\ log' = [log EXCEPT ![s] = Append(@, [to |-> to, artifact |-> bound, at |-> now])]
  /\ credential' = [credential EXCEPT ![s] = @ \cup new]
  /\ result' = "granted"
  /\ UNCHANGED violations

\* Mutants: the session is checked for replay but not the nonce; the expiry
\* test is off by one; an expired session is still open to rollback.
FreshSessionOnly(s, n) == state[s] = "Absent"
LiveAtExpiry(s, now)   == state[s] # "Absent" /\ now <= expires[s]

Fresh(s, n)   == state[s] = "Absent" /\ n \notin nonces
Live(s, now)  == state[s] # "Absent" /\ now < expires[s]

Authenticate(s, now, n, until, evidence) ==
  /\ Receive(now)
  /\ \/ /\ evidence /\ until > now /\ Fresh(s, n)
        /\ expires' = [expires EXCEPT ![s] = until]
        /\ Grant(s, "Authenticated", Blank, {n}, now)
     \/ /\ ~(evidence /\ until > now /\ Fresh(s, n))
        /\ Deny(s)

Bind(s, now, a, evidence) ==
  /\ Receive(now)
  /\ \/ /\ Live(s, now) /\ state[s] = "Authenticated" /\ evidence
        /\ Grant(s, "Bound", a, {}, now)
        /\ UNCHANGED expires
     \/ /\ ~(Live(s, now) /\ state[s] = "Authenticated" /\ evidence)
        /\ Deny(s)

\* Mutant: the artifact is compared only when it is transferred.
MatchesOnTransfer(s, from, a) == state[s] = from /\ (from = "Bound" => a = artifact[s])

Matches(s, from, a) == state[s] = from /\ a = artifact[s]

\* Transfer, Verify and Commit have the same shape.
Climb(s, now, from, to, a, evidence) ==
  /\ Receive(now)
  /\ \/ /\ Live(s, now) /\ Matches(s, from, a) /\ evidence
        /\ Grant(s, to, a, {}, now)
        /\ UNCHANGED expires
     \/ /\ ~(Live(s, now) /\ Matches(s, from, a) /\ evidence)
        /\ Deny(s)

Transfer(s, now, a)         == Climb(s, now, "Bound", "Transferred", a, TRUE)
Verify(s, now, a, evidence) == Climb(s, now, "Transferred", "Verified", a, evidence)
Commit(s, now, a, evidence) == Climb(s, now, "Verified", "Committed", a, evidence)

\* Mutant: a committed session can be rolled back.
OpenUnlessRolledBack(s) == state[s] # "RolledBack"

Open(s) == state[s] \notin Terminal

Rollback(s, now) ==
  /\ Receive(now)
  /\ \/ /\ Live(s, now) /\ Open(s)
        /\ Grant(s, "RolledBack", artifact[s], {}, now)
        /\ UNCHANGED expires
     \/ /\ ~(Live(s, now) /\ Open(s))
        /\ Deny(s)

\* An empty or over-long trace, a blank session or time going back: check
\* returns Err and no verdict.
Malformed == /\ verdict = "checking" /\ verdict' = "error"
             /\ UNCHANGED <<sessions, last, result, violations, history>>

\* Mutant: sessions still open when the trace ends are not reported.
UnfinishedNone == {}

Unfinished == {s \in Session : state[s] \notin Terminal \cup {"Absent"}}

\* The trace, which has at least one event, is over.
End == /\ verdict = "checking" /\ result # "none"
       /\ verdict' = "done"
       /\ violations' = violations \cup Unfinished
       /\ UNCHANGED <<sessions, last, result, history>>

Next ==
  \/ \E s \in Session, now \in Time :
       \/ \E n \in Nonce, until \in 0..(MaxTime + 1), evidence \in BOOLEAN :
            Authenticate(s, now, n, until, evidence)
       \/ \E a \in Artifact, evidence \in BOOLEAN :
            \/ Bind(s, now, a, evidence)
            \/ Verify(s, now, a, evidence)
            \/ Commit(s, now, a, evidence)
       \/ \E a \in Artifact : Transfer(s, now, a)
       \/ Rollback(s, now)
  \/ Malformed
  \/ End

Spec == Init /\ [][Next]_vars

-----------------------------------------------------------------------------
Reached(s, k) == log[s][k].to

(* A session is where its own granted events, and no others, have brought  *)
(* it: they climb the ladder from Authenticated without skipping a step,   *)
(* end with RolledBack only below Committed, and their times never go back *)
(* and stay below the expiry the session was opened with.                  *)
EarnedStates ==
  \A s \in Session :
    /\ state[s] = IF log[s] = <<>> THEN "Absent" ELSE Reached(s, Len(log[s]))
    /\ \A k \in 1..Len(log[s]) :
         \/ k <= 5 /\ Reached(s, k) = Ladder[k]
         \/ k = Len(log[s]) /\ k \in 2..5 /\ Reached(s, k) = "RolledBack"
    /\ \A k \in 1..Len(log[s]) : log[s][k].at < expires[s]
    /\ \A j, k \in 1..Len(log[s]) : j <= k => log[s][j].at <= log[s][k].at

(* What a session transferred, verified and committed is what it bound:    *)
(* one artifact from Bind on, whatever other sessions bind in between      *)
(* ("cross-session artifact mismatches ... are denied",                    *)
(* docs/PROTOCOL-MODELS.adoc).                                             *)
OneArtifact ==
  \A s \in Session : \A k \in 2..Len(log[s]) :
    Reached(s, 2) = "Bound" => log[s][k].artifact = log[s][2].artifact

(* Every session was opened by one nonce of its own, and the set of nonces *)
(* seen holds no other: a nonce opens at most one session, and a denied    *)
(* authentication does not consume one.                                    *)
NonceOpensOneSession ==
  /\ \A s \in Session :
       IF state[s] = "Absent" THEN credential[s] = {}
       ELSE \E n \in Nonce : credential[s] = {n}
  /\ \A s, t \in Session : s # t => credential[s] \cap credential[t] = {}
  /\ nonces = UNION {credential[s] : s \in Session}

(* A trace is accepted without violations only if every session it opened  *)
(* was committed or rolled back, and it opened one.                        *)
CleanTracesFinish ==
  verdict = "done" /\ violations = {} =>
    /\ \E s \in Session : state[s] \in Terminal
    /\ \A s \in Session : state[s] \in Terminal \cup {"Absent"}

(* "Every denied event leaves state unchanged" (wharf.rs:63), the nonces   *)
(* seen included; and a violation once recorded is never withdrawn.        *)
DeniedChangesNothing ==
  [][ /\ violations \subseteq violations'
      /\ result' = "denied" => UNCHANGED sessions ]_vars

(* Once the time of the trace has reached a session's expiry nothing can   *)
(* finish it, not even Rollback: an unfinished session that expires is a   *)
(* violation of every continuation.                                        *)
Expired(s) == state[s] \notin Terminal \cup {"Absent"} /\ last >= expires[s]
ExpiryIsFinal ==
  [][ \A s \in Session : Expired(s) =>
        /\ state'[s] = state[s]
        /\ verdict' = "done" => s \in violations' ]_vars
=============================================================================
