----------------------------- MODULE WharfProofs -----------------------------
(***************************************************************************)
(* Proofs about Wharf, for any sets of sessions, nonces and artifacts and  *)
(* any clock.  Every granted event is an instance of one LegalGrant, so    *)
(* the invariant is preserved by one lemma about it.                       *)
(***************************************************************************)
EXTENDS Wharf, TLAPS

(* The times granted so far are not ahead of the trace, and a bound        *)
(* session's entries name the artifact it holds.                           *)
Recorded ==
  \A s \in Session :
    /\ \A k \in 1..Len(log[s]) : log[s][k].at <= last
    /\ \A k \in 2..Len(log[s]) :
         Reached(s, 2) = "Bound" => log[s][k].artifact = artifact[s]

IInv == TypeOK /\ EarnedStates /\ Recorded

(* What the three kinds of grant have in common.                           *)
Opening(s, to, new) ==
  state[s] = "Absent" /\ to = "Authenticated" /\ \E n \in Nonce \ nonces : new = {n}
Climbing(s, to, bound, new) ==
  new = {} /\ \E k \in 1..4 : /\ state[s] = Ladder[k] /\ to = Ladder[k + 1]
                              /\ k >= 2 => bound = artifact[s]
Closing(s, to, bound, new) ==
  new = {} /\ state[s] \in State \ Terminal /\ to = "RolledBack" /\ bound = artifact[s]

LegalGrant(s, to, bound, new, now) ==
  /\ s \in Session /\ now \in Time /\ bound \in Artifact \cup {Blank}
  /\ new \subseteq Nonce
  /\ Receive(now)
  /\ expires' \in [Session -> 0..(MaxTime + 1)]
  /\ \A t \in Session : state[t] # "Absent" => expires'[t] = expires[t]
  /\ \A t \in Session \ {s} : expires'[t] = expires[t]
  /\ now < expires'[s]
  /\ Opening(s, to, new) \/ Climbing(s, to, bound, new) \/ Closing(s, to, bound, new)
  /\ Grant(s, to, bound, new, now)

(* A grant keeps the types.                                                *)
LEMMA GrantType ==
  \A s, to, bound, new, now :
    TypeOK /\ LegalGrant(s, to, bound, new, now) => TypeOK'
<1> SUFFICES ASSUME NEW s, NEW to, NEW bound, NEW new, NEW now,
                    TypeOK, LegalGrant(s, to, bound, new, now)
             PROVE  TypeOK'
  OBVIOUS
<1>1. s \in Session /\ now \in Time /\ bound \in Artifact \cup {Blank} /\ new \subseteq Nonce
  BY DEF LegalGrant
<1>2. to \in State
  BY DEF LegalGrant, Opening, Climbing, Closing, Ladder, State
<1>3. [to |-> to, artifact |-> bound, at |-> now] \in Entry
  BY <1>1, <1>2 DEF Entry
<1>4. log' \in [Session -> Seq(Entry)]
  BY <1>1, <1>3 DEF LegalGrant, Grant, TypeOK
<1>5. state' \in [Session -> State \cup {"Absent"}] /\ artifact' \in [Session -> Artifact \cup {Blank}]
  BY <1>1, <1>2 DEF LegalGrant, Grant, TypeOK
<1>6. credential' \in [Session -> SUBSET Nonce] /\ nonces' \subseteq Nonce
  BY <1>1 DEF LegalGrant, Grant, TypeOK
<1> QED BY <1>1, <1>4, <1>5, <1>6 DEF LegalGrant, Grant, Receive, TypeOK

(* A grant appends to the log of its session and to no other.              *)
LEMMA GrantLog ==
  \A s, to, bound, new, now :
    TypeOK /\ LegalGrant(s, to, bound, new, now) =>
      /\ \A t \in Session \ {s} : log'[t] = log[t] /\ state'[t] = state[t] /\ artifact'[t] = artifact[t]
      /\ state'[s] = to /\ artifact'[s] = bound /\ last' = now
      /\ Len(log'[s]) = Len(log[s]) + 1
      /\ \A k \in 1..Len(log[s]) : log'[s][k] = log[s][k]
      /\ log'[s][Len(log[s]) + 1] = [to |-> to, artifact |-> bound, at |-> now]
<1> SUFFICES ASSUME NEW s, NEW to, NEW bound, NEW new, NEW now,
                    TypeOK, LegalGrant(s, to, bound, new, now)
             PROVE  /\ \A t \in Session \ {s} : log'[t] = log[t] /\ state'[t] = state[t] /\ artifact'[t] = artifact[t]
                    /\ state'[s] = to /\ artifact'[s] = bound /\ last' = now
                    /\ Len(log'[s]) = Len(log[s]) + 1
                    /\ \A k \in 1..Len(log[s]) : log'[s][k] = log[s][k]
                    /\ log'[s][Len(log[s]) + 1] = [to |-> to, artifact |-> bound, at |-> now]
  OBVIOUS
<1> DEFINE e == [to |-> to, artifact |-> bound, at |-> now]
<1>1. s \in Session /\ now \in Time /\ bound \in Artifact \cup {Blank}
  BY DEF LegalGrant
<1>2. to \in State
  BY DEF LegalGrant, Opening, Climbing, Closing, Ladder, State
<1>3. e \in Entry
  BY <1>1, <1>2 DEF Entry
<1>4. log[s] \in Seq(Entry) /\ log'[s] = Append(log[s], e)
  BY <1>1 DEF LegalGrant, Grant, TypeOK
<1>5. /\ Len(log'[s]) = Len(log[s]) + 1
      /\ \A k \in 1..Len(log[s]) : log'[s][k] = log[s][k]
      /\ log'[s][Len(log[s]) + 1] = e
  <2> HIDE DEF e
  <2> QED BY <1>3, <1>4
<1>6. /\ \A t \in Session \ {s} : log'[t] = log[t] /\ state'[t] = state[t] /\ artifact'[t] = artifact[t]
      /\ state'[s] = to /\ artifact'[s] = bound /\ last' = now
  BY <1>1 DEF LegalGrant, Grant, Receive, TypeOK
<1> QED BY <1>5, <1>6

(* The five rungs, and that they differ.                                   *)
LEMMA Rungs ==
  /\ Ladder[1] = "Authenticated" /\ Ladder[2] = "Bound" /\ Ladder[3] = "Transferred"
  /\ Ladder[4] = "Verified" /\ Ladder[5] = "Committed"
  /\ \A j, k \in 1..5 : Ladder[j] = Ladder[k] => j = k
  /\ \A k \in 1..5 : Ladder[k] \notin {"Absent", "RolledBack"}
BY DEF Ladder

(* Where a session stands tells how long its log is.                       *)
LEMMA Standing ==
  TypeOK /\ EarnedStates =>
    \A s \in Session :
      /\ Len(log[s]) \in Nat
      /\ state[s] = "Absent" => Len(log[s]) = 0
      /\ \A k \in 1..4 : state[s] = Ladder[k] => Len(log[s]) = k
      /\ state[s] \in State \ Terminal => Len(log[s]) \in 1..4
      /\ state[s] # "RolledBack" => \A k \in 1..Len(log[s]) : k <= 5 /\ Reached(s, k) = Ladder[k]
<1> SUFFICES ASSUME TypeOK, EarnedStates, NEW s \in Session
             PROVE  /\ Len(log[s]) \in Nat
                    /\ state[s] = "Absent" => Len(log[s]) = 0
                    /\ \A k \in 1..4 : state[s] = Ladder[k] => Len(log[s]) = k
                    /\ state[s] \in State \ Terminal => Len(log[s]) \in 1..4
                    /\ state[s] # "RolledBack" => \A k \in 1..Len(log[s]) : k <= 5 /\ Reached(s, k) = Ladder[k]
  OBVIOUS
<1> DEFINE n == Len(log[s])
<1>1. log[s] \in Seq(Entry) /\ n \in Nat
  BY DEF TypeOK
<1>2. n = 0 <=> log[s] = <<>>
  BY <1>1
<1>3. n > 0 => /\ state[s] = Reached(s, n)
               /\ \/ n <= 5 /\ Reached(s, n) = Ladder[n]
                  \/ n \in 2..5 /\ Reached(s, n) = "RolledBack"
  <2> SUFFICES ASSUME n > 0 PROVE /\ state[s] = Reached(s, n)
                                  /\ \/ n <= 5 /\ Reached(s, n) = Ladder[n]
                                     \/ n \in 2..5 /\ Reached(s, n) = "RolledBack"
    OBVIOUS
  <2>1. n \in 1..n /\ log[s] # <<>>
    BY <1>1, <1>2
  <2> QED BY <2>1 DEF EarnedStates
<1>4. n = 0 => state[s] = "Absent"
  BY <1>2 DEF EarnedStates
<1>5. n > 0 => state[s] # "Absent"
  <2> SUFFICES ASSUME n > 0 PROVE state[s] # "Absent"
    OBVIOUS
  <2>1. CASE n <= 5 /\ Reached(s, n) = Ladder[n]
    <3>0. n <= 5 /\ n > 0 /\ n \in Nat
      BY <1>1, <2>1
    <3>1. n \in 1..5
      <4> HIDE DEF n
      <4> QED BY <3>0
    <3> QED BY <1>3, <2>1, <3>1, Rungs
  <2>2. CASE Reached(s, n) = "RolledBack"
    BY <1>3, <2>2
  <2> QED BY <1>3, <2>1, <2>2
<1>6. \A k \in 1..4 : state[s] = Ladder[k] => n = k
  <2> SUFFICES ASSUME NEW k \in 1..4, state[s] = Ladder[k] PROVE n = k
    OBVIOUS
  <2>0. k \in 1..5 /\ Ladder[k] \notin {"Absent", "RolledBack"}
    BY Rungs
  <2>1. n > 0
    BY <1>1, <1>4, <2>0
  <2>2. n \in 1..5 /\ Ladder[n] = Ladder[k]
    <3> HIDE DEF n
    <3>1. n <= 5 /\ Ladder[n] = Ladder[k]
      BY <1>3, <2>0, <2>1
    <3> QED BY <1>1, <2>1, <3>1
  <2> QED BY <2>0, <2>2, Rungs
<1>7. state[s] \in State \ Terminal => n \in 1..4
  <2> SUFFICES ASSUME state[s] \in State \ Terminal PROVE n \in 1..4
    OBVIOUS
  <2>1. \E k \in 1..4 : state[s] = Ladder[k]
    BY DEF State, Terminal, Ladder
  <2> QED BY <1>6, <2>1
<1>8. state[s] # "RolledBack" => \A k \in 1..n : k <= 5 /\ Reached(s, k) = Ladder[k]
  BY <1>1, <1>3 DEF EarnedStates
<1> QED BY <1>1, <1>2, <1>4, <1>5, <1>6, <1>7, <1>8

(* A step that grants nothing: a denial, the end of the trace or an error. *)
Idle == /\ UNCHANGED <<sessions, history>>
        /\ last' \in Time /\ last' >= last
        /\ result' \in {"none", "granted", "denied"}
        /\ violations' \subseteq Session
        /\ verdict' \in {"checking", "done", "error"}

(* Every step is a legal grant or idle.                                    *)
LEMMA StepCases ==
  TypeOK /\ [Next]_vars =>
    \/ Idle
    \/ \E s, to, bound, new, now : LegalGrant(s, to, bound, new, now)
<1> SUFFICES ASSUME TypeOK, [Next]_vars
             PROVE  \/ Idle
                    \/ \E s, to, bound, new, now : LegalGrant(s, to, bound, new, now)
  OBVIOUS
<1>0. \A s \in Session, now \in Time : Receive(now) /\ Deny(s) => Idle
  BY DEF Idle, Receive, Deny, TypeOK, Time, sessions, history
<1>1. ASSUME NEW s \in Session, NEW now \in Time, NEW n \in Nonce,
             NEW until \in 0..(MaxTime + 1), NEW evidence \in BOOLEAN,
             Authenticate(s, now, n, until, evidence)
      PROVE  Idle \/ LegalGrant(s, "Authenticated", Blank, {n}, now)
  <2>1. CASE Deny(s)
    BY <1>0, <1>1, <2>1 DEF Authenticate
  <2>2. CASE /\ until > now /\ Fresh(s, n)
             /\ expires' = [expires EXCEPT ![s] = until]
             /\ Grant(s, "Authenticated", Blank, {n}, now)
    BY <1>1, <2>2 DEF Authenticate, LegalGrant, Opening, Fresh, TypeOK, Time
  <2> QED BY <1>1, <2>1, <2>2 DEF Authenticate
<1>2. ASSUME NEW s \in Session, NEW now \in Time, NEW a \in Artifact,
             NEW evidence \in BOOLEAN, Bind(s, now, a, evidence)
      PROVE  Idle \/ LegalGrant(s, "Bound", a, {}, now)
  <2>1. CASE Deny(s)
    BY <1>0, <1>2, <2>1 DEF Bind
  <2>2. CASE /\ Live(s, now) /\ state[s] = "Authenticated"
             /\ Grant(s, "Bound", a, {}, now) /\ UNCHANGED expires
    <3>1. Climbing(s, "Bound", a, {})
      BY <2>2, Rungs DEF Climbing
    <3> QED BY <1>2, <2>2, <3>1 DEF Bind, LegalGrant, Live, TypeOK
  <2> QED BY <1>2, <2>1, <2>2 DEF Bind
<1>3. ASSUME NEW s \in Session, NEW now \in Time, NEW a \in Artifact,
             NEW evidence, NEW k \in 2..4,
             Climb(s, now, Ladder[k], Ladder[k + 1], a, evidence)
      PROVE  Idle \/ LegalGrant(s, Ladder[k + 1], a, {}, now)
  <2>1. CASE Deny(s)
    BY <1>0, <1>3, <2>1 DEF Climb
  <2>2. CASE /\ Live(s, now) /\ Matches(s, Ladder[k], a)
             /\ Grant(s, Ladder[k + 1], a, {}, now) /\ UNCHANGED expires
    <3>1. Climbing(s, Ladder[k + 1], a, {})
      BY <2>2 DEF Climbing, Matches
    <3> QED BY <1>3, <2>2, <3>1 DEF Climb, LegalGrant, Live, TypeOK
  <2> QED BY <1>3, <2>1, <2>2 DEF Climb
<1>4. ASSUME NEW s \in Session, NEW now \in Time, Rollback(s, now)
      PROVE  Idle \/ LegalGrant(s, "RolledBack", artifact[s], {}, now)
  <2>1. CASE Deny(s)
    BY <1>0, <1>4, <2>1 DEF Rollback
  <2>2. CASE /\ Live(s, now) /\ Open(s)
             /\ Grant(s, "RolledBack", artifact[s], {}, now) /\ UNCHANGED expires
    <3>1. Closing(s, "RolledBack", artifact[s], {})
      BY <2>2 DEF Closing, Live, Open, TypeOK
    <3> QED BY <1>4, <2>2, <3>1 DEF Rollback, LegalGrant, Live, TypeOK
  <2> QED BY <1>4, <2>1, <2>2 DEF Rollback
<1>5. CASE Malformed
  BY <1>5 DEF Malformed, Idle, TypeOK, Time, sessions, history
<1>6. CASE End
  BY <1>6 DEF End, Idle, TypeOK, Time, Unfinished, sessions, history
<1>7. CASE UNCHANGED vars
  BY <1>7 DEF vars, Idle, TypeOK, Time, sessions, history
<1>8. ASSUME NEW s \in Session, NEW now \in Time, NEW a \in Artifact,
             NEW evidence \in BOOLEAN,
             Transfer(s, now, a) \/ Verify(s, now, a, evidence) \/ Commit(s, now, a, evidence)
      PROVE  Idle \/ \E to : LegalGrant(s, to, a, {}, now)
  <2>0. /\ Ladder[2] = "Bound" /\ Ladder[2 + 1] = "Transferred"
        /\ Ladder[3] = "Transferred" /\ Ladder[3 + 1] = "Verified"
        /\ Ladder[4] = "Verified" /\ Ladder[4 + 1] = "Committed"
    BY DEF Ladder
  <2>1. CASE Transfer(s, now, a)
    <3>1. Climb(s, now, Ladder[2], Ladder[2 + 1], a, TRUE)
      BY <2>0, <2>1 DEF Transfer
    <3>2. 2 \in 2..4
      OBVIOUS
    <3> QED BY <1>3, <3>1, <3>2, Zenon
  <2>2. CASE Verify(s, now, a, evidence)
    <3>1. Climb(s, now, Ladder[3], Ladder[3 + 1], a, evidence)
      BY <2>0, <2>2 DEF Verify
    <3> QED BY <1>3, <3>1
  <2>3. CASE Commit(s, now, a, evidence)
    <3>1. Climb(s, now, Ladder[4], Ladder[4 + 1], a, evidence)
      BY <2>0, <2>3 DEF Commit
    <3> QED BY <1>3, <3>1
  <2> QED BY <1>8, <2>1, <2>2, <2>3
<1>9. ASSUME NEW s \in Session, NEW now \in Time,
             \/ \E n \in Nonce, until \in 0..(MaxTime + 1), evidence \in BOOLEAN :
                  Authenticate(s, now, n, until, evidence)
             \/ \E a \in Artifact, evidence \in BOOLEAN :
                  \/ Bind(s, now, a, evidence)
                  \/ Verify(s, now, a, evidence)
                  \/ Commit(s, now, a, evidence)
             \/ \E a \in Artifact : Transfer(s, now, a)
             \/ Rollback(s, now)
      PROVE  Idle \/ \E to, bound, new : LegalGrant(s, to, bound, new, now)
  <2>1. CASE \E n \in Nonce, until \in 0..(MaxTime + 1), evidence \in BOOLEAN :
               Authenticate(s, now, n, until, evidence)
    BY <1>1, <2>1
  <2>2. CASE \E a \in Artifact, evidence \in BOOLEAN : Bind(s, now, a, evidence)
    BY <1>2, <2>2
  <2>3. CASE \E a \in Artifact, evidence \in BOOLEAN :
               \/ Transfer(s, now, a)
               \/ Verify(s, now, a, evidence)
               \/ Commit(s, now, a, evidence)
    BY <1>8, <2>3
  <2>4. CASE Rollback(s, now)
    BY <1>4, <2>4
  <2>5. (\E a \in Artifact : Transfer(s, now, a)) =>
          \E a \in Artifact, evidence \in BOOLEAN : Transfer(s, now, a)
    OBVIOUS
  <2> QED BY <1>9, <2>1, <2>2, <2>3, <2>4, <2>5
<1> QED BY <1>5, <1>6, <1>7, <1>9 DEF Next

(* What a log holds is entries, with times.                                *)
LEMMA LogTimes ==
  TypeOK => \A s \in Session : \A k \in 1..Len(log[s]) : log[s][k].at \in Nat
<1> SUFFICES ASSUME TypeOK, NEW s \in Session, NEW k \in 1..Len(log[s])
             PROVE  log[s][k].at \in Nat
  OBVIOUS
<1>1. log[s] \in Seq(Entry)
  BY DEF TypeOK
<1>2. log[s][k] \in Entry
  BY <1>1
<1>3. log[s][k].at \in Time
  BY <1>2 DEF Entry
<1> QED BY <1>3, TimeAssumption DEF Time

(* An idle step moves only the clock of the trace.                         *)
LEMMA IdleInductive == IInv /\ Idle => IInv'
<1> SUFFICES ASSUME IInv, Idle PROVE IInv'
  OBVIOUS
<1>1. /\ state' = state /\ expires' = expires /\ artifact' = artifact
      /\ nonces' = nonces /\ log' = log /\ credential' = credential
  BY DEF Idle, sessions, history
<1>2. TypeOK'
  BY <1>1 DEF IInv, TypeOK, Idle
<1>3. EarnedStates'
  BY <1>1 DEF IInv, EarnedStates, Reached
<1>4. Recorded'
  <2>1. \A s \in Session : \A k \in 1..Len(log[s]) : log[s][k].at \in Nat
    BY LogTimes DEF IInv
  <2> QED BY <1>1, <2>1 DEF IInv, TypeOK, Recorded, Reached, Idle, Time
<1> QED BY <1>2, <1>3, <1>4 DEF IInv

(* A grant leaves its session on the rung it names, in time.               *)
LEMMA GrantInductive ==
  \A s, to, bound, new, now :
    IInv /\ LegalGrant(s, to, bound, new, now) => IInv'
<1> SUFFICES ASSUME NEW s, NEW to, NEW bound, NEW new, NEW now,
                    IInv, LegalGrant(s, to, bound, new, now)
             PROVE  IInv'
  OBVIOUS
<1> DEFINE n == Len(log[s])
           e == [to |-> to, artifact |-> bound, at |-> now]
<1>1. TypeOK'
  BY GrantType DEF IInv
<1>2. /\ \A t \in Session \ {s} : log'[t] = log[t] /\ state'[t] = state[t] /\ artifact'[t] = artifact[t]
      /\ state'[s] = to /\ artifact'[s] = bound /\ last' = now
      /\ Len(log'[s]) = n + 1
      /\ \A k \in 1..n : log'[s][k] = log[s][k]
      /\ log'[s][n + 1] = e
  BY GrantLog DEF IInv
<1>3. /\ s \in Session /\ n \in Nat /\ now \in Nat /\ now < expires'[s]
      /\ now >= last /\ last \in Nat
      /\ \A t \in Session \ {s} : expires'[t] = expires[t]
      /\ state[s] # "Absent" => expires'[s] = expires[s]
  BY DEF LegalGrant, Receive, IInv, TypeOK, Time
<1>4. \A k \in 1..n : log[s][k].at \in Nat /\ log[s][k].at <= last
  BY <1>3, LogTimes DEF IInv, Recorded
<1>5. \A k \in 1..n : log[s][k].at < expires'[s]
  <2>1. n > 0 => state[s] # "Absent"
    BY Standing, <1>3 DEF IInv
  <2> QED BY <1>3, <2>1 DEF IInv, EarnedStates
<1>6. e.to = to /\ e.artifact = bound /\ e.at = now
  OBVIOUS
<1>7. /\ to = "RolledBack" => n + 1 \in 2..5
      /\ to # "RolledBack" => n + 1 <= 5 /\ to = Ladder[n + 1]
      /\ \A k \in 1..n : k <= 5 /\ Reached(s, k) = Ladder[k]
  <2>1. CASE Opening(s, to, new)
    BY <1>3, <2>1, Standing, Rungs DEF IInv, Opening
  <2>2. CASE Climbing(s, to, bound, new)
    <3>1. PICK k \in 1..4 : state[s] = Ladder[k] /\ to = Ladder[k + 1]
      BY <2>2 DEF Climbing
    <3>2. n = k /\ state[s] # "RolledBack" /\ to # "RolledBack"
      <4>1. k \in 1..5 /\ k + 1 \in 1..5
        OBVIOUS
      <4>2. state[s] # "RolledBack" /\ to # "RolledBack"
        BY <3>1, <4>1, Rungs
      <4>3. n = k
        BY <1>3, <3>1, Standing DEF IInv
      <4> QED BY <4>2, <4>3
    <3>3. \A j \in 1..n : j <= 5 /\ Reached(s, j) = Ladder[j]
      BY <1>3, <3>2, Standing DEF IInv
    <3>5. k + 1 <= 5
      OBVIOUS
    <3>4. n + 1 <= 5 /\ to = Ladder[n + 1]
      <4> HIDE DEF n
      <4> QED BY <3>1, <3>2, <3>5
    <3> QED BY <3>2, <3>3, <3>4
  <2>3. CASE Closing(s, to, bound, new)
    <3>1. state[s] # "RolledBack" /\ n \in 1..4 /\ to = "RolledBack"
      BY <1>3, <2>3, Standing DEF IInv, Closing, Terminal
    <3>2. \A k \in 1..n : k <= 5 /\ Reached(s, k) = Ladder[k]
      BY <1>3, <3>1, Standing DEF IInv
    <3>3. n + 1 \in 2..5
      <4> HIDE DEF n
      <4> QED BY <3>1
    <3> QED BY <3>1, <3>2, <3>3
  <2> QED BY <2>1, <2>2, <2>3 DEF LegalGrant
<1>8. n >= 2 => bound = artifact[s]
  <2>1. CASE Opening(s, to, new)
    BY <1>3, <2>1, Standing DEF IInv, Opening
  <2>2. CASE Climbing(s, to, bound, new)
    BY <1>3, <2>2, Standing DEF IInv, Climbing
  <2>3. CASE Closing(s, to, bound, new)
    BY <2>3 DEF Closing
  <2> QED BY <2>1, <2>2, <2>3 DEF LegalGrant
<1>9. ASSUME NEW t \in Session, t # s
      PROVE  /\ state'[t] = IF log'[t] = <<>> THEN "Absent" ELSE log'[t][Len(log'[t])].to
             /\ \A k \in 1..Len(log'[t]) :
                  \/ k <= 5 /\ log'[t][k].to = Ladder[k]
                  \/ k = Len(log'[t]) /\ k \in 2..5 /\ log'[t][k].to = "RolledBack"
             /\ \A k \in 1..Len(log'[t]) : log'[t][k].at < expires'[t]
             /\ \A j, k \in 1..Len(log'[t]) : j <= k => log'[t][j].at <= log'[t][k].at
             /\ \A k \in 1..Len(log'[t]) : log'[t][k].at <= last'
             /\ \A k \in 2..Len(log'[t]) :
                  log'[t][2].to = "Bound" => log'[t][k].artifact = artifact'[t]
  <2>1. log'[t] = log[t] /\ state'[t] = state[t] /\ artifact'[t] = artifact[t] /\ expires'[t] = expires[t]
    BY <1>2, <1>3, <1>9
  <2>2. \A k \in 1..Len(log[t]) : log[t][k].at \in Nat
    BY LogTimes DEF IInv
  <2>3. \A k \in 1..Len(log[t]) : log[t][k].at <= last'
    BY <1>2, <1>3, <2>2 DEF IInv, Recorded
  <2> QED BY <2>1, <2>3 DEF IInv, EarnedStates, Recorded, Reached
<1>10. \A k \in 1..(n + 1) : k \in 1..n \/ k = n + 1
  BY <1>3
<1>11. /\ state'[s] = IF log'[s] = <<>> THEN "Absent" ELSE log'[s][Len(log'[s])].to
       /\ \A k \in 1..Len(log'[s]) :
            \/ k <= 5 /\ log'[s][k].to = Ladder[k]
            \/ k = Len(log'[s]) /\ k \in 2..5 /\ log'[s][k].to = "RolledBack"
  <2>1. log'[s] # <<>>
    BY <1>1, <1>2, <1>3 DEF TypeOK
  <2> HIDE DEF e
  <2>2. state'[s] = log'[s][Len(log'[s])].to
    BY <1>2, <1>6
  <2>3. \A k \in 1..n : k <= 5 /\ log'[s][k].to = Ladder[k]
    BY <1>2, <1>7 DEF Reached
  <2>4. \/ n + 1 <= 5 /\ log'[s][n + 1].to = Ladder[n + 1]
        \/ n + 1 \in 2..5 /\ log'[s][n + 1].to = "RolledBack"
    BY <1>2, <1>6, <1>7
  <2> QED BY <1>2, <1>10, <2>1, <2>2, <2>3, <2>4
<1>12. /\ \A k \in 1..Len(log'[s]) : log'[s][k].at < expires'[s]
       /\ \A j, k \in 1..Len(log'[s]) : j <= k => log'[s][j].at <= log'[s][k].at
       /\ \A k \in 1..Len(log'[s]) : log'[s][k].at <= last'
  <2> HIDE DEF e
  <2>1. \A k \in 1..n : log'[s][k].at = log[s][k].at
    BY <1>2
  <2>2. log'[s][n + 1].at = now
    BY <1>2, <1>6
  <2>3. \A j, k \in 1..n : j <= k => log[s][j].at <= log[s][k].at
    BY <1>3 DEF IInv, EarnedStates
  <2>4. \A k \in 1..(n + 1) : log'[s][k].at < expires'[s] /\ log'[s][k].at <= now
    <3>1. \A k \in 1..n : log[s][k].at <= now
      BY <1>3, <1>4
    <3> QED BY <1>3, <1>5, <1>10, <2>1, <2>2, <3>1
  <2>5. ASSUME NEW j \in 1..(n + 1), NEW k \in 1..(n + 1), j <= k
        PROVE  log'[s][j].at <= log'[s][k].at
    <3>1. CASE k = n + 1
      BY <2>2, <2>4, <3>1
    <3>2. CASE k \in 1..n
      <4>1. j \in 1..n
        BY <1>3, <2>5, <3>2
      <4> QED BY <2>1, <2>3, <2>5, <3>2, <4>1
    <3> QED BY <1>10, <3>1, <3>2
  <2> QED BY <1>2, <2>4, <2>5
<1>13. \A k \in 2..Len(log'[s]) :
         log'[s][2].to = "Bound" => log'[s][k].artifact = artifact'[s]
  <2> HIDE DEF e
  <2>1. log'[s][n + 1].artifact = bound
    BY <1>2, <1>6
  <2>2. n >= 2 => \A k \in 2..n : log[s][2].to = "Bound" => log[s][k].artifact = artifact[s]
    BY <1>3 DEF IInv, Recorded, Reached
  <2>3. n >= 2 => log'[s][2] = log[s][2]
    BY <1>2, <1>3
  <2>4. \A k \in 2..n : log'[s][k] = log[s][k]
    BY <1>2, <1>3
  <2>5. \A k \in 2..(n + 1) : k = n + 1 \/ (n >= 2 /\ k \in 2..n)
    BY <1>3
  <2> QED BY <1>2, <1>8, <2>1, <2>2, <2>3, <2>4, <2>5
<1>14. EarnedStates'
  BY <1>9, <1>11, <1>12 DEF EarnedStates, Reached
<1>15. Recorded'
  BY <1>9, <1>12, <1>13 DEF Recorded, Reached
<1> QED BY <1>1, <1>14, <1>15 DEF IInv

(* The invariant holds of the empty trace.                                 *)
LEMMA InitInductive == Init => IInv
<1> SUFFICES ASSUME Init PROVE IInv
  OBVIOUS
<1>1. TypeOK
  BY TimeAssumption DEF Init, TypeOK, Time
<1>2. \A s \in Session : log[s] = <<>> /\ Len(log[s]) = 0 /\ state[s] = "Absent"
  BY DEF Init
<1>3. EarnedStates /\ Recorded
  BY <1>2 DEF EarnedStates, Recorded
<1> QED BY <1>1, <1>3 DEF IInv

(* Every step preserves it.                                                *)
LEMMA NextInductive == IInv /\ [Next]_vars => IInv'
<1> SUFFICES ASSUME IInv, [Next]_vars PROVE IInv'
  OBVIOUS
<1>1. CASE Idle
  BY <1>1, IdleInductive
<1>2. CASE \E s, to, bound, new, now : LegalGrant(s, to, bound, new, now)
  BY <1>2, GrantInductive
<1> QED BY <1>1, <1>2, StepCases DEF IInv

(* The checker's variables keep their types (wharf.rs:48-71).              *)
THEOREM TypeCorrect == Spec => []TypeOK
<1>1. IInv => TypeOK
  BY DEF IInv
<1> QED BY <1>1, InitInductive, NextInductive, PTL DEF Spec

(* For any sessions, nonces, artifacts and clock: a session is where its   *)
(* own granted events have brought it, rung by rung and before its expiry. *)
THEOREM EarnedCorrect == Spec => []EarnedStates
<1>1. IInv => EarnedStates
  BY DEF IInv
<1> QED BY <1>1, InitInductive, NextInductive, PTL DEF Spec

(* The artifact a session commits is the one it bound.                     *)
THEOREM ArtifactCorrect == Spec => []OneArtifact
<1>1. IInv => OneArtifact
  <2> SUFFICES ASSUME IInv, NEW s \in Session, NEW k \in 2..Len(log[s]), Reached(s, 2) = "Bound"
               PROVE  log[s][k].artifact = log[s][2].artifact
    BY DEF OneArtifact
  <2>1. Len(log[s]) \in Nat
    BY DEF IInv, TypeOK
  <2>2. 2 \in 2..Len(log[s])
    BY <2>1
  <2> QED BY <2>2 DEF IInv, Recorded
<1> QED BY <1>1, InitInductive, NextInductive, PTL DEF Spec

-----------------------------------------------------------------------------
(* No step takes a nonce twice or leaves one behind.                       *)
LEMMA NonceInit == Init => NonceOpensOneSession
BY DEF Init, NonceOpensOneSession

\* No operation of the gateway makes a nonce open a second session.
LEMMA NonceStep ==
  TypeOK /\ NonceOpensOneSession /\ [Next]_vars => NonceOpensOneSession'
<1> SUFFICES ASSUME TypeOK, NonceOpensOneSession, [Next]_vars
             PROVE  NonceOpensOneSession'
  OBVIOUS
<1>1. CASE Idle
  <2>1. state' = state /\ credential' = credential /\ nonces' = nonces
    BY <1>1 DEF Idle, sessions, history
  <2> QED BY <2>1 DEF NonceOpensOneSession
<1>2. ASSUME NEW s, NEW to, NEW bound, NEW new, NEW now,
             LegalGrant(s, to, bound, new, now)
      PROVE  NonceOpensOneSession'
  <2>1. /\ s \in Session /\ nonces' = nonces \cup new
        /\ credential' = [credential EXCEPT ![s] = @ \cup new]
        /\ state' = [state EXCEPT ![s] = to]
    BY <1>2 DEF LegalGrant, Grant
  <2>2. /\ credential'[s] = credential[s] \cup new /\ state'[s] = to
        /\ \A t \in Session \ {s} : credential'[t] = credential[t] /\ state'[t] = state[t]
    BY <2>1 DEF TypeOK
  <2>3. to # "Absent"
    BY <1>2 DEF LegalGrant, Opening, Climbing, Closing, Ladder
  <2>4. nonces' = UNION {credential'[t] : t \in Session}
    BY <2>1, <2>2 DEF NonceOpensOneSession
  <2>5. CASE Opening(s, to, new)
    <3>1. PICK n \in Nonce \ nonces : new = {n}
      BY <2>5 DEF Opening
    <3>2. credential'[s] = {n}
      BY <2>1, <2>2, <2>5, <3>1 DEF Opening, NonceOpensOneSession
    <3>3. \A t \in Session : n \notin credential[t]
      BY DEF NonceOpensOneSession
    <3> QED BY <2>2, <2>3, <2>4, <3>2, <3>3 DEF NonceOpensOneSession
  <2>6. CASE state[s] # "Absent" /\ new = {}
    <3>1. credential'[s] = credential[s]
      BY <2>2, <2>6
    <3>2. \A t \in Session : credential'[t] = credential[t] /\ (state'[t] = "Absent" <=> state[t] = "Absent")
      BY <2>2, <2>3, <2>6, <3>1
    <3> QED BY <2>4, <3>2 DEF NonceOpensOneSession
  <2>7. Climbing(s, to, bound, new) \/ Closing(s, to, bound, new) => state[s] # "Absent" /\ new = {}
    BY DEF Climbing, Closing, Ladder, State
  <2> QED BY <1>2, <2>5, <2>6, <2>7 DEF LegalGrant
<1> QED BY <1>1, <1>2, StepCases

(* For any trace, a nonce opens at most one session.                       *)
THEOREM NonceCorrect == Spec => []NonceOpensOneSession
<1>1. IInv => TypeOK
  BY DEF IInv
<1> QED BY <1>1, InitInductive, NextInductive, NonceInit, NonceStep, PTL DEF Spec

(* A denied event changes no session and consumes no nonce, and no         *)
(* violation is withdrawn.                                                 *)
THEOREM DeniedCorrect == Spec => DeniedChangesNothing
<1>1. [Next]_vars => [ /\ violations \subseteq violations'
                       /\ result' = "denied" => UNCHANGED sessions ]_vars
  <2> SUFFICES ASSUME Next
               PROVE  /\ violations \subseteq violations'
                      /\ result' = "denied" => UNCHANGED sessions
    OBVIOUS
  <2>1. \A s : Deny(s) => violations \subseteq violations' /\ UNCHANGED sessions
    BY DEF Deny
  <2>2. \A s, to, bound, new, now :
          Grant(s, to, bound, new, now) => violations' = violations /\ result' # "denied"
    BY DEF Grant
  <2>3. CASE Malformed
    BY <2>3 DEF Malformed
  <2>4. CASE End
    BY <2>4 DEF End
  <2>5. ASSUME ~Malformed, ~End
        PROVE  \/ \E s : Deny(s)
               \/ \E s, to, bound, new, now : Grant(s, to, bound, new, now)
    <3> DEFINE Settled == \/ \E s : Deny(s)
                          \/ \E s, to, bound, new, now : Grant(s, to, bound, new, now)
    <3>1. \A s, now, n, until, evidence : Authenticate(s, now, n, until, evidence) => Settled
      BY DEF Authenticate
    <3>2. \A s, now, a, evidence : Bind(s, now, a, evidence) => Settled
      BY DEF Bind
    <3>3. \A s, now, from, to, a, evidence : Climb(s, now, from, to, a, evidence) => Settled
      BY DEF Climb
    <3>4. \A s, now : Rollback(s, now) => Settled
      BY DEF Rollback
    <3> HIDE DEF Settled
    <3>5. \A s, now, a, evidence :
            Transfer(s, now, a) \/ Verify(s, now, a, evidence) \/ Commit(s, now, a, evidence) => Settled
      BY <3>3 DEF Transfer, Verify, Commit
    <3>6. Settled
      BY <2>5, <3>1, <3>2, <3>4, <3>5 DEF Next
    <3> QED BY <3>6 DEF Settled
  <2> QED BY <2>1, <2>2, <2>3, <2>4, <2>5
<1> QED BY <1>1, PTL DEF Spec, DeniedChangesNothing

-----------------------------------------------------------------------------
(* Nothing is granted to a session whose expiry the trace has reached.     *)
LEMMA GrantIsLive ==
  \A s, to, bound, new, now, t :
    TypeOK /\ LegalGrant(s, to, bound, new, now) /\ t \in Session /\ Expired(t) =>
      state'[t] = state[t] /\ verdict' = "checking"
<1> SUFFICES ASSUME NEW s, NEW to, NEW bound, NEW new, NEW now, NEW t \in Session,
                    TypeOK, LegalGrant(s, to, bound, new, now), Expired(t)
             PROVE  state'[t] = state[t] /\ verdict' = "checking"
  OBVIOUS
<1>1. s \in Session /\ now \in Time /\ now >= last /\ verdict' = "checking"
  BY DEF LegalGrant, Receive
<1>2. CASE t = s
  <2>1. expires'[s] = expires[s] /\ now < expires'[s] /\ last >= expires[s]
    BY <1>2 DEF LegalGrant, Expired
  <2>2. last \in Nat /\ now \in Nat /\ expires[s] \in Nat
    BY <1>1, TimeAssumption DEF TypeOK, Time
  <2> QED BY <1>1, <2>1, <2>2
<1>3. CASE t # s
  <2>1. \A u \in Session \ {s} : state'[u] = state[u]
    BY GrantLog
  <2>2. t \in Session \ {s}
    BY <1>3
  <2> QED BY <1>1, <2>1, <2>2
<1> QED BY <1>2, <1>3

(* An expired unfinished session stays where it is and is reported.        *)
THEOREM ExpiryCorrect == Spec => ExpiryIsFinal
<1>1. TypeOK /\ [Next]_vars =>
        [ \A s \in Session : Expired(s) =>
            /\ state'[s] = state[s]
            /\ verdict' = "done" => s \in violations' ]_vars
  <2> SUFFICES ASSUME TypeOK, Next, NEW s \in Session, Expired(s)
               PROVE  /\ state'[s] = state[s]
                      /\ verdict' = "done" => s \in violations'
    OBVIOUS
  <2>1. CASE Idle
    <3>1. state'[s] = state[s]
      BY <2>1 DEF Idle, sessions
    <3>2. End => s \in violations'
      BY DEF End, Expired, Unfinished
    <3>3. ~End => verdict' # "done"
      <4> SUFFICES ASSUME ~End PROVE verdict' # "done"
        OBVIOUS
      <4>1. \A now : Receive(now) => verdict' = "checking"
        BY DEF Receive
      <4>2. Malformed => verdict' = "error"
        BY DEF Malformed
      <4>3. \A t, now, n, until, evidence : Authenticate(t, now, n, until, evidence) => verdict' = "checking"
        BY <4>1 DEF Authenticate
      <4>4. \A t, now, a, evidence : Bind(t, now, a, evidence) => verdict' = "checking"
        BY <4>1 DEF Bind
      <4>5. \A t, now, from, to, a, evidence : Climb(t, now, from, to, a, evidence) => verdict' = "checking"
        BY <4>1 DEF Climb
      <4>6. \A t, now : Rollback(t, now) => verdict' = "checking"
        BY <4>1 DEF Rollback
      <4>7. \A t, now, a, evidence :
              Transfer(t, now, a) \/ Verify(t, now, a, evidence) \/ Commit(t, now, a, evidence)
                => verdict' = "checking"
        BY <4>5 DEF Transfer, Verify, Commit
      <4> QED BY <4>2, <4>3, <4>4, <4>6, <4>7 DEF Next
    <3> QED BY <3>1, <3>2, <3>3
  <2>2. CASE \E t, to, bound, new, now : LegalGrant(t, to, bound, new, now)
    BY <2>2, GrantIsLive
  <2> QED BY <2>1, <2>2, StepCases
<1> QED BY <1>1, TypeCorrect, PTL DEF Spec, ExpiryIsFinal

-----------------------------------------------------------------------------
(* An accepted trace without violations: something was granted, and at the *)
(* end every unfinished session is a violation.                            *)
Reported ==
  /\ result # "none" /\ violations = {} => \E s \in Session : state[s] # "Absent"
  /\ verdict = "done" => result # "none" /\ Unfinished \subseteq violations

\* What an event does to its session is to deny or to grant it something.
Settled(s) == /\ verdict' = "checking"
              /\ Deny(s) \/ \E to \in State : \E bound, new, now : Grant(s, to, bound, new, now)

LEMMA EventsSettle ==
  ASSUME TypeOK, Next, ~ Malformed, ~ End
  PROVE  \E s \in Session : Settled(s)
<1>1. \A now : Receive(now) => verdict' = "checking"
  BY DEF Receive
<1>2. \A s, now, n, until, evidence : Authenticate(s, now, n, until, evidence) => Settled(s)
  BY <1>1 DEF Authenticate, Settled, State
<1>3. \A s, now, a, evidence : Bind(s, now, a, evidence) => Settled(s)
  BY <1>1 DEF Bind, Settled, State
<1>4. \A s, now, from, a, evidence : \A to \in State : Climb(s, now, from, to, a, evidence) => Settled(s)
  BY <1>1 DEF Climb, Settled
<1>5. \A s, now : Rollback(s, now) => Settled(s)
  BY <1>1 DEF Rollback, Settled, State
<1>6. \A s, now, a, evidence :
        Transfer(s, now, a) \/ Verify(s, now, a, evidence) \/ Commit(s, now, a, evidence) => Settled(s)
  BY <1>4 DEF Transfer, Verify, Commit, State
<1> QED
  BY <1>2, <1>3, <1>5, <1>6 DEF Next

LEMMA ReportedStep == TypeOK /\ Reported /\ [Next]_vars => Reported'
<1> SUFFICES ASSUME TypeOK, Reported, [Next]_vars
             PROVE  Reported'
  OBVIOUS
<1>1. ASSUME NEW s \in Session, Settled(s)
      PROVE  Reported'
  <2>1. CASE Deny(s)
    BY <1>1, <2>1 DEF Settled, Deny, Reported
  <2>2. ASSUME NEW to \in State, NEW bound, NEW new, NEW now, Grant(s, to, bound, new, now)
        PROVE  Reported'
    <3>1. state'[s] = to /\ to # "Absent"
      BY <2>2 DEF Grant, TypeOK, State
    <3> QED
      BY <1>1, <3>1 DEF Settled, Reported
  <2> QED
    BY <1>1, <2>1, <2>2 DEF Settled
<1>2. CASE Malformed
  BY <1>2 DEF Malformed, Reported, sessions
<1>3. CASE End
  <2>1. Unfinished' = Unfinished /\ state' = state /\ result' = result
    BY <1>3 DEF End, Unfinished, sessions
  <2> QED
    BY <1>3, <2>1 DEF End, Reported
<1>4. CASE UNCHANGED vars
  BY <1>4 DEF vars, sessions, Reported, Unfinished
<1> QED
  BY <1>1, <1>2, <1>3, <1>4, EventsSettle

(* A trace is accepted without violations only if it opened a session and  *)
(* every session it opened was committed or rolled back (wharf.rs, check). *)
THEOREM CleanCorrect == Spec => []CleanTracesFinish
<1>1. Init => Reported
  BY DEF Init, Reported
<1>2. IInv => TypeOK
  BY DEF IInv
<1>3. TypeOK /\ Reported => CleanTracesFinish
  BY DEF TypeOK, Reported, CleanTracesFinish, Unfinished, Terminal
<1> QED BY <1>1, <1>2, <1>3, InitInductive, NextInductive, ReportedStep, PTL DEF Spec
=============================================================================
