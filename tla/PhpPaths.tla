------------------------------- MODULE PhpPaths ------------------------------
(***************************************************************************)
(* What the PHP adapter promises (docs/PHP-ADAPTER.adoc), defined on the   *)
(* syntax alone: the function is walked along every path, conditions going *)
(* either way, and a sink is hit by the source lines whose data reach it   *)
(* on some path without a matching escape.  Used by the model checker only.*)
(***************************************************************************)
EXTENDS Naturals, Sequences

CONSTANTS Name, Bit

RECURSIVE Taint(_, _)
Taint(e, env) ==
  CASE e.kind = "source"   -> {e.line} \X Bit
    [] e.kind = "variable" -> env[e.name]
    [] e.kind = "join"     -> UNION {Taint(e.args[i], env) : i \in DOMAIN e.args}
    [] e.kind = "escape"   -> {f \in Taint(e.args[1], env) : f[2] # "html"}
    [] OTHER -> {}

\* The environments in which the walk goes on, breaks, continues; and what it hit.
Nowhere == [out |-> {}, breaks |-> {}, continues |-> {}, hits |-> {}]

Either(r, q) == [field \in DOMAIN r |-> r[field] \cup q[field]]

Hits(line, bit, args, envs) ==
  {<<line, source>> : source \in {f[1] : f \in {g \in UNION {Taint(args[i], env) :
                                    i \in DOMAIN args, env \in envs} : g[2] = bit}}}

RECURSIVE Walk(_, _), WalkStmt(_, _), WalkClauses(_, _), WalkLoop(_, _)

Walk(body, envs) ==
  IF body = <<>> THEN [Nowhere EXCEPT !.out = envs]
  ELSE LET first == WalkStmt(Head(body), envs)
       IN  Either([first EXCEPT !.out = {}], Walk(Tail(body), first.out))

WalkClauses(clauses, envs) ==
  IF clauses = <<>> THEN [Nowhere EXCEPT !.out = envs]
  ELSE LET taken == Walk(Head(clauses).body, envs)
       IN  IF Head(clauses).args = <<>> THEN taken
           ELSE Either(taken, WalkClauses(Tail(clauses), envs))

\* `envs' are those seen so far at the head of the loop.
WalkLoop(body, envs) ==
  LET round == Walk(body, envs)
      seen  == envs \cup round.out \cup round.continues
  IN  IF seen = envs THEN [Nowhere EXCEPT !.out = envs \cup round.breaks, !.hits = round.hits]
      ELSE WalkLoop(body, seen)

WalkStmt(s, envs) ==
  CASE s.kind = "if"       -> Either(Walk(s.body, envs), WalkClauses(s.clauses, envs))
    [] s.kind = "while"    -> WalkLoop(s.body, envs)
    [] s.kind = "break"    -> [Nowhere EXCEPT !.breaks = envs]
    [] s.kind = "continue" -> [Nowhere EXCEPT !.continues = envs]
    [] s.kind \in {"return", "throw"} -> Nowhere
    [] s.kind = "assign"   ->
         [Nowhere EXCEPT !.out = {[env EXCEPT ![s.name] = Taint(s.args[1], env)] : env \in envs}]
    [] s.kind = "echo" -> [Nowhere EXCEPT !.out = envs, !.hits = Hits(s.line, "html", s.args, envs)]
    [] s.kind = "call" -> [Nowhere EXCEPT !.out = envs, !.hits = Hits(s.line, s.bit, <<s.args[s.index]>>, envs)]
    [] OTHER -> [Nowhere EXCEPT !.out = envs]

HitsOf(body) == Walk(body, {[n \in Name |-> {}]}).hits

-----------------------------------------------------------------------------
(***************************************************************************)
(* Is everything in the function understood?  A conditional or logical     *)
(* expression may hide an assignment, a jump may leave a construct that is *)
(* not modelled: one of them and the function has no verdict.              *)
(***************************************************************************)
RECURSIVE Plain(_)
Plain(e) ==
  /\ e.kind \in {"literal", "source", "variable", "join", "value", "escape"}
  /\ e.kind = "escape" => e.args # <<>>
  /\ \A i \in DOMAIN e.args : Plain(e.args[i])

RECURSIVE Understood(_, _)
Understood(body, inLoop) ==
  \A i \in DOMAIN body :
    LET s == body[i]
    IN  /\ s.kind \in {"skip", "if", "while", "break", "continue", "return", "throw", "echo",
                       "assign", "call", "evaluate"}
        /\ s.kind \in {"break", "continue"} => inLoop
        /\ s.kind = "call" => s.index \in DOMAIN s.args
        /\ s.kind # "throw" => \A j \in DOMAIN s.args : Plain(s.args[j])
        /\ Understood(s.body, inLoop \/ s.kind = "while")
        /\ \A j \in DOMAIN s.clauses : /\ \A k \in DOMAIN s.clauses[j].args : Plain(s.clauses[j].args[k])
                                      /\ Understood(s.clauses[j].body, inLoop)
=============================================================================
