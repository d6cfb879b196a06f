-------------------------------- MODULE MCPhp --------------------------------
(***************************************************************************)
(* PHP functions from a few skeletons: a loop with a branch in it, a chain *)
(* of elseifs, nested loops; what is not understood; and files of several  *)
(* functions.  Lines 1 and 2 have sources, the others sinks.               *)
(***************************************************************************)
EXTENDS PhpFlow

CONSTANTS x, y, z

E_(kind, line, name, args) == [kind |-> kind, line |-> line, name |-> name, args |-> args]

Lit       == E_("literal", 0, x, <<>>)
Src(l)    == E_("source", l, x, <<>>)
Var(n)    == E_("variable", 0, n, <<>>)
Cat(a, b) == E_("join", 0, x, <<a, b>>)
Cmp(a, b) == E_("value", 0, x, <<a, b>>)
Esc(args) == E_("escape", 0, x, args)
Hidden    == E_("other", 0, x, <<>>)

S_(kind, args) == [kind |-> kind, name |-> x, args |-> args, body |-> <<>>, clauses |-> <<>>,
                   line |-> 0, bit |-> "html", index |-> 0]

Set_(n, e)       == [S_("assign", <<e>>) EXCEPT !.name = n]
Echo(l, args)    == [S_("echo", args) EXCEPT !.line = l]
Query(l, args)   == [S_("call", args) EXCEPT !.line = l, !.bit = "sql", !.index = 2]
If_(e, b, cs)    == [S_("if", <<e>>) EXCEPT !.body = b, !.clauses = cs]
While_(e, b)     == [S_("while", <<e>>) EXCEPT !.body = b]
ElseIf_(e, b)    == [args |-> <<e>>, body |-> b]
Else_(b)         == [args |-> <<>>, body |-> b]
Go(kind)         == S_(kind, <<>>)

Stores == {Set_(x, Src(1)), Set_(x, Var(y)), Set_(y, Var(x)), Set_(x, Lit),
           Set_(x, Esc(<<Var(x)>>)), Set_(y, Cat(Src(2), Var(x))), Set_(y, Cmp(Var(x), Src(2)))}

Ends == <<Echo(5, <<Var(x)>>), Query(6, <<Var(y), Cat(Var(x), Var(y))>>)>>

(* x =; while { leaf; if { leave } else { leaf }; leaf }; sinks *)
Loops ==
  {<<Set_(x, e), While_(Cmp(Var(x), Lit), <<a, If_(Var(y), l, cs), b>>)>> \o Ends :
     e \in {Src(1), Lit}, a \in Stores \cup {Echo(3, <<Var(y), Var(x)>>)}, b \in Stores,
     l \in {<<Set_(x, Src(2)), Go("break")>>, <<Set_(x, Src(2)), Go("continue")>>,
            <<Go("return")>>, <<Set_(y, Lit)>>},
     cs \in {<<>>, <<Else_(<<Set_(x, Var(y))>>)>>}}

(* if leaf elseif leaf else { return; echo }; sinks *)
Branches ==
  {<<Set_(y, Src(2)), If_(Var(y), <<a>>, <<ElseIf_(Lit, <<b>>), Else_(c)>>)>> \o Ends :
     a \in Stores, b \in Stores,
     c \in {<<>>, <<Go("return"), Echo(4, <<Src(1)>>)>>, <<Go("throw"), Set_(x, Src(1))>>}}

(* while { while { leaf }; leaf }; sinks *)
Nested ==
  {<<While_(Lit, <<While_(Lit, <<a>>), b>>)>> \o Ends :
     a \in Stores \cup {Go("skip")}, b \in Stores \cup {Go("break")}}

(* Too many names or blocks, things that are not understood, empty branches. *)
Odd ==
  {<<Set_(x, Src(1)), Set_(y, Var(x)), a>> \o Ends :
     a \in {Set_(z, Lit), S_("evaluate", <<Hidden>>), S_("evaluate", <<Var(x)>>), S_("other", <<>>),
            Go("break"), Go("continue"), Set_(x, Cmp(Hidden, Lit)), Set_(x, Esc(<<>>)),
            Set_(x, Esc(<<Var(x), Hidden>>)), Query(3, <<Var(x)>>), S_("return", <<Hidden>>),
            If_(Lit, <<>>, <<>>), If_(Hidden, <<>>, <<>>), While_(Hidden, <<>>), While_(Lit, <<>>),
            If_(Lit, <<>>, <<ElseIf_(Hidden, <<>>)>>), Echo(3, <<Hidden>>),
            If_(Lit, [i \in 1..8 |-> Set_(x, Lit)], <<>>)}}

Unit(body) == [callback |-> FALSE, body |-> body]

Leaking   == Unit(<<Set_(x, Src(1))>>)
Listening == Unit(Ends)

MCFiles ==
  {[ambiguous |-> FALSE, units |-> <<Unit(body)>>] : body \in Loops \cup Branches \cup Nested}
  \cup {[ambiguous |-> a, units |-> <<Leaking, Unit(body), [Listening EXCEPT !.callback = c]>>] :
          a \in BOOLEAN, c \in BOOLEAN, body \in Odd}
=============================================================================
