----------------------------- MODULE MCLowering -----------------------------
(***************************************************************************)
(* Functions with one local, x, made from a few skeletons whose leaves     *)
(* store it, read it, call something, or leave by a jump or an exception.  *)
(***************************************************************************)
EXTENDS Lowering

CONSTANT x

MCNode == 1..10

Plain(kind, ops) == [kind |-> kind, ops |-> ops, body |-> <<>>, arms |-> <<>>,
                     orelse |-> <<>>, final |-> <<>>, sure |-> FALSE,
                     guard |-> "", rebinds |-> ""]
DoOp(op)  == [op |-> op, name |-> x]
Leaf(op)  == Plain("simple", <<DoOp(op)>>)

Store   == Leaf("store")
Load    == Leaf("read")
Delete  == Leaf("del")
Closure == Leaf("capture")
Augment == Plain("simple", <<DoOp("read"), DoOp("store")>>)
Call    == Plain("simple", <<>>)
Leave(kind) == Plain(kind, <<>>)

ArmOf(ops, body, alias) == [ops |-> ops, body |-> body, alias |-> alias]

Func(code, body, params) ==
  [code |-> [n \in MCNode |-> IF n \in DOMAIN code THEN code[n] ELSE Call],
   body |-> body, params |-> params]

Loop(kind, target, body, orelse, sure) ==
  [Plain(kind, <<>>) EXCEPT !.body = body, !.orelse = orelse, !.sure = sure,
     !.arms = IF kind = "for" THEN <<ArmOf(target, <<>>, <<>>)>> ELSE <<>>]

Loops(body, orelse) == {Loop(k, <<>>, body, orelse, s) : k \in {"while", "for"}, s \in BOOLEAN}

With_(ops, body) == [Plain("with", ops) EXCEPT !.body = body]

Try_(body, arms, orelse, final) ==
  [Plain("try", <<>>) EXCEPT !.body = body, !.arms = arms, !.orelse = orelse, !.final = final]

\* A handler that does nothing with the exception, or calls it x.
Handlers(body) == {<<ArmOf(<<>>, body, <<>>)>>, <<ArmOf(<<DoOp("bind")>>, body, <<x>>)>>}

-----------------------------------------------------------------------------
(* loop { try { leaf; x = } except { leaf } finally { leaf }; leaf }; read x *)
LoopedTry ==
  {Func(<<l, t, b, Store, h, f, e, Load>>, <<1, 8>>, {}) :
     l \in Loops(<<2, 7>>, <<>>),
     t \in {Try_(<<3, 4>>, a, <<>>, <<6>>) : a \in {<<>>} \cup Handlers(<<5>>)}
           \cup {Try_(<<3, 4>>, a, <<>>, <<>>) : a \in Handlers(<<5>>)},
     b \in {Store, Call, Leave("return"), Leave("break"), Leave("continue"), Leave("raise")},
     h \in {Load, Leave("break")}, f \in {Store, Load}, e \in {Store, Load}}

(* x =; loop { try { try { leaf } except { leaf } finally { leaf } } finally { leaf } }; read x *)
NestedFinally ==
  {Func(<<Store, l, Try_(<<4>>, <<>>, <<>>, <<8>>), Try_(<<5>>, a, o, <<7>>), b, h, f, g, Load>>,
        <<1, 2, 9>>, {}) :
     l \in Loops(<<3>>, <<>>),
     b \in {Call, Leave("return"), Leave("break"), Leave("continue")},
     a \in {<<ArmOf(<<>>, <<6>>, <<>>)>>}, o \in {<<>>},
     h \in {Call, Leave("continue")},
     f \in {Store, Delete, Leave("break")}, g \in {Store, Load, Leave("return")}}

(* if leaf elif leaf else leaf; match { case leaf, case leaf }; read x *)
Branches ==
  {Func(<<[Plain("if", <<>>) EXCEPT !.body = <<3>>, !.orelse = o,
             !.arms = <<ArmOf(<<DoOp("walrus")>>, <<4>>, <<>>)>>],
          [Plain("match", <<DoOp("mention")>>) EXCEPT !.sure = s,
             !.arms = <<ArmOf(<<DoOp("mention")>>, <<6>>, <<>>),
                        ArmOf(<<DoOp("walrus")>>, <<7>>, <<>>)>>],
          b, c, d, e, f, g>>, <<1, 2, 8>>, p) :
     o \in {<<>>, <<5>>}, s \in BOOLEAN, b \in {Store, Load}, c \in {Store, Delete},
     d \in {Store}, e \in {Store, Call}, f \in {Store, Augment}, g \in {Load}, p \in {{}, {x}}}

(* x =; loop over x { leaf; leaf } else { leaf }; read x *)
LoopElse ==
  {Func(<<b, Loop(k, <<DoOp("bind")>>, <<3, 4>>, o, s), c, d, e, Load>>, <<1, 2, 6>>, {}) :
     k \in {"while", "for"}, s \in BOOLEAN, o \in {<<>>, <<5>>}, b \in {Store, Call},
     c \in {Store, Augment, Delete}, d \in {Leave("break"), Leave("continue"), Load},
     e \in {Store, Load}}

(* A with, and nothing that runs twice: x =; with { try { leaf } except { leaf }; leaf }; read x *)
StraightWith ==
  {Func(<<b, With_(w, <<3, 6>>), Try_(<<4>>, <<ArmOf(<<>>, <<5>>, <<>>)>>, <<>>, <<>>), c, d, e, f>>,
        <<1, 2, 7>>, {}) :
     b \in {Store, Closure}, w \in {<<>>, <<DoOp("bind")>>},
     c \in {Store, Augment, Leave("raise")}, d \in {Store, Load}, e \in {Store, Call},
     f \in {Load, Store}}

(* while { while { leaf }; leaf; read x }; read x *)
LoopInLoop ==
  {Func(<<Loop("while", <<>>, <<2, 4, 5>>, <<>>, s), Loop("while", <<>>, <<3>>, <<>>, FALSE), b, c,
          Load, Load>>, <<1, 6>>, {}) :
     s \in BOOLEAN, b \in {Store, Leave("return"), Leave("break"), Leave("raise")},
     c \in {Store, Leave("return"), Leave("continue")}}

Guard_(g, body, orelse) ==
  [Plain("if", <<>>) EXCEPT !.guard = g, !.body = body, !.orelse = orelse]

Rebind == [Call EXCEPT !.rebinds = "assign"]

(***************************************************************************)
(* if base is not None { x = } else { leaf }; leaf; while { leaf; if base  *)
(* is [not] None { read x } }; if base is not None { leaf }.  The base     *)
(* changes by plain assignments only, and behind the first guard.          *)
(***************************************************************************)
GuardsAgain ==
  {Func(<<Guard_("not-none", <<2>>, o), Store, a, b, Loop("while", <<>>, <<6, 7>>, <<>>, FALSE), c,
          Guard_(g, <<8>>, <<>>), Load, Guard_("not-none", <<10>>, <<>>), d>>, <<1, 4, 5, 9>>, {}) :
     o \in {<<>>, <<3>>}, a \in {Store, Call}, b \in {Call, Rebind, Store}, c \in {Call, Rebind},
     g \in {"none", "not-none"}, d \in {Load, Store}}

(* x =; while { try { call } except as x { leaf } }; read x *)
Aliases ==
  {Func(<<Store, Loop("while", <<>>, <<3>>, <<>>, FALSE),
          Try_(<<4>>, <<ArmOf(<<DoOp("bind")>>, <<5>>, <<x>>)>>, <<>>, <<>>), Call, h, Load>>,
        <<1, 2, 6>>, {}) : h \in {Call, Leave("break"), Leave("continue")}}

(* What the pass on guards does not see between them, and a first guard that is not reached. *)
\* if base is not None { x = } else { base = }; if base is not None { read x }
RebindInElse ==
  Func(<<Guard_("not-none", <<2>>, <<3>>), Store, Rebind, Guard_("not-none", <<5>>, <<>>), Load>>,
       <<1, 4>>, {})

\* if base is None { x = }; while { if base is None { read x }; base = }
RebindLaterInLoop ==
  Func(<<Guard_("none", <<2>>, <<>>), Store, Loop("while", <<>>, <<4, 6>>, <<>>, FALSE),
         Guard_("none", <<5>>, <<>>), Load, Rebind>>, <<1, 3>>, {})

\* if base is not None { x = }; base, y = ..; if base is not None { read x }
RebindOtherwise ==
  Func(<<Guard_("not-none", <<2>>, <<>>), Store, [Call EXCEPT !.rebinds = "other"],
         Guard_("not-none", <<5>>, <<>>), Load>>, <<1, 3, 4>>, {})

\* while { if base is None { x = } }; if base is None { read x }
GuardNotReached ==
  Func(<<Loop("while", <<>>, <<2>>, <<>>, FALSE), Guard_("none", <<3>>, <<>>), Store,
         Guard_("none", <<5>>, <<>>), Load>>, <<1, 4>>, {})

BlindSpots == {RebindInElse, RebindLaterInLoop, RebindOtherwise, GuardNotReached}

MissedReads == Aliases \cup BlindSpots

\* x =; with { call; del x }; read x
DelInWith ==
  Func(<<Store, With_(<<>>, <<3, 4>>), Call, Delete, Load>>, <<1, 2, 5>>, {})

\* while { with { call; x = }; read x; x = }
WithInLoop ==
  Func(<<Loop("while", <<>>, <<2, 5, 6>>, <<>>, FALSE), With_(<<>>, <<3, 4>>), Call, Store, Load, Store>>,
       <<1>>, {})

\* x =; while { read x; try { with { continue } } finally { x = } }
FinallyPastWith ==
  Func(<<Store, Loop("while", <<>>, <<3, 4>>, <<>>, FALSE), Load, Try_(<<5>>, <<>>, <<>>, <<7>>),
         With_(<<>>, <<6>>), Leave("continue"), Store>>, <<1, 2>>, {})

Withs == {DelInWith, WithInLoop, FinallyPastWith}

MCPrograms ==
  LoopedTry \cup NestedFinally \cup Branches \cup LoopElse \cup StraightWith \cup GuardsAgain
    \cup LoopInLoop
=============================================================================
