--------------------------- MODULE MCStatementRun ---------------------------
(***************************************************************************)
(* Functions with loops in loops, switches in loops, jumps out of and into *)
(* loops, and conditions with side effects.                                *)
(***************************************************************************)
EXTENDS StatementRun

P == Controlling(<<>>, Unknown("p"))
Q == Controlling(<<"q++">>, Unknown("q"))
One == Controlling(<<>>, Const(1))
Zero == Controlling(<<>>, Const(0))
Nothing == Controlling(<<>>, NoValue)

A == Computation("a")
B == Computation("b")

Leaves == {Empty, A, Break, Continue, Goto("L"), Return(Q)}

Bodies(leaves) ==
  leaves \cup {If(P, x, y) : x, y \in leaves} \cup {Block(<<x, B>>) : x \in leaves}

Loops(body) ==
  {While(Q, body), While(One, body), For(A, Q, Computation("step"), body), For(Empty, One, Empty, body)}

DoLoops(body) == {DoWhile(body, Q), DoWhile(body, Zero)}

\* Switches whose cases leave by continue, goto or return.
Switches ==
  {Switch(Q, <<Case(1, <<x>>), Case(2, <<A, y>>), Default(<<z>>)>>) :
     x, y \in {Continue, Goto("L"), Return(P)}, z \in {Empty, B, Continue}}
    \cup {Switch(P, <<Case(3, <<A, Return(P)>>), Case(1, <<If(P, B, Continue)>>)>>)}

\* A loop after a label, and more after the loop.
Around(s) == Block(<<Label("L", Computation("first")), s, Computation("last")>>)

\* Into the middle of a loop.
JumpsInto ==
  {Block(<<If(P, Goto("M"), Empty), w, Return(Nothing)>>) :
     w \in {While(Q, Block(<<A, If(P, Label("M", B), x)>>)) : x \in {Break, Continue, Goto("M")}}
             \cup {DoWhile(Block(<<A, Label("M", B)>>), Q)}
             \cup {Switch(Q, <<Case(1, <<A, Label("M", B), Return(P)>>), Default(<<A>>)>>)}}

OneLoop == UNION {Loops(b) : b \in Bodies(Leaves)} \cup UNION {DoLoops(b) : b \in Bodies(Leaves \ {Continue})}

LoopInLoop ==
  UNION {Loops(Block(<<inner, x>>)) :
           inner \in UNION {Loops(If(P, y, z)) : y, z \in {Break, Continue, A}}
                       \cup DoLoops(If(P, Break, A)),
           x \in {Break, Continue, A}}

LoopInDo ==
  UNION {DoLoops(Block(<<inner, x>>)) :
           inner \in UNION {Loops(If(P, y, z)) : y, z \in {Break, Continue}}, x \in {Break, A}}

SwitchInLoop == UNION {Loops(s) : s \in Switches}

LoopInSwitchInLoop ==
  UNION {Loops(Switch(P, <<Case(1, <<inner, Return(P)>>), Default(<<inner, Continue>>), Case(3, <<A>>)>>)) :
           inner \in Loops(If(P, Break, Continue)) \cup DoLoops(If(P, Break, B))}

MCPrograms == {Around(s) : s \in OneLoop \cup LoopInLoop \cup LoopInDo \cup SwitchInLoop
                                \cup LoopInSwitchInLoop} \cup JumpsInto

\* do { if (p) continue; a; } while (q);
ContinueInDo == {Block(<<DoWhile(Block(<<If(P, Continue, Empty), A>>), Q), B>>)}

\* switch (p) { case 1: a; break; default: b; }
BreakInSwitch == {Block(<<Switch(P, <<Case(1, <<A, Break>>), Default(<<B>>)>>), A>>)}

\* switch (p) { case 1: a; case 2: b; }
FallThrough == {Switch(P, <<Case(1, <<A>>), Case(2, <<B>>)>>)}

\* switch (p) { case -1: a; return; default: b; }
NegativeLabel == {Switch(P, <<CaseExpr(-1, <<A, Return(Nothing)>>), Default(<<B>>)>>)}
LabelValues == {-1, 1}
=============================================================================
