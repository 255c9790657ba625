----------------------------- MODULE MCExprRun -----------------------------
(***************************************************************************)
(* The C functions that are compiled and run, and the arguments of their   *)
(* calls.  A char has 2 bits, a short 3, an int 4 and a long 6.            *)
(***************************************************************************)
EXTENDS ExprRun

int      == TypeName("int", 0)
unsigned == TypeName("unsigned", 0)
long     == TypeName("long", 0)
char     == TypeName("char", 0)
uchar    == TypeName("unsigned char", 0)
short    == TypeName("short", 0)
intptr   == TypeName("int", 1)

x == Variable("x")
y == Variable("y")
a == Variable("a")
p == Variable("p")
s == Variable("s")
n == Variable("n")
u == Variable("u")
q == Variable("q")
C(v) == Constant(v)
g(e) == Call("g", <<e>>)

Ints  == {-3, -1, 0, 2, 6}
Words == {0, 1, 3, 13}
Longs == {-20, -1, 0, 9}

\* Every call of a function of x and y with arguments from two sets.
Calls(tx, X, ty, Y) == {<<Val("", i, CType(tx)), Val("", j, CType(ty))>> : i \in X, j \in Y}

Param(name, type) == [name |-> name, type |-> type]
Fun(ret, tx, X, ty, Y, body) ==
  [params |-> <<Param("x", tx), Param("y", ty)>>, ret |-> ret, body |-> body, inputs |-> Calls(tx, X, ty, Y)]

IntFun(body)   == Fun(int, int, Ints, int, Ints, body)
WordFun(body)  == Fun(unsigned, unsigned, Words, unsigned, Words, body)
LongFun(body)  == Fun(long, long, Longs, long, Longs, body)
MixedFun(body) == Fun(int, long, Longs, int, Ints, body)
FewFun(body)   == Fun(int, int, {-1, 2}, int, {0, 5}, body)

ArithmeticOps == <<"add", "sub", "mul", "div", "mod", "and", "or", "xor", "shl", "shr">>
ComparisonOps == <<"eq", "ne", "lt", "le", "gt", "ge">>
SomeOps       == <<"eq", "lt", "ge">>

\* One operator on each kind of number.
IntOperators  == MapSeq(LAMBDA op : IntFun(<<Return(Binary(op, x, y))>>), ArithmeticOps \o ComparisonOps)
WordOperators == MapSeq(LAMBDA op : WordFun(<<Return(Binary(op, x, y))>>), ArithmeticOps)
LongOperators == MapSeq(LAMBDA op : LongFun(<<Return(Binary(op, x, y))>>), ArithmeticOps)

\* Comparisons whose operands differ in width or sign.
MixedComparisons ==
  MapSeq(LAMBDA op : MixedFun(<<Return(Binary(op, x, y))>>), ComparisonOps)
    \o MapSeq(LAMBDA op : Fun(int, unsigned, Words, int, Ints, <<Return(Binary(op, x, y))>>), SomeOps)
    \o MapSeq(LAMBDA op : Fun(int, unsigned, Words, long, Longs, <<Return(Binary(op, x, y))>>), SomeOps)
    \o MapSeq(LAMBDA op : IntFun(<<Return(Binary(op, u, x))>>), SomeOps)

\* Operators in operators, unary operators, casts, shifted operands.
Nested == <<
  IntFun(<<Return(Binary("sub", Binary("mul", x, y), Binary("add", y, C(1))))>>),
  IntFun(<<Return(Binary("sub", x, Binary("sub", y, Binary("div", x, C(2)))))>>),
  IntFun(<<Return(Binary("add", x, Binary("shl", y, C(1))))>>),
  IntFun(<<Return(Binary("sub", x, Binary("shl", y, C(2))))>>),
  IntFun(<<Return(Binary("add", Binary("shl", x, C(1)), y))>>),
  IntFun(<<Return(Binary("mul", Unary("neg", x), Unary("bitnot", y)))>>),
  IntFun(<<Return(Unary("not", Binary("lt", Paren(x), Unary("plus", y))))>>),
  IntFun(<<Return(Binary("add", Cast(char, x), Cast(uchar, y)))>>),
  IntFun(<<Return(Binary("mul", Cast(short, x), Cast(TypeName("unsigned short", 0), y)))>>),
  Fun(int, long, Longs, long, Longs, <<Return(Binary("add", Cast(int, x), Unary("neg", Cast(int, y))))>>),
  Fun(long, int, Ints, unsigned, Words, <<Return(Binary("sub", Cast(long, x), Cast(long, y)))>>),
  IntFun(<<Return(Binary("add", Binary("eq", x, y), Cast(int, SizeofType(long))))>>),
  IntFun(<<Return(Cast(int, SizeofExpr(Binary("add", Cast(long, x), g(y)))))>>) >>

\* Side effects: their number, their order and the values they leave.
Effects == <<
  FewFun(<<DeclStmt("a", int, <<>>, <<x>>), Return(Binary("add", IncDec("add", FALSE, a), y))>>),
  FewFun(<<DeclStmt("a", int, <<>>, <<x>>), Computation(IncDec("sub", TRUE, a)), Return(a)>>),
  FewFun(<<Computation(IncDec("add", FALSE, n)), Return(Binary("mul", IncDec("sub", TRUE, n), y))>>),
  FewFun(<<DeclStmt("a", int, <<>>, <<y>>), Return(Binary("add", Assign(a, Binary("add", x, C(1))), a))>>),
  FewFun(<<DeclStmt("a", int, <<>>, <<x>>), Computation(AssignOp("sub", a, g(y))), Return(a)>>),
  FewFun(<<Computation(AssignOp("add", n, Assign(n, y))), Return(n)>>),
  FewFun(<<Return(Binary("sub", g(x), g(y)))>>),
  FewFun(<<Return(Binary("add", n, Binary("mul", g(g(x)), y)))>>),
  FewFun(<<Return(Comma(g(x), Comma(IncDec("add", FALSE, n), Binary("add", n, y))))>>),
  FewFun(<<Return(Conditional(Binary("lt", x, y), g(x), Assign(n, y)))>>),
  FewFun(<<Return(Conditional(C(1), x, y))>>),
  FewFun(<<Return(LogicalAnd(x, g(y)))>>),
  FewFun(<<Return(LogicalOr(Unary("not", y), LogicalAnd(g(x), IncDec("add", FALSE, n))))>>),
  FewFun(<<Return(LogicalAnd(C(0), g(y)))>>),
  FewFun(<<Return(Conditional(Unary("not", Binary("lt", x, y)), LogicalOr(g(x), g(y)), g(C(2))))>>),
  Fun(long, int, {-3, 2}, long, {9, -1}, <<Return(Binary("add", Call("id", <<x>>), Call("id", <<y>>)))>>),
  Fun(int, long, {-20, 9}, int, {1}, <<Return(Binary("sub", g(x), y))>>) >>

\* Variables in memory: addresses, fields, elements, globals of every width.
Memory == <<
  FewFun(<<DeclStmt("a", int, <<>>, <<x>>), DeclStmt("p", intptr, <<>>, <<AddrOf(a)>>),
           Computation(Assign(Deref(p), y)), Return(a)>>),
  FewFun(<<DeclStmt("a", int, <<>>, <<x>>), DeclStmt("b", short, <<>>, <<C(1)>>),
           DeclStmt("p", TypeName("short", 1), <<>>, <<AddrOf(Variable("b"))>>),
           Computation(Call("put", <<AddrOf(a)>>)), Computation(IncDec("add", TRUE, Deref(p))),
           Return(Binary("add", a, Variable("b")))>>),
  FewFun(<<DeclStmt("s", TypeName("struct pair", 0), <<>>, <<>>),
           Computation(Assign(Member(s, "a"), x)), Computation(Assign(Member(s, "b"), y)),
           Computation(Assign(Member(s, "c"), Cast(long, x))),
           Return(Binary("add", Member(s, "a"), Binary("mul", Member(s, "b"), Cast(int, Member(s, "c")))))>>),
  FewFun(<<DeclStmt("s", TypeName("struct pair", 0), <<>>, <<>>),
           DeclStmt("p", TypeName("struct pair", 1), <<>>, <<AddrOf(s)>>),
           Computation(Assign(Arrow(p, "c"), Cast(long, x))), Computation(Assign(Arrow(p, "b"), g(y))),
           Return(Binary("lt", Member(s, "b"), Member(s, "c")))>>),
  FewFun(<<DeclStmt("a", char, <<3>>, <<>>), DeclStmt("b", int, <<>>, <<y>>),
           Computation(Assign(Index(a, C(2)), x)), Computation(Assign(Index(a, C(0)), C(1))),
           Computation(Call("put", <<AddrOf(Variable("b"))>>)),
           Return(Binary("sub", Index(a, C(2)), Binary("add", Index(a, C(0)), Variable("b"))))>>),
  FewFun(<<Computation(Assign(u, x)), Return(Binary("add", u, Cast(int, q)))>>),
  FewFun(<<Computation(Assign(q, Cast(long, y))), DeclStmt("p", intptr, <<>>, <<AddrOf(n)>>),
           Computation(AssignOp("mul", Deref(p), x)), Return(Binary("sub", n, Deref(p)))>>) >>

\* Assignments to one parameter, whose temporary is also the last of SimplExpr: the last
\* one only carries the value assigned, so that they agree.
Parameters == <<
  FewFun(<<Computation(Assign(x, Binary("add", x, y))), Return(Binary("sub", x, y))>>),
  FewFun(<<Computation(AssignOp("sub", y, g(x))), Return(Binary("mul", x, y))>>),
  FewFun(<<Return(Conditional(Binary("lt", x, y), y, Assign(x, C(3))))>>),
  FewFun(<<Computation(IncDec("add", FALSE, x)), Return(Binary("mul", x, y))>>) >>

SoundPrograms == <<IntOperators, WordOperators, LongOperators, MixedComparisons, Nested, Effects, Memory, Parameters>>

\* Assignments to parameters that are read after the last temporary was used otherwise.
ShadowPrograms == <<<<
  FewFun(<<Computation(Assign(x, y)), Return(Binary("add", g(x), x))>>),
  FewFun(<<Computation(Assign(x, Binary("add", x, C(1)))), Computation(Assign(y, C(1))), Return(Binary("sub", x, y))>>) >>>>
=============================================================================
