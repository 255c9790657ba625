--------------------------- MODULE MCPreprocessor ---------------------------
(***************************************************************************)
(* Programs for the preprocessor, one family for each of its parts:        *)
(* sequences of conditional lines, files that include each other,          *)
(* conditions with every pair of operators, and macro calls.               *)
(***************************************************************************)
EXTENDS Translation

Program(files, main, paths, defines) ==
  [files |-> files, main |-> main, paths |-> paths, defines |-> defines]

Main == <<"src", "main.c">>
NoMacros == [n \in {"__FILE__"} |-> Builtin]

OneFile(lines, defines) == Program([f \in {Main} |-> lines], Main, <<>>, defines)

-----------------------------------------------------------------------------
\* Conditional lines: A is defined on the way or not, and the end may not match.
ConditionalLines ==
  {Ifdef("A"), If(Name("A")), Elif(Lit(1)), Elif(Name("A")), Else, Endif, Text(<<Id("A")>>)}

ConditionalPrograms ==
  {OneFile(<<l1, l2, l3, l4, l5, l6>>, NoMacros) :
     l1 \in {Ifndef("A"), If(Lit(0)), DefineLine("A", Object(<<Num(1)>>))},
     l2 \in {Ifdef("A"), Text(<<Num(7)>>), Elif(Lit(1))},
     l3 \in ConditionalLines \cup {DefineLine("A", Object(<<Num(0)>>)), Error, Silent},
     l4 \in ConditionalLines \cup {Undef("A"), Malformed("unknown")},
     l5 \in {Elif(Lit(1)), Else, Endif, Text(<<Id("A")>>)},
     l6 \in {Endif, Else, Passed(<<Num(8)>>)}}

\* A condition without a value, and text that is left open in a skipped group.
OddPrograms ==
  {OneFile(<<If(Lit(c)), l>>, NoMacros) :
     c \in {0, 1}, l \in {Elif(Bin("/", Lit(1), Lit(0))), Text(<<P("("), Num(1)>>), Endif}}

-----------------------------------------------------------------------------
\* Headers in two directories; h.h is in both.
File(d, b) == <<d, b>>
Guarded(name, lines) ==
  <<Ifndef(name), DefineLine(name, Object(<<>>))>> \o lines \o <<Endif>>

FromB == Include(<<Quoted("b.h")>>)
FromA == Include(<<Angled("a.h")>>)

\* a.h and b.h: they do not include each other, or both are guarded, or there is no end.
HeaderPairs ==
  ({<<Text(<<Id("__FILE__")>>)>>,
    <<Ifdef("G"), Text(<<Num(3)>>), Else, DefineLine("G", Object(<<Num(4)>>)), Endif>>}
     \X {<<If(Has("__has_include", Quoted("a.h"))), FromA, Endif>>,
         <<Ifdef("G"), FromA, Endif, Text(<<Id("__FILE__")>>)>>,
         Guarded("H", <<FromA, Text(<<Id("G"), Num(5)>>)>>)})
  \cup ({<<PragmaOnce, FromB, Text(<<Num(1)>>)>>, Guarded("G", <<FromB, Text(<<Num(2)>>)>>)}
          \X {Guarded("H", <<FromA, Text(<<Id("G"), Num(5)>>)>>), <<PragmaOnce, FromA>>,
              <<Text(<<Id("__FILE__")>>)>>})
  \cup ({<<FromB>>} \X {<<FromA, Text(<<Num(6)>>)>>, <<Ifdef("G"), Text(<<Num(3)>>), Endif>>})

MainLines ==
  {Include(<<Quoted("a.h")>>), Include(<<Angled("a.h")>>), Include(<<Angled("b.h")>>),
   Include(<<Id("HEADER")>>), Undef("G"),
   DefineLine("HEADER", Object(<<Quoted("b.h")>>))}

IncludePrograms ==
  {Program([f \in {Main, File("inc", "a.h"), File("inc", "b.h"), File("src", "b.h")} |->
              CASE f = Main -> <<m1, m2, m3,
                                 If(Has("__has_include", Quoted("b.h"))), Text(<<Num(9)>>), Endif>>
                [] f = File("inc", "a.h") -> a
                [] f = File("inc", "b.h") -> b
                [] f = File("src", "b.h") -> <<Include(<<Angled("b.h")>>)>>],
           Main, <<"inc">>, Define(NoMacros, "HEADER", Object(<<Angled("a.h")>>))) :
     <<a, b>> \in HeaderPairs, m1 \in MainLines, m2 \in MainLines, m3 \in MainLines}

\* A chain of n files, up to the limit and one beyond it.
Chain(n) ==
  Program([f \in {File("src", ToString(i)) : i \in 1..n} |->
             IF f[2] = ToString(n) THEN <<Text(<<Num(1)>>)>>
             ELSE LET i == CHOOSE i \in 1..n : ToString(i) = f[2]
                  IN  <<Include(<<Quoted(ToString(i + 1))>>), Text(<<Num(2)>>)>>],
          File("src", "1"), <<>>, NoMacros)

ChainPrograms == {Chain(n) : n \in MaxIncludeDepth - 1..MaxIncludeDepth + 1}

-----------------------------------------------------------------------------
\* Conditions: all pairs of binary operators, the others around them, and values that are
\* told apart by comparing them.
BinaryOps == UNION {Levels[k] : k \in 1..Len(Levels)}
Leaves == << <<Lit(5), Lit(3), Lit(2)>>, <<Lit(0), Name("A"), Lit(3)>>,
             <<Def("A"), Lit(0), Name("UNKNOWN")>> >>

Conditions ==
  UNION {{Bin(o, Bin(p, v[1], v[2]), v[3]), Bin(o, v[1], Bin(p, v[2], v[3]))} :
           o \in BinaryOps, p \in BinaryOps, v \in ToSet(Leaves)}
   \cup {Bin(o, Un(u, v[1]), Un(w, v[2])) :
           o \in BinaryOps, u \in {"-", "~", "!", "+"}, w \in {"-", "!"}, v \in ToSet(Leaves)}
   \cup {Cond(Bin(o, v[1], v[2]), Cond(v[1], v[2], v[3]), Bin(o, v[3], v[2])) :
           o \in BinaryOps, v \in ToSet(Leaves)}
   \cup {Bin("==", Bin(o, Un(u, Lit(5)), Un(w, Lit(2))), Un(z, Lit(n))) :
           o \in BinaryOps, u \in {"-", "+"}, w \in {"-", "+"}, z \in {"-", "+"}, n \in 0..3}
   \cup {Bin(o, Has(word, Id(arg)), v[2]) :
           o \in BinaryOps, word \in HasTable \cup HasSkipped, arg \in {"supported", "other"},
           v \in ToSet(Leaves)}

\* C defines every value in the condition: nothing overflows, no number that is
\* negative is shifted to the left, and none is shifted by its width or more.
RECURSIVE ValuesDefined(_, _)
ValuesDefined(e, table) ==
  LET value(t) == Meaning(t, table, {})
  IN  /\ ~IsLeaf(e) => \A t \in ToSet(e.args) : ValuesDefined(t, table)
      /\ e.op \in {"<<", ">>"} => value(e.args[2]).val \in 0..IntWidth - 1
      /\ e.op = "<<" => value(e.args[1]).val >= 0
      /\ InRange(value(e).val)

RECURSIVE Subtrees(_)
Subtrees(e) == {e} \cup (IF IsLeaf(e) THEN {} ELSE UNION {Subtrees(s) : s \in ToSet(e.args)})

\* ... and an error in it does not depend on what is evaluated.
DefinedByC(e, table) ==
  /\ ValuesDefined(e, table)
  /\ (\E s \in Subtrees(e) : Meaning(s, table, {}).err) => Meaning(e, table, {}).err

ConditionTable == Define(Define(NoMacros, "A", Object(<<Id("B")>>)), "B", Object(<<Num(2)>>))

ConditionPrograms ==
  {OneFile(<<If(e), Text(<<Num(1)>>), Else, Text(<<Num(2)>>), Endif>>, ConditionTable) :
     e \in {c \in Conditions : DefinedByC(c, ConditionTable)}}

-----------------------------------------------------------------------------
\* Macros: objects that name each other, calls in calls, #, ##, variable arguments.
Call(name, args) ==
  <<Id(name), P("(")>>
    \o FlattenSeq([i \in 1..Len(args) |-> IF i = 1 THEN args[i] ELSE <<P(",")>> \o args[i]])
    \o <<P(")")>>

MacroTable(a, b, f) ==
  [n \in {"A", "B", "F", "G", "CAT", "S", "V", "AB"} |->
     CASE n = "A" -> Object(a) [] n = "B" -> Object(b)
       [] n = "F" -> Function(<<"x">>, f)
       [] n = "G" -> Function(<<"x", "y">>, <<Id("F"), P("("), Id("y"), P(")"), Id("x")>>)
       [] n = "CAT" -> Function(<<"x", "y">>, <<Id("x"), HashHash, Id("y")>>)
       [] n = "S" -> Function(<<"x">>, <<Hash, Id("x"), Id("x")>>)
       [] n = "V" -> Variadic(<<"x">>, <<Id("x"), P("["), Id("__VA_ARGS__"), P("]")>>)
       [] n = "AB" -> Object(<<Id("A"), Num(6)>>)]

Bodies == {<<Id("x")>>, <<P("("), Id("x"), P(")"), Id("A")>>}
PlainTables ==
  {MacroTable(a, b, f) : a \in {<<Id("B")>>, <<Id("B"), Space, Num(1)>>,
                                <<Id("B"), P("("), Id("B")>>},
                         b \in {<<Num(2)>>, <<Num(2), Space, Num(3)>>}, f \in Bodies}
OtherTables ==
  {MacroTable(a, b, f) : a \in {<<Id("B")>>, <<Id("A"), Num(1)>>, <<Id("B"), Space, Id("B")>>},
                         b \in {<<>>, <<Id("A")>>, <<Id("F"), P("("), Num(3), P(")"), Id("B")>>},
                         f \in Bodies}

Args == {<<Id("A")>>, <<Id("B"), Space, Num(1)>>, <<P("("), Id("A"), P(","), Num(3), P(")")>>}

Calls ==
  {Call("F", <<x>>) : x \in Args}
    \cup {Call("G", <<x, y>>) : x \in Args, y \in Args}
    \cup {Call("G", <<x, Call("S", <<y>>)>>) : x \in Args, y \in Args}
    \cup {Call("V", <<x, y, x>>) : x \in Args, y \in Args}
    \cup {Call("V", <<x>>) : x \in Args}
    \cup {Call("S", <<x>>) : x \in Args}
    \cup {Call("CAT", <<<<Id("A")>>, x>>) : x \in Args}

\* Texts in which no macro is in an argument that is expanded, or that do not call.
PlainTexts ==
  {<<Id("A"), Space, Id("B")>>, <<Id("B"), Id("F"), Space>>, <<Id("F"), P("(")>>,
   <<P("("), Id("B")>>, <<P(")"), Id("B")>>,
   Call("F", <<<<Num(1)>>>>), Call("F", <<<<Num(1)>>, <<Num(2)>>>>),
   Call("G", << <<>>, <<Num(1)>> >>), Call("CAT", << <<Id("A")>>, <<Id("B")>> >>),
   <<Id("CAT"), Space>> \o Tail(Call("CAT", << <<Num(1)>>, <<Num(2)>> >>))}

MacroPrograms ==
  {OneFile(<<Text(t), Text(<<Id("A"), P("(")>>), Text(t), Text(<<P(")"), Id("F")>>)>>, table) :
     <<t, table>> \in ((Calls \cup PlainTexts) \X PlainTables)
                       \cup (PlainTexts \X OtherTables)}

MCPrograms ==
  ConditionalPrograms \cup OddPrograms \cup IncludePrograms \cup ChainPrograms
    \cup ConditionPrograms \cup MacroPrograms
=============================================================================
