---------------------------- MODULE CStatements ----------------------------
(***************************************************************************)
(* The statements of C that pkg/cabs represents, and how C executes them.  *)
(* The passes of the compiler are checked against this execution.          *)
(*                                                                         *)
(* An expression statement is one computation, named by what it does.  A   *)
(* controlling expression first makes the computations of its side effects *)
(* and is then a constant or a value that is not known at compile time.    *)
(*                                                                         *)
(* A function under execution is the sequence of what is left to do.       *)
(* Unfolding a statement replaces it by its parts until one that can be    *)
(* observed comes first: a computation, a test, the selection of a case,   *)
(* or a return.                                                            *)
(***************************************************************************)
EXTENDS Integers, Sequences, SequencesExt

Const(n) == [op |-> "const", val |-> n]
Unknown(name) == [op |-> "unknown", name |-> name]
NoValue == Unknown("none")

Controlling(effects, of) == [effects |-> effects, of |-> of]

Computation(what)  == [kind |-> "do", what |-> what]
Block(items)       == [kind |-> "block", items |-> items]
If(c, then, else)  == [kind |-> "if", cond |-> c, then |-> then, else |-> else]
While(c, body)     == [kind |-> "while", cond |-> c, body |-> body]
DoWhile(body, c)   == [kind |-> "dowhile", cond |-> c, body |-> body]
For(init, c, step, body) ==
  [kind |-> "for", init |-> init, cond |-> c, step |-> step, body |-> body]
Break              == [kind |-> "break"]
Continue           == [kind |-> "continue"]
Switch(c, cases)   == [kind |-> "switch", cond |-> c, cases |-> cases]
Goto(label)        == [kind |-> "goto", label |-> label]
Label(label, body) == [kind |-> "label", label |-> label, body |-> body]
Return(c)          == [kind |-> "return", cond |-> c]

\* The cases of a switch.  A label is written as a constant, or as another
\* expression with a constant value, like -1 or an enumerator.
Case(value, items) == [label |-> <<value>>, literal |-> TRUE, items |-> items]
CaseExpr(value, items) == [Case(value, items) EXCEPT !.literal = FALSE]
Default(items)     == [label |-> <<>>, literal |-> TRUE, items |-> items]

Empty == Block(<<>>)

-----------------------------------------------------------------------------
\* What can be observed.
Test(of, yes, no) == [kind |-> "test", of |-> of, yes |-> yes, no |-> no]
Select(of, cases) == [kind |-> "select", of |-> of, cases |-> cases]
Leave(of)         == [kind |-> "leave", of |-> of]

\* The end of a loop's body, where continue goes, and of a switch.
Again(loop) == [kind |-> "again", loop |-> loop]
EndSwitch   == [kind |-> "endswitch"]

Effects(c) == [i \in DOMAIN c.effects |-> Computation(c.effects[i])]

Guarded(c, yes, no) == Effects(c) \o <<Test(c.of, yes, no)>>

LoopHead(loop) == Guarded(loop.cond, <<loop.body, Again(loop)>>, <<>>)

Compound == {"block", "if", "while", "dowhile", "for", "switch", "label", "return", "again",
             "endswitch"}

Unfold(s) ==
  CASE s.kind = "block"   -> s.items
    [] s.kind = "if"      -> Guarded(s.cond, <<s.then>>, <<s.else>>)
    [] s.kind = "while"   -> LoopHead(s)
    [] s.kind = "dowhile" -> <<s.body, Again(s)>>
    [] s.kind = "for"     -> <<s.init>> \o LoopHead(s)
    [] s.kind = "switch"  -> Effects(s.cond) \o <<Select(s.cond.of, s.cases)>>
    [] s.kind = "label"   -> <<s.body>>
    [] s.kind = "return"  -> Effects(s.cond) \o <<Leave(s.cond.of)>>
    [] s.kind = "endswitch" -> <<>>
    [] s.kind = "again" ->
         CASE s.loop.kind = "while"   -> LoopHead(s.loop)
           [] s.loop.kind = "dowhile" -> Guarded(s.loop.cond, <<s.loop>>, <<>>)
           [] s.loop.kind = "for"     -> <<s.loop.step>> \o LoopHead(s.loop)

\* What is left after the first of the kinds, or from it on.
FirstOf(todo, kinds) == SelectInSeq(todo, LAMBDA s : s.kind \in kinds)
After(todo, kinds) == SubSeq(todo, FirstOf(todo, kinds) + 1, Len(todo))
From(todo, kinds) == SubSeq(todo, FirstOf(todo, kinds), Len(todo))

\* The statements of a switch that run for a value: those of its case, or of
\* the default, and all that follow.
CaseItems(cases, value) ==
  LET matching == SelectInSeq(cases, LAMBDA c : c.label = <<value>>)
      default == SelectInSeq(cases, LAMBDA c : c.label = <<>>)
      first == IF matching # 0 THEN matching ELSE default
  IN  IF first = 0 THEN <<>>
      ELSE FlattenSeq([i \in 1..Len(cases) - first + 1 |-> cases[first + i - 1].items])

\* What is left to do at a label of s, if rest follows s.
RECURSIVE AtLabel(_, _, _)
AtLabel(s, label, rest) ==
  LET Within(items) ==
        UNION {AtLabel(items[i], label, SubSeq(items, i + 1, Len(items)) \o rest) : i \in DOMAIN items}
  IN  CASE s.kind = "label" /\ s.label = label -> {<<s.body>> \o rest}
        [] s.kind = "label" /\ s.label # label -> AtLabel(s.body, label, rest)
        [] s.kind = "block" -> Within(s.items)
        [] s.kind = "if" -> AtLabel(s.then, label, rest) \cup AtLabel(s.else, label, rest)
        [] s.kind \in {"while", "dowhile", "for"} -> AtLabel(s.body, label, <<Again(s)>> \o rest)
        [] s.kind = "switch" ->
             UNION {LET items == s.cases[i].items
                        next == FlattenSeq([j \in 1..Len(s.cases) - i |-> s.cases[i + j].items])
                    IN  UNION {AtLabel(items[j], label,
                                 SubSeq(items, j + 1, Len(items)) \o next \o <<EndSwitch>> \o rest) :
                               j \in DOMAIN items} :
                    i \in DOMAIN s.cases}
        [] OTHER -> {}
=============================================================================
