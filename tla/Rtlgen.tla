------------------------------- MODULE Rtlgen -------------------------------
(***************************************************************************)
(* The statements of CminorSel translated into the control-flow graph of   *)
(* RTL by TranslateStmt of pkg/rtlgen.  A statement is translated before   *)
(* what precedes it: it is given the node that follows it and returns its  *)
(* entry.  The builder b holds the next node, the code, the nodes of       *)
(* labels, the targets of the enclosing blocks and the next register; a    *)
(* translation yields its entry node and the builder.                      *)
(*                                                                         *)
(* The instructions that evaluate one computation, or one operand, stand   *)
(* together at one node.                                                   *)
(***************************************************************************)
EXTENDS Lowering, TLC

Inop(succ)       == [kind |-> "Inop", succ |-> succ]
Ido(what, succ)  == [kind |-> "Ido", what |-> what, succ |-> succ]
Ivalue(of, reg, succ) == [kind |-> "Ivalue", of |-> of, reg |-> reg, succ |-> succ]
Icond(test, of, so, not) == [kind |-> "Icond", test |-> test, of |-> of, so |-> so, not |-> not]
Icase(reg, value, so, not) == [kind |-> "Icase", reg |-> reg, value |-> value, so |-> so, not |-> not]
Ireturn(of)      == [kind |-> "Ireturn", of |-> of]

NewBuilder == [next |-> 1, code |-> <<>>, labels |-> <<>>, exits |-> <<>>, reg |-> 1]

At(node, b) == [at |-> node, b |-> b]

AllocNode(b) == At(b.next, [b EXCEPT !.next = @ + 1])
AddInstr(b, node, instr) == [b EXCEPT !.code = (node :> instr) @@ @]
EmitInstr(b, instr) == At(b.next, AddInstr(AllocNode(b).b, b.next, instr))

GetOrCreateLabel(b, label) ==
  IF label \in DOMAIN b.labels THEN At(b.labels[label], b)
  ELSE At(b.next, [AllocNode(b).b EXCEPT !.labels = (label :> b.next) @@ @])

Push(b, target) == [b EXCEPT !.exits = Append(@, target)]
Pop(b) == [b EXCEPT !.exits = Front(@)]

-----------------------------------------------------------------------------
\* The test of a condition, and what it is made of.
RECURSIVE TranslateCondition(_)
TranslateCondition(c) ==
  CASE c.cond = "true"    -> [test |-> "ne", of |-> Const(1)]
    [] c.cond = "false"   -> [test |-> "ne", of |-> Const(0)]
    [] c.cond = "nonzero" -> [test |-> "ne", of |-> c.arg]
    [] c.cond = "not"     ->
         LET inner == TranslateCondition(c.arg)
         IN  [inner EXCEPT !.test = IF @ = "ne" THEN "eq" ELSE "ne"]

\* A node is allocated that never gets an instruction.
TranslateCond(c, so, not, b) ==
  LET cc == TranslateCondition(c)
  IN  EmitInstr(AllocNode(b).b, Icond(cc.test, cc.of, so, not))

RECURSIVE TranslateStmt(_, _, _)

translateSeq(s, succ, b) ==
  LET second == TranslateStmt(s.second, succ, b)
  IN  TranslateStmt(s.first, second.at, second.b)

translateIf(s, succ, b) ==
  LET then == TranslateStmt(s.then, succ, b)
      else == TranslateStmt(s.else, succ, then.b)
  IN  TranslateCond(s.cond, then.at, else.at, else.b)

\* Mutant: the header goes to itself.
HeaderLoops(s, b) ==
  LET header == AllocNode(b)
      body == TranslateStmt(s.body, header.at, header.b)
  IN  At(header.at, AddInstr(body.b, header.at, Inop(header.at)))

\* The loop does not push an exit target: only blocks do.
translateSloop(s, b) ==
  LET header == AllocNode(b)
      body == TranslateStmt(s.body, header.at, header.b)
  IN  At(header.at, AddInstr(body.b, header.at, Inop(body.at)))

translateBlock(s, succ, b) ==
  LET body == TranslateStmt(s.body, succ, Push(b, succ))
  IN  At(body.at, Pop(body.b))

\* Sexit(0) is the innermost block; an exit beyond the blocks gets a new node.
translateExit(s, b) ==
  LET index == Len(b.exits) - s.n
  IN  IF index \in DOMAIN b.exits THEN EmitInstr(b, Inop(b.exits[index])) ELSE AllocNode(b)

\* A cascade of comparisons with the values of the cases, in order.
translateSwitch(s, succ, b) ==
  LET reg == b.reg
      TestCase(otherwise, c) ==
        LET body == TranslateStmt(c.body, succ, otherwise.b)
        IN  EmitInstr(body.b, Icase(reg, c.value, body.at, otherwise.at))
      tests == FoldLeft(TestCase, TranslateStmt(s.default, succ, [b EXCEPT !.reg = @ + 1]),
                        Reverse(s.cases))
  IN  EmitInstr(tests.b, Ivalue(s.expr, reg, tests.at))

\* Mutant: the node of the label gets no instruction.
LabelOnly(s, succ, b) ==
  LET label == GetOrCreateLabel(b, s.label)
      body == TranslateStmt(s.body, succ, label.b)
  IN  body

translateLabel(s, succ, b) ==
  LET label == GetOrCreateLabel(b, s.label)
      body == TranslateStmt(s.body, succ, label.b)
  IN  At(label.at, AddInstr(body.b, label.at, Inop(body.at)))

translateGoto(s, b) ==
  LET target == GetOrCreateLabel(b, s.label)
  IN  EmitInstr(target.b, Inop(target.at))

TranslateStmt(s, succ, b) ==
  CASE s.kind = "Sskip"       -> At(succ, b)
    [] s.kind = "Sdo"         -> EmitInstr(b, Ido(s.what, succ))
    [] s.kind = "Sseq"        -> translateSeq(s, succ, b)
    [] s.kind = "Sifthenelse" -> translateIf(s, succ, b)
    [] s.kind = "Sloop"       -> translateSloop(s, b)
    [] s.kind = "Sblock"      -> translateBlock(s, succ, b)
    [] s.kind = "Sexit"       -> translateExit(s, b)
    [] s.kind = "Sswitch"     -> translateSwitch(s, succ, b)
    [] s.kind = "Sreturn"     -> EmitInstr(b, Ireturn(s.value))
    [] s.kind = "Slabel"      -> translateLabel(s, succ, b)
    [] s.kind = "Sgoto"       -> translateGoto(s, b)

\* A function that reaches its end returns.
TranslateFunction(body) ==
  LET exit == EmitInstr(NewBuilder, Ireturn(NoValue))
      translated == TranslateStmt(body, exit.at, exit.b)
  IN  [entry |-> translated.at, code |-> translated.b.code]
=============================================================================
