---------------------------- MODULE RtlgenExpr ----------------------------
(***************************************************************************)
(* Expressions and straight-line statements from CminorSel to RTL          *)
(* (pkg/rtlgen).  Code is emitted backwards: an expression is given the    *)
(* register for its value and the node that follows, and yields the node   *)
(* where its evaluation starts.  The builder b holds the next node, the    *)
(* next register, the code and the registers of the variables.             *)
(***************************************************************************)
EXTENDS CExpr, TLC

At(node, b) == [at |-> node, b |-> b]

\* An operation: its name, its class and the number in it.
Op(n, cls, v) == [n |-> n, cls |-> cls, v |-> v]

Instr(k, op, args, dest, succ) == [k |-> k, op |-> op, args |-> args, dest |-> dest, succ |-> succ]
Iop(op, args, dest, succ)      == Instr("Iop", op, args, dest, <<succ>>)
Iload(chunk, mode, args, dest, succ)  == Instr("Iload", Op(chunk, mode, 0), args, dest, <<succ>>)
Istore(chunk, mode, args, src, succ)  == Instr("Istore", Op(chunk, mode, 0), <<src>> \o args, 0, <<succ>>)
Icall(fn, args, dest, succ)    == Instr("Icall", fn, args, dest, <<succ>>)
Icond(cc, args, so, not)       == Instr("Icond", cc, args, 0, <<so, not>>)
Ireturn(args)                  == Instr("Ireturn", "", args, 0, <<>>)

-----------------------------------------------------------------------------
(* Nodes and registers.                                                    *)

NewBuilder == [next |-> 1, reg |-> 1, code |-> <<>>, vars |-> <<>>]

\* Mutant: the number of a node is given out again.
SameNode(b) == At(b.next, b)

AllocNode(b) == At(b.next, [b EXCEPT !.next = @ + 1])
AddInstr(b, node, instr) == [b EXCEPT !.code = (node :> instr) @@ @]
EmitInstr(b, instr) == At(b.next, AddInstr(AllocNode(b).b, b.next, instr))

\* FreshN: n registers, the last of which is the one before the next.
FreshN(n, b) == [regs |-> [i \in 1..n |-> b.reg + i - 1], b |-> [b EXCEPT !.reg = @ + n]]

MapVar(name, b) ==
  IF name \in DOMAIN b.vars THEN [reg |-> b.vars[name], b |-> b]
  ELSE [reg |-> b.reg, b |-> [b EXCEPT !.reg = @ + 1, !.vars = (name :> b.reg) @@ @]]

MapVars(names, b) == FoldLeft(LAMBDA acc, name : MapVar(name, acc).b, b, names)

\* Each parameter has a new register; the last one of a name has the name.
MapParams(names, b) ==
  FoldLeft(LAMBDA acc, name : [acc EXCEPT !.reg = @ + 1, !.vars = (name :> acc.reg) @@ @], b, names)

-----------------------------------------------------------------------------
(* Operations.                                                             *)

KnownUnops == {"cast8signed", "cast8unsigned", "cast16signed", "cast16unsigned", "neg", "notint",
               "singleoffloat", "floatofsingle", "intoffloat", "intuoffloat", "floatofint", "floatofintu",
               "longoffloat", "longuoffloat", "floatoflong", "floatoflongu", "intoflong", "longofint", "longofintu"}

\* Conversions between long and float32, and !, have no operation: the value is moved.
TranslateUnaryOp(e) == IF e.n \in KnownUnops THEN Op(e.n, e.ty, 0) ELSE Op("move", "l", 0)

\* A comparison that was left as an operator becomes an addition.
TranslateBinaryOp(e) == IF e.n = "cmp" THEN Op("add", "i", 0) ELSE Op(e.n, e.ty, 0)

TranslateConstant(e) == [Op(e.k, "", e.v) EXCEPT !.cls = e.n]

TranslateCompareOp(e) == Op(e.n, e.ty, 0)

Negate(cmp) == [eq |-> "ne", ne |-> "eq", lt |-> "ge", ge |-> "lt", le |-> "gt", gt |-> "le"][cmp]

\* The condition code, and the expressions it compares; a constant is compared with 0.
RECURSIVE TranslateCondition(_)
TranslateCondition(c) ==
  CASE c.k = "CondTrue"  -> [cc |-> [n |-> "ne", cls |-> "i", imm |-> <<0>>], args |-> <<Ointconst(1)>>]
    [] c.k = "CondFalse" -> [cc |-> [n |-> "ne", cls |-> "i", imm |-> <<0>>], args |-> <<Ointconst(0)>>]
    [] c.k = "CondCmp"   -> [cc |-> [n |-> c.n, cls |-> c.ty, imm |-> <<>>], args |-> c.kids]
    [] c.k = "CondNot"   -> LET inner == TranslateCondition(c.kids[1])
                            IN [inner EXCEPT !.cc.n = Negate(@)]

-----------------------------------------------------------------------------
(* Expressions.                                                            *)

translateVar(e, dest, succ, b) ==
  LET src == MapVar(e.n, b)
  IN IF src.reg = dest THEN At(succ, src.b)
     ELSE EmitInstr(src.b, Iop(Op("move", "l", 0), <<src.reg>>, dest, succ))

\* An operator is emitted before its operands: the registers that these are to be computed
\* into, and the node that is to follow them.
Before(regs, emitted) == [regs |-> regs, at |-> emitted.at, b |-> emitted.b]

translateUnop(e, dest, succ, b) ==
  LET arg == FreshN(1, b) IN Before(arg.regs, EmitInstr(arg.b, Iop(TranslateUnaryOp(e), arg.regs, dest, succ)))

translateBinop(op, dest, succ, b) ==
  LET args == FreshN(2, b) IN Before(args.regs, EmitInstr(args.b, Iop(op, args.regs, dest, succ)))

\* left op (right << amount), always on words.
translateShifted(e, op, dest, succ, b) ==
  LET r == FreshN(3, b)
      operation == EmitInstr(r.b, Iop(Op(op, "i", 0), <<r.regs[1], r.regs[3]>>, dest, succ))
  IN Before(r.regs, EmitInstr(operation.b, Iop(Op("shlimm", "i", e.v), <<r.regs[2]>>, r.regs[3], operation.at)))

\* first is the first of the two translations of the address: its registers are used.
translateLoad(e, dest, succ, first) ==
  Before(first.regs, EmitInstr(first.b, Iload(e.n, e.ty, first.regs, dest, succ)))

RECURSIVE TranslateExpr(_, _, _, _)

\* Expressions into given registers, the first one evaluated first.
translateExprListToRegs(es, regs, succ, b) ==
  FoldRightDomain(LAMBDA i, after : TranslateExpr(es[i], regs[i], after.at, after.b), es, At(succ, b))

\* What is emitted, and then its operands es.
Operands(es, op) == translateExprListToRegs(es, op.regs, op.at, op.b)

TranslateExprList(es, succ, b) ==
  LET fresh == FreshN(Len(es), b) IN Before(fresh.regs, Operands(es, Before(fresh.regs, At(succ, fresh.b))))

\* The operands of an address are translated twice; what the first time emits is never reached.
TranslateExpr(e, dest, succ, b) ==
  CASE e.k = "Evar" -> translateVar(e, dest, succ, b)
    [] e.k \in {"Ointconst", "Olongconst", "Oaddrsymbol", "Oaddrstack"}
                    -> EmitInstr(b, Iop(TranslateConstant(e), <<>>, dest, succ))
    [] OTHER -> Operands(e.kids,
         CASE e.k = "Eunop"     -> translateUnop(e, dest, succ, b)
           [] e.k = "Ebinop"    -> translateBinop(TranslateBinaryOp(e), dest, succ, b)
           [] e.k = "Ecmp"      -> translateBinop(TranslateCompareOp(e), dest, succ, b)
           [] e.k = "Eload"     -> translateLoad(e, dest, succ, TranslateExprList(e.kids, succ, b))
           [] e.k = "Eaddshift" -> translateShifted(e, "add", dest, succ, b)
           [] e.k = "Esubshift" -> translateShifted(e, "sub", dest, succ, b))

-----------------------------------------------------------------------------
(* Statements.                                                             *)

\* A statement is emitted before the expressions in it, which come in their order of evaluation.
Evaluate(es, regs, emitted) == [es |-> es, op |-> Before(regs, emitted)]

LastFirst(s) == Append(Tail(s), s[1])

translateAssign(s, succ, b) ==
  LET dest == MapVar(s.n, b) IN Evaluate(s.es, <<dest.reg>>, At(succ, dest.b))

StoreInstr(s, r, succ) == EmitInstr(r.b, Istore(s.n, s.v, Tail(r.regs), r.regs[1], succ))

\* Mutant: the address is linked to the store, past the code of the value.
ValueSkipped(s, succ, b) ==
  LET r == FreshN(Len(s.es), b) IN Evaluate(Tail(s.es), Tail(r.regs), StoreInstr(s, r, succ))

\* es is the value and the operands of the address; the address is evaluated before the value.
translateStore(s, succ, b) ==
  LET r == FreshN(Len(s.es), b) IN Evaluate(LastFirst(s.es), LastFirst(r.regs), StoreInstr(s, r, succ))

\* The register for the function is allocated, and not used, when the function is a symbol.
\* Otherwise the function is evaluated after the arguments.
translateCall(s, succ, b) ==
  LET r    == FreshN(Len(s.es), b)
      dest == MapVar(s.n, r.b)
      fn   == s.es[1]
  IN IF fn.k = "Oaddrsymbol"
     THEN Evaluate(Tail(s.es), Tail(r.regs), EmitInstr(dest.b, Icall(fn.n, Tail(r.regs), dest.reg, succ)))
     ELSE Evaluate(LastFirst(s.es), LastFirst(r.regs), EmitInstr(dest.b, Icall("", r.regs, dest.reg, succ)))

translateReturn(s, b) ==
  LET r == FreshN(1, b) IN Evaluate(s.es, r.regs, EmitInstr(r.b, Ireturn(r.regs)))

\* The operands of a condition are translated twice too, the first time onto an empty node.
CondInstr(cond, targets, first) ==
  Evaluate(cond.args, first.regs, EmitInstr(first.b, Icond(cond.cc, first.regs, targets[1], targets[2])))

TranslateCond(cond, targets, empty) == CondInstr(cond, targets, TranslateExprList(cond.args, empty.at, empty.b))

RECURSIVE TranslateSeq(_, _, _)

\* The branches, the first one first, and where each one starts.
AddBranch(bs, branch) == [targets |-> Append(bs.targets, branch.at), b |-> branch.b]
Branches(s, succ, b) ==
  FoldLeft(LAMBDA bs, branch : AddBranch(bs, TranslateSeq(branch, succ, bs.b)), [targets |-> <<>>, b |-> b], s.bs)

IfBefore(s, bs) == TranslateCond(TranslateCondition(s.es[1]), bs.targets, AllocNode(bs.b))
translateIf(s, succ, b) == IfBefore(s, Branches(s, succ, b))

EvaluateAll(m) == Operands(m.es, m.op)

TranslateStmt(s, succ, b) ==
  EvaluateAll(CASE s.k = "SassignVar"  -> translateAssign(s, succ, b)
                [] s.k = "Sstore"      -> translateStore(s, succ, b)
                [] s.k = "ScallVar"    -> translateCall(s, succ, b)
                [] s.k = "Sifthenelse" -> translateIf(s, succ, b)
                [] s.k = "Sreturn"     -> translateReturn(s, b))

\* The last statement of a sequence is translated first.
TranslateSeq(ss, succ, b) ==
  FoldRight(LAMBDA s, after : TranslateStmt(s, after.at, after.b), ss, At(succ, b))

\* Parameters, then variables, then the code, which ends at a return without a value.
\* The order of the variables is that of a Go map; their registers only differ in number.
TranslateFunction(fn) ==
  LET params == MapParams(fn.params, NewBuilder)
      exit   == EmitInstr(MapVars(fn.vars, params), Ireturn(<<>>))
      body   == TranslateSeq(fn.body, exit.at, exit.b)
  IN [params |-> [i \in DOMAIN fn.params |-> i], slots |-> fn.slots, stacksize |-> fn.stackspace,
      code |-> body.b.code, entry |-> body.at]
=============================================================================
