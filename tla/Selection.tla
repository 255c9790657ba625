----------------------------- MODULE Selection -----------------------------
(***************************************************************************)
(* From Cminor to CminorSel (pkg/selection): addressing modes are chosen   *)
(* for loads and stores, an addition or a subtraction takes a shift of its *)
(* operand along, and the conditions of branches are comparisons.          *)
(*                                                                         *)
(* The mode of a load is in the ty field of its node.  The context's table *)
(* of stack variables is always empty: what it was for is an Oaddrstack.   *)
(***************************************************************************)
EXTENDS CExpr

Mode(m, n, v)      == [m |-> m, n |-> n, v |-> v]
Eload(chunk, mode, args) == Node("Eload", chunk, 0, mode, args)
Eaddshift(v, l, r) == Node("Eaddshift", "", v, "", <<l, r>>)
Esubshift(v, l, r) == Node("Esubshift", "", v, "", <<l, r>>)
CondCmp(cmp, cls, l, r) == Node("CondCmp", cmp, 0, cls, <<l, r>>)
CondNot(c)         == Node("CondNot", "", 0, "", <<c>>)
CondTrue           == Node("CondTrue", "", 0, "", <<>>)
CondFalse          == Node("CondFalse", "", 0, "", <<>>)

isConstant(e) == e.k \in {"Ointconst", "Olongconst", "Oaddrsymbol", "Oaddrstack"}
\* extractConstantOffset: the constants that have a number for a value.
IsOffset(e)   == e.k \in {"Ointconst", "Olongconst"}
IsOp(e, op)   == e.k = "Ebinop" /\ e.n = op /\ e.ty \in {"i", "l"}
IsGlobal(e, globals) == e.k = "Evar" /\ e.n \in globals

-----------------------------------------------------------------------------
(* Addressing modes.  An argument that is part of an address is converted  *)
(* on its own, without the rules for whole expressions.                    *)

RECURSIVE translateExpr(_)
translateExpr(e) ==
  LET args == MapSeq(translateExpr, e.kids) IN
  CASE e.k = "Ecmp"  -> Node("Ebinop", "cmp", 0, e.ty, args)
    [] e.k = "Eload" -> Eload(e.n, Mode("Aindexed", "", 0), args)
    [] OTHER         -> [e EXCEPT !.kids = args]

Address(mode, args) == <<[mode |-> mode, args |-> MapSeq(translateExpr, args)]>>

\* Each attempt gives the address in a sequence, or the empty sequence when it does not match.
tryAglobal(a, globals) ==
  LET l == a.kids[1]  r == a.kids[2] IN
  CASE IsGlobal(a, globals) -> Address(Mode("Aglobal", a.n, 0), <<>>)
    [] IsOp(a, "add") /\ IsGlobal(l, globals) /\ IsOffset(r) -> Address(Mode("Aglobal", l.n, r.v), <<>>)
    [] IsOp(a, "add") /\ IsGlobal(r, globals) /\ IsOffset(l) -> Address(Mode("Aglobal", r.n, l.v), <<>>)
    [] OTHER -> <<>>

tryAinstack(a) ==
  LET l == a.kids[1]  r == a.kids[2] IN
  CASE a.k = "Oaddrstack" -> Address(Mode("Ainstack", "", a.v), <<>>)
    [] IsOp(a, "add") /\ l.k = "Oaddrstack" /\ IsOffset(r) -> Address(Mode("Ainstack", "", l.v + r.v), <<>>)
    [] IsOp(a, "add") /\ r.k = "Oaddrstack" /\ IsOffset(l) -> Address(Mode("Ainstack", "", r.v + l.v), <<>>)
    [] OTHER -> <<>>

extractShiftAdd(e) == IsOp(e, "shl") /\ e.kids[2].k = "Ointconst" /\ e.kids[2].v \in 0..3

tryAindexed2shift(a) ==
  LET l == a.kids[1]  r == a.kids[2] IN
  CASE ~IsOp(a, "add")    -> <<>>
    [] extractShiftAdd(r) -> Address(Mode("Aindexed2shift", "", r.kids[2].v), <<l, r.kids[1]>>)
    [] extractShiftAdd(l) -> Address(Mode("Aindexed2shift", "", l.kids[2].v), <<r, l.kids[1]>>)
    [] OTHER              -> <<>>

tryAindexed2(a) ==
  IF IsOp(a, "add") /\ ~isConstant(a.kids[1]) /\ ~isConstant(a.kids[2])
  THEN Address(Mode("Aindexed2", "", 0), a.kids) ELSE <<>>

tryAindexed(a) ==
  LET l == a.kids[1]  r == a.kids[2] IN
  CASE IsOp(a, "add") /\ IsOffset(r) -> Address(Mode("Aindexed", "", r.v), <<l>>)
    [] IsOp(a, "add") /\ IsOffset(l) -> Address(Mode("Aindexed", "", l.v), <<r>>)
    [] IsOp(a, "sub") /\ IsOffset(r) -> Address(Mode("Aindexed", "", -r.v), <<l>>)
    [] OTHER -> <<>>

\* The first attempt that matches; the address as it is when none does.
SelectAddressing(a, globals) ==
  Head(tryAglobal(a, globals) \o tryAinstack(a) \o tryAindexed2shift(a) \o tryAindexed2(a) \o tryAindexed(a)
         \o Address(Mode("Aindexed", "", 0), <<a>>))

RECURSIVE reSelectExpr(_, _)
reSelectExpr(e, globals) ==
  IF IsGlobal(e, globals) THEN Oaddrsymbol(e.n, 0) ELSE MapKids(LAMBDA a : reSelectExpr(a, globals), e)

-----------------------------------------------------------------------------
(* Expressions and conditions.                                             *)

isValidShiftAmount(v) == v \in 0..(LongBits - 1)

\* An operand that is a shift to the left by a constant, of the class of the operator.
extractShift(e, cls) ==
  e.k = "Ebinop" /\ e.n = "shl" /\ e.ty = cls /\ e.kids[2].k = "Ointconst" /\ isValidShiftAmount(e.kids[2].v)

isCommutative(op) == op \in {"add", "mul", "and", "or", "xor"}

\* The operands of a combined operation in its order, or the empty sequence.
TrySelectCombinedOp(e) ==
  LET l == e.kids[1]  r == e.kids[2] IN
  CASE e.n \notin {"add", "sub", "and", "or", "xor"} \/ e.ty \notin {"i", "l"} -> <<>>
    [] extractShift(r, e.ty) -> <<l, r>>
    [] isCommutative(e.n) /\ extractShift(l, e.ty) -> <<r, l>>
    [] OTHER -> <<>>

RECURSIVE SelectExpr(_, _)

\* The operators & | and ^ have no combined form: what is built is an & without the shift.
buildCombinedOp(op, operands, globals) ==
  LET base  == SelectExpr(operands[1], globals)
      index == SelectExpr(operands[2].kids[1], globals)
      shift == operands[2].kids[2].v
  IN CASE op = "add" -> Eaddshift(shift, base, index)
       [] op = "sub" -> Esubshift(shift, base, index)
       [] OTHER      -> Binop("and", "i", base, index)

selectUnop(e, globals) ==
  LET arg == SelectExpr(e.kids[1], globals)
  IN IF e.n = "notbool" THEN Cmp("eq", "i", arg, Ointconst(0)) ELSE [e EXCEPT !.kids = <<arg>>]

selectBinop(e, globals) ==
  LET combined == TrySelectCombinedOp(e)
  IN IF combined # <<>> THEN buildCombinedOp(e.n, combined, globals)
     ELSE MapKids(LAMBDA a : SelectExpr(a, globals), e)

selectLoad(e, globals) ==
  LET a == SelectAddressing(e.kids[1], globals)
  IN Eload(e.n, a.mode, MapSeq(LAMBDA x : reSelectExpr(x, globals), a.args))

SelectExpr(e, globals) ==
  CASE IsGlobal(e, globals) -> Oaddrsymbol(e.n, 0)
    [] e.k = "Eunop"        -> selectUnop(e, globals)
    [] e.k = "Ebinop"       -> selectBinop(e, globals)
    [] e.k = "Eload"        -> selectLoad(e, globals)
    [] OTHER                -> MapKids(LAMBDA a : SelectExpr(a, globals), e)

RECURSIVE SelectCondition(_, _)
SelectCondition(e, globals) ==
  CASE e.k = "Ecmp" -> CondCmp(e.n, e.ty, SelectExpr(e.kids[1], globals), SelectExpr(e.kids[2], globals))
    [] isConstant(e) -> IF IsOffset(e) /\ e.v = 0 THEN CondFalse ELSE CondTrue
    [] e.k = "Eunop" /\ e.n = "notbool" -> CondNot(SelectCondition(e.kids[1], globals))
    [] OTHER -> CondCmp("ne", "i", SelectExpr(e, globals), Ointconst(0))

-----------------------------------------------------------------------------
(* Statements.                                                             *)

\* A store is the mode, the arguments of the address and the value.
Sstoresel(chunk, mode, args, value) ==
  [Stmt("Sstore", chunk, 0, <<value>> \o args, <<>>) EXCEPT !.v = mode]

selectStore(s, globals) ==
  LET a == SelectAddressing(s.es[1], globals)
  IN Sstoresel(s.n, a.mode, MapSeq(LAMBDA x : reSelectExpr(x, globals), a.args), SelectExpr(s.es[2], globals))

RECURSIVE SelectStmt(_, _)
SelectStmt(s, globals) ==
  CASE s.k = "Sstore" -> selectStore(s, globals)
    [] s.k = "Sifthenelse" ->
         [s EXCEPT !.es = <<SelectCondition(s.es[1], globals)>>,
                   !.bs = MapSeq(LAMBDA b : MapSeq(LAMBDA u : SelectStmt(u, globals), b), s.bs)]
    [] OTHER -> [s EXCEPT !.es = MapSeq(LAMBDA e : SelectExpr(e, globals), s.es)]

\* The names that are called and not defined.
RECURSIVE collectExternalFunctionsInStmt(_, _)
collectExternalFunctionsInStmt(s, defined) ==
  (IF s.k = "ScallVar" /\ s.es[1].k = "Evar" THEN {s.es[1].n} \ defined ELSE {})
    \cup UNION {UNION {collectExternalFunctionsInStmt(s.bs[b][i], defined) : i \in DOMAIN s.bs[b]} : b \in DOMAIN s.bs}

collectExternalFunctions(body, defined) == UNION {collectExternalFunctionsInStmt(s, defined) : s \in Range(body)}

SelectFunction(fn, globals) == [fn EXCEPT !.body = MapSeq(LAMBDA s : SelectStmt(s, globals), fn.body)]

\* The program is one function and the names it defines: global variables and itself.
SelectProgram(fn, defined) ==
  SelectFunction(fn, defined \cup collectExternalFunctions(fn.body, defined))
=============================================================================
