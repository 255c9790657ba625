----------------------------- MODULE SimplExpr -----------------------------
(***************************************************************************)
(* From C to Clight: pkg/simplexpr takes the side effects out of the       *)
(* expressions and leaves their values in temporaries, pkg/simpllocals     *)
(* makes temporaries of the locals whose address is not taken, and         *)
(* pkg/clightgen drives both over a function.                              *)
(*                                                                         *)
(* A Transformer is a record: next is nextTempID, temps is tempTypes.      *)
(***************************************************************************)
EXTENDS CExpr

Econst_int(v, ty)    == Node("Econst_int", "", v, ty, <<>>)
Econst_long(v, ty)   == Node("Econst_long", "", v, ty, <<>>)
Evar(n, ty)          == Node("Evar", n, 0, ty, <<>>)
Etempvar(id, ty)     == Node("Etempvar", "", id, ty, <<>>)
Eunop(op, a, ty)     == Node("Eunop", op, 0, ty, <<a>>)
Ebinop(op, l, r, ty) == Node("Ebinop", op, 0, ty, <<l, r>>)
Ecast(a, ty)         == Node("Ecast", "", 0, ty, <<a>>)
Ederef(a, ty)        == Node("Ederef", "", 0, ty, <<a>>)
Eaddrof(a, ty)       == Node("Eaddrof", "", 0, ty, <<a>>)
Efield(a, f, ty)     == Node("Efield", f, 0, ty, <<a>>)
Esizeof(of, ty)      == Node("Esizeof", "", 0, ty, <<Node("Type", "", 0, of, <<>>)>>)

-----------------------------------------------------------------------------
(* Types and their names.                                                  *)

TypeOfWord(word) ==
  CASE word = "void"                                           -> Void
    [] word \in {"char", "signed char", "int8_t"}              -> Char
    [] word \in {"unsigned char", "uint8_t"}                   -> UChar
    [] word \in {"short", "signed short", "short int", "int16_t"} -> Short
    [] word \in {"unsigned short", "uint16_t"}                 -> UShort
    [] word \in {"int", "signed", "signed int", "int32_t"}     -> CInt
    [] word \in {"unsigned", "unsigned int", "uint32_t"}       -> UInt
    [] word \in {"long", "long long", "int64_t", "ssize_t"}    -> Long
    [] word \in {"unsigned long", "uint64_t", "size_t"}        -> ULong
    [] word = "float"                                          -> Float
    [] word = "double"                                         -> Double
    [] OTHER                                                   -> CInt

\* The two tables agree, except that only the second one knows structs.
typeFromString(name) == IF name.stars > 0 THEN Pointer(TypeOfWord(name.word)) ELSE TypeOfWord(name.word)

TypeFromString(name) ==
  LET base == IF name.word = "struct pair" THEN Tstruct("pair", <<>>) ELSE TypeOfWord(name.word)
  IN IF name.stars > 0 THEN Pointer(base) ELSE base

\* The definition a struct's name stands for.
structDefs == [pair |-> Tstruct("pair", MapSeq(LAMBDA f : Field(f.name, TypeFromString(f.type)), Pair))]
ResolveStruct(ty) == IF ty.t = "struct" /\ ty.name \in DOMAIN structDefs THEN structDefs[ty.name] ELSE ty

usualArithmeticConversion(left, right) ==
  LET small(ty) == ty.t = "int" /\ ty.size # "I32"
      either(t) == left.t = t \/ right.t = t IN
  CASE left.t = "float" /\ right.t = "float" -> IF Double \in {left, right} THEN Double ELSE Float
    [] either("float")                -> IF left.t = "float" THEN left ELSE right
    [] either("long")                 -> IF ULong \in {left, right} THEN ULong ELSE Long
    [] either("pointer")              -> IF left.t = "pointer" THEN left ELSE right
    [] small(left) \/ small(right)    -> CInt
    [] UInt \in {left, right}         -> UInt
    [] OTHER                          -> left

-----------------------------------------------------------------------------
(* SimplExpr.                                                              *)

newTemp(ty, t) == [id |-> t.next, t |-> [next |-> t.next + 1, temps |-> Append(t.temps, ty)]]

Result(expr, stmts, t) == [expr |-> expr, stmts |-> stmts, t |-> t]

GetType(name, types) == IF name \in DOMAIN types THEN types[name] ELSE CInt

RECURSIVE HasSideEffects(_)
HasSideEffects(e) ==
  \/ e.k \in {"IncDec", "Assign", "AssignOp", "Comma", "Call"}
  \/ e.k # "SizeofExpr" /\ \E i \in DOMAIN e.kids : HasSideEffects(e.kids[i])

\* Operands come to the operators below transformed: o holds their results in order, the
\* statements of all of them and the generator after the last one.

\* -e, !e, ~e and +e
transformUnary(e, o) ==
  LET inner == o.kids[1].expr
      expr == CASE e.n = "neg"    -> Eunop("neg", inner, inner.ty)
                [] e.n = "not"    -> Eunop("notbool", inner, CInt)
                [] e.n = "bitnot" -> Eunop("notint", inner, inner.ty)
                [] e.n = "plus"   -> inner
  IN Result(expr, o.stmts, o.t)

transformAddrOf(o) == Result(Eaddrof(o.kids[1].expr, Pointer(o.kids[1].expr.ty)), o.stmts, o.t)

transformDeref(o) ==
  LET inner == o.kids[1].expr
  IN Result(Ederef(inner, IF inner.ty.t = "pointer" THEN inner.ty.elem ELSE CInt), o.stmts, o.t)

\* Mutant: the value is read after the assignment.
ValueAfterwards(e, o) ==
  LET inner == o.kids[1].expr
      tmp   == newTemp(inner.ty, o.t)
  IN Result(Etempvar(tmp.id, inner.ty),
            o.stmts \o <<Sassign(inner, Ebinop(e.n, inner, Econst_int(1, inner.ty), inner.ty)),
                               Sset(tmp.id, inner)>>, tmp.t)

\* ++x: tmp = x + 1; x = tmp.  x++: tmp = x; x = x + 1.  The result is tmp.
transformIncDec(e, o) ==
  LET inner == o.kids[1].expr
      ty    == inner.ty
      computed == Ebinop(e.n, inner, Econst_int(1, ty), ty)
      tmp   == newTemp(ty, o.t)
      saved == IF e.v = 1 THEN computed ELSE inner
      stored == IF e.v = 1 THEN Etempvar(tmp.id, ty) ELSE computed
  IN Result(Etempvar(tmp.id, ty), o.stmts \o <<Sset(tmp.id, saved), Sassign(inner, stored)>>, tmp.t)

transformBinary(e, o) ==
  LET left  == o.kids[1].expr
      right == o.kids[2].expr
      ty == IF e.n \in Comparisons THEN CInt ELSE usualArithmeticConversion(left.ty, right.ty)
  IN Result(Ebinop(e.n, left, right, ty), o.stmts, o.t)

\* The value is left in a temporary and assigned from there.
AssignThroughTemp(lhs, value, o) ==
  LET tmp == newTemp(lhs.ty, o.t)
      got == Etempvar(tmp.id, lhs.ty)
  IN Result(got, o.stmts \o <<Sset(tmp.id, value), Sassign(lhs, got)>>, tmp.t)

\* The value is converted to the type of the left side.
transformAssign(o) ==
  LET lhs == o.kids[1].expr
      rhs == o.kids[2].expr
  IN AssignThroughTemp(lhs, IF rhs.ty # lhs.ty THEN Ecast(rhs, lhs.ty) ELSE rhs, o)

transformCompoundAssign(e, o) ==
  LET lhs == o.kids[1].expr IN AssignThroughTemp(lhs, Ebinop(e.n, lhs, o.kids[2].expr, lhs.ty), o)

transformComma(o) == Result(o.kids[2].expr, o.stmts, o.t)

\* When neither branch has a side effect, the statements of the branches are left out.
transformConditional(e, o) ==
  LET ty   == o.kids[2].expr.ty
      tmp  == newTemp(ty, o.t)
      pure == ~HasSideEffects(e.kids[2]) /\ ~HasSideEffects(e.kids[3])
      branch(r) == Append(IF pure THEN <<>> ELSE r.stmts, Sset(tmp.id, r.expr))
  IN Result(Etempvar(tmp.id, ty),
            Append(o.kids[1].stmts, Sifthenelse(o.kids[1].expr, branch(o.kids[2]), branch(o.kids[3]))), tmp.t)

\* a && b: if (a) { b's effects; tmp = b != 0 } else tmp = 0; and dually for ||.
transformLogical(e, o) ==
  LET left  == o.kids[1]
      right == o.kids[2]
      tmp   == newTemp(CInt, o.t)
      set(v) == <<Sset(tmp.id, Econst_int(v, CInt))>>
      inner == Append(right.stmts, Sifthenelse(right.expr, set(1), set(0)))
      outer == IF e.k = "LogicalAnd" THEN Sifthenelse(left.expr, inner, set(0))
                                     ELSE Sifthenelse(left.expr, set(1), inner)
  IN Result(Etempvar(tmp.id, CInt), Append(left.stmts, outer), tmp.t)

\* Arguments are converted to the parameters' types where these are known.
transformCall(o) ==
  LET fn   == o.kids[1].expr
      known == fn.ty.t = "function"
      arg(i) == LET a == o.kids[i + 1].expr IN
                IF known /\ i <= Len(fn.ty.params) /\ a.ty # fn.ty.params[i] THEN Ecast(a, fn.ty.params[i]) ELSE a
      ret  == IF known THEN fn.ty.return ELSE CInt
      tmp  == newTemp(ret, o.t)
  IN Result(Etempvar(tmp.id, ret),
            Append(o.stmts, Scall(tmp.id, fn, [i \in 1..(Len(o.kids) - 1) |-> arg(i)])), tmp.t)

\* a[i] is *(a + i), with an array taken as the address of its first element.
transformIndex(o) ==
  LET array == o.kids[1].expr
      elem  == IF array.ty.t \in {"array", "pointer"} THEN array.ty.elem ELSE CInt
      base  == IF array.ty.t = "array" THEN Eaddrof(array, Pointer(elem)) ELSE array
  IN Result(Ederef(Ebinop("add", base, o.kids[2].expr, Pointer(elem)), elem), o.stmts, o.t)

transformMember(e, o) ==
  LET inner == o.kids[1].expr
      elem  == IF inner.ty.t = "pointer" THEN ResolveStruct(inner.ty.elem) ELSE CInt
      base  == IF e.v = 1 THEN Ederef(inner, elem) ELSE inner
      st    == ResolveStruct(base.ty)
      named == IF st.t = "struct" THEN {i \in DOMAIN st.fields : st.fields[i].name = e.n} ELSE {}
  IN Result(Efield(base, e.n, IF named = {} THEN CInt ELSE st.fields[CHOOSE i \in named : \A j \in named : i <= j].type),
            o.stmts, o.t)

\* The type of a decimal constant is the first of int and long that holds it.
transformConstant(e, t) ==
  Result(Econst_int(e.v, IF Signed(e.v, IntBits) = e.v THEN CInt
                         ELSE IF Signed(e.v, LongBits) = e.v THEN Long ELSE ULong), <<>>, t)

transformOperator(e, o, types) ==
  CASE e.k = "Constant"    -> transformConstant(e, o.t)
    [] e.k = "Variable"    -> Result(Evar(e.n, ResolveStruct(GetType(e.n, types))), <<>>, o.t)
    [] e.k = "Paren"       -> o.kids[1]
    [] e.k = "Unary"       -> transformUnary(e, o)
    [] e.k = "AddrOf"      -> transformAddrOf(o)
    [] e.k = "Deref"       -> transformDeref(o)
    [] e.k = "IncDec"      -> transformIncDec(e, o)
    [] e.k = "Binary"      -> transformBinary(e, o)
    [] e.k = "Assign"      -> transformAssign(o)
    [] e.k = "AssignOp"    -> transformCompoundAssign(e, o)
    [] e.k = "Comma"       -> transformComma(o)
    [] e.k \in {"LogicalAnd", "LogicalOr"} -> transformLogical(e, o)
    [] e.k = "Conditional" -> transformConditional(e, o)
    [] e.k = "Call"        -> transformCall(o)
    [] e.k = "Index"       -> transformIndex(o)
    [] e.k = "Member"      -> transformMember(e, o)
    [] e.k = "SizeofType"  -> Result(Esizeof(typeFromString(e.ty), UInt), <<>>, o.t)
    [] e.k = "SizeofExpr"  -> Result(Esizeof(o.kids[1].expr.ty, UInt), <<>>, o.t)
    [] e.k = "Cast"        -> Result(Ecast(o.kids[1].expr, typeFromString(e.ty)), o.stmts, o.t)

AddOperand(o, r) == [kids |-> Append(o.kids, r), stmts |-> o.stmts \o r.stmts, t |-> r.t]

\* Every operator first transforms all its operands, from left to right.
RECURSIVE TransformExpr(_, _, _)
TransformExpr(e, types, t) ==
  transformOperator(e, FoldLeft(LAMBDA o, kid : AddOperand(o, TransformExpr(kid, types, o.t)),
                                [kids |-> <<>>, stmts |-> <<>>, t |-> t], e.kids), types)

-----------------------------------------------------------------------------
(* SimplLocals.                                                            *)

\* The variables that are the operand of an & somewhere in an expression.
RECURSIVE AnalyzeAddressTaken(_)
AnalyzeAddressTaken(e) ==
  (IF e.k = "AddrOf" /\ e.kids[1].k = "Variable" THEN {e.kids[1].n} ELSE {})
    \cup UNION {AnalyzeAddressTaken(e.kids[i]) : i \in DOMAIN e.kids}

AnalyzeDecl(s) == UNION {AnalyzeAddressTaken(s.init[i]) : i \in DOMAIN s.init}
AnalyzeStmt(s) == IF s.k = "Decl" THEN AnalyzeDecl(s) ELSE AnalyzeAddressTaken(s.e)
AnalyzeFunction(prog) == UNION {AnalyzeStmt(s) : s \in Range(prog.body)}

IsScalarType(ty) == ty.t \in {"int", "long", "float", "pointer"}

CanPromoteToTemp(decl, addressTaken) == decl.name \notin addressTaken /\ IsScalarType(decl.type)

\* The temporaries of the promoted locals, numbered from 1; a name declared twice has one.
AnalyzeLocals(locals, addressTaken) ==
  LET names == SelectSeq(locals, LAMBDA d : CanPromoteToTemp(d, addressTaken))
      firsts == SelectSeq([i \in DOMAIN names |-> [i |-> i, d |-> names[i]]],
                          LAMBDA x : \A j \in 1..(x.i - 1) : names[j].name # x.d.name)
  IN [i \in DOMAIN firsts |-> firsts[i].d]

FilterUnpromotedLocals(locals, addressTaken) ==
  SelectSeq(locals, LAMBDA d : ~CanPromoteToTemp(d, addressTaken))

\* promoted is the sequence of promoted declarations; the place of a name in it is its temporary.
RECURSIVE PromoteExpr(_, _)
PromoteExpr(e, promoted) ==
  LET ids == {i \in DOMAIN promoted : promoted[i].name = e.n} IN
  IF e.k = "Evar" /\ ids # {} THEN Etempvar(CHOOSE i \in ids : TRUE, e.ty)
  ELSE MapKids(LAMBDA a : PromoteExpr(a, promoted), e)

RECURSIVE PromoteStmt(_, _)
PromoteStmt(s, promoted) ==
  LET es == MapSeq(LAMBDA e : PromoteExpr(e, promoted), s.es) IN
  IF s.k = "Sassign" /\ es[1].k = "Etempvar" THEN Sset(es[1].v, es[2])
  ELSE [s EXCEPT !.es = es, !.bs = MapSeq(LAMBDA b : MapSeq(LAMBDA u : PromoteStmt(u, promoted), b), s.bs)]

-----------------------------------------------------------------------------
(* Clight functions.                                                       *)

\* The initializer of a variable, converted where the target is a char, a short or a long.
coerceToType(e, target) ==
  CASE target.t = "long" -> IF e.k = "Econst_int" THEN Econst_long(e.v, target) ELSE e
    [] target.t = "int" /\ target.size # "I32" /\ e.ty # target -> Ecast(e, target)
    [] OTHER -> e

\* acc holds the statements so far and the generator; r is what the expression of s became.
AddStmt(acc, s, r) ==
  LET ty == TypeFromString(s.name)
      last == CASE s.k = "Return"      -> <<Sreturn(r.expr)>>
                [] s.k = "Computation" -> <<>>
                [] s.k = "Decl"        -> <<Sassign(Evar(s.n, ty), coerceToType(r.expr, ty))>>
  IN [stmts |-> acc.stmts \o r.stmts \o last, t |-> r.t]

\* A declaration without an initializer becomes nothing.
transformStmt(acc, s, types) ==
  IF s.k = "Decl" /\ s.init = <<>> THEN acc
  ELSE AddStmt(acc, s, TransformExpr(IF s.k = "Decl" THEN s.init[1] ELSE s.e, types, acc.t))

transformBlock(body, types, t) ==
  FoldLeft(LAMBDA acc, s : transformStmt(acc, s, types), [stmts |-> <<>>, t |-> t], body)

VarDecl(name, type) == [name |-> name, type |-> type]

collectLocals(body) ==
  MapSeq(LAMBDA s : LET ty == ResolveStruct(TypeFromString(s.name))
                    IN VarDecl(s.n, IF s.dims = <<>> THEN ty ELSE Tarray(ty, s.dims[1])),
         SelectSeq(body, LAMBDA s : s.k = "Decl"))

\* The bytes a global variable starts with, as a number: only constants are evaluated.
RECURSIVE evaluateConstantInitializer(_)
evaluateConstantInitializer(e) ==
  CASE e.k = "Paren" \/ (e.k = "Unary" /\ e.n = "plus") -> evaluateConstantInitializer(e.kids[1])
    [] e.k = "Constant" -> e.v
    [] e.k = "Unary" /\ e.n = "neg" /\ e.kids[1].k = "Constant" -> -e.kids[1].v
    [] OTHER -> 0

\* The types of the names, as they are registered: parameters over globals over locals.
TypeEnv(prog, locals) ==
  LET LastOf(decls) == [x \in {d.name : d \in Range(decls)} |->
                        LET is == {i \in DOMAIN decls : decls[i].name = x}
                        IN decls[CHOOSE i \in is : \A j \in is : j <= i].type]
      Typed(decls) == MapSeq(LAMBDA d : VarDecl(d.name, TypeFromString(d.type)), decls)
  IN LastOf(Typed(prog.params)) @@ LastOf(Typed(Globals)) @@ Externals @@ LastOf(locals)

translateFunction(prog) ==
  LET locals == collectLocals(prog.body)
      taken  == AnalyzeFunction(prog)
      promoted == AnalyzeLocals(locals, taken)
      body   == transformBlock(prog.body, TypeEnv(prog, locals), [next |-> Len(promoted) + 1, temps |-> <<>>])
  IN [params |-> MapSeq(LAMBDA p : VarDecl(p.name, TypeFromString(p.type)), prog.params),
      locals |-> FilterUnpromotedLocals(locals, taken),
      temps  |-> MapSeq(LAMBDA d : d.type, promoted) \o body.t.temps,
      body   |-> MapSeq(LAMBDA s : PromoteStmt(s, promoted), body.stmts)]
=============================================================================
