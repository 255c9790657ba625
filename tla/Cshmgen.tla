------------------------------ MODULE Cshmgen ------------------------------
(***************************************************************************)
(* From Clight to Csharpminor (pkg/cshmgen): the operators get the width   *)
(* and the sign of their operands, accesses to memory become loads and     *)
(* stores of a chunk, and a parameter that is assigned to is shadowed by a *)
(* temporary.                                                              *)
(*                                                                         *)
(* The code panics on the address of something that is not an lvalue; a    *)
(* CASE without an arm for it stands for that.                             *)
(***************************************************************************)
EXTENDS CExpr

-----------------------------------------------------------------------------
(* Sizes.                                                                  *)

alignUp(n, align) == IF align = 0 THEN n ELSE ((n + align - 1) \div align) * align

Largest(S) == CHOOSE a \in S : \A b \in S : b <= a

RECURSIVE sizeofType(_), alignofType(_), sizeofFields(_, _)

alignofType(ty) ==
  CASE ty.t = "void"   -> 1
    [] ty.t = "int"    -> [I8 |-> 1, I16 |-> 2, I32 |-> 4][ty.size]
    [] ty.t = "float"  -> IF ty.size = "F32" THEN 4 ELSE 8
    [] ty.t \in {"long", "pointer"} -> 8
    [] ty.t = "array"  -> alignofType(ty.elem)
    [] ty.t = "struct" -> Largest({1} \cup {alignofType(ty.fields[i].type) : i \in DOMAIN ty.fields})
    [] OTHER           -> 4

\* Where the first n fields of a struct end.
sizeofFields(fields, n) ==
  IF n = 0 THEN 0
  ELSE alignUp(sizeofFields(fields, n - 1), alignofType(fields[n].type)) + sizeofType(fields[n].type)

sizeofType(ty) ==
  CASE ty.t = "array"  -> ty.n * sizeofType(ty.elem)
    [] ty.t = "struct" -> alignUp(sizeofFields(ty.fields, Len(ty.fields)), alignofType(ty))
    [] OTHER           -> alignofType(ty)

fieldOffset(ty, name) ==
  LET at == IF ty.t = "struct" THEN {i \in DOMAIN ty.fields : ty.fields[i].name = name} ELSE {}
      i  == CHOOSE i \in at : \A j \in at : i <= j
  IN IF at = {} THEN 0 ELSE alignUp(sizeofFields(ty.fields, i - 1), alignofType(ty.fields[i].type))

ChunkForType(ty) ==
  CASE ty.t = "int" -> [I8  |-> IF ty.sign = "Signed" THEN "Mint8signed" ELSE "Mint8unsigned",
                        I16 |-> IF ty.sign = "Signed" THEN "Mint16signed" ELSE "Mint16unsigned",
                        I32 |-> "Mint32"][ty.size]
    [] ty.t \in {"long", "pointer"} -> "Mint64"
    [] ty.t = "float" -> IF ty.size = "F32" THEN "Mfloat32" ELSE "Mfloat64"
    [] OTHER -> "Many32"

isSignedType(ty) == ~IsUnsigned(ty)

-----------------------------------------------------------------------------
(* Operators.                                                              *)

floatClass(ty) == IF ty.size = "F32" THEN "s" ELSE "f"

\* *, and unary minus
translateMul(ty) == CASE ty.t = "long" -> "l" [] ty.t = "float" -> floatClass(ty) [] OTHER -> "i"
\* + and -
translateAdd(ty) == IF ty.t = "pointer" THEN "l" ELSE translateMul(ty)
\* &, |, ^, << and ~
translateAnd(ty) == IF ty.t = "long" THEN "l" ELSE "i"
\* % and >>
translateMod(ty) == translateAnd(ty) \o (IF IsUnsigned(ty) THEN "u" ELSE "")
translateDiv(ty) == IF ty.t = "float" THEN floatClass(ty) ELSE translateMod(ty)

translateCmp(ty) ==
  CASE ty.t = "float" -> floatClass(ty) [] ty.t = "pointer" -> "lu" [] OTHER -> translateMod(ty)

\* An unsigned type that a signed int cannot hold.
needsUnsignedInt(ty) == ty \in {UInt, ULong}

translateCmpBoth(left, right) ==
  LET either(t) == left.t = t \/ right.t = t IN
  CASE left.t = "float"  -> translateCmp(left)
    [] right.t = "float" -> translateCmp(right)
    [] either("pointer") -> "lu"
    [] either("long")    -> IF (IsUnsigned(left) /\ IsUnsigned(right)) \/ left = ULong \/ right = ULong THEN "lu" ELSE "l"
    [] OTHER             -> IF needsUnsignedInt(left) \/ needsUnsignedInt(right) THEN "iu" ELSE "i"

\* The class of an operator follows its left operand.
TranslateBinaryOp(op, left, right) ==
  CASE op \in {"add", "sub"} -> translateAdd(left)
    [] op = "mul"            -> translateMul(left)
    [] op = "div"            -> translateDiv(left)
    [] op \in {"mod", "shr"} -> translateMod(left)
    [] op \in {"and", "or", "xor", "shl"} -> translateAnd(left)
    [] op \in Comparisons    -> translateCmpBoth(left, right)

TranslateUnaryOp(op, ty) ==
  CASE op = "neg" -> translateMul(ty) [] op = "notint" -> translateAnd(ty) [] op = "notbool" -> "i"

\* The operator that converts a value, or "" where there is nothing to do.
TranslateCast(from, to) ==
  LET u(ty) == IF IsUnsigned(ty) THEN "u" ELSE ""
      width == IF from.t = "float" THEN (IF from.size = "F32" THEN "single" ELSE "float") ELSE "" IN
  CASE from = to                               -> ""
    [] to.t = "int" /\ to.size = "I8"          -> IF to.sign = "Signed" THEN "cast8signed" ELSE "cast8unsigned"
    [] to.t = "int" /\ to.size = "I16"         -> IF to.sign = "Signed" THEN "cast16signed" ELSE "cast16unsigned"
    [] from.t = "float" /\ to.t = "float"      -> IF to.size = "F32" THEN "singleoffloat" ELSE "floatofsingle"
    [] from.t = "long" /\ to.t = "float"       -> (IF to.size = "F32" THEN "singleoflong" ELSE "floatoflong") \o u(from)
    [] from.t = "int" /\ to.t = "float"        -> "floatofint" \o u(from)
    [] from.t = "float" /\ to.t = "long"       -> "long" \o u(to) \o "of" \o width
    [] from.t = "float" /\ to.t = "int"        -> IF from.size = "F32" THEN "floatofsingle" ELSE "int" \o u(to) \o "offloat"
    [] from.t = "int" /\ to.t = "long"         -> "longofint" \o u(from)
    [] from.t = "long" /\ to.t = "int"         -> "intoflong"
    [] OTHER                                   -> ""

extendToLong(e, ty, signedExtend) ==
  IF ty.t = "long" THEN e
  ELSE Unop(IF signedExtend /\ ~IsUnsigned(ty) THEN "longofint" ELSE "longofintu", "", e)

-----------------------------------------------------------------------------
(* Expressions.  shadow gives the temporary of each modified parameter.    *)

RECURSIVE TranslateExpr(_, _), translateLvalueAddr(_, _)

translateConstInt(e) ==
  IF e.ty.t = "long" \/ Signed(e.v, IntBits) # e.v THEN Olongconst(e.v) ELSE Ointconst(e.v)

translateVar(e, shadow) == IF e.n \in DOMAIN shadow THEN Tempvar(shadow[e.n]) ELSE Var(e.n)

translateBinop(e, shadow) ==
  LET l   == e.kids[1]   r == e.kids[2]
      cls == TranslateBinaryOp(e.n, l.ty, r.ty)
      long(a) == extendToLong(TranslateExpr(a, shadow), a.ty, cls = "l")
  IN IF e.n \notin Comparisons THEN Binop(e.n, cls, TranslateExpr(l, shadow), TranslateExpr(r, shadow))
     ELSE IF cls \in {"l", "lu"} THEN Cmp(e.n, cls, long(l), long(r))
     ELSE Cmp(e.n, cls, TranslateExpr(l, shadow), TranslateExpr(r, shadow))

translateCast(e, shadow) ==
  LET op == TranslateCast(e.kids[1].ty, e.ty)
      a  == TranslateExpr(e.kids[1], shadow)
  IN IF op = "" THEN a ELSE Unop(op, "", a)

TranslateFieldAddr(e, shadow) ==
  LET base   == translateLvalueAddr(e.kids[1], shadow)
      offset == fieldOffset(e.kids[1].ty, e.n)
  IN IF offset = 0 THEN base ELSE Binop("add", "l", base, Olongconst(offset))

translateLvalueAddr(e, shadow) ==
  CASE e.k = "Evar"   -> AddrofVar(e.n)
    [] e.k = "Ederef" -> TranslateExpr(e.kids[1], shadow)
    [] e.k = "Efield" -> TranslateFieldAddr(e, shadow)

TranslateExpr(e, shadow) ==
  CASE e.k = "Econst_int"  -> translateConstInt(e)
    [] e.k = "Econst_long" -> Olongconst(e.v)
    [] e.k = "Evar"        -> translateVar(e, shadow)
    [] e.k = "Etempvar"    -> Tempvar(e.v)
    [] e.k = "Eunop"       -> Unop(e.n, TranslateUnaryOp(e.n, e.kids[1].ty), TranslateExpr(e.kids[1], shadow))
    [] e.k = "Ebinop"      -> translateBinop(e, shadow)
    [] e.k = "Ecast"       -> translateCast(e, shadow)
    [] e.k = "Ederef"      -> LoadOf(ChunkForType(e.ty), TranslateExpr(e.kids[1], shadow))
    [] e.k = "Eaddrof"     -> translateLvalueAddr(e.kids[1], shadow)
    [] e.k = "Efield"      -> LoadOf(ChunkForType(e.ty), TranslateFieldAddr(e, shadow))
    [] e.k = "Esizeof"     -> Ointconst(sizeofType(e.kids[1].ty))

-----------------------------------------------------------------------------
(* Statements and functions.                                               *)

\* A parameter is assigned through its temporary, anything else is stored.
translateAssign(s, shadow) ==
  LET lhs == s.es[1]   value == TranslateExpr(s.es[2], shadow) IN
  IF lhs.k = "Evar" /\ lhs.n \in DOMAIN shadow THEN Sset(shadow[lhs.n], value)
  ELSE Sstore(ChunkForType(lhs.ty), translateLvalueAddr(lhs, shadow), value)

RECURSIVE TranslateStmt(_, _)
TranslateStmt(s, shadow) ==
  IF s.k = "Sassign" THEN translateAssign(s, shadow)
  ELSE [s EXCEPT !.es = MapSeq(LAMBDA e : TranslateExpr(e, shadow), s.es),
                 !.bs = MapSeq(LAMBDA b : MapSeq(LAMBDA u : TranslateStmt(u, shadow), b), s.bs)]

RECURSIVE scanForModifiedParams(_, _)
scanForModifiedParams(s, params) ==
  (IF s.k = "Sassign" /\ s.es[1].k = "Evar" THEN {s.es[1].n} \cap params ELSE {})
    \cup UNION {UNION {scanForModifiedParams(s.bs[b][i], params) : i \in DOMAIN s.bs[b]} : b \in DOMAIN s.bs}

findModifiedParams(body, params) == UNION {scanForModifiedParams(s, params) : s \in Range(body)}

VarDecl(d) == [name |-> d.name, size |-> sizeofType(d.type), signed |-> isSignedType(d.type)]

\* order is the order in which the map of modified parameters is ranged over, which Go
\* leaves open: the parameters get the numbers from len(fn.Temps) on in that order.
translateFunction(fn, order) ==
  LET first  == Len(fn.temps)
      shadow == [x \in Range(order) |-> first + (CHOOSE i \in DOMAIN order : order[i] = x) - 1]
      copies == MapSeq(LAMBDA x : Sset(shadow[x], Var(x)), order)
  IN [params |-> MapSeq(LAMBDA p : p.name, fn.params),
      locals |-> MapSeq(VarDecl, fn.locals),
      temps  |-> first + Len(order),
      body   |-> copies \o MapSeq(LAMBDA s : TranslateStmt(s, shadow), fn.body)]

\* Every order there is.
Orders(fn) == SetToSeqs(findModifiedParams(fn.body, {p.name : p \in Range(fn.params)}))
=============================================================================
