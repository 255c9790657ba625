------------------------------- MODULE CExpr -------------------------------
(***************************************************************************)
(* C expressions and what C says they do.                                  *)
(*                                                                         *)
(* The first part is the data every pass works on: the types of            *)
(* pkg/ctypes, one form of expression node for every language of the       *)
(* pipeline, machine words and memory.  The second part is the reference   *)
(* the generated code is compared with: a small-step semantics of C99 in   *)
(* which the operands of an operator are evaluated in any order, step by   *)
(* step, and only &&, ||, ?: and the comma are sequenced.                  *)
(*                                                                         *)
(* Types keep their sizes in bytes; the numbers of bits of a char, a       *)
(* short, an int and a long are parameters, small enough that every value  *)
(* near a limit is reached.                                                *)
(***************************************************************************)
EXTENDS Integers, Sequences, FiniteSets, SequencesExt

CONSTANTS
  CharBits, ShortBits, IntBits, LongBits

ASSUME Widths == /\ {CharBits, ShortBits, IntBits, LongBits} \subseteq Nat
                 /\ 1 < CharBits /\ CharBits < ShortBits
                 /\ ShortBits < IntBits /\ IntBits < LongBits

-----------------------------------------------------------------------------
(* Types.                                                                  *)

Tint(size, sign) == [t |-> "int", size |-> size, sign |-> sign]
Tlong(sign)      == [t |-> "long", sign |-> sign]
Tfloat(size)     == [t |-> "float", size |-> size]
Pointer(elem)    == [t |-> "pointer", elem |-> elem]
Tarray(elem, n)  == [t |-> "array", elem |-> elem, n |-> n]
Tstruct(name, fields) == [t |-> "struct", name |-> name, fields |-> fields]
Tfunction(params, return) == [t |-> "function", params |-> params, return |-> return]
Field(name, type) == [name |-> name, type |-> type]

Void   == [t |-> "void"]
Char   == Tint("I8", "Signed")
UChar  == Tint("I8", "Unsigned")
Short  == Tint("I16", "Signed")
UShort == Tint("I16", "Unsigned")
CInt   == Tint("I32", "Signed")
UInt   == Tint("I32", "Unsigned")
Long   == Tlong("Signed")
ULong  == Tlong("Unsigned")
Float  == Tfloat("F32")
Double == Tfloat("F64")

IsInteger(ty)  == ty.t \in {"int", "long"}
IsUnsigned(ty) == IsInteger(ty) /\ ty.sign = "Unsigned"

-----------------------------------------------------------------------------
(* Expressions.  k is the kind of the node, n the name or the operator in  *)
(* it, v the number in it, ty its type where the language has types, and   *)
(* kids its operands.                                                      *)

Node(k, n, v, ty, kids) == [k |-> k, n |-> n, v |-> v, ty |-> ty, kids |-> kids]

\* The concatenation makes TLC evaluate the elements once, where the sequence is built.
MapSeq(F(_), s)  == <<>> \o [i \in DOMAIN s |-> F(s[i])]
MapKids(F(_), e) == [e EXCEPT !.kids = MapSeq(F, e.kids)]

\* C itself, after pkg/cabs.  A type name is a word and a number of stars.
TypeName(word, stars) == [word |-> word, stars |-> stars]

Constant(v)         == Node("Constant", "", v, Void, <<>>)
Variable(n)         == Node("Variable", n, 0, Void, <<>>)
Paren(e)            == Node("Paren", "", 0, Void, <<e>>)
Unary(op, e)        == Node("Unary", op, 0, Void, <<e>>)
IncDec(op, pre, e)  == Node("IncDec", op, IF pre THEN 1 ELSE 0, Void, <<e>>)
AddrOf(e)           == Node("AddrOf", "", 0, Void, <<e>>)
Deref(e)            == Node("Deref", "", 0, Void, <<e>>)
Binary(op, l, r)    == Node("Binary", op, 0, Void, <<l, r>>)
Assign(l, r)        == Node("Assign", "", 0, Void, <<l, r>>)
AssignOp(op, l, r)  == Node("AssignOp", op, 0, Void, <<l, r>>)
Comma(l, r)         == Node("Comma", "", 0, Void, <<l, r>>)
LogicalAnd(l, r)    == Node("LogicalAnd", "", 0, Void, <<l, r>>)
LogicalOr(l, r)     == Node("LogicalOr", "", 0, Void, <<l, r>>)
Conditional(c, a, b) == Node("Conditional", "", 0, Void, <<c, a, b>>)
Call(f, args)       == Node("Call", "", 0, Void, <<Variable(f)>> \o args)
Index(a, i)         == Node("Index", "", 0, Void, <<a, i>>)
Member(e, f)        == Node("Member", f, 0, Void, <<e>>)
Arrow(e, f)         == Node("Member", f, 1, Void, <<e>>)
Cast(name, e)       == Node("Cast", "", 0, name, <<e>>)
SizeofType(name)    == Node("SizeofType", "", 0, name, <<>>)
SizeofExpr(e)       == Node("SizeofExpr", "", 0, Void, <<e>>)

Comparisons == {"eq", "ne", "lt", "le", "gt", "ge"}

\* Statements: declarations with an initializer, expression statements and a return.
DeclStmt(n, name, dims, init) == [k |-> "Decl", n |-> n, name |-> name, dims |-> dims, init |-> init]
Computation(e)                == [k |-> "Computation", e |-> e]
Return(e)                     == [k |-> "Return", e |-> e]

\* Statements of the intermediate languages: v a temporary, n a name, es the
\* expressions and bs the statement lists in it.  A sequence of statements is a sequence.
Stmt(k, n, v, es, bs) == [k |-> k, n |-> n, v |-> v, es |-> es, bs |-> bs]

Sset(id, e)           == Stmt("Sset", "", id, <<e>>, <<>>)
Sassign(lhs, rhs)     == Stmt("Sassign", "", 0, <<lhs, rhs>>, <<>>)
Scall(id, f, args)    == Stmt("Scall", "", id, <<f>> \o args, <<>>)
Sifthenelse(c, a, b)  == Stmt("Sifthenelse", "", 0, <<c>>, <<a, b>>)
Sreturn(e)            == Stmt("Sreturn", "", 0, <<e>>, <<>>)
Sstore(chunk, a, e)   == Stmt("Sstore", chunk, 0, <<a, e>>, <<>>)
SassignVar(n, e)      == Stmt("SassignVar", n, 0, <<e>>, <<>>)
ScallVar(n, f, args)  == Stmt("ScallVar", n, 0, <<f>> \o args, <<>>)

\* Expressions of the languages without types: cls tells an operator on words ("i")
\* from one on doublewords ("l"), unsigned ones ("iu", "lu") and floats ("s", "f").
Ointconst(v)         == Node("Ointconst", "", v, "", <<>>)
Olongconst(v)        == Node("Olongconst", "", v, "", <<>>)
Oaddrsymbol(n, v)    == Node("Oaddrsymbol", n, v, "", <<>>)
Oaddrstack(v)        == Node("Oaddrstack", "", v, "", <<>>)
Var(n)               == Node("Evar", n, 0, "", <<>>)
Tempvar(id)          == Node("Etempvar", "", id, "", <<>>)
AddrofVar(n)         == Node("Eaddrof", n, 0, "", <<>>)
Unop(op, cls, a)     == Node("Eunop", op, 0, cls, <<a>>)
Binop(op, cls, l, r) == Node("Ebinop", op, 0, cls, <<l, r>>)
Cmp(op, cls, l, r)   == Node("Ecmp", op, 0, cls, <<l, r>>)
LoadOf(chunk, a)     == Node("Eload", chunk, 0, "", <<a>>)

-----------------------------------------------------------------------------
(* Words and memory.  A word is a number, or an address: the symbol it is  *)
(* relative to and a displacement.  Junk is what an undefined read gives.  *)
(* Memory is a function from addresses to what was last stored there.      *)

Word(v)    == [b |-> "", v |-> v]
Addr(b, v) == [b |-> b, v |-> v]
Junk       == Addr("junk", 0)

\* The low bits of a number, read as unsigned and as signed.
Low(v, bits)    == v % 2^bits
Signed(v, bits) == LET u == Low(v, bits) IN IF u >= 2^(bits - 1) THEN u - 2^bits ELSE u

BitsOfSize(size) == CASE size = 1 -> CharBits [] size = 2 -> ShortBits
                      [] size = 4 -> IntBits  [] size = 8 -> LongBits

Truncate(w, bits) == IF w.b = "" THEN Word(Low(w.v, bits)) ELSE IF bits = LongBits THEN w ELSE Junk

\* A load of what was stored there with the same size; a store removes what it overlaps.
Load(mem, a, size) ==
  LET key == <<a.b, a.v>> IN
  IF key \in DOMAIN mem /\ mem[key].size = size THEN mem[key].word ELSE Junk

Overlaps(key, size, other, othersize) ==
  key[1] = other[1] /\ key[2] < other[2] + othersize /\ other[2] < key[2] + size

Store(mem, a, size, w) ==
  LET key  == <<a.b, a.v>>
      kept == {other \in DOMAIN mem : ~Overlaps(key, size, other, mem[other].size)} IN
  [k \in kept \cup {key} |-> IF k = key THEN [size |-> size, word |-> Truncate(w, BitsOfSize(size))]
                             ELSE mem[k]]

-----------------------------------------------------------------------------
(* Around the function that is compiled: the global variables, a struct,   *)
(* and the functions it calls.  g adds one to the global variable n and    *)
(* returns it, id returns its argument, put stores 1 through a pointer.    *)

Global(name, type, init) == [name |-> name, type |-> type, init |-> init]
Globals == <<Global("n", TypeName("int", 0), Unary("neg", Constant(3))),
             Global("u", TypeName("unsigned char", 0), Paren(Constant(3))),
             Global("q", TypeName("long", 0), Constant(9))>>

\* struct pair { char a; int b; long c; }
Pair == <<Field("a", TypeName("char", 0)), Field("b", TypeName("int", 0)), Field("c", TypeName("long", 0))>>

Externals == [g   |-> Tfunction(<<CInt>>, CInt),
              id  |-> Tfunction(<<Long>>, Long),
              put |-> Tfunction(<<Pointer(CInt)>>, CInt)]

Callee(f, args, mem) ==
  CASE f = "g"   -> LET next == Word(Low(Load(mem, Addr("n", 0), 4).v + 1, IntBits))
                    IN [mem |-> Store(mem, Addr("n", 0), 4, next), ret |-> next]
    [] f = "id"  -> [mem |-> mem, ret |-> args[1]]
    [] f = "put" -> [mem |-> Store(mem, args[1], 4, Word(1)), ret |-> Word(0)]

\* What an observer sees of a call: addresses are not compared.
CallEvent(f, args) == [f |-> f, args |-> [i \in DOMAIN args |-> IF args[i].b \in {"", "junk"}
                                                                 THEN args[i] ELSE Addr("address", 0)]]

-----------------------------------------------------------------------------
(* The reference semantics of C.                                           *)

\* What the type names mean in C, on an LP64 machine with signed chars.
RECURSIVE CWord(_)
CWord(word) ==
  CASE word \in {"char", "signed char", "int8_t"}              -> Char
    [] word \in {"unsigned char", "uint8_t"}                   -> UChar
    [] word \in {"short", "short int", "int16_t"}              -> Short
    [] word \in {"unsigned short", "uint16_t"}                 -> UShort
    [] word \in {"int", "signed", "int32_t"}                   -> CInt
    [] word \in {"unsigned", "unsigned int", "uint32_t"}       -> UInt
    [] word \in {"long", "long int", "long long", "int64_t"}   -> Long
    [] word \in {"unsigned long", "uint64_t", "size_t"}        -> ULong
    [] word = "float" -> Float
    [] word = "double" -> Double
    [] word = "struct pair" -> Tstruct("pair", [i \in DOMAIN Pair |-> Field(Pair[i].name, CWord(Pair[i].type.word))])

CType(name) == IF name.stars = 0 THEN CWord(name.word) ELSE Pointer(CWord(name.word))

\* Sizes, alignments and offsets of the LP64 ABI.
RoundUp(n, a) == ((n + a - 1) \div a) * a

RECURSIVE CSize(_), CAlign(_), COffset(_, _)
CAlign(ty) == CASE ty.t = "struct" -> CHOOSE a \in {1, 2, 4, 8} :
                                         /\ \A i \in DOMAIN ty.fields : CAlign(ty.fields[i].type) <= a
                                         /\ \E i \in DOMAIN ty.fields : CAlign(ty.fields[i].type) = a
                [] ty.t = "array"  -> CAlign(ty.elem)
                [] OTHER           -> CSize(ty)
CSize(ty)  == CASE ty.t = "int"    -> [I8 |-> 1, I16 |-> 2, I32 |-> 4][ty.size]
                [] ty.t = "float"  -> [F32 |-> 4, F64 |-> 8][ty.size]
                [] ty.t = "array"  -> ty.n * CSize(ty.elem)
                [] ty.t = "struct" -> RoundUp(COffset(ty, Len(ty.fields) + 1), CAlign(ty))
                [] OTHER           -> 8
\* Where field i starts; one past the last field, where the struct's data ends.
COffset(ty, i) ==
  LET end == IF i = 1 THEN 0 ELSE COffset(ty, i - 1) + CSize(ty.fields[i - 1].type)
  IN IF i > Len(ty.fields) THEN end ELSE RoundUp(end, CAlign(ty.fields[i].type))

FieldIndex(ty, f) == CHOOSE i \in DOMAIN ty.fields : ty.fields[i].name = f

Bits(ty) == BitsOfSize(CSize(ty))

\* The value a type can hold that a number is converted to.
Convert(v, ty) == IF IsUnsigned(ty) THEN Low(v, Bits(ty))
                  ELSE IF IsInteger(ty) THEN Signed(v, Bits(ty)) ELSE v

Fits(v, ty) == ~IsInteger(ty) \/ Convert(v, ty) = v

Promote(ty) == IF ty.t = "int" /\ ty.size # "I32" THEN CInt ELSE ty

\* The usual arithmetic conversions: the higher of the two ranks.
Ranks == <<CInt, UInt, Long, ULong, Float, Double>>
Rank(ty) == CHOOSE i \in DOMAIN Ranks : Ranks[i] = ty
CommonType(a, b) == IF Rank(Promote(a)) >= Rank(Promote(b)) THEN Promote(a) ELSE Promote(b)

TruncDiv(a, b) == LET abs(x) == IF x < 0 THEN -x ELSE x
                      q == abs(a) \div abs(b)
                  IN IF (a < 0) = (b < 0) THEN q ELSE -q

RECURSIVE BitOp(_, _, _, _)
BitOp(op, a, b, bits) ==
  IF bits = 0 THEN 0
  ELSE LET x == a % 2   y == b % 2
           bit == CASE op = "and" -> x * y
                    [] op = "or"  -> x + y - x * y
                    [] op = "xor" -> (x + y) % 2
       IN bit + 2 * BitOp(op, a \div 2, b \div 2, bits - 1)

Compare(op, a, b) ==
  CASE op = "eq" -> a = b [] op = "ne" -> a # b [] op = "lt" -> a < b
    [] op = "le" -> a <= b [] op = "gt" -> a > b [] op = "ge" -> a >= b

Truth(b) == IF b THEN 1 ELSE 0

\* The mathematical result of an operator, and whether C defines it.
Defined(op, a, b, ty) ==
  CASE op \in {"div", "mod"} -> b # 0 /\ Fits(TruncDiv(a, b), ty)
    [] op \in {"shl", "shr"} -> b >= 0 /\ b < Bits(ty) /\ (op = "shl" => IsUnsigned(ty) \/ (a >= 0 /\ Fits(a * 2^b, ty)))
    [] op = "add" -> IsUnsigned(ty) \/ Fits(a + b, ty)
    [] op = "sub" -> IsUnsigned(ty) \/ Fits(a - b, ty)
    [] op = "mul" -> IsUnsigned(ty) \/ Fits(a * b, ty)
    [] OTHER -> TRUE

Compute(op, a, b, ty) ==
  Convert(CASE op = "add" -> a + b
            [] op = "sub" -> a - b
            [] op = "mul" -> a * b
            [] op = "div" -> TruncDiv(a, b)
            [] op = "mod" -> a - b * TruncDiv(a, b)
            [] op = "shl" -> a * 2^b
            [] op = "shr" -> a \div 2^b
            [] OTHER -> BitOp(op, Low(a, Bits(ty)), Low(b, Bits(ty)), Bits(ty)), ty)

-----------------------------------------------------------------------------
(* Steps of C.  A value and an lvalue are nodes too: n is the symbol an    *)
(* address is relative to, v the number.  A state is the memory, in which  *)
(* every variable has a place, the calls made so far, and whether the      *)
(* behaviour has become undefined.                                         *)

Val(n, v, ty) == Node("Val", n, v, ty, <<>>)
Loc(n, v, ty) == Node("Loc", n, v, ty, <<>>)

\* The word that holds a value, and the value a word holds.
ToWord(e)      == IF e.n = "" THEN Word(Low(e.v, Bits(e.ty))) ELSE Addr(e.n, e.v)
OfWord(w, ty)  == Val(w.b, IF w.b = "" THEN Convert(w.v, ty) ELSE w.v, ty)

Assigns == {"Assign", "AssignOp", "IncDec"}
WantsLvalue(e, i) == i = 1 /\ (e.k \in Assigns \cup {"AddrOf"} \/ (e.k = "Member" /\ e.v = 0))
Final(e, lvalue)  == e.k = (IF lvalue THEN "Loc" ELSE "Val")

\* The operands that may take a step before the operator does.
Active(e) == IF e.k \in {"Comma", "LogicalAnd", "LogicalOr", "Conditional"} THEN {1}
             ELSE IF e.k = "SizeofExpr" THEN {} ELSE DOMAIN e.kids

\* The type of an operator, from the types T of its operands.
TypeOfOperator(e, T, types) ==
  CASE e.k \in {"Val", "Loc", "Convert"} -> e.ty
    [] e.k = "Constant"    -> IF Fits(e.v, CInt) THEN CInt ELSE Long
    [] e.k = "Variable"    -> types[e.n]
    [] e.k = "Paren"       -> T[1]
    [] e.k \in Assigns     -> T[1]
    [] e.k = "AddrOf"      -> Pointer(T[1])
    [] e.k = "Deref"       -> T[1].elem
    [] e.k = "Index"       -> T[1].elem
    [] e.k = "Member"      -> LET s == IF e.v = 1 THEN T[1].elem ELSE T[1]
                              IN s.fields[FieldIndex(s, e.n)].type
    [] e.k = "Call"        -> T[1].return
    [] e.k = "Comma"       -> T[2]
    [] e.k = "Cast"        -> CType(e.ty)
    [] e.k \in {"SizeofType", "SizeofExpr"} -> ULong
    [] e.k = "Unary"       -> IF e.n = "not" THEN CInt ELSE Promote(T[1])
    [] e.k = "Conditional" -> IF T[2] = T[3] THEN Promote(T[2]) ELSE CommonType(T[2], T[3])
    [] e.k = "Binary"      -> CASE e.n \in Comparisons -> CInt
                                [] T[1].t = "pointer"  -> T[1]
                                [] e.n \in {"shl", "shr"} -> Promote(T[1])
                                [] OTHER -> CommonType(T[1], T[2])
    [] OTHER -> CInt

RECURSIVE TypeOf(_, _)
TypeOf(e, types) == TypeOfOperator(e, MapSeq(LAMBDA kid : TypeOf(kid, types), e.kids), types)

Undefined(s) == {[e |-> Val("junk", 0, CInt), s |-> [s EXCEPT !.ub = TRUE]]}
Gives(e, s)  == {[e |-> e, s |-> s]}

\* a op b on values: pointers move by elements, numbers are converted first.
Operate(op, a, b, s) ==
  IF op \in Comparisons
  THEN IF a.ty.t = "pointer" \/ b.ty.t = "pointer"
       THEN Gives(Val("", Truth(Compare(op, IF a.n = b.n THEN a.v ELSE 0, IF a.n = b.n THEN b.v ELSE 1)), CInt), s)
       ELSE LET ty == CommonType(a.ty, b.ty)
            IN Gives(Val("", Truth(Compare(op, Convert(a.v, ty), Convert(b.v, ty))), CInt), s)
  ELSE IF a.ty.t = "pointer"
  THEN Gives(Val(a.n, a.v + (IF op = "sub" THEN -b.v ELSE b.v) * CSize(a.ty.elem), a.ty), s)
  ELSE LET ty == IF op \in {"shl", "shr"} THEN Promote(a.ty) ELSE CommonType(a.ty, b.ty)
           x  == Convert(a.v, ty)
           y  == IF op \in {"shl", "shr"} THEN b.v ELSE Convert(b.v, ty)
       IN IF Defined(op, x, y, ty) THEN Gives(Val("", Compute(op, x, y, ty), ty), s) ELSE Undefined(s)

\* The value v is stored in the lvalue l after conversion to its type; the result has value r.
StoreTo(l, v, s, r) ==
  LET w == Val(v.n, IF v.n = "" THEN Convert(v.v, l.ty) ELSE v.v, l.ty)
  IN Gives(IF r.k = "Val" THEN r ELSE w,
           [s EXCEPT !.mem = Store(s.mem, Addr(l.n, l.v), CSize(l.ty), ToWord(w))])

ReadFrom(l, s) ==
  CASE l.ty.t = "array"    -> Gives(Val(l.n, l.v, Pointer(l.ty.elem)), s)
    [] l.ty.t = "function" -> Gives(Val(l.n, l.v, l.ty), s)
    [] OTHER -> LET w == Load(s.mem, Addr(l.n, l.v), CSize(l.ty))
                IN IF w = Junk THEN Undefined(s) ELSE Gives(OfWord(w, l.ty), s)

\* a = a op b; the value is the new one, or the old one when it is wanted.
Update(op, a, b, s, old) ==
  UNION {UNION {IF o.s.ub THEN {o} ELSE StoreTo(a, o.e, o.s, IF old THEN r.e ELSE a)
                : o \in IF r.s.ub THEN {r} ELSE Operate(op, r.e, b, s)}
         : r \in ReadFrom(a, s)}

\* The operator takes its step: its operands are values, or lvalues where it wants them.
Reduce(e, s, types) ==
  LET a == e.kids[1]   b == e.kids[2] IN
  CASE e.k = "Constant"   -> Gives(Val("", e.v, TypeOf(e, types)), s)
    [] e.k = "Variable"   -> Gives(Loc(e.n, 0, types[e.n]), s)
    [] e.k = "Paren"      -> Gives(a, s)
    [] e.k = "AddrOf"     -> Gives(Val(a.n, a.v, Pointer(a.ty)), s)
    [] e.k = "Deref"      -> IF a.n = "" THEN Undefined(s) ELSE Gives(Loc(a.n, a.v, a.ty.elem), s)
    [] e.k = "Index"      -> Gives(Loc(a.n, a.v + b.v * CSize(a.ty.elem), a.ty.elem), s)
    [] e.k = "Member"     -> LET ty == IF e.v = 1 THEN a.ty.elem ELSE a.ty
                                 i  == FieldIndex(ty, e.n)
                             IN Gives(Loc(a.n, a.v + COffset(ty, i), ty.fields[i].type), s)
    [] e.k = "Unary" /\ e.n = "not"  -> Gives(Val("", Truth(a.n = "" /\ a.v = 0), CInt), s)
    [] e.k = "Unary" /\ e.n = "plus" -> Gives(Val("", a.v, Promote(a.ty)), s)
    [] e.k \in {"Unary", "Binary"} -> CASE e.n = "neg"    -> Operate("sub", Val("", 0, CInt), a, s)
                                        [] e.n = "bitnot" -> Operate("xor", Val("", -1, CInt), a, s)
                                        [] OTHER          -> Operate(e.n, a, b, s)
    [] e.k = "Assign"     -> StoreTo(a, b, s, a)
    [] e.k = "AssignOp"   -> Update(e.n, a, b, s, FALSE)
    [] e.k = "IncDec"     -> Update(e.n, a, Val("", 1, CInt), s, e.v = 0)
    [] e.k \in {"Cast", "Convert"} ->
                             LET ty == IF e.k = "Cast" THEN CType(e.ty) ELSE e.ty
                             IN Gives(Val(a.n, IF a.n = "" THEN Convert(a.v, ty) ELSE a.v, ty), s)
    [] e.k = "Comma"      -> Gives(b, s)
    [] e.k = "LogicalAnd" -> Gives(IF a.v = 0 /\ a.n = "" THEN Val("", 0, CInt) ELSE Unary("not", Unary("not", b)), s)
    [] e.k = "LogicalOr"  -> Gives(IF a.v = 0 /\ a.n = "" THEN Unary("not", Unary("not", b)) ELSE Val("", 1, CInt), s)
    [] e.k = "Conditional" -> Gives(Node("Convert", "", 0, TypeOf(e, types),
                                         <<IF a.v = 0 /\ a.n = "" THEN e.kids[3] ELSE b>>), s)
    [] e.k = "SizeofType" -> Gives(Val("", CSize(CType(e.ty)), ULong), s)
    [] e.k = "SizeofExpr" -> Gives(Val("", CSize(TypeOf(a, types)), ULong), s)
    [] e.k = "Call"       -> LET arg(i) == LET v == e.kids[i + 1] IN
                                 ToWord(Val(v.n, IF v.n = "" THEN Convert(v.v, a.ty.params[i]) ELSE v.v, a.ty.params[i]))
                                 args   == [i \in 1..(Len(e.kids) - 1) |-> arg(i)]
                                 done   == Callee(a.n, args, s.mem)
                             IN Gives(OfWord(done.ret, a.ty.return),
                                      [s EXCEPT !.mem = done.mem, !.trace = Append(@, CallEvent(a.n, args))])

RECURSIVE Step(_, _, _)
Step(e, s, types) ==
  IF e.k = "Loc" THEN ReadFrom(e, s)
  ELSE LET busy == {i \in Active(e) : ~Final(e.kids[i], WantsLvalue(e, i))} IN
       IF busy # {}
       THEN UNION {{[e |-> [e EXCEPT !.kids[i] = c.e], s |-> c.s] : c \in Step(e.kids[i], s, types)} : i \in busy}
       ELSE Reduce(e, s, types)

\* Every way an expression can be evaluated to a value.
RECURSIVE Evaluations(_, _)
Evaluations(C, types) ==
  IF \A c \in C : c.s.ub \/ c.e.k = "Val" THEN C
  ELSE Evaluations(UNION {IF c.s.ub \/ c.e.k = "Val" THEN {c} ELSE Step(c.e, c.s, types) : c \in C}, types)

\* One statement after the other; a return leaves its value.
RunStmt(st, S, types) ==
  LET e == IF st.k = "Decl" THEN Assign(Variable(st.n), st.init[1]) ELSE st.e
      After(c) == IF st.k = "Return" /\ ~c.s.ub THEN [c.s EXCEPT !.ret = c.e] ELSE c.s
  IN IF st.k = "Decl" /\ st.init = <<>> THEN S
     ELSE {s \in S : s.ub} \cup {After(c) : c \in Evaluations({[e |-> e, s |-> s] : s \in {s \in S : ~s.ub}}, types)}

DeclType(st) == LET base == CType(st.name) IN IF st.dims = <<>> THEN base ELSE Tarray(base, st.dims[1])

\* The type of every name of a program.
CTypes(prog) ==
  LET Decls  == {st \in Range(prog.body) : st.k = "Decl"}
      Typed  == {<<p.name, CType(p.type)>> : p \in Range(prog.params)}
                  \cup {<<st.n, DeclType(st)>> : st \in Decls}
                  \cup {<<gl.name, CType(gl.type)>> : gl \in Range(Globals)}
                  \cup {<<f, Externals[f]>> : f \in DOMAIN Externals}
  IN [x \in {d[1] : d \in Typed} |-> (CHOOSE d \in Typed : d[1] = x)[2]]

\* Memory at the start: the globals with their initializers, and the parameters.
CInitialState(prog, args, types) ==
  LET start == [mem |-> <<>>, trace |-> <<>>, ub |-> FALSE, ret |-> Val("", 0, Void)]
      Put(mem, x, e) == Store(mem, Addr(x, 0), CSize(types[x]),
                              ToWord(Val(e.n, Convert(e.v, types[x]), types[x])))
      global(mem, gl) == Put(mem, gl.name, (CHOOSE c \in Evaluations(Gives(gl.init, start), types) : TRUE).e)
      param(mem, i) == Put(mem, prog.params[i].name, args[i])
  IN [start EXCEPT !.mem = FoldLeft(param, FoldLeft(global, <<>>, Globals), [i \in DOMAIN args |-> i])]

\* What can be observed of a run: the calls, the globals and the value returned.
Observe(mem, trace, ret) ==
  [trace |-> trace, ret |-> ret,
   globals |-> [i \in DOMAIN Globals |-> Load(mem, Addr(Globals[i].name, 0), CSize(CType(Globals[i].type)))]]

\* The results C allows; [any |-> TRUE] when some evaluation is undefined.
Observations(prog, S) ==
  LET ty == CType(prog.ret)
      value(s) == IF s.ret.ty = Void THEN Word(0)
                  ELSE ToWord(Val(s.ret.n, IF s.ret.n = "" THEN Convert(s.ret.v, ty) ELSE s.ret.v, ty))
  IN IF \E s \in S : s.ub THEN [any |-> TRUE, of |-> {}]
     ELSE [any |-> FALSE, of |-> {Observe(s.mem, s.trace, value(s)) : s \in S}]

RunBody(prog, args, types) ==
  FoldLeft(LAMBDA S, st : RunStmt(st, S, types), {CInitialState(prog, args, types)}, prog.body)

Outcomes(prog, args) == Observations(prog, RunBody(prog, args, CTypes(prog)))

Allows(allowed, observed) == allowed.any \/ observed \in allowed.of
=============================================================================
