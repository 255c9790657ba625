------------------------------ MODULE ExprRun ------------------------------
(***************************************************************************)
(* C functions compiled by the passes from SimplExpr to RTL and executed,  *)
(* one RTL instruction at a time, by the machine instructions that         *)
(* pkg/asmgen has for each.  What the execution does is compared with what *)
(* the reference semantics of CExpr allows.                                *)
(*                                                                         *)
(* Between RTL and machine code this composition leaves out the register   *)
(* allocation and the frame, which have models of their own: registers are *)
(* those of RTL, and a stack variable is addressed from the frame pointer  *)
(* at the offset that cminorgen gave it.                                   *)
(***************************************************************************)
EXTENDS CExpr, TLC

CONSTANT
  Programs  \* sequences of C functions, each with the set of arguments it is called with

SE == INSTANCE SimplExpr
CS == INSTANCE Cshmgen
CM == INSTANCE Cminorgen
SL == INSTANCE Selection
RG == INSTANCE RtlgenExpr

VARIABLES
  program,  \* which function runs: the number of its sequence and its own
  input,    \* its arguments
  code,     \* what it was compiled to, in one of the orders that Go's maps allow
  upper,    \* what the unspecified upper bits of argument and result registers hold
  node,     \* the node of the next instruction
  regs,     \* the registers written so far
  mem,      \* memory: globals and stack variables
  trace,    \* the calls made so far
  result    \* empty, or what was observed at the return

vars == <<program, input, code, upper, node, regs, mem, trace, result>>

-----------------------------------------------------------------------------
(* The passes in order.                                                    *)

GlobalInfo ==
  [x \in {gl.name : gl \in Range(Globals)} |->
     LET ty == SE!TypeFromString((CHOOSE gl \in Range(Globals) : gl.name = x).type)
     IN [size |-> CS!sizeofType(ty), signed |-> CS!isSignedType(ty)]]

\* The RTL functions a C function may become: one for every order of the shadowed parameters.
ToCminor(fn)    == CM!TransformFunction(fn, GlobalInfo)
ToCminorSel(fn) == SL!SelectProgram(fn, DOMAIN GlobalInfo \cup {"f"})
FromClight(fn)  == {RG!TranslateFunction(ToCminorSel(ToCminor(CS!translateFunction(fn, order)))) : order \in CS!Orders(fn)}
compile(prog)   == FromClight(SE!translateFunction(prog))

\* The data section: every global with the number its initializer evaluates to.
GlobalMemory ==
  FoldLeft(LAMBDA m, gl : Store(m, Addr(gl.name, 0), GlobalInfo[gl.name].size,
                                Word(SE!evaluateConstantInitializer(gl.init))), <<>>, Globals)

-----------------------------------------------------------------------------
(* What the machine instructions of an operation compute.                  *)

Width(cls)      == IF cls \in {"l", "lu"} THEN LongBits ELSE IntBits
Unsigned(cls)   == cls \in {"iu", "lu"}
Operand(w, cls) == IF Unsigned(cls) THEN Low(w.v, Width(cls)) ELSE Signed(w.v, Width(cls))

\* SDIV and UDIV by zero give zero; a shift takes its amount modulo the width.
MachineDiv(x, y) == IF y = 0 THEN 0 ELSE TruncDiv(x, y)

Machine(op, x, y, bits) ==
  CASE op = "add" -> x + y
    [] op = "sub" -> x - y
    [] op = "mul" -> x * y
    [] op = "div" -> MachineDiv(x, y)
    [] op = "mod" -> x - MachineDiv(x, y) * y
    [] op = "shl" -> x * 2^(y % bits)
    [] op = "shr" -> x \div 2^(y % bits)
    [] op \in {"and", "or", "xor"} -> BitOp(op, Low(x, bits), Low(y, bits), bits)
    [] op \in Comparisons -> Truth(Compare(op, x, y))

\* A doubleword may be an address, to which a number is added.  A comparison of pointers is
\* one of their low halves (extendToLong), which nothing here has a value for.
OnAddresses(op, a, b) ==
  CASE Junk \in {a, b} -> Junk
    [] op = "add" /\ a.b = "" -> Addr(b.b, b.v + Signed(a.v, LongBits))
    [] op = "add" /\ b.b = "" -> Addr(a.b, a.v + Signed(b.v, LongBits))
    [] op = "sub" /\ b.b = "" -> Addr(a.b, a.v - Signed(b.v, LongBits))
    [] OTHER -> Junk

\* A two-operand instruction on W or X registers; a W register clears the upper half.
BinaryInstruction(op, cls, a, b) ==
  IF a.b = "" /\ b.b = "" THEN Word(Low(Machine(op, Operand(a, cls), Operand(b, cls), Width(cls)), Width(cls)))
  ELSE IF Width(cls) = LongBits THEN OnAddresses(op, a, b) ELSE Junk

\* SXTB, UXTB, SXTH, UXTH, SXTW and MOV of a W register.
Extension(op, v) ==
  CASE op = "cast8signed"    -> Low(Signed(v, CharBits), IntBits)
    [] op = "cast8unsigned"  -> Low(v, CharBits)
    [] op = "cast16signed"   -> Low(Signed(v, ShortBits), IntBits)
    [] op = "cast16unsigned" -> Low(v, ShortBits)
    [] op = "longofint"      -> Low(Signed(v, IntBits), LongBits)
    [] op \in {"longofintu", "intoflong"} -> Low(v, IntBits)

translateOperation(op, args) ==
  CASE op.n = "move"        -> args[1]
    [] op.n = "Ointconst"   -> Word(Low(op.v, IntBits))
    [] op.n = "Olongconst"  -> Word(Low(op.v, LongBits))
    [] op.n = "Oaddrsymbol" -> Addr(op.cls, op.v)
    [] op.n = "Oaddrstack"  -> Addr("sp", op.v)
    [] op.n = "neg"         -> BinaryInstruction("sub", op.cls, Word(0), args[1])
    [] op.n = "notint"      -> BinaryInstruction("xor", op.cls, Word(-1), args[1])
    [] op.n = "shlimm"      -> BinaryInstruction("shl", op.cls, args[1], Word(op.v))
    [] Len(args) = 2        -> BinaryInstruction(op.n, op.cls, args[1], args[2])
    [] OTHER                -> IF args[1].b = "" THEN Word(Extension(op.n, args[1].v)) ELSE Junk

\* CMP, then a condition code that is signed or unsigned.
translateCond(cc, args) ==
  BinaryInstruction(cc.n, cc.cls, args[1], IF cc.imm = <<>> THEN args[2] ELSE Word(cc.imm[1]))

ChunkSize(chunk) ==
  CASE chunk \in {"Mint8signed", "Mint8unsigned"}   -> 1
    [] chunk \in {"Mint16signed", "Mint16unsigned"} -> 2
    [] chunk = "Mint32" -> 4
    [] OTHER            -> 8

\* LDRSB and LDRSH extend the sign into the word.
Loaded(chunk, w) ==
  CASE w.b # "" -> w
    [] chunk = "Mint8signed"  -> Word(Low(Signed(w.v, CharBits), IntBits))
    [] chunk = "Mint16signed" -> Word(Low(Signed(w.v, ShortBits), IntBits))
    [] OTHER -> w

\* Only two modes are told apart: any other one is the address in its first operand.
AddressOf(mode, args) ==
  CASE mode.m = "Aindexed" -> OnAddresses("add", args[1], Word(mode.v))
    [] mode.m = "Ainstack" -> Addr("sp", mode.v)
    [] OTHER -> args[1]

-----------------------------------------------------------------------------
(* Execution.                                                              *)

Source   == Programs[program[1]][program[2]]
Here     == code.code[node]
Running(k) == result = <<>> /\ Here.k = k

Value(r)  == IF r \in DOMAIN regs THEN regs[r] ELSE Junk
Values(i) == MapSeq(Value, i.args)

SetReg(r, w) == regs' = (r :> w) @@ regs

\* A value of a type narrower than the register, with something in the upper bits.
InRegister(w, ty) ==
  IF w.b = "" /\ Bits(ty) < LongBits THEN Word(Low(w.v, IntBits) + Low(upper, LongBits - IntBits) * 2^IntBits) ELSE w

Init ==
  /\ program \in UNION {{<<s, i>> : i \in DOMAIN Programs[s]} : s \in DOMAIN Programs}
  /\ code \in compile(Source)
  /\ input \in Source.inputs
  /\ upper \in {0, -1}
  /\ node = code.entry
  /\ regs = [i \in DOMAIN input |-> InRegister(ToWord(input[i]), input[i].ty)]
  /\ mem = GlobalMemory
  /\ trace = <<>>
  /\ result = <<>>

Iop ==
  /\ Running("Iop")
  /\ SetReg(Here.dest, translateOperation(Here.op, Values(Here)))
  /\ node' = Here.succ[1]
  /\ UNCHANGED <<program, input, code, upper, mem, trace, result>>

Iload ==
  /\ Running("Iload")
  /\ SetReg(Here.dest, Loaded(Here.op.n, Load(mem, AddressOf(Here.op.cls, Values(Here)), ChunkSize(Here.op.n))))
  /\ node' = Here.succ[1]
  /\ UNCHANGED <<program, input, code, upper, mem, trace, result>>

Istore ==
  /\ Running("Istore")
  /\ mem' = Store(mem, AddressOf(Here.op.cls, Tail(Values(Here))), ChunkSize(Here.op.n), Values(Here)[1])
  /\ node' = Here.succ[1]
  /\ UNCHANGED <<program, input, code, upper, regs, trace, result>>

\* The callee reads as much of a register as its parameter's type has.
Icall ==
  /\ Running("Icall")
  /\ LET ty   == Externals[Here.op]
         args == [i \in DOMAIN Here.args |-> Truncate(Values(Here)[i], Bits(ty.params[i]))]
         done == Callee(Here.op, args, mem)
     IN /\ mem' = done.mem
        /\ trace' = Append(trace, CallEvent(Here.op, args))
        /\ SetReg(Here.dest, InRegister(done.ret, ty.return))
  /\ node' = Here.succ[1]
  /\ UNCHANGED <<program, input, code, upper, result>>

\* A condition without a value goes either way.
Icond ==
  /\ Running("Icond")
  /\ LET holds == translateCond(Here.op, Values(Here))
     IN \E i \in DOMAIN Here.succ :
          /\ holds # Junk => (i = 2) = (holds = Word(0))
          /\ node' = Here.succ[i]
  /\ UNCHANGED <<program, input, code, upper, regs, mem, trace, result>>

Ireturn ==
  /\ Running("Ireturn")
  /\ LET value == IF Here.args = <<>> THEN Word(0)
                  ELSE Truncate(Values(Here)[1], Bits(CType(Source.ret)))
     IN result' = <<Observe(mem, trace, value)>>
  /\ UNCHANGED <<program, input, code, upper, node, regs, mem, trace>>

Returned ==
  /\ result # <<>>
  /\ UNCHANGED vars

Next == Iop \/ Iload \/ Istore \/ Icall \/ Icond \/ Ireturn \/ Returned

Spec == Init /\ [][Next]_vars /\ WF_vars(Next)

-----------------------------------------------------------------------------
(* Properties.                                                             *)

\* What a compiled function has done when it returns (the calls it made and their
\* arguments in order, the globals and the value it returns) is something that C allows
\* the function to do, in one of the orders C allows for it.
ResultIsC ==
  result # <<>> => Allows(Outcomes(Source, input), result[1])

\* No instruction reads a register that nothing on the way to it has written: the
\* backward chaining of rtlgen links every operand before its operator.
ReadsWritten ==
  result = <<>> => {Here.args[i] : i \in DOMAIN Here.args} \subseteq DOMAIN regs

\* Every access relative to the frame pointer stays inside the one stack variable of
\* ComputeStackLayout that it touches, and inside the frame.
FrameAccessesInBounds ==
  result = <<>> /\ Here.k \in {"Iload", "Istore"} =>
    LET args == IF Here.k = "Istore" THEN Tail(Values(Here)) ELSE Values(Here)
        a    == AddressOf(Here.op.cls, args)
        size == ChunkSize(Here.op.n)
        Touched(s) == a.v < s.offset + s.size /\ s.offset < a.v + size
        touched == {i \in DOMAIN code.slots : Touched(code.slots[i])}
    IN a.b = "sp" => /\ Cardinality(touched) = 1
                     /\ \A i \in touched : LET s == code.slots[i]
                                           IN s.offset <= a.v /\ a.v + size <= s.offset + s.size
                     /\ a.v + size <= code.stacksize

\* Every function without a loop returns.
Terminates == <>(result # <<>>)
=============================================================================
