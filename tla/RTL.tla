-------------------------------- MODULE RTL --------------------------------
(***************************************************************************)
(* The register transfer language of pkg/rtl: a function is a control-flow *)
(* graph whose nodes hold one instruction each.  An instruction keeps what *)
(* the back end looks at (its kind, the pseudo-registers it reads and      *)
(* writes, its successors); operation codes, types, chunks and conditions  *)
(* are abstracted away, except that a move is told apart from other        *)
(* operations.  Register 0 is the code's "no register".                    *)
(***************************************************************************)
EXTENDS Integers, Sequences, SequencesExt

NoReg == 0

(***************************************************************************)
(* The instructions.  fn is the register holding a function pointer        *)
(* (FunReg), or NoReg when the callee is a symbol.                         *)
(***************************************************************************)
Instr(kind, args, dest, succs) ==
  [kind |-> kind, args |-> args, src |-> NoReg, fn |-> NoReg,
   dest |-> dest, succs |-> succs]

Inop(s)             == Instr("Inop", <<>>, NoReg, <<s>>)
Imove(a, d, s)      == Instr("Imove", <<a>>, d, <<s>>)
Iop(args, d, s)     == Instr("Iop", args, d, <<s>>)
Iload(args, d, s)   == Instr("Iload", args, d, <<s>>)
Istore(args, a, s)  == [Instr("Istore", args, NoReg, <<s>>) EXCEPT !.src = a]
Icall(f, args, d, s) == [Instr("Icall", args, d, <<s>>) EXCEPT !.fn = f]
Itailcall(f, args)  == [Instr("Itailcall", args, NoReg, <<>>) EXCEPT !.fn = f]
Ibuiltin(args, d, s) == Instr("Ibuiltin", args, d, <<s>>)
Icond(args, so, not) == Instr("Icond", args, NoReg, <<so, not>>)
Ijumptable(a, ts)   == Instr("Ijumptable", <<a>>, NoReg, ts)
Ireturn(args)       == Instr("Ireturn", args, NoReg, <<>>)

(***************************************************************************)
(* What an instruction reads and writes: the two maps of ComputeDefUse.    *)
(* An operation or a load always defines its destination; a call or a      *)
(* builtin defines one only when it has one.                               *)
(***************************************************************************)
Def(i) ==
  IF \/ i.kind \in {"Imove", "Iop", "Iload"}
     \/ i.kind \in {"Icall", "Ibuiltin"} /\ i.dest # NoReg
  THEN {i.dest}
  ELSE {}

Use(i) ==
  ToSet(i.args)
    \cup (IF i.kind = "Istore" THEN {i.src} ELSE {})
    \cup (IF i.kind \in {"Icall", "Itailcall"} /\ i.fn # NoReg
          THEN {i.fn} ELSE {})

Successors(i) == ToSet(i.succs)

IsCall(i) == i.kind = "Icall"
IsMove(i) == i.kind = "Imove"

(***************************************************************************)
(* A function: parameters in order, code as a map from nodes, entry node.  *)
(***************************************************************************)
Function(params, code, entry) ==
  [params |-> params, code |-> code, entry |-> entry]
============================================================================
