------------------------------ MODULE Stacking ------------------------------
(***************************************************************************)
(* The frame of a function, as pkg/stacking lays it out (layout.go,        *)
(* calleesave.go), and its body: what collectStackInfo and                 *)
(* FindUsedCalleeSaveRegs find in its Linear instructions, and what        *)
(* transformInst makes of each (transform.go, slots.go).  Operands in      *)
(* stack slots pass through the registers X16 and X17.                     *)
(*                                                                         *)
(* Sizes and offsets are in bytes; offsets are from the frame pointer,     *)
(* which points at the saved frame pointer:                                *)
(*                                                                         *)
(*     FP + 16 ...     the outgoing area of the caller                     *)
(*     FP + 8          saved LR                                            *)
(*     FP              saved FP                                            *)
(*     FP - 8 ...      callee-saved registers, downwards                   *)
(*     ...             local slots                                         *)
(*     ...             padding                                             *)
(*     SP ...          outgoing arguments                                  *)
(*                                                                         *)
(* A function is a record [used, local, outgoing]: the callee-saved        *)
(* registers that occur in it, sorted, and what collectStackInfo finds,    *)
(* the ends of the last local slot and of the last outgoing slot.          *)
(*                                                                         *)
(* A location is R(register) or S(kind of slot, offset).  An instruction   *)
(* has the operands args and src (Lstore only) and perhaps a destination.  *)
(* op says what it computes: "any" value, its "first" or "second" operand, *)
(* which is enough to tell operands apart, or "none".                      *)
(***************************************************************************)
EXTENDS Integers, Sequences, FiniteSetsExt

PointerSize == 8
StackAlignment == 16

\* Mutant: rounds down.
alignDown(n, align) == (n \div align) * align

alignUp(n, align) == ((n + align - 1) \div align) * align

\* Mutant: the registers are not padded, and the last of an odd number is not saved.
Unpadded(regs) == SubSeq(regs, 1, (Len(regs) \div 2) * 2)

\* Registers are saved in pairs: an odd last one is saved twice.
PadToEven(regs) == IF Len(regs) % 2 = 0 THEN regs ELSE Append(regs, regs[Len(regs)])

Saved(fn) == PadToEven(fn.used)
CalleeSaveSize(fn) == (Len(Saved(fn)) + (Len(Saved(fn)) % 2)) * PointerSize
LocalSize(fn) == alignUp(fn.local, 8)
OutgoingSize(fn) == alignUp(fn.outgoing, 8)

FrameBody(fn) ==
  alignUp(CalleeSaveSize(fn) + LocalSize(fn) + OutgoingSize(fn), StackAlignment)
TotalSize(fn) == FrameBody(fn) + 16

LocalOffset(fn) == -CalleeSaveSize(fn) - LocalSize(fn)
LocalSlotOffset(fn, ofs) == LocalOffset(fn) + ofs
OutgoingSlotOffset(fn, ofs) == 16 - TotalSize(fn) + ofs

\* Mutant: the incoming area starts where LR was saved.
IncomingOverLR(ofs) == 8 + ofs

IncomingSlotOffset(ofs) == 16 + ofs

\* ComputeCalleeSaveInfo: where the i-th register is saved.
SaveOffset(i) == -8 * i

\* GeneratePrologue: FP and LR are saved at the top of the frame, this far from SP.
fpSaveOffset(fn) == TotalSize(fn) - 16

-----------------------------------------------------------------------------
R(reg) == <<"R", reg>>
S(slot, ofs) == <<slot, ofs>>
InReg(loc) == loc[1] = "R"

Instr(k, args, src, dest, op) ==
  [k |-> k, args |-> args, src |-> src, dest |-> dest, op |-> op]

Lop(op, args, dest)  == Instr("Lop", args, <<>>, <<dest>>, op)
Lload(args, dest)    == Instr("Lload", args, <<>>, <<dest>>, "any")
Lstore(args, src)    == Instr("Lstore", args, <<src>>, <<>>, "none")
Lcond(args)          == Instr("Lcond", args, <<>>, <<>>, "none")
Ljumptable(arg)      == Instr("Ljumptable", <<arg>>, <<>>, <<>>, "none")
Lbuiltin(args, dest) == Instr("Lbuiltin", args, <<>>, <<dest>>, "any")
Lgetstack(slot, dest) == Instr("Lgetstack", <<slot>>, <<>>, <<dest>>, "first")
Lsetstack(src, slot)  == Instr("Lsetstack", <<src>>, <<>>, <<slot>>, "first")

Operands(i)  == i.args \o i.src
Locations(i) == Range(Operands(i) \o i.dest)

-----------------------------------------------------------------------------
\* The slots of conditions, jump tables and builtins are not looked for.
Scanned == {"Lgetstack", "Lsetstack", "Lop", "Lload", "Lstore"}

\* The end of the last slot of a kind; slots are eight bytes.
collectStackInfo(code, slot) ==
  LET locs == UNION {Locations(i) : i \in {j \in code : j.k \in Scanned}}
  IN  Max({0} \cup {loc[2] + 8 : loc \in {l \in locs : l[1] = slot}})

\* The members of a finite set of numbers, in order.
Ascending(set) ==
  [k \in 1..Cardinality(set) |->
     CHOOSE n \in set : Cardinality({m \in set : m <= n}) = k]

\* calleeSaved is in the order of the register numbers.
FindUsedCalleeSaveRegs(code, calleeSaved) ==
  LET locs  == UNION {Locations(i) : i \in {j \in code : j.k # "Lbuiltin"}}
      order == Ascending({n \in DOMAIN calleeSaved : R(calleeSaved[n]) \in locs})
  IN  [k \in DOMAIN order |-> calleeSaved[order[k]]]

-----------------------------------------------------------------------------
stackingTempRegs == <<"x16", "x17">>

(***************************************************************************)
(* Which temporary register an operand in a slot is loaded into: an Lop    *)
(* counts its operands in slots, the others count all their operands.      *)
(***************************************************************************)
TempIndex(i, j) ==
  IF i.k = "Lop" THEN Cardinality({m \in 1..j : ~InReg(i.args[m])}) ELSE j

\* The transformation panics when it has no temporary register left.
Panics(i) ==
  \E j \in DOMAIN Operands(i) :
    ~InReg(Operands(i)[j]) /\ TempIndex(i, j) > Len(stackingTempRegs)

\* Mutant: all operands are loaded into the first temporary register.
ensureInFirst(i, j) ==
  IF InReg(Operands(i)[j]) THEN Operands(i)[j][2] ELSE stackingTempRegs[1]

\* The register that holds operand j when the machine instruction runs.
ensureInReg(i, j) ==
  IF InReg(Operands(i)[j]) THEN Operands(i)[j][2] ELSE stackingTempRegs[TempIndex(i, j)]

\* The operands that are loaded into a register before the operation.
SlotOperands(i) == {j \in DOMAIN Operands(i) : ~InReg(Operands(i)[j])}

\* Where a slot is, from the frame pointer.
TranslateSlotOffset(fn, slot) ==
  CASE slot[1] = "local"    -> LocalSlotOffset(fn, slot[2])
    [] slot[1] = "outgoing" -> OutgoingSlotOffset(fn, slot[2])
    [] slot[1] = "incoming" -> IncomingSlotOffset(slot[2])
=============================================================================
