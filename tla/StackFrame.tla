---------------------------- MODULE StackFrame ----------------------------
(***************************************************************************)
(* The code that pkg/stacking and pkg/asmgen generate around and inside a  *)
(* function, at work on the stack: prologue, accesses to slots, calls,     *)
(* epilogue.  One action per instruction or pair of instructions that      *)
(* touches the stack, of any nesting of calls.                             *)
(*                                                                         *)
(* Slots are eight bytes at multiples of eight, as pkg/regalloc and        *)
(* pkg/linearize hand them out, so memory is a function on addresses that  *)
(* are multiples of eight.  frames remembers what each activation was      *)
(* entered with and has written: it is read by the properties only, except *)
(* that the function and the resume point of an activation are found       *)
(* there.                                                                  *)
(***************************************************************************)
EXTENDS Stacking

CONSTANTS
  Functions,   \* [code, used, local, outgoing, incoming] records
  CalleeSaveRegs, \* the callee-saved registers, in order
  Value,       \* what registers and slots may hold
  StackTop,    \* bound: the first address above the stack
  Variables    \* the offsets of the address-taken variables of each function

CalleeSaved == Range(CalleeSaveRegs)

Slots(bytes) == {8 * k : k \in 0..(bytes \div 8) - 1}

(***************************************************************************)
(* code is the set of instructions of the body, which the model runs in    *)
(* any order, and incoming the size of the arguments that a caller leaves  *)
(* on the stack for the function.                                          *)
(***************************************************************************)
Function(code, incoming) ==
  [code |-> code, incoming |-> incoming,
   used |-> FindUsedCalleeSaveRegs(code, CalleeSaveRegs),
   local |-> collectStackInfo(code, "local"),
   outgoing |-> collectStackInfo(code, "outgoing")]

IsLocation(loc) ==
  \/ \E r \in CalleeSaved : loc = R(r)
  \/ /\ loc = S(loc[1], loc[2]) /\ loc[1] \in {"local", "outgoing", "incoming"}
     /\ loc[2] \in Nat /\ loc[2] % 8 = 0

IsSeq(q) == q \in Seq(Range(q))

\* The operands and the destination that each kind of instruction has.
IsInstr(inst) ==
  /\ IsSeq(inst.args) /\ IsSeq(inst.src) /\ IsSeq(inst.dest) /\ Len(inst.dest) <= 1
  /\ \A loc \in Locations(inst) : IsLocation(loc)
  /\ inst.op \in {"any", "first", "second", "none"}
  /\ inst.op = "first" => Len(inst.args) >= 1
  /\ inst.op = "second" => Len(inst.args) >= 2
  /\ inst.op = "none" <=> inst.dest = <<>>
  /\ inst.k = "Lop" => inst.src = <<>>
  /\ inst.k = "Lgetstack" => inst.op = "first" /\ ~InReg(inst.args[1]) /\ InReg(inst.dest[1])
  /\ inst.k = "Lsetstack" => inst.op = "first" /\ InReg(inst.args[1]) /\ ~InReg(inst.dest[1])

(***************************************************************************)
(* A slot that occurs somewhere is written somewhere, unless it is one of  *)
(* the function's stack arguments, and a register that a builtin uses is   *)
(* also used elsewhere.                                                    *)
(***************************************************************************)
IsFunction(fn) ==
  /\ fn = Function(fn.code, fn.incoming)
  /\ IsFiniteSet(fn.code) /\ fn.incoming \in Nat
  /\ \A inst \in fn.code :
       /\ IsInstr(inst) /\ ~Panics(inst)
       /\ \A loc \in Locations(inst) :
            \/ loc[1] = "incoming" /\ loc[2] \in Slots(fn.incoming)
            \/ InReg(loc) /\ \E other \in fn.code : loc \in Locations(other) /\ other.k # "Lbuiltin"
            \/ /\ loc[1] \in {"local", "outgoing"}
               /\ \E other \in fn.code : loc \in Range(other.dest) /\ other.k \in Scanned

ASSUME FunctionsAssumption == \A fn \in Functions : IsFunction(fn)
ASSUME StackAssumption ==
  /\ Value \subseteq Int
  /\ StackTop \in Nat /\ StackTop % StackAlignment = 0
  /\ IsSeq(CalleeSaveRegs)
  /\ Range(stackingTempRegs) \cap CalleeSaved = {}

VARIABLES
  mem,       \* the stack
  sp, fp, lr,
  regs,      \* the callee-saved registers
  frames,    \* the activations, the running one last
  pc,        \* where the running activation is
  i          \* the register that its prologue or epilogue has come to

vars == <<mem, sp, fp, lr, regs, frames, pc, i>>

Addresses == {8 * k : k \in 0..(StackTop \div 8) - 1}

Fn == frames[Len(frames)].fn

\* The stack has room for a frame of fn.
Fits(fn) == TotalSize(fn) <= sp

(***************************************************************************)
(* What an activation of fn finds when it is entered.                      *)
(***************************************************************************)
Activation(fn, sp0, fp0, lr0, regs0) ==
  [fn |-> fn, sp |-> sp0, fp |-> fp0, lr |-> lr0, regs |-> regs0,
   local |-> [s \in Slots(fn.local) |-> 0],
   outgoing |-> [s \in Slots(fn.outgoing) |-> 0]]

Init ==
  /\ mem = [a \in Addresses |-> 0]
  /\ sp = StackTop /\ fp = StackTop /\ lr = 0
  /\ regs \in [CalleeSaved -> Value]
  /\ \E fn \in Functions :
       /\ fn.incoming = 0 /\ Fits(fn)
       /\ frames = <<Activation(fn, sp, fp, lr, regs)>>
  /\ pc = "sub" /\ i = 1

-----------------------------------------------------------------------------
(***************************************************************************)
(* The prologue: asmgen emits its first three instructions in place of the *)
(* four that GeneratePrologue begins with; the saves follow, FP-relative.  *)
(***************************************************************************)
AllocateFrame ==
  /\ pc = "sub"
  /\ sp' = sp - TotalSize(Fn)
  /\ pc' = "stp"
  /\ UNCHANGED <<mem, fp, lr, regs, frames, i>>

SaveFPAndLR ==
  /\ pc = "stp"
  /\ mem' = [mem EXCEPT ![sp + fpSaveOffset(Fn)] = fp, ![sp + fpSaveOffset(Fn) + 8] = lr]
  /\ pc' = "fp"
  /\ UNCHANGED <<sp, fp, lr, regs, frames, i>>

SetFP ==
  /\ pc = "fp"
  /\ fp' = sp + fpSaveOffset(Fn)
  /\ pc' = "save" /\ i' = 1
  /\ UNCHANGED <<mem, sp, lr, regs, frames>>

SaveRegister ==
  /\ pc = "save" /\ i <= Len(Saved(Fn))
  /\ mem' = [mem EXCEPT ![fp + SaveOffset(i)] = regs[Saved(Fn)[i]]]
  /\ i' = i + 1
  /\ UNCHANGED <<sp, fp, lr, regs, frames, pc>>

\* The slots are whatever the memory below the stack was.
EndPrologue ==
  /\ pc = "save" /\ i > Len(Saved(Fn))
  /\ frames' = [frames EXCEPT
       ![Len(frames)].local = [s \in Slots(Fn.local) |-> mem[fp + LocalSlotOffset(Fn, s)]],
       ![Len(frames)].outgoing = [s \in Slots(Fn.outgoing) |-> mem[fp + OutgoingSlotOffset(Fn, s)]]]
  /\ pc' = "body"
  /\ UNCHANGED <<mem, sp, fp, lr, regs, i>>

-----------------------------------------------------------------------------
\* What an activation finds in a location, by what it has written there.
Read(loc) ==
  CASE InReg(loc)            -> regs[loc[2]]
    [] loc[1] = "local"    -> frames[Len(frames)].local[loc[2]]
    [] loc[1] = "outgoing" -> frames[Len(frames)].outgoing[loc[2]]
    [] loc[1] = "incoming" -> frames[Len(frames) - 1].outgoing[loc[2]]

Results(inst) ==
  CASE inst.op = "any"    -> Value
    [] inst.op = "first"  -> {Read(inst.args[1])}
    [] inst.op = "second" -> {Read(inst.args[2])}
    [] inst.op = "none"   -> {0}

(***************************************************************************)
(* The registers after the loads of operands in slots, in which a later    *)
(* load overwrites an earlier one.  The temporary registers hold nothing   *)
(* of the body's.                                                          *)
(***************************************************************************)
LoadOperands(inst) ==
  [r \in CalleeSaved \cup Range(stackingTempRegs) |->
     LET loads == {j \in SlotOperands(inst) : ensureInReg(inst, j) = r}
     IN  IF loads # {} THEN mem[fp + TranslateSlotOffset(Fn, Operands(inst)[Max(loads)])]
         ELSE IF r \in CalleeSaved THEN regs[r] ELSE 0]

\* The operands of the machine instruction.
Seen(inst) == [j \in DOMAIN Operands(inst) |-> LoadOperands(inst)[ensureInReg(inst, j)]]

\* What it computes; accesses to slots take the value from there or from a register.
Computed(inst, v) ==
  CASE inst.k = "Lgetstack" -> mem[fp + TranslateSlotOffset(Fn, inst.args[1])]
    [] inst.k = "Lsetstack" -> regs[inst.args[1][2]]
    [] OTHER -> CASE inst.op = "first"  -> Seen(inst)[1]
                  [] inst.op = "second" -> Seen(inst)[2]
                  [] OTHER -> v

\* The result is written to a register, or through a temporary register to a slot.
transformInst(inst, v) ==
  LET dest == inst.dest[1]
      toReg == inst.dest # <<>> /\ InReg(dest)
      toSlot == inst.dest # <<>> /\ ~InReg(dest)
  IN  /\ regs' = IF toReg THEN [regs EXCEPT ![dest[2]] = Computed(inst, v)] ELSE regs
      /\ mem' = IF toSlot THEN [mem EXCEPT ![fp + TranslateSlotOffset(Fn, dest)] = Computed(inst, v)]
                ELSE mem

Execute ==
  /\ pc = "body"
  /\ \E inst \in Fn.code : \E v \in Results(inst) :
       LET written(slot) == inst.dest # <<>> /\ inst.dest[1][1] = slot
       IN  /\ transformInst(inst, v)
           /\ frames' = CASE written("local")    -> [frames EXCEPT ![Len(frames)].local[inst.dest[1][2]] = v]
                          [] written("outgoing") -> [frames EXCEPT ![Len(frames)].outgoing[inst.dest[1][2]] = v]
                          [] written("incoming") -> [frames EXCEPT ![Len(frames) - 1].outgoing[inst.dest[1][2]] = v]
                          [] OTHER -> frames
  /\ UNCHANGED <<sp, fp, lr, pc, i>>

(***************************************************************************)
(* bl: the caller has an outgoing slot for each stack argument.  The       *)
(* calling activation is all that tells return addresses apart here.       *)
(***************************************************************************)
Call ==
  /\ pc = "body"
  /\ lr' = Len(frames)
  /\ \E fn \in Functions :
       /\ fn.incoming <= Fn.outgoing /\ Fits(fn)
       /\ frames' = Append(frames, Activation(fn, sp, fp, lr', regs))
  /\ pc' = "sub"
  /\ UNCHANGED <<mem, sp, fp, regs, i>>

-----------------------------------------------------------------------------
(***************************************************************************)
(* The epilogue: the registers are restored pair by pair from the last to  *)
(* the first, FP-relative, before FP itself.                               *)
(***************************************************************************)
BeginEpilogue ==
  /\ pc = "body"
  /\ pc' = "restore" /\ i' = Len(Saved(Fn)) - 1
  /\ UNCHANGED <<mem, sp, fp, lr, regs, frames>>

RestorePair ==
  /\ pc = "restore" /\ i >= 1
  /\ LET first == [regs EXCEPT ![Saved(Fn)[i]] = mem[fp + SaveOffset(i)]]
     IN  regs' = [first EXCEPT ![Saved(Fn)[i + 1]] = mem[fp + SaveOffset(i + 1)]]
  /\ i' = i - 2
  /\ UNCHANGED <<mem, sp, fp, lr, frames, pc>>

RestoreFPAndLR ==
  /\ pc = "restore" /\ i < 1
  /\ fp' = mem[sp + fpSaveOffset(Fn)] /\ lr' = mem[sp + fpSaveOffset(Fn) + 8]
  /\ pc' = "add"
  /\ UNCHANGED <<mem, sp, regs, frames, i>>

FreeFrame ==
  /\ pc = "add"
  /\ sp' = sp + TotalSize(Fn)
  /\ pc' = "ret"
  /\ UNCHANGED <<mem, fp, lr, regs, frames, i>>

\* ret goes to LR: the activation it names runs on.
Return ==
  /\ pc = "ret" /\ lr # 0
  /\ frames' = SubSeq(frames, 1, lr)
  /\ pc' = "body"
  /\ UNCHANGED <<mem, sp, fp, lr, regs, i>>

Exit ==
  /\ pc = "ret" /\ lr = 0
  /\ UNCHANGED vars

Next ==
  \/ AllocateFrame \/ SaveFPAndLR \/ SetFP \/ SaveRegister \/ EndPrologue
  \/ Execute \/ Call
  \/ BeginEpilogue \/ RestorePair \/ RestoreFPAndLR \/ FreeFrame \/ Return \/ Exit

Spec == Init /\ [][Next]_vars

-----------------------------------------------------------------------------
(***************************************************************************)
(* A function returns with the stack pointer, the frame pointer, the       *)
(* return address and every callee-saved register as it found them, after  *)
(* whatever its body and the functions it called wrote.                    *)
(***************************************************************************)
Restored ==
  pc = "ret" =>
    LET entry == frames[Len(frames)]
    IN  sp = entry.sp /\ fp = entry.fp /\ lr = entry.lr /\ regs = entry.regs

\* The frame pointer of the k-th activation while its body runs or waits for a call.
FramePointer(k) == IF k = Len(frames) THEN fp ELSE frames[k + 1].fp
InBody(k) == k < Len(frames) \/ pc = "body"

(***************************************************************************)
(* Every slot of every activation holds what that activation wrote last,   *)
(* whatever the activations above and below it have written since.         *)
(***************************************************************************)
SlotsHold ==
  \A k \in 1..Len(frames) : InBody(k) =>
    LET f == frames[k]
    IN  /\ \A s \in Slots(f.fn.local) :
             mem[FramePointer(k) + LocalSlotOffset(f.fn, s)] = f.local[s]
        /\ \A s \in Slots(f.fn.outgoing) :
             mem[FramePointer(k) + OutgoingSlotOffset(f.fn, s)] = f.outgoing[s]

(***************************************************************************)
(* A function reads each of its stack arguments where its caller stored    *)
(* it: the incoming area of one frame is the outgoing area of the other.   *)
(***************************************************************************)
ArgumentsArrive ==
  pc = "body" /\ Len(frames) > 1 =>
    \A s \in Slots(Fn.incoming) :
      mem[fp + IncomingSlotOffset(s)] = frames[Len(frames) - 1].outgoing[s]

(***************************************************************************)
(* Whatever instruction of the body runs next, its machine instruction     *)
(* gets the value that each operand's register or slot was last given,     *)
(* though slots of the frame and of the caller's pass through two          *)
(* temporary registers.                                                    *)
(***************************************************************************)
OperandsRead ==
  pc = "body" =>
    \A inst \in {j \in Fn.code : j.k \notin {"Lgetstack", "Lsetstack"}} :
      Seen(inst) = [j \in DOMAIN Operands(inst) |-> Read(Operands(inst)[j])]

-----------------------------------------------------------------------------
(***************************************************************************)
(* Functions whose address-taken variables live in the frame.  Cminorgen   *)
(* numbers their offsets from zero upwards and asmgen takes the address of *)
(* a variable to be FP plus its offset; the frame that pkg/stacking lays   *)
(* out has no room for them.                                               *)
(***************************************************************************)
\* A store to an address-taken variable.
SetVariable ==
  /\ pc = "body"
  /\ \E o \in Variables[Fn], v \in Value : mem' = [mem EXCEPT ![fp + o] = v]
  /\ UNCHANGED <<sp, fp, lr, regs, frames, pc, i>>

VariablesSpec == Init /\ [][Next \/ SetVariable]_vars

\* The frame pointer points at the saved frame pointer, and LR is saved above it.
SavedPairIntact ==
  pc = "body" =>
    LET entry == frames[Len(frames)]
    IN  mem[fp] = entry.fp /\ mem[fp + 8] = entry.lr
=============================================================================
