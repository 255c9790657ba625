---------------------------- MODULE RegallocRun ----------------------------
(***************************************************************************)
(* A function before and after register allocation, side by side.  The     *)
(* code of TransformFunction (pkg/regalloc/transform.go) turns every RTL   *)
(* instruction into a block that does the same with the locations of its   *)
(* registers; calls move their result out of the return register, returns  *)
(* move theirs into it, and the block of the entry node begins with the    *)
(* moves of the parameters.  Each step executes one RTL instruction on     *)
(* pseudo-registers and its block on locations.                            *)
(*                                                                         *)
(* What an operation computes is left open: one value is chosen and        *)
(* written by both sides.  The two sides agree when the values they read   *)
(* are the same.                                                           *)
(***************************************************************************)
EXTENDS Interference, FiniteSets

CONSTANTS
  Reg,          \* pseudo-registers
  Loc,          \* machine registers and stack slots
  CallerSaved,  \* the machine registers that a call may change
  ReturnLoc,    \* ReturnLocation, X0
  ArgLoc,       \* ArgLocation, as a sequence
  Value,
  Exit,         \* where control is after a return
  Allocations   \* [fn, liveIn, liveOut, loc] records

ArgLocs == {ArgLoc[k] : k \in DOMAIN ArgLoc}
Params(fn) == {fn.params[k] : k \in DOMAIN fn.params}

(***************************************************************************)
(* The functions: every successor has code, and no register is read before *)
(* it is written.                                                          *)
(***************************************************************************)
IsFunction(fn, liveIn) ==
  /\ fn.entry \in DOMAIN fn.code /\ Exit \notin DOMAIN fn.code
  /\ fn.params \in Seq(Reg) /\ Len(fn.params) <= Len(ArgLoc)
  /\ \A j, k \in DOMAIN fn.params : fn.params[j] = fn.params[k] => j = k
  /\ \A n \in DOMAIN fn.code :
       /\ Def(fn.code[n]) \subseteq Reg /\ Use(fn.code[n]) \subseteq Reg
       /\ Successors(fn.code[n]) \subseteq DOMAIN fn.code
       /\ fn.code[n].args \in Seq(Reg)
       /\ fn.code[n].kind = "Imove" => Len(fn.code[n].args) = 1
  /\ liveIn[fn.entry] \subseteq Params(fn)

(***************************************************************************)
(* What AnalyzeLiveness returns: a solution of the dataflow equations that *)
(* has no register live which is never read.                               *)
(***************************************************************************)
SolvesLiveness(fn, liveIn, liveOut) ==
  /\ liveIn \in [DOMAIN fn.code -> SUBSET Reg] /\ liveOut \in [DOMAIN fn.code -> SUBSET Reg]
  /\ \A n \in DOMAIN fn.code :
       /\ liveOut[n] = UNION {liveIn[s] : s \in Successors(fn.code[n])}
       /\ liveIn[n] = Use(fn.code[n]) \cup (liveOut[n] \ Def(fn.code[n]))
       /\ \A r \in liveIn[n] : \E m \in DOMAIN fn.code : r \in Use(fn.code[m])

(***************************************************************************)
(* What the allocator promises of its graph: a register live across a call *)
(* is in a callee-saved register or in one of the function's own slots.    *)
(***************************************************************************)
KeepsApart(fn, liveOut, loc) ==
  LET g == BuildInterferenceGraph(fn, liveOut)
  IN  /\ loc \in [g.nodes -> Loc]
      /\ Separates(g, fn.params, loc, CallerSaved \cup ArgLocs, ArgLoc)

ASSUME AllocationsAssumption ==
  \A a \in Allocations :
    /\ IsFunction(a.fn, a.liveIn)
    /\ SolvesLiveness(a.fn, a.liveIn, a.liveOut)
    /\ KeepsApart(a.fn, a.liveOut, a.loc)
ASSUME LocationsAssumption ==
  /\ ReturnLoc \in CallerSaved /\ CallerSaved \subseteq Loc
  /\ ArgLoc \in Seq(Loc) /\ \A j, k \in DOMAIN ArgLoc : ArgLoc[j] = ArgLoc[k] => j = k

VARIABLES
  a,        \* the function and its allocation
  node,     \* where control is
  moved,    \* have the parameter moves of this visit to the entry been made?
  regs,     \* the pseudo-registers
  store,    \* the locations
  result    \* what the RTL function returned

vars == <<a, node, moved, regs, store, result>>

Instruction == a.fn.code[node]

Init ==
  /\ a \in Allocations
  /\ node = a.fn.entry /\ moved = FALSE
  /\ store \in [Loc -> Value]
  /\ regs \in [Reg -> Value]
  /\ \A k \in DOMAIN a.fn.params : regs[a.fn.params[k]] = store[ArgLoc[k]]
  /\ result = store[ReturnLoc]

-----------------------------------------------------------------------------
NeedsMove(al, k) == al.loc[al.fn.params[k]] # ArgLoc[k]

(***************************************************************************)
(* The moves in front of the entry block: resolveParallelMoves assigns all *)
(* the parameters at once, as EntryMoves shows.                            *)
(***************************************************************************)
MoveParameters ==
  /\ node = a.fn.entry /\ ~moved
  /\ store' = [l \in Loc |->
       IF \E k \in DOMAIN a.fn.params : NeedsMove(a, k) /\ a.loc[a.fn.params[k]] = l
       THEN store[ArgLoc[CHOOSE k \in DOMAIN a.fn.params :
                           NeedsMove(a, k) /\ a.loc[a.fn.params[k]] = l]]
       ELSE store[l]]
  /\ moved' = TRUE
  /\ UNCHANGED <<a, node, regs, result>>

Ready == node \in DOMAIN a.fn.code /\ (node = a.fn.entry => moved)

GoOn == node' \in Successors(Instruction) /\ moved' = FALSE

\* Inop, Istore, Icond, Ijumptable, and builtins without a result.
NoResult ==
  /\ Ready
  /\ \/ Instruction.kind \in {"Inop", "Istore", "Icond", "Ijumptable"}
     \/ Instruction.kind = "Ibuiltin" /\ Instruction.dest = NoReg
  /\ GoOn
  /\ UNCHANGED <<a, regs, store, result>>

\* Iop, Iload, and builtins with a result.
Operation ==
  /\ Ready
  /\ \/ Instruction.kind \in {"Iop", "Iload"}
     \/ Instruction.kind = "Ibuiltin" /\ Instruction.dest # NoReg
  /\ \E v \in Value :
       /\ regs' = [regs EXCEPT ![Instruction.dest] = v]
       /\ store' = [store EXCEPT ![a.loc[Instruction.dest]] = v]
  /\ GoOn
  /\ UNCHANGED <<a, result>>

Copy ==
  /\ Ready
  /\ Instruction.kind = "Imove"
  /\ regs' = [regs EXCEPT ![Instruction.dest] = regs[Instruction.args[1]]]
  /\ store' = [store EXCEPT ![a.loc[Instruction.dest]] = store[a.loc[Instruction.args[1]]]]
  /\ GoOn
  /\ UNCHANGED <<a, result>>

\* Mutant: the result of a call stays in the return register.
CallLeavesResult ==
  /\ Ready
  /\ Instruction.kind = "Icall"
  /\ \E after \in [CallerSaved -> Value] :
       /\ store' = [l \in Loc |-> IF l \in CallerSaved THEN after[l] ELSE store[l]]
       /\ regs' = IF Instruction.dest = NoReg THEN regs
                  ELSE [regs EXCEPT ![Instruction.dest] = after[ReturnLoc]]
  /\ GoOn
  /\ UNCHANGED <<a, result>>

(***************************************************************************)
(* The callee leaves its result in the return register and may change      *)
(* every other caller-saved register; the result is moved where it is      *)
(* wanted.                                                                 *)
(***************************************************************************)
Call ==
  /\ Ready
  /\ Instruction.kind = "Icall"
  /\ \E after \in [CallerSaved -> Value] :
       LET returned == [l \in Loc |-> IF l \in CallerSaved THEN after[l] ELSE store[l]]
       IN  IF Instruction.dest = NoReg
           THEN store' = returned /\ UNCHANGED regs
           ELSE /\ store' = [returned EXCEPT ![a.loc[Instruction.dest]] = after[ReturnLoc]]
                /\ regs' = [regs EXCEPT ![Instruction.dest] = after[ReturnLoc]]
  /\ GoOn
  /\ UNCHANGED <<a, result>>

\* Mutant: the result is not moved to the return register.
ReturnWithoutMove ==
  /\ Ready
  /\ Instruction.kind \in {"Ireturn", "Itailcall"}
  /\ result' = IF Instruction.kind = "Ireturn" /\ Instruction.args # <<>>
               THEN regs[Instruction.args[1]] ELSE store[ReturnLoc]
  /\ node' = Exit
  /\ UNCHANGED <<a, moved, regs, store>>

\* Ireturn, and Itailcall, which leaves nothing to compare.
Return ==
  /\ Ready
  /\ Instruction.kind \in {"Ireturn", "Itailcall"}
  /\ IF Instruction.kind = "Ireturn" /\ Instruction.args # <<>>
     THEN /\ result' = regs[Instruction.args[1]]
          /\ store' = [store EXCEPT ![ReturnLoc] = store[a.loc[Instruction.args[1]]]]
     ELSE result' = store[ReturnLoc] /\ UNCHANGED store
  /\ node' = Exit
  /\ UNCHANGED <<a, moved, regs>>

Returned == node = Exit /\ UNCHANGED vars

Next ==
  \/ MoveParameters
  \/ NoResult \/ Operation \/ Copy \/ Call
  \/ Return \/ Returned

Spec == Init /\ [][Next]_vars

-----------------------------------------------------------------------------
\* Every variable has its type.
TypeOK ==
  /\ node \in DOMAIN a.fn.code \cup {Exit} /\ moved \in BOOLEAN
  /\ regs \in [Reg -> Value] /\ store \in [Loc -> Value] /\ result \in Value

(***************************************************************************)
(* The parameter moves are in the entry block, and are made again whenever *)
(* control comes back to it.                                               *)
(***************************************************************************)
EntryRunsOnce(al) ==
  \/ \A n \in DOMAIN al.fn.code : al.fn.entry \notin Successors(al.fn.code[n])
  \/ \A k \in DOMAIN al.fn.params : ~NeedsMove(al, k)

\* Every register that is still needed has its value in its location.
Agree == \A r \in a.liveIn[node] : store[a.loc[r]] = regs[r]

(***************************************************************************)
(* Before every instruction the location of each live register holds the   *)
(* value the register has, across calls, moves and loops, if control does  *)
(* not come back to an entry block with parameter moves.                   *)
(***************************************************************************)
AllocationSimulates == EntryRunsOnce(a) /\ Ready => Agree

\* The allocated function returns what the function returns.
ResultsAgree == EntryRunsOnce(a) /\ node = Exit => store[ReturnLoc] = result

\* Before every instruction the location of each live register holds its value.
AlwaysSimulates == Ready => Agree
=============================================================================
