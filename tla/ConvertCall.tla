---------------------------- MODULE ConvertCall ----------------------------
(***************************************************************************)
(* convertCall of pkg/linearize/linearize.go: the moves that put the       *)
(* arguments of a call where the calling convention wants them.  The       *)
(* arguments beyond the registers are stored first, through the scratch    *)
(* register when they are in memory; then the shuffle of ParallelMoves     *)
(* fills the argument registers; then the call is emitted.                 *)
(***************************************************************************)
EXTENDS ParallelMoves, Sequences, FiniteSetsExt

CONSTANTS
  ArgRegs,   \* intArgRegs, a sequence of registers
  Calls,     \* [args, regArgs, fn]: argument locations, how many go in
             \* registers, the location of the callee's address or NoFun
  NoFun      \* the callee is a symbol

Distinct(s) == \A a, b \in DOMAIN s : s[a] = s[b] => a = b

(***************************************************************************)
(* regArgs is len(intArgRegs), or the number of fixed arguments of a       *)
(* variadic function on Darwin.                                            *)
(***************************************************************************)
ASSUME CallsAssumption ==
  /\ ArgRegs \in Seq(Register \ {Temp}) /\ Distinct(ArgRegs)
  /\ \A c \in Calls : /\ c.args \in Seq(Loc) /\ c.fn \in Register \cup {NoFun}
                      /\ c.regArgs \in 0..Len(ArgRegs)

VARIABLES call, next, outgoing

callVars == <<shuffleVars, call, next, outgoing>>

InRegisters(c) == 1..IF Len(c.args) < c.regArgs THEN Len(c.args) ELSE c.regArgs
OnStack(c) == (c.regArgs + 1)..Len(c.args)

\* The map from argument registers to the locations of their arguments.
NeededMoves(c) ==
  [d \in {ArgRegs[i] : i \in {j \in InRegisters(c) : c.args[j] # ArgRegs[j]}} |->
     c.args[CHOOSE i \in InRegisters(c) : ArgRegs[i] = d]]

\* The arguments on the stack that pass through the scratch register.
Loaded(c) == {i \in OnStack(c) : c.args[i] \notin Register}

\* before foresees the store that the overflow arguments leave to the shuffle.
CallInit ==
  /\ call \in Calls
  /\ next = call.regArgs + 1
  /\ outgoing = <<>>
  /\ wanted = NeededMoves(call)
  /\ store = [l \in Loc |-> l]
  /\ before = IF Loaded(call) = {} THEN store
              ELSE [store EXCEPT ![Temp] = call.args[Max(Loaded(call))]]
  /\ moves = <<>>
  /\ done = {} /\ todo = {} /\ progress = FALSE
  /\ pc = "overflow"

\* Mutant: an argument in memory is stored without being loaded first.
StoreUnloaded ==
  /\ pc = "overflow" /\ next <= Len(call.args)
  /\ outgoing' = Append(outgoing, IF call.args[next] \in Register
                                  THEN store[call.args[next]] ELSE store[Temp])
  /\ next' = next + 1
  /\ UNCHANGED <<call, store, wanted, before, moves, done, todo, progress, pc>>

\* One argument beyond the registers goes to its slot of the outgoing area.
StoreOverflow ==
  /\ pc = "overflow" /\ next <= Len(call.args)
  /\ LET arg == call.args[next]
     IN  /\ outgoing' = Append(outgoing, store[arg])
         /\ store' = IF arg \in Register THEN store ELSE [store EXCEPT ![Temp] = store[arg]]
  /\ next' = next + 1
  /\ UNCHANGED <<call, wanted, before, moves, done, todo, progress, pc>>

StartShuffle ==
  /\ pc = "overflow" /\ next > Len(call.args)
  /\ moves' = wanted /\ todo' = DOMAIN wanted
  /\ pc' = "shuffle"
  /\ UNCHANGED <<call, next, outgoing, wanted, before, store, done, progress>>

CallNext ==
  \/ StoreOverflow
  \/ StartShuffle
  \/ Shuffle /\ UNCHANGED <<call, next, outgoing>>

-----------------------------------------------------------------------------
Delivered(c) ==
  /\ \A i \in InRegisters(c) : store[ArgRegs[i]] = c.args[i]
  /\ \A i \in OnStack(c) : outgoing[i - c.regArgs] = c.args[i]

(***************************************************************************)
(* Arguments in memory pass through the scratch register before the        *)
(* register arguments are moved: an argument in the scratch register that  *)
(* is needed later is overwritten.                                         *)
(***************************************************************************)
ScratchConflict(c) ==
  \E i \in Loaded(c), j \in 1..Len(c.args) :
    /\ c.args[j] = Temp
    /\ j \in InRegisters(c) \/ j > i

(***************************************************************************)
(* At the call, every argument is where the calling convention wants it,   *)
(* through overflow stores, chains and cycles, unless the overflow stores  *)
(* needed the scratch register while it held an argument.                  *)
(***************************************************************************)
ArgumentsDelivered == pc = "done" /\ ~ScratchConflict(call) => Delivered(call)

\* At the call every argument is in its place, wherever it was.
AllArgumentsDelivered == pc = "done" => Delivered(call)

\* At the call the address of the callee is where the call instruction reads it.
AllCalleesDelivered == pc = "done" /\ call.fn # NoFun => store[call.fn] = call.fn
=============================================================================
