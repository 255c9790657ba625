----------------------------- MODULE EntryMoves -----------------------------
(***************************************************************************)
(* The callee's side of a call, after the caller's side in ConvertCall:    *)
(* resolveParallelMoves of pkg/regalloc/transform.go takes the parameters  *)
(* from where they arrive to where the allocator wants them.  A first pass *)
(* over the moves saves each source that is also a destination in a        *)
(* temporary register, a second pass moves.  The code emits moves; the     *)
(* model executes each one as it is emitted.                               *)
(*                                                                         *)
(* call.dst has the locations of the callee's parameters.  It is empty if  *)
(* the callee is not compiled here.                                        *)
(***************************************************************************)
EXTENDS ConvertCall

CONSTANTS
  TempRegs,   \* the temporary registers in order, X8 to X15
  Incoming,   \* the slots where the parameters beyond the registers arrive
  Unknown     \* what the slots of a new frame hold

Temps == {TempRegs[k] : k \in DOMAIN TempRegs}

\* ArgLocation: where parameter k arrives.
ArgLocation(k) == IF k <= Len(ArgRegs) THEN ArgRegs[k] ELSE Incoming[k - Len(ArgRegs)]

(***************************************************************************)
(* The allocator has parameters in different places, and none in a slot    *)
(* where another one arrives.  Those that arrive in registers stay there,  *)
(* or they live across a call and are in a callee-saved register or in     *)
(* memory: none is in a temporary register.                                *)
(***************************************************************************)
ASSUME EntryAssumption ==
  /\ TempRegs \in Seq(Register) /\ Incoming \in Seq(Loc \ Register)
  /\ Distinct(TempRegs) /\ Distinct(Incoming)
  /\ \A k \in DOMAIN ArgRegs : ArgRegs[k] \notin Temps
  /\ \A c \in Calls : c.dst # <<>> =>
       /\ c.regArgs = Len(ArgRegs)
       /\ c.dst \in Seq(Loc) /\ Len(c.dst) = Len(c.args) /\ Distinct(c.dst)
       /\ Len(c.dst) <= Len(ArgRegs) + Len(Incoming)
       /\ \A k \in 1..Len(c.dst) :
            /\ c.dst[k] \in Temps => k > Len(ArgRegs)
            /\ \A m \in DOMAIN Incoming : c.dst[k] = Incoming[m] => k = Len(ArgRegs) + m

VARIABLES
  local,      \* the value in each location of the callee
  i,          \* the move that the current pass has come to
  tmpIndex,
  saved,      \* savedLocs: the temporary registers of the saved sources
  entry       \* "caller", "save", "move" or "body"

entryVars == <<local, i, tmpIndex, saved, entry>>
vars == <<callVars, entryVars>>

Count == Len(call.dst)
Needed(k) == ArgLocation(k) # call.dst[k]
DstSet == {call.dst[k] : k \in {j \in 1..Count : Needed(j)}}

EntryInit ==
  /\ CallInit
  /\ local = store
  /\ i = 1 /\ tmpIndex = 0 /\ saved = <<>>
  /\ entry = "caller"

\* The callee has the caller's registers, its outgoing slots, and a new frame.
Enter ==
  /\ pc = "done" /\ entry = "caller" /\ call.dst # <<>>
  /\ local' = [l \in Loc |->
       IF l \in Register THEN store[l]
       ELSE IF \E k \in DOMAIN outgoing : l = Incoming[k]
       THEN outgoing[CHOOSE k \in DOMAIN outgoing : l = Incoming[k]]
       ELSE Unknown]
  /\ entry' = "save"
  /\ UNCHANGED <<callVars, i, tmpIndex, saved>>

-----------------------------------------------------------------------------
Clobbered(k) == Needed(k) /\ ArgLocation(k) \in DstSet

NothingToSave ==
  /\ entry = "save" /\ i <= Count
  /\ ~Clobbered(i)
  /\ i' = i + 1
  /\ UNCHANGED <<callVars, local, tmpIndex, saved, entry>>

\* Mutant: one temporary register serves all.
SaveInSameRegister ==
  /\ entry = "save" /\ i <= Count
  /\ Clobbered(i) /\ tmpIndex < Len(TempRegs)
  /\ local' = [local EXCEPT ![TempRegs[1]] = local[ArgLocation(i)]]
  /\ saved' = [l \in DOMAIN saved \cup {ArgLocation(i)} |-> TempRegs[1]]
  /\ tmpIndex' = tmpIndex + 1 /\ i' = i + 1
  /\ UNCHANGED <<callVars, entry>>

\* Parameters arrive in different places: no source has been saved before.
SaveSource ==
  /\ entry = "save" /\ i <= Count
  /\ Clobbered(i) /\ tmpIndex < Len(TempRegs)
  /\ LET tmp == TempRegs[tmpIndex + 1]
     IN  /\ local' = [local EXCEPT ![tmp] = local[ArgLocation(i)]]
         /\ saved' = [l \in DOMAIN saved \cup {ArgLocation(i)} |->
                        IF l \in DOMAIN saved THEN saved[l] ELSE tmp]
  /\ tmpIndex' = tmpIndex + 1 /\ i' = i + 1
  /\ UNCHANGED <<callVars, entry>>

\* The temporary registers have run out: no further source is saved.
GiveUpSaving ==
  /\ entry = "save" /\ i <= Count
  /\ Clobbered(i) /\ tmpIndex = Len(TempRegs)
  /\ tmpIndex' = tmpIndex + 1
  /\ entry' = "move" /\ i' = 1
  /\ UNCHANGED <<callVars, local, saved>>

EndSaving ==
  /\ entry = "save" /\ i > Count
  /\ entry' = "move" /\ i' = 1
  /\ UNCHANGED <<callVars, local, tmpIndex, saved>>

MoveParameter ==
  /\ entry = "move" /\ i <= Count
  /\ local' = IF ~Needed(i) THEN local
              ELSE [local EXCEPT ![call.dst[i]] =
                      local[IF ArgLocation(i) \in DOMAIN saved
                            THEN saved[ArgLocation(i)] ELSE ArgLocation(i)]]
  /\ i' = i + 1
  /\ UNCHANGED <<callVars, tmpIndex, saved, entry>>

BeginBody ==
  /\ entry = "move" /\ i > Count
  /\ entry' = "body"
  /\ UNCHANGED <<callVars, local, i, tmpIndex, saved>>

EntryNext ==
  \/ CallNext /\ UNCHANGED entryVars
  \/ Enter
  \/ NothingToSave \/ SaveSource \/ GiveUpSaving \/ EndSaving
  \/ MoveParameter \/ BeginBody
  \/ pc = "done" /\ (call.dst = <<>> \/ entry = "body") /\ UNCHANGED vars

CallSpec == EntryInit /\ [][EntryNext]_vars

\* Both sides are sequential code that keeps running.
FairCallSpec == CallSpec /\ WF_vars(EntryNext)

-----------------------------------------------------------------------------
(***************************************************************************)
(* When the callee's body begins, each parameter is where the callee's     *)
(* allocator wants it and has the value of the caller's argument, wherever *)
(* the caller kept that: the order in which convertCall moves and stores,  *)
(* the convention and the order in which resolveParallelMoves saves and    *)
(* moves fit together.  Registers that are neither destination nor         *)
(* temporary are as at the call.  Exempt are callees for which the         *)
(* temporary registers ran out and the conflict of ArgumentsDelivered.     *)
(***************************************************************************)
ParametersArrive ==
  entry = "body" /\ tmpIndex <= Len(TempRegs) /\ ~ScratchConflict(call) =>
    /\ \A k \in 1..Count : local[call.dst[k]] = call.args[k]
    /\ \A r \in Register \ (DstSet \cup Temps) : local[r] = store[r]
=============================================================================
