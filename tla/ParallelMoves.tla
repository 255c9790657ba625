--------------------------- MODULE ParallelMoves ---------------------------
(***************************************************************************)
(* The shuffle loop that convertCall (pkg/linearize/linearize.go) and      *)
(* GenerateParamCopies (pkg/stacking/prolog.go) share: a set of moves that *)
(* must take effect at once is put in an order, and a scratch register     *)
(* breaks the cycles.  The code emits moves; the model executes each one   *)
(* as it is emitted, on a store that maps locations to values.             *)
(*                                                                         *)
(* moves and done are the code's maps.  A sweep visits every destination   *)
(* once, in the arbitrary order of a Go map; todo holds the destinations   *)
(* the sweep has not visited.                                              *)
(***************************************************************************)
EXTENDS Naturals, FiniteSets

CONSTANTS
  Loc,        \* machine registers and stack slots
  Register,   \* the locations that are registers
  Temp,       \* tempReg, X8
  MoveSets    \* the maps from destinations to sources to shuffle

(***************************************************************************)
(* Destinations are registers other than the scratch register, and no move *)
(* is from a register to itself.  The scratch register may be a source.    *)
(***************************************************************************)
IsMoves(m) ==
  /\ DOMAIN m \subseteq Register \ {Temp}
  /\ \A d \in DOMAIN m : m[d] \in Loc /\ m[d] # d

ASSUME LocAssumption ==
  Register \subseteq Loc /\ IsFiniteSet(Register) /\ Temp \in Register
ASSUME MovesAssumption == \A m \in MoveSets : IsMoves(m)

VARIABLES
  wanted,     \* auxiliary: the moves asked for
  before,     \* auxiliary: the store when the shuffle began
  store,      \* the value in each location
  moves,      \* destination -> where its value is now
  done,       \* destinations already assigned
  todo,       \* destinations the current sweep has not visited
  progress,   \* madeProgress
  pc          \* "shuffle" or "done"

shuffleVars == <<wanted, before, store, moves, done, todo, progress, pc>>

Init ==
  /\ wanted \in MoveSets
  /\ store = [l \in Loc |-> l] /\ before = store
  /\ moves = wanted
  /\ done = {} /\ todo = DOMAIN wanted /\ progress = FALSE
  /\ pc = "shuffle"

Pending == DOMAIN moves \ done

\* Mutant: a move is only held back by moves of the sweep still to come.
isSourceOfLaterMove(r) == \E d \in Pending \cap todo : moves[d] = r

isSourceOfPendingMove(r) == \E d \in Pending : moves[d] = r

\* The sweep passes over a destination that is assigned or still needed.
Skip(d) ==
  /\ pc = "shuffle"
  /\ d \in todo
  /\ d \in done \/ isSourceOfPendingMove(d)
  /\ todo' = todo \ {d}
  /\ UNCHANGED <<wanted, before, store, moves, done, progress, pc>>

\* Mutant: the value is taken from where it was at first.
MoveFromOldSource(d) ==
  /\ pc = "shuffle"
  /\ d \in todo
  /\ d \notin done /\ ~isSourceOfPendingMove(d)
  /\ store' = [store EXCEPT ![d] = store[wanted[d]]]
  /\ done' = done \cup {d}
  /\ progress' = TRUE
  /\ todo' = todo \ {d}
  /\ UNCHANGED <<wanted, before, moves, pc>>

\* Mutant: madeProgress is not set.
MoveUnnoticed(d) ==
  /\ pc = "shuffle"
  /\ d \in todo
  /\ d \notin done /\ ~isSourceOfPendingMove(d)
  /\ store' = [store EXCEPT ![d] = store[moves[d]]]
  /\ done' = done \cup {d}
  /\ todo' = todo \ {d}
  /\ UNCHANGED <<wanted, before, moves, progress, pc>>

\* Nothing pending needs the old value of d.
Move(d) ==
  /\ pc = "shuffle"
  /\ d \in todo
  /\ d \notin done /\ ~isSourceOfPendingMove(d)
  /\ store' = [store EXCEPT ![d] = store[moves[d]]]
  /\ done' = done \cup {d}
  /\ progress' = TRUE
  /\ todo' = todo \ {d}
  /\ UNCHANGED <<wanted, before, moves, pc>>

\* The outer loop goes round after a sweep that made progress.
NextSweep ==
  /\ pc = "shuffle" /\ done # DOMAIN moves
  /\ todo = {} /\ progress
  /\ todo' = DOMAIN moves /\ progress' = FALSE
  /\ UNCHANGED <<wanted, before, store, moves, done, pc>>

\* Mutant: the moves keep reading the register that was saved.
BreakCycleKeepsMoves(d) ==
  /\ pc = "shuffle"
  /\ todo = {} /\ ~progress
  /\ d \in Pending
  /\ store' = [store EXCEPT ![Temp] = store[moves[d]]]
  /\ todo' = DOMAIN moves
  /\ UNCHANGED <<wanted, before, moves, done, progress, pc>>

(***************************************************************************)
(* A sweep without progress: the source of some pending move is saved in   *)
(* the scratch register, and every move from there now reads the copy.  A  *)
(* source that is not a register would be moved directly.                  *)
(***************************************************************************)
BreakCycle(d) ==
  /\ pc = "shuffle"
  /\ todo = {} /\ ~progress
  /\ d \in Pending
  /\ LET saved == moves[d] \in Register
     IN  /\ store' = [store EXCEPT ![IF saved THEN Temp ELSE d] = store[moves[d]]]
         /\ moves' = [e \in DOMAIN moves |->
                        IF saved /\ moves[e] = moves[d] THEN Temp ELSE moves[e]]
         /\ done' = IF saved THEN done ELSE done \cup {d}
  /\ todo' = DOMAIN moves
  /\ UNCHANGED <<wanted, before, progress, pc>>

Finish ==
  /\ pc = "shuffle" /\ todo = {} /\ done = DOMAIN moves
  /\ pc' = "done"
  /\ UNCHANGED <<wanted, before, store, moves, done, todo, progress>>

Shuffle == \/ \E d \in Register : Skip(d) \/ Move(d) \/ BreakCycle(d)
           \/ NextSweep
           \/ Finish

Next == Shuffle \/ (pc = "done" /\ UNCHANGED shuffleVars)

Spec == Init /\ [][Next]_shuffleVars

-----------------------------------------------------------------------------
\* Every variable has its type.
TypeOK ==
  /\ IsMoves(wanted)
  /\ before \in [Loc -> Loc] /\ store \in [Loc -> Loc]
  /\ DOMAIN moves = DOMAIN wanted
  /\ \A d \in DOMAIN moves : moves[d] \in Loc
  /\ done \subseteq DOMAIN moves /\ todo \subseteq DOMAIN moves
  /\ progress \in BOOLEAN
  /\ pc \in {"shuffle", "done"}

(***************************************************************************)
(* The value every pending move is to deliver is still where the code      *)
(* thinks it is: no move and no use of the scratch register destroys a     *)
(* value that is still needed, even when the scratch register is itself    *)
(* the source of a move or several cycles need it one after the other.     *)
(***************************************************************************)
PendingIntact == \A d \in Pending : store[moves[d]] = before[wanted[d]]

(***************************************************************************)
(* The shuffle implements the parallel assignment.                         *)
(***************************************************************************)
Assignment == INSTANCE ParallelAssignment WITH
  store <- IF pc = "done" THEN store ELSE before,
  finished <- (pc = "done")

IsParallelAssignment == Assignment!Spec

(***************************************************************************)
(* A sweep without progress leaves only cycles of registers: the branch    *)
(* for sources that are not registers is never taken, and the scratch      *)
(* register is free.                                                       *)
(***************************************************************************)
StuckInCycles ==
  pc = "shuffle" /\ todo = {} /\ ~progress =>
    {moves[d] : d \in Pending} = Pending

\* The shuffle of every set of moves ends.
Termination == <>(pc = "done")
=============================================================================
