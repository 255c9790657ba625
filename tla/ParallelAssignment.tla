------------------------- MODULE ParallelAssignment -------------------------
(***************************************************************************)
(* What a shuffle promises: one step assigns every destination the value   *)
(* its source had, and changes nothing else except, perhaps, a scratch     *)
(* register.                                                               *)
(***************************************************************************)
CONSTANTS Loc, Temp

VARIABLES
  store,      \* the value in each location
  finished,   \* has the assignment been made?
  wanted      \* destination -> source

Init == store \in [Loc -> Loc] /\ finished = FALSE

Assign ==
  /\ ~finished
  /\ finished' = TRUE
  /\ store' \in [Loc -> Loc]
  /\ \A l \in Loc \ {Temp} :
       store'[l] = IF l \in DOMAIN wanted THEN store[wanted[l]] ELSE store[l]
  /\ UNCHANGED wanted

Spec == Init /\ [][Assign]_<<store, finished, wanted>>
=============================================================================
