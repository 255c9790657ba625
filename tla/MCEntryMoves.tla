---------------------------- MODULE MCEntryMoves ----------------------------
(***************************************************************************)
(* Calls over four argument registers, the scratch register X8, X9, a      *)
(* callee-saved register and two slots, with two temporary registers, so   *)
(* that they can run out.                                                  *)
(***************************************************************************)
EXTENDS EntryMoves

MCArgRegs == <<"x0", "x1", "x2", "x3">>
MCTempRegs == <<"x8", "x9">>
MCIncoming == <<"in0", "in1">>
MCRegister == {"x0", "x1", "x2", "x3", "x8", "x9", "x19"}
MCLoc == MCRegister \cup {"s0", "s1", "in0", "in1"}

\* All permutations, chains that hang off cycles, two cycles, duplicated sources.
Shuffles ==
  {[args |-> a, regArgs |-> 4, fn |-> "none", dst |-> <<>>] :
     a \in [1..4 -> {"x0", "x1", "x2", "x3", "x8", "s0"}]}

\* Variadic functions on Darwin, with two arguments beyond the registers.
Overflows ==
  {[args |-> a, regArgs |-> n, fn |-> "none", dst |-> <<>>] :
     a \in UNION {[1..k -> {"x0", "x1", "x8", "x9", "s0", "s1"}] : k \in 0..4},
     n \in {1, 2}}

\* Five parameters to any places, after a shuffle or none.
Entries ==
  {[args |-> a, regArgs |-> 4, fn |-> "none", dst |-> d] :
     a \in {<<"x0", "x1", "x2", "x3", "s0">>, <<"x1", "s1", "x0", "x8", "x19">>},
     d \in {e \in [1..5 -> {"x0", "x1", "x2", "x3", "x8", "x9", "x19", "s0", "in0"}] :
              Distinct(e) /\ \A k \in 1..4 : e[k] \notin {"x8", "x9", "in0"}}}

MCCalls == Shuffles \cup Overflows \cup Entries
MCMoveSets == {NeededMoves(c) : c \in MCCalls}

\* One overflow argument in memory while the scratch register holds an argument.
ScratchCalls ==
  {[args |-> <<"x8", "x1", "x2", "x3", "s0">>, regArgs |-> 4, fn |-> "none",
    dst |-> <<>>]}

\* f(x) where the function f is the first parameter and x the second.
PointerCalls ==
  {[args |-> <<"x1">>, regArgs |-> 4, fn |-> "x0", dst |-> <<>>]}
=============================================================================
