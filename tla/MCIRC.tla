------------------------------- MODULE MCIRC -------------------------------
(***************************************************************************)
(* The allocator on the interference graphs of real straight-line          *)
(* functions: three instructions, each an operation, a move or a call,     *)
(* then a tail call that uses every register or only the last one, so that *)
(* all registers interfere or chains of moves can be coalesced.  Liveness  *)
(* of such a function is computed backwards, so that the graphs are        *)
(* exactly those BuildInterferenceGraph produces.                          *)
(***************************************************************************)
EXTENDS IRC

CONSTANTS
  MCReg,      \* the registers of the functions
  MCParams    \* the parameter lists they may have; empty when not used

StraightLiveOut(f) ==
  LET n == Len(f.code)
      in[k \in 1..n] ==
        Use(f.code[k]) \cup ((IF k = n THEN {} ELSE in[k+1]) \ Def(f.code[k]))
  IN  [k \in 1..n |-> IF k = n THEN {} ELSE in[k+1]]

MCInput(f) ==
  [params |-> f.params, graph |-> BuildInterferenceGraph(f, StraightLiveOut(f))]

MCInstrs(n) ==
  UNION {{Iop(<<>>, d, n + 1) : d \in MCReg},
         {Imove(m[1], m[2], n + 1) : m \in {p \in MCReg \X MCReg : p[1] # p[2]}},
         {Icall(NoReg, <<>>, NoReg, n + 1)}}

NoParams == {}
AnyParams == {<<>>, <<1>>}

\* Registers 4-3-2-1 interfere in a row, and a move links both ends.
MovedPath ==
  Function(<<>>, <<Iop(<<>>, 4, 2), Iop(<<>>, 3, 3), Istore(<<>>, 4, 4),
                   Iop(<<>>, 2, 5), Istore(<<>>, 3, 6), Iop(<<>>, 1, 7),
                   Istore(<<>>, 2, 8), Imove(1, 4, 9), Itailcall(NoReg, <<4>>)>>, 1)

MCInputs ==
  {MCInput(Function(p, <<i1, i2, i3, last>>, 1)) :
     p \in MCParams, i1 \in MCInstrs(1), i2 \in MCInstrs(2), i3 \in MCInstrs(3),
     last \in {Itailcall(NoReg, SetToSortSeq(MCReg, <)), Itailcall(NoReg, <<4>>)}}
    \cup {MCInput(MovedPath)}

\* Three registers that are all live at once: one more than K = 2.
Clique ==
  {MCInput(Function(<<>>, <<Iop(<<>>, 1, 2), Iop(<<>>, 2, 3), Iop(<<>>, 3, 4),
                            Itailcall(NoReg, <<1, 2, 3>>)>>, 1))}

\* Two used parameters, the second one dead before a call.
TwoParams ==
  {MCInput(Function(<<1, 2>>, <<Iop(<<>>, 3, 2), Iop(<<2, 3>>, 4, 3),
                                Icall(NoReg, <<>>, NoReg, 4),
                                Itailcall(NoReg, <<1, 4>>)>>, 1))}

\* An unused parameter is given the value of a register live across a call.
UnusedParam ==
  {MCInput(Function(<<1>>, <<Iop(<<>>, 2, 2), Imove(2, 1, 3),
                             Icall(NoReg, <<>>, NoReg, 4),
                             Itailcall(NoReg, <<2>>)>>, 1))}
=============================================================================
