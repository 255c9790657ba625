----------------------------- MODULE MCLiveness -----------------------------
(***************************************************************************)
(* Liveness on every three-node function over two registers whose first    *)
(* two nodes hold any instruction of a representative set and whose last   *)
(* node returns a register, so that loops, branches, dead code, two-address*)
(* operations and calls through a register all occur.                      *)
(***************************************************************************)
EXTENDS Liveness

MCNode == 1..3
MCReg == 1..2

MCInstrs ==
  UNION {{Iop(<<a>>, d, s) : a \in MCReg, d \in MCReg, s \in MCNode},
         {Icond(<<a>>, s, t) : a \in MCReg, s \in MCNode, t \in {2, 3}},
         {Istore(<<1>>, 2, 3), Icall(1, <<2>>, NoReg, 3), Icall(2, <<>>, 2, 1),
          Inop(3), Ijumptable(1, <<1, 2, 3>>), Itailcall(2, <<1>>)}}

MCFunctions ==
  {Function(<<1>>, <<i1, i2, i3>>, 1) :
     i1 \in MCInstrs, i2 \in MCInstrs, i3 \in {Ireturn(<<r>>) : r \in MCReg}}
=============================================================================
