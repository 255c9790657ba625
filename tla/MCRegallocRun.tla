--------------------------- MODULE MCRegallocRun ---------------------------
(***************************************************************************)
(* Functions of four instructions over three registers, the first of them  *)
(* a parameter, with every allocation that keeps the promises; locations   *)
(* are the argument register, a caller-saved register, a callee-saved      *)
(* register and a slot.                                                    *)
(***************************************************************************)
EXTENDS RegallocRun

MCLoc == {"x0", "x9", "x19", "s0"}
MCCallerSaved == {"x0", "x9"}
MCArgLoc == <<"x0">>

\* The nodes at which r is live: where it is read, and where such a node is
\* reached without r being written.
LiveAt(fn, r) ==
  LET within[k \in 0..Cardinality(DOMAIN fn.code)] ==
        IF k = 0 THEN {n \in DOMAIN fn.code : r \in Use(fn.code[n])}
        ELSE LET w == within[k - 1]
             IN  w \cup {n \in DOMAIN fn.code :
                           r \notin Def(fn.code[n]) /\ Successors(fn.code[n]) \cap w # {}}
  IN  within[Cardinality(DOMAIN fn.code)]

LiveIn(fn) ==
  LET at == [r \in Reg |-> LiveAt(fn, r)]
  IN  [n \in DOMAIN fn.code |-> {r \in Reg : n \in at[r]}]

Allocate(fn) ==
  LET in == LiveIn(fn)
      out == [n \in DOMAIN fn.code |-> UNION {in[s] : s \in Successors(fn.code[n])}]
  IN  IF in[fn.entry] \subseteq Params(fn)
      THEN {[fn |-> fn, liveIn |-> in, liveOut |-> out, loc |-> loc] :
              loc \in {l \in [GraphNodes(fn) -> MCLoc] : KeepsApart(fn, out, l)}}
      ELSE {}

First == {Inop(2), Iop(<<1>>, 2, 2), Imove(1, 2, 2), Icall(NoReg, <<1>>, 2, 2),
          Ibuiltin(<<1>>, NoReg, 2)}
Second == {Iop(<<1, 2>>, 1, 3), Imove(2, 3, 3), Imove(1, 2, 3), Icall(2, <<1>>, NoReg, 3),
           Icall(NoReg, <<2>>, 1, 3), Istore(<<1>>, 2, 3), Ibuiltin(<<2>>, 3, 3)}
Third == {Icond(<<1>>, 2, 4), Icond(<<1>>, 1, 4), Icond(<<3>>, 2, 4), Ijumptable(2, <<2, 4, 4>>),
          Iload(<<2>>, 1, 4), Imove(2, 1, 4)}
Fourth == {Ireturn(<<1>>), Ireturn(<<2>>), Ireturn(<<>>), Itailcall(NoReg, <<2>>)}

MCFunctions ==
  {Function(<<1>>, code, 1) : code \in First \X Second \X Third \X Fourth}

MCAllocations == UNION {Allocate(fn) : fn \in MCFunctions}

(***************************************************************************)
(* int f(int n) { do { g(); } while (n); return 0; } : the loop begins at  *)
(* the entry, and n is live across the call.                               *)
(***************************************************************************)
LoopAtEntry ==
  Allocate(Function(<<1>>, <<Inop(2), Icall(NoReg, <<>>, NoReg, 3), Icond(<<1>>, 1, 4), Ireturn(<<1>>)>>, 1))
=============================================================================
