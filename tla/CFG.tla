-------------------------------- MODULE CFG --------------------------------
(***************************************************************************)
(* Control-flow graphs of LTL basic blocks (pkg/ltl), and how a program    *)
(* written as such a graph runs.                                           *)
(*                                                                         *)
(* A block is [body, kind, succs]: the instructions before its terminator, *)
(* "nop" or "op"; the kind of its terminator; the successors the           *)
(* terminator names, in its order.  What an instruction does is left       *)
(* open: it is told from others by where it is, <<node, index>>.           *)
(***************************************************************************)
EXTENDS Integers, Sequences, FiniteSets

BlockKinds == {"branch", "cond", "jumptable", "return", "tailcall"}

IsBlock(b, nodes) ==
  /\ b.body \in Seq({"nop", "op"}) /\ b.kind \in BlockKinds /\ b.succs \in Seq(nodes)
  /\ b.kind = "branch" => Len(b.succs) = 1
  /\ b.kind = "cond" => Len(b.succs) = 2
  /\ b.kind = "jumptable" => Len(b.succs) > 0
  /\ b.kind \in {"return", "tailcall"} => b.succs = <<>>

IsCFG(code, entry) ==
  /\ IsFiniteSet(DOMAIN code) /\ entry \in DOMAIN code
  /\ \A n \in DOMAIN code : IsBlock(code[n], DOMAIN code)

-----------------------------------------------------------------------------
AtTerminator(code, p) == p[2] = Len(code[p[1]].body) + 1

\* A step that does nothing but go on: a nop, or an unconditional branch.
Silent(code, p) ==
  IF AtTerminator(code, p) THEN code[p[1]].kind = "branch" ELSE code[p[1]].body[p[2]] = "nop"

Following(code, p, out) ==
  IF AtTerminator(code, p) THEN <<code[p[1]].succs[out], 1>> ELSE <<p[1], p[2] + 1>>

Places(code) == UNION {{<<n, j>> : j \in 1..Len(code[n].body) + 1} : n \in DOMAIN code}

\* Past p when p is silent.
Onward(code, p) == IF Silent(code, p) THEN Following(code, p, 1) ELSE p

SilentWalk(code, p) ==
  LET walk[k \in 0..Cardinality(Places(code))] == IF k = 0 THEN p ELSE Onward(code, walk[k - 1])
  IN  walk

(***************************************************************************)
(* The first place from p on that is not silent; p's own silent loop when  *)
(* there is none.                                                          *)
(***************************************************************************)
FirstVisible(code, p) == SilentWalk(code, p)[Cardinality(Places(code))]

\* The ways out of a visible instruction.
Outcomes(code, p) ==
  IF AtTerminator(code, p) /\ code[p[1]].succs # <<>> THEN 1..Len(code[p[1]].succs) ELSE {1}

\* Nothing follows.
IsExit(code, p) == AtTerminator(code, p) /\ code[p[1]].succs = <<>>
=============================================================================
