----------------------------- MODULE Cminorgen -----------------------------
(***************************************************************************)
(* From Csharpminor to Cminor (pkg/cminorgen): the locals whose address is *)
(* taken get a place in the frame and become loads and stores, the others  *)
(* and the temporaries become variables.                                   *)
(***************************************************************************)
EXTENDS CExpr, TLC

RECURSIVE findAddressTakenInExpr(_), findAddressTakenInStmt(_)
findAddressTakenInExpr(e) ==
  (IF e.k = "Eaddrof" THEN {e.n} ELSE {}) \cup UNION {findAddressTakenInExpr(e.kids[i]) : i \in DOMAIN e.kids}

findAddressTakenInStmt(s) ==
  UNION {findAddressTakenInExpr(s.es[i]) : i \in DOMAIN s.es}
    \cup UNION {UNION {findAddressTakenInStmt(s.bs[b][i]) : i \in DOMAIN s.bs[b]} : b \in DOMAIN s.bs}

FindAddressTaken(body, locals) ==
  UNION {findAddressTakenInStmt(s) : s \in Range(body)} \cap {l.name : l \in Range(locals)}

-----------------------------------------------------------------------------
(* The frame.                                                              *)

alignmentForSize(size) == CASE size <= 1 -> 1 [] size <= 2 -> 2 [] size <= 4 -> 4 [] OTHER -> 8

\* Mutant: the offset is rounded down.
AlignDown(n, align) == (n \div align) * align

alignUp(n, align) == ((n + align - 1) \div align) * align

\* One more variable at the next aligned offset.
AddSlot(layout, local) ==
  LET offset == alignUp(layout.size, alignmentForSize(local.size))
  IN [slots |-> Append(layout.slots, [name |-> local.name, offset |-> offset, size |-> local.size]),
      size  |-> offset + local.size]

ComputeStackLayout(locals) ==
  LET layout == FoldLeft(LAMBDA acc, l : AddSlot(acc, l), [slots |-> <<>>, size |-> 0], locals)
  IN [layout EXCEPT !.size = alignUp(@, 8)]

chunkForSizeAndSign(size, signed) ==
  CASE size = 1 -> IF signed THEN "Mint8signed" ELSE "Mint8unsigned"
    [] size = 2 -> IF signed THEN "Mint16signed" ELSE "Mint16unsigned"
    [] size = 4 -> "Mint32"
    [] size = 8 -> "Mint64"
    [] OTHER    -> "Many64"

\* The layout of the locals whose address is taken, and the names of the others.
ClassifyVariables(locals, body) ==
  LET taken  == FindAddressTaken(body, locals)
      layout == ComputeStackLayout(SelectSeq(locals, LAMBDA l : l.name \in taken))
  IN [slots |-> layout.slots, size |-> layout.size, registers |-> {l.name : l \in Range(locals)} \ taken]

IsStack(env, name) == \E i \in DOMAIN env.slots : env.slots[i].name = name

\* A name that is declared twice keeps the place of its last declaration.
SlotOf(env, name) ==
  LET at == {i \in DOMAIN env.slots : env.slots[i].name = name}
  IN env.slots[CHOOSE i \in at : \A j \in at : j <= i]

\* A variable on the stack is read with a signed chunk of its size.
TransformVarRead(env, name) ==
  IF ~IsStack(env, name) THEN Var(name)
  ELSE LoadOf(chunkForSizeAndSign(SlotOf(env, name).size, TRUE), Oaddrstack(SlotOf(env, name).offset))

TransformVarWrite(env, name, value) ==
  IF ~IsStack(env, name) THEN SassignVar(name, value)
  ELSE Sstore(chunkForSizeAndSign(SlotOf(env, name).size, TRUE), Oaddrstack(SlotOf(env, name).offset), value)

-----------------------------------------------------------------------------
(* Expressions and statements.  globals gives the size and sign of each    *)
(* global variable.                                                        *)

getTempName(id) == "_t" \o ToString(id)

transformVar(env, globals, name) ==
  IF name \in DOMAIN globals
  THEN LoadOf(chunkForSizeAndSign(globals[name].size, globals[name].signed), Oaddrsymbol(name, 0))
  ELSE TransformVarRead(env, name)

transformAddrof(env, globals, name) ==
  IF name \in DOMAIN globals THEN Oaddrsymbol(name, 0)
  ELSE IF IsStack(env, name) THEN Oaddrstack(SlotOf(env, name).offset)
  ELSE Var(name)

RECURSIVE TransformExpr(_, _, _)
TransformExpr(e, env, globals) ==
  CASE e.k = "Evar"     -> transformVar(env, globals, e.n)
    [] e.k = "Etempvar" -> TransformVarRead(env, getTempName(e.v))
    [] e.k = "Eaddrof"  -> transformAddrof(env, globals, e.n)
    [] OTHER            -> MapKids(LAMBDA a : TransformExpr(a, env, globals), e)

RECURSIVE TransformStmt(_, _, _)
TransformStmt(s, env, globals) ==
  LET es == MapSeq(LAMBDA e : TransformExpr(e, env, globals), s.es) IN
  CASE s.k = "Sset"  -> TransformVarWrite(env, getTempName(s.v), es[1])
    [] s.k = "Scall" -> ScallVar(getTempName(s.v), es[1], Tail(es))
    [] OTHER -> [s EXCEPT !.es = es,
                          !.bs = MapSeq(LAMBDA b : MapSeq(LAMBDA u : TransformStmt(u, env, globals), b), s.bs)]

TransformFunction(fn, globals) ==
  LET env == ClassifyVariables(fn.locals, fn.body)
  IN [params |-> fn.params,
      vars   |-> [i \in 1..fn.temps |-> getTempName(i - 1)] \o SetToSeq(env.registers),
      slots  |-> env.slots,
      stackspace |-> env.size,
      body   |-> MapSeq(LAMBDA s : TransformStmt(s, env, globals), fn.body)]
=============================================================================
