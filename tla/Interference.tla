---------------------------- MODULE Interference ----------------------------
(***************************************************************************)
(* BuildInterferenceGraph of pkg/regalloc/interference.go.  A graph is a   *)
(* record of its nodes (pseudo-registers), the neighbours and the          *)
(* preferred partners of each node, and the registers live across calls.   *)
(* AddEdge and AddPreference record both directions and no loops, which is *)
(* what SymmetricLinks does for a relation on the nodes.                   *)
(***************************************************************************)
EXTENDS RTL

SymmetricLinks(nodes, pairs) ==
  [a \in nodes |-> {b \in nodes : a # b /\ (<<a, b>> \in pairs \/ <<b, a>> \in pairs)}]

GraphNodes(f) ==
  ToSet(f.params)
    \cup UNION {Def(f.code[n]) \cup Use(f.code[n]) : n \in DOMAIN f.code}

(***************************************************************************)
(* A definition interferes with what is live after it, except with the     *)
(* source of a move; a parameter that is used anywhere interferes with     *)
(* every other register.                                                   *)
(***************************************************************************)
DefInterferes(f, liveOut, d, r) ==
  \E n \in DOMAIN f.code :
    /\ d \in Def(f.code[n])
    /\ r \in liveOut[n]
    /\ ~(IsMove(f.code[n]) /\ f.code[n].args[1] = r)

ParamInterferes(f, p) ==
  /\ p \in ToSet(f.params)
  /\ \E n \in DOMAIN f.code : p \in Use(f.code[n])

MovedTo(f, d, a) ==
  \E n \in DOMAIN f.code :
    IsMove(f.code[n]) /\ f.code[n].dest = d /\ f.code[n].args[1] = a

BuildInterferenceGraph(f, liveOut) ==
  LET nodes == GraphNodes(f)
      interfering == {p \in nodes \X nodes : \/ DefInterferes(f, liveOut, p[1], p[2])
                                              \/ ParamInterferes(f, p[1])}
      preferred == {p \in nodes \X nodes : MovedTo(f, p[1], p[2])}
  IN  [nodes |-> nodes,
       edges |-> SymmetricLinks(nodes, interfering),
       prefs |-> SymmetricLinks(nodes, preferred),
       lac |-> UNION {liveOut[n] : n \in {m \in DOMAIN f.code : IsCall(f.code[m])}}]

(***************************************************************************)
(* What the allocator relies on: links are symmetric, without loops, and   *)
(* stay within the nodes.                                                  *)
(***************************************************************************)
IsLinks(nodes, links) ==
  /\ links \in [nodes -> SUBSET nodes]
  /\ \A a \in nodes : a \notin links[a]
  /\ \A a, b \in nodes : b \in links[a] => a \in links[b]

IsGraph(g) ==
  /\ IsLinks(g.nodes, g.edges)
  /\ IsLinks(g.nodes, g.prefs)
  /\ g.lac \subseteq g.nodes

\* MapParams of rtlgen numbers the parameters first and in order; one that is
\* used, and so every one that is live across a call, interferes with all others.
IsAllocatable(params, g) ==
  /\ IsGraph(g)
  /\ params \in Seq(g.nodes)
  /\ \A k \in 1..Len(params) : params[k] = k
  /\ \A k \in 1..Len(params) : k \in g.lac => g.edges[k] = g.nodes \ {k}

(***************************************************************************)
(* What the allocator promises: registers that interfere are kept apart,   *)
(* those that are live across a call are in none of the locations that are *)
(* unsafe for them, and the other parameters stay where they arrive.       *)
(***************************************************************************)
Separates(g, params, loc, unsafe, argLoc) ==
  /\ \A r \in g.nodes : \A s \in g.edges[r] : loc[r] # loc[s]
  /\ \A r \in g.lac : loc[r] \notin unsafe
  /\ \A k \in DOMAIN params : params[k] \notin g.lac => loc[params[k]] = argLoc[k]
=============================================================================
