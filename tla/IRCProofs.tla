----------------------------- MODULE IRCProofs -----------------------------
(***************************************************************************)
(* Proofs about the register allocator, for every graph and every K.       *)
(***************************************************************************)
EXTENDS IRC, FiniteSetTheorems, SequenceTheorems, WellFoundedInduction, TLAPS

(***************************************************************************)
(* Every non-empty set of natural numbers has a least element.             *)
(***************************************************************************)
LEMMA LeastElement ==
  ASSUME NEW S \in SUBSET Nat, S # {}
  PROVE  \E x \in S : \A y \in S : x <= y
<1>1. PICK x \in S : \A y \in S : ~ (<<y, x>> \in OpToRel(<, Nat))
  BY NatLessThanWellFounded, WFMin
<1>2. \A y \in S : ~(y < x)
  BY <1>1 DEF OpToRel
<1>. QED  BY <1>2

\* The least element of a set of numbers is in it.
LEMMA MinProperty ==
  ASSUME NEW S \in SUBSET Nat, S # {}
  PROVE  Min(S) \in S
BY LeastElement DEF Min

(***************************************************************************)
(* Sequence helpers stay within the set of nodes.                          *)
(***************************************************************************)
LEMMA SetToSeqsType ==
  ASSUME NEW T, NEW S \in SUBSET T, IsFiniteSet(T), NEW f \in SetToSeqs(S)
  PROVE  f \in Seq(T)
<1>1. Cardinality(S) \in Nat
  BY FS_Subset, FS_CardinalityType
<1>2. f \in [1..Cardinality(S) -> S]
  BY DEF SetToSeqs
<1>. QED  BY <1>1, <1>2 

\* Popping a worklist yields a node and leaves a list of nodes.
LEMMA FrontLastType ==
  ASSUME NEW T, NEW s \in Seq(T), s # <<>>
  PROVE  Front(s) \in Seq(T) /\ Last(s) \in T
<1>1. Len(s) \in Nat /\ Len(s) > 0
  OBVIOUS
<1>2. Last(s) \in T
  BY <1>1 DEF Last
<1>3. \A i \in 1..Len(s)-1 : s[i] \in T
  BY <1>1
<1>4. SubSeq(s, 1, Len(s)-1) \in Seq(T)
  BY <1>1, <1>3, SubSeqProperties
<1>. QED  BY <1>2, <1>4 DEF Front

\* Removing an entry from a worklist leaves a list of nodes.
LEMMA RemoveFirstType ==
  ASSUME NEW T, NEW s \in Seq(T), NEW e
  PROVE  RemoveFirst(s, e) \in Seq(T)
<1>1. CASE \E i \in 1..Len(s) : s[i] = e
  <2> DEFINE k == SelectInSeq(s, LAMBDA v : v = e)
  <2>1. {i \in 1..Len(s) : s[i] = e} \in SUBSET Nat /\ {i \in 1..Len(s) : s[i] = e} # {}
    BY <1>1
  <2>2. k \in 1..Len(s)
    BY <2>1, MinProperty DEF SelectInSeq
  <2> HIDE DEF k
  <2>3. SubSeq(s, 1, k - 1) \in Seq(T) /\ SubSeq(s, k + 1, Len(s)) \in Seq(T)
    BY <2>2
  <2>4. RemoveAt(s, k) \in Seq(T)
    BY <2>3 DEF RemoveAt
  <2>. QED  BY <1>1, <2>4 DEF RemoveFirst, k
<1>2. CASE ~ \E i \in 1..Len(s) : s[i] = e
  BY <1>2 DEF RemoveFirst
<1>. QED  BY <1>1, <1>2

-----------------------------------------------------------------------------
(***************************************************************************)
(* The chains of aliases.  combine always merges into a lower-numbered     *)
(* register, so chains descend and end; rep records where they end.        *)
(***************************************************************************)
AliasInv ==
  /\ \A r \in Nodes \ coalesced : rep[r] = r
  /\ \A r \in coalesced : alias[r] < r /\ rep[r] = rep[alias[r]]
  /\ \A r \in Nodes : rep[r] \notin coalesced

(***************************************************************************)
(* getAlias follows a chain to its end: the recursion of the code computes *)
(* rep.                                                                    *)
(***************************************************************************)
LEMMA AliasIsRep ==
  ASSUME TypeOK, AliasInv
  PROVE  getAlias = rep
<1> DEFINE Step(f) == [r \in Nodes |-> IF r \in coalesced THEN f[alias[r]] ELSE r]
<1>0. Nodes \subseteq Nat
  BY RegAssumption DEF TypeOK, IsInput, IsAllocatable, Nodes
<1>1. rep = Step(rep)
  BY DEF TypeOK, AliasInv
<1>2. getAlias = Step(getAlias)
  <2>1. \E f : f = Step(f)
    BY <1>1
  <2>. QED  BY <2>1 DEF getAlias
<1> HIDE DEF getAlias
<1> DEFINE Bad == {r \in Nodes : getAlias[r] # rep[r]}
<1>3. ASSUME Bad # {} PROVE FALSE
  <2>1. PICK r \in Bad : \A y \in Bad : r <= y
    BY <1>0, <1>3, LeastElement
  <2>2. r \in coalesced
    BY <1>1, <1>2, <2>1
  <2>3. alias[r] \in Nodes /\ alias[r] < r
    BY <2>1, <2>2 DEF TypeOK, AliasInv
  <2>4. alias[r] \notin Bad
    <3>1. r \in Nodes
      BY <2>1
    <3> HIDE DEF Bad
    <3>2. r \in Nat /\ alias[r] \in Nat
      BY <1>0, <2>3, <3>1
    <3>3. ~(r <= alias[r])
      BY <2>3, <3>2
    <3>. QED  BY <2>1, <3>3
  <2>5. getAlias[r] = getAlias[alias[r]] /\ rep[r] = rep[alias[r]]
    BY <1>1, <1>2, <2>1, <2>2
  <2>. QED  BY <2>1, <2>3, <2>4, <2>5
<1>. QED  BY <1>1, <1>2, <1>3

(***************************************************************************)
(* Registers in a move stay move-related, and so do the registers they are *)
(* merged into: preferences are inherited and never removed.               *)
(***************************************************************************)
MoveInv ==
  \A a \in Nodes : input.graph.prefs[a] # {} => prefs[a] # {} /\ prefs[rep[a]] # {}

Inv1 == TypeOK /\ AliasInv /\ MoveInv

\* A graph has finitely many nodes, all of them numbers.
LEMMA NodesFinite ==
  ASSUME TypeOK
  PROVE  Nodes \subseteq Nat /\ IsFiniteSet(Nodes)
<1>1. Nodes \subseteq Reg
  BY DEF TypeOK, IsInput, IsAllocatable, Nodes
<1>. QED  BY <1>1, RegAssumption, FS_Subset

\* The ends of a move, resolved, are live move-related nodes.
LEMMA MoveEnds ==
  ASSUME Inv1, NEW m \in Moves
  PROVE  /\ LowEnd(m) \in Nodes \ coalesced /\ HighEnd(m) \in Nodes \ coalesced
         /\ prefs[LowEnd(m)] # {} /\ prefs[HighEnd(m)] # {}
         /\ prefs[m[1]] # {} /\ prefs[m[2]] # {}
         /\ LowEnd(m) # HighEnd(m) => LowEnd(m) < HighEnd(m)
         /\ m[1] \in Nodes /\ m[2] \in Nodes
<1>1. getAlias = rep
  BY AliasIsRep DEF Inv1
<1>2. m[1] \in Nodes /\ m[2] \in Nodes /\ m[2] \in input.graph.prefs[m[1]]
  BY DEF Moves
<1>3. m[1] \in input.graph.prefs[m[2]]
  BY <1>2 DEF Inv1, TypeOK, IsInput, IsAllocatable, IsGraph, IsLinks, Nodes
<1>4. /\ rep[m[1]] \in Nodes \ coalesced /\ rep[m[2]] \in Nodes \ coalesced
      /\ prefs[rep[m[1]]] # {} /\ prefs[rep[m[2]]] # {}
      /\ prefs[m[1]] # {} /\ prefs[m[2]] # {}
  BY <1>2, <1>3 DEF Inv1, TypeOK, AliasInv, MoveInv
<1>5. rep[m[1]] \in Nat /\ rep[m[2]] \in Nat
  BY <1>4, NodesFinite DEF Inv1
<1> HIDE DEF getAlias
<1>6. LowEnd(m) # HighEnd(m) => LowEnd(m) < HighEnd(m)
  BY <1>1, <1>5 DEF LowEnd, HighEnd
<1>. QED  BY <1>1, <1>2, <1>4, <1>6 DEF LowEnd, HighEnd

\* addToWorklist does nothing to a move-related register.
LEMMA NothingReady ==
  ASSUME NEW links, NEW partners, NEW merged, NEW S, \A r \in S : partners[r] # {}
  PROVE  Simplifiable(S, links, partners, merged) = {}
BY DEF Simplifiable

\* Removing no entry changes nothing.
LEMMA RemoveNothing ==
  ASSUME NEW list PROVE RemoveEach(list, {}) = list
BY Zenon DEF RemoveEach

\* Appending the permutation of the empty set changes nothing.
LEMMA NoPermutation ==
  ASSUME NEW T, NEW s \in Seq(T), NEW f \in SetToSeqs({})
  PROVE  s \o f = s
<1>1. f \in [1..0 -> {}]
  BY FS_EmptySet DEF SetToSeqs
<1>2. f = <<>>
  BY <1>1
<1>. QED  BY <1>2, ConcatEmptySeq

\* Degrees stay natural numbers: they are never taken below zero.
LEMMA DecrementType ==
  ASSUME NEW N, NEW count \in [N -> Nat], NEW S
  PROVE  Decrement(count, S) \in [N -> Nat]
BY DEF Decrement

\* Merging a node's links into another keeps the links symmetric and loses none.
LEMMA MergedLinksType ==
  ASSUME NEW links, NEW u \in Nodes, NEW inherited \in SUBSET Nodes,
         IsLinks(Nodes, links), u \notin inherited
  PROVE  /\ IsLinks(Nodes, MergedLinks(links, u, inherited))
         /\ \A n \in Nodes : links[n] \subseteq MergedLinks(links, u, inherited)[n]
BY DEF IsLinks, MergedLinks

-----------------------------------------------------------------------------
\* The input satisfies the type-level invariant.
LEMMA Inv1Init == Init => Inv1
<1> SUFFICES ASSUME Init PROVE Inv1
  OBVIOUS
<1>1. IsInput(input)
  BY InputsAssumption DEF Init
<1>2. IsLinks(Nodes, edges) /\ IsLinks(Nodes, prefs) /\ lac \subseteq Nodes
  BY <1>1 DEF Init, IsInput, IsAllocatable, IsGraph, Nodes
<1>3. /\ DOMAIN precolored \subseteq Nodes
      /\ \A p \in DOMAIN precolored : precolored[p].kind = "R" => precolored[p].at \in 0..K-1
  <2>1. DOMAIN precolored \subseteq ToSet(input.params)
    BY DEF Init, PrecoloredParams
  <2>2. ToSet(input.params) \subseteq Nodes
    BY <1>1 DEF IsInput, IsAllocatable, Nodes, ToSet
  <2>3. ASSUME NEW p \in DOMAIN precolored
        PROVE  precolored[p].kind = "R" => precolored[p].at \in 0..K-1
    <3>1. PICK i \in 1..Len(input.params) : input.params[i] = p
      BY <1>1, <2>1, <2>3 DEF ToSet, IsInput, IsAllocatable
    <3>2. PICK j \in 1..Len(input.params) : precolored[p] = ArgLocation(j)
      BY <2>3, <3>1 DEF Init, PrecoloredParams
    <3>3. Len(input.params) \in Nat
      BY <1>1 DEF IsInput, IsAllocatable
    <3>. QED  BY <3>2, <3>3, ColorAssumption DEF ArgLocation, R, Incoming
  <2>. QED  BY <2>1, <2>2, <2>3
<1>4. TypeOK
  BY <1>1, <1>2, <1>3, ColorAssumption DEF Init, TypeOK
<1>5. AliasInv /\ MoveInv
  BY DEF Init, AliasInv, MoveInv
<1>. QED  BY <1>4, <1>5 DEF Inv1

\* Building the worklists keeps the type-level invariant.
LEMMA Inv1Build == Inv1 /\ BuildWorklists => Inv1'
<1> SUFFICES ASSUME Inv1, BuildWorklists PROVE Inv1'
  OBVIOUS
<1>1. Nodes' = Nodes /\ Moves' = Moves
  BY DEF BuildWorklists, Nodes, Moves
<1>2. IsFiniteSet(Nodes)
  BY NodesFinite DEF Inv1
<1>3. freezeWorklist' \in Seq(Nodes) /\ simplifyWorklist' \in Seq(Nodes)
  BY <1>2, SetToSeqsType DEF BuildWorklists
<1>4. colors' \in [Nodes -> 0..K-1] /\ colored' \subseteq Nodes /\ spillWorklist' \in [Nodes -> Nat]
  BY ColorAssumption DEF BuildWorklists, Inv1, TypeOK
<1>5. TypeOK'
  BY <1>1, <1>3, <1>4 DEF BuildWorklists, Inv1, TypeOK, graphVars, mergeVars
<1>6. AliasInv' /\ MoveInv'
  BY <1>1 DEF BuildWorklists, Inv1, AliasInv, MoveInv, graphVars, mergeVars
<1>. QED  BY <1>5, <1>6 DEF Inv1

\* So does removing a register of low degree.
LEMMA Inv1Simplify == Inv1 /\ Simplify => Inv1'
<1> SUFFICES ASSUME Inv1, Simplify PROVE Inv1'
  OBVIOUS
<1>1. Nodes' = Nodes /\ Moves' = Moves
  BY DEF Simplify, Nodes, Moves
<1>2. IsFiniteSet(Nodes)
  BY NodesFinite DEF Inv1
<1> DEFINE r == Last(simplifyWorklist)
           hit == DroppedBelowK(edges[r], edges, coalesced \cup ToSet(selectStack) \cup {r})
<1>3. r \in Nodes /\ Front(simplifyWorklist) \in Seq(Nodes)
  BY FrontLastType DEF Simplify, Inv1, TypeOK
<1>4. hit \subseteq Nodes
  BY <1>3 DEF DroppedBelowK, Inv1, TypeOK, IsLinks
<1> HIDE DEF hit, r
<1>5. PICK toFreeze \in SetToSeqs({n \in hit : MoveRelated(n)}),
           toSimplify \in SetToSeqs({n \in hit : ~MoveRelated(n)}) :
        /\ freezeWorklist' = freezeWorklist \o toFreeze
        /\ simplifyWorklist' = Front(simplifyWorklist) \o toSimplify
  BY DEF Simplify, hit, r
<1>6. toFreeze \in Seq(Nodes) /\ toSimplify \in Seq(Nodes)
  BY <1>2, <1>4, SetToSeqsType
<1>7. freezeWorklist' \in Seq(Nodes) /\ simplifyWorklist' \in Seq(Nodes)
  BY <1>3, <1>5, <1>6, ConcatProperties DEF Inv1, TypeOK
<1>8. selectStack' \in Seq(Nodes)
  BY <1>3 DEF Simplify, Inv1, TypeOK, r
<1>9. spillWorklist' \in [Nodes -> Nat]
  BY DecrementType DEF Simplify, Inv1, TypeOK
<1>10. TypeOK'
  BY <1>1, <1>7, <1>8, <1>9
     DEF Simplify, Inv1, TypeOK, graphVars, moveVars, mergeVars, colorVars
<1>11. AliasInv' /\ MoveInv'
  BY <1>1 DEF Simplify, Inv1, AliasInv, MoveInv, graphVars, mergeVars
<1>. QED  BY <1>10, <1>11 DEF Inv1

\* The cases of coalesce that keep the graph.
LEMMA Inv1KeepMove ==
  ASSUME Inv1, NEW m \in worklistMoves,
         CoalesceSame(m) \/ CoalesceConstrained(m) \/ CoalesceDefer(m)
  PROVE  Inv1'
<1>1. Nodes' = Nodes /\ Moves' = Moves
  BY DEF CoalesceSame, CoalesceConstrained, CoalesceDefer, Nodes, Moves
<1>2. m \in Moves
  BY DEF Inv1, TypeOK
<1>3. /\ prefs[LowEnd(m)] # {} /\ prefs[HighEnd(m)] # {}
  BY <1>2, MoveEnds
<1>4. ASSUME NEW S \in SUBSET {LowEnd(m), HighEnd(m)}, AddToWorklists(S)
      PROVE  freezeWorklist' = freezeWorklist /\ simplifyWorklist' = simplifyWorklist
  <2>1. Simplifiable(S, edges, prefs, coalesced) = {}
    BY <1>3, NothingReady
  <2>2. PICK added \in SetToSeqs({}) : simplifyWorklist' = simplifyWorklist \o added
    BY <1>4, <2>1 DEF AddToWorklists
  <2>3. freezeWorklist' = freezeWorklist
    BY <1>4, <2>1, RemoveNothing DEF AddToWorklists
  <2>. QED  BY <2>2, <2>3, NoPermutation DEF Inv1, TypeOK
<1>5. freezeWorklist' = freezeWorklist /\ simplifyWorklist' = simplifyWorklist
  BY <1>4 DEF CoalesceSame, CoalesceConstrained, CoalesceDefer
<1>6. TypeOK'
  BY <1>1, <1>2, <1>5
     DEF CoalesceSame, CoalesceConstrained, CoalesceDefer, PopMove, Inv1, TypeOK,
         graphVars, mergeVars, colorVars
<1>7. AliasInv' /\ MoveInv'
  BY <1>1 DEF CoalesceSame, CoalesceConstrained, CoalesceDefer, Inv1, AliasInv,
              MoveInv, graphVars, mergeVars
<1>. QED  BY <1>6, <1>7 DEF Inv1

\* What combine does, with its ends named.
LEMMA CombineFacts ==
  ASSUME Inv1, NEW m \in worklistMoves, Combine(m)
  PROVE  \E u, v \in Nodes \ coalesced, moved \in SUBSET Nodes :
           /\ u = LowEnd(m) /\ v = HighEnd(m) /\ u < v
           /\ v \notin edges[u] /\ prefs[u] # {}
           /\ moved = {n \in edges[v] : n \notin coalesced \cup {v} /\ n # u}
           /\ coalesced' = coalesced \cup {v}
           /\ alias' = [alias EXCEPT ![v] = u]
           /\ rep' = [r \in Nodes |-> IF rep[r] = v THEN u ELSE rep[r]]
           /\ lac' = IF v \in lac THEN lac \cup {u} ELSE lac
           /\ edges' = MergedLinks(edges, u, moved)
           /\ prefs' = MergedLinks(prefs, u, prefs[v] \ {u})
           /\ UNCHANGED <<input, selectStack, colorVars, precolored, regToLoc, pc>>
<1>1. m \in Moves
  BY DEF Inv1, TypeOK
<1> DEFINE u == LowEnd(m)
           v == HighEnd(m)
           moved == {n \in edges[v] : n \notin coalesced \cup {v} /\ n # u}
<1>2. /\ u \in Nodes \ coalesced /\ v \in Nodes \ coalesced /\ prefs[u] # {}
      /\ u # v => u < v
  BY <1>1, MoveEnds
<1>3. moved \subseteq Nodes
  BY <1>2 DEF Inv1, TypeOK, IsLinks
<1>4. /\ u # v /\ v \notin edges[u]
      /\ coalesced' = coalesced \cup {v}
      /\ alias' = [alias EXCEPT ![v] = u]
      /\ rep' = [r \in Nodes |-> IF rep[r] = v THEN u ELSE rep[r]]
      /\ lac' = IF v \in lac THEN lac \cup {u} ELSE lac
      /\ edges' = MergedLinks(edges, u, moved)
      /\ prefs' = MergedLinks(prefs, u, prefs[v] \ {u})
      /\ UNCHANGED <<input, selectStack, colorVars, precolored, regToLoc, pc>>
  BY DEF Combine
<1> HIDE DEF u, v
<1>. QED  BY <1>2, <1>3, <1>4 DEF u, v

\* The worklists that combine touches stay lists of nodes.
LEMMA CombineWorklists ==
  ASSUME Inv1, NEW m \in worklistMoves, Combine(m)
  PROVE  /\ freezeWorklist' \in Seq(Nodes) /\ simplifyWorklist' \in Seq(Nodes)
         /\ spillWorklist' \in [Nodes -> Nat]
<1> DEFINE u == LowEnd(m)
           v == HighEnd(m)
           merged == coalesced \cup {v}
           moved == {n \in edges[v] : n \notin merged /\ n # u}
           links == MergedLinks(edges, u, moved)
           partners == MergedLinks(prefs, u, prefs[v] \ {u})
           hit == DroppedBelowK(moved, links, merged \cup ToSet(selectStack))
           high == Degree(links, merged \cup ToSet(selectStack), u) >= K
           spilling == Decrement(Decrement(spillWorklist, {v}), hit)
           moveless == Simplifiable({u}, links, partners, merged)
<1>1. /\ u \in Nodes /\ v \in Nodes /\ prefs[u] # {} 
  BY MoveEnds DEF Inv1, TypeOK
<1>2. hit \subseteq Nodes
  BY <1>1 DEF DroppedBelowK, Inv1, TypeOK, IsLinks
<1>3. partners[u] # {}
  BY <1>1 DEF MergedLinks
<1>4. moveless = {}
  BY <1>3, NothingReady
<1>5. /\ spillWorklist' = [spilling EXCEPT ![u] = IF high THEN @ + 1 ELSE @]
      /\ \E toFreeze \in SetToSeqs({n \in hit : MoveRelated(n)}),
            toSimplify \in SetToSeqs({n \in hit : ~MoveRelated(n)}),
            added \in SetToSeqs(moveless) :
           LET freezing == RemoveFirst(freezeWorklist, v) \o toFreeze
           IN  /\ freezeWorklist' =
                    RemoveEach(IF high THEN RemoveFirst(freezing, u) ELSE freezing,
                               moveless)
               /\ simplifyWorklist' = simplifyWorklist \o toSimplify \o added
  BY Zenon DEF Combine
<1> HIDE DEF u, v, hit, high, spilling, moveless
<1>6. spilling \in [Nodes -> Nat]
  BY DecrementType DEF spilling, Inv1, TypeOK
<1>7. spillWorklist' \in [Nodes -> Nat]
  BY <1>5, <1>6, <1>1
<1>8. PICK toFreeze \in SetToSeqs({n \in hit : MoveRelated(n)}),
           toSimplify \in SetToSeqs({n \in hit : ~MoveRelated(n)}),
           added \in SetToSeqs({}) :
             /\ freezeWorklist' =
                  IF high THEN RemoveFirst(RemoveFirst(freezeWorklist, v) \o toFreeze, u)
                  ELSE RemoveFirst(freezeWorklist, v) \o toFreeze
             /\ simplifyWorklist' = simplifyWorklist \o toSimplify \o added
  BY <1>4, <1>5, RemoveNothing
<1>9. toFreeze \in Seq(Nodes) /\ toSimplify \in Seq(Nodes) /\ added \in Seq(Nodes)
  <2>1. IsFiniteSet(Nodes) /\ {} \in SUBSET Nodes
    BY NodesFinite DEF Inv1
  <2>. QED  BY <1>2, <2>1, SetToSeqsType
<1>10. simplifyWorklist' \in Seq(Nodes)
  BY <1>8, <1>9, ConcatProperties DEF Inv1, TypeOK
<1>11. RemoveFirst(freezeWorklist, v) \o toFreeze \in Seq(Nodes)
  BY <1>9, RemoveFirstType, ConcatProperties DEF Inv1, TypeOK
<1>12. freezeWorklist' \in Seq(Nodes)
  BY <1>8, <1>11, RemoveFirstType
<1>. QED  BY <1>7, <1>10, <1>12

\* So does merging the two ends of a move.
LEMMA Inv1Combine ==
  ASSUME Inv1, NEW m \in worklistMoves, Combine(m)
  PROVE  Inv1'
<1>1. Nodes' = Nodes /\ Moves' = Moves
  BY DEF Combine, Nodes, Moves
<1>2. PICK u \in Nodes \ coalesced, v \in Nodes \ coalesced, moved \in SUBSET Nodes :
           /\ u = LowEnd(m) /\ v = HighEnd(m) /\ u < v
           /\ v \notin edges[u] /\ prefs[u] # {}
           /\ moved = {n \in edges[v] : n \notin coalesced \cup {v} /\ n # u}
           /\ coalesced' = coalesced \cup {v}
           /\ alias' = [alias EXCEPT ![v] = u]
           /\ rep' = [r \in Nodes |-> IF rep[r] = v THEN u ELSE rep[r]]
           /\ lac' = IF v \in lac THEN lac \cup {u} ELSE lac
           /\ edges' = MergedLinks(edges, u, moved)
           /\ prefs' = MergedLinks(prefs, u, prefs[v] \ {u})
           /\ UNCHANGED <<input, selectStack, colorVars, precolored, regToLoc, pc>>
  BY CombineFacts
<1>3. u \in Nat /\ v \in Nat /\ u # v
  BY <1>2, NodesFinite DEF Inv1
<1>4. IsLinks(Nodes, edges')
  BY <1>2, MergedLinksType DEF Inv1, TypeOK
<1>5. /\ IsLinks(Nodes, prefs')
      /\ \A n \in Nodes : prefs[n] \subseteq prefs'[n]
  <2>1. prefs[v] \ {u} \in SUBSET Nodes
    BY DEF Inv1, TypeOK, IsLinks
  <2>. QED  BY <1>2, <2>1, MergedLinksType DEF Inv1, TypeOK
<1>6. alias' \in [Nodes -> Nodes] /\ rep' \in [Nodes -> Nodes] /\ lac' \subseteq Nodes
      /\ coalesced' \subseteq Nodes
  BY <1>2 DEF Inv1, TypeOK
<1>7. /\ worklistMoves' \subseteq Moves /\ coalescedMoves' \subseteq Moves
      /\ UNCHANGED <<activeMoves, constrainedMoves, frozenMoves>>
  BY DEF Combine, PopMove, Inv1, TypeOK
<1>8. TypeOK'
  BY <1>1, <1>2, <1>4, <1>5, <1>6, <1>7, CombineWorklists DEF Inv1, TypeOK, colorVars
<1>9. AliasInv'
  <2>1. \A r \in Nodes \ coalesced' : rep'[r] = r
    BY <1>2, <1>3 DEF Inv1, AliasInv, TypeOK
  <2>2. \A r \in coalesced' : alias'[r] < r /\ rep'[r] = rep'[alias'[r]]
    <3>1. ASSUME NEW r \in coalesced
          PROVE  alias'[r] < r /\ rep'[r] = rep'[alias'[r]]
      <4>1. r # v /\ alias'[r] = alias[r] /\ alias[r] \in Nodes /\ r \in Nodes
        BY <1>2, <3>1 DEF Inv1, TypeOK
      <4>2. alias[r] < r /\ rep[r] = rep[alias[r]]
        BY <3>1 DEF Inv1, AliasInv
      <4>. QED  BY <1>2, <4>1, <4>2
    <3>2. rep[v] = v /\ rep[u] = u
      BY <1>2 DEF Inv1, AliasInv
    <3>3. alias'[v] = u /\ rep'[v] = u /\ rep'[u] = u
      BY <1>2, <3>2 DEF Inv1, TypeOK
    <3>. QED  BY <1>2, <3>1, <3>3
  <2>3. \A r \in Nodes : rep'[r] \notin coalesced'
    BY <1>2, <1>3 DEF Inv1, AliasInv, TypeOK
  <2>. QED  BY <1>1, <2>1, <2>2, <2>3 DEF AliasInv
<1>10. MoveInv'
  <2>1. ASSUME NEW a \in Nodes, input.graph.prefs[a] # {}
        PROVE  prefs'[a] # {} /\ prefs'[rep'[a]] # {}
    <3>1. prefs[a] # {} /\ prefs[rep[a]] # {} /\ rep[a] \in Nodes
      BY <2>1 DEF Inv1, MoveInv, TypeOK
    <3>2. rep'[a] = u \/ rep'[a] = rep[a]
      BY <1>2
    <3>. QED  BY <1>2, <1>5, <3>1, <3>2
  <2>. QED  BY <1>1, <1>2, <2>1 DEF MoveInv
<1>. QED  BY <1>8, <1>9, <1>10 DEF Inv1

\* So does giving up the moves of a register.
LEMMA Inv1FreezeMoves ==
  ASSUME Inv1, NEW r \in Nodes, NEW freezing \in Seq(Nodes),
         SimplifyAndFreezeMoves(r, freezing), spillWorklist' \in [Nodes -> Nat]
  PROVE  Inv1'
<1>1. Nodes' = Nodes /\ Moves' = Moves
  BY DEF SimplifyAndFreezeMoves, Nodes, Moves
<1> DEFINE ends == UNION {{m[1], m[2]} \ {r} : m \in ActiveMovesOf(r)}
<1>2. \A e \in ends : prefs[e] # {}
  <2>1. ActiveMovesOf(r) \subseteq Moves
    BY DEF ActiveMovesOf, Inv1, TypeOK
  <2>. QED  BY <2>1, MoveEnds
<1>3. Simplifiable(ends, edges, prefs, coalesced) = {}
  BY <1>2, NothingReady
<1> HIDE DEF ends
<1>4. PICK added \in SetToSeqs({}) : simplifyWorklist' = Append(simplifyWorklist, r) \o added
  BY <1>3 DEF SimplifyAndFreezeMoves, ends
<1>5. simplifyWorklist' \in Seq(Nodes)
  <2>1. Append(simplifyWorklist, r) \in Seq(Nodes)
    BY DEF Inv1, TypeOK
  <2>. QED  BY <1>4, <2>1, NoPermutation
<1>6. freezeWorklist' \in Seq(Nodes)
  BY <1>3, RemoveNothing DEF SimplifyAndFreezeMoves, ends
<1>7. activeMoves' \subseteq Moves /\ frozenMoves' \subseteq Moves
  BY DEF SimplifyAndFreezeMoves, ActiveMovesOf, Inv1, TypeOK
<1>8. TypeOK'
  BY <1>1, <1>5, <1>6, <1>7
     DEF SimplifyAndFreezeMoves, Inv1, TypeOK, graphVars, mergeVars, colorVars
<1>9. AliasInv' /\ MoveInv'
  BY <1>1 DEF SimplifyAndFreezeMoves, Inv1, AliasInv, MoveInv, graphVars, mergeVars
<1>. QED  BY <1>8, <1>9 DEF Inv1

\* The free colors are colors.
LEMMA FreeColorsType == FreeColors(Last(selectStack)) \in SUBSET (0..K-1)
BY DEF FreeColors

\* So does coloring the register on top of the select stack.
LEMMA Inv1Assign == Inv1 /\ AssignColor => Inv1'
<1> SUFFICES ASSUME Inv1, AssignColor PROVE Inv1'
  OBVIOUS
<1>1. Nodes' = Nodes /\ Moves' = Moves
  BY DEF AssignColor, Nodes, Moves
<1> DEFINE r == Last(selectStack)
<1>2. r \in Nodes /\ selectStack' \in Seq(Nodes)
  BY FrontLastType DEF AssignColor, Inv1, TypeOK
<1>3. FreeColors(r) # {} => Min(FreeColors(r)) \in 0..K-1
  <2>1. FreeColors(r) \in SUBSET (0..K-1) /\ FreeColors(r) \in SUBSET Nat
    BY FreeColorsType, ColorAssumption
  <2>. QED  BY <2>1, MinProperty
<1>4. \/ /\ FreeColors(r) # {}
         /\ colored' = colored \cup {r}
         /\ colors' = [colors EXCEPT ![r] = Min(FreeColors(r))]
         /\ UNCHANGED <<spilled, spillSlot, nextSpillSlot>>
      \/ /\ spilled' = spilled \cup {r}
         /\ spillSlot' = [spillSlot EXCEPT ![r] = nextSpillSlot]
         /\ nextSpillSlot' = nextSpillSlot + SlotSize
         /\ UNCHANGED <<colored, colors>>
  BY Zenon DEF AssignColor
<1> HIDE DEF r
<1>5. /\ colored' \subseteq Nodes /\ colors' \in [Nodes -> 0..K-1] /\ spilled' \subseteq Nodes
      /\ spillSlot' \in [Nodes -> Nat] /\ nextSpillSlot' \in Nat
  <2>1. /\ colored \subseteq Nodes /\ colors \in [Nodes -> 0..K-1] /\ spilled \subseteq Nodes
        /\ spillSlot \in [Nodes -> Nat] /\ nextSpillSlot \in Nat
    BY DEF Inv1, TypeOK
  <2>2. CASE /\ FreeColors(r) # {}
             /\ colored' = colored \cup {r}
             /\ colors' = [colors EXCEPT ![r] = Min(FreeColors(r))]
             /\ UNCHANGED <<spilled, spillSlot, nextSpillSlot>>
    <3> DEFINE c == Min(FreeColors(r))
    <3>1. c \in 0..K-1
      BY <1>3, <2>2
    <3>2. colors' = [colors EXCEPT ![r] = c]
      BY <2>2
    <3> HIDE DEF c
    <3>3. colors' \in [Nodes -> 0..K-1]
      BY <2>1, <3>1, <3>2
    <3>4. colored' \subseteq Nodes
      BY <1>2, <2>1, <2>2
    <3>5. spilled' = spilled /\ spillSlot' = spillSlot /\ nextSpillSlot' = nextSpillSlot
      BY <2>2
    <3>. QED  BY <2>1, <3>3, <3>4, <3>5
  <2>3. CASE /\ spilled' = spilled \cup {r}
             /\ spillSlot' = [spillSlot EXCEPT ![r] = nextSpillSlot]
             /\ nextSpillSlot' = nextSpillSlot + SlotSize
             /\ UNCHANGED <<colored, colors>>
    BY <1>2, <2>1, <2>3 DEF SlotSize
  <2>. QED  BY <1>4, <2>2, <2>3
<1>6. TypeOK'
  BY <1>1, <1>2, <1>5 DEF AssignColor, Inv1, TypeOK, graphVars, mergeVars, moveVars
<1>7. AliasInv' /\ MoveInv'
  BY <1>1 DEF AssignColor, Inv1, AliasInv, MoveInv, graphVars, mergeVars
<1>. QED  BY <1>6, <1>7 DEF Inv1

\* So does collecting the locations.
LEMMA Inv1Result == Inv1 /\ BuildResult => Inv1'
<1> SUFFICES ASSUME Inv1, BuildResult PROVE Inv1'
  OBVIOUS
<1>1. Nodes' = Nodes /\ Moves' = Moves
  BY DEF BuildResult, Nodes, Moves
<1>2. getAlias = rep /\ rep \in [Nodes -> Nodes] /\ coalesced \subseteq Nodes
  BY AliasIsRep DEF Inv1, TypeOK
<1> HIDE DEF getAlias
<1> DEFINE inherits == {r \in coalesced : /\ getAlias[r] \notin colored \cup spilled
                                          /\ getAlias[r] \in DOMAIN precolored}
           fixed == [r \in DOMAIN precolored \cup inherits |->
                       IF r \in inherits THEN precolored[getAlias[r]] ELSE precolored[r]]
<1>3. /\ colors' = [r \in Nodes |-> IF r \in Inherit(colored) THEN colors[getAlias[r]]
                                    ELSE colors[r]]
      /\ spillSlot' = [r \in Nodes |-> IF r \in Inherit(spilled \ colored)
                                       THEN spillSlot[getAlias[r]] ELSE spillSlot[r]]
      /\ colored' = colored \cup Inherit(colored)
      /\ spilled' = spilled \cup Inherit(spilled \ colored)
      /\ precolored' = fixed
      /\ DOMAIN regToLoc' = Nodes
      /\ pc' = "done"
  BY DEF BuildResult
<1>4. /\ colors' \in [Nodes -> 0..K-1] /\ spillSlot' \in [Nodes -> Nat]
      /\ colored' \subseteq Nodes /\ spilled' \subseteq Nodes
  BY <1>2, <1>3 DEF Inherit, Inv1, TypeOK
<1>5. DOMAIN precolored' \subseteq Nodes
  BY <1>2, <1>3 DEF Inv1, TypeOK
<1>6. \A p \in DOMAIN precolored' : precolored'[p].kind = "R" => precolored'[p].at \in 0..K-1
  BY <1>2, <1>3 DEF Inv1, TypeOK
<1>7. TypeOK'
  BY <1>1, <1>3, <1>4, <1>5, <1>6
     DEF BuildResult, Inv1, TypeOK, graphVars, mergeVars, moveVars
<1>8. AliasInv' /\ MoveInv'
  BY <1>1 DEF BuildResult, Inv1, AliasInv, MoveInv, graphVars, mergeVars
<1>. QED  BY <1>7, <1>8 DEF Inv1

\* The type-level invariant is inductive.
LEMMA Inv1Step == Inv1 /\ [Next]_vars => Inv1'
<1> SUFFICES ASSUME Inv1, [Next]_vars PROVE Inv1'
  OBVIOUS
<1>1. CASE Coalesce
  BY <1>1, Inv1KeepMove, Inv1Combine DEF Coalesce
<1>2. CASE Freeze
  <2>1. Last(freezeWorklist) \in Nodes /\ Front(freezeWorklist) \in Seq(Nodes)
    BY <1>2, FrontLastType DEF Freeze, Inv1, TypeOK
  <2>2. spillWorklist' \in [Nodes -> Nat]
    BY <1>2 DEF Freeze, Inv1, TypeOK
  <2>. QED  BY <1>2, <2>1, <2>2, Inv1FreezeMoves DEF Freeze
<1>3. CASE SelectSpill
  <2>1. PICK r \in Nodes : /\ spillWorklist' = Decrement(spillWorklist, {r})
                           /\ SimplifyAndFreezeMoves(r, freezeWorklist)
    BY <1>3 DEF SelectSpill, OnSpillWorklist
  <2>2. freezeWorklist \in Seq(Nodes) /\ spillWorklist' \in [Nodes -> Nat]
    BY <2>1, DecrementType DEF Inv1, TypeOK
  <2>. QED  BY <2>1, <2>2, Inv1FreezeMoves
<1>4. CASE LoopDone
  BY <1>4 DEF LoopDone, Inv1, TypeOK, AliasInv, MoveInv, Nodes, Moves, graphVars,
              moveVars, mergeVars, colorVars
<1>5. CASE UNCHANGED vars
  BY <1>5 DEF vars, Inv1, TypeOK, AliasInv, MoveInv, Nodes, Moves, graphVars,
              moveVars, mergeVars, colorVars
<1>. QED
  BY <1>1, <1>2, <1>3, <1>4, <1>5, Inv1Build, Inv1Simplify, Inv1Assign, Inv1Result
     DEF Next, Terminated

\* Type correctness of the allocator.
THEOREM TypeCorrect == Spec => []TypeOK
<1>1. Spec => []Inv1
  BY Inv1Init, Inv1Step, PTL DEF Spec
<1>2. Inv1 => TypeOK
  BY DEF Inv1
<1>. QED  BY <1>1, <1>2, PTL

-----------------------------------------------------------------------------
(***************************************************************************)
(* Only combine changes the graph or the aliases.                          *)
(***************************************************************************)
LEMMA GraphSteps ==
  ASSUME [Next]_vars, \A m \in worklistMoves : ~Combine(m)
  PROVE  UNCHANGED <<input, graphVars, mergeVars>>
<1>1. CASE Coalesce
  BY <1>1 DEF Coalesce, CoalesceSame, CoalesceConstrained, CoalesceDefer
<1>2. CASE Freeze \/ SelectSpill
  BY <1>2 DEF Freeze, SelectSpill, SimplifyAndFreezeMoves
<1>3. CASE BuildWorklists \/ Simplify \/ LoopDone
  BY <1>3 DEF BuildWorklists, Simplify, LoopDone
<1>4. CASE AssignColor \/ BuildResult
  BY <1>4 DEF AssignColor, BuildResult
<1>5. CASE UNCHANGED vars
  BY <1>5 DEF vars
<1>. QED  BY <1>1, <1>2, <1>3, <1>4, <1>5 DEF Next, Terminated

(***************************************************************************)
(* An edge of the graph as built links the representatives of its ends.    *)
(***************************************************************************)
EdgeInv == \A a, b \in Nodes : InputEdge(a, b) => rep[b] \in edges[rep[a]]

\* A merge passes every edge of the merged register on to its representative.
LEMMA EdgeInvCombine ==
  ASSUME Inv1, EdgeInv, NEW m \in worklistMoves, Combine(m)
  PROVE  EdgeInv'
<1>1. PICK u \in Nodes \ coalesced, v \in Nodes \ coalesced, moved \in SUBSET Nodes :
           /\ v \notin edges[u] /\ u < v
           /\ moved = {n \in edges[v] : n \notin coalesced \cup {v} /\ n # u}
           /\ rep' = [r \in Nodes |-> IF rep[r] = v THEN u ELSE rep[r]]
           /\ edges' = MergedLinks(edges, u, moved)
           /\ UNCHANGED input
  BY CombineFacts
<1>2. Nodes' = Nodes
  BY <1>1 DEF Nodes
<1>3. IsLinks(Nodes, edges) /\ u \in Nodes /\ v \in Nodes
  BY DEF Inv1, TypeOK
<1> SUFFICES ASSUME NEW a \in Nodes, NEW b \in Nodes, InputEdge(a, b)
             PROVE  rep'[b] \in edges'[rep'[a]]
  BY <1>1, <1>2 DEF EdgeInv, InputEdge
<1>4. /\ rep[a] \in Nodes \ coalesced /\ rep[b] \in Nodes \ coalesced
      /\ rep[b] \in edges[rep[a]] /\ rep[a] \in edges[rep[b]] /\ rep[a] # rep[b]
  BY <1>3 DEF Inv1, TypeOK, AliasInv, EdgeInv, IsLinks
<1>5. u \notin edges[v] /\ v \notin edges[u]
  BY <1>1, <1>3 DEF IsLinks
<1>6. CASE rep[a] = v
  <2>1. rep'[a] = u /\ rep'[b] = rep[b] /\ rep[b] \in moved
    BY <1>1, <1>4, <1>5, <1>6
  <2>. QED  BY <1>1, <1>3, <2>1 DEF MergedLinks
<1>7. CASE rep[b] = v
  <2>1. rep'[b] = u /\ rep'[a] = rep[a] /\ rep[a] \in moved /\ rep[a] # u
    BY <1>1, <1>4, <1>5, <1>7
  <2>. QED  BY <1>1, <1>4, <2>1 DEF MergedLinks
<1>8. CASE rep[a] # v /\ rep[b] # v
  <2>1. rep'[b] = rep[b] /\ rep'[a] = rep[a]
    BY <1>1, <1>8
  <2>. QED  BY <1>1, <1>4, <2>1 DEF MergedLinks
<1>. QED  BY <1>6, <1>7, <1>8

\* At first every register represents itself.
LEMMA EdgeInvInit == Init => EdgeInv
BY DEF Init, EdgeInv, InputEdge, Nodes

\* The invariant of edges between representatives is inductive.
LEMMA EdgeInvStep == Inv1 /\ EdgeInv /\ [Next]_vars => EdgeInv'
<1> SUFFICES ASSUME Inv1, EdgeInv, [Next]_vars PROVE EdgeInv'
  OBVIOUS
<1>1. CASE \E m \in worklistMoves : Combine(m)
  BY <1>1, EdgeInvCombine
<1>2. CASE UNCHANGED <<input, graphVars, mergeVars>>
  BY <1>2 DEF EdgeInv, InputEdge, Nodes, graphVars, mergeVars
<1>. QED  BY <1>1, <1>2, GraphSteps

(***************************************************************************)
(* Coalescing preserves interference: whatever merges combine makes, for   *)
(* every graph, the representatives of two registers that interfere are    *)
(* distinct and linked.                                                    *)
(***************************************************************************)
THEOREM CoalescingKeepsInterference == Spec => []InterferencePreserved
<1>1. Spec => [](Inv1 /\ EdgeInv)
  BY Inv1Init, Inv1Step, EdgeInvInit, EdgeInvStep, PTL DEF Spec
<1>2. Inv1 /\ EdgeInv => InterferencePreserved
  <2> SUFFICES ASSUME Inv1, EdgeInv PROVE InterferencePreserved
    OBVIOUS
  <2>1. getAlias = rep
    BY AliasIsRep DEF Inv1
  <2>. QED  BY <2>1 DEF EdgeInv, InterferencePreserved
<1>. QED  BY <1>1, <1>2, PTL

-----------------------------------------------------------------------------
(***************************************************************************)
(* Colors.  Precolored parameters start with distinct colors and nothing   *)
(* else is colored before the stack is popped, so merging never brings two *)
(* registers of one color together; popping colors a register differently  *)
(* from the neighbours it has by then.                                     *)
(***************************************************************************)
FixedApart ==
  \A p, q \in DOMAIN precolored :
    p # q /\ precolored[p].kind = "R" /\ precolored[q].kind = "R"
      => precolored[p].at # precolored[q].at

ColoredApart == \A p, q \in colored : p # q => colors[p] # colors[q]

NeighboursApart ==
  \A x, y \in Nodes \ coalesced :
    y \in edges[x] /\ x \in colored /\ y \in colored => colors[x] # colors[y]

ColorInv ==
  /\ pc = "build" => FixedApart /\ colored = {}
  /\ pc = "loop" => ColoredApart
  /\ NeighboursApart

\* At first nothing is colored.
LEMMA ColorInvInit == Init => ColorInv
<1> SUFFICES ASSUME Init PROVE ColorInv
  OBVIOUS
<1>1. IsInput(input)
  BY InputsAssumption DEF Init
<1>2. FixedApart
  <2> SUFFICES ASSUME NEW p \in DOMAIN precolored, NEW q \in DOMAIN precolored, p # q,
                      precolored[p].kind = "R", precolored[q].kind = "R"
               PROVE  precolored[p].at # precolored[q].at
    BY DEF FixedApart
  <2> DEFINE at(x) == CHOOSE i \in 1..Len(input.params) : input.params[i] = x
  <2>1. ASSUME NEW x \in DOMAIN precolored
        PROVE  /\ at(x) \in 1..Len(input.params) /\ input.params[at(x)] = x
               /\ precolored[x] = ArgLocation(at(x))
    <3>1. x \in ToSet(input.params) /\ precolored[x] = ArgLocation(at(x))
      BY DEF Init, PrecoloredParams
    <3>2. \E i \in 1..Len(input.params) : input.params[i] = x
      BY <1>1, <3>1 DEF ToSet, IsInput, IsAllocatable
    <3>. QED  BY <3>1, <3>2
  <2>2. ASSUME NEW i \in Nat, ArgLocation(i).kind = "R"
        PROVE  ArgLocation(i).at = i - 1
    BY <2>2 DEF ArgLocation, R, Incoming
  <2>3. Len(input.params) \in Nat
    BY <1>1 DEF IsInput, IsAllocatable
  <2> HIDE DEF at
  <2>. QED  BY <2>1, <2>2, <2>3
<1>. QED  BY <1>2 DEF Init, ColorInv, NeighboursApart

\* Building the worklists colors the parameters apart.
LEMMA ColorInvBuild == Inv1 /\ ColorInv /\ BuildWorklists => ColorInv'
<1> SUFFICES ASSUME Inv1, ColorInv, BuildWorklists PROVE ColorInv'
  OBVIOUS
<1>1. /\ colored' = {p \in DOMAIN precolored : precolored[p].kind = "R"}
      /\ \A p \in colored' : colors'[p] = precolored[p].at
      /\ pc' = "loop" /\ FixedApart /\ Nodes' = Nodes
      /\ UNCHANGED <<edges, coalesced>>
  BY DEF BuildWorklists, Inv1, TypeOK, ColorInv, Nodes, graphVars, mergeVars
<1>2. ColoredApart'
  BY <1>1 DEF ColoredApart, FixedApart
<1>3. NeighboursApart'
  BY <1>1, <1>2 DEF ColoredApart, NeighboursApart, Inv1, TypeOK, IsLinks
<1>. QED  BY <1>1, <1>2, <1>3 DEF ColorInv

\* A merge happens before any register is colored.
LEMMA ColorInvCombine ==
  ASSUME Inv1, ColorInv, NEW m \in worklistMoves, Combine(m)
  PROVE  ColorInv'
<1>1. pc = "loop" /\ ColoredApart
  BY DEF Combine, PopMove, ColorInv
<1>2. UNCHANGED <<input, colored, colors, pc>>
  BY DEF Combine, colorVars
<1>3. IsLinks(Nodes, edges)' /\ Nodes' = Nodes
  BY <1>2, Inv1Combine DEF Inv1, TypeOK, Nodes
<1>4. ColoredApart'
  BY <1>1, <1>2 DEF ColoredApart
<1>5. NeighboursApart'
  BY <1>3, <1>4 DEF ColoredApart, NeighboursApart, IsLinks
<1>. QED  BY <1>1, <1>2, <1>4, <1>5 DEF ColorInv

\* A register gets a color that none of its colored neighbours has.
LEMMA ColorInvAssign == Inv1 /\ ColorInv /\ AssignColor => ColorInv'
<1> SUFFICES ASSUME Inv1, ColorInv, AssignColor PROVE ColorInv'
  OBVIOUS
<1> DEFINE r == Last(selectStack)
           c == Min(FreeColors(r))
<1>1. /\ pc = "assign" /\ pc' = "assign" /\ Nodes' = Nodes
      /\ UNCHANGED <<edges, coalesced, alias, rep>>
  BY DEF AssignColor, Nodes, graphVars, mergeVars
<1>2. r \in Nodes
  BY FrontLastType DEF AssignColor, Inv1, TypeOK
<1>3. getAlias = rep
  BY AliasIsRep DEF Inv1
<1> HIDE DEF getAlias
<1>4. \/ /\ FreeColors(r) # {} /\ colored' = colored \cup {r}
         /\ colors' = [colors EXCEPT ![r] = c]
      \/ UNCHANGED <<colored, colors>>
  BY Zenon DEF AssignColor
<1>5. ASSUME FreeColors(r) # {}
      PROVE  c \in FreeColors(r)
  <2>1. FreeColors(r) \in SUBSET Nat
    BY FreeColorsType, ColorAssumption
  <2>. QED  BY <1>5, <2>1, MinProperty
<1> HIDE DEF r, c
<1>6. CASE FreeColors(r) # {} /\ colored' = colored \cup {r}
             /\ colors' = [colors EXCEPT ![r] = c]
  <2>1. ASSUME NEW y \in Nodes \ coalesced, y \in colored, y \in edges[r]
        PROVE  colors[y] # c
    <3>1. getAlias[y] = y
      BY <1>3 DEF Inv1, AliasInv
    <3>2. colors[y] \in UsedColors(r)
      BY <2>1, <3>1 DEF UsedColors
    <3>. QED  BY <1>5, <1>6, <3>2 DEF FreeColors
  <2>2. IsLinks(Nodes, edges) /\ colors \in [Nodes -> 0..K-1]
    BY DEF Inv1, TypeOK
  <2>3. colors'[r] = c /\ \A x \in Nodes \ {r} : colors'[x] = colors[x]
    BY <1>2, <1>6, <2>2
  <2> SUFFICES ASSUME NEW x \in Nodes \ coalesced, NEW y \in Nodes \ coalesced,
                      y \in edges[x], x \in colored', y \in colored'
               PROVE  colors'[x] # colors'[y]
    BY <1>1 DEF ColorInv, NeighboursApart
  <2>4. x # y /\ x \in edges[y]
    BY <2>2 DEF IsLinks
  <2>5. CASE x = r
    BY <1>6, <2>1, <2>3, <2>4, <2>5
  <2>6. CASE y = r
    BY <1>6, <2>1, <2>3, <2>4, <2>6
  <2>7. CASE x # r /\ y # r
    BY <1>6, <2>3, <2>7 DEF ColorInv, NeighboursApart
  <2>. QED  BY <2>5, <2>6, <2>7
<1>7. CASE UNCHANGED <<colored, colors>>
  BY <1>1, <1>7 DEF ColorInv, NeighboursApart
<1>. QED  BY <1>4, <1>6, <1>7

\* Collecting the locations colors nothing.
LEMMA ColorInvResult == Inv1 /\ ColorInv /\ BuildResult => ColorInv'
<1> SUFFICES ASSUME Inv1, ColorInv, BuildResult PROVE ColorInv'
  OBVIOUS
<1>1. /\ pc' = "done" /\ Nodes' = Nodes
      /\ UNCHANGED <<edges, coalesced>>
  BY DEF BuildResult, Nodes, graphVars, mergeVars
<1>2. \A x \in Nodes \ coalesced : (x \in colored' => x \in colored) /\ colors'[x] = colors[x]
  BY DEF BuildResult, Inherit
<1>. QED  BY <1>1, <1>2 DEF ColorInv, NeighboursApart

\* The invariant of colored registers is inductive.
LEMMA ColorInvStep == Inv1 /\ ColorInv /\ [Next]_vars => ColorInv'
<1> SUFFICES ASSUME Inv1, ColorInv, [Next]_vars PROVE ColorInv'
  OBVIOUS
<1>1. ASSUME UNCHANGED <<input, edges, coalesced, colored, colors, precolored>>,
             pc' = pc \/ (pc = "loop" /\ pc' = "assign")
      PROVE  ColorInv'
  BY <1>1 DEF ColorInv, FixedApart, ColoredApart, NeighboursApart, Nodes
<1>2. CASE Coalesce
  BY <1>1, <1>2, ColorInvCombine
     DEF Coalesce, CoalesceSame, CoalesceConstrained, CoalesceDefer, graphVars, mergeVars,
         colorVars
<1>3. CASE Freeze \/ SelectSpill
  BY <1>1, <1>3 DEF Freeze, SelectSpill, SimplifyAndFreezeMoves, graphVars, mergeVars, colorVars
<1>4. CASE Simplify
  BY <1>1, <1>4 DEF Simplify, graphVars, mergeVars, colorVars
<1>5. CASE LoopDone
  BY <1>1, <1>5 DEF LoopDone, graphVars, mergeVars, colorVars
<1>6. CASE UNCHANGED vars
  BY <1>1, <1>6 DEF vars, graphVars, mergeVars, colorVars
<1>. QED
  BY <1>2, <1>3, <1>4, <1>5, <1>6, ColorInvBuild, ColorInvAssign, ColorInvResult
     DEF Next, Terminated

(***************************************************************************)
(* The coloring is proper: no two interfering registers, through whatever  *)
(* merges, get the same color, for every graph and every number of colors. *)
(***************************************************************************)
THEOREM ColoringIsProper == Spec => []ColorsDiffer
<1>1. Spec => [](Inv1 /\ EdgeInv /\ ColorInv)
  BY Inv1Init, Inv1Step, EdgeInvInit, EdgeInvStep, ColorInvInit, ColorInvStep, PTL DEF Spec
<1>2. Inv1 /\ EdgeInv /\ ColorInv => ColorsDiffer
  <2> SUFFICES ASSUME Inv1, EdgeInv, ColorInv PROVE ColorsDiffer
    OBVIOUS
  <2>1. getAlias = rep
    BY AliasIsRep DEF Inv1
  <2> SUFFICES ASSUME NEW a \in Nodes, NEW b \in Nodes, InputEdge(a, b),
                      rep[a] \in colored, rep[b] \in colored
               PROVE  colors[rep[a]] # colors[rep[b]]
    BY <2>1 DEF ColorsDiffer
  <2>2. /\ rep[a] \in Nodes \ coalesced /\ rep[b] \in Nodes \ coalesced
        /\ rep[b] \in edges[rep[a]]
    BY DEF Inv1, TypeOK, AliasInv, EdgeInv
  <2>. QED  BY <2>2 DEF ColorInv, NeighboursApart
<1>. QED  BY <1>1, <1>2, PTL

-----------------------------------------------------------------------------
(***************************************************************************)
(* The worklists of the register allocator: no register gets lost between  *)
(* them, and what is simplified and merged while moves are left keeps the  *)
(* graph as colorable as it was (Briggs's theorem for this code).          *)
(***************************************************************************)

(***************************************************************************)
(* What the helpers on sequences do to the set of registers on a list.     *)
(***************************************************************************)
\* A permutation of a finite set lists all of it.
LEMMA SetToSeqsOnto ==
  ASSUME NEW S, IsFiniteSet(S), NEW f \in SetToSeqs(S)
  PROVE  ToSet(f) = S
<1> DEFINE n == Cardinality(S)
<1>1. n \in Nat
  BY FS_CardinalityType
<1>2. f \in [1..n -> S] /\ \A i, j \in 1..n : i # j => f[i] # f[j]
  BY DEF SetToSeqs
<1>3. Cardinality(1..n) = n
  BY <1>1, FS_Interval
<1> HIDE DEF n
<1>4. f \in Injection(1..n, S)
  BY <1>2 DEF Injection, IsInjective
<1>5. f \in Surjection(1..n, S)
  BY <1>3, <1>4, FS_Injection DEF n
<1>. QED  BY <1>2, <1>5 DEF Surjection, ToSet

\* Concatenating lists unites their entries.
LEMMA ToSetConcat ==
  ASSUME NEW T, NEW s \in Seq(T), NEW t \in Seq(T)
  PROVE  ToSet(s \o t) = ToSet(s) \cup ToSet(t)
<1>1. /\ Len(s \o t) = Len(s) + Len(t) /\ Len(s) \in Nat /\ Len(t) \in Nat
      /\ s \o t \in Seq(T)
      /\ \A i \in 1..(Len(s) + Len(t)) :
           (s \o t)[i] = IF i <= Len(s) THEN s[i] ELSE t[i - Len(s)]
  BY ConcatProperties
<1>2. ASSUME NEW x \in ToSet(s) PROVE x \in ToSet(s \o t)
  <2>1. PICK i \in 1..Len(s) : x = s[i]
    BY DEF ToSet
  <2>2. i \in 1..(Len(s) + Len(t)) /\ (s \o t)[i] = x
    BY <1>1, <2>1
  <2>. QED  BY <1>1, <2>2 DEF ToSet
<1>3. ASSUME NEW x \in ToSet(t) PROVE x \in ToSet(s \o t)
  <2>1. PICK i \in 1..Len(t) : x = t[i]
    BY DEF ToSet
  <2>2. i + Len(s) \in 1..(Len(s) + Len(t)) /\ (s \o t)[i + Len(s)] = x
    BY <1>1, <2>1
  <2>. QED  BY <1>1, <2>2 DEF ToSet
<1>4. ASSUME NEW x \in ToSet(s \o t) PROVE x \in ToSet(s) \cup ToSet(t)
  <2>1. PICK i \in 1..(Len(s) + Len(t)) : x = (s \o t)[i]
    BY <1>1 DEF ToSet
  <2>2. CASE i <= Len(s)
    <3>1. i \in DOMAIN s /\ x = s[i]
      BY <1>1, <2>1, <2>2
    <3>. QED  BY <3>1 DEF ToSet
  <2>3. CASE ~(i <= Len(s))
    <3>1. i - Len(s) \in DOMAIN t /\ x = t[i - Len(s)]
      BY <1>1, <2>1, <2>3
    <3>. QED  BY <3>1 DEF ToSet
  <2>. QED  BY <2>2, <2>3
<1>. QED  BY <1>2, <1>3, <1>4

\* Popping a list takes its last entry off.
LEMMA ToSetPop ==
  ASSUME NEW T, NEW s \in Seq(T), s # <<>>
  PROVE  ToSet(s) = ToSet(Front(s)) \cup {Last(s)}
<1>1. Len(s) \in Nat /\ Len(s) > 0
  OBVIOUS
<1>2. /\ DOMAIN Front(s) = 1..(Len(s) - 1)
      /\ \A i \in 1..(Len(s) - 1) : Front(s)[i] = s[i]
  BY <1>1 DEF Front
<1>3. 1..Len(s) = (1..(Len(s) - 1)) \cup {Len(s)}
  BY <1>1
<1>. QED  BY <1>2, <1>3 DEF ToSet, Last

\* Appending an entry adds it.
LEMMA ToSetAppend ==
  ASSUME NEW T, NEW s \in Seq(T), NEW e \in T
  PROVE  ToSet(Append(s, e)) = ToSet(s) \cup {e}
<1>1. /\ DOMAIN Append(s, e) = 1..(Len(s) + 1) /\ Len(s) \in Nat
      /\ \A i \in 1..Len(s) : Append(s, e)[i] = s[i]
      /\ Append(s, e)[Len(s) + 1] = e
  OBVIOUS
<1>2. 1..(Len(s) + 1) = (1..Len(s)) \cup {Len(s) + 1}
  BY <1>1
<1>. QED  BY <1>1, <1>2 DEF ToSet

\* Removing one occurrence of an entry keeps all other entries.
LEMMA ToSetRemoveFirst ==
  ASSUME NEW T, NEW s \in Seq(T), NEW e
  PROVE  ToSet(s) \ {e} \subseteq ToSet(RemoveFirst(s, e))
<1>1. CASE \E i \in 1..Len(s) : s[i] = e
  <2> DEFINE k == SelectInSeq(s, LAMBDA v : v = e)
  <2>1. {i \in 1..Len(s) : s[i] = e} \in SUBSET Nat /\ {i \in 1..Len(s) : s[i] = e} # {}
    BY <1>1
  <2>2. k \in 1..Len(s) /\ s[k] = e
    BY <2>1, MinProperty DEF SelectInSeq
  <2>3. RemoveFirst(s, e) = RemoveAt(s, k)
    BY <1>1 DEF RemoveFirst
  <2> HIDE DEF k
  <2> DEFINE before == SubSeq(s, 1, k - 1)
             after == SubSeq(s, k + 1, Len(s))
  <2>4. /\ before \in Seq(T) /\ after \in Seq(T)
        /\ Len(before) = k - 1 /\ \A i \in 1..(k - 1) : before[i] = s[i]
        /\ Len(after) = Len(s) - k /\ \A i \in 1..(Len(s) - k) : after[i] = s[k + i]
    BY <2>2
  <2>5. RemoveAt(s, k) = before \o after
    BY DEF RemoveAt
  <2> HIDE DEF before, after
  <2>6. ToSet(RemoveFirst(s, e)) = ToSet(before) \cup ToSet(after)
    BY <2>3, <2>4, <2>5, ToSetConcat
  <2>7. ASSUME NEW x \in ToSet(s), x # e PROVE x \in ToSet(before) \cup ToSet(after)
    <3>1. PICK i \in 1..Len(s) : x = s[i]
      BY DEF ToSet
    <3>2. CASE i < k
      <4>1. i \in DOMAIN before /\ before[i] = x
        BY <2>2, <2>4, <3>1, <3>2
      <4>. QED  BY <4>1 DEF ToSet
    <3>3. CASE i > k
      <4>1. i - k \in DOMAIN after /\ after[i - k] = x
        BY <2>2, <2>4, <3>1, <3>3
      <4>. QED  BY <4>1 DEF ToSet
    <3>4. i # k
      BY <2>2, <2>7, <3>1
    <3>. QED  BY <2>2, <3>1, <3>2, <3>3, <3>4
  <2>. QED  BY <2>6, <2>7
<1>2. CASE ~ \E i \in 1..Len(s) : s[i] = e
  BY <1>2 DEF RemoveFirst
<1>. QED  BY <1>1, <1>2

-----------------------------------------------------------------------------
(***************************************************************************)
(* No register gets lost.                                                  *)
(***************************************************************************)
Listed == OnSpillWorklist \cup ToSet(simplifyWorklist) \cup ToSet(freezeWorklist)

\* A register's count on the spill worklist only falls when it is hit.
LEMMA DecrementKeeps ==
  ASSUME NEW N, NEW count \in [N -> Nat], NEW S, NEW n \in N
  PROVE  /\ n \notin S => Decrement(count, S)[n] = count[n]
         /\ Decrement(count, S)[n] \in Nat
BY DEF Decrement

(***************************************************************************)
(* Where combine puts the registers whose degree falls below K, and what   *)
(* stays on the lists: only the merged register leaves, or moves to the    *)
(* spill worklist.                                                         *)
(***************************************************************************)
LEMMA CombineQueues ==
  ASSUME Inv1, NEW m \in worklistMoves, Combine(m)
  PROVE  LET u == LowEnd(m)
             v == HighEnd(m)
             moved == {n \in edges[v] : n \notin coalesced \cup {v} /\ n # u}
             hit == DroppedBelowK(moved, edges', coalesced' \cup ToSet(selectStack))
         IN  /\ hit \subseteq Nodes \ {u, v}
             /\ ToSet(simplifyWorklist') = {n \in hit : ~MoveRelated(n)}
             /\ (ToSet(freezeWorklist) \ {u, v}) \cup {n \in hit : MoveRelated(n)}
                  \subseteq ToSet(freezeWorklist')
             /\ u \in ToSet(freezeWorklist) =>
                  u \in ToSet(freezeWorklist') \/ spillWorklist'[u] > 0
             /\ spillWorklist'[u] >= spillWorklist[u]
             /\ \A n \in Nodes \ (hit \cup {u, v}) : spillWorklist'[n] = spillWorklist[n]
<1> DEFINE u == LowEnd(m)
           v == HighEnd(m)
           merged == coalesced \cup {v}
           moved == {n \in edges[v] : n \notin merged /\ n # u}
           links == MergedLinks(edges, u, moved)
           partners == MergedLinks(prefs, u, prefs[v] \ {u})
           hit == DroppedBelowK(moved, links, merged \cup ToSet(selectStack))
           high == Degree(links, merged \cup ToSet(selectStack), u) >= K
           spilling == Decrement(Decrement(spillWorklist, {v}), hit)
           moveless == Simplifiable({u}, links, partners, merged)
<1>1. /\ u \in Nodes /\ v \in Nodes /\ prefs[u] # {} /\ u # v
  BY MoveEnds DEF Inv1, TypeOK, Combine
<1>2. hit \subseteq Nodes \ {u, v}
  BY <1>1 DEF DroppedBelowK, Inv1, TypeOK, IsLinks
<1>3. partners[u] # {}
  BY <1>1 DEF MergedLinks
<1>4. moveless = {}
  BY <1>3, NothingReady
<1>5. /\ simplifyWorklist = <<>> /\ coalesced' = merged /\ edges' = links
      /\ spillWorklist' = [spilling EXCEPT ![u] = IF high THEN @ + 1 ELSE @]
      /\ \E toFreeze \in SetToSeqs({n \in hit : MoveRelated(n)}),
            toSimplify \in SetToSeqs({n \in hit : ~MoveRelated(n)}),
            added \in SetToSeqs(moveless) :
           LET freezing == RemoveFirst(freezeWorklist, v) \o toFreeze
           IN  /\ freezeWorklist' =
                    RemoveEach(IF high THEN RemoveFirst(freezing, u) ELSE freezing,
                               moveless)
               /\ simplifyWorklist' = simplifyWorklist \o toSimplify \o added
  BY Zenon DEF Combine, PopMove
<1>6. hit = DroppedBelowK({n \in edges[v] : n \notin coalesced \cup {v} /\ n # u},
                          edges', coalesced' \cup ToSet(selectStack))
  BY <1>5
<1> HIDE DEF u, v, hit, high, spilling, moveless, links, merged
<1>7. PICK toFreeze \in SetToSeqs({n \in hit : MoveRelated(n)}),
           toSimplify \in SetToSeqs({n \in hit : ~MoveRelated(n)}),
           added \in SetToSeqs({}) :
             /\ freezeWorklist' =
                  IF high THEN RemoveFirst(RemoveFirst(freezeWorklist, v) \o toFreeze, u)
                  ELSE RemoveFirst(freezeWorklist, v) \o toFreeze
             /\ simplifyWorklist' = simplifyWorklist \o toSimplify \o added
  BY <1>4, <1>5, RemoveNothing
<1>8. /\ toFreeze \in Seq(Nodes) /\ ToSet(toFreeze) = {n \in hit : MoveRelated(n)}
      /\ toSimplify \in Seq(Nodes) /\ ToSet(toSimplify) = {n \in hit : ~MoveRelated(n)}
  <2>1. IsFiniteSet(Nodes)
    BY NodesFinite DEF Inv1
  <2>2. /\ {n \in hit : MoveRelated(n)} \in SUBSET Nodes
        /\ {n \in hit : ~MoveRelated(n)} \in SUBSET Nodes
    BY <1>2
  <2>3. /\ IsFiniteSet({n \in hit : MoveRelated(n)})
        /\ IsFiniteSet({n \in hit : ~MoveRelated(n)})
    BY <2>1, <2>2, FS_Subset
  <2>. QED  BY <2>1, <2>2, <2>3, SetToSeqsType, SetToSeqsOnto
<1>9. ToSet(simplifyWorklist') = {n \in hit : ~MoveRelated(n)}
  <2>1. <<>> \o toSimplify = toSimplify
    BY <1>8, ConcatEmptySeq
  <2>2. simplifyWorklist' = toSimplify
    BY <1>5, <1>7, <1>8, <2>1, NoPermutation
  <2>. QED  BY <1>8, <2>2
<1> DEFINE kept == RemoveFirst(freezeWorklist, v)
           freezing == kept \o toFreeze
<1>10. kept \in Seq(Nodes) /\ ToSet(freezeWorklist) \ {v} \subseteq ToSet(kept)
  BY RemoveFirstType, ToSetRemoveFirst DEF Inv1, TypeOK
<1>11. freezeWorklist' = IF high THEN RemoveFirst(freezing, u) ELSE freezing
  BY <1>7
<1> HIDE DEF kept
<1>12. freezing \in Seq(Nodes) /\ ToSet(freezing) = ToSet(kept) \cup ToSet(toFreeze)
  BY <1>8, <1>10, ToSetConcat, ConcatProperties
<1> HIDE DEF freezing
<1>13. /\ ToSet(freezing) \ {u} \subseteq ToSet(freezeWorklist')
       /\ ~high => freezeWorklist' = freezing
  BY <1>11, <1>12, ToSetRemoveFirst
<1>14. /\ (ToSet(freezeWorklist) \ {u, v}) \cup {n \in hit : MoveRelated(n)}
            \subseteq ToSet(freezeWorklist')
       /\ u \in ToSet(freezeWorklist) => u \in ToSet(freezeWorklist') \/ high
  BY <1>1, <1>2, <1>8, <1>10, <1>12, <1>13
<1>15. /\ spilling \in [Nodes -> Nat] /\ spilling[u] = spillWorklist[u]
       /\ \A n \in Nodes \ (hit \cup {u, v}) : spilling[n] = spillWorklist[n]
  <2>1. spillWorklist \in [Nodes -> Nat]
    BY DEF Inv1, TypeOK
  <2>2. Decrement(spillWorklist, {v}) \in [Nodes -> Nat]
    BY <2>1, DecrementType
  <2>3. u \notin hit
    BY <1>2
  <2>. QED  BY <1>1, <2>1, <2>2, <2>3, DecrementType, DecrementKeeps DEF spilling
<1>16. /\ spillWorklist'[u] = IF high THEN spilling[u] + 1 ELSE spilling[u]
       /\ \A n \in Nodes \ {u} : spillWorklist'[n] = spilling[n]
  BY <1>1, <1>5, <1>15
<1>17. /\ spillWorklist'[u] >= spillWorklist[u]
       /\ high => spillWorklist'[u] > 0
  <2>1. spilling[u] \in Nat
    BY <1>1, <1>15
  <2>. QED  BY <1>15, <1>16, <2>1
<1>18. \A n \in Nodes \ (hit \cup {u, v}) : spillWorklist'[n] = spillWorklist[n]
  BY <1>15, <1>16
<1>. QED  BY <1>2, <1>6, <1>9, <1>14, <1>17, <1>18 DEF u, v

(***************************************************************************)
(* What addToWorklist and freezeMovesFor leave of the lists: the registers *)
(* they look at are all in moves, so nothing else is moved.                *)
(***************************************************************************)
LEMMA KeepMoveLists ==
  ASSUME Inv1, NEW m \in worklistMoves,
         CoalesceSame(m) \/ CoalesceConstrained(m) \/ CoalesceDefer(m)
  PROVE  UNCHANGED <<simplifyWorklist, freezeWorklist, spillWorklist, selectStack, input,
                     graphVars, mergeVars, colorVars, precolored, regToLoc, pc>>
<1>1. m \in Moves
  BY DEF Inv1, TypeOK
<1>2. /\ prefs[LowEnd(m)] # {} /\ prefs[HighEnd(m)] # {}
  BY <1>1, MoveEnds
<1>3. ASSUME NEW S \in SUBSET {LowEnd(m), HighEnd(m)}, AddToWorklists(S)
      PROVE  freezeWorklist' = freezeWorklist /\ simplifyWorklist' = simplifyWorklist
  <2>1. Simplifiable(S, edges, prefs, coalesced) = {}
    BY <1>2, NothingReady
  <2>2. PICK added \in SetToSeqs({}) : simplifyWorklist' = simplifyWorklist \o added
    BY <1>3, <2>1 DEF AddToWorklists
  <2>3. freezeWorklist' = freezeWorklist
    BY <1>3, <2>1, RemoveNothing DEF AddToWorklists
  <2>. QED  BY <2>2, <2>3, NoPermutation DEF Inv1, TypeOK
<1>. QED  BY <1>3 DEF CoalesceSame, CoalesceConstrained, CoalesceDefer

LEMMA FreezeMovesLists ==
  ASSUME Inv1, NEW r \in Nodes, NEW freezing, SimplifyAndFreezeMoves(r, freezing)
  PROVE  /\ simplifyWorklist' = Append(simplifyWorklist, r)
         /\ freezeWorklist' = freezing
<1> DEFINE ends == UNION {{m[1], m[2]} \ {r} : m \in ActiveMovesOf(r)}
<1>1. \A e \in ends : prefs[e] # {}
  <2>1. ActiveMovesOf(r) \subseteq Moves
    BY DEF ActiveMovesOf, Inv1, TypeOK
  <2>. QED  BY <2>1, MoveEnds
<1>2. Simplifiable(ends, edges, prefs, coalesced) = {}
  BY <1>1, NothingReady
<1> HIDE DEF ends
<1>3. PICK added \in SetToSeqs({}) : simplifyWorklist' = Append(simplifyWorklist, r) \o added
  BY <1>2 DEF SimplifyAndFreezeMoves, ends
<1>4. Append(simplifyWorklist, r) \in Seq(Nodes)
  BY DEF Inv1, TypeOK
<1>5. freezeWorklist' = freezing
  BY <1>2, RemoveNothing DEF SimplifyAndFreezeMoves, ends
<1>. QED  BY <1>3, <1>4, <1>5, NoPermutation

\* Where simplify puts the registers whose degree falls below K.
LEMMA SimplifyLists ==
  ASSUME Inv1, Simplify
  PROVE  LET r == Last(simplifyWorklist)
             hit == DroppedBelowK(edges[r], edges,
                                  coalesced \cup ToSet(selectStack) \cup {r})
         IN  /\ r \in Nodes /\ hit \subseteq Nodes
             /\ selectStack' = Append(selectStack, r)
             /\ ToSet(selectStack') = ToSet(selectStack) \cup {r}
             /\ spillWorklist' = Decrement(spillWorklist, hit)
             /\ ToSet(simplifyWorklist) = ToSet(Front(simplifyWorklist)) \cup {r}
             /\ ToSet(simplifyWorklist') =
                  ToSet(Front(simplifyWorklist)) \cup {n \in hit : ~MoveRelated(n)}
             /\ ToSet(freezeWorklist') =
                  ToSet(freezeWorklist) \cup {n \in hit : MoveRelated(n)}
<1> DEFINE r == Last(simplifyWorklist)
           hit == DroppedBelowK(edges[r], edges, coalesced \cup ToSet(selectStack) \cup {r})
<1>1. IsFiniteSet(Nodes)
  BY NodesFinite DEF Inv1
<1>2. r \in Nodes /\ Front(simplifyWorklist) \in Seq(Nodes)
  BY FrontLastType DEF Simplify, Inv1, TypeOK
<1>3. hit \subseteq Nodes
  BY <1>2 DEF DroppedBelowK, Inv1, TypeOK, IsLinks
<1>4. selectStack' = Append(selectStack, r) /\ spillWorklist' = Decrement(spillWorklist, hit)
  BY DEF Simplify
<1>5. ToSet(simplifyWorklist) = ToSet(Front(simplifyWorklist)) \cup {r}
  BY ToSetPop DEF Simplify, Inv1, TypeOK
<1> HIDE DEF hit, r
<1>6. PICK toFreeze \in SetToSeqs({n \in hit : MoveRelated(n)}),
           toSimplify \in SetToSeqs({n \in hit : ~MoveRelated(n)}) :
        /\ freezeWorklist' = freezeWorklist \o toFreeze
        /\ simplifyWorklist' = Front(simplifyWorklist) \o toSimplify
  BY DEF Simplify, hit, r
<1>7. /\ toFreeze \in Seq(Nodes) /\ ToSet(toFreeze) = {n \in hit : MoveRelated(n)}
      /\ toSimplify \in Seq(Nodes) /\ ToSet(toSimplify) = {n \in hit : ~MoveRelated(n)}
  <2>1. /\ {n \in hit : MoveRelated(n)} \in SUBSET Nodes
        /\ {n \in hit : ~MoveRelated(n)} \in SUBSET Nodes
    BY <1>3
  <2>2. /\ IsFiniteSet({n \in hit : MoveRelated(n)})
        /\ IsFiniteSet({n \in hit : ~MoveRelated(n)})
    BY <1>1, <2>1, FS_Subset
  <2>. QED  BY <1>1, <2>1, <2>2, SetToSeqsType, SetToSeqsOnto
<1>8. ToSet(simplifyWorklist') =
        ToSet(Front(simplifyWorklist)) \cup {n \in hit : ~MoveRelated(n)}
  BY <1>2, <1>6, <1>7, ToSetConcat
<1>9. ToSet(freezeWorklist') = ToSet(freezeWorklist) \cup {n \in hit : MoveRelated(n)}
  <2>1. freezeWorklist \in Seq(Nodes)
    BY DEF Inv1, TypeOK
  <2>. QED  BY <1>6, <1>7, <2>1, ToSetConcat
<1>10. ToSet(selectStack') = ToSet(selectStack) \cup {r}
  BY <1>2, <1>4, ToSetAppend DEF Inv1, TypeOK
<1>. QED  BY <1>2, <1>3, <1>4, <1>5, <1>8, <1>9, <1>10 DEF hit, r

\* Every register without a fixed location starts out on a list.
LEMMA ForgottenBuild == Inv1 /\ BuildWorklists => NoRegisterForgotten'
<1> SUFFICES ASSUME Inv1, BuildWorklists PROVE NoRegisterForgotten'
  OBVIOUS
<1> DEFINE free == Nodes \ DOMAIN precolored
           high == {r \in free : Degree(edges, {}, r) >= K}
           low == free \ high
<1>1. /\ spillWorklist' = [r \in Nodes |-> IF r \in high THEN 1 ELSE 0]
      /\ freezeWorklist' \in SetToSeqs({r \in low : MoveRelated(r)})
      /\ simplifyWorklist' \in SetToSeqs({r \in low : ~MoveRelated(r)})
      /\ UNCHANGED <<input, precolored, coalesced, selectStack>>
  BY DEF BuildWorklists, mergeVars
<1> HIDE DEF high
<1>2. /\ IsFiniteSet({r \in low : MoveRelated(r)})
      /\ IsFiniteSet({r \in low : ~MoveRelated(r)})
  BY NodesFinite, FS_Subset DEF Inv1
<1>3. /\ ToSet(freezeWorklist') = {r \in low : MoveRelated(r)}
      /\ ToSet(simplifyWorklist') = {r \in low : ~MoveRelated(r)}
  BY <1>1, <1>2, SetToSeqsOnto
<1>4. Nodes' = Nodes /\ high \subseteq Nodes
  BY <1>1 DEF Nodes, high
<1>5. OnSpillWorklist' = high
  BY <1>1, <1>4 DEF OnSpillWorklist
<1>6. /\ DOMAIN precolored \subseteq Nodes /\ coalesced \subseteq Nodes
      /\ ToSet(selectStack) \subseteq Nodes
  BY DEF Inv1, TypeOK, ToSet
<1>. QED  BY <1>1, <1>3, <1>4, <1>5, <1>6 DEF NoRegisterForgotten, Removed

\* The sets of registers on the lists hold nodes only.
LEMMA ListedNodes ==
  ASSUME Inv1
  PROVE  /\ Listed \subseteq Nodes /\ ToSet(selectStack) \subseteq Nodes
         /\ Removed \subseteq Nodes
BY DEF Inv1, TypeOK, ToSet, Listed, OnSpillWorklist, Removed

(***************************************************************************)
(* The lists never lose a register.                                        *)
(***************************************************************************)
LEMMA ForgottenStep == Inv1 /\ NoRegisterForgotten /\ [Next]_vars => NoRegisterForgotten'
<1> SUFFICES ASSUME Inv1, NoRegisterForgotten, [Next]_vars PROVE NoRegisterForgotten'
  OBVIOUS
<1> DEFINE Found == Nodes = DOMAIN precolored \cup Removed \cup Listed
<1>1. Inv1'
  BY Inv1Step
<1>2. ASSUME pc = "loop", pc' = "loop", input' = input, precolored' = precolored,
             \A n \in Removed \cup Listed : n \in Removed' \cup Listed'
      PROVE  NoRegisterForgotten'
  <2>1. Nodes' = Nodes
    BY <1>2 DEF Nodes
  <2>2. /\ Listed' \subseteq Nodes' /\ Removed' \subseteq Nodes'
        /\ (DOMAIN precolored)' \subseteq Nodes'
    <3>1. (Listed \subseteq Nodes /\ Removed \subseteq Nodes)'
      BY <1>1, ListedNodes DEF Inv1, TypeOK, ToSet, Listed, OnSpillWorklist, Removed
    <3>. QED  BY <1>1, <3>1 DEF Inv1, TypeOK
  <2>3. Found
    BY <1>2 DEF NoRegisterForgotten, Listed
  <2>4. Found'
    BY <1>2, <2>1, <2>2, <2>3
  <2>. QED  BY <2>4 DEF NoRegisterForgotten, Listed
<1>3. CASE BuildWorklists
  BY <1>3, ForgottenBuild
<1>4. CASE Simplify
  <2> DEFINE r == Last(simplifyWorklist)
             hit == DroppedBelowK(edges[r], edges, coalesced \cup ToSet(selectStack) \cup {r})
  <2>1. /\ r \in Nodes /\ hit \subseteq Nodes
        /\ ToSet(selectStack') = ToSet(selectStack) \cup {r}
        /\ spillWorklist' = Decrement(spillWorklist, hit)
        /\ ToSet(simplifyWorklist) = ToSet(Front(simplifyWorklist)) \cup {r}
        /\ ToSet(simplifyWorklist') =
             ToSet(Front(simplifyWorklist)) \cup {n \in hit : ~MoveRelated(n)}
        /\ ToSet(freezeWorklist') = ToSet(freezeWorklist) \cup {n \in hit : MoveRelated(n)}
    BY <1>4, SimplifyLists
  <2>2. pc = "loop" /\ pc' = "loop" /\ UNCHANGED <<input, precolored, coalesced>>
    BY <1>4 DEF Simplify, mergeVars
  <2> HIDE DEF r, hit
  <2>3. \A n \in OnSpillWorklist \ hit : n \in OnSpillWorklist'
    <3>1. ASSUME NEW n \in OnSpillWorklist \ hit PROVE n \in OnSpillWorklist'
      <4>1. n \in Nodes /\ spillWorklist[n] > 0 /\ spillWorklist \in [Nodes -> Nat]
        BY DEF OnSpillWorklist, Inv1, TypeOK
      <4>2. spillWorklist'[n] = spillWorklist[n]
        BY <2>1, <4>1, DecrementKeeps
      <4>. QED  BY <2>2, <4>1, <4>2 DEF OnSpillWorklist, Nodes
    <3>. QED  BY <3>1
  <2>4. \A n \in Removed \cup Listed : n \in Removed' \cup Listed'
    BY <2>1, <2>2, <2>3 DEF Removed, Listed
  <2>. QED  BY <1>2, <2>2, <2>4
<1>5. CASE Coalesce
  <2>1. PICK m \in worklistMoves : \/ CoalesceSame(m) \/ CoalesceConstrained(m)
                                   \/ Combine(m) \/ CoalesceDefer(m)
    BY <1>5 DEF Coalesce
  <2>2. CASE Combine(m)
    <3> DEFINE u == LowEnd(m)
               v == HighEnd(m)
               moved == {n \in edges[v] : n \notin coalesced \cup {v} /\ n # u}
               hit == DroppedBelowK(moved, edges', coalesced' \cup ToSet(selectStack))
    <3>1. /\ hit \subseteq Nodes \ {u, v}
          /\ ToSet(simplifyWorklist') = {n \in hit : ~MoveRelated(n)}
          /\ (ToSet(freezeWorklist) \ {u, v}) \cup {n \in hit : MoveRelated(n)}
               \subseteq ToSet(freezeWorklist')
          /\ u \in ToSet(freezeWorklist) =>
               u \in ToSet(freezeWorklist') \/ spillWorklist'[u] > 0
          /\ spillWorklist'[u] >= spillWorklist[u]
          /\ \A n \in Nodes \ (hit \cup {u, v}) : spillWorklist'[n] = spillWorklist[n]
      BY <2>2, CombineQueues
    <3>2. u \in Nodes /\ v \in Nodes
      BY MoveEnds DEF Inv1, TypeOK
    <3>3. /\ pc = "loop" /\ pc' = "loop" /\ simplifyWorklist = <<>>
          /\ UNCHANGED <<input, precolored, selectStack>>
          /\ coalesced' = coalesced \cup {v}
      BY <2>2 DEF Combine, PopMove
    <3> HIDE DEF u, v, hit
    <3>4. Nodes' = Nodes
      BY <3>3 DEF Nodes
    <3>5. /\ spillWorklist'[u] \in Nat /\ spillWorklist[u] \in Nat
      BY <1>1, <3>2, <3>4 DEF Inv1, TypeOK
    <3>6. ToSet(simplifyWorklist) = {}
      BY <3>3 DEF ToSet
    <3>7. \A n \in OnSpillWorklist \ (hit \cup {v}) : n \in OnSpillWorklist'
      BY <3>1, <3>2, <3>4, <3>5 DEF OnSpillWorklist
    <3>8. u \in ToSet(freezeWorklist) => u \in ToSet(freezeWorklist') \cup OnSpillWorklist'
      BY <3>1, <3>2, <3>4 DEF OnSpillWorklist
    <3>9. hit \subseteq Listed'
      BY <3>1 DEF Listed
    <3>10. \A n \in Removed \cup Listed : n \in Removed' \cup Listed'
      BY <3>1, <3>3, <3>6, <3>7, <3>8, <3>9 DEF Removed, Listed
    <3>. QED  BY <1>2, <3>3, <3>10
  <2>3. CASE CoalesceSame(m) \/ CoalesceConstrained(m) \/ CoalesceDefer(m)
    <3>1. UNCHANGED <<simplifyWorklist, freezeWorklist, spillWorklist, selectStack, input,
                      coalesced, precolored, pc>>
      BY <2>3, KeepMoveLists DEF mergeVars
    <3>2. pc = "loop"
      BY <2>3 DEF CoalesceSame, CoalesceConstrained, CoalesceDefer, PopMove
    <3>3. Removed' = Removed /\ Listed' = Listed
      BY <3>1 DEF Removed, Listed, OnSpillWorklist, Nodes
    <3>. QED  BY <1>2, <3>1, <3>2, <3>3
  <2>. QED  BY <2>1, <2>2, <2>3
<1>6. CASE Freeze
  <2> DEFINE r == Last(freezeWorklist)
  <2>1. /\ pc = "loop" /\ pc' = "loop" /\ freezeWorklist # <<>>
        /\ UNCHANGED <<input, precolored, coalesced, selectStack, spillWorklist>>
        /\ SimplifyAndFreezeMoves(r, Front(freezeWorklist))
    BY <1>6 DEF Freeze, SimplifyAndFreezeMoves, mergeVars
  <2>2. r \in Nodes /\ ToSet(freezeWorklist) = ToSet(Front(freezeWorklist)) \cup {r}
    BY <2>1, FrontLastType, ToSetPop DEF Inv1, TypeOK
  <2> HIDE DEF r
  <2>3. /\ ToSet(simplifyWorklist') = ToSet(simplifyWorklist) \cup {r}
        /\ freezeWorklist' = Front(freezeWorklist)
    <3>1. simplifyWorklist \in Seq(Nodes)
      BY DEF Inv1, TypeOK
    <3>2. /\ simplifyWorklist' = Append(simplifyWorklist, r)
          /\ freezeWorklist' = Front(freezeWorklist)
      BY <2>1, <2>2, FreezeMovesLists
    <3>. QED  BY <2>2, <3>1, <3>2, ToSetAppend
  <2>4. OnSpillWorklist' = OnSpillWorklist
    BY <2>1 DEF OnSpillWorklist, Nodes
  <2>5. \A n \in Removed \cup Listed : n \in Removed' \cup Listed'
    BY <2>1, <2>2, <2>3, <2>4 DEF Removed, Listed
  <2>. QED  BY <1>2, <2>1, <2>5
<1>7. CASE SelectSpill
  <2>1. PICK r \in OnSpillWorklist : /\ spillWorklist' = Decrement(spillWorklist, {r})
                                     /\ SimplifyAndFreezeMoves(r, freezeWorklist)
    BY <1>7 DEF SelectSpill
  <2>2. /\ pc = "loop" /\ pc' = "loop"
        /\ UNCHANGED <<input, precolored, coalesced, selectStack>>
    BY <1>7, <2>1 DEF SelectSpill, SimplifyAndFreezeMoves, mergeVars
  <2>3. r \in Nodes /\ Nodes' = Nodes /\ spillWorklist \in [Nodes -> Nat]
    BY <2>2 DEF OnSpillWorklist, Nodes, Inv1, TypeOK
  <2>4. /\ ToSet(simplifyWorklist') = ToSet(simplifyWorklist) \cup {r}
        /\ freezeWorklist' = freezeWorklist
    <3>1. simplifyWorklist \in Seq(Nodes)
      BY DEF Inv1, TypeOK
    <3>2. /\ simplifyWorklist' = Append(simplifyWorklist, r)
          /\ freezeWorklist' = freezeWorklist
      BY <2>1, <2>3, FreezeMovesLists
    <3>. QED  BY <2>3, <3>1, <3>2, ToSetAppend
  <2>5. \A n \in OnSpillWorklist \ {r} : n \in OnSpillWorklist'
    BY <2>1, <2>3, DecrementKeeps DEF OnSpillWorklist
  <2>6. \A n \in Removed \cup Listed : n \in Removed' \cup Listed'
    BY <2>2, <2>4, <2>5 DEF Removed, Listed
  <2>. QED  BY <1>2, <2>2, <2>6
<1>8. CASE LoopDone \/ AssignColor \/ BuildResult
  BY <1>8 DEF LoopDone, AssignColor, BuildResult, NoRegisterForgotten
<1>9. CASE UNCHANGED vars
  BY <1>9 DEF vars, mergeVars, NoRegisterForgotten, Removed, OnSpillWorklist, Nodes
<1>. QED  BY <1>3, <1>4, <1>5, <1>6, <1>7, <1>8, <1>9 DEF Next, Terminated

(***************************************************************************)
(* No register is forgotten, for every graph: whatever simplify, combine,  *)
(* freeze and selectSpill move between the worklists, each register        *)
(* without a fixed location stays on one of them, on the stack, or merged. *)
(***************************************************************************)
THEOREM EveryRegisterIsKept == Spec => []NoRegisterForgotten
<1>1. Init => NoRegisterForgotten
  BY DEF Init, NoRegisterForgotten
<1>. QED  BY <1>1, Inv1Init, Inv1Step, ForgottenStep, PTL DEF Spec

-----------------------------------------------------------------------------
(***************************************************************************)
(* Briggs's theorem.  While moves are left nothing has been spilled or     *)
(* frozen yet: whatever is on the simplify worklist or on the stack is in  *)
(* no move and had fewer than K neighbours left, and merging does not give *)
(* it more.                                                                *)
(***************************************************************************)
Below(i) == {selectStack[j] : j \in 1..(i - 1)}

StackLow ==
  \A i \in 1..Len(selectStack) :
    Cardinality(edges[selectStack[i]] \ (coalesced \cup Below(i))) < K

Moveless == \A n \in ToSet(simplifyWorklist) \cup ToSet(selectStack) : prefs[n] = {}

SimplifyLow == \A n \in ToSet(simplifyWorklist) : Degree(edges, Removed, n) < K

BriggsInv ==
  /\ pc = "build" => selectStack = <<>> /\ coalesced = {}
  /\ pc = "loop" /\ worklistMoves # {} => Moveless /\ SimplifyLow /\ StackLow

\* A part of a small set is small.
LEMMA SmallPart ==
  ASSUME NEW B, IsFiniteSet(B), NEW A \in SUBSET B
  PROVE  /\ Cardinality(A) \in Nat /\ Cardinality(B) \in Nat
         /\ Cardinality(A) <= Cardinality(B)
BY FS_Subset, FS_CardinalityType

\* Replacing an element does not make a set larger.
LEMMA SwapElement ==
  ASSUME NEW B, IsFiniteSet(B), NEW u, NEW v \in B, NEW A \in SUBSET ((B \ {v}) \cup {u})
  PROVE  /\ Cardinality(A) \in Nat /\ Cardinality(B) \in Nat
         /\ Cardinality(A) <= Cardinality(B)
<1>1. /\ IsFiniteSet(B \ {v}) /\ Cardinality(B \ {v}) = Cardinality(B) - 1
      /\ Cardinality(B) \in Nat
  BY FS_RemoveElement, FS_CardinalityType
<1>2. /\ IsFiniteSet((B \ {v}) \cup {u})
      /\ Cardinality((B \ {v}) \cup {u}) <= Cardinality(B)
  <2> DEFINE C == B \ {v}
  <2>1. /\ IsFiniteSet(C \cup {u})
        /\ Cardinality(C \cup {u}) = IF u \in C THEN Cardinality(C) ELSE Cardinality(C) + 1
    BY <1>1, FS_AddElement
  <2>. QED  BY <1>1, <2>1
<1>3. /\ Cardinality(A) \in Nat /\ Cardinality((B \ {v}) \cup {u}) \in Nat
      /\ Cardinality(A) <= Cardinality((B \ {v}) \cup {u})
  BY <1>2, SmallPart
<1>. QED  BY <1>1, <1>2, <1>3

(***************************************************************************)
(* A merge gives no other register more neighbours: a neighbour of v loses *)
(* v and has u instead.                                                    *)
(***************************************************************************)
LEMMA MergedDegree ==
  ASSUME Inv1, NEW m \in worklistMoves, Combine(m),
         NEW gone \in SUBSET Nodes, coalesced \subseteq gone, HighEnd(m) \notin gone,
         NEW w \in Nodes, w # LowEnd(m)
  PROVE  /\ Cardinality(edges'[w] \ (gone \cup {HighEnd(m)})) \in Nat
         /\ Cardinality(edges[w] \ gone) \in Nat
         /\ Cardinality(edges'[w] \ (gone \cup {HighEnd(m)})) <= Cardinality(edges[w] \ gone)
<1>1. PICK u \in Nodes \ coalesced, v \in Nodes \ coalesced, moved \in SUBSET Nodes :
           /\ u = LowEnd(m) /\ v = HighEnd(m)
           /\ moved = {n \in edges[v] : n \notin coalesced \cup {v} /\ n # u}
           /\ coalesced' = coalesced \cup {v}
           /\ edges' = MergedLinks(edges, u, moved)
           /\ selectStack' = selectStack /\ input' = input
  BY CombineFacts
<1>2. IsLinks(Nodes, edges) /\ IsFiniteSet(Nodes)
  BY NodesFinite DEF Inv1, TypeOK
<1>3. edges[w] \ gone \in SUBSET Nodes /\ IsFiniteSet(edges[w] \ gone)
  BY <1>2, FS_Subset DEF IsLinks
<1>4. CASE w \in moved
  <2>1. v \in edges[w] \ gone
    BY <1>1, <1>2, <1>4 DEF IsLinks
  <2>2. edges'[w] = edges[w] \cup {u}
    BY <1>1, <1>4 DEF MergedLinks
  <2>3. edges'[w] \ (gone \cup {v}) \in SUBSET (((edges[w] \ gone) \ {v}) \cup {u})
    BY <2>2
  <2> DEFINE B == edges[w] \ gone
             A == edges'[w] \ (gone \cup {v})
  <2>4. v \in B /\ A \in SUBSET ((B \ {v}) \cup {u}) /\ IsFiniteSet(B)
    BY <1>3, <2>1, <2>3
  <2> HIDE DEF A, B
  <2>5. /\ Cardinality(A) \in Nat /\ Cardinality(B) \in Nat
        /\ Cardinality(A) <= Cardinality(B)
    BY <2>4, SwapElement
  <2>. QED  BY <1>1, <2>5 DEF A, B
<1>5. CASE w \notin moved
  <2>1. edges'[w] = edges[w]
    BY <1>1, <1>5 DEF MergedLinks
  <2>2. edges'[w] \ (gone \cup {v}) \in SUBSET (edges[w] \ gone)
    BY <2>1
  <2>. QED  BY <1>1, <1>3, <2>2, SmallPart
<1>. QED  BY <1>4, <1>5

\* The ends of a move that is merged are not on the stack.
LEMMA MergedNotRemoved ==
  ASSUME Inv1, BriggsInv, NEW m \in worklistMoves, Combine(m)
  PROVE  /\ LowEnd(m) \in Nodes \ Removed /\ HighEnd(m) \in Nodes \ Removed
         /\ Moveless /\ SimplifyLow /\ StackLow
<1>1. pc = "loop" /\ m \in Moves
  BY DEF Combine, PopMove, Inv1, TypeOK
<1>2. Moveless /\ SimplifyLow /\ StackLow
  BY <1>1 DEF BriggsInv
<1>. QED  BY <1>1, <1>2, MoveEnds DEF Moveless, Removed

\* Merging keeps the registers on the stack removable.
LEMMA MergedStackLow ==
  ASSUME Inv1, BriggsInv, NEW m \in worklistMoves, Combine(m)
  PROVE  StackLow'
<1> DEFINE u == LowEnd(m)
           v == HighEnd(m)
<1>1. coalesced' = coalesced \cup {v} /\ selectStack' = selectStack /\ Nodes' = Nodes
  BY DEF Combine, Nodes
<1>2. u \in Nodes \ Removed /\ v \in Nodes \ Removed /\ StackLow
  BY MergedNotRemoved
<1>3. selectStack \in Seq(Nodes) /\ coalesced \subseteq Nodes /\ K \in Nat
  BY ColorAssumption DEF Inv1, TypeOK
<1>4. ASSUME NEW i \in 1..Len(selectStack)
      PROVE  Cardinality(edges'[selectStack[i]] \ (coalesced' \cup Below(i))) < K
  <2> DEFINE n == selectStack[i]
             gone == coalesced \cup Below(i)
  <2>1. n \in ToSet(selectStack) /\ Below(i) \subseteq ToSet(selectStack)
    BY <1>3 DEF Below, ToSet
  <2>2. n \in Nodes /\ n # u /\ gone \in SUBSET Nodes /\ v \notin gone
    BY <1>2, <1>3, <2>1 DEF ToSet, Removed
  <2>3. coalesced' \cup Below(i) = gone \cup {v}
    BY <1>1
  <2>4. Cardinality(edges[n] \ gone) < K
    BY <1>2 DEF StackLow
  <2> HIDE DEF n, gone
  <2>5. /\ Cardinality(edges'[n] \ (gone \cup {v})) \in Nat
        /\ Cardinality(edges[n] \ gone) \in Nat
        /\ Cardinality(edges'[n] \ (gone \cup {v})) <= Cardinality(edges[n] \ gone)
    <3>1. coalesced \subseteq gone
      BY DEF gone
    <3>. QED  BY <2>2, <3>1, MergedDegree
  <2>6. Cardinality(edges'[n] \ (gone \cup {v})) < K
    BY <1>3, <2>4, <2>5
  <2>. QED  BY <2>3, <2>6 DEF n
<1>. QED  BY <1>1, <1>4 DEF StackLow, Below

(***************************************************************************)
(* The heart of Briggs's argument: if in every set of registers some       *)
(* register has fewer than K neighbours within the set, this is so after a *)
(* merge that conservativeCoalesce admits.                                 *)
(***************************************************************************)
LEMMA ColorabilityCombine ==
  ASSUME Inv1, BriggsInv, NEW m \in worklistMoves, Combine(m),
         GreedyColorable(Nodes \ coalesced, edges)
  PROVE  GreedyColorable(Nodes \ coalesced', edges')
<1>1. PICK u \in Nodes \ coalesced, v \in Nodes \ coalesced, moved \in SUBSET Nodes :
           /\ u = LowEnd(m) /\ v = HighEnd(m)
           /\ moved = {k \in edges[v] : k \notin coalesced \cup {v} /\ k # u}
           /\ coalesced' = coalesced \cup {v}
           /\ edges' = MergedLinks(edges, u, moved)
           /\ selectStack' = selectStack /\ input' = input
  BY CombineFacts
<1>2. conservativeCoalesce(u, v)
  BY <1>1 DEF Combine
<1>3. /\ IsLinks(Nodes, edges) /\ IsFiniteSet(Nodes) /\ K \in Nat
      /\ selectStack \in Seq(Nodes) /\ coalesced \subseteq Nodes
  BY NodesFinite, ColorAssumption DEF Inv1, TypeOK
<1>4. IsLinks(Nodes, edges')
  <2>1. u \notin moved
    BY <1>1
  <2>. QED  BY <1>1, <1>3, <2>1, MergedLinksType
<1>5. Removed \in SUBSET Nodes /\ coalesced \subseteq Removed /\ v \notin Removed
  BY <1>1, <1>3, MergedNotRemoved DEF Removed, ToSet
<1> SUFFICES ASSUME NEW S \in SUBSET (Nodes \ coalesced'), S # {},
                    \A r \in S : ~(Cardinality(edges'[r] \cap S) < K)
             PROVE  FALSE
  BY DEF GreedyColorable
<1>6. /\ \A r \in S : r \in Nodes /\ r \notin coalesced /\ r # v
      /\ S \in SUBSET (Nodes \ coalesced)
  BY <1>1
<1>7. \A r \in Nodes : edges'[r] \in SUBSET Nodes /\ IsFiniteSet(edges'[r])
  BY <1>3, <1>4, FS_Subset DEF IsLinks
<1>8. S \cap ToSet(selectStack) = {}
  <2> SUFFICES ASSUME S \cap ToSet(selectStack) # {} PROVE FALSE
    OBVIOUS
  <2> DEFINE at == {i \in 1..Len(selectStack) : selectStack[i] \in S}
  <2>1. at \in SUBSET Nat /\ at # {}
    BY <1>3 DEF ToSet
  <2>2. PICK i \in at : \A j \in at : i <= j
    BY <2>1, LeastElement
  <2>3. S \cap Below(i) = {}
    <3>1. ASSUME NEW j \in 1..(i - 1), selectStack[j] \in S PROVE FALSE
      <4>1. j \in at /\ i \in Nat
        BY <1>3, <2>2, <3>1
      <4>. QED  BY <2>2, <4>1
    <3>. QED  BY <3>1 DEF Below
  <2> DEFINE n == selectStack[i]
             left == edges'[n] \ (coalesced' \cup Below(i))
  <2>4. n \in S /\ n \in Nodes /\ i \in 1..Len(selectStack)
    BY <1>6, <2>2
  <2>5. Cardinality(left) < K
    <3>1. StackLow' /\ Len(selectStack)' = Len(selectStack) /\ Below(i)' = Below(i)
      BY <1>1, MergedStackLow DEF Below
    <3>. QED  BY <1>1, <2>4, <3>1 DEF StackLow
  <2>6. edges'[n] \cap S \in SUBSET left
    BY <2>3
  <2>7. IsFiniteSet(left)
    BY <1>7, <2>4, FS_Subset
  <2> HIDE DEF n, left
  <2>8. /\ Cardinality(edges'[n] \cap S) \in Nat /\ Cardinality(left) \in Nat
        /\ Cardinality(edges'[n] \cap S) <= Cardinality(left)
    BY <2>6, <2>7, SmallPart
  <2>9. Cardinality(edges'[n] \cap S) < K
    BY <1>3, <2>5, <2>8
  <2>. QED  BY <2>4, <2>9
<1>9. CASE u \notin S
  <2>1. PICK r \in S : Cardinality(edges[r] \cap S) < K
    BY <1>6 DEF GreedyColorable
  <2>2. edges'[r] \cap S \in SUBSET (edges[r] \cap S)
    BY <1>1, <1>6, <1>9, <2>1 DEF MergedLinks
  <2>3. IsFiniteSet(edges[r] \cap S)
    <3>1. edges[r] \cap S \in SUBSET Nodes
      BY <1>6
    <3>. QED  BY <1>3, <3>1, FS_Subset
  <2>4. /\ Cardinality(edges'[r] \cap S) \in Nat /\ Cardinality(edges[r] \cap S) \in Nat
        /\ Cardinality(edges'[r] \cap S) <= Cardinality(edges[r] \cap S)
    BY <2>2, <2>3, SmallPart
  <2>5. Cardinality(edges'[r] \cap S) < K
    BY <1>3, <2>1, <2>4
  <2>. QED  BY <2>5
<1>10. CASE u \in S
  <2> DEFINE significant == {n \in (edges[u] \cup edges[v]) \ coalesced :
                               Degree(edges, Removed, n) >= K}
             around == edges'[u] \cap S
  <2>1. IsFiniteSet(significant)
    <3>1. significant \in SUBSET Nodes
      BY <1>1, <1>3 DEF IsLinks
    <3> HIDE DEF significant
    <3>. QED  BY <1>3, <3>1, FS_Subset
  <2>2. ASSUME NEW n \in around PROVE n \in significant
    <3>1. n \in S /\ n \in Nodes /\ n # u /\ n \notin coalesced
      BY <1>1, <1>4, <1>6 DEF IsLinks
    <3>2. n \in edges[u] \cup edges[v]
      BY <1>1 DEF MergedLinks
    <3> DEFINE left == edges'[n] \ (Removed \cup {v})
               before == edges[n] \ Removed
    <3>3. edges'[n] \cap S \in SUBSET left
      BY <1>6, <1>8 DEF Removed
    <3>4. IsFiniteSet(left)
      BY <1>7, <3>1, FS_Subset
    <3>5. /\ Cardinality(left) \in Nat /\ Cardinality(before) \in Nat
          /\ Cardinality(left) <= Cardinality(before)
      BY <1>1, <1>5, <3>1, MergedDegree
    <3> HIDE DEF left
    <3>6. /\ Cardinality(edges'[n] \cap S) \in Nat
          /\ Cardinality(edges'[n] \cap S) <= Cardinality(left)
      BY <3>3, <3>4, SmallPart
    <3>7. ~(Cardinality(edges'[n] \cap S) < K)
      BY <3>1
    <3>8. Cardinality(before) >= K
      <4> HIDE DEF before
      <4>. QED  BY <1>3, <3>5, <3>6, <3>7
    <3>. QED  BY <3>1, <3>2, <3>8 DEF Degree
  <2>3. around \in SUBSET significant
    BY <2>2
  <2>4. Cardinality(significant) < K
    BY <1>2 DEF conservativeCoalesce
  <2> HIDE DEF significant
  <2>5. /\ Cardinality(around) \in Nat /\ Cardinality(significant) \in Nat
        /\ Cardinality(around) <= Cardinality(significant)
    BY <2>1, <2>3, SmallPart
  <2>6. Cardinality(around) < K
    <3> HIDE DEF around
    <3>. QED  BY <1>3, <2>4, <2>5
  <2>. QED  BY <1>10, <2>6
<1>. QED  BY <1>9, <1>10

\* The registers simplified at first have few neighbours and no moves.
LEMMA BriggsBuild == Inv1 /\ BriggsInv /\ BuildWorklists => BriggsInv'
<1> SUFFICES ASSUME Inv1, BriggsInv, BuildWorklists PROVE BriggsInv'
  OBVIOUS
<1> DEFINE free == Nodes \ DOMAIN precolored
           high == {r \in free : Degree(edges, {}, r) >= K}
           low == free \ high
<1>1. /\ simplifyWorklist' \in SetToSeqs({r \in low : ~MoveRelated(r)})
      /\ pc' = "loop" /\ selectStack' = <<>> /\ coalesced' = {}
      /\ edges' = edges /\ prefs' = prefs
  BY DEF BuildWorklists, BriggsInv, mergeVars, graphVars
<1>2. \A r \in low : Degree(edges, {}, r) < K
  <2>1. ASSUME NEW r \in low PROVE Degree(edges, {}, r) < K
    <3>1. edges[r] \ {} \in SUBSET Nodes /\ IsFiniteSet(Nodes)
      BY NodesFinite DEF Inv1, TypeOK, IsLinks
    <3>2. Cardinality(edges[r] \ {}) \in Nat
      BY <3>1, FS_Subset, FS_CardinalityType
    <3>3. ~(Degree(edges, {}, r) >= K)
      OBVIOUS
    <3>. QED  BY <3>2, <3>3, ColorAssumption DEF Degree
  <2>. QED  BY <2>1
<1>3. IsFiniteSet({r \in low : ~MoveRelated(r)})
  BY NodesFinite, FS_Subset DEF Inv1
<1> HIDE DEF low
<1>4. ToSet(simplifyWorklist') = {r \in low : ~MoveRelated(r)}
  BY <1>1, <1>3, SetToSeqsOnto
<1>5. ToSet(selectStack') = {} /\ Len(selectStack') = 0
  BY <1>1 DEF ToSet
<1>6. Removed' = {}
  BY <1>1, <1>5 DEF Removed
<1>7. Moveless' /\ SimplifyLow' /\ StackLow'
  BY <1>1, <1>2, <1>4, <1>5, <1>6 DEF Moveless, SimplifyLow, StackLow, Degree, MoveRelated
<1>. QED  BY <1>1, <1>7 DEF BriggsInv

\* Simplifying removes a register with few neighbours left.
LEMMA BriggsSimplify == Inv1 /\ BriggsInv /\ Simplify => BriggsInv'
<1> SUFFICES ASSUME Inv1, BriggsInv, Simplify PROVE BriggsInv'
  OBVIOUS
<1>1. /\ pc = "loop" /\ pc' = "loop" /\ simplifyWorklist # <<>>
      /\ UNCHANGED <<edges, prefs, coalesced, worklistMoves>>
  BY DEF Simplify, graphVars, mergeVars, moveVars
<1> SUFFICES ASSUME Moveless, SimplifyLow, StackLow
             PROVE  Moveless' /\ SimplifyLow' /\ StackLow'
  BY <1>1 DEF BriggsInv
<1> DEFINE r == Last(simplifyWorklist)
           hit == DroppedBelowK(edges[r], edges, coalesced \cup ToSet(selectStack) \cup {r})
<1>2. /\ r \in Nodes /\ hit \subseteq Nodes
      /\ selectStack' = Append(selectStack, r)
      /\ ToSet(selectStack') = ToSet(selectStack) \cup {r}
      /\ ToSet(simplifyWorklist) = ToSet(Front(simplifyWorklist)) \cup {r}
      /\ ToSet(simplifyWorklist') =
           ToSet(Front(simplifyWorklist)) \cup {n \in hit : ~MoveRelated(n)}
  BY SimplifyLists
<1>3. /\ \A n \in hit : Degree(edges, coalesced \cup ToSet(selectStack) \cup {r}, n) = K - 1
      /\ K \in Nat
  BY ColorAssumption DEF DroppedBelowK
<1>4. /\ selectStack \in Seq(Nodes) /\ IsFiniteSet(Nodes)
      /\ \A n \in Nodes : edges[n] \in SUBSET Nodes /\ IsFiniteSet(edges[n])
      /\ ToSet(simplifyWorklist) \subseteq Nodes
  BY NodesFinite, FS_Subset DEF Inv1, TypeOK, IsLinks, ToSet
<1> HIDE DEF r, hit
<1>5. Moveless'
  BY <1>1, <1>2 DEF Moveless, MoveRelated
<1>6. Removed' = Removed \cup {r} /\ Removed \cup {r} = coalesced \cup ToSet(selectStack) \cup {r}
  BY <1>1, <1>2 DEF Removed
<1>7. SimplifyLow'
  <2> SUFFICES ASSUME NEW n \in ToSet(simplifyWorklist')
               PROVE  Cardinality(edges[n] \ Removed') < K
    BY <1>1 DEF SimplifyLow, Degree
  <2>1. CASE n \in hit
    <3>1. Cardinality(edges[n] \ Removed') = K - 1
      BY <1>3, <1>6, <2>1 DEF Degree
    <3>. QED  BY <1>3, <3>1
  <2>2. CASE n \in ToSet(simplifyWorklist)
    <3>1. n \in Nodes /\ Cardinality(edges[n] \ Removed) < K
      BY <1>4, <2>2 DEF SimplifyLow, Degree
    <3>2. edges[n] \ Removed' \in SUBSET (edges[n] \ Removed) /\ IsFiniteSet(edges[n] \ Removed)
      BY <1>4, <1>6, <3>1, FS_Subset
    <3>3. /\ Cardinality(edges[n] \ Removed') \in Nat /\ Cardinality(edges[n] \ Removed) \in Nat
          /\ Cardinality(edges[n] \ Removed') <= Cardinality(edges[n] \ Removed)
      BY <3>2, SmallPart
    <3>. QED  BY <1>3, <3>1, <3>3
  <2>. QED  BY <1>2, <2>1, <2>2
<1>8. StackLow'
  <2>1. /\ Len(selectStack') = Len(selectStack) + 1 /\ Len(selectStack) \in Nat
        /\ \A i \in 1..Len(selectStack) : selectStack'[i] = selectStack[i]
        /\ selectStack'[Len(selectStack) + 1] = r
    BY <1>2, <1>4
  <2> SUFFICES ASSUME NEW i \in 1..(Len(selectStack) + 1)
               PROVE  Cardinality(edges[selectStack'[i]] \ (coalesced \cup Below(i)')) < K
    BY <1>1, <2>1 DEF StackLow
  <2>2. Below(i)' = {selectStack[j] : j \in 1..(i - 1)}
    BY <2>1 DEF Below
  <2>3. CASE i \in 1..Len(selectStack)
    BY <2>1, <2>2, <2>3 DEF StackLow, Below
  <2>4. CASE i = Len(selectStack) + 1
    <3>1. Below(i)' = ToSet(selectStack)
      BY <1>4, <2>1, <2>2, <2>4 DEF ToSet
    <3>2. Cardinality(edges[r] \ Removed) < K
      BY <1>2 DEF SimplifyLow, Degree
    <3>. QED  BY <2>1, <2>4, <3>1, <3>2 DEF Removed
  <2>. QED  BY <2>1, <2>3, <2>4
<1>. QED  BY <1>5, <1>7, <1>8

\* So does a merge: the registers it frees have few neighbours and no moves.
LEMMA BriggsCombine ==
  ASSUME Inv1, BriggsInv, NEW m \in worklistMoves, Combine(m)
  PROVE  BriggsInv'
<1> DEFINE u == LowEnd(m)
           v == HighEnd(m)
           moved == {n \in edges[v] : n \notin coalesced \cup {v} /\ n # u}
           hit == DroppedBelowK(moved, edges', coalesced' \cup ToSet(selectStack))
<1>1. hit \subseteq Nodes \ {u, v} /\ ToSet(simplifyWorklist') = {n \in hit : ~MoveRelated(n)}
  BY CombineQueues
<1>2. /\ pc' = "loop" /\ selectStack' = selectStack
      /\ prefs' = MergedLinks(prefs, u, prefs[v] \ {u})
  BY DEF Combine, PopMove
<1>3. /\ \A n \in hit : Degree(edges', coalesced' \cup ToSet(selectStack), n) = K - 1
      /\ K \in Nat
  BY ColorAssumption DEF DroppedBelowK
<1>4. u \in Nodes \ Removed /\ v \in Nodes \ Removed /\ Moveless
  BY MergedNotRemoved
<1>5. IsLinks(Nodes, prefs) /\ ToSet(selectStack) \subseteq Nodes
  BY DEF Inv1, TypeOK, ToSet
<1> HIDE DEF u, v, hit
<1>6. \A n \in Nodes \ {u} : prefs[n] = {} => prefs'[n] = {}
  BY <1>2, <1>4, <1>5 DEF IsLinks, MergedLinks
<1>7. Moveless'
  <2>1. \A n \in ToSet(selectStack) : n \in Nodes \ {u} /\ prefs[n] = {}
    BY <1>4, <1>5 DEF Moveless, Removed
  <2>2. \A n \in ToSet(simplifyWorklist') : n \in Nodes \ {u} /\ prefs[n] = {}
    BY <1>1 DEF MoveRelated
  <2>. QED  BY <1>2, <1>6, <2>1, <2>2 DEF Moveless
<1>8. SimplifyLow'
  <2>1. Removed' = coalesced' \cup ToSet(selectStack)
    BY <1>2 DEF Removed
  <2>2. \A n \in hit : Cardinality(edges'[n] \ Removed') = K - 1
    BY <1>3, <2>1 DEF Degree
  <2>3. \A n \in hit : Cardinality(edges'[n] \ Removed') < K
    BY <1>3, <2>2
  <2>. QED  BY <1>1, <2>3 DEF SimplifyLow, Degree
<1>9. StackLow'
  BY MergedStackLow
<1>. QED  BY <1>2, <1>7, <1>8, <1>9 DEF BriggsInv

\* The invariant of removed registers is inductive.
LEMMA BriggsStep == Inv1 /\ BriggsInv /\ [Next]_vars => BriggsInv'
<1> SUFFICES ASSUME Inv1, BriggsInv, [Next]_vars PROVE BriggsInv'
  OBVIOUS
<1>1. ASSUME UNCHANGED <<edges, prefs, coalesced, selectStack, simplifyWorklist, pc>>,
             worklistMoves' \subseteq worklistMoves
      PROVE  BriggsInv'
  <2>1. (Moveless <=> Moveless') /\ (SimplifyLow <=> SimplifyLow')
    BY <1>1 DEF Moveless, SimplifyLow, Degree, Removed
  <2>2. \A i : Below(i)' = Below(i)
    BY <1>1 DEF Below
  <2>3. StackLow => StackLow'
    BY <1>1, <2>2 DEF StackLow
  <2>. QED  BY <1>1, <2>1, <2>3 DEF BriggsInv
<1>2. CASE Coalesce
  <2>1. PICK m \in worklistMoves : \/ CoalesceSame(m) \/ CoalesceConstrained(m)
                                   \/ Combine(m) \/ CoalesceDefer(m)
    BY <1>2 DEF Coalesce
  <2>2. CASE CoalesceSame(m) \/ CoalesceConstrained(m) \/ CoalesceDefer(m)
    <3>1. UNCHANGED <<edges, prefs, coalesced, selectStack, simplifyWorklist, pc>>
      BY <2>2, KeepMoveLists DEF mergeVars, graphVars
    <3>2. worklistMoves' \subseteq worklistMoves
      BY <2>2 DEF CoalesceSame, CoalesceConstrained, CoalesceDefer, PopMove
    <3>. QED  BY <1>1, <3>1, <3>2
  <2>. QED  BY <2>1, <2>2, BriggsCombine
<1>3. CASE Freeze \/ SelectSpill
  BY <1>3 DEF Freeze, SelectSpill, SimplifyAndFreezeMoves, BriggsInv
<1>4. CASE LoopDone \/ AssignColor \/ BuildResult
  BY <1>4 DEF LoopDone, AssignColor, BuildResult, BriggsInv
<1>5. CASE UNCHANGED vars
  BY <1>1, <1>5 DEF vars, graphVars, mergeVars, moveVars
<1>. QED  BY <1>2, <1>3, <1>4, <1>5, BriggsBuild, BriggsSimplify DEF Next, Terminated

(***************************************************************************)
(* Conservative coalescing costs nothing, for every graph and every number *)
(* of colors: a graph that could be simplified completely before any merge *)
(* can be simplified completely after all of them.                         *)
(***************************************************************************)
THEOREM CoalescingIsConservative == Spec => []ColorabilityKept
<1>1. Init => BriggsInv /\ ColorabilityKept
  <2> SUFFICES ASSUME Init PROVE BriggsInv /\ ColorabilityKept
    OBVIOUS
  <2>1. Nodes \ {} = Nodes /\ coalesced = {} /\ edges = input.graph.edges
    BY DEF Init
  <2>2. ColorabilityKept
    BY <2>1 DEF ColorabilityKept
  <2>. QED  BY <2>2 DEF Init, BriggsInv
<1>2. Inv1 /\ BriggsInv /\ ColorabilityKept /\ [Next]_vars => ColorabilityKept'
  <2> SUFFICES ASSUME Inv1, BriggsInv, ColorabilityKept, [Next]_vars PROVE ColorabilityKept'
    OBVIOUS
  <2>1. CASE \E m \in worklistMoves : Combine(m)
    <3>1. PICK m \in worklistMoves : Combine(m)
      BY <2>1
    <3>2. input' = input /\ Nodes' = Nodes
      BY <3>1 DEF Combine, Nodes
    <3> SUFFICES ASSUME GreedyColorable(Nodes, input.graph.edges)
                 PROVE  GreedyColorable(Nodes \ coalesced', edges')
      BY <3>2 DEF ColorabilityKept
    <3>3. GreedyColorable(Nodes \ coalesced, edges)
      BY DEF ColorabilityKept
    <3>. QED  BY <3>1, <3>3, ColorabilityCombine
  <2>2. CASE UNCHANGED <<input, graphVars, mergeVars>>
    BY <2>2 DEF ColorabilityKept, Nodes, graphVars, mergeVars
  <2>. QED  BY <2>1, <2>2, GraphSteps
<1>. QED  BY <1>1, <1>2, Inv1Init, Inv1Step, BriggsStep, PTL DEF Spec

-----------------------------------------------------------------------------
(***************************************************************************)
(* What the register allocator returns: every register has a location,     *)
(* interfering registers have different ones, and a register that is live  *)
(* across a call is not in a register that the call may change.            *)
(***************************************************************************)

(***************************************************************************)
(* The parameters with fixed locations.  They are numbered first, so they  *)
(* are only ever merged into each other.                                   *)
(***************************************************************************)
FixedInv ==
  /\ \A r \in Nodes : rep[r] <= r
  /\ pc # "done" => precolored = PrecoloredParams(input.params, input.graph.lac)
  /\ pc \in {"loop", "assign"} =>
       \A p \in DOMAIN precolored : precolored[p].kind = "R" => p \in colored
  /\ pc = "loop" => colored \subseteq DOMAIN precolored

\* Every other register is colored or spilled once the stack is empty.
PlaceInv ==
  pc = "assign" =>
    Nodes \ coalesced \subseteq DOMAIN precolored \cup ToSet(selectStack) \cup colored \cup spilled

\* No spill slot is given twice.
SlotInv ==
  pc # "done" =>
    /\ \A p \in spilled : spillSlot[p] < nextSpillSlot
    /\ \A p, q \in spilled : p # q => spillSlot[p] # spillSlot[q]

\* Being live across a call is inherited, and what inherits it avoids the
\* registers that calls change.
LacInv ==
  /\ \A r \in input.graph.lac : rep[r] \in lac
  /\ pc # "done" => \A r \in (colored \cap lac) \ DOMAIN precolored :
                      colors[r] >= FirstCalleeSavedColor

ResultInv == FixedInv /\ PlaceInv /\ SlotInv /\ LacInv

\* A fixed parameter is in the place its number gives it.
LEMMA ParamFacts ==
  ASSUME Inv1, FixedInv, pc # "done", NEW p \in DOMAIN precolored
  PROVE  /\ p \in 1..Len(input.params) /\ p \notin input.graph.lac
         /\ precolored[p] = ArgLocation(p)
<1>1. IsInput(input)
  BY DEF Inv1, TypeOK
<1>2. /\ precolored = PrecoloredParams(input.params, input.graph.lac)
      /\ p \in ToSet(input.params) \ input.graph.lac
  BY DEF FixedInv, PrecoloredParams
<1>3. PICK i \in 1..Len(input.params) : input.params[i] = p
  BY <1>1, <1>2 DEF IsInput, IsAllocatable, ToSet
<1>4. \A j \in 1..Len(input.params) : input.params[j] = j
  BY <1>1 DEF IsInput, IsAllocatable
<1>5. (CHOOSE j \in 1..Len(input.params) : input.params[j] = p) = p
  BY <1>3, <1>4
<1>. QED  BY <1>2, <1>3, <1>4, <1>5 DEF PrecoloredParams

\* A parameter that is not live across a call is fixed.
LEMMA ParamIsFixed ==
  ASSUME Inv1, FixedInv, pc # "done", NEW p \in 1..Len(input.params), p \notin input.graph.lac
  PROVE  p \in DOMAIN precolored
<1>1. IsInput(input)
  BY DEF Inv1, TypeOK
<1>2. input.params[p] = p /\ p \in DOMAIN input.params
  BY <1>1 DEF IsInput, IsAllocatable
<1>3. p \in ToSet(input.params)
  BY <1>2 DEF ToSet
<1>4. DOMAIN precolored = ToSet(input.params) \ input.graph.lac
  BY DEF FixedInv, PrecoloredParams
<1>. QED  BY <1>3, <1>4

\* A fixed parameter is merged into a fixed parameter with a lower number.
LEMMA FixedMerge ==
  ASSUME Inv1, EdgeInv, FixedInv, pc # "done", NEW p \in DOMAIN precolored
  PROVE  rep[p] \in DOMAIN precolored /\ rep[p] \in Nat \ {0} /\ p \in Nat /\ rep[p] <= p
<1>1. /\ p \in 1..Len(input.params) /\ p \in Nodes
      /\ IsInput(input) /\ Len(input.params) \in Nat
  <2>1. p \in 1..Len(input.params)
    BY ParamFacts
  <2>. QED  BY <2>1 DEF Inv1, TypeOK, IsInput, IsAllocatable
<1>2. /\ rep[p] \in Nodes /\ rep[rep[p]] = rep[p]
  BY <1>1 DEF Inv1, TypeOK, AliasInv
<1>3. rep[p] \in Nat \ {0} /\ p \in Nat /\ rep[p] <= p
  BY <1>1, <1>2, RegAssumption DEF IsInput, IsAllocatable, Nodes, FixedInv
<1>4. rep[p] \in 1..Len(input.params)
  BY <1>1, <1>3
<1>5. ASSUME rep[p] \in input.graph.lac, rep[p] # p PROVE FALSE
  <2>1. InputEdge(rep[p], p)
    BY <1>1, <1>4, <1>5 DEF InputEdge, IsInput, IsAllocatable, Nodes
  <2>2. rep[p] \in edges[rep[p]]
    BY <1>1, <1>2, <2>1 DEF EdgeInv
  <2>. QED  BY <1>2, <2>2 DEF Inv1, TypeOK, IsLinks
<1>6. rep[p] \in DOMAIN precolored
  BY <1>4, <1>5, ParamIsFixed
<1>. QED  BY <1>3, <1>6

-----------------------------------------------------------------------------
\* At first nothing is placed.
LEMMA ResultInit == Init => ResultInv
<1> SUFFICES ASSUME Init PROVE ResultInv
  OBVIOUS
<1>1. Inv1
  BY Inv1Init
<1>2. Nodes \subseteq Nat
  BY <1>1, NodesFinite DEF Inv1
<1>3. FixedInv
  BY <1>2 DEF Init, FixedInv
<1>4. PlaceInv /\ SlotInv
  BY DEF Init, PlaceInv, SlotInv
<1>5. LacInv
  <2>1. input.graph.lac \subseteq Nodes
    BY <1>1 DEF Inv1, TypeOK, IsInput, IsAllocatable, IsGraph, Nodes
  <2>. QED  BY <2>1 DEF Init, LacInv
<1>. QED  BY <1>3, <1>4, <1>5 DEF ResultInv

\* Parameters that arrive in registers are colored at once.
LEMMA ResultBuild == Inv1 /\ ColorInv /\ ResultInv /\ BuildWorklists => ResultInv'
<1> SUFFICES ASSUME Inv1, ColorInv, ResultInv, BuildWorklists PROVE ResultInv'
  OBVIOUS
<1>1. /\ colored' = {p \in DOMAIN precolored : precolored[p].kind = "R"}
      /\ pc = "build" /\ pc' = "loop"
      /\ UNCHANGED <<input, lac, rep, spilled, spillSlot, nextSpillSlot, precolored>>
  BY DEF BuildWorklists, graphVars, mergeVars
<1>2. Nodes' = Nodes
  BY <1>1 DEF Nodes
<1>. QED  BY <1>1, <1>2 DEF ResultInv, FixedInv, PlaceInv, SlotInv, LacInv

\* A merge passes on being live across a call, before anything is colored.
LEMMA ResultCombine ==
  ASSUME Inv1, ResultInv, NEW m \in worklistMoves, Combine(m)
  PROVE  ResultInv'
<1>1. PICK u \in Nodes \ coalesced, v \in Nodes \ coalesced, moved \in SUBSET Nodes :
           /\ u = LowEnd(m) /\ v = HighEnd(m) /\ u < v
           /\ moved = {n \in edges[v] : n \notin coalesced \cup {v} /\ n # u}
           /\ coalesced' = coalesced \cup {v}
           /\ rep' = [r \in Nodes |-> IF rep[r] = v THEN u ELSE rep[r]]
           /\ lac' = IF v \in lac THEN lac \cup {u} ELSE lac
           /\ UNCHANGED <<input, selectStack, colorVars, precolored, regToLoc, pc>>
  BY CombineFacts
<1>2. pc = "loop" /\ Nodes' = Nodes /\ Nodes \subseteq Nat
  BY <1>1, NodesFinite DEF Combine, PopMove, Nodes, Inv1
<1>3. \A r \in Nodes : rep'[r] <= r
  <2> SUFFICES ASSUME NEW r \in Nodes PROVE rep'[r] <= r
    OBVIOUS
  <2>1. rep[r] <= r /\ rep[r] \in Nat /\ r \in Nat /\ u \in Nat /\ v \in Nat
    BY <1>2 DEF ResultInv, FixedInv, Inv1, TypeOK
  <2>2. rep'[r] = IF rep[r] = v THEN u ELSE rep[r]
    BY <1>1
  <2>. QED  BY <1>1, <2>1, <2>2
<1>4. FixedInv'
  BY <1>1, <1>2, <1>3 DEF ResultInv, FixedInv, colorVars
<1>5. PlaceInv' /\ SlotInv'
  BY <1>1, <1>2 DEF ResultInv, PlaceInv, SlotInv, colorVars
<1>6. LacInv'
  <2>1. \A r \in input.graph.lac : r \in Nodes
    BY DEF Inv1, TypeOK, IsInput, IsAllocatable, IsGraph, Nodes
  <2>2. \A r \in input.graph.lac : rep'[r] \in lac'
    BY <1>1, <2>1 DEF ResultInv, LacInv
  <2>3. colored' \subseteq DOMAIN precolored'
    BY <1>1, <1>2 DEF ResultInv, FixedInv, colorVars
  <2>. QED  BY <1>1, <2>2, <2>3 DEF LacInv
<1>. QED  BY <1>4, <1>5, <1>6 DEF ResultInv

\* Nothing that is not fixed is left when the loop ends.
LEMMA ResultLoopDone == Inv1 /\ NoRegisterForgotten /\ ResultInv /\ LoopDone => ResultInv'
<1> SUFFICES ASSUME Inv1, NoRegisterForgotten, ResultInv, LoopDone PROVE ResultInv'
  OBVIOUS
<1>1. /\ pc = "loop" /\ pc' = "assign" /\ simplifyWorklist = <<>> /\ freezeWorklist = <<>>
      /\ OnSpillWorklist = {}
      /\ UNCHANGED <<input, lac, coalesced, rep, selectStack, colored, colors, spilled,
                     spillSlot, nextSpillSlot, precolored>>
  BY DEF LoopDone, graphVars, mergeVars, colorVars
<1>2. Nodes' = Nodes
  BY <1>1 DEF Nodes
<1>3. ToSet(simplifyWorklist) = {} /\ ToSet(freezeWorklist) = {}
  BY <1>1 DEF ToSet
<1>4. Nodes = DOMAIN precolored \cup coalesced \cup ToSet(selectStack)
  BY <1>1, <1>3 DEF NoRegisterForgotten, Removed
<1>5. PlaceInv'
  BY <1>1, <1>2, <1>4 DEF PlaceInv
<1>. QED  BY <1>1, <1>2, <1>5 DEF ResultInv, FixedInv, SlotInv, LacInv

\* A register that is popped gets a color it may have, or a new slot.
LEMMA ResultAssign == Inv1 /\ ResultInv /\ AssignColor => ResultInv'
<1> SUFFICES ASSUME Inv1, ResultInv, AssignColor PROVE ResultInv'
  OBVIOUS
<1> DEFINE r == Last(selectStack)
           c == Min(FreeColors(r))
<1>1. /\ pc = "assign" /\ pc' = "assign" /\ selectStack # <<>>
      /\ selectStack' = Front(selectStack)
      /\ UNCHANGED <<input, lac, coalesced, rep, precolored>>
  BY DEF AssignColor, graphVars, mergeVars
<1>2. r \in Nodes /\ ToSet(selectStack) = ToSet(selectStack') \cup {r}
  BY <1>1, FrontLastType, ToSetPop DEF Inv1, TypeOK
<1>3. \/ /\ FreeColors(r) # {} /\ colored' = colored \cup {r}
         /\ colors' = [colors EXCEPT ![r] = c]
         /\ UNCHANGED <<spilled, spillSlot, nextSpillSlot>>
      \/ /\ spilled' = spilled \cup {r}
         /\ spillSlot' = [spillSlot EXCEPT ![r] = nextSpillSlot]
         /\ nextSpillSlot' = nextSpillSlot + SlotSize
         /\ UNCHANGED <<colored, colors>>
  BY Zenon DEF AssignColor
<1>4. ASSUME FreeColors(r) # {}
      PROVE  r \in lac => c >= FirstCalleeSavedColor
  <2>1. FreeColors(r) \in SUBSET Nat
    BY FreeColorsType, ColorAssumption
  <2>2. c \in FreeColors(r)
    BY <1>4, <2>1, MinProperty
  <2>. QED  BY <2>2 DEF FreeColors
<1> HIDE DEF r, c
<1>5. Nodes' = Nodes
  BY <1>1 DEF Nodes
<1>6. colored \subseteq colored' /\ spilled \subseteq spilled' /\ r \in colored' \cup spilled'
  BY <1>3
<1>7. FixedInv'
  BY <1>1, <1>5, <1>6 DEF ResultInv, FixedInv
<1>8. PlaceInv'
  BY <1>1, <1>2, <1>5, <1>6 DEF ResultInv, PlaceInv
<1>9. SlotInv'
  <2>1. CASE UNCHANGED <<spilled, spillSlot, nextSpillSlot>>
    BY <1>1, <2>1 DEF ResultInv, SlotInv
  <2>2. CASE /\ spilled' = spilled \cup {r}
             /\ spillSlot' = [spillSlot EXCEPT ![r] = nextSpillSlot]
             /\ nextSpillSlot' = nextSpillSlot + SlotSize
    <3>1. /\ nextSpillSlot \in Nat /\ spillSlot \in [Nodes -> Nat] /\ spilled \subseteq Nodes
          /\ nextSpillSlot' = nextSpillSlot + 8
      BY <2>2 DEF Inv1, TypeOK, SlotSize
    <3>2. /\ spillSlot'[r] = nextSpillSlot
          /\ \A p \in spilled \ {r} : /\ spillSlot'[p] = spillSlot[p] /\ spillSlot[p] \in Nat
                                      /\ spillSlot[p] < nextSpillSlot
      BY <1>1, <1>2, <2>2, <3>1 DEF ResultInv, SlotInv
    <3>3. \A p \in spilled' : spillSlot'[p] < nextSpillSlot'
      BY <2>2, <3>1, <3>2
    <3>4. \A p, q \in spilled' : p # q => spillSlot'[p] # spillSlot'[q]
      <4> SUFFICES ASSUME NEW p \in spilled', NEW q \in spilled', p # q
                   PROVE  spillSlot'[p] # spillSlot'[q]
        OBVIOUS
      <4>1. CASE p = r \/ q = r
        BY <2>2, <3>1, <3>2, <4>1
      <4>2. CASE p # r /\ q # r
        BY <1>1, <2>2, <3>2, <4>2 DEF ResultInv, SlotInv
      <4>. QED  BY <4>1, <4>2
    <3>. QED  BY <3>3, <3>4 DEF SlotInv
  <2>. QED  BY <1>3, <2>1, <2>2
<1>10. LacInv'
  <2>1. CASE UNCHANGED <<colored, colors>>
    BY <1>1, <2>1 DEF ResultInv, LacInv
  <2>2. CASE /\ FreeColors(r) # {} /\ colored' = colored \cup {r}
             /\ colors' = [colors EXCEPT ![r] = c]
    <3>1. /\ colors'[r] = c /\ \A x \in colored \ {r} : colors'[x] = colors[x]
      BY <1>2, <2>2 DEF Inv1, TypeOK
    <3>. QED  BY <1>1, <1>4, <2>2, <3>1 DEF ResultInv, LacInv
  <2>. QED  BY <1>3, <2>1, <2>2
<1>. QED  BY <1>7, <1>8, <1>9, <1>10 DEF ResultInv

-----------------------------------------------------------------------------
(***************************************************************************)
(* Where buildResult puts a register: in a slot or a place of its own or   *)
(* of a register it is merged with, or in the register of its              *)
(* representative's color.                                                 *)
(***************************************************************************)
InSlot(r, loc) == \E o \in spilled : rep[o] = rep[r] /\ loc = Local(spillSlot[o])

InArgument(r, loc) ==
  \E o \in DOMAIN precolored :
    rep[o] = rep[r] /\ ArgLocation(o).kind = "Incoming" /\ loc = ArgLocation(o)

InColor(r, loc) == rep[r] \in colored /\ loc = R(colors[rep[r]])

LEMMA WhereResultIs ==
  ASSUME Inv1, EdgeInv, ResultInv, BuildResult, NEW r \in Nodes
  PROVE  /\ \/ InSlot(r, regToLoc'[r]) \/ InArgument(r, regToLoc'[r])
            \/ InColor(r, regToLoc'[r]) \/ Recolored(r)'
         /\ \/ rep[r] \in DOMAIN precolored
            \/ r \in DOMAIN precolored
            \/ InSlot(r, regToLoc'[r])
            \/ InColor(r, regToLoc'[r])
         /\ regToLoc'[r] # NoLoc
<1>1. getAlias = rep
  BY AliasIsRep DEF Inv1
<1> HIDE DEF getAlias
<1> DEFINE x == rep[r]
           inherits == {s \in coalesced : /\ getAlias[s] \notin colored \cup spilled
                                          /\ getAlias[s] \in DOMAIN precolored}
           fixed == [s \in DOMAIN precolored \cup inherits |->
                       IF s \in inherits THEN precolored[getAlias[s]] ELSE precolored[s]]
<1>2. /\ pc = "assign" /\ selectStack = <<>>
      /\ colors' = [s \in Nodes |-> IF s \in Inherit(colored) THEN colors[getAlias[s]]
                                    ELSE colors[s]]
      /\ spillSlot' = [s \in Nodes |-> IF s \in Inherit(spilled \ colored)
                                       THEN spillSlot[getAlias[s]] ELSE spillSlot[s]]
      /\ colored' = colored \cup Inherit(colored)
      /\ spilled' = spilled \cup Inherit(spilled \ colored)
      /\ precolored' = fixed
      /\ regToLoc' = [s \in Nodes |-> IF s \in DOMAIN fixed THEN fixed[s]
                                      ELSE IF s \in spilled' THEN Local(spillSlot'[s])
                                      ELSE IF s \in colored' THEN R(colors'[s])
                                      ELSE NoLoc]
  BY DEF BuildResult
<1> HIDE DEF fixed
<1>3. regToLoc'[r] = IF r \in DOMAIN fixed THEN fixed[r]
                     ELSE IF r \in spilled' THEN Local(spillSlot'[r])
                     ELSE IF r \in colored' THEN R(colors'[r])
                     ELSE NoLoc
  BY <1>2
<1>4. /\ colors'[r] = IF r \in coalesced /\ x \in colored THEN colors[x] ELSE colors[r]
      /\ spillSlot'[r] = IF r \in coalesced /\ x \in spilled \ colored THEN spillSlot[x]
                         ELSE spillSlot[r]
      /\ r \in colored' <=> r \in colored \/ (r \in coalesced /\ x \in colored)
      /\ r \in spilled' <=> r \in spilled \/ (r \in coalesced /\ x \in spilled \ colored)
  BY <1>1, <1>2 DEF Inherit
<1>5. /\ x \in Nodes \ coalesced /\ rep[x] = x
      /\ r \notin coalesced => x = r
  BY DEF Inv1, TypeOK, AliasInv
<1>6. x \in DOMAIN precolored \cup colored \cup spilled
  <2>1. ToSet(selectStack) = {}
    BY <1>2 DEF ToSet
  <2>. QED  BY <1>2, <1>5, <2>1 DEF ResultInv, PlaceInv
<1>7. \A p \in DOMAIN precolored : /\ precolored[p] = ArgLocation(p)
                                   /\ precolored[p].kind = "R" => p \in colored
  BY <1>2, ParamFacts DEF ResultInv, FixedInv
<1>8. \A i : /\ ArgLocation(i).kind \in {"R", "Incoming"} /\ ArgLocation(i) # NoLoc
             /\ ArgLocation(i).kind = "R" => ArgLocation(i) = R(i - 1) /\ i <= NumArgRegs
             /\ ArgLocation(i).kind = "Incoming" => ~(i <= NumArgRegs)
  BY DEF ArgLocation, R, Incoming, NoLoc
<1>9. CASE r \in inherits
  <2>1. /\ r \in DOMAIN fixed /\ fixed[r] = precolored[x]
        /\ x \in DOMAIN precolored /\ x \notin colored
    BY <1>1, <1>9 DEF fixed
  <2>2. regToLoc'[r] = ArgLocation(x) /\ ArgLocation(x).kind = "Incoming"
    BY <1>3, <1>7, <1>8, <2>1
  <2>3. InArgument(r, regToLoc'[r])
    BY <1>5, <2>1, <2>2 DEF InArgument
  <2>. QED  BY <1>8, <2>1, <2>2, <2>3
<1>10. CASE r \in DOMAIN precolored /\ r \notin inherits
  <2>1. r \in DOMAIN fixed /\ fixed[r] = precolored[r] /\ precolored[r] = ArgLocation(r)
    BY <1>7, <1>10 DEF fixed
  <2>2. regToLoc'[r] = ArgLocation(r)
    BY <1>3, <2>1
  <2>3. CASE ArgLocation(r).kind = "Incoming"
    <3>1. InArgument(r, regToLoc'[r])
      BY <1>10, <2>2, <2>3 DEF InArgument
    <3>. QED  BY <1>8, <1>10, <2>2, <3>1
  <2>4. CASE ArgLocation(r).kind = "R"
    <3>1. x \in DOMAIN precolored /\ x \in Nat \ {0} /\ r \in Nat /\ x <= r
      BY <1>2, <1>10, FixedMerge DEF ResultInv
    <3>2. r <= NumArgRegs /\ NumArgRegs \in Nat
      BY <1>8, <2>4, ColorAssumption
    <3>3. x <= NumArgRegs
      BY <3>1, <3>2
    <3>4. x \in colored
      BY <1>7, <1>8, <3>1, <3>3
    <3>5. colors'[r] = colors[x]
      BY <1>4, <1>5, <3>4
    <3>6. ASSUME ~Recolored(r)' PROVE InColor(r, regToLoc'[r])
      <4>1. precolored'[r] = ArgLocation(r) /\ r \in DOMAIN precolored'
        BY <1>2, <2>1
      <4>2. colors'[r] = ArgLocation(r).at
        BY <2>4, <3>6, <4>1 DEF Recolored
      <4>3. ArgLocation(r) = R(ArgLocation(r).at)
        BY <1>8, <2>4 DEF R
      <4>. QED  BY <2>2, <3>4, <3>5, <4>2, <4>3 DEF InColor
    <3>. QED  BY <1>8, <1>10, <2>2, <3>6
  <2>. QED  BY <1>8, <2>3, <2>4
<1>11. CASE r \notin DOMAIN precolored /\ r \notin inherits
  <2>1. r \notin DOMAIN fixed
    BY <1>11 DEF fixed
  <2>2. x \in colored \cup spilled
    BY <1>1, <1>5, <1>6, <1>11
  <2>3. CASE r \in spilled'
    <3>1. regToLoc'[r] = Local(spillSlot'[r])
      BY <1>3, <2>1, <2>3
    <3>2. \E o \in spilled : rep[o] = x /\ spillSlot'[r] = spillSlot[o]
      BY <1>4, <1>5, <2>3
    <3>3. InSlot(r, regToLoc'[r])
      BY <3>1, <3>2 DEF InSlot
    <3>. QED  BY <3>1, <3>3 DEF Local, NoLoc
  <2>4. CASE r \notin spilled'
    <3>1. x \in colored /\ r \in colored' /\ colors'[r] = colors[x]
      BY <1>4, <1>5, <2>2, <2>4
    <3>2. regToLoc'[r] = R(colors[x])
      BY <1>3, <2>1, <2>4, <3>1
    <3>. QED  BY <3>1, <3>2 DEF InColor, R, NoLoc
  <2>. QED  BY <2>3, <2>4
<1>. QED  BY <1>9, <1>10, <1>11

\* A fixed parameter that was not merged is where it arrived.
LEMMA FixedResult ==
  ASSUME Inv1, ResultInv, BuildResult, NEW p \in DOMAIN precolored, p \notin coalesced
  PROVE  regToLoc'[p] = ArgLocation(p)
<1>1. pc = "assign" /\ p \in Nodes
  BY DEF BuildResult, Inv1, TypeOK
<1>2. precolored[p] = ArgLocation(p)
  BY <1>1, ParamFacts DEF ResultInv
<1>3. regToLoc'[p] = precolored[p]
  BY <1>1 DEF BuildResult
<1>. QED  BY <1>2, <1>3

(***************************************************************************)
(* What holds of the result, in terms of representatives.                  *)
(***************************************************************************)
LacSafe ==
  \A r \in input.graph.lac :
    rep[r] \notin DOMAIN precolored => CallSafe(regToLoc[r]) /\ regToLoc[r].kind # "Incoming"

ParamsInPlace ==
  \A p \in 1..Len(input.params) :
    p \notin input.graph.lac \cup coalesced => regToLoc[p] = ArgLocation(p)

DoneInv ==
  /\ ResultKeepsApart
  /\ pc = "done" => LacSafe /\ ParamsInPlace
  /\ EveryRegisterPlaced

\* Interfering registers are in different places.
LEMMA PlacesDiffer ==
  ASSUME Inv1, EdgeInv, ColorInv, ResultInv, pc # "done",
         NEW a \in Nodes, NEW b \in Nodes, InputEdge(a, b), NEW loc,
         InSlot(a, loc) \/ InArgument(a, loc) \/ InColor(a, loc),
         InSlot(b, loc) \/ InArgument(b, loc) \/ InColor(b, loc)
  PROVE  FALSE
<1>1. /\ rep[a] \in Nodes \ coalesced /\ rep[b] \in Nodes \ coalesced
      /\ rep[b] \in edges[rep[a]] /\ rep[a] # rep[b]
  BY DEF Inv1, TypeOK, AliasInv, EdgeInv, IsLinks
<1>2. CASE InSlot(a, loc)
  <2>1. PICK o \in spilled : rep[o] = rep[a] /\ loc = Local(spillSlot[o])
    BY <1>2 DEF InSlot
  <2>2. InSlot(b, loc)
    BY <2>1 DEF InArgument, InColor, Local, R
  <2>3. PICK q \in spilled : rep[q] = rep[b] /\ loc = Local(spillSlot[q])
    BY <2>2 DEF InSlot
  <2>4. spillSlot[o] = spillSlot[q] /\ o # q
    BY <1>1, <2>1, <2>3 DEF Local
  <2>. QED  BY <2>4 DEF ResultInv, SlotInv
<1>3. CASE InArgument(a, loc)
  <2>1. PICK o \in DOMAIN precolored :
          rep[o] = rep[a] /\ ArgLocation(o).kind = "Incoming" /\ loc = ArgLocation(o)
    BY <1>3 DEF InArgument
  <2>2. InArgument(b, loc)
    BY <2>1 DEF InSlot, InColor, Local, R
  <2>3. PICK q \in DOMAIN precolored :
          rep[q] = rep[b] /\ ArgLocation(q).kind = "Incoming" /\ loc = ArgLocation(q)
    BY <2>2 DEF InArgument
  <2>4. o \in Nat /\ q \in Nat /\ o # q
    BY <1>1, <2>1, <2>3, FixedMerge DEF ResultInv
  <2>5. (o - 1 - NumArgRegs) * 8 = (q - 1 - NumArgRegs) * 8
    BY <2>1, <2>3 DEF ArgLocation, R, Incoming, SlotSize
  <2>6. NumArgRegs \in Int
    BY ColorAssumption
  <2>. QED  BY <2>4, <2>5, <2>6
<1>4. CASE InColor(a, loc)
  <2>1. InColor(b, loc)
    <3>1. loc.kind = "R"
      BY <1>4 DEF InColor, R
    <3>2. InSlot(b, loc) => loc.kind = "Local"
      BY DEF InSlot, Local
    <3>3. InArgument(b, loc) => loc.kind = "Incoming"
      BY DEF InArgument
    <3>. QED  BY <3>1, <3>2, <3>3
  <2>2. colors[rep[a]] = colors[rep[b]] /\ rep[a] \in colored /\ rep[b] \in colored
    BY <1>4, <2>1 DEF InColor, R
  <2>. QED  BY <1>1, <2>2 DEF ColorInv, NeighboursApart
<1>. QED  BY <1>2, <1>3, <1>4

\* Building the result establishes what holds of it.
LEMMA DoneResult ==
  Inv1 /\ EdgeInv /\ ColorInv /\ ResultInv /\ BuildResult => DoneInv' /\ ResultInv'
<1> SUFFICES ASSUME Inv1, EdgeInv, ColorInv, ResultInv, BuildResult
             PROVE  DoneInv' /\ ResultInv'
  OBVIOUS
<1>1. /\ pc = "assign" /\ pc' = "done"
      /\ UNCHANGED <<input, lac, rep, coalesced, edges>>
  BY DEF BuildResult, graphVars, mergeVars
<1>2. Nodes' = Nodes
  BY <1>1 DEF Nodes
<1>3. ResultKeepsApart'
  <2> SUFFICES ASSUME NEW a \in Nodes, NEW b \in Nodes, InputEdge(a, b),
                      ~Recolored(a)', ~Recolored(b)', regToLoc'[a] = regToLoc'[b]
               PROVE  FALSE
    BY <1>1, <1>2 DEF ResultKeepsApart, InputEdge
  <2> DEFINE loc == regToLoc'[a]
  <2>1. InSlot(a, loc) \/ InArgument(a, loc) \/ InColor(a, loc)
    BY WhereResultIs
  <2>2. InSlot(b, loc) \/ InArgument(b, loc) \/ InColor(b, loc)
    BY WhereResultIs
  <2> HIDE DEF loc
  <2>. QED  BY <1>1, <2>1, <2>2, PlacesDiffer
<1>4. LacSafe'
  <2> SUFFICES ASSUME NEW r \in input.graph.lac, rep[r] \notin DOMAIN precolored'
               PROVE  CallSafe(regToLoc'[r]) /\ regToLoc'[r].kind # "Incoming"
    BY <1>1 DEF LacSafe
  <2>1. DOMAIN precolored \subseteq DOMAIN precolored'
    BY DEF BuildResult
  <2>2. r \in Nodes /\ r \notin DOMAIN precolored
    <3>1. r \in Nodes
      BY DEF Inv1, TypeOK, IsInput, IsAllocatable, IsGraph, Nodes
    <3>. QED  BY <1>1, <3>1, ParamFacts DEF ResultInv
  <2>3. InSlot(r, regToLoc'[r]) \/ InColor(r, regToLoc'[r])
    BY <2>1, <2>2, WhereResultIs
  <2>4. CASE InSlot(r, regToLoc'[r])
    BY <2>4 DEF InSlot, Local, CallSafe
  <2>5. CASE InColor(r, regToLoc'[r])
    <3>1. rep[r] \in (colored \cap lac) \ DOMAIN precolored
      BY <2>1, <2>5 DEF InColor, ResultInv, LacInv
    <3>2. colors[rep[r]] >= FirstCalleeSavedColor
      BY <1>1, <3>1 DEF ResultInv, LacInv
    <3>. QED  BY <2>5, <3>2 DEF InColor, CallSafe, R
  <2>. QED  BY <2>3, <2>4, <2>5
<1>5. EveryRegisterPlaced'
  BY <1>1, <1>2, WhereResultIs DEF EveryRegisterPlaced
<1>6. ResultInv'
  BY <1>1, <1>2 DEF ResultInv, FixedInv, PlaceInv, SlotInv, LacInv
<1>7. ParamsInPlace'
  <2> SUFFICES ASSUME NEW p \in 1..Len(input.params), p \notin input.graph.lac \cup coalesced
               PROVE  regToLoc'[p] = ArgLocation(p)
    BY <1>1 DEF ParamsInPlace
  <2>. QED  BY <1>1, ParamIsFixed, FixedResult DEF ResultInv
<1>. QED  BY <1>1, <1>3, <1>4, <1>5, <1>6, <1>7 DEF DoneInv

\* What holds of the result and on the way to it is inductive.
AllocInv ==
  Inv1 /\ EdgeInv /\ ColorInv /\ NoRegisterForgotten /\ ResultInv /\ DoneInv

LEMMA AllocInit == Init => AllocInv
<1> SUFFICES ASSUME Init PROVE AllocInv
  OBVIOUS
<1>1. NoRegisterForgotten /\ DoneInv
  BY DEF Init, NoRegisterForgotten, DoneInv, ResultKeepsApart, EveryRegisterPlaced
<1>. QED  BY <1>1, Inv1Init, EdgeInvInit, ColorInvInit, ResultInit DEF AllocInv

LEMMA AllocStep == AllocInv /\ [Next]_vars => AllocInv'
<1> SUFFICES ASSUME AllocInv, [Next]_vars PROVE AllocInv'
  OBVIOUS
<1>1. Inv1' /\ EdgeInv' /\ ColorInv' /\ NoRegisterForgotten'
  BY Inv1Step, EdgeInvStep, ColorInvStep, ForgottenStep DEF AllocInv
<1>2. ASSUME pc' # "done" PROVE DoneInv'
  BY <1>2 DEF DoneInv, ResultKeepsApart, EveryRegisterPlaced
<1>3. ASSUME UNCHANGED <<input, lac, coalesced, rep, colorVars, precolored, pc>>,
             pc = "loop"
      PROVE  ResultInv' /\ DoneInv'
  <2>1. ResultInv'
    BY <1>3 DEF AllocInv, ResultInv, FixedInv, PlaceInv, SlotInv, LacInv, Nodes, colorVars
  <2>. QED  BY <1>2, <1>3, <2>1
<1>4. CASE BuildWorklists
  <2>1. pc' # "done"
    BY <1>4 DEF BuildWorklists
  <2>. QED  BY <1>1, <1>2, <1>4, <2>1, ResultBuild DEF AllocInv
<1>5. CASE Simplify
  BY <1>1, <1>3, <1>5 DEF Simplify, graphVars, mergeVars, AllocInv
<1>6. CASE Coalesce
  <2>1. PICK m \in worklistMoves : \/ CoalesceSame(m) \/ CoalesceConstrained(m)
                                   \/ Combine(m) \/ CoalesceDefer(m)
    BY <1>6 DEF Coalesce
  <2>2. CASE Combine(m)
    <3>1. pc' # "done"
      BY <2>2 DEF Combine, PopMove
    <3>. QED  BY <1>1, <1>2, <2>2, <3>1, ResultCombine DEF AllocInv
  <2>3. CASE CoalesceSame(m) \/ CoalesceConstrained(m) \/ CoalesceDefer(m)
    <3>1. UNCHANGED <<input, lac, coalesced, rep, colorVars, precolored, pc>> /\ pc = "loop"
      BY <2>3 DEF CoalesceSame, CoalesceConstrained, CoalesceDefer, PopMove, graphVars,
                  mergeVars
    <3>. QED  BY <1>1, <1>3, <3>1 DEF AllocInv
  <2>. QED  BY <2>1, <2>2, <2>3
<1>7. CASE Freeze \/ SelectSpill
  <2>1. UNCHANGED <<input, lac, coalesced, rep, colorVars, precolored, pc>> /\ pc = "loop"
    BY <1>7 DEF Freeze, SelectSpill, SimplifyAndFreezeMoves, graphVars, mergeVars
  <2>. QED  BY <1>1, <1>3, <2>1 DEF AllocInv
<1>8. CASE LoopDone
  <2>1. pc' # "done"
    BY <1>8 DEF LoopDone
  <2>. QED  BY <1>1, <1>2, <1>8, <2>1, ResultLoopDone DEF AllocInv
<1>9. CASE AssignColor
  <2>1. pc' # "done"
    BY <1>9 DEF AssignColor
  <2>. QED  BY <1>1, <1>2, <1>9, <2>1, ResultAssign DEF AllocInv
<1>10. CASE BuildResult
  BY <1>1, <1>10, DoneResult DEF AllocInv
<1>11. CASE UNCHANGED vars
  <2>1. ResultInv'
    BY <1>11 DEF AllocInv, ResultInv, FixedInv, PlaceInv, SlotInv, LacInv, Nodes, vars,
                 colorVars, mergeVars, graphVars
  <2>2. DoneInv'
    BY <1>11 DEF AllocInv, DoneInv, ResultKeepsApart, LacSafe, ParamsInPlace, EveryRegisterPlaced, Recolored,
                 InputEdge, Nodes, vars, colorVars, mergeVars, graphVars
  <2>. QED  BY <1>1, <2>1, <2>2 DEF AllocInv
<1>. QED
  BY <1>4, <1>5, <1>6, <1>7, <1>8, <1>9, <1>10, <1>11 DEF Next, Terminated

LEMMA AllocAlways == Spec => []AllocInv
BY AllocInit, AllocStep, PTL DEF Spec

(***************************************************************************)
(* The result keeps interfering registers apart, in registers, in spill    *)
(* slots and where arguments arrive, for every graph, every number of      *)
(* colors and however often a register is pushed and popped, unless one of *)
(* them is a parameter that was colored again.                             *)
(***************************************************************************)
THEOREM ResultIsApart == Spec => []ResultKeepsApart
<1>1. AllocInv => ResultKeepsApart
  BY DEF AllocInv, DoneInv
<1>. QED  BY <1>1, AllocAlways, PTL

(***************************************************************************)
(* Every register of the function has a location in the result: none is    *)
(* lost between the worklists, the stack, the merges and the slots.        *)
(***************************************************************************)
THEOREM EveryRegisterHasALocation == Spec => []EveryRegisterPlaced
<1>1. AllocInv => EveryRegisterPlaced
  BY DEF AllocInv, DoneInv
<1>. QED  BY <1>1, AllocAlways, PTL

(***************************************************************************)
(* A register live across a call is in a callee-saved register or in a     *)
(* stack slot, for every graph and through any number of merges, unless it *)
(* was merged into a parameter with a fixed location.                      *)
(***************************************************************************)
THEOREM CallsArePreserved == Spec => []CallsPreserve
<1>1. AllocInv => CallsPreserve
  <2> SUFFICES ASSUME AllocInv PROVE CallsPreserve
    OBVIOUS
  <2>1. getAlias = rep
    BY AliasIsRep DEF AllocInv, Inv1
  <2>. QED  BY <2>1 DEF AllocInv, DoneInv, LacSafe, CallsPreserve
<1>. QED  BY <1>1, AllocAlways, PTL

(***************************************************************************)
(* The allocator keeps the promises on which the translation to LTL rests: *)
(* interfering registers are apart, what is live across a call is neither  *)
(* in a register that the call may change nor where an argument arrives,   *)
(* and the other parameters stay where they arrive, for every graph        *)
(* wherever no parameter was merged away or colored again.                 *)
(***************************************************************************)
THEOREM AllocatorKeepsPromises == Spec => []ResultSeparates
<1>1. AllocInv => ResultSeparates
  <2> SUFFICES ASSUME AllocInv, pc = "done", ParamsLeftAlone
               PROVE  Separates(input.graph, input.params, regToLoc, CallUnsafe, ArgLocations)
    BY DEF ResultSeparates
  <2>1. getAlias = rep
    BY AliasIsRep DEF AllocInv, Inv1
  <2> HIDE DEF getAlias
  <2>2. IsInput(input)
    BY DEF AllocInv, Inv1, TypeOK
  <2>3. \A r \in input.graph.nodes : \A s \in input.graph.edges[r] : regToLoc[r] # regToLoc[s]
    <3> SUFFICES ASSUME NEW r \in Nodes, NEW s \in input.graph.edges[r]
                 PROVE  regToLoc[r] # regToLoc[s]
      BY DEF Nodes
    <3>1. s \in Nodes
      BY <2>2 DEF IsInput, IsAllocatable, IsGraph, IsLinks, Nodes
    <3>2. InputEdge(r, s) /\ ~Recolored(r) /\ ~Recolored(s)
      BY <3>1 DEF InputEdge, ParamsLeftAlone
    <3>. QED  BY <3>1, <3>2 DEF AllocInv, DoneInv, ResultKeepsApart
  <2>4. \A r \in input.graph.lac : regToLoc[r] \notin CallUnsafe
    <3> SUFFICES ASSUME NEW r \in input.graph.lac, regToLoc[r] \in CallUnsafe
                 PROVE  FALSE
      OBVIOUS
    <3>1. rep[r] \notin DOMAIN precolored
      BY <2>1 DEF ParamsLeftAlone
    <3>2. CallSafe(regToLoc[r]) /\ regToLoc[r].kind # "Incoming"
      BY <3>1 DEF AllocInv, DoneInv, LacSafe
    <3>3. CASE regToLoc[r] \in {R(c) : c \in 0..FirstCalleeSavedColor - 1}
      BY <3>2, <3>3, ColorAssumption DEF CallSafe, R
    <3>4. CASE \E k \in 1..Len(input.params) : regToLoc[r] = ArgLocation(k)
      <4>1. PICK k \in 1..Len(input.params) : regToLoc[r] = ArgLocation(k)
        BY <3>4
      <4>2. k \in Nat
        BY <2>2 DEF IsInput, IsAllocatable
      <4>3. k <= NumArgRegs
        BY <3>2, <4>1 DEF ArgLocation, Incoming
      <4>4. regToLoc[r] = R(k - 1)
        BY <4>1, <4>3 DEF ArgLocation
      <4>5. k - 1 >= FirstCalleeSavedColor
        BY <3>2, <4>4 DEF CallSafe, R
      <4>. QED  BY <4>2, <4>3, <4>5, ColorAssumption
    <3>. QED  BY <3>3, <3>4 DEF CallUnsafe
  <2>5. ASSUME NEW k \in DOMAIN input.params, input.params[k] \notin input.graph.lac
        PROVE  regToLoc[input.params[k]] = ArgLocations[k]
    <3>1. k \in 1..Len(input.params) /\ input.params[k] = k /\ k \in ToSet(input.params)
      BY <2>2, <2>5 DEF IsInput, IsAllocatable, ToSet
    <3>2. k \notin coalesced
      BY <3>1 DEF ParamsLeftAlone
    <3>. QED  BY <2>5, <3>1, <3>2 DEF AllocInv, DoneInv, ParamsInPlace, ArgLocations
  <2>. QED  BY <2>3, <2>4, <2>5 DEF Separates
<1>. QED  BY <1>1, AllocAlways, PTL
=============================================================================
