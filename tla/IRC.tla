-------------------------------- MODULE IRC --------------------------------
(***************************************************************************)
(* The register allocator of pkg/regalloc/irc.go: Iterated Register        *)
(* Coalescing over an interference graph.  One action per handler of the   *)
(* main loop of Allocate, one per register that assignColors pops, and one *)
(* for the end of assignColors with buildResult.                           *)
(*                                                                         *)
(* simplifyWorklist, freezeWorklist and selectStack are the code's slices, *)
(* popped at their end.  The order of spillWorklist only breaks ties in    *)
(* selectSpill, so it is a bag: how often each register is on the list.    *)
(* worklistMoves is filled in map order and popped, and activeMoves holds  *)
(* no move twice, so both are sets.  A loop over a Go map visits its keys  *)
(* in any order: where that order shows, it is chosen with \E.             *)
(***************************************************************************)
EXTENDS Interference, FiniteSets

CONSTANTS
  Reg,                    \* pseudo-registers, numbered from 1
  K,                      \* allocatable registers, NumAllocatableIntRegs
  FirstCalleeSavedColor,  \* colors from this one on are callee-saved
  NumArgRegs,             \* parameters passed in registers, len(IntArgRegs)
  Inputs,                 \* [params, graph] records to allocate
  MaxStack                \* bound: no register is pushed on a stack this long

ASSUME RegAssumption == Reg \subseteq Nat \ {0} /\ IsFiniteSet(Reg)
ASSUME ColorAssumption ==
  /\ K \in Nat \ {0}
  /\ FirstCalleeSavedColor \in 0..K
  /\ NumArgRegs \in 0..FirstCalleeSavedColor
ASSUME BoundAssumption == MaxStack \in Nat

IsInput(in) == in.graph.nodes \subseteq Reg /\ IsAllocatable(in.params, in.graph)

ASSUME InputsAssumption == \A in \in Inputs : IsInput(in)

VARIABLES
  input,             \* the parameters and the graph as built
  edges, prefs, lac, \* the graph, which coalescing changes
  simplifyWorklist, freezeWorklist, spillWorklist,
  worklistMoves, activeMoves,
  coalescedMoves, constrainedMoves, frozenMoves,
  coalesced,         \* coalescedNodes
  alias,             \* alias of each coalesced node
  rep,               \* auxiliary: where the aliases of each node lead
  selectStack,
  colored, colors,   \* coloredNodes and their colors
  spilled, spillSlot, nextSpillSlot,
  precolored,        \* precoloredParams: fixed locations
  regToLoc,          \* the result
  pc

graphVars == <<edges, prefs, lac>>
moveVars == <<worklistMoves, activeMoves, coalescedMoves, constrainedMoves, frozenMoves>>
mergeVars == <<coalesced, alias, rep>>
colorVars == <<colored, colors, spilled, spillSlot, nextSpillSlot>>
vars == <<input, graphVars, simplifyWorklist, freezeWorklist, spillWorklist,
          moveVars, mergeVars, selectStack, colorVars, precolored, regToLoc, pc>>

Nodes == input.graph.nodes
Moves == {m \in Nodes \X Nodes : m[1] < m[2] /\ m[2] \in input.graph.prefs[m[1]]}

(***************************************************************************)
(* Locations: a machine register by its color, a slot of the callee's      *)
(* frame, or a slot where the caller left an argument.                     *)
(***************************************************************************)
R(c) == [kind |-> "R", at |-> c]
Local(ofs) == [kind |-> "Local", at |-> ofs]
Incoming(ofs) == [kind |-> "Incoming", at |-> ofs]
NoLoc == [kind |-> "None", at |-> 0]
\* Mutant: the spill slots overlap.
NoSlotSize == 0

SlotSize == 8

ArgLocation(i) ==
  IF i <= NumArgRegs THEN R(i - 1) ELSE Incoming((i - 1 - NumArgRegs) * SlotSize)

\* Mutant: the locations of the parameters are off by one.
PrecoloredOffByOne(params, acrossCalls) ==
  [p \in ToSet(params) \ acrossCalls |->
     ArgLocation(1 + CHOOSE i \in 1..Len(params) : params[i] = p)]

(***************************************************************************)
(* NewAllocator: parameters not live across a call keep the location the   *)
(* calling convention gives them.                                          *)
(***************************************************************************)
PrecoloredParams(params, acrossCalls) ==
  [p \in ToSet(params) \ acrossCalls |->
     ArgLocation(CHOOSE i \in 1..Len(params) : params[i] = p)]

Init ==
  /\ input \in Inputs
  /\ edges = input.graph.edges /\ prefs = input.graph.prefs /\ lac = input.graph.lac
  /\ simplifyWorklist = <<>> /\ freezeWorklist = <<>>
  /\ spillWorklist = [r \in Nodes |-> 0]
  /\ worklistMoves = {} /\ activeMoves = {}
  /\ coalescedMoves = {} /\ constrainedMoves = {} /\ frozenMoves = {}
  /\ coalesced = {}
  /\ alias = [r \in Nodes |-> r] /\ rep = [r \in Nodes |-> r]
  /\ selectStack = <<>>
  /\ colored = {} /\ colors = [r \in Nodes |-> 0]
  /\ spilled = {} /\ spillSlot = [r \in Nodes |-> 0] /\ nextSpillSlot = 0
  /\ precolored = PrecoloredParams(input.params, input.graph.lac)
  /\ regToLoc = [r \in Nodes |-> NoLoc]
  /\ pc = "build"

-----------------------------------------------------------------------------
(***************************************************************************)
(* degree: neighbours that are neither coalesced nor on the select stack.  *)
(***************************************************************************)
Removed == coalesced \cup ToSet(selectStack)
Degree(links, removed, r) == Cardinality(links[r] \ removed)
MoveRelated(r) == prefs[r] # {}

getAlias[r \in Nodes] == IF r \in coalesced THEN getAlias[alias[r]] ELSE r

\* Mutant: a register is taken off a list it is not on.
DecrementUnguarded(count, S) ==
  [r \in DOMAIN count |-> IF r \in S THEN count[r] - 1 ELSE count[r]]

Decrement(count, S) == [r \in DOMAIN count |->
                          IF r \in S /\ count[r] > 0 THEN count[r] - 1 ELSE count[r]]

(***************************************************************************)
(* decrementDegree, called on each register of S once its degree has been  *)
(* lowered: those whose degree is now exactly K-1 leave the spill worklist *)
(* and join the freeze or the simplify worklist.                           *)
(***************************************************************************)
DroppedBelowK(S, links, removed) ==
  {n \in S : n \notin coalesced /\ Degree(links, removed, n) = K - 1}

(***************************************************************************)
(* addToWorklist, called on each register of S: low-degree registers that  *)
(* are in no move any more go from the freeze to the simplify worklist.    *)
(***************************************************************************)
Simplifiable(S, links, partners, merged) ==
  {r \in S : /\ r \notin merged
             /\ Degree(links, merged \cup ToSet(selectStack), r) < K
             /\ partners[r] = {}}

RemoveEach(list, S) ==
  IF S = {} THEN list ELSE FoldSet(LAMBDA r, l : RemoveFirst(l, r), list, S)

-----------------------------------------------------------------------------
(***************************************************************************)
(* buildWorklists: register parameters get their color; every other node   *)
(* goes to the worklist its degree and its moves call for, in map order.   *)
(***************************************************************************)
BuildWorklists ==
  LET free == Nodes \ DOMAIN precolored
      high == {r \in free : Degree(edges, {}, r) >= K}
      low == free \ high
      inReg == {p \in DOMAIN precolored : precolored[p].kind = "R"}
  IN  /\ pc = "build"
      /\ colored' = inReg
      /\ colors' = [r \in Nodes |-> IF r \in inReg THEN precolored[r].at ELSE 0]
      /\ spillWorklist' = [r \in Nodes |-> IF r \in high THEN 1 ELSE 0]
      /\ freezeWorklist' \in SetToSeqs({r \in low : MoveRelated(r)})
      /\ simplifyWorklist' \in SetToSeqs({r \in low : ~MoveRelated(r)})
      /\ worklistMoves' = Moves
      /\ pc' = "loop"
      /\ UNCHANGED <<input, graphVars, mergeVars, selectStack, spilled, spillSlot,
                     nextSpillSlot, precolored, regToLoc, activeMoves,
                     coalescedMoves, constrainedMoves, frozenMoves>>

(***************************************************************************)
(* simplify: the last register of the worklist goes on the select stack.   *)
(* Nothing in the code bounds the stack; MaxStack bounds the model.        *)
(***************************************************************************)
Simplify ==
  /\ pc = "loop" /\ simplifyWorklist # <<>>
  /\ Len(selectStack) < MaxStack
  /\ LET r == Last(simplifyWorklist)
         hit == DroppedBelowK(edges[r], edges, coalesced \cup ToSet(selectStack) \cup {r})
     IN  /\ selectStack' = Append(selectStack, r)
         /\ spillWorklist' = Decrement(spillWorklist, hit)
         /\ \E toFreeze \in SetToSeqs({n \in hit : MoveRelated(n)}),
               toSimplify \in SetToSeqs({n \in hit : ~MoveRelated(n)}) :
              /\ freezeWorklist' = freezeWorklist \o toFreeze
              /\ simplifyWorklist' = Front(simplifyWorklist) \o toSimplify
  /\ UNCHANGED <<input, graphVars, moveVars, mergeVars, colorVars, precolored, regToLoc, pc>>

-----------------------------------------------------------------------------
(***************************************************************************)
(* coalesce pops a move when nothing is left to simplify.  Its ends are    *)
(* resolved through their aliases, and the lower-numbered one, u, absorbs  *)
(* the other, v.                                                           *)
(***************************************************************************)
LowEnd(m) == IF getAlias[m[1]] < getAlias[m[2]] THEN getAlias[m[1]] ELSE getAlias[m[2]]
HighEnd(m) == IF getAlias[m[1]] < getAlias[m[2]] THEN getAlias[m[2]] ELSE getAlias[m[1]]

PopMove(m) ==
  /\ pc = "loop" /\ simplifyWorklist = <<>>
  /\ m \in worklistMoves
  /\ worklistMoves' = worklistMoves \ {m}

AddToWorklists(S) ==
  LET ready == Simplifiable(S, edges, prefs, coalesced)
  IN  /\ \E added \in SetToSeqs(ready) : simplifyWorklist' = simplifyWorklist \o added
      /\ freezeWorklist' = RemoveEach(freezeWorklist, ready)

\* Both ends have already been merged.
CoalesceSame(m) ==
  /\ PopMove(m)
  /\ LowEnd(m) = HighEnd(m)
  /\ coalescedMoves' = coalescedMoves \cup {m}
  /\ AddToWorklists({LowEnd(m)})
  /\ UNCHANGED <<input, graphVars, mergeVars, selectStack, colorVars, precolored, regToLoc,
                 pc, spillWorklist, activeMoves, constrainedMoves, frozenMoves>>

\* The ends interfere: the move stays.
CoalesceConstrained(m) ==
  /\ PopMove(m)
  /\ LowEnd(m) # HighEnd(m)
  /\ HighEnd(m) \in edges[LowEnd(m)]
  /\ constrainedMoves' = constrainedMoves \cup {m}
  /\ AddToWorklists({LowEnd(m), HighEnd(m)})
  /\ UNCHANGED <<input, graphVars, mergeVars, selectStack, colorVars, precolored, regToLoc,
                 pc, spillWorklist, activeMoves, coalescedMoves, frozenMoves>>

\* Mutant: every move whose ends do not interfere is coalesced.
AggressiveCoalesce(u, v) == u # v

(***************************************************************************)
(* conservativeCoalesce, Briggs's criterion: the merged node would have    *)
(* fewer than K neighbours of significant degree.                          *)
(***************************************************************************)
conservativeCoalesce(u, v) ==
  Cardinality({n \in (edges[u] \cup edges[v]) \ coalesced :
                 Degree(edges, Removed, n) >= K}) < K

\* Mutant: neighbours that have already been removed are not inherited.
MergedLinksSkipRemoved(links, u, inherited) ==
  [n \in Nodes |-> IF n = u THEN links[u] \cup (inherited \ Removed)
                   ELSE IF n \in inherited \ Removed THEN links[n] \cup {u}
                   ELSE links[n]]

(***************************************************************************)
(* combine: v is merged into u, which inherits its neighbours, its moves   *)
(* and its being live across calls.  u counts as a high-degree node again  *)
(* when the merge makes it one, even if it is on the spill worklist.       *)
(***************************************************************************)
MergedLinks(links, u, inherited) ==
  [n \in Nodes |-> IF n = u THEN links[u] \cup inherited
                   ELSE IF n \in inherited THEN links[n] \cup {u}
                   ELSE links[n]]

Combine(m) ==
  /\ PopMove(m)
  /\ LET u == LowEnd(m)
         v == HighEnd(m)
         merged == coalesced \cup {v}
         moved == {n \in edges[v] : n \notin merged /\ n # u}
         links == MergedLinks(edges, u, moved)
         hit == DroppedBelowK(moved, links, merged \cup ToSet(selectStack))
         high == Degree(links, merged \cup ToSet(selectStack), u) >= K
         spilling == Decrement(Decrement(spillWorklist, {v}), hit)
         partners == MergedLinks(prefs, u, prefs[v] \ {u})
         moveless == Simplifiable({u}, links, partners, merged)
     IN  /\ u # v
         /\ v \notin edges[u]
         /\ conservativeCoalesce(u, v)
         /\ coalesced' = merged
         /\ alias' = [alias EXCEPT ![v] = u]
         /\ rep' = [r \in Nodes |-> IF rep[r] = v THEN u ELSE rep[r]]
         /\ lac' = IF v \in lac THEN lac \cup {u} ELSE lac
         /\ edges' = links
         /\ prefs' = partners
         /\ spillWorklist' = [spilling EXCEPT ![u] = IF high THEN @ + 1 ELSE @]
         /\ \E toFreeze \in SetToSeqs({n \in hit : MoveRelated(n)}),
               toSimplify \in SetToSeqs({n \in hit : ~MoveRelated(n)}),
               added \in SetToSeqs(moveless) :
              LET freezing == RemoveFirst(freezeWorklist, v) \o toFreeze
              IN  /\ freezeWorklist' =
                       RemoveEach(IF high THEN RemoveFirst(freezing, u) ELSE freezing,
                                  moveless)
                  /\ simplifyWorklist' = simplifyWorklist \o toSimplify \o added
  /\ coalescedMoves' = coalescedMoves \cup {m}
  /\ UNCHANGED <<input, selectStack, colorVars, precolored, regToLoc, pc,
                 activeMoves, constrainedMoves, frozenMoves>>

\* Mutant: the move stays on the worklist and is tried again.
CoalesceRetry(m) ==
  /\ pc = "loop" /\ simplifyWorklist = <<>> /\ m \in worklistMoves
  /\ LowEnd(m) # HighEnd(m)
  /\ HighEnd(m) \notin edges[LowEnd(m)]
  /\ ~conservativeCoalesce(LowEnd(m), HighEnd(m))
  /\ UNCHANGED vars

\* Merging might make the graph uncolorable: the move stays active.
CoalesceDefer(m) ==
  /\ PopMove(m)
  /\ LowEnd(m) # HighEnd(m)
  /\ HighEnd(m) \notin edges[LowEnd(m)]
  /\ ~conservativeCoalesce(LowEnd(m), HighEnd(m))
  /\ activeMoves' = activeMoves \cup {m}
  /\ UNCHANGED <<input, graphVars, mergeVars, selectStack, colorVars, precolored, regToLoc,
                 pc, simplifyWorklist, freezeWorklist, spillWorklist, coalescedMoves,
                 constrainedMoves, frozenMoves>>

Coalesce == \E m \in worklistMoves :
              \/ CoalesceSame(m) \/ CoalesceConstrained(m)
              \/ Combine(m) \/ CoalesceDefer(m)
-----------------------------------------------------------------------------
(***************************************************************************)
(* freezeMovesFor: the active moves of r, compared with its own number and *)
(* not with its aliases, are given up; their other ends may be simplified. *)
(***************************************************************************)
ActiveMovesOf(r) == {m \in activeMoves : r \in {m[1], m[2]}}

\* Mutant: the register whose moves are frozen goes to no worklist.
OnlyFreezeMoves(r, freezing) ==
  /\ activeMoves' = activeMoves \ ActiveMovesOf(r)
  /\ frozenMoves' = frozenMoves \cup ActiveMovesOf(r)
  /\ freezeWorklist' = freezing
  /\ UNCHANGED <<input, graphVars, simplifyWorklist, worklistMoves, coalescedMoves,
                 constrainedMoves, mergeVars, selectStack, colorVars, precolored,
                 regToLoc, pc>>

SimplifyAndFreezeMoves(r, freezing) ==
  LET ready == Simplifiable(UNION {{m[1], m[2]} \ {r} : m \in ActiveMovesOf(r)},
                            edges, prefs, coalesced)
  IN  /\ \E added \in SetToSeqs(ready) :
           simplifyWorklist' = Append(simplifyWorklist, r) \o added
      /\ freezeWorklist' = RemoveEach(freezing, ready)
      /\ activeMoves' = activeMoves \ ActiveMovesOf(r)
      /\ frozenMoves' = frozenMoves \cup ActiveMovesOf(r)
      /\ UNCHANGED <<input, graphVars, worklistMoves, coalescedMoves, constrainedMoves,
                     mergeVars, selectStack, colorVars, precolored, regToLoc, pc>>

Freeze ==
  /\ pc = "loop" /\ simplifyWorklist = <<>> /\ worklistMoves = {}
  /\ freezeWorklist # <<>>
  /\ SimplifyAndFreezeMoves(Last(freezeWorklist), Front(freezeWorklist))
  /\ UNCHANGED spillWorklist

(***************************************************************************)
(* selectSpill: a register of the highest degree on the list is simplified *)
(* optimistically.                                                         *)
(***************************************************************************)
OnSpillWorklist == {r \in Nodes : spillWorklist[r] > 0}

SelectSpill ==
  /\ pc = "loop" /\ simplifyWorklist = <<>> /\ worklistMoves = {} /\ freezeWorklist = <<>>
  /\ \E r \in OnSpillWorklist :
       /\ \A s \in OnSpillWorklist : Degree(edges, Removed, s) <= Degree(edges, Removed, r)
       /\ spillWorklist' = Decrement(spillWorklist, {r})
       /\ SimplifyAndFreezeMoves(r, freezeWorklist)

LoopDone ==
  /\ pc = "loop" /\ simplifyWorklist = <<>> /\ worklistMoves = {}
  /\ freezeWorklist = <<>> /\ OnSpillWorklist = {}
  /\ pc' = "assign"
  /\ UNCHANGED <<input, graphVars, simplifyWorklist, freezeWorklist, spillWorklist,
                 moveVars, mergeVars, selectStack, colorVars, precolored, regToLoc>>
-----------------------------------------------------------------------------
\* Mutant: the colors of precolored neighbours are overlooked.
UsedColorsButParams(r) ==
  {colors[getAlias[n]] : n \in {m \in edges[r] : getAlias[m] \in colored \ DOMAIN precolored}}

(***************************************************************************)
(* assignColors, one register of the stack: the lowest color that no       *)
(* colored neighbour has, from the callee-saved ones on when the register  *)
(* is live across a call, or else a new spill slot.                        *)
(***************************************************************************)
UsedColors(r) == {colors[getAlias[n]] : n \in {m \in edges[r] : getAlias[m] \in colored}}

\* Mutant: being live across a call does not matter.
FreeColorsAnywhere(r) == {c \in 0..K-1 : c \notin UsedColors(r)}

FreeColors(r) ==
  {c \in 0..K-1 : c \notin UsedColors(r) /\ (r \in lac => c >= FirstCalleeSavedColor)}

AssignColor ==
  /\ pc = "assign" /\ selectStack # <<>>
  /\ selectStack' = Front(selectStack)
  /\ LET r == Last(selectStack)
     IN  \/ /\ FreeColors(r) # {}
            /\ colored' = colored \cup {r}
            /\ colors' = [colors EXCEPT ![r] = Min(FreeColors(r))]
            /\ UNCHANGED <<spilled, spillSlot, nextSpillSlot>>
         \/ /\ FreeColors(r) = {}
            /\ spilled' = spilled \cup {r}
            /\ spillSlot' = [spillSlot EXCEPT ![r] = nextSpillSlot]
            /\ nextSpillSlot' = nextSpillSlot + SlotSize
            /\ UNCHANGED <<colored, colors>>
  /\ UNCHANGED <<input, graphVars, simplifyWorklist, freezeWorklist, spillWorklist,
                 moveVars, mergeVars, precolored, regToLoc, pc>>

(***************************************************************************)
(* The end of assignColors gives coalesced registers the color, the slot   *)
(* or the parameter slot of their alias; buildResult turns this into       *)
(* locations.  A fixed parameter location wins, then a spill slot.         *)
(***************************************************************************)
\* Mutant: only the first alias is followed.
InheritFromAlias(S) == {r \in coalesced : alias[r] \in S}

Inherit(S) == {r \in coalesced : getAlias[r] \in S}

BuildResult ==
  LET inherits == {r \in coalesced : /\ getAlias[r] \notin colored \cup spilled
                                     /\ getAlias[r] \in DOMAIN precolored}
      fixed == [r \in DOMAIN precolored \cup inherits |->
                  IF r \in inherits THEN precolored[getAlias[r]] ELSE precolored[r]]
  IN  /\ pc = "assign" /\ selectStack = <<>>
      /\ colors' = [r \in Nodes |-> IF r \in Inherit(colored) THEN colors[getAlias[r]]
                                    ELSE colors[r]]
      /\ spillSlot' = [r \in Nodes |-> IF r \in Inherit(spilled \ colored)
                                       THEN spillSlot[getAlias[r]] ELSE spillSlot[r]]
      /\ colored' = colored \cup Inherit(colored)
      /\ spilled' = spilled \cup Inherit(spilled \ colored)
      /\ precolored' = fixed
      /\ regToLoc' = [r \in Nodes |-> IF r \in DOMAIN fixed THEN fixed[r]
                                      ELSE IF r \in spilled' THEN Local(spillSlot'[r])
                                      ELSE IF r \in colored' THEN R(colors'[r])
                                      ELSE NoLoc]
      /\ pc' = "done"
      /\ UNCHANGED <<input, graphVars, simplifyWorklist, freezeWorklist, spillWorklist,
                     moveVars, mergeVars, selectStack, nextSpillSlot>>

Terminated == pc = "done" /\ UNCHANGED vars

Next == \/ BuildWorklists \/ Simplify \/ Coalesce \/ Freeze \/ SelectSpill
        \/ LoopDone \/ AssignColor \/ BuildResult \/ Terminated

Spec == Init /\ [][Next]_vars

\* Allocate is a loop of one goroutine: it keeps running until it returns.
FairSpec == Spec /\ WF_vars(Next)

-----------------------------------------------------------------------------
\* Every variable has its type.
TypeOK ==
  /\ IsInput(input)
  /\ IsLinks(Nodes, edges) /\ IsLinks(Nodes, prefs)
  /\ lac \subseteq Nodes
  /\ simplifyWorklist \in Seq(Nodes) /\ freezeWorklist \in Seq(Nodes)
  /\ spillWorklist \in [Nodes -> Nat]
  /\ worklistMoves \subseteq Moves /\ activeMoves \subseteq Moves
  /\ coalescedMoves \subseteq Moves /\ constrainedMoves \subseteq Moves
  /\ frozenMoves \subseteq Moves
  /\ coalesced \subseteq Nodes
  /\ alias \in [Nodes -> Nodes] /\ rep \in [Nodes -> Nodes]
  /\ selectStack \in Seq(Nodes)
  /\ colored \subseteq Nodes /\ colors \in [Nodes -> 0..K-1]
  /\ spilled \subseteq Nodes /\ spillSlot \in [Nodes -> Nat] /\ nextSpillSlot \in Nat
  /\ DOMAIN precolored \subseteq Nodes
  /\ \A p \in DOMAIN precolored : precolored[p].kind = "R" => precolored[p].at \in 0..K-1
  /\ DOMAIN regToLoc = Nodes
  /\ pc \in {"build", "loop", "assign", "done"}

InputEdge(a, b) == b \in input.graph.edges[a]

(***************************************************************************)
(* Coalescing never merges interfering registers and never loses an edge:  *)
(* the representatives of two registers that interfered in the graph as    *)
(* built are still distinct and still linked, however long the chain of    *)
(* aliases that combine has built.                                         *)
(***************************************************************************)
InterferencePreserved ==
  \A a, b \in Nodes : InputEdge(a, b) => getAlias[b] \in edges[getAlias[a]]

(***************************************************************************)
(* The colors the allocator computes are a proper coloring of the graph as *)
(* built, at every moment and even for registers that were pushed on the   *)
(* select stack, and hence colored, more than once.                        *)
(***************************************************************************)
ColorsDiffer ==
  \A a, b \in Nodes :
    InputEdge(a, b) /\ {getAlias[a], getAlias[b]} \subseteq colored
      => colors[getAlias[a]] # colors[getAlias[b]]

\* A parameter whose fixed register is no longer the color the others avoid.
Recolored(p) == /\ p \in DOMAIN precolored
                /\ precolored[p].kind = "R"
                /\ colors[p] # precolored[p].at

(***************************************************************************)
(* The result keeps interfering registers apart, in registers and in stack *)
(* slots, unless one is a precolored parameter that was colored again.     *)
(***************************************************************************)
ResultKeepsApart ==
  pc = "done" =>
    \A a, b \in Nodes :
      InputEdge(a, b) /\ ~Recolored(a) /\ ~Recolored(b) => regToLoc[a] # regToLoc[b]

(***************************************************************************)
(* No register is forgotten: until colors are assigned, every register     *)
(* without a fixed location is on a worklist, on the select stack, or      *)
(* merged into another one.                                                *)
(***************************************************************************)
NoRegisterForgotten ==
  pc = "loop" =>
    Nodes = DOMAIN precolored \cup Removed \cup OnSpillWorklist
              \cup ToSet(simplifyWorklist) \cup ToSet(freezeWorklist)

(***************************************************************************)
(* The result has a location for every register: none was lost on the way  *)
(* through the worklists, the stack, the merges and the spill slots.       *)
(***************************************************************************)
EveryRegisterPlaced == pc = "done" => \A r \in Nodes : regToLoc[r] # NoLoc

CallSafe(loc) == loc.kind = "R" => loc.at >= FirstCalleeSavedColor

(***************************************************************************)
(* A register live across a call is in a callee-saved register or on the   *)
(* stack, through any number of merges, unless it was merged into a        *)
(* precolored parameter.                                                   *)
(***************************************************************************)
CallsPreserve ==
  pc = "done" =>
    \A r \in input.graph.lac :
      getAlias[r] \notin DOMAIN precolored => CallSafe(regToLoc[r])

(***************************************************************************)
(* No parameter was colored again, merged into another one, or given a     *)
(* register that is live across a call.                                    *)
(***************************************************************************)
ParamsLeftAlone ==
  /\ \A p \in Nodes : ~Recolored(p)
  /\ ToSet(input.params) \cap coalesced = {}
  /\ \A r \in input.graph.lac : getAlias[r] \notin DOMAIN precolored

ArgLocations == [k \in 1..Len(input.params) |-> ArgLocation(k)]

\* Where a register that is live across a call must not be.
CallUnsafe ==
  {R(c) : c \in 0..FirstCalleeSavedColor - 1} \cup {ArgLocation(k) : k \in 1..Len(input.params)}

(***************************************************************************)
(* The result is what the transformation to LTL relies on, wherever the    *)
(* parameters were left alone.                                             *)
(***************************************************************************)
ResultSeparates ==
  pc = "done" /\ ParamsLeftAlone =>
    Separates(input.graph, input.params, regToLoc, CallUnsafe, ArgLocations)

(***************************************************************************)
(* A graph can be simplified completely when no set of registers all have  *)
(* K neighbours within the set.                                            *)
(***************************************************************************)
GreedyColorable(nodes, links) ==
  \A S \in SUBSET nodes : S # {} => \E r \in S : Cardinality(links[r] \cap S) < K

(***************************************************************************)
(* Conservative coalescing costs nothing: a graph that can be simplified   *)
(* completely, and so colored without spilling, stays one through every    *)
(* merge that conservativeCoalesce admits.                                 *)
(***************************************************************************)
ColorabilityKept ==
  GreedyColorable(Nodes, input.graph.edges) => GreedyColorable(Nodes \ coalesced, edges)

\* A register is removed from the graph at most once.
RemovedOnce ==
  \A i, j \in 1..Len(selectStack) : selectStack[i] = selectStack[j] => i = j

\* Precolored parameters are on no worklist and their colors are fixed.
ParamColorsFixed == pc # "build" => \A p \in Nodes : ~Recolored(p)

\* Registers live across a call survive it.
AllCallsPreserve == pc = "done" => \A r \in input.graph.lac : CallSafe(regToLoc[r])

(***************************************************************************)
(* The allocator returns for every graph that needs no spilling, through   *)
(* coalescing, freezing and precolored parameters that are queued again.   *)
(***************************************************************************)
Termination == GreedyColorable(Nodes, input.graph.edges) => <>(pc = "done")
=============================================================================
