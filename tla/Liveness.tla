------------------------------ MODULE Liveness ------------------------------
(***************************************************************************)
(* AnalyzeLiveness of pkg/regalloc/liveness.go: rounds over all the nodes  *)
(* of a function, each node's live sets recomputed from its successors'    *)
(* and updated in place, until a whole round changes nothing.  The code    *)
(* ranges over the Go map fn.Code, so every round visits the nodes in an   *)
(* arbitrary order; each visit sees the updates of the visits before it.   *)
(***************************************************************************)
EXTENDS RTL, FiniteSets

CONSTANTS Node,       \* control-flow graph nodes
          Reg,        \* pseudo-registers
          Functions   \* the functions to analyse

(***************************************************************************)
(* A function's code is a finite map from nodes to instructions over Reg.  *)
(***************************************************************************)
ASSUME FunctionsAssumption ==
  \A f \in Functions :
    /\ DOMAIN f.code \subseteq Node /\ IsFiniteSet(DOMAIN f.code)
    /\ \A n \in DOMAIN f.code :
         Def(f.code[n]) \subseteq Reg /\ Use(f.code[n]) \subseteq Reg

VARIABLES fn,        \* the function being analysed
          liveIn,    \* registers live at entry of each node
          liveOut,   \* registers live at exit of each node
          todo,      \* nodes the current round has not visited yet
          changed,   \* has the current round changed a live set?
          pc         \* "iterate" or "done"

vars == <<fn, liveIn, liveOut, todo, changed, pc>>

Code == fn.code
CodeNodes == DOMAIN fn.code

(***************************************************************************)
(* The right-hand sides of the dataflow equations.  A successor without    *)
(* code has no entry in the live map, and reading it gives the empty set.  *)
(***************************************************************************)
NewLiveOut(in, n) ==
  UNION {in[s] : s \in Successors(Code[n]) \cap CodeNodes}

\* Mutant: the definition is removed from the uses too.
NewLiveInDefLast(in, n) == (Use(Code[n]) \cup NewLiveOut(in, n)) \ Def(Code[n])

NewLiveIn(in, n) ==
  Use(Code[n]) \cup (NewLiveOut(in, n) \ Def(Code[n]))

Init ==
  /\ fn \in Functions
  /\ liveIn = [n \in CodeNodes |-> {}]
  /\ liveOut = [n \in CodeNodes |-> {}]
  /\ todo = CodeNodes
  /\ changed = FALSE
  /\ pc = "iterate"

\* Mutant: only a change of the live-out set asks for another round.
VisitComparesOut(n) ==
  /\ pc = "iterate"
  /\ n \in todo
  /\ todo' = todo \ {n}
  /\ changed' = (changed \/ liveOut[n] # NewLiveOut(liveIn, n))
  /\ liveIn' = [liveIn EXCEPT ![n] = NewLiveIn(liveIn, n)]
  /\ liveOut' = [liveOut EXCEPT ![n] = NewLiveOut(liveIn, n)]
  /\ UNCHANGED <<fn, pc>>

\* Mutant: definitions are not taken out of the live-in set.
VisitKeepsDefs(n) ==
  /\ pc = "iterate"
  /\ n \in todo
  /\ todo' = todo \ {n}
  /\ LET in == Use(Code[n]) \cup NewLiveOut(liveIn, n)
     IN  /\ changed' = (changed \/ liveIn[n] # in \/ liveOut[n] # NewLiveOut(liveIn, n))
         /\ liveIn' = [liveIn EXCEPT ![n] = in]
  /\ liveOut' = [liveOut EXCEPT ![n] = NewLiveOut(liveIn, n)]
  /\ UNCHANGED <<fn, pc>>

(***************************************************************************)
(* One turn of the inner loop: recompute one node.                         *)
(***************************************************************************)
Visit(n) ==
  /\ pc = "iterate"
  /\ n \in todo
  /\ todo' = todo \ {n}
  /\ IF liveIn[n] # NewLiveIn(liveIn, n) \/ liveOut[n] # NewLiveOut(liveIn, n)
     THEN /\ changed' = TRUE
          /\ liveIn' = [liveIn EXCEPT ![n] = NewLiveIn(liveIn, n)]
          /\ liveOut' = [liveOut EXCEPT ![n] = NewLiveOut(liveIn, n)]
     ELSE UNCHANGED <<changed, liveIn, liveOut>>
  /\ UNCHANGED <<fn, pc>>

\* Mutant: every round starts from empty live sets.
NextRoundStartsOver ==
  /\ pc = "iterate" /\ todo = {} /\ changed
  /\ changed' = FALSE
  /\ todo' = CodeNodes
  /\ liveIn' = [n \in CodeNodes |-> {}]
  /\ UNCHANGED <<fn, liveOut, pc>>

\* Mutant: changed is not reset at the start of a round.
NextRoundKeepsChanged ==
  /\ pc = "iterate" /\ todo = {} /\ changed
  /\ todo' = CodeNodes
  /\ UNCHANGED <<fn, liveIn, liveOut, changed, pc>>

(***************************************************************************)
(* The outer loop: another round after a change, the result otherwise.     *)
(***************************************************************************)
NextRound ==
  /\ pc = "iterate" /\ todo = {} /\ changed
  /\ changed' = FALSE
  /\ todo' = CodeNodes
  /\ UNCHANGED <<fn, liveIn, liveOut, pc>>

Finish ==
  /\ pc = "iterate" /\ todo = {} /\ ~changed
  /\ pc' = "done"
  /\ UNCHANGED <<fn, liveIn, liveOut, todo, changed>>

Terminated == pc = "done" /\ UNCHANGED vars

Next == (\E n \in Node : Visit(n)) \/ NextRound \/ Finish \/ Terminated

Spec == Init /\ [][Next]_vars

\* The analysis is a loop of one goroutine: it keeps running until it returns.
FairSpec == Spec /\ WF_vars(Next)

-----------------------------------------------------------------------------
\* Every variable has its type.
TypeOK ==
  /\ fn \in Functions
  /\ liveIn \in [CodeNodes -> SUBSET Reg]
  /\ liveOut \in [CodeNodes -> SUBSET Reg]
  /\ todo \subseteq CodeNodes
  /\ changed \in BOOLEAN
  /\ pc \in {"iterate", "done"}

(***************************************************************************)
(* A round that changed nothing has really reached a fixed point: the maps *)
(* AnalyzeLiveness returns solve the dataflow equations at every node,     *)
(* although each node was compared with live sets that later visits of the *)
(* same round could still have changed.                                    *)
(***************************************************************************)
DoneSolvesEquations ==
  pc = "done" =>
    \A n \in CodeNodes : /\ liveOut[n] = NewLiveOut(liveIn, n)
                         /\ liveIn[n] = NewLiveIn(liveIn, n)

(***************************************************************************)
(* The in-place iteration never marks a register live that some solution   *)
(* of the equations leaves dead, so what AnalyzeLiveness returns is the    *)
(* least solution whatever the order of the visits.                        *)
(***************************************************************************)
Solutions ==
  {in \in [CodeNodes -> SUBSET Reg] :
     \A n \in CodeNodes : NewLiveIn(in, n) \subseteq in[n]}

BelowEverySolution ==
  \A in \in Solutions :
    \A n \in CodeNodes : /\ liveIn[n] \subseteq in[n]
                         /\ liveOut[n] \subseteq NewLiveOut(in, n)

(***************************************************************************)
(* The result is liveness itself, defined on paths: a register is live at  *)
(* entry of n when some path from n reaches an instruction that uses it    *)
(* and no instruction before that one defines it.                          *)
(***************************************************************************)
Paths == UNION {[1..k -> CodeNodes] : k \in 1..Cardinality(CodeNodes)}

LiveOnPath(r, p) ==
  /\ r \in Use(Code[p[Len(p)]])
  /\ \A i \in 1..Len(p) - 1 : /\ p[i+1] \in Successors(Code[p[i]])
                              /\ r \notin Def(Code[p[i]])

DoneIsPathLiveness ==
  pc = "done" =>
    \A n \in CodeNodes :
      liveIn[n] = {r \in Reg : \E p \in Paths : p[1] = n /\ LiveOnPath(r, p)}

(***************************************************************************)
(* Live sets only grow, across visits and rounds: this is what makes the   *)
(* loop of AnalyzeLiveness stop.                                           *)
(***************************************************************************)
LiveSetsOnlyGrow ==
  [][\A n \in CodeNodes : /\ liveIn[n] \subseteq liveIn'[n]
                          /\ liveOut[n] \subseteq liveOut'[n]]_vars

\* The analysis of every function terminates, whatever the visiting orders.
Termination == <>(pc = "done")
=============================================================================
