----------------------------- MODULE Linearize -----------------------------
(***************************************************************************)
(* pkg/linearize: a control-flow graph becomes a sequence of instructions  *)
(* (computeOrder, assignLabels, emitBlock), jumps to jumps are shortened   *)
(* (Tunnel), labels that nothing refers to are dropped (CleanupLabels),    *)
(* and then the sequence is executed.                                      *)
(*                                                                         *)
(* An instruction of the sequence is [kind, labels, at]: labels are the    *)
(* label it defines or the labels it jumps to, at is the instruction of    *)
(* the graph that it was made from.                                        *)
(***************************************************************************)
EXTENDS CFG, SequencesExt

CONSTANTS Graphs   \* [code, entry] records

ASSUME GraphsAssumption == \A g \in Graphs : IsCFG(g.code, g.entry)

VARIABLES
  graph,
  stack,      \* the calls of dfs in progress: [node, next]
  visited, postorder,
  order,      \* the blocks in the order they are emitted
  block,      \* the block that is emitted, counted along order
  index,      \* the instruction of it that comes next, 0 for its label
  linear,     \* the code
  newCode,    \* what CleanupLabels has kept of it
  pc,         \* the pass at work, "run" or "halted"
  pos,        \* the instruction that is kept or dropped next, or runs next
  last, tick  \* as in CFGRun

ordering == <<stack, visited, postorder, order>>
emitting == <<block, index>>
vars == <<graph, ordering, emitting, linear, newCode, pc, pos, last, tick>>

Init ==
  /\ graph \in Graphs
  /\ stack = <<[node |-> graph.entry, next |-> 1]>> /\ visited = {graph.entry}
  /\ postorder = <<>> /\ order = <<>>
  /\ block = 1 /\ index = 0 /\ linear = <<>> /\ newCode = <<>>
  /\ pc = "order" /\ pos = 1
  /\ last = [at |-> <<graph.entry, 0>>, out |-> 1] /\ tick = FALSE

-----------------------------------------------------------------------------
(***************************************************************************)
(* computeOrder: a depth-first search from the entry point.                *)
(***************************************************************************)
Succs(n) == graph.code[n].succs
Top == stack[Len(stack)]

\* Mutant: the search does not get past a successor it has visited.
VisitSuccessorAgain ==
  /\ pc = "order" /\ stack # <<>>
  /\ Top.next <= Len(Succs(Top.node))
  /\ LET s == Succs(Top.node)[Top.next]
     IN  IF s \in visited
         THEN UNCHANGED <<stack, visited>>
         ELSE stack' = Append(stack, [node |-> s, next |-> 1]) /\ visited' = visited \cup {s}
  /\ UNCHANGED <<graph, postorder, order, emitting, linear, newCode, pc, pos, last, tick>>

VisitSuccessor ==
  /\ pc = "order" /\ stack # <<>>
  /\ Top.next <= Len(Succs(Top.node))
  /\ LET s == Succs(Top.node)[Top.next]
         back == [stack EXCEPT ![Len(stack)].next = @ + 1]
     IN  IF s \in visited
         THEN stack' = back /\ UNCHANGED visited
         ELSE stack' = Append(back, [node |-> s, next |-> 1]) /\ visited' = visited \cup {s}
  /\ UNCHANGED <<graph, postorder, order, emitting, linear, newCode, pc, pos, last, tick>>

LeaveNode ==
  /\ pc = "order" /\ stack # <<>>
  /\ Top.next > Len(Succs(Top.node))
  /\ postorder' = Append(postorder, Top.node)
  /\ stack' = Front(stack)
  /\ UNCHANGED <<graph, visited, order, emitting, linear, newCode, pc, pos, last, tick>>

EndOrder ==
  /\ pc = "order" /\ stack = <<>>
  /\ order' = Reverse(postorder)
  /\ pc' = "emit"
  /\ UNCHANGED <<graph, stack, visited, postorder, emitting, linear, newCode, pos, last, tick>>

-----------------------------------------------------------------------------
(***************************************************************************)
(* assignLabels and emitBlock.                                             *)
(***************************************************************************)
NodeToLbl(n) == CHOOSE l \in DOMAIN order : order[l] = n

Llabel(l) == [kind |-> "label", labels |-> <<l>>, at |-> <<0, 0>>]
Lgoto(l) == [kind |-> "goto", labels |-> <<l>>, at |-> <<0, 0>>]
Lop(p) == [kind |-> "op", labels |-> <<>>, at |-> p]
Lcond(p, l) == [kind |-> "cond", labels |-> <<l>>, at |-> p]
Ljumptable(p, ls) == [kind |-> "jumptable", labels |-> ls, at |-> p]
Lend(p, kind) == [kind |-> kind, labels |-> <<>>, at |-> p]

\* Mutant: a condition whose first branch comes next is emitted alone.
TerminatorWithoutGoto(l) ==
  LET n == order[l]
      b == graph.code[n]
      p == <<n, Len(b.body) + 1>>
      target(j) == NodeToLbl(b.succs[j])
      next(j) == target(j) = l + 1
  IN  CASE b.kind = "branch" -> IF next(1) THEN <<>> ELSE <<Lgoto(target(1))>>
        [] b.kind = "cond" -> IF next(1) \/ next(2) THEN <<Lcond(p, target(1))>>
                              ELSE <<Lcond(p, target(1)), Lgoto(target(2))>>
        [] b.kind = "jumptable" -> <<Ljumptable(p, [j \in DOMAIN b.succs |-> target(j)])>>
        [] OTHER -> <<Lend(p, b.kind)>>

\* emitTerminator: a jump to the block that comes next is left out.
Terminator(l) ==
  LET n == order[l]
      b == graph.code[n]
      p == <<n, Len(b.body) + 1>>
      target(j) == NodeToLbl(b.succs[j])
      next(j) == target(j) = l + 1
  IN  CASE b.kind = "branch" -> IF next(1) THEN <<>> ELSE <<Lgoto(target(1))>>
        [] b.kind = "cond" -> <<Lcond(p, target(1))>>
                              \o IF next(2) THEN <<>> ELSE <<Lgoto(target(2))>>
        [] b.kind = "jumptable" -> <<Ljumptable(p, [j \in DOMAIN b.succs |-> target(j)])>>
        [] OTHER -> <<Lend(p, b.kind)>>

EmitLabel ==
  /\ pc = "emit" /\ block <= Len(order) /\ index = 0
  /\ linear' = Append(linear, Llabel(block))
  /\ index' = 1
  /\ UNCHANGED <<graph, ordering, block, newCode, pc, pos, last, tick>>

\* convertInstruction: nops are left out.
EmitInstruction ==
  /\ pc = "emit" /\ block <= Len(order)
  /\ index \in DOMAIN graph.code[order[block]].body
  /\ linear' = IF graph.code[order[block]].body[index] = "nop" THEN linear
               ELSE Append(linear, Lop(<<order[block], index>>))
  /\ index' = index + 1
  /\ UNCHANGED <<graph, ordering, block, newCode, pc, pos, last, tick>>

EmitTerminator ==
  /\ pc = "emit" /\ block <= Len(order)
  /\ index = Len(graph.code[order[block]].body) + 1
  /\ linear' = linear \o Terminator(block)
  /\ block' = block + 1 /\ index' = 0
  /\ UNCHANGED <<graph, ordering, newCode, pc, pos, last, tick>>

EndEmit ==
  /\ pc = "emit" /\ block > Len(order)
  /\ pc' = "tunnel"
  /\ UNCHANGED <<graph, ordering, emitting, linear, newCode, pos, last, tick>>

-----------------------------------------------------------------------------
(***************************************************************************)
(* Tunnel.                                                                 *)
(***************************************************************************)
IsLabel(q) == linear[q].kind = "label"

JumpTargets ==
  LET qs == {q \in 1..Len(linear) - 1 : IsLabel(q) /\ linear[q + 1].kind = "goto"}
  IN  [l \in {linear[q].labels[1] : q \in qs} |->
         linear[(CHOOSE q \in qs : linear[q].labels[1] = l) + 1].labels[1]]

\* One turn of resolveLabel's loop: it ends at a label that comes up again or jumps nowhere.
Jump(targets, w) ==
  IF w.current \in w.visited \/ w.current \notin DOMAIN targets THEN w
  ELSE [current |-> targets[w.current], visited |-> w.visited \cup {w.current}]

LabelWalk(targets, l) ==
  LET walk[k \in 0..Cardinality(DOMAIN targets) + 1] ==
        IF k = 0 THEN [current |-> l, visited |-> {}] ELSE Jump(targets, walk[k - 1])
  IN  walk

\* Follow jumps to jumps until there is none or a label comes up again.
resolveLabel(l) == LabelWalk(JumpTargets, l)[Cardinality(DOMAIN JumpTargets) + 1].current

TunnelInstruction(inst) ==
  IF inst.kind = "label" THEN inst
  ELSE [inst EXCEPT !.labels = [j \in DOMAIN @ |-> resolveLabel(@[j])]]

Tunnel ==
  /\ pc = "tunnel"
  /\ linear' = [q \in DOMAIN linear |-> TunnelInstruction(linear[q])]
  /\ pc' = "cleanup"
  /\ UNCHANGED <<graph, ordering, emitting, newCode, pos, last, tick>>

-----------------------------------------------------------------------------
(***************************************************************************)
(* CleanupLabels keeps the first label and those that are jumped to.       *)
(***************************************************************************)
\* Mutant: jump tables are overlooked.
UsedByBranches ==
  UNION {ToSet(linear[q].labels) :
           q \in {q \in DOMAIN linear : linear[q].kind \in {"goto", "cond"}}}

UsedLabels ==
  UNION {ToSet(linear[q].labels) : q \in {q \in DOMAIN linear : ~IsLabel(q)}}

CleanupInstruction ==
  /\ pc = "cleanup" /\ pos <= Len(linear)
  /\ LET entry == linear[1].labels[1]
     IN  newCode' = IF IsLabel(pos) /\ linear[pos].labels[1] \notin UsedLabels \cup {entry}
                    THEN newCode ELSE Append(newCode, linear[pos])
  /\ pos' = pos + 1
  /\ UNCHANGED <<graph, ordering, emitting, linear, pc, last, tick>>

EndCleanup ==
  /\ pc = "cleanup" /\ pos > Len(linear)
  /\ linear' = newCode /\ pos' = 1
  /\ pc' = "run"
  /\ UNCHANGED <<graph, ordering, emitting, newCode, last, tick>>

-----------------------------------------------------------------------------
(***************************************************************************)
(* The code at work.                                                       *)
(***************************************************************************)
Defines(q, l) == IsLabel(q) /\ linear[q].labels[1] = l
PlaceOf(l) == CHOOSE q \in DOMAIN linear : Defines(q, l)
Inst == linear[pos]

RunLabel ==
  /\ pc = "run" /\ Inst.kind = "label"
  /\ pos' = pos + 1
  /\ UNCHANGED <<graph, ordering, emitting, linear, newCode, pc, last, tick>>

RunGoto ==
  /\ pc = "run" /\ Inst.kind = "goto"
  /\ pos' = PlaceOf(Inst.labels[1])
  /\ UNCHANGED <<graph, ordering, emitting, linear, newCode, pc, last, tick>>

\* A jump table jumps to one of its labels, a condition to its label or not at all.
RunInstruction ==
  /\ pc = "run" /\ Inst.kind \in {"op", "cond", "jumptable"}
  /\ \E out \in 1..Len(Inst.labels) + (IF Inst.kind = "jumptable" THEN 0 ELSE 1) :
       /\ pos' = IF out <= Len(Inst.labels) THEN PlaceOf(Inst.labels[out]) ELSE pos + 1
       /\ last' = [at |-> Inst.at, out |-> out]
  /\ tick' = ~tick
  /\ UNCHANGED <<graph, ordering, emitting, linear, newCode, pc>>

RunEnd ==
  /\ pc = "run" /\ Inst.kind \in {"return", "tailcall"}
  /\ last' = [at |-> Inst.at, out |-> 1] /\ tick' = ~tick
  /\ pc' = "halted"
  /\ UNCHANGED <<graph, ordering, emitting, linear, newCode, pos>>

Halted == pc = "halted" /\ UNCHANGED vars

Next ==
  \/ VisitSuccessor \/ LeaveNode \/ EndOrder
  \/ EmitLabel \/ EmitInstruction \/ EmitTerminator \/ EndEmit
  \/ Tunnel \/ CleanupInstruction \/ EndCleanup
  \/ RunLabel \/ RunGoto \/ RunInstruction \/ RunEnd \/ Halted

Spec == Init /\ [][Next]_vars

(***************************************************************************)
(* The passes are a sequential program and so is the code it generates.    *)
(***************************************************************************)
FairSpec == Spec /\ WF_vars(Next)

-----------------------------------------------------------------------------
(***************************************************************************)
(* Once all blocks are emitted, and through every later pass, each label   *)
(* that an instruction jumps to is defined once.                           *)
(***************************************************************************)
LabelsResolve ==
  pc \notin {"order", "emit"} =>
    \A p \in DOMAIN linear : \A l \in ToSet(linear[p].labels) :
      Cardinality({q \in DOMAIN linear : Defines(q, l)}) = 1

(***************************************************************************)
(* The code executes the instructions of the graph, along a path of the    *)
(* graph, and returns where the graph does.                                *)
(***************************************************************************)
Graph == INSTANCE CFGRun
FollowsGraph == Graph!Spec

(***************************************************************************)
(* Whenever the graph has a further instruction to execute, the code gets  *)
(* to one: no jump was bent into a loop.                                   *)
(***************************************************************************)
GraphGoesOn == ~Graph!Finished /\ ~Silent(graph.code, FirstVisible(graph.code, Graph!Here))
KeepsGoing ==
  \A b \in BOOLEAN : (tick = b /\ GraphGoesOn) ~> (tick # b)
=============================================================================
