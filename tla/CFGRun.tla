------------------------------- MODULE CFGRun -------------------------------
(***************************************************************************)
(* What a control-flow graph promises of any code made from it: the        *)
(* instructions that are executed, one after the other, are those of some  *)
(* path of the graph, with nops and branches left out.                     *)
(***************************************************************************)
EXTENDS CFG

VARIABLES
  graph,   \* [code, entry], the same throughout
  last,    \* the instruction executed last and how it went: [at, out]
  tick     \* changes with each instruction

Init ==
  /\ IsCFG(graph.code, graph.entry)
  /\ last = [at |-> <<graph.entry, 0>>, out |-> 1]
  /\ tick = FALSE

\* Where the instruction executed last leads.
Here ==
  IF last.at[2] = 0 THEN <<graph.entry, 1>> ELSE Following(graph.code, last.at, last.out)

Finished == last.at[2] # 0 /\ IsExit(graph.code, last.at)

Execute ==
  /\ ~Finished
  /\ LET p == FirstVisible(graph.code, Here)
     IN  /\ ~Silent(graph.code, p)
         /\ \E out \in Outcomes(graph.code, p) : last' = [at |-> p, out |-> out]
  /\ tick' = ~tick
  /\ UNCHANGED graph

Spec == Init /\ [][Execute]_<<graph, last, tick>>
=============================================================================
