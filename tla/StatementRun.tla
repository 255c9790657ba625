---------------------------- MODULE StatementRun ----------------------------
(***************************************************************************)
(* A C function and the control-flow graph that the passes from Clight to  *)
(* RTL make of it, executed together.  Each side proceeds by itself to     *)
(* what can be observed next (a computation, a test, the value of a        *)
(* switch, a return); then both take it with the same outcome.             *)
(***************************************************************************)
EXTENDS Rtlgen

CONSTANTS
  Programs,   \* the bodies of functions
  Value       \* the values a switch can have

VARIABLES
  program,    \* the body
  graph,      \* its code and entry node
  todo,       \* what the function has left to do
  node,       \* where the graph is
  regs        \* the registers that hold the values of switches

vars == <<program, graph, todo, node, regs>>

Exit == 0

Compile(body) == TranslateFunction(SelectStmt(translateClight(transformStmt(body))))

Init ==
  /\ program \in Programs
  /\ graph = Compile(program)
  /\ todo = <<program>> /\ node = graph.entry
  /\ regs = <<>>

Instruction == graph.code[node]
Running == node \in DOMAIN graph.code

-----------------------------------------------------------------------------
(* The function proceeds.                                                  *)

SourceSettled == todo # <<>> => Head(todo).kind \in {"do", "test", "select", "leave"}

SourceUnfolds ==
  /\ todo # <<>> /\ Head(todo).kind \in Compound
  /\ todo' = Unfold(Head(todo)) \o Tail(todo)
  /\ UNCHANGED <<program, graph, node, regs>>

SourceBreaks ==
  /\ todo # <<>> /\ Head(todo) = Break
  /\ todo' = After(todo, {"again", "endswitch"})
  /\ UNCHANGED <<program, graph, node, regs>>

SourceContinues ==
  /\ todo # <<>> /\ Head(todo) = Continue
  /\ todo' = From(todo, {"again"})
  /\ UNCHANGED <<program, graph, node, regs>>

SourceJumps ==
  /\ todo # <<>> /\ Head(todo).kind = "goto"
  /\ todo' \in AtLabel(program, Head(todo).label, <<>>)
  /\ UNCHANGED <<program, graph, node, regs>>

(* The graph proceeds.                                                     *)

TargetSettled == Running /\ Instruction.kind \notin {"Inop", "Icase"}

TargetSkips ==
  /\ SourceSettled /\ Running /\ Instruction.kind = "Inop"
  /\ node' = Instruction.succ
  /\ UNCHANGED <<program, graph, todo, regs>>

TargetCompares ==
  /\ SourceSettled /\ Running /\ Instruction.kind = "Icase"
  /\ node' = IF regs[Instruction.reg] = Instruction.value THEN Instruction.so ELSE Instruction.not
  /\ UNCHANGED <<program, graph, todo, regs>>

-----------------------------------------------------------------------------
(* What each side does next, as far as it can be observed.                 *)

NextOfSource ==
  IF todo = <<>> THEN [event |-> "return", of |-> NoValue]
  ELSE CASE Head(todo).kind = "do"     -> [event |-> "do", of |-> Unknown(Head(todo).what)]
         [] Head(todo).kind = "test"   -> [event |-> "test", of |-> Head(todo).of]
         [] Head(todo).kind = "select" -> [event |-> "value", of |-> Head(todo).of]
         [] Head(todo).kind = "leave"  -> [event |-> "return", of |-> Head(todo).of]

NextOfTarget ==
  CASE Instruction.kind = "Ido"     -> [event |-> "do", of |-> Unknown(Instruction.what)]
    [] Instruction.kind = "Icond"   -> [event |-> "test", of |-> Instruction.of]
    [] Instruction.kind = "Ivalue"  -> [event |-> "value", of |-> Instruction.of]
    [] Instruction.kind = "Ireturn" -> [event |-> "return", of |-> Instruction.of]

BothNext(event) ==
  /\ SourceSettled /\ TargetSettled
  /\ NextOfSource = NextOfTarget /\ NextOfSource.event = event

Compute ==
  /\ BothNext("do")
  /\ todo' = Tail(todo) /\ node' = Instruction.succ
  /\ UNCHANGED <<program, graph, regs>>

\* Is the expression other than zero?
Outcomes(e) == IF e.op = "const" THEN {e.val # 0} ELSE BOOLEAN

Branch ==
  /\ BothNext("test")
  /\ \E nonzero \in Outcomes(Instruction.of) :
       /\ todo' = (IF nonzero THEN Head(todo).yes ELSE Head(todo).no) \o Tail(todo)
       /\ node' = IF nonzero = (Instruction.test = "ne") THEN Instruction.so ELSE Instruction.not
  /\ UNCHANGED <<program, graph, regs>>

SwitchOn ==
  /\ BothNext("value")
  /\ \E v \in Value :
       /\ todo' = CaseItems(Head(todo).cases, v) \o <<EndSwitch>> \o Tail(todo)
       /\ regs' = (Instruction.reg :> v) @@ regs
  /\ node' = Instruction.succ
  /\ UNCHANGED <<program, graph>>

Finish ==
  /\ BothNext("return")
  /\ todo' = <<>> /\ node' = Exit
  /\ UNCHANGED <<program, graph, regs>>

Finished == node = Exit /\ UNCHANGED vars

Next ==
  \/ SourceUnfolds \/ SourceBreaks \/ SourceContinues \/ SourceJumps
  \/ TargetSkips \/ TargetCompares
  \/ Compute \/ Branch \/ SwitchOn \/ Finish
  \/ Finished

Spec == Init /\ [][Next]_vars

\* The compiled function runs on as long as it can.
FairSpec == Spec /\ WF_vars(Next)

-----------------------------------------------------------------------------
(***************************************************************************)
(* Every node that the compiled function reaches has an instruction: no    *)
(* exit without its block, no jump to a label that was never placed.       *)
(***************************************************************************)
NodesHaveCode == Running \/ node = Exit

(***************************************************************************)
(* The compiled function makes the computations, tests and returns of the  *)
(* C function in its order, through loops, break, continue, goto and       *)
(* switch.                                                                 *)
(***************************************************************************)
SameNext == SourceSettled /\ TargetSettled => NextOfSource = NextOfTarget

(***************************************************************************)
(* When the C function has something to do, so has the compiled one, after *)
(* finitely many jumps.                                                    *)
(***************************************************************************)
KeepsUp == SourceSettled ~> (TargetSettled \/ node = Exit)
=============================================================================
