------------------------- MODULE RegallocRunProofs -------------------------
(***************************************************************************)
(* For every function, every solution of the liveness equations and every  *)
(* allocation that keeps the promises of the allocator, the allocated      *)
(* function does what the function does.                                   *)
(***************************************************************************)
EXTENDS RegallocRun, TLAPS

\* The parameters that matter are where the caller left them.
Arrived ==
  \A k \in DOMAIN a.fn.params :
    a.fn.params[k] \in a.liveIn[a.fn.entry] => regs[a.fn.params[k]] = store[ArgLoc[k]]

Types ==
  /\ a \in Allocations
  /\ node \in DOMAIN a.fn.code \cup {Exit} /\ moved \in BOOLEAN
  /\ regs \in [Reg -> Value] /\ store \in [Loc -> Value] /\ result \in Value

Inv ==
  /\ Types
  /\ EntryRunsOnce(a) =>
       /\ Ready => Agree
       /\ node = a.fn.entry /\ ~moved => Arrived
       /\ node = Exit => store[ReturnLoc] = result

-----------------------------------------------------------------------------
(***************************************************************************)
(* What the interference graph and the allocator's promises say of the     *)
(* registers around one instruction.                                       *)
(***************************************************************************)
LEMMA DefsAreApart ==
  ASSUME NEW al \in Allocations, NEW n \in DOMAIN al.fn.code,
         NEW d \in Def(al.fn.code[n]), NEW r \in al.liveOut[n], r # d,
         ~(IsMove(al.fn.code[n]) /\ al.fn.code[n].args[1] = r)
  PROVE  al.loc[d] # al.loc[r]
<1> DEFINE g == BuildInterferenceGraph(al.fn, al.liveOut)
<1>1. DefInterferes(al.fn, al.liveOut, d, r)
  BY DEF DefInterferes
<1>2. d \in g.nodes
  BY DEF BuildInterferenceGraph, GraphNodes
<1>3. r \in g.nodes
  <2>1. PICK s \in Successors(al.fn.code[n]) : r \in al.liveIn[s]
    BY AllocationsAssumption DEF SolvesLiveness
  <2>2. s \in DOMAIN al.fn.code
    BY AllocationsAssumption DEF IsFunction
  <2>3. PICK m \in DOMAIN al.fn.code : r \in Use(al.fn.code[m])
    BY <2>1, <2>2, AllocationsAssumption DEF SolvesLiveness
  <2> QED BY <2>3 DEF BuildInterferenceGraph, GraphNodes
<1>4. r \in g.edges[d]
  BY <1>1, <1>2, <1>3 DEF BuildInterferenceGraph, SymmetricLinks
<1> QED BY <1>2, <1>4, AllocationsAssumption DEF KeepsApart, Separates

\* A live register is a node of the graph and has a location.
LEMMA LiveHasLocation ==
  ASSUME NEW al \in Allocations, NEW n \in DOMAIN al.fn.code, NEW r \in al.liveIn[n]
  PROVE  /\ r \in Reg /\ al.loc[r] \in Loc
         /\ r \in BuildInterferenceGraph(al.fn, al.liveOut).nodes
<1>1. PICK m \in DOMAIN al.fn.code : r \in Use(al.fn.code[m])
  BY AllocationsAssumption DEF SolvesLiveness
<1>2. r \in BuildInterferenceGraph(al.fn, al.liveOut).nodes
  BY <1>1 DEF BuildInterferenceGraph, GraphNodes
<1>3. r \in Reg
  BY <1>1, AllocationsAssumption DEF IsFunction
<1> QED BY <1>2, <1>3, AllocationsAssumption DEF KeepsApart, Separates

\* A register that is written has a location.
LEMMA DefHasLocation ==
  ASSUME NEW al \in Allocations, NEW n \in DOMAIN al.fn.code, NEW d \in Def(al.fn.code[n])
  PROVE  d \in Reg /\ al.loc[d] \in Loc
<1>1. d \in BuildInterferenceGraph(al.fn, al.liveOut).nodes
  BY DEF BuildInterferenceGraph, GraphNodes
<1>2. d \in Reg
  BY AllocationsAssumption DEF IsFunction
<1> QED BY <1>1, <1>2, AllocationsAssumption DEF KeepsApart, Separates

\* What is live after a call is not in a register that the call may change.
LEMMA LiveAcrossCall ==
  ASSUME NEW al \in Allocations, NEW n \in DOMAIN al.fn.code, IsCall(al.fn.code[n]),
         NEW r \in al.liveOut[n]
  PROVE  al.loc[r] \notin CallerSaved
<1>1. r \in BuildInterferenceGraph(al.fn, al.liveOut).lac
  BY DEF BuildInterferenceGraph
<1> QED BY <1>1, AllocationsAssumption DEF KeepsApart, Separates

\* What is live before a successor was live after the instruction.
LEMMA LiveFlows ==
  ASSUME NEW al \in Allocations, NEW n \in DOMAIN al.fn.code,
         NEW s \in Successors(al.fn.code[n]), NEW r \in al.liveIn[s]
  PROVE  /\ s \in DOMAIN al.fn.code
         /\ r \in al.liveOut[n]
         /\ r \notin Def(al.fn.code[n]) => r \in al.liveIn[n]
BY AllocationsAssumption DEF SolvesLiveness, IsFunction

\* Two parameters that are read somewhere have different locations.
LEMMA ParametersAreApart ==
  ASSUME NEW al \in Allocations, NEW j \in DOMAIN al.fn.params, NEW k \in DOMAIN al.fn.params,
         j # k, NEW n \in DOMAIN al.fn.code, al.fn.params[j] \in Use(al.fn.code[n])
  PROVE  al.loc[al.fn.params[j]] # al.loc[al.fn.params[k]]
<1> DEFINE p == al.fn.params[j]
           q == al.fn.params[k]
           g == BuildInterferenceGraph(al.fn, al.liveOut)
<1>1. p # q
  BY AllocationsAssumption DEF IsFunction
<1>2. p \in g.nodes /\ q \in g.nodes
  BY DEF BuildInterferenceGraph, GraphNodes, ToSet
<1>3. ParamInterferes(al.fn, p)
  BY DEF ParamInterferes, ToSet
<1>4. q \in g.edges[p]
  BY <1>1, <1>2, <1>3 DEF BuildInterferenceGraph, SymmetricLinks
<1> QED BY <1>2, <1>4, AllocationsAssumption DEF KeepsApart, Separates

\* A parameter that moves does not move to a register that brings a parameter.
LEMMA MovesLeaveArguments ==
  ASSUME NEW al \in Allocations, NEW j \in DOMAIN al.fn.params, NeedsMove(al, j)
  PROVE  al.loc[al.fn.params[j]] \notin ArgLocs
<1>1. al.fn.params[j] \in BuildInterferenceGraph(al.fn, al.liveOut).lac
  BY AllocationsAssumption DEF KeepsApart, Separates, NeedsMove
<1> QED BY <1>1, AllocationsAssumption DEF KeepsApart, Separates

-----------------------------------------------------------------------------
(***************************************************************************)
(* The steps.  An instruction with a successor keeps the invariant if it   *)
(* leaves the registers that are live there in agreement: coming back to   *)
(* the entry, no parameter is moved, and each is where it arrived.         *)
(***************************************************************************)
LEMMA GoOnKeeps ==
  ASSUME Inv, Ready, GoOn, UNCHANGED <<a, result>>,
         regs' \in [Reg -> Value], store' \in [Loc -> Value],
         EntryRunsOnce(a) => \A r \in a.liveIn[node'] : store'[a.loc[r]] = regs'[r]
  PROVE  Inv'
<1>1. a \in Allocations /\ node \in DOMAIN a.fn.code /\ node' \in Successors(a.fn.code[node])
  BY DEF Inv, Types, Ready, GoOn, Instruction
<1>2. node' \in DOMAIN a.fn.code
  BY <1>1, AllocationsAssumption DEF IsFunction
<1>3. node' # Exit
  BY <1>1, <1>2, AllocationsAssumption DEF IsFunction
<1>4. Types'
  BY <1>1, <1>2 DEF Inv, Types, GoOn
<1>5. ASSUME EntryRunsOnce(a), node' = a.fn.entry
      PROVE  Arrived'
  <2>1. \A k \in DOMAIN a.fn.params : ~NeedsMove(a, k)
    BY <1>1, <1>5 DEF EntryRunsOnce
  <2>2. \A k \in DOMAIN a.fn.params : a.loc[a.fn.params[k]] = ArgLoc[k]
    BY <2>1 DEF NeedsMove
  <2> QED BY <2>2, <1>5 DEF Arrived
<1> QED BY <1>3, <1>4, <1>5 DEF Inv, Agree, Ready

\* On entry the parameters are where the caller left them.
LEMMA InitInv == Init => Inv
<1> SUFFICES ASSUME Init PROVE Inv
  OBVIOUS
<1>1. node \in DOMAIN a.fn.code /\ node # Exit
  BY AllocationsAssumption DEF Init, IsFunction
<1>2. Types
  BY <1>1, LocationsAssumption DEF Init, Types
<1>3. Arrived
  BY DEF Init, Arrived
<1> QED BY <1>1, <1>2, <1>3 DEF Inv, Init, Ready

\* After the moves of the parameters their locations hold them.
LEMMA MoveParametersInv == Inv /\ MoveParameters => Inv'
<1> SUFFICES ASSUME Inv, MoveParameters PROVE Inv'
  OBVIOUS
<1> DEFINE Moves(k, l) == NeedsMove(a, k) /\ a.loc[a.fn.params[k]] = l
<1>1. a \in Allocations /\ node = a.fn.entry /\ node' = node /\ a' = a /\ regs' = regs
      /\ result' = result /\ moved' = TRUE /\ ~moved
  BY DEF Inv, Types, MoveParameters
<1>2. node \in DOMAIN a.fn.code /\ node # Exit
  BY <1>1, AllocationsAssumption DEF IsFunction
<1>3. \A k \in DOMAIN a.fn.params : k \in DOMAIN ArgLoc /\ ArgLoc[k] \in Loc
  BY <1>1, AllocationsAssumption, LocationsAssumption DEF IsFunction
<1>4. store' = [l \in Loc |->
        IF \E k \in DOMAIN a.fn.params : Moves(k, l)
        THEN store[ArgLoc[CHOOSE k \in DOMAIN a.fn.params : Moves(k, l)]]
        ELSE store[l]]
  BY DEF MoveParameters
<1>5. store' \in [Loc -> Value]
  <2> SUFFICES ASSUME NEW l \in Loc,
                      NEW k \in DOMAIN a.fn.params, k = CHOOSE j \in DOMAIN a.fn.params : Moves(j, l)
               PROVE  store[ArgLoc[k]] \in Value
    BY <1>4 DEF Inv, Types
  <2> QED BY <1>3 DEF Inv, Types
<1>6. Types'
  BY <1>1, <1>5 DEF Inv, Types
<1>7. ASSUME EntryRunsOnce(a), NEW r \in a.liveIn[node]
      PROVE  store'[a.loc[r]] = regs'[r]
  <2>1. PICK k \in DOMAIN a.fn.params : r = a.fn.params[k]
    BY <1>1, <1>7, AllocationsAssumption DEF IsFunction, Params
  <2>2. regs[r] = store[ArgLoc[k]]
    BY <1>1, <1>7, <2>1 DEF Inv, Arrived
  <2>3. a.loc[r] \in Loc
    BY <1>1, <1>2, <1>7, LiveHasLocation
  <2>4. CASE NeedsMove(a, k)
    <3>1. PICK n \in DOMAIN a.fn.code : r \in Use(a.fn.code[n])
      BY <1>1, <1>2, <1>7, AllocationsAssumption DEF SolvesLiveness
    <3>2. \A j \in DOMAIN a.fn.params : Moves(j, a.loc[r]) <=> j = k
      BY <1>1, <2>1, <2>4, <3>1, ParametersAreApart
    <3>3. (CHOOSE j \in DOMAIN a.fn.params : Moves(j, a.loc[r])) = k
      BY <3>2
    <3> HIDE DEF Moves
    <3> QED BY <1>1, <1>4, <2>2, <2>3, <3>2, <3>3
  <2>5. CASE ~NeedsMove(a, k)
    <3>1. a.loc[r] = ArgLoc[k] /\ ArgLoc[k] \in ArgLocs
      BY <1>3, <2>1, <2>5 DEF NeedsMove, ArgLocs
    <3>2. ~\E j \in DOMAIN a.fn.params : Moves(j, a.loc[r])
      BY <1>1, <3>1, MovesLeaveArguments
    <3> HIDE DEF Moves
    <3> QED BY <1>1, <1>4, <2>2, <2>3, <3>1, <3>2
  <2> QED BY <2>4, <2>5
<1> QED BY <1>1, <1>2, <1>6, <1>7 DEF Inv, Agree

\* What is live before a successor and is not written agrees already.
LEMMA LiveAgrees ==
  ASSUME Inv, Ready, GoOn, EntryRunsOnce(a), NEW r \in a.liveIn[node'],
         r \notin Def(Instruction)
  PROVE  store[a.loc[r]] = regs[r]
<1>1. a \in Allocations /\ node \in DOMAIN a.fn.code /\ node' \in Successors(a.fn.code[node])
  BY DEF Inv, Types, Ready, GoOn, Instruction
<1>2. r \in a.liveIn[node]
  BY <1>1, LiveFlows DEF Instruction
<1> QED BY <1>2 DEF Inv, Agree

\* Inop, Istore, Icond, Ijumptable and builtins without a result write nothing.
LEMMA NoResultInv == Inv /\ NoResult => Inv'
<1> SUFFICES ASSUME Inv, NoResult PROVE Inv'
  OBVIOUS
<1>1. Ready /\ GoOn /\ UNCHANGED <<a, result, regs, store>>
  BY DEF NoResult
<1>2. Def(Instruction) = {}
  BY DEF NoResult, Def
<1>3. ASSUME EntryRunsOnce(a), NEW r \in a.liveIn[node']
      PROVE  store'[a.loc[r]] = regs'[r]
  BY <1>1, <1>2, <1>3, LiveAgrees
<1>4. regs' \in [Reg -> Value] /\ store' \in [Loc -> Value]
  BY <1>1 DEF Inv, Types
<1> QED BY <1>1, <1>3, <1>4, GoOnKeeps

(***************************************************************************)
(* The instruction writes d and its location; what else is live afterwards *)
(* has another location.                                                   *)
(***************************************************************************)
LEMMA WriteKeeps ==
  ASSUME Inv, Ready, GoOn, UNCHANGED <<a, result>>,
         NEW d \in Def(Instruction), NEW v \in Value, NEW w \in Value,
         regs' = [regs EXCEPT ![d] = v],
         store' = [store EXCEPT ![a.loc[d]] = w],
         EntryRunsOnce(a) => v = w,
         IsMove(Instruction) => v = regs[Instruction.args[1]]
  PROVE  Inv'
<1>1. a \in Allocations /\ node \in DOMAIN a.fn.code /\ node' \in Successors(a.fn.code[node])
      /\ Instruction = a.fn.code[node] /\ regs \in [Reg -> Value] /\ store \in [Loc -> Value]
  BY DEF Inv, Types, Ready, GoOn, Instruction
<1>2. d \in Reg /\ a.loc[d] \in Loc
  BY <1>1, DefHasLocation
<1>3. Def(Instruction) = {d}
  BY DEF Def
<1>4. ASSUME EntryRunsOnce(a), NEW r \in a.liveIn[node']
      PROVE  store'[a.loc[r]] = regs'[r]
  <2>1. node' \in DOMAIN a.fn.code /\ r \in a.liveOut[node]
    BY <1>1, LiveFlows
  <2>2. r \in Reg /\ a.loc[r] \in Loc
    BY <1>1, <2>1, LiveHasLocation
  <2>3. CASE r = d
    BY <1>1, <1>2, <1>4, <2>3
  <2>4. CASE r # d /\ IsMove(Instruction) /\ Instruction.args[1] = r
    <3>1. store[a.loc[r]] = regs[r] /\ v = regs[r] /\ w = regs[r]
      BY <1>3, <1>4, <2>4, LiveAgrees
    <3> QED BY <1>1, <1>2, <2>2, <2>4, <3>1
  <2>5. CASE r # d /\ ~(IsMove(Instruction) /\ Instruction.args[1] = r)
    <3>1. store[a.loc[r]] = regs[r]
      BY <1>3, <1>4, <2>5, LiveAgrees
    <3>2. a.loc[d] # a.loc[r]
      BY <1>1, <2>1, <2>5, DefsAreApart
    <3> QED BY <1>1, <1>2, <2>2, <2>5, <3>1, <3>2
  <2> QED BY <2>3, <2>4, <2>5
<1>5. regs' \in [Reg -> Value] /\ store' \in [Loc -> Value]
  BY <1>1, <1>2
<1> QED BY <1>4, <1>5, GoOnKeeps

\* Iop, Iload and builtins with a result write the same value on both sides.
LEMMA OperationInv == Inv /\ Operation => Inv'
<1> SUFFICES ASSUME Inv, Operation PROVE Inv'
  OBVIOUS
<1>1. PICK v \in Value : /\ regs' = [regs EXCEPT ![Instruction.dest] = v]
                         /\ store' = [store EXCEPT ![a.loc[Instruction.dest]] = v]
  BY DEF Operation
<1>2. Ready /\ GoOn /\ UNCHANGED <<a, result>> /\ ~IsMove(Instruction)
  BY DEF Operation, IsMove
<1>3. Instruction.dest \in Def(Instruction)
  BY DEF Operation, Def
<1> QED BY <1>1, <1>2, <1>3, WriteKeeps

\* A move may share a location with its source: both then hold one value.
LEMMA CopyInv == Inv /\ Copy => Inv'
<1> SUFFICES ASSUME Inv, Copy PROVE Inv'
  OBVIOUS
<1> DEFINE source == Instruction.args[1]
<1>1. Ready /\ GoOn /\ UNCHANGED <<a, result>> /\ Instruction.kind = "Imove"
      /\ Instruction = a.fn.code[node]
  BY DEF Copy, Instruction
<1>2. a \in Allocations /\ node \in DOMAIN a.fn.code
      /\ regs \in [Reg -> Value] /\ store \in [Loc -> Value]
  BY <1>1 DEF Inv, Types, Ready
<1>3. Instruction.dest \in Def(Instruction)
  BY <1>1 DEF Def
<1>4. source \in a.liveIn[node]
  <2>1. Len(Instruction.args) = 1 /\ Instruction.args \in Seq(Reg)
    BY <1>1, <1>2, AllocationsAssumption DEF IsFunction
  <2>2. source \in Use(Instruction)
    BY <2>1 DEF Use, ToSet
  <2> QED BY <1>1, <1>2, <2>2, AllocationsAssumption DEF SolvesLiveness
<1>5. regs[source] \in Value /\ store[a.loc[source]] \in Value
  BY <1>2, <1>4, LiveHasLocation
<1>6. EntryRunsOnce(a) => regs[source] = store[a.loc[source]]
  BY <1>1, <1>4 DEF Inv, Agree
<1>7. /\ regs' = [regs EXCEPT ![Instruction.dest] = regs[source]]
      /\ store' = [store EXCEPT ![a.loc[Instruction.dest]] = store[a.loc[source]]]
  BY DEF Copy
<1> QED BY <1>1, <1>3, <1>5, <1>6, <1>7, WriteKeeps

\* What is live across a call survives it, and its result reaches its location.
LEMMA CallInv == Inv /\ Call => Inv'
<1> SUFFICES ASSUME Inv, Call PROVE Inv'
  OBVIOUS
<1> DEFINE dest == Instruction.dest
           Back(after) == [l \in Loc |-> IF l \in CallerSaved THEN after[l] ELSE store[l]]
<1>1. Ready /\ GoOn /\ UNCHANGED <<a, result>> /\ IsCall(Instruction)
      /\ Instruction.kind = "Icall" /\ Instruction = a.fn.code[node]
  BY DEF Call, IsCall, Instruction
<1>2. a \in Allocations /\ node \in DOMAIN a.fn.code /\ node' \in Successors(a.fn.code[node])
      /\ regs \in [Reg -> Value] /\ store \in [Loc -> Value]
  BY <1>1 DEF Inv, Types, Ready, GoOn
<1>3. PICK after \in [CallerSaved -> Value] :
        IF dest = NoReg
        THEN store' = Back(after) /\ UNCHANGED regs
        ELSE /\ store' = [Back(after) EXCEPT ![a.loc[dest]] = after[ReturnLoc]]
             /\ regs' = [regs EXCEPT ![dest] = after[ReturnLoc]]
  BY DEF Call
<1>4. Back(after) \in [Loc -> Value] /\ after[ReturnLoc] \in Value
  BY <1>2, LocationsAssumption
<1>5. ASSUME NEW r \in a.liveIn[node']
      PROVE  r \in Reg /\ a.loc[r] \in Loc /\ r \in a.liveOut[node]
             /\ Back(after)[a.loc[r]] = store[a.loc[r]]
  <2>1. r \in a.liveOut[node] /\ node' \in DOMAIN a.fn.code
    BY <1>2, <1>5, LiveFlows
  <2>2. r \in Reg /\ a.loc[r] \in Loc
    BY <1>2, <1>5, <2>1, LiveHasLocation
  <2>3. a.loc[r] \notin CallerSaved
    BY <1>1, <1>2, <2>1, LiveAcrossCall
  <2> QED BY <2>1, <2>2, <2>3
<1>6. CASE dest = NoReg
  <2>1. Def(Instruction) = {}
    BY <1>1, <1>6 DEF Def
  <2>2. store' = Back(after) /\ regs' = regs
    BY <1>3, <1>6
  <2>3. ASSUME EntryRunsOnce(a), NEW r \in a.liveIn[node']
        PROVE  store'[a.loc[r]] = regs'[r]
    <3>1. store[a.loc[r]] = regs[r]
      BY <1>1, <2>1, <2>3, LiveAgrees
    <3> QED BY <1>5, <2>2, <2>3, <3>1
  <2> HIDE DEF Back
  <2> QED BY <1>1, <1>2, <1>4, <2>2, <2>3, GoOnKeeps
<1>7. CASE dest # NoReg
  <2>1. Def(Instruction) = {dest}
    BY <1>1, <1>7 DEF Def
  <2>2. dest \in Reg /\ a.loc[dest] \in Loc
    BY <1>1, <1>2, <2>1, DefHasLocation
  <2>3. /\ store' = [Back(after) EXCEPT ![a.loc[dest]] = after[ReturnLoc]]
        /\ regs' = [regs EXCEPT ![dest] = after[ReturnLoc]]
    BY <1>3, <1>7
  <2>4. ASSUME EntryRunsOnce(a), NEW r \in a.liveIn[node']
        PROVE  store'[a.loc[r]] = regs'[r]
    <3>1. CASE r = dest
      <4> HIDE DEF Back
      <4> QED BY <1>2, <1>4, <2>2, <2>3, <3>1
    <3>2. CASE r # dest
      <4>1. store[a.loc[r]] = regs[r]
        BY <1>1, <2>1, <2>4, <3>2, LiveAgrees
      <4>2. a.loc[dest] # a.loc[r]
        <5>1. r \in a.liveOut[node] /\ dest \in Def(a.fn.code[node]) /\ ~IsMove(a.fn.code[node])
          BY <1>1, <1>5, <2>1 DEF IsMove
        <5> QED BY <1>2, <3>2, <5>1, DefsAreApart
      <4>3. Back(after)[a.loc[r]] = regs[r] /\ r \in Reg /\ a.loc[r] \in Loc
        BY <1>5, <2>4, <4>1
      <4> HIDE DEF Back
      <4> QED BY <1>2, <1>4, <2>2, <2>3, <3>2, <4>2, <4>3
    <3> QED BY <3>1, <3>2
  <2>5. regs' \in [Reg -> Value] /\ store' \in [Loc -> Value]
    <3> HIDE DEF Back
    <3> QED BY <1>2, <1>4, <2>2, <2>3
  <2> QED BY <1>1, <2>4, <2>5, GoOnKeeps
<1> QED BY <1>6, <1>7

\* A return leaves the value of its register in the return register.
LEMMA ReturnInv == Inv /\ Return => Inv'
<1> SUFFICES ASSUME Inv, Return PROVE Inv'
  OBVIOUS
<1> DEFINE value == Instruction.args[1]
<1>1. Ready /\ node' = Exit /\ UNCHANGED <<a, moved, regs>> /\ Instruction = a.fn.code[node]
  BY DEF Return, Instruction
<1>2. a \in Allocations /\ node \in DOMAIN a.fn.code
      /\ regs \in [Reg -> Value] /\ store \in [Loc -> Value] /\ ReturnLoc \in Loc
  BY <1>1, LocationsAssumption DEF Inv, Types, Ready
<1>3. Exit \notin DOMAIN a.fn.code /\ Exit # a.fn.entry
  BY <1>2, AllocationsAssumption DEF IsFunction
<1>4. CASE Instruction.kind = "Ireturn" /\ Instruction.args # <<>>
  <2>1. Instruction.args \in Seq(Reg)
    BY <1>1, <1>2, AllocationsAssumption DEF IsFunction
  <2>2. value \in Use(Instruction)
    BY <1>4, <2>1 DEF Use, ToSet
  <2>3. value \in a.liveIn[node]
    BY <1>1, <1>2, <2>2, AllocationsAssumption DEF SolvesLiveness
  <2>4. value \in Reg /\ a.loc[value] \in Loc
    BY <1>2, <2>3, LiveHasLocation
  <2>5. EntryRunsOnce(a) => store[a.loc[value]] = regs[value]
    BY <1>1, <2>3 DEF Inv, Agree
  <2>6. result' = regs[value] /\ store' = [store EXCEPT ![ReturnLoc] = store[a.loc[value]]]
    BY <1>4 DEF Return
  <2>7. Types'
    BY <1>1, <1>2, <2>4, <2>6 DEF Inv, Types
  <2>8. EntryRunsOnce(a) => store'[ReturnLoc] = result'
    BY <1>2, <2>5, <2>6
  <2> QED BY <1>1, <1>3, <2>7, <2>8 DEF Inv, Ready
<1>5. CASE ~(Instruction.kind = "Ireturn" /\ Instruction.args # <<>>)
  <2>1. result' = store[ReturnLoc] /\ store' = store
    BY <1>5 DEF Return
  <2>2. Types'
    BY <1>1, <1>2, <2>1 DEF Inv, Types
  <2> QED BY <1>1, <1>3, <2>1, <2>2 DEF Inv, Ready
<1> QED BY <1>4, <1>5

-----------------------------------------------------------------------------
\* The invariant is inductive.
LEMMA InvHolds == Spec => []Inv
<1>1. Init => Inv
  BY InitInv
<1>2. Inv /\ [Next]_vars => Inv'
  <2> SUFFICES ASSUME Inv, [Next]_vars PROVE Inv'
    OBVIOUS
  <2>1. CASE UNCHANGED vars
    BY <2>1 DEF vars, Inv, Types, Ready, Agree, Arrived
  <2>2. CASE Returned
    BY <2>2 DEF Returned, vars, Inv, Types, Ready, Agree, Arrived
  <2> QED BY <2>1, <2>2, MoveParametersInv, NoResultInv, OperationInv, CopyInv, CallInv,
            ReturnInv DEF Next
<1> QED BY <1>1, <1>2, PTL DEF Spec

(***************************************************************************)
(* Every variable has its type, for every function and allocation.         *)
(***************************************************************************)
THEOREM TypeCorrect == Spec => []TypeOK
<1>1. Inv => TypeOK
  BY DEF Inv, Types, TypeOK
<1> QED BY <1>1, InvHolds, PTL

(***************************************************************************)
(* Before every instruction of the allocated function the locations of the *)
(* live registers hold what the RTL registers hold, whatever the function, *)
(* the liveness solution and the allocation, as long as the allocator keeps*)
(* interfering registers apart, keeps what is live across a call out of    *)
(* caller-saved and argument registers, and leaves the other parameters    *)
(* where they arrive (TransformFunction in pkg/regalloc/transform.go).     *)
(***************************************************************************)
THEOREM AllocationIsCorrect == Spec => []AllocationSimulates
<1>1. Inv => AllocationSimulates
  BY DEF Inv, AllocationSimulates
<1> QED BY <1>1, InvHolds, PTL

(***************************************************************************)
(* The return register holds what the RTL function returns.                *)
(***************************************************************************)
THEOREM ResultsAreRight == Spec => []ResultsAgree
<1>1. Inv => ResultsAgree
  BY DEF Inv, ResultsAgree
<1> QED BY <1>1, InvHolds, PTL

-----------------------------------------------------------------------------
(***************************************************************************)
(* The graph of a function is one the allocator accepts.                   *)
(***************************************************************************)
LEMMA LinksOfPairs ==
  ASSUME NEW nodes, NEW pairs
  PROVE  IsLinks(nodes, SymmetricLinks(nodes, pairs))
BY DEF IsLinks, SymmetricLinks

\* What is live after an instruction is read somewhere.
LEMMA LiveOutIsUsed ==
  ASSUME NEW fn, NEW liveIn, NEW liveOut, IsFunction(fn, liveIn),
         SolvesLiveness(fn, liveIn, liveOut),
         NEW n \in DOMAIN fn.code, NEW r \in liveOut[n]
  PROVE  \E m \in DOMAIN fn.code : r \in Use(fn.code[m])
<1>1. PICK s \in Successors(fn.code[n]) : r \in liveIn[s]
  BY DEF SolvesLiveness
<1>2. s \in DOMAIN fn.code
  BY DEF IsFunction
<1>. QED  BY <1>1, <1>2 DEF SolvesLiveness

(***************************************************************************)
(* What BuildInterferenceGraph makes of any function whose parameters are  *)
(* numbered first, and of any solution of its liveness equations, meets    *)
(* the requirements of the allocator: the links are symmetric, have no     *)
(* loops and stay within the registers of the function, what is live       *)
(* across a call is one of them, and a parameter live across a call        *)
(* interferes with all others.                                             *)
(***************************************************************************)
THEOREM GraphIsAllocatable ==
  ASSUME NEW fn, NEW liveIn, NEW liveOut, IsFunction(fn, liveIn),
         SolvesLiveness(fn, liveIn, liveOut),
         \A k \in 1..Len(fn.params) : fn.params[k] = k
  PROVE  /\ BuildInterferenceGraph(fn, liveOut).nodes \subseteq Reg
         /\ IsAllocatable(fn.params, BuildInterferenceGraph(fn, liveOut))
<1> DEFINE g == BuildInterferenceGraph(fn, liveOut)
           interfering == {p \in g.nodes \X g.nodes :
                             \/ DefInterferes(fn, liveOut, p[1], p[2])
                             \/ ParamInterferes(fn, p[1])}
           preferred == {p \in g.nodes \X g.nodes : MovedTo(fn, p[1], p[2])}
<1>1. /\ g.nodes = GraphNodes(fn)
      /\ g.edges = SymmetricLinks(g.nodes, interfering)
      /\ g.prefs = SymmetricLinks(g.nodes, preferred)
      /\ g.lac = UNION {liveOut[n] : n \in {m \in DOMAIN fn.code : IsCall(fn.code[m])}}
  BY DEF BuildInterferenceGraph
<1> HIDE DEF g
<1>2. g.nodes \subseteq Reg
  BY <1>1 DEF GraphNodes, IsFunction, ToSet
<1>3. \A r \in g.lac : r \in g.nodes /\ \E m \in DOMAIN fn.code : r \in Use(fn.code[m])
  <2> SUFFICES ASSUME NEW r \in g.lac
               PROVE  r \in g.nodes /\ \E m \in DOMAIN fn.code : r \in Use(fn.code[m])
    OBVIOUS
  <2>1. PICK n \in DOMAIN fn.code : r \in liveOut[n]
    BY <1>1
  <2>2. PICK m \in DOMAIN fn.code : r \in Use(fn.code[m])
    BY <2>1, LiveOutIsUsed
  <2>. QED  BY <1>1, <2>2 DEF GraphNodes
<1>4. IsGraph(g)
  BY <1>1, <1>3, LinksOfPairs DEF IsGraph
<1>5. fn.params \in Seq(g.nodes)
  <2>1. \A k \in 1..Len(fn.params) : fn.params[k] \in g.nodes
    BY <1>1 DEF GraphNodes, IsFunction, ToSet
  <2>2. fn.params \in Seq(Reg)
    BY DEF IsFunction
  <2>. QED  BY <2>1, <2>2
<1>6. ASSUME NEW k \in 1..Len(fn.params), k \in g.lac
      PROVE  g.edges[k] = g.nodes \ {k}
  <2>1. k \in g.nodes /\ ParamInterferes(fn, k)
    <3>1. k \in ToSet(fn.params)
      BY DEF IsFunction, ToSet
    <3>. QED  BY <1>3, <1>6, <3>1 DEF ParamInterferes
  <2>2. \A b \in g.nodes : <<k, b>> \in interfering
    BY <2>1
  <2>. QED  BY <1>1, <2>1, <2>2 DEF SymmetricLinks
<1>7. IsAllocatable(fn.params, g)
  BY <1>4, <1>5, <1>6 DEF IsAllocatable
<1>. QED  BY <1>2, <1>7 DEF g
=============================================================================
