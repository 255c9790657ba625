----------------------------- MODULE CallProofs -----------------------------
(***************************************************************************)
(* A call delivers its arguments, for every number of argument registers,  *)
(* every number of arguments and every place they and the parameters may   *)
(* be in: the stores of the arguments beyond the registers, the shuffle of *)
(* the caller and the entry moves of the callee fit together.              *)
(***************************************************************************)
EXTENDS EntryMoves, FiniteSetTheorems, FunctionTheorems, SequenceTheorems, WellFoundedInduction,
        TLAPS

-----------------------------------------------------------------------------
(***************************************************************************)
(* The shuffle, for every set of moves over every set of locations.        *)
(***************************************************************************)
\* What has been moved is there, and what is not a destination is untouched.
MovedThere == \A d \in done : store[d] = before[wanted[d]]

OthersKept == \A l \in Loc \ (done \cup {Temp}) : store[l] = before[l]

\* A sweep that has made no progress so far has passed over needed registers only.
SweepInv == ~progress => \A d \in Pending \ todo : isSourceOfPendingMove(d)

DoneInv == pc = "done" => done = DOMAIN moves

Inv == TypeOK /\ PendingIntact /\ MovedThere /\ OthersKept /\ SweepInv /\ DoneInv

\* At first every pending value is where it came from.
LEMMA InvInit == Init => Inv
<1> SUFFICES ASSUME Init PROVE Inv
  OBVIOUS
<1>1. IsMoves(wanted)
  BY MovesAssumption DEF Init
<1>2. TypeOK
  BY <1>1 DEF Init, TypeOK, IsMoves
<1>3. PendingIntact /\ MovedThere /\ OthersKept /\ SweepInv /\ DoneInv
  BY <1>1 DEF Init, PendingIntact, MovedThere, OthersKept, SweepInv, DoneInv, Pending,
              IsMoves
<1>. QED  BY <1>2, <1>3 DEF Inv

(***************************************************************************)
(* If every pending destination is the source of a pending move, the       *)
(* sources are exactly the destinations: there are no more of them.        *)
(***************************************************************************)
LEMMA Cycles ==
  ASSUME Inv, pc = "shuffle", todo = {}, ~progress
  PROVE  {moves[d] : d \in Pending} = Pending
<1> DEFINE S == {moves[d] : d \in Pending}
           f == [d \in Pending |-> moves[d]]
<1>1. IsFiniteSet(Pending)
  <2>1. Pending \subseteq Register
    BY DEF Inv, TypeOK, Pending, IsMoves
  <2>. QED  BY <2>1, LocAssumption, FS_Subset
<1>2. Pending \subseteq S
  BY DEF Inv, SweepInv, isSourceOfPendingMove
<1>3. f \in Surjection(Pending, S)
  <2>1. f \in [Pending -> S]
    OBVIOUS
  <2>2. \A s \in S : \E d \in Pending : f[d] = s
    OBVIOUS
  <2>. QED  BY <2>1, <2>2 DEF Surjection
<1> HIDE DEF f
<1>4. IsFiniteSet(S) /\ Cardinality(S) <= Cardinality(Pending)
  BY <1>1, <1>3, FS_Surjection
<1> HIDE DEF S
<1>5. /\ Cardinality(Pending) <= Cardinality(S)
      /\ Cardinality(S) = Cardinality(Pending) => S = Pending
  BY <1>2, <1>4, FS_Subset
<1>6. Cardinality(S) \in Nat /\ Cardinality(Pending) \in Nat
  BY <1>1, <1>4, FS_CardinalityType
<1>7. S = Pending
  BY <1>4, <1>5, <1>6
<1>. QED  BY <1>7 DEF S

\* A move that is in place already can be dropped.
LEMMA InvSkip == ASSUME Inv, NEW d \in Register, Skip(d) PROVE Inv'
<1>1. TypeOK'
  BY DEF Skip, Inv, TypeOK
<1>2. Pending' = Pending /\ \A r : isSourceOfPendingMove(r)' <=> isSourceOfPendingMove(r)
  BY DEF Skip, Pending, isSourceOfPendingMove
<1>3. SweepInv'
  BY <1>2 DEF Skip, Inv, SweepInv, Pending
<1>4. PendingIntact' /\ MovedThere' /\ OthersKept' /\ DoneInv'
  BY DEF Skip, Inv, PendingIntact, MovedThere, OthersKept, DoneInv, Pending
<1>. QED  BY <1>1, <1>3, <1>4 DEF Inv

\* A move to a place that no pending move reads keeps their values.
LEMMA InvMove == ASSUME Inv, NEW d \in Register, Move(d) PROVE Inv'
<1>1. /\ d \in Pending /\ d \in Loc /\ d # Temp /\ moves[d] \in Loc
      /\ store \in [Loc -> Loc]
      /\ store' = [store EXCEPT ![d] = store[moves[d]]]
      /\ UNCHANGED <<wanted, before, moves, pc>>
      /\ done' = done \cup {d} /\ Pending' = Pending \ {d}
      /\ \A e \in Pending : moves[e] # d
  BY LocAssumption DEF Move, Inv, TypeOK, Pending, IsMoves, isSourceOfPendingMove
<1>2. TypeOK'
  BY <1>1 DEF Move, Inv, TypeOK
<1>3. PendingIntact'
  <2> SUFFICES ASSUME NEW e \in Pending \ {d}
               PROVE  store'[moves[e]] = before[wanted[e]]
    BY <1>1 DEF PendingIntact
  <2>1. moves[e] \in Loc /\ moves[e] # d
    BY <1>1 DEF Inv, TypeOK, Pending
  <2>. QED  BY <1>1, <2>1 DEF Inv, PendingIntact
<1>4. MovedThere'
  <2>1. store'[d] = before[wanted[d]]
    BY <1>1 DEF Inv, PendingIntact
  <2>2. \A e \in done : e \in Loc /\ e # d
    BY <1>1, LocAssumption DEF Inv, TypeOK, Pending, IsMoves
  <2>. QED  BY <1>1, <2>1, <2>2 DEF Inv, MovedThere
<1>5. OthersKept'
  BY <1>1 DEF Inv, OthersKept
<1>6. SweepInv' /\ DoneInv'
  BY <1>1 DEF Move, Inv, SweepInv, DoneInv
<1>. QED  BY <1>2, <1>3, <1>4, <1>5, <1>6 DEF Inv

\* A value set aside is read from the scratch register afterwards.
LEMMA InvBreakCycle == ASSUME Inv, NEW d \in Register, BreakCycle(d) PROVE Inv'
<1>1. d \in Pending /\ {moves[e] : e \in Pending} = Pending
  BY Cycles DEF BreakCycle
<1>2. /\ moves[d] \in Register
      /\ \A e \in Pending : moves[e] # Temp /\ moves[e] \in Loc
      /\ Temp \in Loc /\ Temp \notin DOMAIN moves
  <2>1. Pending \subseteq Register \ {Temp}
    BY DEF Inv, TypeOK, Pending, IsMoves
  <2>2. \A e \in Pending : moves[e] \in Pending
    BY <1>1
  <2>. QED  BY <1>1, <2>1, <2>2, LocAssumption DEF Inv, TypeOK, IsMoves
<1>3. /\ store' = [store EXCEPT ![Temp] = store[moves[d]]]
      /\ moves' = [e \in DOMAIN moves |-> IF moves[e] = moves[d] THEN Temp ELSE moves[e]]
      /\ done' = done /\ todo' = DOMAIN moves
      /\ UNCHANGED <<wanted, before, progress, pc>>
  BY <1>2 DEF BreakCycle
<1>4. Pending' = Pending /\ DOMAIN moves' = DOMAIN moves
  BY <1>3 DEF Pending
<1>5. TypeOK'
  BY <1>1, <1>2, <1>3, <1>4 DEF Inv, TypeOK, Pending
<1>6. PendingIntact'
  <2> SUFFICES ASSUME NEW e \in Pending
               PROVE  store'[moves'[e]] = before[wanted[e]]
    BY <1>3, <1>4 DEF PendingIntact
  <2>1. store[moves[e]] = before[wanted[e]] /\ e \in DOMAIN moves
    BY DEF Inv, PendingIntact, Pending
  <2>2. store \in [Loc -> Loc]
    BY DEF Inv, TypeOK
  <2>. QED  BY <1>2, <1>3, <2>1, <2>2
<1>7. MovedThere'
  <2>1. store \in [Loc -> Loc] /\ \A e \in done : e # Temp /\ e \in Loc
    BY <1>2, LocAssumption DEF Inv, TypeOK, IsMoves
  <2>. QED  BY <1>3, <2>1 DEF Inv, MovedThere
<1>8. OthersKept'
  BY <1>3 DEF Inv, TypeOK, OthersKept
<1>9. SweepInv' /\ DoneInv'
  BY <1>3, <1>4 DEF BreakCycle, Inv, SweepInv, DoneInv, Pending
<1>. QED  BY <1>5, <1>6, <1>7, <1>8, <1>9 DEF Inv

\* The invariant is inductive.
LEMMA InvStep == Inv /\ [Next]_shuffleVars => Inv'
<1> SUFFICES ASSUME Inv, [Next]_shuffleVars PROVE Inv'
  OBVIOUS
<1>1. CASE NextSweep
  BY <1>1 DEF NextSweep, Inv, TypeOK, PendingIntact, MovedThere, OthersKept, SweepInv,
              DoneInv, Pending
<1>2. CASE Finish
  BY <1>2 DEF Finish, Inv, TypeOK, PendingIntact, MovedThere, OthersKept, SweepInv,
              DoneInv, Pending, isSourceOfPendingMove
<1>3. CASE UNCHANGED shuffleVars
  BY <1>3 DEF shuffleVars, Inv, TypeOK, PendingIntact, MovedThere, OthersKept, SweepInv,
              DoneInv, Pending, isSourceOfPendingMove
<1>. QED  BY <1>1, <1>2, <1>3, InvSkip, InvMove, InvBreakCycle DEF Next, Shuffle

\* The invariant always holds.
LEMMA InvAlways == Spec => []Inv
BY InvInit, InvStep, PTL DEF Spec

(***************************************************************************)
(* The shuffle loop never destroys a value that a pending move needs, for  *)
(* any set of moves over any set of locations.                             *)
(***************************************************************************)
THEOREM ValuesIntact == Spec => []PendingIntact
<1>1. Inv => PendingIntact
  BY DEF Inv
<1>. QED  BY <1>1, InvAlways, PTL

(***************************************************************************)
(* The shuffle loop only gets stuck on cycles of registers, so the code's  *)
(* branch for other sources is dead and the scratch register is free.      *)
(***************************************************************************)
THEOREM OnlyCyclesAreLeft == Spec => []StuckInCycles
<1>1. Inv => StuckInCycles
  BY Cycles DEF StuckInCycles
<1>. QED  BY <1>1, InvAlways, PTL

(***************************************************************************)
(* A step of the shuffle loop is the parallel assignment, when the loop    *)
(* ends, or changes nothing that the assignment knows of.                  *)
(***************************************************************************)
LEMMA ShuffleRefines ==
  Inv /\ Inv' /\ [Next]_shuffleVars =>
    [Assignment!Assign]_<<IF pc = "done" THEN store ELSE before, pc = "done", wanted>>
<1> SUFFICES ASSUME Inv, Inv', [Next]_shuffleVars
             PROVE  [Assignment!Assign]_<<IF pc = "done" THEN store ELSE before,
                                          pc = "done", wanted>>
  OBVIOUS
<1>1. CASE Finish
  <2>1. /\ pc # "done" /\ pc' = "done" /\ wanted' = wanted /\ store' = store
        /\ done = DOMAIN wanted /\ store \in [Loc -> Loc]
    BY <1>1 DEF Finish, Inv, TypeOK
  <2>2. \A l \in Loc \ {Temp} :
          store[l] = IF l \in DOMAIN wanted THEN before[wanted[l]] ELSE before[l]
    BY <2>1 DEF Inv, MovedThere, OthersKept
  <2>3. Assignment!Assign
    BY <2>1, <2>2 DEF Assignment!Assign
  <2>. QED  BY <2>3
<1>2. CASE UNCHANGED <<before, wanted, pc>> /\ pc # "done"
  BY <1>2
<1>3. CASE UNCHANGED shuffleVars
  BY <1>3 DEF shuffleVars
<1>4. CASE \E d \in Register : Skip(d) \/ Move(d) \/ BreakCycle(d)
  BY <1>2, <1>4 DEF Skip, Move, BreakCycle
<1>5. CASE NextSweep
  BY <1>2, <1>5 DEF NextSweep
<1>. QED  BY <1>1, <1>3, <1>4, <1>5 DEF Next, Shuffle

(***************************************************************************)
(* The shuffle loop implements the parallel assignment of the moves.       *)
(***************************************************************************)
THEOREM ShuffleImplementsAssignment == Spec => IsParallelAssignment
<1>1. Init => Assignment!Init
  <2> SUFFICES ASSUME Init PROVE Assignment!Init
    OBVIOUS
  <2>1. pc # "done" /\ before \in [Loc -> Loc]
    BY DEF Init
  <2>. QED  BY <2>1 DEF Assignment!Init
<1>2. Spec => Assignment!Spec
  BY <1>1, ShuffleRefines, InvAlways, PTL DEF Spec, Assignment!Spec
<1>. QED  BY <1>2 DEF IsParallelAssignment

-----------------------------------------------------------------------------
\* A non-empty set of positions has a last one.
LEMMA LastPosition ==
  ASSUME NEW n \in Nat, NEW S \in SUBSET (1..n), S # {}
  PROVE  \E m \in S : \A j \in S : j <= m
<1> DEFINE D == {n - j : j \in S}
<1>1. D \subseteq Nat /\ D # {}
  <2>1. \A j \in S : n - j \in Nat
    OBVIOUS
  <2>. QED  BY <2>1
<1>2. PICK d \in D : \A e \in D : ~(<<e, d>> \in OpToRel(<, Nat))
  BY <1>1, NatLessThanWellFounded, WFMin
<1>3. \A e \in D : ~(e < d)
  BY <1>1, <1>2 DEF OpToRel
<1>4. PICK m \in S : d = n - m
  BY <1>2
<1>5. ASSUME NEW j \in S PROVE j <= m
  <2>1. n - j \in D /\ j \in Nat /\ m \in Nat
    OBVIOUS
  <2>. QED  BY <1>3, <1>4, <2>1
<1>. QED  BY <1>5

-----------------------------------------------------------------------------
(***************************************************************************)
(* The caller.  Until the shuffle begins only the scratch register has     *)
(* changed, and it holds the last argument that was loaded.                *)
(***************************************************************************)
LoadedSoFar == {j \in Loaded(call) : j < next}

ScratchHolds(v) ==
  \/ LoadedSoFar = {} /\ v = Temp
  \/ \E m \in LoadedSoFar : (\A j \in LoadedSoFar : j <= m) /\ v = call.args[m]

OverflowInv ==
  /\ store \in [Loc -> Loc] /\ \A l \in Loc \ {Temp} : store[l] = l
  /\ ScratchHolds(store[Temp])
  /\ moves = <<>> /\ done = {} /\ todo = {} /\ progress = FALSE

BeforeInv ==
  /\ before \in [Loc -> Loc] /\ \A l \in Loc \ {Temp} : before[l] = l
  /\ Loaded(call) = {} => before[Temp] = Temp
  /\ \A m \in Loaded(call) : (\A j \in Loaded(call) : j <= m) => before[Temp] = call.args[m]

OutgoingInv ==
  /\ next \in Nat /\ next > call.regArgs
  /\ next <= Len(call.args) + 1 \/ next = call.regArgs + 1
  /\ outgoing \in Seq(Loc) /\ Len(outgoing) = next - 1 - call.regArgs
  /\ ~ScratchConflict(call) =>
       \A j \in OnStack(call) : j < next => outgoing[j - call.regArgs] = call.args[j]

CallInv ==
  /\ call \in Calls /\ wanted = NeededMoves(call)
  /\ BeforeInv /\ OutgoingInv
  /\ pc \in {"overflow", "shuffle", "done"}
  /\ pc = "overflow" => OverflowInv
  /\ pc # "overflow" => Inv /\ next > Len(call.args)

\* What is known of a call.
LEMMA CallFacts ==
  ASSUME call \in Calls
  PROVE  /\ Len(call.args) \in Nat /\ call.regArgs \in Nat /\ Len(ArgRegs) \in Nat
         /\ call.regArgs <= Len(ArgRegs)
         /\ \A j \in 1..Len(call.args) : call.args[j] \in Loc
         /\ \A j \in 1..Len(ArgRegs) : ArgRegs[j] \in Register \ {Temp}
         /\ \A j \in InRegisters(call) : j \in 1..Len(call.args) /\ j \in 1..Len(ArgRegs)
         /\ \A j, k \in InRegisters(call) : ArgRegs[j] = ArgRegs[k] => j = k
         /\ \A j \in OnStack(call) : j \in 1..Len(call.args)
         /\ Temp \in Loc /\ Register \subseteq Loc
<1>1. /\ call.args \in Seq(Loc) /\ call.regArgs \in 0..Len(ArgRegs)
      /\ ArgRegs \in Seq(Register \ {Temp})
      /\ \A j, k \in DOMAIN ArgRegs : ArgRegs[j] = ArgRegs[k] => j = k
  BY CallsAssumption DEF Distinct
<1>. QED  BY <1>1, LocAssumption DEF InRegisters, OnStack

(***************************************************************************)
(* The moves that the code collects are moves in the sense of the shuffle: *)
(* the argument registers are distinct, so each has one source.            *)
(***************************************************************************)
LEMMA NeededMovesAreMoves ==
  ASSUME call \in Calls
  PROVE  /\ IsMoves(NeededMoves(call))
         /\ \A j \in InRegisters(call) : call.args[j] # ArgRegs[j] =>
              /\ ArgRegs[j] \in DOMAIN NeededMoves(call)
              /\ NeededMoves(call)[ArgRegs[j]] = call.args[j]
         /\ \A j \in InRegisters(call) : call.args[j] = ArgRegs[j] =>
              ArgRegs[j] \notin DOMAIN NeededMoves(call)
<1> DEFINE m == NeededMoves(call)
<1>1. DOMAIN m = {ArgRegs[j] : j \in {k \in InRegisters(call) : call.args[k] # ArgRegs[k]}}
  BY DEF NeededMoves
<1>2. ASSUME NEW j \in InRegisters(call), ArgRegs[j] \in DOMAIN m
      PROVE  m[ArgRegs[j]] = call.args[j]
  <2>1. (CHOOSE k \in InRegisters(call) : ArgRegs[k] = ArgRegs[j]) = j
    BY CallFacts
  <2>. QED  BY <1>2, <2>1 DEF NeededMoves
<1> HIDE DEF m
<1>3. ASSUME NEW d \in DOMAIN m
      PROVE  d \in Register \ {Temp} /\ m[d] \in Loc /\ m[d] # d
  <2>1. PICK j \in InRegisters(call) : d = ArgRegs[j] /\ call.args[j] # ArgRegs[j]
    BY <1>1
  <2>2. m[d] = call.args[j]
    BY <1>2, <2>1
  <2>. QED  BY <2>1, <2>2, CallFacts
<1>4. IsMoves(m)
  BY <1>3 DEF IsMoves
<1>5. ASSUME NEW j \in InRegisters(call), call.args[j] = ArgRegs[j],
             ArgRegs[j] \in DOMAIN m
      PROVE  FALSE
  <2>1. PICK k \in InRegisters(call) : ArgRegs[j] = ArgRegs[k] /\ call.args[k] # ArgRegs[k]
    BY <1>1, <1>5
  <2>. QED  BY <1>5, <2>1, CallFacts
<1>. QED  BY <1>1, <1>2, <1>4, <1>5 DEF m

LEMMA CallInvInit == CallInit => CallInv
<1> SUFFICES ASSUME CallInit PROVE CallInv
  OBVIOUS
<1>1. call \in Calls /\ wanted = NeededMoves(call) /\ pc = "overflow"
  BY DEF CallInit
<1>2. store \in [Loc -> Loc] /\ \A l \in Loc : store[l] = l
  BY DEF CallInit
<1>3. LoadedSoFar = {}
  BY <1>1, CallFacts DEF CallInit, LoadedSoFar, Loaded, OnStack
<1>4. OverflowInv
  BY <1>1, <1>2, <1>3, CallFacts DEF CallInit, OverflowInv, ScratchHolds
<1>5. OutgoingInv
  <2>1. next = call.regArgs + 1 /\ outgoing = <<>>
    BY DEF CallInit
  <2>. QED  BY <1>1, <2>1, CallFacts DEF OutgoingInv, OnStack
<1>6. BeforeInv
  <2>1. CASE Loaded(call) = {}
    BY <1>1, <1>2, <2>1, CallFacts DEF CallInit, BeforeInv
  <2>2. CASE Loaded(call) # {}
    <3>1. before = [store EXCEPT ![Temp] = call.args[Max(Loaded(call))]]
      BY <2>2 DEF CallInit
    <3>2. ASSUME NEW m \in Loaded(call), \A j \in Loaded(call) : j <= m
          PROVE  Max(Loaded(call)) = m
      <4>1. \A x \in Loaded(call) : x \in Nat
        BY <1>1, CallFacts DEF Loaded, OnStack
      <4>2. \A x \in Loaded(call) : (\A j \in Loaded(call) : x >= j) => x = m
        BY <3>2, <4>1
      <4>3. \A j \in Loaded(call) : m >= j
        BY <3>2, <4>1
      <4>. QED  BY <4>2, <4>3 DEF Max
    <3>3. call.args[Max(Loaded(call))] \in Loc
      <4>1. Loaded(call) \in SUBSET (1..Len(call.args))
        BY <1>1, CallFacts DEF Loaded
      <4>2. \E m \in Loaded(call) : \A j \in Loaded(call) : j <= m
        BY <1>1, <2>2, <4>1, CallFacts, LastPosition
      <4>. QED  BY <1>1, <3>2, <4>1, <4>2, CallFacts
    <3>. QED  BY <1>1, <1>2, <2>2, <3>1, <3>2, <3>3, CallFacts DEF BeforeInv
  <2>. QED  BY <2>1, <2>2
<1>. QED  BY <1>1, <1>4, <1>5, <1>6 DEF CallInv

\* One overflow argument is stored, through the scratch register if need be.
LEMMA CallInvStore == CallInv /\ StoreOverflow => CallInv'
<1> SUFFICES ASSUME CallInv, StoreOverflow PROVE CallInv'
  OBVIOUS
<1> DEFINE arg == call.args[next]
<1>1. /\ pc = "overflow" /\ next <= Len(call.args) /\ next' = next + 1
      /\ outgoing' = Append(outgoing, store[arg])
      /\ store' = IF arg \in Register THEN store ELSE [store EXCEPT ![Temp] = store[arg]]
      /\ UNCHANGED <<call, wanted, before, moves, done, todo, progress, pc>>
  BY DEF StoreOverflow
<1>2. /\ call \in Calls /\ OverflowInv /\ OutgoingInv /\ BeforeInv /\ wanted = NeededMoves(call)
  BY <1>1 DEF CallInv
<1>3. next \in OnStack(call) /\ next \in Nat /\ arg \in Loc
  BY <1>1, <1>2, CallFacts DEF OutgoingInv, OnStack
<1>4. store \in [Loc -> Loc] /\ \A l \in Loc \ {Temp} : store[l] = l
  BY <1>2 DEF OverflowInv
<1>5. ~ScratchConflict(call) => store[arg] = arg
  <2> SUFFICES ASSUME store[arg] # arg PROVE ScratchConflict(call)
    OBVIOUS
  <2>1. arg = Temp
    BY <1>3, <1>4
  <2>2. PICK m \in LoadedSoFar : TRUE
    BY <1>2, <2>1 DEF OverflowInv, ScratchHolds
  <2>3. m \in Loaded(call) /\ m < next
    BY DEF LoadedSoFar
  <2>4. m \in Nat /\ next \in 1..Len(call.args)
    BY <1>2, <1>3, <2>3, CallFacts DEF Loaded, OnStack
  <2>. QED  BY <2>1, <2>3, <2>4 DEF ScratchConflict
<1>6. OutgoingInv'
  <2>1. /\ next' \in Nat /\ next' > call.regArgs /\ next' <= Len(call.args) + 1
        /\ outgoing' \in Seq(Loc) /\ Len(outgoing') = next' - 1 - call.regArgs
        /\ outgoing'[next - call.regArgs] = store[arg]
    <3>1. PICK len, k : len = Len(call.args) /\ k = call.regArgs
      OBVIOUS
    <3>2. /\ len \in Nat /\ k \in Nat /\ next \in Nat /\ next > k /\ next \in 1..len
          /\ outgoing \in Seq(Loc) /\ Len(outgoing) = next - 1 - k
      BY <1>1, <1>2, <1>3, <3>1, CallFacts DEF OutgoingInv, OnStack
    <3>3. next' = next + 1 /\ outgoing' = Append(outgoing, store[arg]) /\ store[arg] \in Loc
      BY <1>1, <1>3, <1>4
    <3>4. next' \in Nat /\ next' > k /\ next' <= len + 1
      BY <3>2, <3>3
    <3>5. /\ outgoing' \in Seq(Loc) /\ Len(outgoing') = Len(outgoing) + 1
          /\ outgoing'[Len(outgoing) + 1] = store[arg]
      BY <3>2, <3>3, AppendProperties
    <3>6. Len(outgoing) + 1 = next' - 1 - k /\ Len(outgoing) + 1 = next - k
      BY <3>2, <3>3
    <3>. QED  BY <3>1, <3>4, <3>5, <3>6
  <2>2. ASSUME ~ScratchConflict(call), NEW j \in OnStack(call), j < next'
        PROVE  outgoing'[j - call.regArgs] = call.args[j]
    <3>1. CASE j = next
      BY <1>5, <2>1, <2>2, <3>1
    <3>2. CASE j # next
      <4>0. /\ j \in Nat /\ call.regArgs \in Nat /\ j > call.regArgs
            /\ Len(outgoing) = next - 1 - call.regArgs
        BY <1>2, CallFacts DEF OutgoingInv, OnStack
      <4>1. j < next /\ j - call.regArgs \in 1..Len(outgoing)
        BY <1>1, <1>3, <2>2, <3>2, <4>0
      <4>2. outgoing'[j - call.regArgs] = outgoing[j - call.regArgs]
        BY <1>1, <1>2, <1>3, <1>4, <4>1 DEF OutgoingInv
      <4>. QED  BY <1>2, <2>2, <4>1, <4>2 DEF OutgoingInv
    <3>. QED  BY <3>1, <3>2
  <2>3. ~ScratchConflict(call) =>
          \A j \in OnStack(call) : j < next' => outgoing'[j - call.regArgs] = call.args[j]
    BY <2>2
  <2>4. call' = call
    BY <1>1
  <2>. QED  BY <2>1, <2>3, <2>4 DEF OutgoingInv
<1>7. OverflowInv'
  <2>1. CASE arg \in Register
    <3>1. LoadedSoFar' = LoadedSoFar
      BY <1>1, <1>3, <2>1, <1>2, CallFacts DEF LoadedSoFar, Loaded, OnStack
    <3>. QED  BY <1>1, <1>2, <2>1, <3>1 DEF OverflowInv, ScratchHolds
  <2>2. CASE arg \notin Register
    <3>1. arg # Temp /\ store[arg] = arg /\ Temp \in Loc
      BY <1>3, <1>4, <2>2, LocAssumption
    <3>2. /\ store' \in [Loc -> Loc] /\ store'[Temp] = arg
          /\ \A l \in Loc \ {Temp} : store'[l] = l
      BY <1>1, <1>3, <1>4, <2>2, <3>1
    <3>3. next \in LoadedSoFar' /\ \A j \in LoadedSoFar' : j <= next
      BY <1>1, <1>2, <1>3, <2>2, CallFacts DEF LoadedSoFar, Loaded, OnStack
    <3>. QED  BY <1>1, <1>2, <3>2, <3>3 DEF OverflowInv, ScratchHolds
  <2>. QED  BY <2>1, <2>2
<1>8. BeforeInv'
  BY <1>1, <1>2 DEF BeforeInv
<1>. QED  BY <1>1, <1>2, <1>6, <1>7, <1>8 DEF CallInv

\* The shuffle begins with the store that before foresees.
LEMMA CallInvStart == CallInv /\ StartShuffle => CallInv'
<1> SUFFICES ASSUME CallInv, StartShuffle PROVE CallInv'
  OBVIOUS
<1>1. /\ pc = "overflow" /\ next > Len(call.args) /\ pc' = "shuffle"
      /\ moves' = wanted /\ todo' = DOMAIN wanted
      /\ UNCHANGED <<call, next, outgoing, wanted, before, store, done, progress>>
  BY DEF StartShuffle
<1>2. /\ call \in Calls /\ OverflowInv /\ OutgoingInv /\ BeforeInv /\ wanted = NeededMoves(call)
  BY <1>1 DEF CallInv
<1>3. LoadedSoFar = Loaded(call)
  BY <1>1, <1>2, CallFacts DEF LoadedSoFar, Loaded, OnStack, OutgoingInv
<1>4. store = before
  <2>1. store[Temp] = before[Temp]
    <3>1. CASE Loaded(call) = {}
      BY <1>2, <1>3, <3>1 DEF OverflowInv, ScratchHolds, BeforeInv
    <3>2. CASE Loaded(call) # {}
      <4>1. PICK m \in Loaded(call) :
              (\A j \in Loaded(call) : j <= m) /\ store[Temp] = call.args[m]
        BY <1>2, <1>3, <3>2 DEF OverflowInv, ScratchHolds
      <4>. QED  BY <1>2, <4>1 DEF BeforeInv
    <3>. QED  BY <3>1, <3>2
  <2>2. \A l \in Loc : store[l] = before[l]
    BY <1>2, <2>1 DEF OverflowInv, BeforeInv
  <2>. QED  BY <1>2, <2>2 DEF OverflowInv, BeforeInv
<1>5. IsMoves(wanted)
  BY <1>2, NeededMovesAreMoves
<1>6. Inv'
  <2>1. TypeOK'
    BY <1>1, <1>2, <1>5 DEF TypeOK, IsMoves, OverflowInv, BeforeInv
  <2>2. done' = {} /\ progress' = FALSE /\ pc' # "done"
    BY <1>1, <1>2 DEF OverflowInv
  <2>3. Pending' = DOMAIN wanted /\ todo' = DOMAIN wanted
    BY <1>1, <2>2 DEF Pending
  <2>4. PendingIntact' /\ MovedThere' /\ OthersKept' /\ SweepInv' /\ DoneInv'
    BY <1>1, <1>4, <2>2, <2>3 DEF PendingIntact, MovedThere, OthersKept, SweepInv, DoneInv
  <2>. QED  BY <2>1, <2>4 DEF Inv
<1>7. OutgoingInv' /\ BeforeInv'
  BY <1>1, <1>2 DEF OutgoingInv, BeforeInv
<1>. QED  BY <1>1, <1>2, <1>6, <1>7 DEF CallInv

\* The shuffle keeps its own invariant and leaves the rest alone.
LEMMA CallInvShuffle ==
  CallInv /\ Shuffle /\ UNCHANGED <<call, next, outgoing>> => CallInv' /\ pc' # "overflow"
<1> SUFFICES ASSUME CallInv, Shuffle, UNCHANGED <<call, next, outgoing>>
             PROVE  CallInv' /\ pc' # "overflow"
  OBVIOUS
<1>1. pc = "shuffle" /\ UNCHANGED <<wanted, before>>
  BY DEF Shuffle, Skip, Move, BreakCycle, NextSweep, Finish
<1>2. Inv' /\ pc' \in {"shuffle", "done"}
  <2>1. Inv'
    BY <1>1, InvStep DEF CallInv, Next
  <2>. QED  BY <2>1 DEF Inv, TypeOK
<1>3. OutgoingInv' /\ BeforeInv'
  BY <1>1 DEF CallInv, OutgoingInv, BeforeInv
<1>. QED  BY <1>1, <1>2, <1>3 DEF CallInv

LEMMA CallInvStep == CallInv /\ [CallNext]_callVars => CallInv'
<1> SUFFICES ASSUME CallInv, UNCHANGED callVars PROVE CallInv'
  BY CallInvStore, CallInvStart, CallInvShuffle DEF CallNext
<1>1. OverflowInv => OverflowInv'
  BY DEF callVars, shuffleVars, OverflowInv, ScratchHolds, LoadedSoFar
<1>2. Inv => Inv'
  BY InvStep DEF callVars
<1>3. OutgoingInv' /\ BeforeInv'
  BY DEF callVars, shuffleVars, CallInv, OutgoingInv, BeforeInv
<1>. QED  BY <1>1, <1>2, <1>3 DEF callVars, shuffleVars, CallInv

(***************************************************************************)
(* When the shuffle has ended every argument is where it belongs.          *)
(***************************************************************************)
LEMMA CallDelivers == CallInv => ArgumentsDelivered
<1> SUFFICES ASSUME CallInv, pc = "done", ~ScratchConflict(call) PROVE Delivered(call)
  BY DEF ArgumentsDelivered
<1>1. /\ call \in Calls /\ wanted = NeededMoves(call) /\ BeforeInv /\ OutgoingInv
      /\ Inv /\ next > Len(call.args)
  BY DEF CallInv
<1>2. done = DOMAIN wanted
  BY <1>1 DEF Inv, DoneInv, TypeOK
<1>3. ASSUME NEW j \in InRegisters(call) PROVE store[ArgRegs[j]] = call.args[j]
  <2>1. /\ ArgRegs[j] \in Loc \ {Temp} /\ call.args[j] \in Loc
        /\ j \in 1..Len(call.args)
    BY <1>1, CallFacts
  <2>2. CASE call.args[j] = ArgRegs[j]
    <3>1. ArgRegs[j] \notin done
      BY <1>1, <1>2, <2>2, NeededMovesAreMoves
    <3>. QED  BY <1>1, <2>1, <2>2, <3>1 DEF Inv, OthersKept, BeforeInv
  <2>3. CASE call.args[j] # ArgRegs[j]
    <3>1. ArgRegs[j] \in done /\ wanted[ArgRegs[j]] = call.args[j]
      BY <1>1, <1>2, <2>3, NeededMovesAreMoves
    <3>2. store[ArgRegs[j]] = before[call.args[j]]
      BY <1>1, <3>1 DEF Inv, MovedThere
    <3>3. before[call.args[j]] = call.args[j]
      <4>1. CASE call.args[j] # Temp
        BY <1>1, <2>1, <4>1 DEF BeforeInv
      <4>2. CASE call.args[j] = Temp
        <5>1. Loaded(call) = {}
          BY <2>1, <4>2 DEF ScratchConflict
        <5>. QED  BY <1>1, <4>2, <5>1 DEF BeforeInv
      <4>. QED  BY <4>1, <4>2
    <3>. QED  BY <3>2, <3>3
  <2>. QED  BY <2>2, <2>3
<1>4. ASSUME NEW j \in OnStack(call) PROVE outgoing[j - call.regArgs] = call.args[j]
  <2>1. j < next
    BY <1>1, CallFacts DEF OutgoingInv
  <2>. QED  BY <1>1, <2>1 DEF OutgoingInv
<1>. QED  BY <1>3, <1>4 DEF Delivered

-----------------------------------------------------------------------------
(***************************************************************************)
(* The callee.  While sources are saved every parameter is still where it  *)
(* arrived, and the copies are in temporary registers of their own.        *)
(***************************************************************************)
SaveInv ==
  /\ DOMAIN saved = {ArgLocation(k) : k \in {m \in 1..i-1 : Clobbered(m)}}
  /\ \A k \in 1..i-1 : Clobbered(k) =>
       /\ saved[ArgLocation(k)] \in {TempRegs[t] : t \in 1..tmpIndex}
       /\ local[saved[ArgLocation(k)]] = call.args[k]
  /\ \A k \in 1..Count : local[ArgLocation(k)] = call.args[k]
  /\ \A r \in Register \ Temps : local[r] = store[r]

\* Where the code takes a parameter from.
Source(k) == IF ArgLocation(k) \in DOMAIN saved THEN saved[ArgLocation(k)] ELSE ArgLocation(k)

(***************************************************************************)
(* Then the parameters before i are in place, and the values of the others *)
(* are where the code takes them from.                                     *)
(***************************************************************************)
PlaceInv ==
  /\ \A k \in 1..Count : /\ ArgLocation(k) \in DOMAIN saved <=> Clobbered(k)
                         /\ Clobbered(k) => saved[ArgLocation(k)] \in Temps
  /\ \A k \in 1..i-1 : local[call.dst[k]] = call.args[k]
  /\ \A k \in i..Count : /\ Needed(k) => local[Source(k)] = call.args[k]
                         /\ ~Needed(k) => local[call.dst[k]] = call.args[k]
  /\ \A r \in Register \ (DstSet \cup Temps) : local[r] = store[r]

EntryInv ==
  /\ CallInv
  /\ local \in [Loc -> Loc \cup {Unknown}]
  /\ entry \in {"caller", "save", "move", "body"}
  /\ i \in Nat /\ tmpIndex \in Nat
  /\ \A l \in DOMAIN saved : saved[l] \in Loc
  /\ entry = "caller" => i = 1 /\ tmpIndex = 0 /\ saved = <<>>
  /\ entry # "caller" => pc = "done" /\ call.dst # <<>> /\ i \in 1..Count + 1
  /\ entry = "save" => tmpIndex <= Len(TempRegs)
  /\ entry = "save" /\ ~ScratchConflict(call) => SaveInv
  /\ entry = "move" /\ tmpIndex <= Len(TempRegs) /\ ~ScratchConflict(call) => PlaceInv
  /\ ParametersArrive

\* What is known of a call to a function that is compiled here.
LEMMA EntryFacts ==
  ASSUME call \in Calls, call.dst # <<>>
  PROVE  /\ Count \in Nat /\ Count = Len(call.args) /\ Len(ArgRegs) \in Nat
         /\ call.regArgs = Len(ArgRegs) /\ Len(TempRegs) \in Nat
         /\ \A k \in 1..Count : ArgLocation(k) \in Loc \ Temps
         /\ \A j, k \in 1..Count : ArgLocation(j) = ArgLocation(k) => j = k
         /\ \A k \in 1..Count : call.dst[k] \in Loc
         /\ \A j, k \in 1..Count : call.dst[j] = call.dst[k] => j = k
         /\ \A k \in 1..Count : Clobbered(k) => k <= Len(ArgRegs)
         /\ \A k \in 1..Count : call.dst[k] \in Temps => k > Len(ArgRegs)
         /\ \A t \in 1..Len(TempRegs) : TempRegs[t] \in Temps /\ TempRegs[t] \in Loc
         /\ \A t, u \in 1..Len(TempRegs) : TempRegs[t] = TempRegs[u] => t = u
<1>1. /\ call.regArgs = Len(ArgRegs) /\ call.dst \in Seq(Loc) /\ Len(call.dst) = Len(call.args)
      /\ \A j, k \in DOMAIN call.dst : call.dst[j] = call.dst[k] => j = k
      /\ Len(call.dst) <= Len(ArgRegs) + Len(Incoming)
      /\ \A k \in 1..Len(call.dst) :
           /\ call.dst[k] \in Temps => k > Len(ArgRegs)
           /\ \A m \in DOMAIN Incoming : call.dst[k] = Incoming[m] => k = Len(ArgRegs) + m
  BY EntryAssumption DEF Distinct
<1>2. /\ TempRegs \in Seq(Register) /\ Incoming \in Seq(Loc \ Register)
      /\ ArgRegs \in Seq(Register \ {Temp})
      /\ \A k \in DOMAIN ArgRegs : ArgRegs[k] \notin Temps
      /\ \A j, k \in DOMAIN ArgRegs : ArgRegs[j] = ArgRegs[k] => j = k
      /\ \A j, k \in DOMAIN Incoming : Incoming[j] = Incoming[k] => j = k
      /\ \A j, k \in DOMAIN TempRegs : TempRegs[j] = TempRegs[k] => j = k
  BY EntryAssumption, CallsAssumption DEF Distinct
<1>3. /\ Count \in Nat /\ Count = Len(call.args) /\ Len(ArgRegs) \in Nat
      /\ Len(TempRegs) \in Nat /\ Len(Incoming) \in Nat
      /\ Count <= Len(ArgRegs) + Len(Incoming)
  BY <1>1, <1>2 DEF Count
<1>4. \A t \in 1..Len(TempRegs) : TempRegs[t] \in Temps /\ TempRegs[t] \in Loc
  BY <1>2, LocAssumption DEF Temps
<1>5. Temps \subseteq Register
  BY <1>2 DEF Temps
<1>6. ASSUME NEW k \in 1..Count
      PROVE  /\ k <= Len(ArgRegs) => /\ k \in DOMAIN ArgRegs /\ ArgLocation(k) = ArgRegs[k]
                                     /\ ArgLocation(k) \in Register
             /\ k > Len(ArgRegs) => /\ k - Len(ArgRegs) \in DOMAIN Incoming
                                    /\ ArgLocation(k) = Incoming[k - Len(ArgRegs)]
                                    /\ ArgLocation(k) \in Loc \ Register
  BY <1>2, <1>3 DEF ArgLocation
<1>7. \A k \in 1..Count : ArgLocation(k) \in Loc \ Temps
  <2> SUFFICES ASSUME NEW k \in 1..Count PROVE ArgLocation(k) \in Loc \ Temps
    OBVIOUS
  <2>1. CASE k <= Len(ArgRegs)
    <3>1. k \in DOMAIN ArgRegs /\ ArgLocation(k) = ArgRegs[k] /\ ArgLocation(k) \in Register
      BY <1>6, <2>1
    <3>. QED  BY <1>2, <3>1, LocAssumption
  <2>2. CASE k > Len(ArgRegs)
    <3>1. ArgLocation(k) \in Loc \ Register
      BY <1>6, <2>2
    <3>. QED  BY <1>5, <3>1
  <2>3. k <= Len(ArgRegs) \/ k > Len(ArgRegs)
    BY <1>3
  <2>. QED  BY <2>1, <2>2, <2>3
<1>8. ASSUME NEW j \in 1..Count, NEW k \in 1..Count, ArgLocation(j) = ArgLocation(k)
      PROVE  j = k
  <2>1. CASE j <= Len(ArgRegs) /\ k <= Len(ArgRegs)
    BY <1>2, <1>6, <1>8, <2>1
  <2>2. CASE j > Len(ArgRegs) /\ k > Len(ArgRegs)
    <3>1. j - Len(ArgRegs) = k - Len(ArgRegs)
      BY <1>2, <1>6, <1>8, <2>2
    <3>. QED  BY <1>3, <3>1
  <2>. QED  BY <1>3, <1>6, <1>8, <2>1, <2>2
<1>9. ASSUME NEW k \in 1..Count, Clobbered(k), k > Len(ArgRegs) PROVE FALSE
  <2>1. PICK j \in 1..Count : Needed(j) /\ call.dst[j] = ArgLocation(k)
    BY <1>9 DEF Clobbered, DstSet
  <2>2. j = Len(ArgRegs) + (k - Len(ArgRegs))
    BY <1>1, <1>6, <1>9, <2>1 DEF Count
  <2>3. j = k
    BY <1>3, <2>2
  <2>. QED  BY <2>1, <2>3 DEF Needed
<1>10. /\ \A k \in 1..Count : call.dst[k] \in Loc
       /\ \A j, k \in 1..Count : call.dst[j] = call.dst[k] => j = k
       /\ \A k \in 1..Count : call.dst[k] \in Temps => k > Len(ArgRegs)
  BY <1>1 DEF Count
<1>11. \A k \in 1..Count : Clobbered(k) => k <= Len(ArgRegs)
  BY <1>3, <1>9
<1>. QED  BY <1>1, <1>2, <1>3, <1>4, <1>7, <1>8, <1>10, <1>11

\* What the operators of the callee read.
LEMMA EntrySame ==
  ASSUME UNCHANGED call
  PROVE  /\ Count' = Count /\ DstSet' = DstSet
         /\ \A k : (Needed(k)' <=> Needed(k)) /\ (Clobbered(k)' <=> Clobbered(k))
BY DEF Count, DstSet, Needed, Clobbered

LEMMA EntryInvInit == EntryInit => EntryInv
<1> SUFFICES ASSUME EntryInit PROVE EntryInv
  OBVIOUS
<1>1. CallInv /\ local = store /\ store \in [Loc -> Loc]
  BY CallInvInit DEF EntryInit, CallInit
<1>2. i = 1 /\ tmpIndex = 0 /\ saved = <<>> /\ entry = "caller"
  BY DEF EntryInit
<1>. QED  BY <1>1, <1>2 DEF EntryInv, ParametersArrive

\* The callee has every argument where the convention wants it.
LEMMA EntryInvEnter == EntryInv /\ Enter => EntryInv'
<1> SUFFICES ASSUME EntryInv, Enter PROVE EntryInv'
  OBVIOUS
<1>1. /\ pc = "done" /\ entry = "caller" /\ call.dst # <<>> /\ entry' = "save"
      /\ UNCHANGED <<callVars, i, tmpIndex, saved>>
      /\ local' = [l \in Loc |->
           IF l \in Register THEN store[l]
           ELSE IF \E k \in DOMAIN outgoing : l = Incoming[k]
           THEN outgoing[CHOOSE k \in DOMAIN outgoing : l = Incoming[k]]
           ELSE Unknown]
  BY DEF Enter
<1>2. /\ UNCHANGED <<call, pc, store, outgoing>> /\ CallInv /\ CallInv'
      /\ call \in Calls /\ OutgoingInv /\ Inv /\ next > Len(call.args)
  <2>1. CallInv'
    BY <1>1, CallInvStep DEF EntryInv
  <2>. QED  BY <1>1, <2>1 DEF EntryInv, CallInv, callVars, shuffleVars
<1>3. /\ i = 1 /\ tmpIndex = 0 /\ saved = <<>> /\ i' = 1 /\ tmpIndex' = 0 /\ saved' = <<>>
  BY <1>1 DEF EntryInv
<1>4. /\ Count \in Nat /\ Count = Len(call.args) /\ Len(ArgRegs) \in Nat
      /\ call.regArgs = Len(ArgRegs) /\ Len(TempRegs) \in Nat
  BY <1>1, <1>2, EntryFacts
<1>5. local' \in [Loc -> Loc \cup {Unknown}]
  <2>1. outgoing \in Seq(Loc) /\ store \in [Loc -> Loc]
    BY <1>2 DEF OutgoingInv, Inv, TypeOK
  <2>2. \A l \in Loc : local'[l] \in Loc \cup {Unknown}
    <3> SUFFICES ASSUME NEW l \in Loc, l \notin Register,
                        \E k \in DOMAIN outgoing : l = Incoming[k]
                 PROVE  outgoing[CHOOSE k \in DOMAIN outgoing : l = Incoming[k]] \in Loc
      BY <1>1, <2>1
    <3>1. (CHOOSE k \in DOMAIN outgoing : l = Incoming[k]) \in DOMAIN outgoing
      OBVIOUS
    <3>. QED  BY <2>1, <3>1
  <2>. QED  BY <1>1, <2>2
<1>6. ASSUME ~ScratchConflict(call) PROVE SaveInv'
  <2>1. Delivered(call)
    BY <1>1, <1>2, <1>6, CallDelivers DEF ArgumentsDelivered
  <2>2. ASSUME NEW k \in 1..Count PROVE local'[ArgLocation(k)] = call.args[k]
    <3>1. ArgLocation(k) \in Loc
      BY <1>1, <1>2, EntryFacts
    <3>2. CASE k <= Len(ArgRegs)
      <4>1. ArgLocation(k) = ArgRegs[k] /\ k \in InRegisters(call) /\ ArgRegs[k] \in Register
        BY <1>2, <1>4, <3>2, CallFacts DEF ArgLocation, InRegisters
      <4>. QED  BY <1>1, <2>1, <3>1, <4>1 DEF Delivered
    <3>3. CASE k > Len(ArgRegs)
      <4> DEFINE m == k - Len(ArgRegs)
      <4>1. /\ ArgLocation(k) = Incoming[m] /\ k \in OnStack(call)
            /\ m \in 1..Count - Len(ArgRegs)
        BY <1>4, <3>3 DEF ArgLocation, OnStack
      <4>2. DOMAIN outgoing = 1..Count - Len(ArgRegs)
        <5>1. /\ next \in Nat /\ next > Len(call.args)
              /\ next <= Len(call.args) + 1 \/ next = call.regArgs + 1
          BY <1>2 DEF OutgoingInv
        <5>2. next = Count + 1
          BY <1>4, <3>3, <5>1
        <5>3. Len(outgoing) = Count - Len(ArgRegs) /\ outgoing \in Seq(Loc)
          BY <1>2, <1>4, <5>2 DEF OutgoingInv
        <5>. QED  BY <5>3
      <4>3. /\ Incoming \in Seq(Loc \ Register) /\ Count <= Len(ArgRegs) + Len(Incoming)
            /\ \A a, b \in DOMAIN Incoming : Incoming[a] = Incoming[b] => a = b
        BY <1>1, <1>2, EntryAssumption DEF Distinct, Count
      <4>4. \A a \in DOMAIN outgoing : a \in DOMAIN Incoming
        BY <1>4, <4>2, <4>3
      <4> HIDE DEF m
      <4>5. m \in DOMAIN outgoing /\ Incoming[m] \notin Register
        BY <4>1, <4>2, <4>3, <4>4
      <4>6. (CHOOSE a \in DOMAIN outgoing : ArgLocation(k) = Incoming[a]) = m
        BY <4>1, <4>3, <4>4, <4>5
      <4>7. local'[ArgLocation(k)] = outgoing[m]
        BY <1>1, <3>1, <4>1, <4>5, <4>6
      <4>8. outgoing[m] = call.args[k]
        BY <1>4, <2>1, <4>1 DEF Delivered, m
      <4>. QED  BY <4>7, <4>8
    <3>. QED  BY <1>4, <3>2, <3>3
  <2>3. \A r \in Register : local'[r] = store[r]
    BY <1>1, LocAssumption
  <2>4. Count' = Count
    BY <1>2, EntrySame
  <2>5. 1..i'-1 = {} /\ DOMAIN saved' = {}
    BY <1>3
  <2>. QED  BY <1>2, <1>3, <2>2, <2>3, <2>4, <2>5 DEF SaveInv
<1>7. i' \in 1..Count' + 1 /\ tmpIndex' <= Len(TempRegs)
  <2>1. Count' = Count
    BY <1>2, EntrySame
  <2>. QED  BY <1>3, <1>4, <2>1
<1>. QED  BY <1>1, <1>2, <1>3, <1>5, <1>6, <1>7 DEF EntryInv, ParametersArrive

\* The steps of the callee leave the caller's side alone.
LEMMA CallerDone ==
  ASSUME EntryInv, entry # "caller", UNCHANGED callVars
  PROVE  /\ CallInv' /\ UNCHANGED <<call, pc, store>>
         /\ call \in Calls /\ call.dst # <<>> /\ pc = "done" /\ i \in 1..Count + 1
         /\ Count' = Count /\ DstSet' = DstSet
         /\ \A k : (Needed(k)' <=> Needed(k)) /\ (Clobbered(k)' <=> Clobbered(k))
         /\ ScratchConflict(call)' <=> ScratchConflict(call)
<1>1. UNCHANGED <<call, pc, store>>
  BY DEF callVars, shuffleVars
<1>2. CallInv'
  BY CallInvStep DEF EntryInv
<1>3. call \in Calls /\ call.dst # <<>> /\ pc = "done" /\ i \in 1..Count + 1
  BY DEF EntryInv, CallInv
<1>. QED  BY <1>1, <1>2, <1>3, EntrySame

\* A source that no move overwrites is not saved.
LEMMA EntryInvNothing == EntryInv /\ NothingToSave => EntryInv'
<1> SUFFICES ASSUME EntryInv, NothingToSave PROVE EntryInv'
  OBVIOUS
<1>1. /\ entry = "save" /\ i <= Count /\ ~Clobbered(i) /\ i' = i + 1
      /\ UNCHANGED <<callVars, local, tmpIndex, saved, entry>>
  BY DEF NothingToSave
<1>2. /\ CallInv' /\ UNCHANGED <<call, pc, store>>
      /\ call \in Calls /\ call.dst # <<>> /\ pc = "done" /\ i \in 1..Count + 1
      /\ Count' = Count /\ DstSet' = DstSet
      /\ \A k : (Needed(k)' <=> Needed(k)) /\ (Clobbered(k)' <=> Clobbered(k))
      /\ ScratchConflict(call)' <=> ScratchConflict(call)
  BY <1>1, CallerDone
<1>3. Count \in Nat
  BY <1>2, EntryFacts
<1>4. i' \in 1..Count + 1
  BY <1>1, <1>2, <1>3
<1>5. \A m \in 1..i'-1 : Clobbered(m) => m \in 1..i-1
  BY <1>1, <1>2, <1>3
<1>6. ASSUME ~ScratchConflict(call) PROVE SaveInv'
  <2>1. SaveInv
    BY <1>1, <1>6 DEF EntryInv
  <2>2. {m \in 1..i'-1 : Clobbered(m)} = {m \in 1..i-1 : Clobbered(m)}
    BY <1>1, <1>2, <1>3, <1>5
  <2>3. DOMAIN saved' = {ArgLocation(k) : k \in {m \in 1..i'-1 : Clobbered(m)'}}
    BY <1>1, <1>2, <2>1, <2>2 DEF SaveInv
  <2>. QED  BY <1>1, <1>2, <1>5, <2>1, <2>3 DEF SaveInv
<1>. QED  BY <1>1, <1>2, <1>4, <1>6 DEF EntryInv, ParametersArrive

\* A saved source is in a temporary register that holds no other one.
LEMMA EntryInvSave == EntryInv /\ SaveSource => EntryInv'
<1> SUFFICES ASSUME EntryInv, SaveSource PROVE EntryInv'
  OBVIOUS
<1> DEFINE tmp == TempRegs[tmpIndex + 1]
<1>1. /\ entry = "save" /\ i <= Count /\ Clobbered(i) /\ tmpIndex < Len(TempRegs)
      /\ i' = i + 1 /\ tmpIndex' = tmpIndex + 1 /\ UNCHANGED <<callVars, entry>>
      /\ local' = [local EXCEPT ![tmp] = local[ArgLocation(i)]]
      /\ saved' = [l \in DOMAIN saved \cup {ArgLocation(i)} |->
                     IF l \in DOMAIN saved THEN saved[l] ELSE tmp]
  BY DEF SaveSource
<1>2. /\ CallInv' /\ UNCHANGED <<call, pc, store>>
      /\ call \in Calls /\ call.dst # <<>> /\ pc = "done" /\ i \in 1..Count + 1
      /\ Count' = Count /\ DstSet' = DstSet
      /\ \A k : (Needed(k)' <=> Needed(k)) /\ (Clobbered(k)' <=> Clobbered(k))
      /\ ScratchConflict(call)' <=> ScratchConflict(call)
  BY <1>1, CallerDone
<1>3. /\ Count \in Nat /\ Len(TempRegs) \in Nat /\ tmpIndex \in Nat /\ i \in 1..Count
      /\ local \in [Loc -> Loc \cup {Unknown}]
      /\ \A k \in 1..Count : ArgLocation(k) \in Loc \ Temps
      /\ \A j, k \in 1..Count : ArgLocation(j) = ArgLocation(k) => j = k
      /\ \A t \in 1..Len(TempRegs) : TempRegs[t] \in Temps /\ TempRegs[t] \in Loc
      /\ \A t, u \in 1..Len(TempRegs) : TempRegs[t] = TempRegs[u] => t = u
  BY <1>1, <1>2, EntryFacts DEF EntryInv
<1>4. /\ tmpIndex + 1 \in 1..Len(TempRegs) /\ tmp \in Temps /\ tmp \in Loc
      /\ i' \in 1..Count + 1 /\ tmpIndex' \in Nat /\ tmpIndex' <= Len(TempRegs)
  BY <1>1, <1>3
<1>5. /\ local' \in [Loc -> Loc \cup {Unknown}] /\ local'[tmp] = local[ArgLocation(i)]
      /\ \A l \in Loc \ {tmp} : local'[l] = local[l]
  BY <1>1, <1>3, <1>4
<1>6. ASSUME ~ScratchConflict(call) PROVE SaveInv'
  <2>1. SaveInv
    BY <1>1, <1>6 DEF EntryInv
  <2>2. ArgLocation(i) \notin DOMAIN saved
    BY <1>1, <1>3, <2>1 DEF SaveInv
  <2>3. /\ DOMAIN saved' = DOMAIN saved \cup {ArgLocation(i)}
        /\ saved'[ArgLocation(i)] = tmp
        /\ \A l \in DOMAIN saved : saved'[l] = saved[l]
    BY <1>1, <2>2
  <2>4. \A m \in 1..i'-1 : m \in 1..Count /\ (m \in 1..i-1 \/ m = i)
    BY <1>1, <1>3
  <2>5. DOMAIN saved' = {ArgLocation(k) : k \in {m \in 1..i'-1 : Clobbered(m)}}
    <3>1. {m \in 1..i'-1 : Clobbered(m)} = {m \in 1..i-1 : Clobbered(m)} \cup {i}
      BY <1>1, <1>3
    <3>. QED  BY <2>1, <2>3, <3>1 DEF SaveInv
  <2>6. ASSUME NEW k \in 1..i'-1, Clobbered(k)
        PROVE  /\ saved'[ArgLocation(k)] \in {TempRegs[t] : t \in 1..tmpIndex'}
               /\ local'[saved'[ArgLocation(k)]] = call.args[k]
    <3>1. CASE k = i
      <4>1. local[ArgLocation(i)] = call.args[i]
        BY <1>3, <2>1 DEF SaveInv
      <4>2. tmp \in {TempRegs[t] : t \in 1..tmpIndex'}
        BY <1>1, <1>3
      <4>. QED  BY <1>5, <2>3, <3>1, <4>1, <4>2
    <3>2. CASE k \in 1..i-1
      <4>1. /\ ArgLocation(k) \in DOMAIN saved
            /\ saved[ArgLocation(k)] \in {TempRegs[t] : t \in 1..tmpIndex}
            /\ local[saved[ArgLocation(k)]] = call.args[k]
        BY <2>1, <2>6, <3>2 DEF SaveInv
      <4>2. PICK t \in 1..tmpIndex : saved[ArgLocation(k)] = TempRegs[t]
        BY <4>1
      <4>3. t \in 1..Len(TempRegs) /\ t # tmpIndex + 1 /\ t \in 1..tmpIndex'
        BY <1>1, <1>3
      <4>4. TempRegs[t] # tmp /\ TempRegs[t] \in Loc
        BY <1>3, <1>4, <4>3
      <4>. QED  BY <1>5, <2>3, <4>1, <4>2, <4>3, <4>4
    <3>. QED  BY <2>4, <3>1, <3>2
  <2>7. \A k \in 1..Count : local'[ArgLocation(k)] = call.args[k]
    BY <1>3, <1>4, <1>5, <2>1 DEF SaveInv
  <2>8. \A r \in Register \ Temps : local'[r] = store[r]
    BY <1>4, <1>5, <2>1, LocAssumption DEF SaveInv
  <2>. QED  BY <1>2, <2>5, <2>6, <2>7, <2>8 DEF SaveInv
<1>7. \A l \in DOMAIN saved' : saved'[l] \in Loc
  BY <1>1, <1>4 DEF EntryInv
<1>. QED  BY <1>1, <1>2, <1>4, <1>5, <1>6, <1>7 DEF EntryInv, ParametersArrive

\* The second pass begins, with all clobbered sources saved or after giving up.
LEMMA EntryInvEndSaving == EntryInv /\ (GiveUpSaving \/ EndSaving) => EntryInv'
<1> SUFFICES ASSUME EntryInv, GiveUpSaving \/ EndSaving PROVE EntryInv'
  OBVIOUS
<1>1. /\ entry = "save" /\ entry' = "move" /\ i' = 1 /\ UNCHANGED <<callVars, local, saved>>
      /\ \/ tmpIndex' = Len(TempRegs) + 1
         \/ i > Count /\ tmpIndex' = tmpIndex
  BY DEF GiveUpSaving, EndSaving, EntryInv
<1>2. /\ CallInv' /\ UNCHANGED <<call, pc, store>>
      /\ call \in Calls /\ call.dst # <<>> /\ pc = "done" /\ i \in 1..Count + 1
      /\ Count' = Count /\ DstSet' = DstSet
      /\ \A k : (Needed(k)' <=> Needed(k)) /\ (Clobbered(k)' <=> Clobbered(k))
      /\ ScratchConflict(call)' <=> ScratchConflict(call)
  BY <1>1, CallerDone
<1>3. /\ Count \in Nat /\ Len(TempRegs) \in Nat /\ tmpIndex \in Nat
      /\ tmpIndex <= Len(TempRegs)
      /\ \A j, k \in 1..Count : ArgLocation(j) = ArgLocation(k) => j = k
      /\ \A t \in 1..Len(TempRegs) : TempRegs[t] \in Temps
  BY <1>1, <1>2, EntryFacts DEF EntryInv
<1>4. i' \in Nat /\ i' \in 1..Count + 1 /\ tmpIndex' \in Nat
  BY <1>1, <1>3
<1>5. ASSUME ~ScratchConflict(call), tmpIndex' <= Len(TempRegs) PROVE PlaceInv'
  <2>1. SaveInv /\ i = Count + 1 /\ tmpIndex' = tmpIndex
    BY <1>1, <1>2, <1>3, <1>5 DEF EntryInv
  <2>2. ASSUME NEW k \in 1..Count
        PROVE  /\ ArgLocation(k) \in DOMAIN saved <=> Clobbered(k)
               /\ Clobbered(k) => /\ saved[ArgLocation(k)] \in Temps
                                  /\ local[saved[ArgLocation(k)]] = call.args[k]
    <3>1. k \in 1..i-1
      BY <1>3, <2>1
    <3>2. ArgLocation(k) \in DOMAIN saved <=> Clobbered(k)
      <4>1. ASSUME ArgLocation(k) \in DOMAIN saved PROVE Clobbered(k)
        <5>1. PICK m \in 1..i-1 : Clobbered(m) /\ ArgLocation(m) = ArgLocation(k)
          BY <2>1, <4>1 DEF SaveInv
        <5>2. m = k
          BY <1>3, <2>1, <5>1
        <5>. QED  BY <5>1, <5>2
      <4>. QED  BY <2>1, <3>1, <4>1 DEF SaveInv
    <3>3. \A t \in 1..tmpIndex : TempRegs[t] \in Temps
      BY <1>3
    <3>. QED  BY <2>1, <3>1, <3>2, <3>3 DEF SaveInv
  <2>3. ASSUME NEW k \in 1..Count
        PROVE  /\ local[Source(k)] = call.args[k]
               /\ ~Needed(k) => local[call.dst[k]] = call.args[k]
    BY <2>1, <2>2 DEF Source, SaveInv, Needed
  <2>4. \A r \in Register \ (DstSet \cup Temps) : local[r] = store[r]
    BY <2>1 DEF SaveInv
  <2>5. 1..i'-1 = {} /\ i'..Count = 1..Count /\ \A k : Source(k)' = Source(k)
    BY <1>1 DEF Source
  <2>. QED  BY <1>1, <1>2, <2>2, <2>3, <2>4, <2>5 DEF PlaceInv
<1>. QED  BY <1>1, <1>2, <1>4, <1>5 DEF EntryInv, ParametersArrive

\* A move overwrites neither a parameter in place nor one still to be moved.
LEMMA EntryInvMove == EntryInv /\ MoveParameter => EntryInv'
<1> SUFFICES ASSUME EntryInv, MoveParameter PROVE EntryInv'
  OBVIOUS
<1>1. /\ entry = "move" /\ i <= Count /\ i' = i + 1
      /\ local' = IF ~Needed(i) THEN local
                  ELSE [local EXCEPT ![call.dst[i]] = local[Source(i)]]
      /\ UNCHANGED <<callVars, tmpIndex, saved, entry>>
  BY DEF MoveParameter, Source
<1>2. /\ CallInv' /\ UNCHANGED <<call, pc, store>>
      /\ call \in Calls /\ call.dst # <<>> /\ pc = "done" /\ i \in 1..Count + 1
      /\ Count' = Count /\ DstSet' = DstSet
      /\ \A k : (Needed(k)' <=> Needed(k)) /\ (Clobbered(k)' <=> Clobbered(k))
      /\ ScratchConflict(call)' <=> ScratchConflict(call)
  BY <1>1, CallerDone
<1>3. /\ Count \in Nat /\ i \in 1..Count /\ Len(ArgRegs) \in Nat
      /\ local \in [Loc -> Loc \cup {Unknown}]
      /\ \A k \in 1..Count : ArgLocation(k) \in Loc \ Temps
      /\ \A k \in 1..Count : call.dst[k] \in Loc
      /\ \A j, k \in 1..Count : call.dst[j] = call.dst[k] => j = k
      /\ \A k \in 1..Count : Clobbered(k) => k <= Len(ArgRegs)
      /\ \A k \in 1..Count : call.dst[k] \in Temps => k > Len(ArgRegs)
  BY <1>1, <1>2, EntryFacts DEF EntryInv
<1>4. i' \in Nat /\ i' \in 1..Count + 1
  BY <1>1, <1>3
<1>5. Source(i) \in Loc /\ local' \in [Loc -> Loc \cup {Unknown}]
  <2>1. Source(i) \in Loc
    BY <1>3 DEF Source, EntryInv
  <2>. QED  BY <1>1, <1>3, <2>1
<1>6. ASSUME ~ScratchConflict(call), tmpIndex <= Len(TempRegs)
      PROVE  PlaceInv'
  <2>1. PlaceInv
    BY <1>1, <1>6 DEF EntryInv
  <2>2. \A k \in 1..i'-1 : k \in 1..Count /\ (k \in 1..i-1 \/ k = i)
    BY <1>1, <1>3
  <2>3. \A k \in i'..Count : k \in i..Count /\ k \in 1..Count /\ k # i /\ i < k
    BY <1>1, <1>3
  <2>4. i \in i..Count /\ \A k : Source(k)' = Source(k)
    BY <1>1, <1>3 DEF Source
  <2>5. CASE ~Needed(i)
    <3>1. local' = local /\ local[call.dst[i]] = call.args[i]
      BY <1>1, <2>1, <2>4, <2>5 DEF PlaceInv
    <3>. QED  BY <1>1, <1>2, <1>3, <2>1, <2>2, <2>3, <2>4, <3>1 DEF PlaceInv
  <2>6. CASE Needed(i)
    <3>1. call.dst[i] \in Loc /\ call.dst[i] \in DstSet /\ local[Source(i)] = call.args[i]
      BY <1>3, <2>1, <2>4, <2>6 DEF PlaceInv, DstSet
    <3>3. /\ local'[call.dst[i]] = call.args[i]
          /\ \A l \in Loc : l # call.dst[i] => local'[l] = local[l]
      BY <1>1, <1>3, <1>5, <2>6, <3>1
    <3>4. \A k \in 1..i'-1 : local'[call.dst[k]] = call.args[k]
      <4>1. ASSUME NEW k \in 1..i-1 PROVE local'[call.dst[k]] = call.args[k]
        <5>1. k \in 1..Count /\ k # i
          BY <1>3
        <5>. QED  BY <1>3, <2>1, <3>3, <5>1 DEF PlaceInv
      <4>. QED  BY <2>2, <3>3, <4>1
    <3>5. ASSUME NEW k \in i'..Count
          PROVE  /\ Needed(k) => local'[Source(k)] = call.args[k]
                 /\ ~Needed(k) => local'[call.dst[k]] = call.args[k]
      <4>1. k \in 1..Count /\ k \in i..Count /\ k # i /\ i < k
        BY <2>3
      <4>2. CASE ~Needed(k)
        BY <1>3, <2>1, <3>3, <4>1, <4>2 DEF PlaceInv
      <4>3. CASE Needed(k) /\ Clobbered(k)
        <5>1. Source(k) = saved[ArgLocation(k)] /\ Source(k) \in Temps
          BY <2>1, <4>1, <4>3 DEF PlaceInv, Source
        <5>2. call.dst[i] \notin Temps
          BY <1>3, <4>1, <4>3
        <5>3. Source(k) \in Loc
          BY <5>1, EntryAssumption, LocAssumption DEF Temps
        <5>. QED  BY <2>1, <3>3, <4>1, <4>3, <5>1, <5>2, <5>3 DEF PlaceInv
      <4>4. CASE Needed(k) /\ ~Clobbered(k)
        <5>1. Source(k) = ArgLocation(k) /\ ArgLocation(k) \in Loc
          BY <1>3, <2>1, <4>1, <4>4 DEF PlaceInv, Source
        <5>2. ArgLocation(k) # call.dst[i]
          BY <3>1, <4>4 DEF Clobbered
        <5>. QED  BY <2>1, <3>3, <4>1, <4>4, <5>1, <5>2 DEF PlaceInv
      <4>. QED  BY <4>2, <4>3, <4>4
    <3>6. \A r \in Register \ (DstSet \cup Temps) : local'[r] = store[r]
      BY <2>1, <3>1, <3>3, LocAssumption DEF PlaceInv
    <3>7. \A k \in 1..Count : /\ ArgLocation(k) \in DOMAIN saved <=> Clobbered(k)
                              /\ Clobbered(k) => saved[ArgLocation(k)] \in Temps
      BY <2>1 DEF PlaceInv
    <3>. QED  BY <1>1, <1>2, <2>4, <3>3, <3>4, <3>5, <3>6, <3>7 DEF PlaceInv
  <2>. QED  BY <2>5, <2>6
<1>. QED  BY <1>1, <1>2, <1>4, <1>5, <1>6 DEF EntryInv, ParametersArrive

\* When all parameters have been moved the body finds them.
LEMMA EntryInvBegin == EntryInv /\ BeginBody => EntryInv'
<1> SUFFICES ASSUME EntryInv, BeginBody PROVE EntryInv'
  OBVIOUS
<1>1. /\ entry = "move" /\ i > Count /\ entry' = "body"
      /\ UNCHANGED <<callVars, local, i, tmpIndex, saved>>
  BY DEF BeginBody
<1>2. /\ CallInv' /\ UNCHANGED <<call, pc, store>>
      /\ call \in Calls /\ call.dst # <<>> /\ pc = "done" /\ i \in 1..Count + 1
      /\ Count' = Count /\ DstSet' = DstSet
      /\ ScratchConflict(call)' <=> ScratchConflict(call)
  BY <1>1, CallerDone
<1>3. i = Count + 1 /\ Count \in Nat
  BY <1>1, <1>2, EntryFacts
<1>4. ParametersArrive'
  <2> SUFFICES ASSUME tmpIndex <= Len(TempRegs), ~ScratchConflict(call)
               PROVE  /\ \A k \in 1..Count : local[call.dst[k]] = call.args[k]
                      /\ \A r \in Register \ (DstSet \cup Temps) : local[r] = store[r]
    BY <1>1, <1>2 DEF ParametersArrive
  <2>1. PlaceInv
    BY <1>1 DEF EntryInv
  <2>. QED  BY <1>3, <2>1 DEF PlaceInv
<1>. QED  BY <1>1, <1>2, <1>4 DEF EntryInv

\* While the caller shuffles, the callee has not begun.
LEMMA EntryInvCaller ==
  EntryInv /\ [CallNext]_callVars /\ UNCHANGED entryVars => EntryInv'
<1> SUFFICES ASSUME EntryInv, [CallNext]_callVars, UNCHANGED entryVars PROVE EntryInv'
  OBVIOUS
<1>1. UNCHANGED <<local, i, tmpIndex, saved, entry>>
  BY DEF entryVars
<1>2. CallInv'
  BY CallInvStep DEF EntryInv
<1>3. CASE entry = "caller"
  BY <1>1, <1>2, <1>3 DEF EntryInv, ParametersArrive
<1>4. CASE entry # "caller"
  <2>1. pc = "done"
    BY <1>4 DEF EntryInv
  <2>2. UNCHANGED callVars
    BY <2>1 DEF CallNext, StoreOverflow, StartShuffle, Shuffle, Skip, Move, BreakCycle,
                NextSweep, Finish
  <2>3. /\ UNCHANGED <<call, pc, store>> /\ Count' = Count /\ DstSet' = DstSet
        /\ \A k : (Needed(k)' <=> Needed(k)) /\ (Clobbered(k)' <=> Clobbered(k))
        /\ ScratchConflict(call)' <=> ScratchConflict(call)
    BY <1>4, <2>2, CallerDone
  <2>4. (SaveInv => SaveInv') /\ (PlaceInv => PlaceInv')
    BY <1>1, <2>3 DEF SaveInv, PlaceInv, Source
  <2>5. ParametersArrive'
    BY <1>1, <2>3 DEF EntryInv, ParametersArrive
  <2>. QED  BY <1>1, <1>2, <1>4, <2>3, <2>4, <2>5 DEF EntryInv
<1>. QED  BY <1>3, <1>4

LEMMA EntryInvStep == EntryInv /\ [EntryNext]_vars => EntryInv'
<1> SUFFICES ASSUME EntryInv, [EntryNext]_vars PROVE EntryInv'
  OBVIOUS
<1>1. CASE UNCHANGED vars
  BY <1>1, EntryInvCaller DEF vars
<1>2. CASE CallNext /\ UNCHANGED entryVars
  BY <1>2, EntryInvCaller
<1>. QED
  BY <1>1, <1>2, EntryInvEnter, EntryInvNothing, EntryInvSave, EntryInvEndSaving,
     EntryInvMove, EntryInvBegin DEF EntryNext

LEMMA EntryInvAlways == CallSpec => []EntryInv
BY EntryInvInit, EntryInvStep, PTL DEF CallSpec

-----------------------------------------------------------------------------
(***************************************************************************)
(* Every call finds its arguments where the calling convention wants them, *)
(* for every number of argument registers and of arguments, through        *)
(* overflow stores, chains and cycles, unless the scratch register held an *)
(* argument that the overflow stores overwrote.                            *)
(***************************************************************************)
THEOREM CallsDeliver == CallSpec => []ArgumentsDelivered
<1>1. EntryInv => ArgumentsDelivered
  BY CallDelivers DEF EntryInv
<1>. QED  BY <1>1, EntryInvAlways, PTL

(***************************************************************************)
(* The body of every function finds every parameter where its allocator    *)
(* wants it, with the value that the caller's argument had, unless the     *)
(* temporary registers ran out or the scratch register was in conflict.    *)
(***************************************************************************)
THEOREM ParametersAlwaysArrive == CallSpec => []ParametersArrive
<1>1. EntryInv => ParametersArrive
  BY DEF EntryInv
<1>. QED  BY <1>1, EntryInvAlways, PTL

(***************************************************************************)
(* The shuffle of every call is one parallel assignment, whatever the      *)
(* overflow stores before it left in the scratch register.                 *)
(***************************************************************************)
THEOREM CallImplementsAssignment == CallSpec => IsParallelAssignment
<1> DEFINE Abstract == <<IF pc = "done" THEN store ELSE before, pc = "done", wanted>>
<1>1. EntryInit => Assignment!Init
  <2> SUFFICES ASSUME EntryInit PROVE Assignment!Init
    OBVIOUS
  <2>1. pc # "done" /\ before \in [Loc -> Loc]
    BY EntryInvInit DEF EntryInit, CallInit, EntryInv, CallInv, BeforeInv
  <2>. QED  BY <2>1 DEF Assignment!Init
<1>2. EntryInv /\ EntryInv' /\ [EntryNext]_vars => [Assignment!Assign]_Abstract
  <2> SUFFICES ASSUME EntryInv, EntryInv', [EntryNext]_vars PROVE [Assignment!Assign]_Abstract
    OBVIOUS
  <2>1. CASE UNCHANGED callVars
    BY <2>1 DEF callVars, shuffleVars
  <2>2. CASE StoreOverflow \/ StartShuffle
    BY <2>2 DEF StoreOverflow, StartShuffle
  <2>3. CASE Shuffle /\ UNCHANGED <<call, next, outgoing>>
    <3>1. Inv /\ Inv'
      <4>1. pc = "shuffle" /\ pc' # "overflow"
        BY <2>3, CallInvShuffle DEF EntryInv, Shuffle, Skip, Move, BreakCycle, NextSweep, Finish
      <4>. QED  BY <4>1 DEF EntryInv, CallInv
    <3>2. [Next]_shuffleVars
      BY <2>3 DEF Next
    <3>. QED  BY <3>1, <3>2, ShuffleRefines
  <2>. QED
    BY <2>1, <2>2, <2>3 DEF EntryNext, CallNext, vars, Enter, NothingToSave, SaveSource,
       GiveUpSaving, EndSaving, MoveParameter, BeginBody
<1>3. CallSpec => Assignment!Spec
  BY <1>1, <1>2, EntryInvAlways, PTL DEF CallSpec, Assignment!Spec
<1>. QED  BY <1>3 DEF IsParallelAssignment
=============================================================================
