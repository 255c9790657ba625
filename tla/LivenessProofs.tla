--------------------------- MODULE LivenessProofs ---------------------------
(***************************************************************************)
(* Proofs about the liveness analysis, for every set of functions.         *)
(***************************************************************************)
EXTENDS Liveness, FiniteSetTheorems, WellFoundedInduction, TLAPS

(***************************************************************************)
(* The dataflow right-hand sides stay within Reg.                          *)
(***************************************************************************)
LEMMA NewLiveType ==
  ASSUME fn \in Functions, NEW in \in [CodeNodes -> SUBSET Reg],
         NEW n \in CodeNodes
  PROVE  /\ NewLiveOut(in, n) \in SUBSET Reg
         /\ NewLiveIn(in, n) \in SUBSET Reg
<1>1. Use(Code[n]) \subseteq Reg
  BY FunctionsAssumption DEF CodeNodes, Code
<1>2. NewLiveOut(in, n) \in SUBSET Reg
  BY DEF NewLiveOut
<1>. QED  BY <1>1, <1>2 DEF NewLiveIn

(***************************************************************************)
(* Reading larger live sets yields larger live sets.                       *)
(***************************************************************************)
LEMMA NewLiveMonotonic ==
  ASSUME NEW in1, NEW in2, NEW n \in CodeNodes,
         \A m \in CodeNodes : in1[m] \subseteq in2[m]
  PROVE  /\ NewLiveOut(in1, n) \subseteq NewLiveOut(in2, n)
         /\ NewLiveIn(in1, n) \subseteq NewLiveIn(in2, n)
<1>1. NewLiveOut(in1, n) \subseteq NewLiveOut(in2, n)
  BY DEF NewLiveOut
<1>. QED  BY <1>1 DEF NewLiveIn

\* Type correctness of the analysis.
THEOREM TypeCorrect == Spec => []TypeOK
<1>1. Init => TypeOK
  BY DEF Init, TypeOK, CodeNodes
<1>2. TypeOK /\ [Next]_vars => TypeOK'
  <2> SUFFICES ASSUME TypeOK, [Next]_vars PROVE TypeOK'
    OBVIOUS
  <2>1. ASSUME NEW n \in Node, Visit(n) PROVE TypeOK'
    <3>1. n \in CodeNodes /\ fn' = fn
      BY <2>1 DEF Visit, TypeOK
    <3>2. NewLiveOut(liveIn, n) \in SUBSET Reg /\ NewLiveIn(liveIn, n) \in SUBSET Reg
      BY <3>1, NewLiveType DEF TypeOK
    <3>3. liveIn' \in [CodeNodes -> SUBSET Reg] /\ liveOut' \in [CodeNodes -> SUBSET Reg]
      BY <2>1, <3>1, <3>2 DEF Visit, TypeOK
    <3>. QED  BY <2>1, <3>1, <3>3 DEF Visit, TypeOK, CodeNodes
  <2>2. CASE NextRound
    BY <2>2 DEF NextRound, TypeOK, CodeNodes
  <2>3. CASE Finish
    BY <2>3 DEF Finish, TypeOK, CodeNodes
  <2>4. CASE UNCHANGED vars
    BY <2>4 DEF vars, TypeOK, CodeNodes
  <2>. QED  BY <2>1, <2>2, <2>3, <2>4 DEF Next, Terminated
<1>. QED  BY <1>1, <1>2, PTL DEF Spec

(***************************************************************************)
(* Why a quiet round is a fixed point.  While a round has changed nothing, *)
(* the nodes it has visited satisfy their equations: they were compared    *)
(* with the live sets as they still are.                                   *)
(***************************************************************************)
VisitedAreSolved ==
  /\ ~changed => \A n \in CodeNodes \ todo :
                   /\ liveOut[n] = NewLiveOut(liveIn, n)
                   /\ liveIn[n] = NewLiveIn(liveIn, n)
  /\ DoneSolvesEquations

\* The maps that AnalyzeLiveness returns solve the dataflow equations.
THEOREM FixpointReached == Spec => []DoneSolvesEquations
<1>1. Init => VisitedAreSolved
  BY DEF Init, VisitedAreSolved, DoneSolvesEquations
<1>2. TypeOK /\ VisitedAreSolved /\ [Next]_vars => VisitedAreSolved'
  <2> SUFFICES ASSUME TypeOK, VisitedAreSolved, [Next]_vars
               PROVE  VisitedAreSolved'
    OBVIOUS
  <2>1. ASSUME NEW n \in Node, Visit(n) PROVE VisitedAreSolved'
    <3>1. CASE changed'
      BY <2>1, <3>1 DEF Visit, VisitedAreSolved, DoneSolvesEquations
    <3>2. CASE ~changed'
      <4>1. /\ UNCHANGED <<fn, liveIn, liveOut, pc>>
            /\ ~changed /\ todo' = todo \ {n} /\ pc = "iterate"
            /\ liveIn[n] = NewLiveIn(liveIn, n)
            /\ liveOut[n] = NewLiveOut(liveIn, n)
        BY <2>1, <3>2 DEF Visit
      <4>. QED
        BY <4>1 DEF VisitedAreSolved, DoneSolvesEquations, NewLiveIn,
                    NewLiveOut, Code, CodeNodes
    <3>. QED  BY <3>1, <3>2
  <2>2. CASE NextRound
    BY <2>2 DEF NextRound, VisitedAreSolved, DoneSolvesEquations, CodeNodes
  <2>3. CASE Finish
    BY <2>3 DEF Finish, VisitedAreSolved, DoneSolvesEquations, NewLiveIn,
                NewLiveOut, Code, CodeNodes
  <2>4. CASE UNCHANGED vars
    BY <2>4 DEF vars, VisitedAreSolved, DoneSolvesEquations, NewLiveIn,
                NewLiveOut, Code, CodeNodes
  <2>. QED  BY <2>1, <2>2, <2>3, <2>4 DEF Next, Terminated
<1>3. VisitedAreSolved => DoneSolvesEquations
  BY DEF VisitedAreSolved
<1>. QED  BY <1>1, <1>2, <1>3, TypeCorrect, PTL DEF Spec

(***************************************************************************)
(* The analysis never overshoots: with FixpointReached, what it returns is *)
(* the least solution, so the result does not depend on Go's map order.    *)
(***************************************************************************)
THEOREM LeastSolution == Spec => []BelowEverySolution
<1>1. Init => BelowEverySolution
  BY DEF Init, BelowEverySolution
<1>2. TypeOK /\ BelowEverySolution /\ [Next]_vars => BelowEverySolution'
  <2> SUFFICES ASSUME TypeOK, BelowEverySolution, [Next]_vars
               PROVE  BelowEverySolution'
    OBVIOUS
  <2>1. ASSUME NEW n \in Node, Visit(n) PROVE BelowEverySolution'
    <3>1. fn' = fn /\ n \in CodeNodes
      BY <2>1 DEF Visit, TypeOK
    <3>2. CodeNodes' = CodeNodes /\ Solutions' = Solutions
      BY <3>1 DEF CodeNodes, Solutions, NewLiveIn, NewLiveOut, Code
    <3> SUFFICES ASSUME NEW in \in Solutions, NEW m \in CodeNodes
                 PROVE  /\ liveIn'[m] \subseteq in[m]
                        /\ liveOut'[m] \subseteq NewLiveOut(in, m)
      BY <3>1, <3>2 DEF BelowEverySolution, NewLiveOut, Code, CodeNodes
    <3>3. \A k \in CodeNodes : liveIn[k] \subseteq in[k]
      BY DEF BelowEverySolution
    <3>4. /\ NewLiveOut(liveIn, n) \subseteq NewLiveOut(in, n)
          /\ NewLiveIn(liveIn, n) \subseteq in[n]
      BY <3>1, <3>3, NewLiveMonotonic DEF Solutions
    <3>. QED  BY <2>1, <3>1, <3>3, <3>4 DEF Visit, TypeOK, BelowEverySolution
  <2>2. CASE UNCHANGED <<fn, liveIn, liveOut>>
    BY <2>2 DEF BelowEverySolution, Solutions, NewLiveIn, NewLiveOut, Code, CodeNodes
  <2>. QED
    BY <2>1, <2>2 DEF Next, NextRound, Finish, Terminated, vars
<1>. QED  BY <1>1, <1>2, TypeCorrect, PTL DEF Spec

(***************************************************************************)
(* Live sets ascend: each is below the value its next visit will give it.  *)
(***************************************************************************)
Ascending ==
  \A n \in CodeNodes : /\ liveOut[n] \subseteq NewLiveOut(liveIn, n)
                       /\ liveIn[n] \subseteq NewLiveIn(liveIn, n)

\* No step of the analysis removes a register from a live set.
THEOREM Monotone == Spec => LiveSetsOnlyGrow
<1> DEFINE Grow == \A n \in CodeNodes : /\ liveIn[n] \subseteq liveIn'[n]
                                        /\ liveOut[n] \subseteq liveOut'[n]
<1>1. Init => Ascending
  BY DEF Init, Ascending
<1>2. TypeOK /\ Ascending /\ [Next]_vars => Ascending' /\ Grow
  <2> SUFFICES ASSUME TypeOK, Ascending, [Next]_vars
               PROVE  Ascending' /\ Grow
    OBVIOUS
  <2>1. ASSUME NEW n \in Node, Visit(n) PROVE Ascending' /\ Grow
    <3>1. fn' = fn /\ n \in CodeNodes /\ CodeNodes' = CodeNodes
      BY <2>1 DEF Visit, TypeOK, CodeNodes
    <3>2. Grow
      BY <2>1, <3>1 DEF Visit, TypeOK, Ascending
    <3>3. ASSUME NEW m \in CodeNodes
          PROVE  /\ NewLiveOut(liveIn, m) \subseteq NewLiveOut(liveIn', m)
                 /\ NewLiveIn(liveIn, m) \subseteq NewLiveIn(liveIn', m)
      BY <3>2, NewLiveMonotonic
    <3>4. ASSUME NEW m \in CodeNodes
          PROVE  /\ liveOut'[m] \subseteq NewLiveOut(liveIn', m)
                 /\ liveIn'[m] \subseteq NewLiveIn(liveIn', m)
      <4>1. CASE m = n
        BY <2>1, <3>1, <3>3, <4>1 DEF Visit, TypeOK, Ascending
      <4>2. CASE m # n
        BY <2>1, <3>1, <3>3, <4>2 DEF Visit, TypeOK, Ascending
      <4>. QED  BY <4>1, <4>2
    <3>5. Ascending'
      BY <3>1, <3>4 DEF Ascending, NewLiveOut, NewLiveIn, Code, CodeNodes
    <3>. QED  BY <3>2, <3>5
  <2>2. CASE UNCHANGED <<fn, liveIn, liveOut>>
    BY <2>2 DEF Ascending, NewLiveIn, NewLiveOut, Code, CodeNodes
  <2>. QED
    BY <2>1, <2>2 DEF Next, NextRound, Finish, Terminated, vars
<1>3. TypeOK /\ Ascending /\ [Next]_vars => [Grow]_vars
  BY <1>2
<1>. QED  BY <1>1, <1>2, <1>3, TypeCorrect, PTL DEF Spec, LiveSetsOnlyGrow

-----------------------------------------------------------------------------
(***************************************************************************)
(* Liveness on paths.  A path along which a register is live can be made   *)
(* shorter while it visits a node twice, so a shortest one visits no more  *)
(* nodes than the function has.                                            *)
(***************************************************************************)
LiveFor(r, n, k) ==
  \E p \in [1..k -> CodeNodes] : p[1] = n /\ LiveOnPath(r, p)

PathLive == [n \in CodeNodes |-> {r \in Reg : \E p \in Paths : p[1] = n /\ LiveOnPath(r, p)}]

\* Every non-empty set of numbers has a least element.
LEMMA LeastNumber ==
  ASSUME NEW S \in SUBSET Nat, S # {}
  PROVE  \E x \in S : \A y \in S : x <= y
<1>1. PICK x \in S : \A y \in S : ~ (<<y, x>> \in OpToRel(<, Nat))
  BY NatLessThanWellFounded, WFMin
<1>2. \A y \in S : ~(y < x)
  BY <1>1 DEF OpToRel
<1>. QED  BY <1>2

\* The length of a path.
LEMMA PathLength ==
  ASSUME NEW S, NEW k \in Nat, NEW p \in [1..k -> S]
  PROVE  Len(p) = k /\ p \in Seq(S)
OBVIOUS

(***************************************************************************)
(* A path that visits a node twice has a shorter one with the same ends.   *)
(***************************************************************************)
LEMMA PathShortens ==
  ASSUME NEW r, NEW k \in Nat \ {0}, NEW p \in [1..k -> CodeNodes], LiveOnPath(r, p),
         NEW i \in 1..k, NEW j \in 1..k, i < j, p[i] = p[j]
  PROVE  LiveFor(r, p[1], k - (j - i))
<1> DEFINE d == j - i
           q == [m \in 1..k - d |-> IF m <= i THEN p[m] ELSE p[m + d]]
<1>1. /\ d \in 1..k - 1 /\ k - d \in Nat \ {0} /\ i <= k - d /\ i + d = j
      /\ \A m \in 1..k - d : m + d \in 1..k
  OBVIOUS
<1>2. q \in [1..k - d -> CodeNodes] /\ q[1] = p[1]
  BY <1>1
<1>3. Len(p) = k /\ Len(q) = k - d
  BY <1>1, <1>2, PathLength
<1>4. /\ r \in Use(Code[p[k]])
      /\ \A m \in 1..k - 1 : p[m + 1] \in Successors(Code[p[m]]) /\ r \notin Def(Code[p[m]])
  BY <1>3 DEF LiveOnPath
<1>5. q[k - d] = p[k]
  <2>1. CASE k - d <= i
    BY <1>1, <2>1
  <2>2. CASE ~(k - d <= i)
    BY <1>1, <2>2
  <2>. QED  BY <2>1, <2>2
<1>6. ASSUME NEW m \in 1..k - d - 1
      PROVE  q[m + 1] \in Successors(Code[q[m]]) /\ r \notin Def(Code[q[m]])
  <2>1. m \in 1..k - d /\ m + 1 \in 1..k - d
    BY <1>1
  <2>2. CASE m < i
    <3>1. q[m] = p[m] /\ q[m + 1] = p[m + 1] /\ m \in 1..k - 1
      BY <1>1, <2>1, <2>2
    <3>. QED  BY <1>4, <3>1
  <2>3. CASE m >= i
    <3>1. q[m + 1] = p[m + d + 1] /\ m + d \in 1..k - 1
      BY <1>1, <2>1, <2>3
    <3>2. q[m] = p[m + d]
      <4>1. CASE m = i
        BY <1>1, <2>1, <4>1
      <4>2. CASE m > i
        BY <1>1, <2>1, <4>2
      <4>. QED  BY <2>3, <4>1, <4>2
    <3>. QED  BY <1>4, <3>1, <3>2
  <2>. QED  BY <2>2, <2>3
<1> HIDE DEF q
<1>7. LiveOnPath(r, q)
  BY <1>3, <1>4, <1>5, <1>6 DEF LiveOnPath
<1>. QED  BY <1>2, <1>7 DEF LiveFor

\* If there is a path at all there is one with no more nodes than the function.
LEMMA ShortPath ==
  ASSUME fn \in Functions, NEW r, NEW n, NEW k \in Nat \ {0}, LiveFor(r, n, k)
  PROVE  \E p \in Paths : p[1] = n /\ LiveOnPath(r, p)
<1> DEFINE Lengths == {m \in Nat \ {0} : LiveFor(r, n, m)}
<1>1. PICK m \in Lengths : \A y \in Lengths : m <= y
  <2>1. Lengths \in SUBSET Nat /\ Lengths # {}
    OBVIOUS
  <2>. QED  BY <2>1, LeastNumber
<1>2. m \in Nat \ {0} /\ LiveFor(r, n, m)
  BY <1>1
<1>3. PICK p \in [1..m -> CodeNodes] : p[1] = n /\ LiveOnPath(r, p)
  BY <1>2 DEF LiveFor
<1>4. ASSUME NEW i \in 1..m, NEW j \in 1..m, i < j, p[i] = p[j] PROVE FALSE
  <2>1. LiveFor(r, n, m - (j - i))
    BY <1>2, <1>3, <1>4, PathShortens
  <2>2. m - (j - i) \in Nat \ {0} /\ ~(m <= m - (j - i))
    BY <1>2, <1>4
  <2>3. m - (j - i) \in Lengths
    BY <2>1, <2>2
  <2> HIDE DEF Lengths
  <2>. QED  BY <1>1, <2>2, <2>3
<1>5. p \in Injection(1..m, CodeNodes)
  <2>1. ASSUME NEW i \in 1..m, NEW j \in 1..m, p[i] = p[j] PROVE i = j
    <3>1. i < j \/ j < i \/ i = j
      BY <1>2
    <3>. QED  BY <1>4, <2>1, <3>1
  <2>. QED  BY <1>3, <2>1 DEF Injection, IsInjective
<1>6. IsFiniteSet(CodeNodes) /\ Cardinality(CodeNodes) \in Nat
  BY FunctionsAssumption, FS_CardinalityType DEF CodeNodes
<1>7. Cardinality(1..m) = m
  BY <1>2, FS_Interval
<1>8. m <= Cardinality(CodeNodes)
  BY <1>5, <1>6, <1>7, FS_Injection
<1>9. p \in Paths
  BY <1>2, <1>6, <1>8 DEF Paths
<1>. QED  BY <1>3, <1>9

\* Liveness on paths solves the equations.
LEMMA PathsSolve == ASSUME fn \in Functions PROVE PathLive \in Solutions
<1>1. IsFiniteSet(CodeNodes) /\ Cardinality(CodeNodes) \in Nat
  BY FunctionsAssumption, FS_CardinalityType DEF CodeNodes
<1> SUFFICES ASSUME NEW n \in CodeNodes, NEW r \in NewLiveIn(PathLive, n)
             PROVE  r \in PathLive[n]
  BY DEF Solutions, PathLive
<1>2. r \in Reg
  <2>1. PathLive \in [CodeNodes -> SUBSET Reg]
    BY DEF PathLive
  <2>. QED  BY <2>1, NewLiveType
<1>3. \E k \in Nat \ {0} : LiveFor(r, n, k)
  <2>1. CASE r \in Use(Code[n])
    <3> DEFINE p == [m \in 1..1 |-> n]
    <3>1. p \in [1..1 -> CodeNodes] /\ p[1] = n
      OBVIOUS
    <3> HIDE DEF p
    <3>2. Len(p) = 1
      BY <3>1, PathLength
    <3>3. LiveOnPath(r, p)
      BY <2>1, <3>1, <3>2 DEF LiveOnPath
    <3>4. LiveFor(r, n, 1) /\ 1 \in Nat \ {0}
      BY <3>1, <3>3 DEF LiveFor
    <3>. QED  BY <3>4
  <2>2. CASE r \in NewLiveOut(PathLive, n) \ Def(Code[n])
    <3>1. PICK s \in Successors(Code[n]) \cap CodeNodes : r \in PathLive[s]
      BY <2>2 DEF NewLiveOut
    <3>2. PICK q \in Paths : q[1] = s /\ LiveOnPath(r, q)
      BY <3>1 DEF PathLive
    <3>3. PICK k \in Nat \ {0} : q \in [1..k -> CodeNodes]
      BY <1>1, <3>2 DEF Paths
    <3> DEFINE p == [m \in 1..k + 1 |-> IF m = 1 THEN n ELSE q[m - 1]]
    <3>4. /\ p \in [1..k + 1 -> CodeNodes] /\ p[1] = n
          /\ \A m \in 1..k : p[m + 1] = q[m]
      BY <3>3
    <3>5. Len(p) = k + 1 /\ Len(q) = k
      BY <3>3, <3>4, PathLength
    <3> HIDE DEF p
    <3>6. r \in Use(Code[p[k + 1]])
      BY <3>2, <3>3, <3>4, <3>5 DEF LiveOnPath
    <3>7. ASSUME NEW m \in 1..k
          PROVE  p[m + 1] \in Successors(Code[p[m]]) /\ r \notin Def(Code[p[m]])
      <4>1. CASE m = 1
        BY <2>2, <3>1, <3>2, <3>3, <3>4, <4>1
      <4>2. CASE m # 1
        <5>1. m - 1 \in 1..k - 1 /\ p[m] = q[m - 1] /\ p[m + 1] = q[(m - 1) + 1]
          BY <3>3, <3>4, <4>2
        <5>. QED  BY <3>2, <3>5, <5>1 DEF LiveOnPath
      <4>. QED  BY <4>1, <4>2
    <3>8. LiveOnPath(r, p)
      BY <3>3, <3>5, <3>6, <3>7 DEF LiveOnPath
    <3>. QED  BY <3>3, <3>4, <3>8 DEF LiveFor
  <2>. QED  BY <2>1, <2>2 DEF NewLiveIn
<1>4. \E p \in Paths : p[1] = n /\ LiveOnPath(r, p)
  BY <1>3, ShortPath
<1>. QED  BY <1>2, <1>4 DEF PathLive

\* A solution has every register live that is live on a path.
LEMMA SolutionHasPaths ==
  ASSUME fn \in Functions, pc = "done", DoneSolvesEquations,
         NEW p \in Paths, NEW r, LiveOnPath(r, p)
  PROVE  r \in liveIn[p[1]]
<1>1. PICK k \in Nat \ {0} : p \in [1..k -> CodeNodes]
  <2>1. Cardinality(CodeNodes) \in Nat
    BY FunctionsAssumption, FS_CardinalityType DEF CodeNodes
  <2>. QED  BY <2>1 DEF Paths
<1>2. Len(p) = k
  BY <1>1, PathLength
<1> DEFINE Bad == {d \in 0..k - 1 : r \notin liveIn[p[k - d]]}
<1>3. ASSUME Bad # {} PROVE FALSE
  <2>1. Bad \in SUBSET Nat
    BY <1>1
  <2>2. PICK d \in Bad : \A e \in Bad : d <= e
    BY <1>3, <2>1, LeastNumber
  <2>3. d \in 0..k - 1 /\ r \notin liveIn[p[k - d]] /\ p[k - d] \in CodeNodes
    BY <1>1, <2>2
  <2>4. liveIn[p[k - d]] = NewLiveIn(liveIn, p[k - d])
    BY <2>3 DEF DoneSolvesEquations
  <2>5. CASE d = 0
    <3>1. r \in Use(Code[p[k]])
      BY <1>2 DEF LiveOnPath
    <3>. QED  BY <1>1, <2>3, <2>4, <2>5, <3>1 DEF NewLiveIn
  <2>6. CASE d # 0
    <3>1. d - 1 \in 0..k - 1 /\ ~(d <= d - 1) /\ k - (d - 1) = (k - d) + 1
      BY <1>1, <2>3, <2>6
    <3>2. d - 1 \notin Bad
      BY <2>2, <3>1
    <3>3. r \in liveIn[p[k - d + 1]]
      BY <3>1, <3>2
    <3>4. /\ k - d \in 1..k - 1 /\ p[k - d + 1] \in CodeNodes
          /\ p[k - d + 1] \in Successors(Code[p[k - d]])
          /\ r \notin Def(Code[p[k - d]])
      BY <1>1, <1>2, <2>3, <2>6 DEF LiveOnPath
    <3>5. r \in NewLiveOut(liveIn, p[k - d])
      BY <3>3, <3>4 DEF NewLiveOut
    <3>. QED  BY <2>3, <2>4, <3>4, <3>5 DEF NewLiveIn
  <2>. QED  BY <2>5, <2>6
<1>4. k - 1 \in 0..k - 1 /\ k - (k - 1) = 1
  BY <1>1
<1>. QED  BY <1>3, <1>4

(***************************************************************************)
(* For every function, in whatever order the nodes are visited, the        *)
(* analysis returns exactly the registers that are live on some path.      *)
(***************************************************************************)
THEOREM LivenessIsPathLiveness == Spec => []DoneIsPathLiveness
<1>1. TypeOK /\ DoneSolvesEquations /\ BelowEverySolution => DoneIsPathLiveness
  <2> SUFFICES ASSUME TypeOK, DoneSolvesEquations, BelowEverySolution, pc = "done",
                      NEW n \in CodeNodes
               PROVE  liveIn[n] = PathLive[n]
    BY DEF DoneIsPathLiveness, PathLive
  <2>1. fn \in Functions /\ liveIn[n] \subseteq Reg
    BY DEF TypeOK
  <2>2. liveIn[n] \subseteq PathLive[n]
    BY <2>1, PathsSolve DEF BelowEverySolution
  <2>3. PathLive[n] \subseteq liveIn[n]
    BY <2>1, SolutionHasPaths DEF PathLive
  <2>. QED  BY <2>2, <2>3
<1>. QED  BY <1>1, TypeCorrect, FixpointReached, LeastSolution, PTL

(***************************************************************************)
(* A register that the analysis returns as live is read by some            *)
(* instruction: the interference graph, which has a node for every         *)
(* register that is read or written, has one for every live register.      *)
(***************************************************************************)
THEOREM LiveIsRead ==
  Spec => [](pc = "done" => \A n \in CodeNodes : \A r \in liveIn[n] :
                              \E m \in CodeNodes : r \in Use(Code[m]))
<1> DEFINE Read == pc = "done" => \A n \in CodeNodes : \A r \in liveIn[n] :
                                    \E m \in CodeNodes : r \in Use(Code[m])
<1>1. TypeOK /\ DoneIsPathLiveness => Read
  <2> SUFFICES ASSUME TypeOK, DoneIsPathLiveness, pc = "done", NEW n \in CodeNodes,
                      NEW r \in liveIn[n]
               PROVE  \E m \in CodeNodes : r \in Use(Code[m])
    OBVIOUS
  <2>1. PICK p \in Paths : LiveOnPath(r, p)
    BY DEF DoneIsPathLiveness
  <2>2. Cardinality(CodeNodes) \in Nat
    BY FunctionsAssumption, FS_CardinalityType DEF CodeNodes, TypeOK
  <2>3. PICK k \in Nat \ {0} : p \in [1..k -> CodeNodes]
    BY <2>1, <2>2 DEF Paths
  <2>4. Len(p) = k /\ p[k] \in CodeNodes
    BY <2>3, PathLength
  <2>. QED  BY <2>1, <2>4 DEF LiveOnPath
<1>. QED  BY <1>1, TypeCorrect, LivenessIsPathLiveness, PTL
=============================================================================
