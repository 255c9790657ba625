-------------------------- MODULE StackFrameProofs --------------------------
(***************************************************************************)
(* Proofs about the frames of pkg/stacking, for every set of functions and *)
(* every nesting of calls: functions return with registers and pointers as *)
(* they found them, slots keep what was written to them, stack arguments   *)
(* arrive, and operands are read from where they are.                      *)
(***************************************************************************)
EXTENDS StackFrame, FiniteSetTheorems, SequenceTheorems, TLAPS

-----------------------------------------------------------------------------
(***************************************************************************)
(* Finite sets of numbers in order.                                        *)
(***************************************************************************)
Rank(set, n) == Cardinality({m \in set : m <= n})

\* The members of a set have the ranks from 1 to its cardinality, each its own.
LEMMA Ranks ==
  ASSUME NEW set \in SUBSET Nat, IsFiniteSet(set)
  PROVE  /\ Cardinality(set) \in Nat
         /\ \A n \in set : Rank(set, n) \in 1..Cardinality(set)
         /\ \A m, n \in set : Rank(set, m) = Rank(set, n) => m = n
         /\ \A k \in 1..Cardinality(set) : \E n \in set : Rank(set, n) = k
<1>1. /\ \A n \in set : IsFiniteSet({m \in set : m <= n}) /\ Rank(set, n) \in Nat
      /\ \A n \in set : Rank(set, n) <= Cardinality(set)
      /\ Cardinality(set) \in Nat
  BY FS_Subset, FS_CardinalityType DEF Rank
<1>2. ASSUME NEW n \in set PROVE Rank(set, n) # 0
  <2>1. n \in {m \in set : m <= n}
    OBVIOUS
  <2>. QED  BY <1>1, <2>1, FS_EmptySet DEF Rank
<1>3. ASSUME NEW m \in set, NEW n \in set, m < n PROVE Rank(set, m) < Rank(set, n)
  <2> DEFINE M == {l \in set : l <= m}
             N == {l \in set : l <= n}
  <2>1. M \in SUBSET N /\ n \in N /\ n \notin M
    <3>1. m \in Nat /\ n \in Nat /\ \A l \in set : l \in Nat
      OBVIOUS
    <3>2. n <= n /\ ~(n <= m) /\ \A l \in set : l <= m => l <= n
      BY <1>3, <3>1
    <3>. QED  BY <3>2
  <2>2. Cardinality(M) <= Cardinality(N) /\ Cardinality(N) # Cardinality(M)
    BY <1>1, <2>1, FS_Subset
  <2>3. Cardinality(M) \in Nat /\ Cardinality(N) \in Nat
    BY <1>1 DEF Rank
  <2>. QED  BY <2>2, <2>3 DEF Rank
<1>4. \A n \in set : Rank(set, n) \in 1..Cardinality(set)
  <2> SUFFICES ASSUME NEW n \in set PROVE Rank(set, n) \in 1..Cardinality(set)
    OBVIOUS
  <2>1. Rank(set, n) \in Nat /\ Rank(set, n) <= Cardinality(set) /\ Rank(set, n) # 0
    BY <1>1, <1>2
  <2>. QED  BY <1>1, <2>1
<1>5. ASSUME NEW m \in set, NEW n \in set, Rank(set, m) = Rank(set, n) PROVE m = n
  <2>1. m \in Nat /\ n \in Nat /\ (m < n \/ n < m \/ m = n)
    OBVIOUS
  <2>2. Rank(set, m) \in Nat /\ Rank(set, n) \in Nat
    BY <1>1
  <2>. QED  BY <1>3, <1>5, <2>1, <2>2
<1>6. ASSUME NEW k \in 1..Cardinality(set) PROVE \E n \in set : Rank(set, n) = k
  <2> DEFINE f == [n \in set |-> Rank(set, n)]
  <2>1. f \in Injection(set, 1..Cardinality(set))
    BY <1>4, <1>5 DEF Injection, IsInjective
  <2>2. IsFiniteSet(1..Cardinality(set)) /\ Cardinality(1..Cardinality(set)) = Cardinality(set)
    BY <1>1, FS_Interval
  <2>3. f \in Surjection(set, 1..Cardinality(set))
    BY <2>1, <2>2, FS_Injection
  <2>4. \E n \in set : f[n] = k
    BY <2>3 DEF Surjection
  <2>. QED  BY <2>4
<1>. QED  BY <1>1, <1>4, <1>5, <1>6

LEMMA AscendingLists ==
  ASSUME NEW set \in SUBSET Nat, IsFiniteSet(set)
  PROVE  /\ Ascending(set) \in Seq(set)
         /\ \A n \in set : \E k \in DOMAIN Ascending(set) : Ascending(set)[k] = n
<1>1. /\ Cardinality(set) \in Nat
      /\ \A n \in set : Rank(set, n) \in 1..Cardinality(set)
      /\ \A m, n \in set : Rank(set, m) = Rank(set, n) => m = n
      /\ \A k \in 1..Cardinality(set) : \E n \in set : Rank(set, n) = k
  BY Ranks
<1>2. Ascending(set) = [k \in 1..Cardinality(set) |-> CHOOSE n \in set : Rank(set, n) = k]
  BY DEF Ascending, Rank
<1>3. Ascending(set) \in [1..Cardinality(set) -> set]
  BY <1>1, <1>2
<1>4. Ascending(set) \in Seq(set)
  BY <1>1, <1>3
<1>5. ASSUME NEW n \in set PROVE \E k \in DOMAIN Ascending(set) : Ascending(set)[k] = n
  <2>1. Rank(set, n) \in DOMAIN Ascending(set)
    BY <1>1, <1>2
  <2>2. Ascending(set)[Rank(set, n)] = CHOOSE m \in set : Rank(set, m) = Rank(set, n)
    BY <1>1, <1>2
  <2>3. (CHOOSE m \in set : Rank(set, m) = Rank(set, n)) = n
    BY <1>1
  <2>. QED  BY <2>1, <2>2, <2>3
<1>. QED  BY <1>4, <1>5

LEMMA MaxExists ==
  ASSUME NEW set \in SUBSET Nat, IsFiniteSet(set), set # {}
  PROVE  Max(set) \in set /\ \A n \in set : Max(set) >= n
<1>1. Cardinality(set) \in Nat /\ Cardinality(set) # 0
  BY FS_EmptySet, FS_CardinalityType
<1>2. PICK n \in set : Rank(set, n) = Cardinality(set)
  <2>1. Cardinality(set) \in 1..Cardinality(set)
    BY <1>1
  <2>. QED  BY <2>1, Ranks
<1>3. {m \in set : m <= n} = set
  <2>1. {m \in set : m <= n} \in SUBSET set
    OBVIOUS
  <2>. QED  BY <1>2, <2>1, FS_Subset DEF Rank
<1>4. \A m \in set : m <= n /\ m \in Nat
  BY <1>3
<1>5. \A m \in set : n >= m
  BY <1>4
<1>. QED  BY <1>5 DEF Max

\* What a function with a finite domain returns is a finite set.
LEMMA RangeFinite ==
  ASSUME NEW f, IsFiniteSet(DOMAIN f), f = [x \in DOMAIN f |-> f[x]]
  PROVE  IsFiniteSet(Range(f))
<1>1. f \in Surjection(DOMAIN f, Range(f))
  BY DEF Surjection, Range
<1>. QED  BY <1>1, FS_Surjection

-----------------------------------------------------------------------------
(***************************************************************************)
(* What the scans of a function's code find.                               *)
(***************************************************************************)
\* Three sequences one after the other.
LEMMA Concat3 ==
  ASSUME NEW T, NEW a \in Seq(T), NEW b \in Seq(T), NEW c \in Seq(T)
  PROVE  /\ a \o b \in Seq(T) /\ DOMAIN (a \o b) = 1..Len(a) + Len(b)
         /\ Len(a) \in Nat /\ Len(a \o b) = Len(a) + Len(b) /\ Len(a \o b) \in Nat
         /\ \A j \in 1..Len(a) : j \in DOMAIN (a \o b) /\ (a \o b)[j] = a[j]
         /\ IsFiniteSet(Range((a \o b) \o c))
         /\ Range(c) \subseteq Range((a \o b) \o c)
         /\ \A j \in DOMAIN (a \o b) : (a \o b)[j] \in Range((a \o b) \o c)
         /\ Len(c) <= 1 => c = <<>> \/ (Len(c) = 1 /\ c[1] \in Range((a \o b) \o c))
<1>1. /\ Len(a) \in Nat /\ Len(b) \in Nat /\ Len(c) \in Nat
      /\ DOMAIN c = 1..Len(c)
  OBVIOUS
<1>2. PICK o : o = a \o b
  OBVIOUS
<1>3. /\ o \in Seq(T) /\ Len(o) = Len(a) + Len(b)
      /\ \A j \in 1..Len(a) + Len(b) : o[j] = IF j <= Len(a) THEN a[j] ELSE b[j - Len(a)]
  BY <1>2, ConcatProperties
<1>4. Len(o) \in Nat /\ DOMAIN o = 1..Len(o)
  BY <1>3
<1>5. \A j \in 1..Len(a) : j \in DOMAIN o /\ o[j] = a[j]
  BY <1>1, <1>3, <1>4
<1>6. PICK all : all = o \o c
  OBVIOUS
<1>7. /\ all \in Seq(T) /\ Len(all) = Len(o) + Len(c)
      /\ \A j \in 1..Len(o) + Len(c) : all[j] = IF j <= Len(o) THEN o[j] ELSE c[j - Len(o)]
  <2>1. o \in Seq(T)
    BY <1>3
  <2>2. /\ o \o c \in Seq(T) /\ Len(o \o c) = Len(o) + Len(c)
        /\ \A j \in 1..Len(o) + Len(c) :
             (o \o c)[j] = IF j <= Len(o) THEN o[j] ELSE c[j - Len(o)]
    BY <2>1, ConcatProperties
  <2>. QED  BY <1>6, <2>2
<1>8. Len(all) \in Nat /\ DOMAIN all = 1..Len(all) /\ all = [x \in DOMAIN all |-> all[x]]
  BY <1>7
<1>9. IsFiniteSet(Range(all))
  <2>1. 1 \in Int /\ Len(all) \in Int
    BY <1>8
  <2>2. IsFiniteSet(DOMAIN all)
    BY <1>8, <2>1, FS_Interval
  <2>. QED  BY <1>8, <2>2, RangeFinite
<1>10. ASSUME NEW j \in 1..Len(c) PROVE c[j] \in Range(all)
  <2>1. Len(o) + j \in 1..Len(o) + Len(c) /\ ~(Len(o) + j <= Len(o)) /\ Len(o) + j - Len(o) = j
    BY <1>1, <1>4
  <2>2. Len(o) + j \in DOMAIN all /\ all[Len(o) + j] = c[j]
    BY <1>7, <1>8, <2>1
  <2>. QED  BY <2>2 DEF Range
<1>11. ASSUME NEW j \in DOMAIN o PROVE o[j] \in Range(all)
  <2>1. j \in 1..Len(o) + Len(c) /\ j <= Len(o)
    BY <1>1, <1>4
  <2>2. j \in DOMAIN all /\ all[j] = o[j]
    BY <1>7, <1>8, <2>1
  <2>. QED  BY <2>2 DEF Range
<1>12. Range(c) \subseteq Range(all)
  BY <1>1, <1>10 DEF Range
<1>13. ASSUME Len(c) <= 1 PROVE c = <<>> \/ (Len(c) = 1 /\ c[1] \in Range(all))
  <2>1. CASE Len(c) = 1
    BY <1>10, <2>1
  <2>2. CASE Len(c) = 0
    <3>1. c # <<>> => Len(c) \in Nat \ {0}
      BY EmptySeq
    <3>2. Len(c) \notin Nat \ {0}
      BY <2>2
    <3>. QED  BY <3>1, <3>2, Zenon
  <2>. QED  BY <1>1, <1>13, <2>1, <2>2
<1>. QED  BY <1>1, <1>2, <1>3, <1>4, <1>5, <1>6, <1>9, <1>11, <1>12, <1>13

LEMMA LocationsOf ==
  ASSUME NEW inst, IsInstr(inst)
  PROVE  /\ IsFiniteSet(Locations(inst))
         /\ Range(inst.dest) \subseteq Locations(inst)
         /\ DOMAIN Operands(inst) = 1..Len(Operands(inst)) /\ Len(Operands(inst)) \in Nat
         /\ \A j \in DOMAIN Operands(inst) : Operands(inst)[j] \in Locations(inst)
         /\ inst.dest = <<>> \/ (Len(inst.dest) = 1 /\ inst.dest[1] \in Locations(inst))
         /\ \A j \in 1..Len(inst.args) :
              j \in DOMAIN Operands(inst) /\ Operands(inst)[j] = inst.args[j]
<1> DEFINE T == Range(inst.args) \cup Range(inst.src) \cup Range(inst.dest)
<1>1. inst.args \in Seq(T) /\ inst.src \in Seq(T) /\ inst.dest \in Seq(T)
  <2>1. inst.args \in Seq(Range(inst.args))
    BY DEF IsInstr, IsSeq
  <2>2. inst.src \in Seq(Range(inst.src))
    BY DEF IsInstr, IsSeq
  <2>3. inst.dest \in Seq(Range(inst.dest))
    BY DEF IsInstr, IsSeq
  <2>. QED  BY <2>1, <2>2, <2>3
<1> HIDE DEF T
<1>2. Len(inst.dest) <= 1
  BY DEF IsInstr
<1>3. PICK a, b, c : a = inst.args /\ b = inst.src /\ c = inst.dest
  OBVIOUS
<1>4. a \in Seq(T) /\ b \in Seq(T) /\ c \in Seq(T) /\ Len(c) <= 1
  BY <1>1, <1>2, <1>3
<1>5. Operands(inst) = a \o b /\ Locations(inst) = Range((a \o b) \o c)
  BY <1>3 DEF Operands, Locations
<1>6. /\ DOMAIN (a \o b) = 1..Len(a) + Len(b)
      /\ Len(a) \in Nat /\ Len(a \o b) = Len(a) + Len(b) /\ Len(a \o b) \in Nat
      /\ \A j \in 1..Len(a) : j \in DOMAIN (a \o b) /\ (a \o b)[j] = a[j]
      /\ IsFiniteSet(Range((a \o b) \o c))
      /\ Range(c) \subseteq Range((a \o b) \o c)
      /\ \A j \in DOMAIN (a \o b) : (a \o b)[j] \in Range((a \o b) \o c)
      /\ c = <<>> \/ (Len(c) = 1 /\ c[1] \in Range((a \o b) \o c))
  BY <1>4, Concat3
<1>. QED  BY <1>3, <1>5, <1>6

\* The areas of a frame are as large as the slots in the code need.
LEMMA AreaOf ==
  ASSUME NEW code, IsFiniteSet(code), \A inst \in code : IsInstr(inst),
         NEW kind \in {"local", "outgoing"}
  PROVE  /\ collectStackInfo(code, kind) \in Nat
         /\ \A inst \in code : inst.k \in Scanned =>
              \A loc \in Locations(inst) : loc[1] = kind =>
                /\ loc[2] \in Nat /\ loc[2] % 8 = 0
                /\ loc[2] + 8 <= collectStackInfo(code, kind)
<1> DEFINE scanned == {j \in code : j.k \in Scanned}
           locsOf == [j \in scanned |-> Locations(j)]
           locs == UNION {Locations(j) : j \in scanned}
           found == {l \in locs : l[1] = kind}
           endOf == [l \in found |-> l[2] + 8]
           ends == {0} \cup {loc[2] + 8 : loc \in found}
<1>1. IsFiniteSet(scanned)
  BY FS_Subset
<1>2. IsFiniteSet({Locations(j) : j \in scanned})
  <2>1. IsFiniteSet(Range(locsOf))
    BY <1>1, RangeFinite
  <2>. QED  BY <2>1 DEF Range
<1>3. IsFiniteSet(locs)
  <2>1. \A set \in {Locations(j) : j \in scanned} : IsFiniteSet(set)
    BY LocationsOf
  <2> HIDE DEF scanned
  <2>. QED  BY <1>2, <2>1, FS_UNION
<1>4. \A l \in found : l[2] \in Nat /\ l[2] % 8 = 0
  <2> SUFFICES ASSUME NEW l \in found PROVE l[2] \in Nat /\ l[2] % 8 = 0
    OBVIOUS
  <2>1. PICK inst \in scanned : l \in Locations(inst)
    OBVIOUS
  <2>2. IsLocation(l) /\ l[1] = kind
    BY <2>1 DEF IsInstr
  <2>3. \A r : R(r)[1] = "R"
    BY DEF R
  <2>4. kind # "R"
    OBVIOUS
  <2>. QED  BY <2>2, <2>3, <2>4 DEF IsLocation
<1>5. IsFiniteSet(ends) /\ ends \in SUBSET Nat
  <2>1. IsFiniteSet(found)
    BY <1>3, FS_Subset
  <2>2. IsFiniteSet(Range(endOf))
    <3> HIDE DEF found
    <3>. QED  BY <2>1, RangeFinite
  <2>3. {loc[2] + 8 : loc \in found} = Range(endOf)
    BY DEF Range
  <2>4. IsFiniteSet(ends)
    BY <2>2, <2>3, FS_Union, FS_Singleton
  <2> HIDE DEF found
  <2>. QED  BY <1>4, <2>4
<1>6. collectStackInfo(code, kind) = Max(ends)
  BY DEF collectStackInfo
<1>7. Max(ends) \in ends /\ \A n \in ends : Max(ends) >= n
  <2>1. ends # {}
    OBVIOUS
  <2> HIDE DEF ends
  <2>. QED  BY <1>5, <2>1, MaxExists
<1>8. Max(ends) \in Nat
  BY <1>5, <1>7
<1>9. ASSUME NEW inst \in code, inst.k \in Scanned, NEW loc \in Locations(inst), loc[1] = kind
      PROVE  loc[2] \in Nat /\ loc[2] % 8 = 0 /\ loc[2] + 8 <= Max(ends)
  <2>1. loc \in found
    BY <1>9
  <2>2. loc[2] + 8 \in ends
    BY <2>1
  <2> HIDE DEF found, ends
  <2>3. loc[2] \in Nat /\ loc[2] % 8 = 0 /\ Max(ends) >= loc[2] + 8
    BY <1>4, <1>7, <2>1, <2>2
  <2>. QED  BY <1>8, <2>3
<1> HIDE DEF ends
<1>. QED  BY <1>6, <1>8, <1>9

\* The registers to save are all those in the code, but for builtins.
LEMMA UsedRegisters ==
  ASSUME NEW code
  PROVE  LET used == FindUsedCalleeSaveRegs(code, CalleeSaveRegs)
         IN  /\ used \in Seq(CalleeSaved)
             /\ \A inst \in code, r \in CalleeSaved :
                  R(r) \in Locations(inst) /\ inst.k # "Lbuiltin" => r \in Range(used)
<1> DEFINE locs == UNION {Locations(inst) : inst \in {j \in code : j.k # "Lbuiltin"}}
           set == {n \in DOMAIN CalleeSaveRegs : R(CalleeSaveRegs[n]) \in locs}
           order == Ascending(set)
           used == [k \in DOMAIN order |-> CalleeSaveRegs[order[k]]]
<1>1. FindUsedCalleeSaveRegs(code, CalleeSaveRegs) = used
  BY DEF FindUsedCalleeSaveRegs
<1>2. /\ CalleeSaveRegs \in Seq(CalleeSaved) /\ Len(CalleeSaveRegs) \in Nat
      /\ DOMAIN CalleeSaveRegs = 1..Len(CalleeSaveRegs)
  BY StackAssumption DEF IsSeq, CalleeSaved
<1>3. set \in SUBSET Nat /\ IsFiniteSet(set)
  <2>1. set \in SUBSET (1..Len(CalleeSaveRegs)) /\ 1 \in Int /\ Len(CalleeSaveRegs) \in Int
    BY <1>2
  <2>2. IsFiniteSet(1..Len(CalleeSaveRegs))
    BY <2>1, FS_Interval
  <2> HIDE DEF set
  <2>3. IsFiniteSet(set)
    BY <2>1, <2>2, FS_Subset
  <2>. QED  BY <2>1, <2>3
<1>4. /\ order \in Seq(set)
      /\ \A n \in set : \E k \in DOMAIN order : order[k] = n
  <2> HIDE DEF set
  <2>. QED  BY <1>3, AscendingLists
<1>5. used \in Seq(CalleeSaved)
  <2>1. Len(order) \in Nat /\ DOMAIN order = 1..Len(order) /\ \A k \in 1..Len(order) : order[k] \in set
    <3> HIDE DEF set
    <3>. QED  BY <1>4
  <2> HIDE DEF order
  <2>2. used \in [1..Len(order) -> CalleeSaved]
    BY <1>2, <2>1 DEF CalleeSaved, Range
  <2> HIDE DEF used
  <2>. QED  BY <2>1, <2>2
<1>6. ASSUME NEW inst \in code, NEW r \in CalleeSaved, R(r) \in Locations(inst), inst.k # "Lbuiltin"
      PROVE  r \in Range(used)
  <2>1. PICK n \in DOMAIN CalleeSaveRegs : CalleeSaveRegs[n] = r
    BY DEF CalleeSaved, Range
  <2>2. n \in set
    BY <1>6, <2>1
  <2>3. PICK k \in DOMAIN order : order[k] = n
    <3> HIDE DEF set
    <3>. QED  BY <1>4, <2>2
  <2>4. used[k] = r /\ k \in DOMAIN used
    <3> HIDE DEF order
    <3>. QED  BY <2>1, <2>3
  <2>. QED  BY <2>4 DEF Range
<1>. QED  BY <1>1, <1>5, <1>6

\* What is known of a function.
LEMMA FunctionFacts ==
  ASSUME NEW fn \in Functions
  PROVE  /\ fn.local \in Nat /\ fn.outgoing \in Nat /\ fn.incoming \in Nat
         /\ fn.used \in Seq(CalleeSaved)
         /\ \A inst \in fn.code :
              /\ IsInstr(inst) /\ ~Panics(inst)
              /\ \A loc \in Locations(inst) :
                   \/ \E r \in Range(fn.used) : loc = R(r)
                   \/ \E s \in Slots(fn.local) : loc = S("local", s)
                   \/ \E s \in Slots(fn.outgoing) : loc = S("outgoing", s)
                   \/ \E s \in Slots(fn.incoming) : loc = S("incoming", s)
<1>1. IsFunction(fn)
  BY FunctionsAssumption
<1>2. /\ fn.used = FindUsedCalleeSaveRegs(fn.code, CalleeSaveRegs)
      /\ fn.local = collectStackInfo(fn.code, "local")
      /\ fn.outgoing = collectStackInfo(fn.code, "outgoing")
  <2>1. fn = Function(fn.code, fn.incoming)
    BY <1>1 DEF IsFunction
  <2>. QED  BY <2>1 DEF Function
<1>3. /\ IsFiniteSet(fn.code) /\ fn.incoming \in Nat
      /\ \A inst \in fn.code : IsInstr(inst) /\ ~Panics(inst)
  BY <1>1 DEF IsFunction
<1>4. fn.local \in Nat /\ fn.outgoing \in Nat
  BY <1>2, <1>3, AreaOf
<1>5. fn.used \in Seq(CalleeSaved)
  BY <1>2, UsedRegisters
<1>6. ASSUME NEW inst \in fn.code, NEW loc \in Locations(inst)
      PROVE  \/ \E r \in Range(fn.used) : loc = R(r)
             \/ \E s \in Slots(fn.local) : loc = S("local", s)
             \/ \E s \in Slots(fn.outgoing) : loc = S("outgoing", s)
             \/ \E s \in Slots(fn.incoming) : loc = S("incoming", s)
  <2>1. IsLocation(loc)
    BY <1>3 DEF IsInstr
  <2>2. CASE \E r \in CalleeSaved : loc = R(r)
    <3>1. PICK r \in CalleeSaved : loc = R(r)
      BY <2>2
    <3>2. loc[1] = "R"
      BY <3>1 DEF R
    <3>3. PICK other \in fn.code : loc \in Locations(other) /\ other.k # "Lbuiltin"
      BY <1>1, <3>2 DEF IsFunction
    <3>. QED  BY <1>2, <3>1, <3>3, UsedRegisters
  <2>3. CASE loc = S(loc[1], loc[2]) /\ loc[1] = "incoming"
    <3>1. loc[2] \in Slots(fn.incoming)
      BY <1>1, <2>3 DEF IsFunction, InReg
    <3>. QED  BY <2>3, <3>1
  <2>4. ASSUME NEW kind \in {"local", "outgoing"}, loc = S(loc[1], loc[2]), loc[1] = kind
        PROVE  \E s \in Slots(collectStackInfo(fn.code, kind)) : loc = S(kind, s)
    <3>1. PICK other \in fn.code : loc \in Range(other.dest) /\ other.k \in Scanned
      BY <1>1, <2>4 DEF IsFunction, InReg
    <3>2. loc \in Locations(other)
      BY <1>3, <3>1, LocationsOf
    <3>3. /\ loc[2] \in Nat /\ loc[2] % 8 = 0 /\ loc[2] + 8 <= collectStackInfo(fn.code, kind)
          /\ collectStackInfo(fn.code, kind) \in Nat
      BY <1>3, <2>4, <3>1, <3>2, AreaOf
    <3>4. loc[2] \in Slots(collectStackInfo(fn.code, kind))
      <4>1. PICK n, bytes : n = loc[2] /\ bytes = collectStackInfo(fn.code, kind)
        OBVIOUS
      <4>2. n \in Nat /\ n % 8 = 0 /\ n + 8 <= bytes /\ bytes \in Nat
        BY <3>3, <4>1
      <4>3. n = 8 * (n \div 8) /\ n \div 8 \in 0..(bytes \div 8) - 1
        BY <4>2
      <4>4. n \in Slots(bytes)
        BY <4>3 DEF Slots
      <4>. QED  BY <4>1, <4>4
    <3>. QED  BY <2>4, <3>4
  <2>. QED  BY <1>2, <2>1, <2>2, <2>3, <2>4 DEF IsLocation
<1>. QED  BY <1>3, <1>4, <1>5, <1>6

-----------------------------------------------------------------------------
(***************************************************************************)
(* The layout of a frame.                                                  *)
(***************************************************************************)
LEMMA AlignUp ==
  ASSUME NEW n \in Nat
  PROVE  /\ alignUp(n, 8) \in Nat /\ alignUp(n, 8) >= n /\ alignUp(n, 8) % 8 = 0
         /\ alignUp(n, 16) \in Nat /\ alignUp(n, 16) >= n /\ alignUp(n, 16) % 16 = 0
BY DEF alignUp

LEMMA SavedFacts ==
  ASSUME NEW fn \in Functions
  PROVE  /\ Saved(fn) \in Seq(CalleeSaved)
         /\ Len(Saved(fn)) \in Nat /\ Len(Saved(fn)) % 2 = 0
         /\ \A r \in Range(fn.used) : \E j \in 1..Len(Saved(fn)) : Saved(fn)[j] = r
<1>1. PICK used : used = fn.used
  OBVIOUS
<1>2. used \in Seq(CalleeSaved) /\ Len(used) \in Nat /\ DOMAIN used = 1..Len(used)
  BY <1>1, FunctionFacts
<1>3. Saved(fn) = IF Len(used) % 2 = 0 THEN used ELSE Append(used, used[Len(used)])
  BY <1>1 DEF Saved, PadToEven
<1>4. \A r \in Range(fn.used) : \E j \in 1..Len(used) : used[j] = r
  BY <1>1, <1>2 DEF Range
<1>5. CASE Len(used) % 2 = 0
  BY <1>2, <1>3, <1>4, <1>5
<1>6. CASE Len(used) % 2 # 0
  <2>1. Len(used) \in 1..Len(used) /\ (Len(used) + 1) % 2 = 0
    BY <1>2, <1>6
  <2>2. used[Len(used)] \in CalleeSaved
    BY <1>2, <2>1
  <2>3. PICK padded : padded = Append(used, used[Len(used)])
    OBVIOUS
  <2>4. /\ padded \in Seq(CalleeSaved) /\ Len(padded) = Len(used) + 1
        /\ \A j \in 1..Len(used) : padded[j] = used[j]
    BY <1>2, <2>2, <2>3, AppendProperties
  <2>5. \A j \in 1..Len(used) : j \in 1..Len(padded)
    BY <1>2, <2>4
  <2>6. Saved(fn) = padded
    BY <1>3, <1>6, <2>3
  <2>7. \A r \in Range(fn.used) : \E j \in 1..Len(padded) : padded[j] = r
    BY <1>4, <2>4, <2>5
  <2>8. Len(padded) \in Nat /\ Len(padded) % 2 = 0
    BY <1>2, <2>1, <2>4
  <2>. QED  BY <2>4, <2>6, <2>7, <2>8
<1>. QED  BY <1>5, <1>6

\* The areas lie one below the other, and all of them in the frame.
LEMMA LayoutFacts ==
  ASSUME NEW fn \in Functions
  PROVE  \E c, l, o \in Nat :
           /\ c = 8 * Len(Saved(fn)) /\ c % 16 = 0
           /\ l >= fn.local /\ l % 8 = 0 /\ o >= fn.outgoing /\ o % 8 = 0
           /\ TotalSize(fn) \in Nat /\ TotalSize(fn) >= 16 + c + l + o
           /\ TotalSize(fn) % 16 = 0
           /\ \A s \in Int : LocalSlotOffset(fn, s) = s - c - l
           /\ \A s \in Int : OutgoingSlotOffset(fn, s) = 16 - TotalSize(fn) + s
<1>1. Len(Saved(fn)) \in Nat /\ Len(Saved(fn)) % 2 = 0
  BY SavedFacts
<1>2. PICK c, l, o : c = CalleeSaveSize(fn) /\ l = LocalSize(fn) /\ o = OutgoingSize(fn)
  OBVIOUS
<1>3. c \in Nat /\ c = 8 * Len(Saved(fn)) /\ c % 16 = 0
  BY <1>1, <1>2 DEF CalleeSaveSize, PointerSize
<1>4. l \in Nat /\ l >= fn.local /\ l % 8 = 0 /\ o \in Nat /\ o >= fn.outgoing /\ o % 8 = 0
  BY <1>2, FunctionFacts, AlignUp DEF LocalSize, OutgoingSize
<1>5. PICK b : b = alignUp(c + l + o, 16)
  OBVIOUS
<1>6. b \in Nat /\ b >= c + l + o /\ b % 16 = 0
  <2>1. c + l + o \in Nat
    BY <1>3, <1>4
  <2>. QED  BY <1>5, <2>1, AlignUp
<1>7. TotalSize(fn) = b + 16
  BY <1>2, <1>5 DEF TotalSize, FrameBody, StackAlignment
<1>8. TotalSize(fn) \in Nat /\ TotalSize(fn) >= 16 + c + l + o /\ TotalSize(fn) % 16 = 0
  BY <1>3, <1>4, <1>6, <1>7
<1>9. \A s \in Int : LocalSlotOffset(fn, s) = s - c - l
  BY <1>2, <1>3, <1>4 DEF LocalSlotOffset, LocalOffset
<1>10. \A s \in Int : OutgoingSlotOffset(fn, s) = 16 - TotalSize(fn) + s
  BY <1>8 DEF OutgoingSlotOffset
<1>. QED  BY <1>3, <1>4, <1>8, <1>9, <1>10

(***************************************************************************)
(* The frame of a function that was entered with SP = top.                 *)
(***************************************************************************)
Region(fn, top) == {a \in Addresses : top - TotalSize(fn) <= a /\ a < top}
SaveAt(top, j) == top - 16 + SaveOffset(j)
LocalAt(fn, top, s) == top - 16 + LocalSlotOffset(fn, s)
OutgoingAt(fn, top, s) == top - 16 + OutgoingSlotOffset(fn, s)

FitsBelow(fn, top) ==
  /\ fn \in Functions /\ top \in Nat /\ top % 16 = 0
  /\ TotalSize(fn) <= top /\ top <= StackTop

LEMMA AddressFacts ==
  ASSUME NEW a \in Int, 0 <= a, a < StackTop, a % 8 = 0
  PROVE  a \in Addresses
<1>1. a = 8 * (a \div 8) /\ a \div 8 \in 0..(StackTop \div 8) - 1
  <2>1. StackTop \in Nat /\ StackTop % 16 = 0
    BY StackAssumption DEF StackAlignment
  <2>. QED  BY <2>1
<1>. QED  BY <1>1 DEF Addresses

LEMMA SlotFacts ==
  ASSUME NEW bytes \in Nat, NEW s \in Slots(bytes)
  PROVE  s \in Nat /\ s % 8 = 0 /\ s + 8 <= bytes
<1>1. PICK k \in 0..(bytes \div 8) - 1 : s = 8 * k
  BY DEF Slots
<1>. QED  BY <1>1

\* Two things kept in a frame are never at the same address.
LEMMA Areas ==
  ASSUME NEW fn, NEW top, FitsBelow(fn, top)
  PROVE  /\ top - 16 \in Region(fn, top) /\ top - 8 \in Region(fn, top) /\ top - 16 # top - 8
         /\ \A j \in 1..Len(Saved(fn)) :
              /\ SaveAt(top, j) \in Region(fn, top)
              /\ SaveAt(top, j) \notin {top - 16, top - 8}
              /\ \A k \in 1..Len(Saved(fn)) : SaveAt(top, j) = SaveAt(top, k) => j = k
         /\ \A s \in Slots(fn.local) :
              /\ LocalAt(fn, top, s) \in Region(fn, top)
              /\ LocalAt(fn, top, s) \notin {top - 16, top - 8}
              /\ \A j \in 1..Len(Saved(fn)) : LocalAt(fn, top, s) # SaveAt(top, j)
              /\ \A t \in Slots(fn.local) : LocalAt(fn, top, s) = LocalAt(fn, top, t) => s = t
         /\ \A s \in Slots(fn.outgoing) :
              /\ OutgoingAt(fn, top, s) \in Region(fn, top)
              /\ OutgoingAt(fn, top, s) \notin {top - 16, top - 8}
              /\ \A j \in 1..Len(Saved(fn)) : OutgoingAt(fn, top, s) # SaveAt(top, j)
              /\ \A t \in Slots(fn.local) : OutgoingAt(fn, top, s) # LocalAt(fn, top, t)
              /\ \A t \in Slots(fn.outgoing) : OutgoingAt(fn, top, s) = OutgoingAt(fn, top, t) => s = t
              /\ OutgoingAt(fn, top, s) = top - TotalSize(fn) + s
<1>1. fn \in Functions /\ top \in Nat /\ top % 16 = 0 /\ TotalSize(fn) <= top /\ top <= StackTop
  BY DEF FitsBelow
<1>2. PICK c, l, o \in Nat :
        /\ c = 8 * Len(Saved(fn)) /\ c % 16 = 0
        /\ l >= fn.local /\ l % 8 = 0 /\ o >= fn.outgoing /\ o % 8 = 0
        /\ TotalSize(fn) \in Nat /\ TotalSize(fn) >= 16 + c + l + o
        /\ TotalSize(fn) % 16 = 0
        /\ \A s \in Int : LocalSlotOffset(fn, s) = s - c - l
        /\ \A s \in Int : OutgoingSlotOffset(fn, s) = 16 - TotalSize(fn) + s
  BY <1>1, LayoutFacts
<1>3. PICK t : t = TotalSize(fn)
  OBVIOUS
<1>4. /\ c \in Nat /\ l \in Nat /\ o \in Nat /\ t \in Nat /\ top \in Nat /\ StackTop \in Nat
      /\ t >= 16 + c + l + o /\ t <= top /\ top <= StackTop
      /\ c % 8 = 0 /\ l % 8 = 0 /\ o % 8 = 0 /\ t % 8 = 0 /\ top % 8 = 0
  <2>1. c \in Nat /\ l \in Nat /\ o \in Nat /\ l % 8 = 0 /\ o % 8 = 0 /\ c % 16 = 0
    BY <1>2
  <2>2. t \in Nat /\ t >= 16 + c + l + o /\ t % 16 = 0 /\ t <= top
    BY <1>1, <1>2, <1>3
  <2>. QED  BY <1>1, <2>1, <2>2, StackAssumption
<1>5. ASSUME NEW a \in Int, top - t <= a, a < top, a % 8 = 0 PROVE a \in Region(fn, top)
  <2>1. 0 <= a /\ a < StackTop
    BY <1>4, <1>5
  <2>. QED  BY <1>3, <1>5, <2>1, AddressFacts DEF Region
<1>6. top - 16 \in Region(fn, top) /\ top - 8 \in Region(fn, top) /\ top - 16 # top - 8
  <2>1. /\ top - 16 \in Int /\ top - t <= top - 16 /\ top - 16 < top /\ (top - 16) % 8 = 0
        /\ top - 8 \in Int /\ top - t <= top - 8 /\ top - 8 < top /\ (top - 8) % 8 = 0
    BY <1>4
  <2>. QED  BY <1>4, <1>5, <2>1
<1>7. ASSUME NEW j \in 1..Len(Saved(fn))
      PROVE  /\ SaveAt(top, j) = top - 16 - 8 * j /\ SaveAt(top, j) \in Region(fn, top)
             /\ j \in Nat /\ 8 <= 8 * j /\ 8 * j <= c
  <2>1. SaveAt(top, j) = top - 16 - 8 * j /\ j \in Nat /\ 8 <= 8 * j
    BY <1>4 DEF SaveAt, SaveOffset
  <2>2. 8 * j <= c
    <3>1. PICK n : n = Len(Saved(fn))
      OBVIOUS
    <3>2. n \in Nat /\ j \in 1..n /\ c = 8 * n
      BY <1>1, <1>2, <3>1, SavedFacts
    <3>. QED  BY <3>2
  <2>3. /\ top - 16 - 8 * j \in Int /\ top - t <= top - 16 - 8 * j /\ top - 16 - 8 * j < top
        /\ (top - 16 - 8 * j) % 8 = 0
    BY <1>4, <2>1, <2>2
  <2>. QED  BY <1>5, <2>1, <2>2, <2>3
<1>8. ASSUME NEW s \in Slots(fn.local)
      PROVE  /\ LocalAt(fn, top, s) = top - 16 - c - l + s /\ LocalAt(fn, top, s) \in Region(fn, top)
             /\ s \in Nat /\ s + 8 <= l
  <2>1. s \in Nat /\ s % 8 = 0 /\ s + 8 <= l
    <3>1. PICK b : b = fn.local
      OBVIOUS
    <3>2. b \in Nat /\ l >= b
      <4>1. fn.local \in Nat
        BY <1>1, FunctionFacts
      <4>. QED  BY <1>2, <3>1, <4>1
    <3>3. s \in Nat /\ s % 8 = 0 /\ s + 8 <= b
      <4>1. b \in Nat /\ s \in Slots(b)
        BY <3>1, <3>2
      <4>. QED  BY <4>1, SlotFacts
    <3>. QED  BY <1>4, <3>2, <3>3
  <2>2. LocalAt(fn, top, s) = top - 16 - c - l + s
    <3>1. LocalSlotOffset(fn, s) = s - c - l
      <4>1. s \in Int
        BY <2>1
      <4>. QED  BY <1>2, <4>1, Zenon
    <3>. QED  BY <1>4, <2>1, <3>1 DEF LocalAt
  <2>3. /\ top - 16 - c - l + s \in Int /\ top - t <= top - 16 - c - l + s
        /\ top - 16 - c - l + s < top /\ (top - 16 - c - l + s) % 8 = 0
    BY <1>4, <2>1
  <2>. QED  BY <1>5, <2>1, <2>2, <2>3
<1>9. ASSUME NEW s \in Slots(fn.outgoing)
      PROVE  /\ OutgoingAt(fn, top, s) = top - t + s /\ OutgoingAt(fn, top, s) \in Region(fn, top)
             /\ s \in Nat /\ s + 8 <= o
  <2>1. s \in Nat /\ s % 8 = 0 /\ s + 8 <= o
    <3>1. PICK b : b = fn.outgoing
      OBVIOUS
    <3>2. b \in Nat /\ o >= b
      <4>1. fn.outgoing \in Nat
        BY <1>1, FunctionFacts
      <4>. QED  BY <1>2, <3>1, <4>1
    <3>3. s \in Nat /\ s % 8 = 0 /\ s + 8 <= b
      <4>1. b \in Nat /\ s \in Slots(b)
        BY <3>1, <3>2
      <4>. QED  BY <4>1, SlotFacts
    <3>. QED  BY <1>4, <3>2, <3>3
  <2>2. OutgoingAt(fn, top, s) = top - t + s
    <3>1. OutgoingSlotOffset(fn, s) = 16 - t + s
      <4>1. s \in Int
        BY <2>1
      <4>. QED  BY <1>2, <1>3, <4>1, Zenon
    <3>. QED  BY <1>4, <2>1, <3>1 DEF OutgoingAt
  <2>3. /\ top - t + s \in Int /\ top - t <= top - t + s /\ top - t + s < top
        /\ (top - t + s) % 8 = 0
    BY <1>4, <2>1
  <2>. QED  BY <1>5, <2>1, <2>2, <2>3
<1>10. ASSUME NEW j \in 1..Len(Saved(fn))
       PROVE  /\ SaveAt(top, j) \notin {top - 16, top - 8}
              /\ \A k \in 1..Len(Saved(fn)) : SaveAt(top, j) = SaveAt(top, k) => j = k
  <2>1. SaveAt(top, j) \notin {top - 16, top - 8}
    BY <1>4, <1>7
  <2>2. ASSUME NEW k \in 1..Len(Saved(fn)), SaveAt(top, j) = SaveAt(top, k) PROVE j = k
    <3>1. j \in Nat /\ k \in Nat /\ top - 16 - 8 * j = top - 16 - 8 * k
      BY <1>7, <2>2
    <3>. QED  BY <1>4, <3>1
  <2>. QED  BY <2>1, <2>2
<1>11. ASSUME NEW s \in Slots(fn.local)
       PROVE  /\ LocalAt(fn, top, s) \notin {top - 16, top - 8}
              /\ \A j \in 1..Len(Saved(fn)) : LocalAt(fn, top, s) # SaveAt(top, j)
              /\ \A u \in Slots(fn.local) : LocalAt(fn, top, s) = LocalAt(fn, top, u) => s = u
  <2>1. LocalAt(fn, top, s) \notin {top - 16, top - 8}
    BY <1>4, <1>8
  <2>2. ASSUME NEW j \in 1..Len(Saved(fn)) PROVE LocalAt(fn, top, s) # SaveAt(top, j)
    <3>1. j \in Nat /\ s \in Nat /\ s + 8 <= l /\ 8 * j <= c
      BY <1>7, <1>8
    <3>2. top - 16 - c - l + s # top - 16 - 8 * j
      BY <1>4, <3>1
    <3>. QED  BY <1>7, <1>8, <3>2
  <2>3. ASSUME NEW u \in Slots(fn.local), LocalAt(fn, top, s) = LocalAt(fn, top, u) PROVE s = u
    <3>1. s \in Nat /\ u \in Nat /\ top - 16 - c - l + s = top - 16 - c - l + u
      BY <1>8, <2>3
    <3>. QED  BY <1>4, <3>1
  <2>. QED  BY <2>1, <2>2, <2>3
<1>12. ASSUME NEW s \in Slots(fn.outgoing)
       PROVE  /\ OutgoingAt(fn, top, s) \notin {top - 16, top - 8}
              /\ \A j \in 1..Len(Saved(fn)) : OutgoingAt(fn, top, s) # SaveAt(top, j)
              /\ \A u \in Slots(fn.local) : OutgoingAt(fn, top, s) # LocalAt(fn, top, u)
              /\ \A u \in Slots(fn.outgoing) : OutgoingAt(fn, top, s) = OutgoingAt(fn, top, u) => s = u
  <2>1. s \in Nat /\ s + 8 <= o /\ OutgoingAt(fn, top, s) = top - t + s
    BY <1>9
  <2>2. OutgoingAt(fn, top, s) \notin {top - 16, top - 8}
    BY <1>4, <2>1
  <2>3. ASSUME NEW j \in 1..Len(Saved(fn)) PROVE OutgoingAt(fn, top, s) # SaveAt(top, j)
    <3>1. j \in Nat /\ 8 * j <= c
      BY <1>7
    <3>2. top - t + s # top - 16 - 8 * j
      BY <1>4, <2>1, <3>1
    <3>. QED  BY <1>7, <2>1, <3>2
  <2>4. ASSUME NEW u \in Slots(fn.local) PROVE OutgoingAt(fn, top, s) # LocalAt(fn, top, u)
    <3>1. u \in Nat
      BY <1>8
    <3>2. top - t + s # top - 16 - c - l + u
      BY <1>4, <2>1, <3>1
    <3>. QED  BY <1>8, <2>1, <3>2
  <2>5. ASSUME NEW u \in Slots(fn.outgoing), OutgoingAt(fn, top, s) = OutgoingAt(fn, top, u) PROVE s = u
    <3>1. u \in Nat /\ top - t + s = top - t + u
      BY <1>9, <2>1, <2>5
    <3>. QED  BY <1>4, <2>1, <3>1
  <2>. QED  BY <2>2, <2>3, <2>4, <2>5
<1>13. \A s \in Slots(fn.outgoing) : OutgoingAt(fn, top, s) = top - TotalSize(fn) + s
  BY <1>3, <1>9
<1>. QED  BY <1>6, <1>7, <1>8, <1>9, <1>10, <1>11, <1>12, <1>13

-----------------------------------------------------------------------------
(***************************************************************************)
(* What the memory m holds of an activation f: the pair of saved pointers, *)
(* the first saved registers, and the slots.                               *)
(***************************************************************************)
PairHeld(m, f) == m[f.sp - 16] = f.fp /\ m[f.sp - 8] = f.lr

SavesHeld(m, f, count) ==
  \A j \in 1..count : m[SaveAt(f.sp, j)] = f.regs[Saved(f.fn)[j]]

SlotsHeld(m, f) ==
  /\ \A s \in Slots(f.fn.local) : m[LocalAt(f.fn, f.sp, s)] = f.local[s]
  /\ \A s \in Slots(f.fn.outgoing) : m[OutgoingAt(f.fn, f.sp, s)] = f.outgoing[s]

\* Registers that are not saved have the values r that they had at entry.
OthersKept(f, r) == \A q \in CalleeSaved \ Range(f.fn.used) : r[q] = f.regs[q]

SlotMaps == UNION {[Slots(b) -> Int] : b \in UNION {{fn.local, fn.outgoing} : fn \in Functions}}

Frame == [fn : Functions, sp : Nat, fp : Int, lr : Nat, regs : [CalleeSaved -> Int],
          local : SlotMaps, outgoing : SlotMaps]

(***************************************************************************)
(* Each frame lies below the frames of its callers, the frame of its       *)
(* caller directly above it.                                               *)
(***************************************************************************)
FramesInv ==
  /\ frames \in Seq(Frame) /\ Len(frames) >= 1
  /\ \A k \in 1..Len(frames) :
       /\ FitsBelow(frames[k].fn, frames[k].sp)
       /\ DOMAIN frames[k].local = Slots(frames[k].fn.local)
       /\ DOMAIN frames[k].outgoing = Slots(frames[k].fn.outgoing)
       /\ frames[k].lr = k - 1
       /\ \A j \in 1..k-1 : frames[k].sp <= frames[j].sp - TotalSize(frames[j].fn)
  /\ frames[1].fn.incoming = 0
  /\ \A k \in 2..Len(frames) :
       /\ frames[k].sp = frames[k-1].sp - TotalSize(frames[k-1].fn)
       /\ frames[k].fp = frames[k-1].sp - 16
       /\ frames[k].fn.incoming <= frames[k-1].fn.outgoing

\* The activations that wait for a call have all they need in memory.
WaitingInv ==
  \A k \in 1..Len(frames)-1 :
    /\ PairHeld(mem, frames[k])
    /\ SavesHeld(mem, frames[k], Len(Saved(frames[k].fn)))
    /\ SlotsHeld(mem, frames[k])
    /\ OthersKept(frames[k], frames[k+1].regs)

Top == frames[Len(frames)]

\* What holds of the running activation at each point of its code.
RunningInv ==
  /\ mem \in [Addresses -> Int] /\ regs \in [CalleeSaved -> Int] /\ lr \in Nat
  /\ pc \in {"sub", "stp", "fp", "save", "body", "restore", "add", "ret"}
  /\ sp = IF pc \in {"sub", "ret"} THEN Top.sp ELSE Top.sp - TotalSize(Fn)
  /\ fp = IF pc \in {"save", "body", "restore"} THEN Top.sp - 16 ELSE Top.fp
  /\ pc \notin {"body", "restore"} => lr = Top.lr
  /\ pc \in {"fp", "save", "body", "restore"} => PairHeld(mem, Top)
  /\ pc = "save" => i \in 1..Len(Saved(Fn)) + 1 /\ SavesHeld(mem, Top, i - 1)
  /\ pc \in {"body", "restore"} => SavesHeld(mem, Top, Len(Saved(Fn)))
  /\ pc = "body" => SlotsHeld(mem, Top)
  /\ IF pc \in {"body", "restore"} THEN OthersKept(Top, regs) ELSE regs = Top.regs
  /\ pc = "restore" => /\ i \in Int /\ i % 2 = 1 /\ i <= Len(Saved(Fn)) - 1
                       /\ \A j \in 1..Len(Saved(Fn)) :
                            j > i + 1 => regs[Saved(Fn)[j]] = Top.regs[Saved(Fn)[j]]

IInv == FramesInv /\ WaitingInv /\ RunningInv

LEMMA HeldElsewhere ==
  ASSUME NEW f, FitsBelow(f.fn, f.sp), NEW m, NEW n,
         \A a \in Region(f.fn, f.sp) : n[a] = m[a]
  PROVE  /\ PairHeld(m, f) => PairHeld(n, f)
         /\ SavesHeld(m, f, Len(Saved(f.fn))) => SavesHeld(n, f, Len(Saved(f.fn)))
         /\ SlotsHeld(m, f) => SlotsHeld(n, f)
<1>1. /\ f.sp - 16 \in Region(f.fn, f.sp) /\ f.sp - 8 \in Region(f.fn, f.sp)
      /\ \A j \in 1..Len(Saved(f.fn)) : SaveAt(f.sp, j) \in Region(f.fn, f.sp)
      /\ \A s \in Slots(f.fn.local) : LocalAt(f.fn, f.sp, s) \in Region(f.fn, f.sp)
      /\ \A s \in Slots(f.fn.outgoing) : OutgoingAt(f.fn, f.sp, s) \in Region(f.fn, f.sp)
  BY Areas
<1>2. PairHeld(m, f) => PairHeld(n, f)
  BY <1>1 DEF PairHeld
<1>3. SavesHeld(m, f, Len(Saved(f.fn))) => SavesHeld(n, f, Len(Saved(f.fn)))
  BY <1>1 DEF SavesHeld
<1>4. SlotsHeld(m, f) => SlotsHeld(n, f)
  BY <1>1 DEF SlotsHeld
<1>. QED  BY <1>2, <1>3, <1>4

LEMMA FrameFacts ==
  ASSUME FramesInv
  PROVE  /\ Len(frames) \in Nat \ {0} /\ Len(frames) \in 1..Len(frames)
         /\ DOMAIN frames = 1..Len(frames)
         /\ \A k \in 1..Len(frames) :
              /\ frames[k] \in Frame /\ FitsBelow(frames[k].fn, frames[k].sp)
              /\ frames[k].fn \in Functions /\ frames[k].sp \in Nat
              /\ TotalSize(frames[k].fn) \in Nat
         /\ Top \in Frame /\ Fn = Top.fn /\ FitsBelow(Fn, Top.sp) /\ Fn \in Functions
         /\ Top.sp \in Nat /\ TotalSize(Fn) \in Nat
<1>1. Len(frames) \in Nat \ {0} /\ DOMAIN frames = 1..Len(frames)
  BY DEF FramesInv
<1>2. Len(frames) \in 1..Len(frames)
  BY <1>1
<1>3. ASSUME NEW k \in 1..Len(frames)
      PROVE  /\ frames[k] \in Frame /\ FitsBelow(frames[k].fn, frames[k].sp)
             /\ frames[k].fn \in Functions /\ frames[k].sp \in Nat
             /\ TotalSize(frames[k].fn) \in Nat
  <2>1. frames[k] \in Frame /\ FitsBelow(frames[k].fn, frames[k].sp)
    BY <1>3 DEF FramesInv
  <2>2. frames[k].fn \in Functions /\ frames[k].sp \in Nat
    BY <2>1 DEF FitsBelow
  <2>3. TotalSize(frames[k].fn) \in Nat
    BY <2>2, LayoutFacts
  <2>. QED  BY <2>1, <2>2, <2>3
<1>. QED  BY <1>1, <1>2, <1>3 DEF Top, Fn

LEMMA RegionsApart ==
  ASSUME FramesInv, NEW j \in 1..Len(frames), NEW k \in 1..Len(frames), j < k,
         NEW a \in Region(frames[j].fn, frames[j].sp)
  PROVE  a \notin Region(frames[k].fn, frames[k].sp)
<1>1. frames[k].sp <= frames[j].sp - TotalSize(frames[j].fn)
  <2>1. j \in 1..k-1
    OBVIOUS
  <2>. QED  BY <2>1 DEF FramesInv
<1>2. PICK t, u, v : t = frames[j].sp /\ u = frames[k].sp /\ v = TotalSize(frames[j].fn)
  OBVIOUS
<1>3. t \in Nat /\ u \in Nat /\ v \in Nat /\ u <= t - v
  BY <1>1, <1>2, FrameFacts
<1>4. a \in Int /\ t - v <= a
  <2>1. a \in Addresses
    BY DEF Region
  <2>2. a \in Int
    BY <2>1 DEF Addresses
  <2>. QED  BY <1>2, <2>2 DEF Region
<1>5. ~(a < u)
  BY <1>3, <1>4
<1>. QED  BY <1>2, <1>5 DEF Region

\* What the running activation does in its own frame does not concern the others.
LEMMA WaitingKept ==
  ASSUME FramesInv, WaitingInv, UNCHANGED frames,
         \A a \in Addresses \ Region(Fn, Top.sp) : mem'[a] = mem[a]
  PROVE  FramesInv' /\ WaitingInv' /\ Top' = Top /\ Fn' = Fn
<1>1. FramesInv' /\ Top' = Top /\ Fn' = Fn
  BY DEF FramesInv, Top, Fn
<1>2. ASSUME NEW k \in 1..Len(frames)-1
      PROVE  /\ PairHeld(mem', frames[k])
             /\ SavesHeld(mem', frames[k], Len(Saved(frames[k].fn)))
             /\ SlotsHeld(mem', frames[k])
             /\ OthersKept(frames[k], frames[k+1].regs)
  <2>1. k \in 1..Len(frames) /\ k < Len(frames) /\ Len(frames) \in 1..Len(frames)
    BY FrameFacts
  <2>2. \A a \in Region(frames[k].fn, frames[k].sp) : mem'[a] = mem[a]
    <3> SUFFICES ASSUME NEW a \in Region(frames[k].fn, frames[k].sp) PROVE mem'[a] = mem[a]
      OBVIOUS
    <3>1. a \notin Region(Fn, Top.sp)
      BY <2>1, RegionsApart DEF Fn, Top
    <3>. QED  BY <3>1 DEF Region
  <2>3. FitsBelow(frames[k].fn, frames[k].sp)
    BY <2>1, FrameFacts
  <2>4. /\ PairHeld(mem, frames[k]) /\ SavesHeld(mem, frames[k], Len(Saved(frames[k].fn)))
        /\ SlotsHeld(mem, frames[k]) /\ OthersKept(frames[k], frames[k+1].regs)
    BY DEF WaitingInv
  <2>. QED  BY <2>2, <2>3, <2>4, HeldElsewhere
<1>. QED  BY <1>1, <1>2 DEF WaitingInv

-----------------------------------------------------------------------------
(***************************************************************************)
(* The prologue and the epilogue.                                          *)
(***************************************************************************)
LEMMA StepAllocate == IInv /\ AllocateFrame => IInv'
<1> SUFFICES ASSUME IInv, AllocateFrame PROVE IInv'
  OBVIOUS
<1>1. /\ pc = "sub" /\ pc' = "stp" /\ sp' = sp - TotalSize(Fn)
      /\ UNCHANGED <<mem, fp, lr, regs, frames, i>>
  BY DEF AllocateFrame
<1>2. FramesInv' /\ WaitingInv' /\ Top' = Top /\ Fn' = Fn
  BY <1>1, WaitingKept DEF IInv
<1>. QED  BY <1>1, <1>2 DEF IInv, RunningInv

LEMMA StepSaveFP == IInv /\ SaveFPAndLR => IInv'
<1> SUFFICES ASSUME IInv, SaveFPAndLR PROVE IInv'
  OBVIOUS
<1>1. /\ pc = "stp" /\ pc' = "fp" /\ UNCHANGED <<sp, fp, lr, regs, frames, i>>
      /\ mem' = [mem EXCEPT ![sp + fpSaveOffset(Fn)] = fp, ![sp + fpSaveOffset(Fn) + 8] = lr]
  BY DEF SaveFPAndLR
<1>2. /\ sp = Top.sp - TotalSize(Fn) /\ mem \in [Addresses -> Int]
      /\ fp = Top.fp /\ lr = Top.lr /\ lr \in Nat /\ fp \in Int
  BY <1>1, FrameFacts DEF IInv, RunningInv, Frame
<1>3. sp + fpSaveOffset(Fn) = Top.sp - 16 /\ sp + fpSaveOffset(Fn) + 8 = Top.sp - 8
  BY <1>2, FrameFacts DEF IInv, fpSaveOffset
<1>4. /\ Top.sp - 16 \in Region(Fn, Top.sp) /\ Top.sp - 8 \in Region(Fn, Top.sp)
      /\ Top.sp - 16 # Top.sp - 8
  BY FrameFacts, Areas DEF IInv
<1>5. Top.sp - 16 \in Addresses /\ Top.sp - 8 \in Addresses
  BY <1>4 DEF Region
<1>6. mem' = [mem EXCEPT ![Top.sp - 16] = fp, ![Top.sp - 8] = lr]
  BY <1>1, <1>3
<1>7. /\ mem' \in [Addresses -> Int] /\ mem'[Top.sp - 16] = fp /\ mem'[Top.sp - 8] = lr
      /\ \A a \in Addresses \ Region(Fn, Top.sp) : mem'[a] = mem[a]
  BY <1>2, <1>4, <1>5, <1>6
<1>8. FramesInv' /\ WaitingInv' /\ Top' = Top /\ Fn' = Fn
  BY <1>1, <1>7, WaitingKept DEF IInv
<1>9. PairHeld(mem', Top)
  BY <1>2, <1>7 DEF PairHeld
<1>. QED  BY <1>1, <1>7, <1>8, <1>9 DEF IInv, RunningInv

LEMMA StepSetFP == IInv /\ SetFP => IInv'
<1> SUFFICES ASSUME IInv, SetFP PROVE IInv'
  OBVIOUS
<1>1. /\ pc = "fp" /\ pc' = "save" /\ i' = 1 /\ UNCHANGED <<mem, sp, lr, regs, frames>>
      /\ fp' = sp + fpSaveOffset(Fn)
  BY DEF SetFP
<1>2. FramesInv' /\ WaitingInv' /\ Top' = Top /\ Fn' = Fn
  BY <1>1, WaitingKept DEF IInv
<1>3. fp' = Top.sp - 16
  <2>1. sp = Top.sp - TotalSize(Fn)
    BY <1>1 DEF IInv, RunningInv
  <2>. QED  BY <1>1, <2>1, FrameFacts DEF IInv, fpSaveOffset
<1>4. i' \in 1..Len(Saved(Fn)) + 1 /\ SavesHeld(mem, Top, i' - 1)
  <2>1. Len(Saved(Fn)) \in Nat
    BY FrameFacts, SavedFacts DEF IInv
  <2>2. 1..i' - 1 = {} /\ i' \in 1..Len(Saved(Fn)) + 1
    BY <1>1, <2>1
  <2>. QED  BY <2>2 DEF SavesHeld
<1>. QED  BY <1>1, <1>2, <1>3, <1>4 DEF IInv, RunningInv, PairHeld, SavesHeld

LEMMA StepSaveRegister == IInv /\ SaveRegister => IInv'
<1> SUFFICES ASSUME IInv, SaveRegister PROVE IInv'
  OBVIOUS
<1>1. /\ pc = "save" /\ i <= Len(Saved(Fn)) /\ i' = i + 1
      /\ mem' = [mem EXCEPT ![fp + SaveOffset(i)] = regs[Saved(Fn)[i]]]
      /\ UNCHANGED <<sp, fp, lr, regs, frames, pc>>
  BY DEF SaveRegister
<1>2. /\ mem \in [Addresses -> Int] /\ fp = Top.sp - 16 /\ i \in 1..Len(Saved(Fn)) + 1
      /\ PairHeld(mem, Top) /\ SavesHeld(mem, Top, i - 1) /\ regs = Top.regs
      /\ regs \in [CalleeSaved -> Int]
  BY <1>1 DEF IInv, RunningInv
<1>3. Len(Saved(Fn)) \in Nat /\ Saved(Fn) \in Seq(CalleeSaved)
  BY FrameFacts, SavedFacts DEF IInv
<1>4. i \in 1..Len(Saved(Fn)) /\ i' \in 1..Len(Saved(Fn)) + 1
  BY <1>1, <1>2, <1>3
<1>5. Saved(Fn)[i] \in CalleeSaved
  BY <1>3, <1>4
<1>6. FitsBelow(Fn, Top.sp)
  BY FrameFacts DEF IInv
<1>7. /\ Top.sp - 16 \in Region(Fn, Top.sp) /\ Top.sp - 8 \in Region(Fn, Top.sp)
      /\ \A j \in 1..Len(Saved(Fn)) :
           /\ SaveAt(Top.sp, j) \in Region(Fn, Top.sp)
           /\ SaveAt(Top.sp, j) \notin {Top.sp - 16, Top.sp - 8}
           /\ SaveAt(Top.sp, j) = SaveAt(Top.sp, i) => j = i
  BY <1>4, <1>6, Areas
<1>8. /\ Top.sp - 16 \in Addresses /\ Top.sp - 8 \in Addresses
      /\ \A j \in 1..Len(Saved(Fn)) : SaveAt(Top.sp, j) \in Addresses
  BY <1>7 DEF Region
<1>9. fp + SaveOffset(i) = SaveAt(Top.sp, i)
  BY <1>2 DEF SaveAt
<1>10. /\ mem' \in [Addresses -> Int] /\ mem'[SaveAt(Top.sp, i)] = regs[Saved(Fn)[i]]
       /\ \A a \in Addresses : a # SaveAt(Top.sp, i) => mem'[a] = mem[a]
  BY <1>1, <1>2, <1>4, <1>5, <1>8, <1>9
<1>11. FramesInv' /\ WaitingInv' /\ Top' = Top /\ Fn' = Fn
  BY <1>1, <1>4, <1>7, <1>10, WaitingKept DEF IInv
<1>12. PairHeld(mem', Top)
  BY <1>2, <1>4, <1>7, <1>8, <1>10 DEF PairHeld
<1>13. SavesHeld(mem', Top, i' - 1)
  <2> SUFFICES ASSUME NEW j \in 1..i' - 1
               PROVE  mem'[SaveAt(Top.sp, j)] = Top.regs[Saved(Top.fn)[j]]
    BY DEF SavesHeld
  <2>1. j \in 1..Len(Saved(Fn)) /\ (j = i \/ j \in 1..i - 1)
    BY <1>1, <1>3, <1>4
  <2>2. Top.fn = Fn
    BY FrameFacts DEF IInv
  <2>3. CASE j = i
    BY <1>2, <1>10, <2>2, <2>3
  <2>4. CASE j \in 1..i - 1
    <3>1. j # i
      BY <1>4, <2>4
    <3>2. mem'[SaveAt(Top.sp, j)] = mem[SaveAt(Top.sp, j)]
      BY <1>7, <1>8, <1>10, <2>1, <3>1
    <3>. QED  BY <1>2, <2>4, <3>2 DEF SavesHeld
  <2>. QED  BY <2>1, <2>3, <2>4
<1>. QED  BY <1>1, <1>4, <1>10, <1>11, <1>12, <1>13 DEF IInv, RunningInv

\* A change of the slots of one activation leaves the frames where they are.
LEMMA FrameUpdate ==
  ASSUME FramesInv, NEW k \in 1..Len(frames), NEW g \in Frame,
         frames' = [frames EXCEPT ![k] = g],
         g.fn = frames[k].fn, g.sp = frames[k].sp, g.fp = frames[k].fp, g.lr = frames[k].lr,
         DOMAIN g.local = Slots(g.fn.local), DOMAIN g.outgoing = Slots(g.fn.outgoing)
  PROVE  /\ FramesInv' /\ Len(frames') = Len(frames) /\ frames'[k] = g
         /\ \A j \in 1..Len(frames) : j # k => frames'[j] = frames[j]
<1>1. frames \in Seq(Frame) /\ Len(frames) \in Nat
  BY DEF FramesInv
<1>2. /\ frames' \in Seq(Frame) /\ Len(frames') = Len(frames) /\ frames'[k] = g
      /\ \A j \in 1..Len(frames) : j # k => frames'[j] = frames[j]
  BY <1>1
<1>3. \A j \in 1..Len(frames) :
        /\ frames'[j].fn = frames[j].fn /\ frames'[j].sp = frames[j].sp
        /\ frames'[j].fp = frames[j].fp /\ frames'[j].lr = frames[j].lr
        /\ DOMAIN frames'[j].local = Slots(frames'[j].fn.local)
        /\ DOMAIN frames'[j].outgoing = Slots(frames'[j].fn.outgoing)
  BY <1>2 DEF FramesInv
<1>4. /\ 1 \in 1..Len(frames) /\ \A j \in 2..Len(frames) : j \in 1..Len(frames) /\ j-1 \in 1..Len(frames)
      /\ \A j \in 1..Len(frames) : \A l \in 1..j-1 : l \in 1..Len(frames)
  <2>1. Len(frames) >= 1
    BY DEF FramesInv
  <2>. QED  BY <1>1, <2>1
<1>5. FramesInv'
  <2>1. \A j \in 1..Len(frames) :
          /\ FitsBelow(frames'[j].fn, frames'[j].sp) /\ frames'[j].lr = j - 1
          /\ \A l \in 1..j-1 : frames'[j].sp <= frames'[l].sp - TotalSize(frames'[l].fn)
    <3> SUFFICES ASSUME NEW j \in 1..Len(frames)
                 PROVE  /\ FitsBelow(frames'[j].fn, frames'[j].sp) /\ frames'[j].lr = j - 1
                        /\ \A l \in 1..j-1 : frames'[j].sp <= frames'[l].sp - TotalSize(frames'[l].fn)
      OBVIOUS
    <3>1. FitsBelow(frames[j].fn, frames[j].sp) /\ frames[j].lr = j - 1
      BY DEF FramesInv
    <3>2. ASSUME NEW l \in 1..j-1 PROVE frames'[j].sp <= frames'[l].sp - TotalSize(frames'[l].fn)
      <4>1. frames[j].sp <= frames[l].sp - TotalSize(frames[l].fn)
        BY DEF FramesInv
      <4>. QED  BY <1>3, <1>4, <4>1
    <3>. QED  BY <1>3, <3>1, <3>2
  <2>2. \A j \in 2..Len(frames) :
          /\ frames'[j].sp = frames'[j-1].sp - TotalSize(frames'[j-1].fn)
          /\ frames'[j].fp = frames'[j-1].sp - 16
          /\ frames'[j].fn.incoming <= frames'[j-1].fn.outgoing
    <3> SUFFICES ASSUME NEW j \in 2..Len(frames)
                 PROVE  /\ frames'[j].sp = frames'[j-1].sp - TotalSize(frames'[j-1].fn)
                        /\ frames'[j].fp = frames'[j-1].sp - 16
                        /\ frames'[j].fn.incoming <= frames'[j-1].fn.outgoing
      OBVIOUS
    <3>1. /\ frames[j].sp = frames[j-1].sp - TotalSize(frames[j-1].fn)
          /\ frames[j].fp = frames[j-1].sp - 16
          /\ frames[j].fn.incoming <= frames[j-1].fn.outgoing
      BY DEF FramesInv
    <3>. QED  BY <1>3, <1>4, <3>1
  <2>3. frames'[1].fn.incoming = 0 /\ Len(frames') >= 1
    BY <1>2, <1>3, <1>4 DEF FramesInv
  <2>. QED  BY <1>2, <1>3, <2>1, <2>2, <2>3 DEF FramesInv
<1>. QED  BY <1>2, <1>5

LEMMA StepEndPrologue == IInv /\ EndPrologue => IInv'
<1> SUFFICES ASSUME IInv, EndPrologue PROVE IInv'
  OBVIOUS
<1> DEFINE n == Len(frames)
           newLocal == [s \in Slots(Fn.local) |-> mem[fp + LocalSlotOffset(Fn, s)]]
           newOutgoing == [s \in Slots(Fn.outgoing) |-> mem[fp + OutgoingSlotOffset(Fn, s)]]
           g == [frames[n] EXCEPT !.local = newLocal, !.outgoing = newOutgoing]
<1>1. /\ pc = "save" /\ i > Len(Saved(Fn)) /\ pc' = "body"
      /\ UNCHANGED <<mem, sp, fp, lr, regs, i>>
      /\ frames' = [frames EXCEPT ![n].local = newLocal, ![n].outgoing = newOutgoing]
  BY DEF EndPrologue
<1>2. /\ mem \in [Addresses -> Int] /\ fp = Top.sp - 16 /\ i \in 1..Len(Saved(Fn)) + 1
      /\ PairHeld(mem, Top) /\ SavesHeld(mem, Top, i - 1) /\ regs = Top.regs
  BY <1>1 DEF IInv, RunningInv
<1>3. /\ n \in 1..n /\ n \in Nat /\ frames[n] \in Frame /\ frames[n] = Top /\ Fn = Top.fn /\ Fn \in Functions
      /\ FitsBelow(Fn, Top.sp) /\ frames \in Seq(Frame)
  BY FrameFacts DEF IInv, Top, FramesInv
<1>4. /\ \A s \in Slots(Fn.local) : /\ fp + LocalSlotOffset(Fn, s) = LocalAt(Fn, Top.sp, s)
                                    /\ LocalAt(Fn, Top.sp, s) \in Addresses
      /\ \A s \in Slots(Fn.outgoing) : /\ fp + OutgoingSlotOffset(Fn, s) = OutgoingAt(Fn, Top.sp, s)
                                       /\ OutgoingAt(Fn, Top.sp, s) \in Addresses
  BY <1>2, <1>3, Areas DEF LocalAt, OutgoingAt, Region
<1>5. newLocal \in SlotMaps /\ newOutgoing \in SlotMaps
  <2>1. newLocal \in [Slots(Fn.local) -> Int] /\ newOutgoing \in [Slots(Fn.outgoing) -> Int]
    BY <1>2, <1>4
  <2> HIDE DEF newLocal, newOutgoing
  <2>2. Fn.local \in UNION {{fn.local, fn.outgoing} : fn \in Functions}
        /\ Fn.outgoing \in UNION {{fn.local, fn.outgoing} : fn \in Functions}
    BY <1>3
  <2>. QED  BY <2>1, <2>2 DEF SlotMaps
<1>6. DOMAIN newLocal = Slots(Fn.local) /\ DOMAIN newOutgoing = Slots(Fn.outgoing)
  OBVIOUS
<1>7. /\ \A s \in Slots(Fn.local) : newLocal[s] = mem[LocalAt(Fn, Top.sp, s)]
      /\ \A s \in Slots(Fn.outgoing) : newOutgoing[s] = mem[OutgoingAt(Fn, Top.sp, s)]
  BY <1>4
<1> HIDE DEF newLocal, newOutgoing
<1>8. /\ g \in Frame /\ g.fn = Fn /\ g.sp = Top.sp /\ g.fp = Top.fp /\ g.lr = Top.lr
      /\ g.regs = Top.regs /\ g.local = newLocal /\ g.outgoing = newOutgoing
  BY <1>3, <1>5 DEF Frame
<1>9. frames' = [frames EXCEPT ![n] = g]
  BY <1>1
<1> HIDE DEF g
<1>10. /\ FramesInv' /\ Len(frames') = n /\ frames'[n] = g
       /\ \A j \in 1..n : j # n => frames'[j] = frames[j]
  BY <1>3, <1>6, <1>8, <1>9, FrameUpdate DEF IInv
<1>11. Top' = g /\ Fn' = Fn
  BY <1>8, <1>10 DEF Top, Fn
<1>12. WaitingInv'
  <2> SUFFICES ASSUME NEW k \in 1..n-1
               PROVE  /\ PairHeld(mem, frames'[k])
                      /\ SavesHeld(mem, frames'[k], Len(Saved(frames'[k].fn)))
                      /\ SlotsHeld(mem, frames'[k])
                      /\ OthersKept(frames'[k], frames'[k+1].regs)
    BY <1>1, <1>10 DEF WaitingInv
  <2>1. k \in 1..n /\ k # n /\ k+1 \in 1..n
    BY <1>3
  <2>2. frames'[k] = frames[k] /\ frames'[k+1].regs = frames[k+1].regs
    BY <1>3, <1>8, <1>10, <2>1
  <2>. QED  BY <2>2 DEF IInv, WaitingInv
<1>13. PairHeld(mem, g) /\ SlotsHeld(mem, g) /\ OthersKept(g, regs)
  BY <1>2, <1>7, <1>8 DEF PairHeld, SlotsHeld, OthersKept
<1>14. SavesHeld(mem, g, Len(Saved(Fn)))
  <2>1. i - 1 = Len(Saved(Fn))
    BY <1>1, <1>2, <1>3, SavedFacts
  <2>. QED  BY <1>2, <1>3, <1>8, <2>1 DEF SavesHeld
<1>. QED  BY <1>1, <1>2, <1>8, <1>10, <1>11, <1>12, <1>13, <1>14 DEF IInv, RunningInv

LEMMA StepBeginEpilogue == IInv /\ BeginEpilogue => IInv'
<1> SUFFICES ASSUME IInv, BeginEpilogue PROVE IInv'
  OBVIOUS
<1>1. /\ pc = "body" /\ pc' = "restore" /\ i' = Len(Saved(Fn)) - 1
      /\ UNCHANGED <<mem, sp, fp, lr, regs, frames>>
  BY DEF BeginEpilogue
<1>2. FramesInv' /\ WaitingInv' /\ Top' = Top /\ Fn' = Fn
  BY <1>1, WaitingKept DEF IInv
<1>3. Len(Saved(Fn)) \in Nat /\ Len(Saved(Fn)) % 2 = 0
  BY FrameFacts, SavedFacts DEF IInv
<1>4. /\ i' \in Int /\ i' % 2 = 1 /\ i' <= Len(Saved(Fn)) - 1
      /\ \A j \in 1..Len(Saved(Fn)) : ~(j > i' + 1)
  BY <1>1, <1>3
<1>. QED  BY <1>1, <1>2, <1>4 DEF IInv, RunningInv

LEMMA StepRestorePair == IInv /\ RestorePair => IInv'
<1> SUFFICES ASSUME IInv, RestorePair PROVE IInv'
  OBVIOUS
<1> DEFINE a == Saved(Fn)[i]
           b == Saved(Fn)[i + 1]
           first == [regs EXCEPT ![a] = mem[fp + SaveOffset(i)]]
<1>1. /\ pc = "restore" /\ i >= 1 /\ i' = i - 2
      /\ regs' = [first EXCEPT ![b] = mem[fp + SaveOffset(i + 1)]]
      /\ UNCHANGED <<mem, sp, fp, lr, frames, pc>>
  BY DEF RestorePair
<1>2. FramesInv' /\ WaitingInv' /\ Top' = Top /\ Fn' = Fn
  BY <1>1, WaitingKept DEF IInv
<1>3. /\ fp = Top.sp - 16 /\ regs \in [CalleeSaved -> Int] /\ OthersKept(Top, regs)
      /\ SavesHeld(mem, Top, Len(Saved(Fn)))
      /\ i \in Int /\ i % 2 = 1 /\ i <= Len(Saved(Fn)) - 1
      /\ \A j \in 1..Len(Saved(Fn)) :
           j > i + 1 => regs[Saved(Fn)[j]] = Top.regs[Saved(Fn)[j]]
  BY <1>1 DEF IInv, RunningInv
<1>4. /\ Len(Saved(Fn)) \in Nat /\ Saved(Fn) \in Seq(CalleeSaved)
      /\ Fn = Top.fn /\ Top.regs \in [CalleeSaved -> Int]
  BY FrameFacts, SavedFacts DEF IInv, Frame
<1>5. /\ i \in 1..Len(Saved(Fn)) /\ i + 1 \in 1..Len(Saved(Fn))
      /\ i' \in Int /\ i' % 2 = 1 /\ i' <= Len(Saved(Fn)) - 1
      /\ \A j \in 1..Len(Saved(Fn)) : j > i' + 1 => j = i \/ j = i + 1 \/ j > i + 1
  <2>1. PICK len : len = Len(Saved(Fn))
    OBVIOUS
  <2>2. len \in Nat /\ i \in Int /\ i >= 1 /\ i <= len - 1 /\ i % 2 = 1 /\ i' = i - 2
    BY <1>1, <1>3, <1>4, <2>1
  <2>3. i \in 1..len /\ i + 1 \in 1..len /\ i' \in Int /\ i' <= len - 1
    BY <2>2
  <2>4. i' % 2 = 1
    BY <2>2
  <2>5. \A j \in 1..len : j > i' + 1 => j = i \/ j = i + 1 \/ j > i + 1
    BY <2>2
  <2>. QED  BY <2>1, <2>3, <2>4, <2>5
<1>6. a \in CalleeSaved /\ b \in CalleeSaved
  BY <1>4, <1>5
<1>7. mem[fp + SaveOffset(i)] = Top.regs[a] /\ mem[fp + SaveOffset(i + 1)] = Top.regs[b]
  BY <1>3, <1>4, <1>5 DEF SavesHeld, SaveAt
<1> HIDE DEF a, b
<1>8. /\ regs' \in [CalleeSaved -> Int] /\ regs'[a] = Top.regs[a] /\ regs'[b] = Top.regs[b]
      /\ \A r \in CalleeSaved : regs'[r] = regs[r] \/ regs'[r] = Top.regs[r]
  BY <1>1, <1>3, <1>4, <1>6, <1>7
<1>9. OthersKept(Top, regs')
  BY <1>3, <1>8 DEF OthersKept
<1>10. ASSUME NEW j \in 1..Len(Saved(Fn)), j > i' + 1
       PROVE  regs'[Saved(Fn)[j]] = Top.regs[Saved(Fn)[j]]
  <2>1. Saved(Fn)[j] \in CalleeSaved
    BY <1>4
  <2>2. CASE j = i \/ j = i + 1
    BY <1>8, <2>2 DEF a, b
  <2>3. CASE j > i + 1
    BY <1>3, <1>8, <2>1, <2>3
  <2>. QED  BY <1>5, <1>10, <2>2, <2>3
<1>. QED  BY <1>1, <1>2, <1>5, <1>8, <1>9, <1>10 DEF IInv, RunningInv

LEMMA StepRestoreFP == IInv /\ RestoreFPAndLR => IInv'
<1> SUFFICES ASSUME IInv, RestoreFPAndLR PROVE IInv'
  OBVIOUS
<1>1. /\ pc = "restore" /\ i < 1 /\ pc' = "add" /\ UNCHANGED <<mem, sp, regs, frames, i>>
      /\ fp' = mem[sp + fpSaveOffset(Fn)] /\ lr' = mem[sp + fpSaveOffset(Fn) + 8]
  BY DEF RestoreFPAndLR
<1>2. FramesInv' /\ WaitingInv' /\ Top' = Top /\ Fn' = Fn
  BY <1>1, WaitingKept DEF IInv
<1>3. /\ sp = Top.sp - TotalSize(Fn) /\ PairHeld(mem, Top)
      /\ regs \in [CalleeSaved -> Int] /\ OthersKept(Top, regs)
      /\ i \in Int /\ i % 2 = 1
      /\ \A j \in 1..Len(Saved(Fn)) :
           j > i + 1 => regs[Saved(Fn)[j]] = Top.regs[Saved(Fn)[j]]
  BY <1>1 DEF IInv, RunningInv
<1>4. /\ Len(Saved(Fn)) \in Nat /\ Fn = Top.fn /\ Top.regs \in [CalleeSaved -> Int] /\ Top.lr \in Nat
      /\ \A r \in Range(Fn.used) : \E j \in 1..Len(Saved(Fn)) : Saved(Fn)[j] = r
  BY FrameFacts, SavedFacts DEF IInv, Frame
<1>5. sp + fpSaveOffset(Fn) = Top.sp - 16 /\ sp + fpSaveOffset(Fn) + 8 = Top.sp - 8
  BY <1>3, FrameFacts DEF IInv, fpSaveOffset
<1>6. fp' = Top.fp /\ lr' = Top.lr
  BY <1>1, <1>3, <1>5 DEF PairHeld
<1>7. regs = Top.regs
  <2>1. \A j \in 1..Len(Saved(Fn)) : j > i + 1
    BY <1>1, <1>3, <1>4
  <2>2. \A r \in CalleeSaved : regs[r] = Top.regs[r]
    BY <1>3, <1>4, <2>1 DEF OthersKept
  <2>. QED  BY <1>3, <1>4, <2>2
<1>. QED  BY <1>1, <1>2, <1>4, <1>6, <1>7 DEF IInv, RunningInv

LEMMA StepFree == IInv /\ FreeFrame => IInv'
<1> SUFFICES ASSUME IInv, FreeFrame PROVE IInv'
  OBVIOUS
<1>1. /\ pc = "add" /\ pc' = "ret" /\ sp' = sp + TotalSize(Fn)
      /\ UNCHANGED <<mem, fp, lr, regs, frames, i>>
  BY DEF FreeFrame
<1>2. FramesInv' /\ WaitingInv' /\ Top' = Top /\ Fn' = Fn
  BY <1>1, WaitingKept DEF IInv
<1>3. sp' = Top.sp
  <2>1. sp = Top.sp - TotalSize(Fn)
    BY <1>1 DEF IInv, RunningInv
  <2>. QED  BY <1>1, <2>1, FrameFacts DEF IInv
<1>. QED  BY <1>1, <1>2, <1>3 DEF IInv, RunningInv

LEMMA StepStutter == IInv /\ UNCHANGED vars => IInv'
<1> SUFFICES ASSUME IInv, UNCHANGED vars PROVE IInv'
  OBVIOUS
<1>1. UNCHANGED <<mem, sp, fp, lr, regs, frames, pc, i>>
  BY DEF vars
<1>2. FramesInv' /\ WaitingInv' /\ Top' = Top /\ Fn' = Fn
  BY <1>1, WaitingKept DEF IInv
<1>. QED  BY <1>1, <1>2 DEF IInv, RunningInv

-----------------------------------------------------------------------------
(***************************************************************************)
(* Activations begin and end.                                              *)
(***************************************************************************)
LEMMA ActivationFacts ==
  ASSUME NEW fn \in Functions, NEW sp0 \in Nat, NEW fp0 \in Int, NEW lr0 \in Nat,
         NEW regs0 \in [CalleeSaved -> Int]
  PROVE  LET g == Activation(fn, sp0, fp0, lr0, regs0)
         IN  /\ g \in Frame /\ g.fn = fn /\ g.sp = sp0 /\ g.fp = fp0 /\ g.lr = lr0
             /\ g.regs = regs0
             /\ DOMAIN g.local = Slots(fn.local) /\ DOMAIN g.outgoing = Slots(fn.outgoing)
<1> DEFINE g == Activation(fn, sp0, fp0, lr0, regs0)
           zl == [s \in Slots(fn.local) |-> 0]
           zo == [s \in Slots(fn.outgoing) |-> 0]
<1>1. g = [fn |-> fn, sp |-> sp0, fp |-> fp0, lr |-> lr0, regs |-> regs0,
           local |-> zl, outgoing |-> zo]
  BY DEF Activation
<1>2. zl \in SlotMaps /\ zo \in SlotMaps
  <2>1. zl \in [Slots(fn.local) -> Int] /\ zo \in [Slots(fn.outgoing) -> Int]
    OBVIOUS
  <2> HIDE DEF zl, zo
  <2>2. /\ fn.local \in UNION {{f.local, f.outgoing} : f \in Functions}
        /\ fn.outgoing \in UNION {{f.local, f.outgoing} : f \in Functions}
    OBVIOUS
  <2>. QED  BY <2>1, <2>2 DEF SlotMaps
<1>3. DOMAIN zl = Slots(fn.local) /\ DOMAIN zo = Slots(fn.outgoing)
  OBVIOUS
<1> HIDE DEF zl, zo, g
<1>4. /\ g \in Frame /\ g.fn = fn /\ g.sp = sp0 /\ g.fp = fp0 /\ g.lr = lr0
      /\ g.regs = regs0 /\ g.local = zl /\ g.outgoing = zo
  BY <1>1, <1>2 DEF Frame
<1>. QED  BY <1>3, <1>4 DEF g

LEMMA InitHolds == Init => IInv
<1> SUFFICES ASSUME Init PROVE IInv
  OBVIOUS
<1>1. /\ mem = [a \in Addresses |-> 0] /\ sp = StackTop /\ fp = StackTop /\ lr = 0
      /\ regs \in [CalleeSaved -> Value] /\ pc = "sub"
  BY DEF Init
<1>2. PICK fn \in Functions :
        fn.incoming = 0 /\ Fits(fn) /\ frames = <<Activation(fn, sp, fp, lr, regs)>>
  BY DEF Init
<1>3. /\ sp \in Nat /\ fp \in Int /\ lr \in Nat /\ regs \in [CalleeSaved -> Int]
      /\ StackTop \in Nat /\ StackTop % 16 = 0
  <2>1. StackTop \in Nat /\ StackTop % 16 = 0 /\ Value \subseteq Int
    BY StackAssumption DEF StackAlignment
  <2>2. regs \in [CalleeSaved -> Int]
    BY <1>1, <2>1
  <2>. QED  BY <1>1, <2>1, <2>2
<1> DEFINE g == Activation(fn, sp, fp, lr, regs)
<1>4. /\ g \in Frame /\ g.fn = fn /\ g.sp = sp /\ g.fp = fp /\ g.lr = lr /\ g.regs = regs
      /\ DOMAIN g.local = Slots(fn.local) /\ DOMAIN g.outgoing = Slots(fn.outgoing)
  BY <1>3, ActivationFacts
<1>5. frames = <<g>>
  BY <1>2
<1> HIDE DEF g
<1>6. frames \in Seq(Frame) /\ Len(frames) = 1 /\ frames[1] = g
  BY <1>4, <1>5
<1>7. FitsBelow(fn, sp)
  BY <1>1, <1>2, <1>3 DEF FitsBelow, Fits
<1>8. 1..Len(frames) = {1} /\ 1..1-1 = {} /\ 2..Len(frames) = {} /\ 1..Len(frames)-1 = {}
  BY <1>6
<1>9. FramesInv
  <2>1. \A k \in 1..Len(frames) : k = 1
    BY <1>8
  <2>2. frames[1].lr = 1 - 1
    BY <1>1, <1>4, <1>6
  <2>3. frames[1].fn.incoming = 0 /\ FitsBelow(frames[1].fn, frames[1].sp)
    BY <1>2, <1>4, <1>6, <1>7
  <2>4. DOMAIN frames[1].local = Slots(frames[1].fn.local)
        /\ DOMAIN frames[1].outgoing = Slots(frames[1].fn.outgoing)
    BY <1>4, <1>6
  <2>5. Len(frames) >= 1
    BY <1>6
  <2>. QED  BY <1>6, <1>8, <2>1, <2>2, <2>3, <2>4, <2>5 DEF FramesInv
<1>10. WaitingInv
  BY <1>8 DEF WaitingInv
<1>11. Top = g /\ Fn = fn
  BY <1>4, <1>6 DEF Top, Fn
<1>12. mem \in [Addresses -> Int]
  BY <1>1
<1>. QED  BY <1>1, <1>3, <1>4, <1>9, <1>10, <1>11, <1>12 DEF IInv, RunningInv

LEMMA StepCall == IInv /\ Call => IInv'
<1> SUFFICES ASSUME IInv, Call PROVE IInv'
  OBVIOUS
<1> DEFINE n == Len(frames)
<1>1. /\ pc = "body" /\ lr' = n /\ pc' = "sub" /\ UNCHANGED <<mem, sp, fp, regs, i>>
  BY DEF Call
<1>2. PICK fn \in Functions :
        /\ fn.incoming <= Fn.outgoing /\ Fits(fn)
        /\ frames' = Append(frames, Activation(fn, sp, fp, lr', regs))
  BY DEF Call
<1>3. /\ mem \in [Addresses -> Int] /\ regs \in [CalleeSaved -> Int]
      /\ sp = Top.sp - TotalSize(Fn) /\ fp = Top.sp - 16
      /\ PairHeld(mem, Top) /\ SavesHeld(mem, Top, Len(Saved(Fn))) /\ SlotsHeld(mem, Top)
      /\ OthersKept(Top, regs)
  BY <1>1 DEF IInv, RunningInv
<1>4. /\ n \in Nat \ {0} /\ n \in 1..n /\ frames[n] = Top /\ Top.fn = Fn /\ Fn \in Functions
      /\ FitsBelow(Fn, Top.sp) /\ frames \in Seq(Frame) /\ Top.sp \in Nat /\ TotalSize(Fn) \in Nat
  BY FrameFacts DEF IInv, Top, FramesInv
<1>5. sp \in Nat /\ fp \in Int /\ sp % 16 = 0 /\ sp <= StackTop
  <2>1. PICK t, u : t = Top.sp /\ u = TotalSize(Fn)
    OBVIOUS
  <2>2. /\ t \in Nat /\ u \in Nat /\ t % 16 = 0 /\ u <= t /\ t <= StackTop /\ u % 16 = 0
        /\ StackTop \in Nat
    BY <1>4, <2>1, LayoutFacts, StackAssumption DEF FitsBelow
  <2>3. sp = t - u /\ fp = t - 16
    BY <1>3, <2>1
  <2>. QED  BY <2>2, <2>3
<1>6. FitsBelow(fn, sp)
  BY <1>2, <1>5 DEF FitsBelow, Fits
<1> DEFINE g == Activation(fn, sp, fp, n, regs)
<1>7. /\ g \in Frame /\ g.fn = fn /\ g.sp = sp /\ g.fp = fp /\ g.lr = n /\ g.regs = regs
      /\ DOMAIN g.local = Slots(fn.local) /\ DOMAIN g.outgoing = Slots(fn.outgoing)
  <2> HIDE DEF n
  <2>1. /\ fn \in Functions /\ sp \in Nat /\ fp \in Int /\ n \in Nat
        /\ regs \in [CalleeSaved -> Int]
    BY <1>2, <1>3, <1>4, <1>5
  <2>. QED  BY <2>1, ActivationFacts
<1>8. frames' = Append(frames, g)
  BY <1>1, <1>2
<1> HIDE DEF g
<1>9. /\ frames' \in Seq(Frame) /\ Len(frames') = n + 1 /\ frames'[n + 1] = g
      /\ \A k \in 1..n : frames'[k] = frames[k]
  BY <1>4, <1>7, <1>8, AppendProperties
<1> HIDE DEF n
<1>10. FramesInv'
  <2>1. /\ FramesInv
        /\ \A k \in 1..n + 1 : k \in 1..n \/ k = n + 1
        /\ \A k \in 1..n + 1 : \A j \in 1..k-1 : j \in 1..n
        /\ \A k \in 2..n + 1 : k-1 \in 1..n /\ (k \in 2..n \/ k = n + 1)
        /\ 1 \in 1..n /\ n + 1 - 1 = n
    BY <1>4 DEF IInv
  <2>2. ASSUME NEW k \in 1..n
        PROVE  /\ FitsBelow(frames'[k].fn, frames'[k].sp)
               /\ DOMAIN frames'[k].local = Slots(frames'[k].fn.local)
               /\ DOMAIN frames'[k].outgoing = Slots(frames'[k].fn.outgoing)
               /\ frames'[k].lr = k - 1
               /\ \A j \in 1..k-1 : frames'[k].sp <= frames'[j].sp - TotalSize(frames'[j].fn)
    <3>1. k \in 1..n + 1 /\ \A j \in 1..k-1 : j \in 1..n
      BY <1>4, <2>1
    <3>2. frames'[k] = frames[k] /\ \A j \in 1..k-1 : frames'[j] = frames[j]
      BY <1>9, <3>1
    <3>. QED  BY <2>1, <3>2 DEF FramesInv, n
  <2>3. ASSUME NEW j \in 1..n
        PROVE  sp <= frames'[j].sp - TotalSize(frames'[j].fn)
    <3>1. PICK t, u, v, w : /\ t = frames[j].sp /\ u = TotalSize(frames[j].fn)
                            /\ v = Top.sp /\ w = TotalSize(Fn)
      OBVIOUS
    <3>2. t \in Nat /\ u \in Nat /\ v \in Nat /\ w \in Nat /\ sp = v - w
      BY <1>3, <2>1, <3>1, FrameFacts DEF n
    <3>3. CASE j = n
      BY <1>3, <1>4, <1>9, <3>1, <3>2, <3>3
    <3>4. CASE j # n
      <4>1. j \in 1..n-1
        BY <1>4, <3>4
      <4>2. v <= t - u
        BY <1>4, <2>1, <3>1, <4>1 DEF FramesInv, n
      <4>3. sp <= t - u
        BY <3>2, <4>2
      <4>. QED  BY <1>9, <3>1, <4>3
    <3>. QED  BY <3>3, <3>4
  <2>4. ASSUME NEW k \in 2..n
        PROVE  /\ frames'[k].sp = frames'[k-1].sp - TotalSize(frames'[k-1].fn)
               /\ frames'[k].fp = frames'[k-1].sp - 16
               /\ frames'[k].fn.incoming <= frames'[k-1].fn.outgoing
    <3>1. k \in 1..n /\ k-1 \in 1..n
      BY <1>4
    <3>2. frames'[k] = frames[k] /\ frames'[k-1] = frames[k-1]
      BY <1>9, <3>1
    <3>. QED  BY <2>1, <3>2 DEF FramesInv, n
  <2>5. frames'[1].fn.incoming = 0 /\ Len(frames') >= 1
    BY <1>4, <1>9, <2>1 DEF FramesInv
  <2>6. frames'[n] = Top
    BY <1>4, <1>9
  <2>7. ASSUME NEW k \in 1..n + 1
        PROVE  /\ FitsBelow(frames'[k].fn, frames'[k].sp)
               /\ DOMAIN frames'[k].local = Slots(frames'[k].fn.local)
               /\ DOMAIN frames'[k].outgoing = Slots(frames'[k].fn.outgoing)
               /\ frames'[k].lr = k - 1
               /\ \A j \in 1..k-1 : frames'[k].sp <= frames'[j].sp - TotalSize(frames'[j].fn)
    <3>1. CASE k = n + 1
      <4>1. k - 1 = n
        <5>1. n \in Nat
          BY <1>4
        <5>. QED  BY <3>1, <5>1
      <4>2. frames'[k] = g
        BY <1>9, <3>1
      <4>3. frames'[k].lr = k - 1
        BY <1>7, <4>1, <4>2
      <4>4. \A j \in 1..k-1 : j \in 1..n
        BY <2>1
      <4>. QED  BY <1>6, <1>7, <2>3, <4>2, <4>3, <4>4
    <3>. QED  BY <2>1, <2>2, <3>1
  <2>8. ASSUME NEW k \in 2..n + 1
        PROVE  /\ frames'[k].sp = frames'[k-1].sp - TotalSize(frames'[k-1].fn)
               /\ frames'[k].fp = frames'[k-1].sp - 16
               /\ frames'[k].fn.incoming <= frames'[k-1].fn.outgoing
    <3>1. CASE k = n + 1
      BY <1>2, <1>3, <1>4, <1>7, <1>9, <2>1, <2>6, <3>1
    <3>. QED  BY <2>1, <2>4, <3>1
  <2>. QED  BY <1>9, <2>5, <2>7, <2>8 DEF FramesInv
<1>11. Top' = g /\ Fn' = fn
  BY <1>7, <1>9 DEF Top, Fn
<1>12. WaitingInv'
  <2> SUFFICES ASSUME NEW k \in 1..n
               PROVE  /\ PairHeld(mem, frames'[k])
                      /\ SavesHeld(mem, frames'[k], Len(Saved(frames'[k].fn)))
                      /\ SlotsHeld(mem, frames'[k])
                      /\ OthersKept(frames'[k], frames'[k+1].regs)
    <3>1. Len(frames')-1 = n
      BY <1>4, <1>9
    <3>. QED  BY <1>1, <3>1 DEF WaitingInv
  <2>1. CASE k = n
    BY <1>3, <1>4, <1>7, <1>9, <2>1
  <2>2. CASE k # n
    <3>1. k \in 1..n-1 /\ k+1 \in 1..n
      BY <1>4, <2>2
    <3>2. frames'[k] = frames[k] /\ frames'[k+1] = frames[k+1]
      BY <1>9, <3>1
    <3>. QED  BY <3>1, <3>2 DEF IInv, WaitingInv, n
  <2>. QED  BY <2>1, <2>2
<1>13. lr' \in Nat /\ lr' = n
  BY <1>1, <1>4 DEF n
<1>. QED  BY <1>1, <1>3, <1>7, <1>10, <1>11, <1>12, <1>13 DEF IInv, RunningInv

LEMMA StepReturn == IInv /\ Return => IInv'
<1> SUFFICES ASSUME IInv, Return PROVE IInv'
  OBVIOUS
<1> DEFINE n == Len(frames)
<1>1. /\ pc = "ret" /\ lr # 0 /\ frames' = SubSeq(frames, 1, lr) /\ pc' = "body"
      /\ UNCHANGED <<mem, sp, fp, lr, regs, i>>
  BY DEF Return
<1>2. /\ sp = Top.sp /\ fp = Top.fp /\ lr = Top.lr /\ regs = Top.regs
      /\ mem \in [Addresses -> Int] /\ regs \in [CalleeSaved -> Int] /\ lr \in Nat
  BY <1>1 DEF IInv, RunningInv
<1>3. FramesInv /\ n \in Nat \ {0} /\ n \in 1..n /\ frames[n] = Top /\ frames \in Seq(Frame)
  BY FrameFacts DEF IInv, Top, FramesInv
<1>4. lr = n - 1
  BY <1>2, <1>3 DEF FramesInv
<1> DEFINE p == n - 1
<1>5. p \in Nat \ {0} /\ p \in 1..n /\ n \in 2..n /\ p + 1 = n /\ p \in 1..n-1
  BY <1>1, <1>3, <1>4
<1>6. /\ frames' \in Seq(Frame) /\ Len(frames') = p
      /\ \A k \in 1..p : k \in 1..n /\ frames'[k] = frames[k]
  <2>1. frames' = SubSeq(frames, 1, p)
    BY <1>1, <1>4
  <2>. QED  BY <1>3, <1>5, <2>1
<1>7. FramesInv'
  <2>1. \A k \in 1..p : \A j \in 1..k-1 : j \in 1..p
    BY <1>5
  <2>2. \A k \in 2..p : k \in 1..p /\ k-1 \in 1..p /\ k \in 2..n
    BY <1>5
  <2>3. 1 \in 1..p /\ Len(frames') >= 1
    BY <1>5, <1>6
  <2> HIDE DEF p, n
  <2>4. ASSUME NEW k \in 1..p
        PROVE  /\ FitsBelow(frames'[k].fn, frames'[k].sp)
               /\ DOMAIN frames'[k].local = Slots(frames'[k].fn.local)
               /\ DOMAIN frames'[k].outgoing = Slots(frames'[k].fn.outgoing)
               /\ frames'[k].lr = k - 1
               /\ \A j \in 1..k-1 : frames'[k].sp <= frames'[j].sp - TotalSize(frames'[j].fn)
    <3>1. frames'[k] = frames[k] /\ k \in 1..n /\ \A j \in 1..k-1 : frames'[j] = frames[j]
      BY <1>6, <2>1
    <3>. QED  BY <1>3, <3>1 DEF FramesInv, n
  <2>5. ASSUME NEW k \in 2..p
        PROVE  /\ frames'[k].sp = frames'[k-1].sp - TotalSize(frames'[k-1].fn)
               /\ frames'[k].fp = frames'[k-1].sp - 16
               /\ frames'[k].fn.incoming <= frames'[k-1].fn.outgoing
    <3>1. frames'[k] = frames[k] /\ frames'[k-1] = frames[k-1] /\ k \in 2..n
      BY <1>6, <2>2
    <3>. QED  BY <1>3, <3>1 DEF FramesInv, n
  <2>6. frames'[1].fn.incoming = 0
    BY <1>3, <1>6, <2>3 DEF FramesInv
  <2>. QED  BY <1>6, <2>3, <2>4, <2>5, <2>6 DEF FramesInv
<1> HIDE DEF p
<1>8. /\ PairHeld(mem, frames[p]) /\ SavesHeld(mem, frames[p], Len(Saved(frames[p].fn)))
      /\ SlotsHeld(mem, frames[p]) /\ OthersKept(frames[p], regs)
  BY <1>2, <1>3, <1>5 DEF IInv, WaitingInv
<1>9. sp = frames[p].sp - TotalSize(frames[p].fn) /\ fp = frames[p].sp - 16
  <2>1. /\ frames[n].sp = frames[n-1].sp - TotalSize(frames[n-1].fn)
        /\ frames[n].fp = frames[n-1].sp - 16
    BY <1>3, <1>5 DEF FramesInv
  <2>. QED  BY <1>2, <1>3, <2>1 DEF p
<1>10. Top' = frames[p] /\ Fn' = frames[p].fn
  <2>1. p \in 1..p
    BY <1>5
  <2>. QED  BY <1>6, <2>1 DEF Top, Fn
<1>11. WaitingInv'
  <2> SUFFICES ASSUME NEW k \in 1..p-1
               PROVE  /\ PairHeld(mem, frames'[k])
                      /\ SavesHeld(mem, frames'[k], Len(Saved(frames'[k].fn)))
                      /\ SlotsHeld(mem, frames'[k])
                      /\ OthersKept(frames'[k], frames'[k+1].regs)
    BY <1>1, <1>6 DEF WaitingInv
  <2>1. k \in 1..p /\ k+1 \in 1..p /\ k \in 1..n-1
    BY <1>5 DEF p
  <2>2. frames'[k] = frames[k] /\ frames'[k+1] = frames[k+1]
    BY <1>6, <2>1
  <2>. QED  BY <2>1, <2>2 DEF IInv, WaitingInv
<1>. QED  BY <1>1, <1>2, <1>7, <1>8, <1>9, <1>10, <1>11 DEF IInv, RunningInv

-----------------------------------------------------------------------------
(***************************************************************************)
(* The operands of an instruction.                                         *)
(***************************************************************************)
\* Operands in slots have a temporary register each, their own.
LEMMA TempsApart ==
  ASSUME NEW inst, IsInstr(inst), ~Panics(inst)
  PROVE  /\ \A j \in SlotOperands(inst) :
              /\ TempIndex(inst, j) \in 1..2
              /\ ensureInReg(inst, j) = stackingTempRegs[TempIndex(inst, j)]
         /\ \A j, m \in SlotOperands(inst) : ensureInReg(inst, j) = ensureInReg(inst, m) => j = m
<1> DEFINE ops == Operands(inst)
           slots == SlotOperands(inst)
<1>1. DOMAIN ops = 1..Len(ops) /\ Len(ops) \in Nat
  BY LocationsOf
<1>2. slots \in SUBSET (1..Len(ops)) /\ slots \in SUBSET Nat /\ IsFiniteSet(slots)
  <2>1. slots \in SUBSET (1..Len(ops))
    BY <1>1 DEF SlotOperands
  <2>2. 1 \in Int /\ Len(ops) \in Int
    BY <1>1
  <2>3. IsFiniteSet(1..Len(ops))
    BY <2>2, FS_Interval
  <2> HIDE DEF slots
  <2>4. IsFiniteSet(slots)
    BY <2>1, <2>3, FS_Subset
  <2>5. slots \in SUBSET Nat
    BY <1>1, <2>1
  <2>. QED  BY <2>1, <2>4, <2>5
<1>3. ASSUME NEW j \in slots, inst.k = "Lop" PROVE TempIndex(inst, j) = Rank(slots, j)
  <2>1. PICK a : a = inst.args
    OBVIOUS
  <2>2. a \in Seq(Range(a)) /\ inst.src = <<>>
    BY <1>3, <2>1 DEF IsInstr, IsSeq
  <2>3. ops = a
    <3>1. a \o <<>> = a
      BY <2>2, ConcatEmptySeq
    <3>. QED  BY <2>1, <2>2, <3>1 DEF Operands
  <2>4. TempIndex(inst, j) = Cardinality({m \in 1..j : ~InReg(a[m])})
    BY <1>3, <2>1 DEF TempIndex
  <2>5. slots = {m \in 1..Len(a) : ~InReg(a[m])}
    BY <1>1, <2>3 DEF SlotOperands
  <2>6. {m \in 1..j : ~InReg(a[m])} = {m \in slots : m <= j}
    <3>1. j \in 1..Len(a) /\ Len(a) \in Nat
      BY <1>1, <1>2, <2>3
    <3>2. \A m : m \in 1..j <=> m \in 1..Len(a) /\ m <= j
      BY <3>1
    <3>. QED  BY <2>5, <3>2
  <2>. QED  BY <2>4, <2>6 DEF Rank
<1>4. /\ \A j \in slots : Rank(slots, j) \in Nat /\ Rank(slots, j) >= 1
      /\ \A j, m \in slots : Rank(slots, j) = Rank(slots, m) => j = m
  <2> HIDE DEF slots
  <2>1. /\ Cardinality(slots) \in Nat
        /\ \A j \in slots : Rank(slots, j) \in 1..Cardinality(slots)
        /\ \A j, m \in slots : Rank(slots, j) = Rank(slots, m) => j = m
    BY <1>2, Ranks
  <2>. QED  BY <2>1
<1>5. \A j \in slots : TempIndex(inst, j) = IF inst.k = "Lop" THEN Rank(slots, j) ELSE j
  BY <1>3 DEF TempIndex
<1>6. \A j \in slots : j \in Nat /\ j >= 1
  BY <1>1, <1>2
<1>7. ASSUME NEW j \in slots
      PROVE  TempIndex(inst, j) \in 1..2 /\ ensureInReg(inst, j) = stackingTempRegs[TempIndex(inst, j)]
  <2>1. TempIndex(inst, j) \in Nat /\ TempIndex(inst, j) >= 1
    BY <1>4, <1>5, <1>6
  <2>2. j \in DOMAIN ops /\ ~InReg(ops[j])
    BY DEF SlotOperands
  <2>3. Len(stackingTempRegs) = 2
    BY DEF stackingTempRegs
  <2>4. ~(TempIndex(inst, j) > 2)
    BY <2>2, <2>3 DEF Panics
  <2>. QED  BY <2>1, <2>2, <2>4 DEF ensureInReg
<1>8. ASSUME NEW j \in slots, NEW m \in slots, ensureInReg(inst, j) = ensureInReg(inst, m)
      PROVE  j = m
  <2>1. PICK x, y : x = TempIndex(inst, j) /\ y = TempIndex(inst, m)
    OBVIOUS
  <2>2. x \in 1..2 /\ y \in 1..2 /\ stackingTempRegs[x] = stackingTempRegs[y]
    BY <1>7, <1>8, <2>1
  <2>3. stackingTempRegs[1] # stackingTempRegs[2]
    BY DEF stackingTempRegs
  <2>4. x = y
    BY <2>2, <2>3
  <2>. QED  BY <1>4, <1>5, <2>1, <2>4
<1>. QED  BY <1>7, <1>8

LEMMA OperandLoaded ==
  ASSUME NEW inst, IsInstr(inst), ~Panics(inst), NEW j \in DOMAIN Operands(inst)
  PROVE  Seen(inst)[j] =
           IF InReg(Operands(inst)[j]) THEN regs[Operands(inst)[j][2]]
           ELSE mem[fp + TranslateSlotOffset(Fn, Operands(inst)[j])]
<1> DEFINE loads(r) == {m \in SlotOperands(inst) : ensureInReg(inst, m) = r}
<1>1. Seen(inst)[j] = LoadOperands(inst)[ensureInReg(inst, j)]
  BY DEF Seen
<1>2. ASSUME NEW r \in CalleeSaved \cup Range(stackingTempRegs)
      PROVE  LoadOperands(inst)[r] =
               IF loads(r) # {} THEN mem[fp + TranslateSlotOffset(Fn, Operands(inst)[Max(loads(r))])]
               ELSE IF r \in CalleeSaved THEN regs[r] ELSE 0
  BY DEF LoadOperands
<1>3. \A x \in 1..2 : stackingTempRegs[x] \in Range(stackingTempRegs)
  BY DEF Range, stackingTempRegs
<1>4. CASE InReg(Operands(inst)[j])
  <2>1. PICK r \in CalleeSaved : Operands(inst)[j] = R(r)
    <3>1. IsLocation(Operands(inst)[j])
      BY LocationsOf DEF IsInstr
    <3>2. Operands(inst)[j][1] = "R"
      BY <1>4 DEF InReg
    <3>. QED  BY <3>1, <3>2 DEF IsLocation
  <2>2. Operands(inst)[j][2] = r /\ ensureInReg(inst, j) = r
    BY <1>4, <2>1 DEF ensureInReg, R
  <2>3. loads(r) = {}
    <3> SUFFICES ASSUME NEW m \in SlotOperands(inst), ensureInReg(inst, m) = r PROVE FALSE
      OBVIOUS
    <3>1. r \in Range(stackingTempRegs)
      BY <1>3, TempsApart
    <3>. QED  BY <3>1, StackAssumption
  <2> HIDE DEF loads
  <2>. QED  BY <1>1, <1>2, <1>4, <2>2, <2>3
<1>5. CASE ~InReg(Operands(inst)[j])
  <2>1. j \in SlotOperands(inst)
    BY <1>5 DEF SlotOperands
  <2>2. PICK r : r = ensureInReg(inst, j)
    OBVIOUS
  <2>3. r \in Range(stackingTempRegs)
    BY <1>3, <2>1, <2>2, TempsApart
  <2>4. loads(r) = {j}
    <3>1. \A m \in SlotOperands(inst) : ensureInReg(inst, m) = r => m = j
      BY <2>1, <2>2, TempsApart
    <3>. QED  BY <2>1, <2>2, <3>1
  <2>5. Max({j}) = j
    <3>1. j \in Nat
      BY LocationsOf
    <3>. QED  BY <3>1 DEF Max
  <2> HIDE DEF loads
  <2>. QED  BY <1>1, <1>2, <1>5, <2>2, <2>3, <2>4, <2>5
<1>. QED  BY <1>4, <1>5

\* The stack arguments of the running function are outgoing slots of its caller.
LEMMA IncomingSlots ==
  ASSUME IInv, pc = "body", NEW s \in Slots(Fn.incoming)
  PROVE  LET p == Len(frames) - 1
         IN  /\ p \in 1..Len(frames) - 1 /\ p \in 1..Len(frames) /\ p < Len(frames)
             /\ s \in Slots(frames[p].fn.outgoing)
             /\ fp + IncomingSlotOffset(s) = OutgoingAt(frames[p].fn, frames[p].sp, s)
<1> DEFINE n == Len(frames)
           p == n - 1
<1>1. FramesInv /\ n \in Nat \ {0} /\ Top = frames[n] /\ Fn = Top.fn /\ Fn \in Functions
  BY FrameFacts DEF IInv, Top
<1>2. fp = Top.sp - 16
  BY DEF IInv, RunningInv
<1>3. Fn.incoming \in Nat
  BY <1>1, FunctionFacts
<1>4. s \in Nat /\ s % 8 = 0 /\ s + 8 <= Fn.incoming
  <2>1. PICK b : b = Fn.incoming
    OBVIOUS
  <2>2. b \in Nat /\ s \in Slots(b)
    BY <1>3, <2>1
  <2>. QED  BY <2>1, <2>2, SlotFacts
<1>5. n # 1
  <2>1. Fn.incoming # 0
    BY <1>3, <1>4
  <2>2. frames[1].fn.incoming = 0
    BY <1>1 DEF FramesInv
  <2>. QED  BY <1>1, <2>1, <2>2
<1>6. p \in 1..n - 1 /\ p \in 1..n /\ p < n /\ n \in 2..n
  <2>1. n \in Nat /\ n # 0 /\ n # 1
    BY <1>1, <1>5
  <2> HIDE DEF n
  <2>. QED  BY <2>1
<1>7. /\ Top.sp = frames[p].sp - TotalSize(frames[p].fn)
      /\ Fn.incoming <= frames[p].fn.outgoing
  BY <1>1, <1>6 DEF FramesInv
<1>8. FitsBelow(frames[p].fn, frames[p].sp) /\ frames[p].fn.outgoing \in Nat
  BY <1>1, <1>6, FrameFacts, FunctionFacts
<1>9. s \in Slots(frames[p].fn.outgoing)
  <2>1. PICK b, c : b = Fn.incoming /\ c = frames[p].fn.outgoing
    OBVIOUS
  <2>2. b \in Nat /\ c \in Nat /\ b <= c /\ s \in Slots(b)
    BY <1>3, <1>7, <1>8, <2>1
  <2>3. PICK k \in 0..(b \div 8) - 1 : s = 8 * k
    BY <2>2 DEF Slots
  <2>4. b \div 8 <= c \div 8
    BY <2>2
  <2>5. k \in 0..(c \div 8) - 1
    BY <2>2, <2>3, <2>4
  <2>. QED  BY <2>1, <2>3, <2>5 DEF Slots
<1>10. OutgoingAt(frames[p].fn, frames[p].sp, s) = frames[p].sp - TotalSize(frames[p].fn) + s
  BY <1>8, <1>9, Areas
<1>11. Top.sp \in Nat
  BY <1>1, FrameFacts
<1>12. fp + IncomingSlotOffset(s) = Top.sp + s
  <2>1. PICK t : t = Top.sp
    OBVIOUS
  <2>. QED  BY <1>2, <1>4, <1>11, <2>1 DEF IncomingSlotOffset
<1>13. fp + IncomingSlotOffset(s) = OutgoingAt(frames[p].fn, frames[p].sp, s)
  BY <1>7, <1>10, <1>12
<1>. QED  BY <1>6, <1>9, <1>13

\* Where each kind of slot is, and that it holds what was last written to it.
LEMMA SlotRead ==
  ASSUME IInv, pc = "body"
  PROVE  /\ \A s \in Slots(Fn.local) :
              /\ fp + TranslateSlotOffset(Fn, S("local", s)) = LocalAt(Fn, Top.sp, s)
              /\ mem[LocalAt(Fn, Top.sp, s)] = Read(S("local", s))
         /\ \A s \in Slots(Fn.outgoing) :
              /\ fp + TranslateSlotOffset(Fn, S("outgoing", s)) = OutgoingAt(Fn, Top.sp, s)
              /\ mem[OutgoingAt(Fn, Top.sp, s)] = Read(S("outgoing", s))
         /\ \A s \in Slots(Fn.incoming) :
              /\ fp + TranslateSlotOffset(Fn, S("incoming", s)) = fp + IncomingSlotOffset(s)
              /\ mem[fp + IncomingSlotOffset(s)] = Read(S("incoming", s))
<1>1. fp = Top.sp - 16 /\ SlotsHeld(mem, Top) /\ Top = frames[Len(frames)] /\ Fn = Top.fn
  BY FrameFacts DEF IInv, RunningInv, Top
<1>2. ASSUME NEW s \in Slots(Fn.local)
      PROVE  /\ fp + TranslateSlotOffset(Fn, S("local", s)) = LocalAt(Fn, Top.sp, s)
             /\ mem[LocalAt(Fn, Top.sp, s)] = Read(S("local", s))
  <2>1. S("local", s)[1] = "local" /\ S("local", s)[2] = s
    BY DEF S
  <2>2. TranslateSlotOffset(Fn, S("local", s)) = LocalSlotOffset(Fn, s)
    BY <2>1 DEF TranslateSlotOffset
  <2>3. Read(S("local", s)) = Top.local[s]
    BY <1>1, <2>1 DEF Read, InReg
  <2>. QED  BY <1>1, <2>2, <2>3 DEF LocalAt, SlotsHeld
<1>3. ASSUME NEW s \in Slots(Fn.outgoing)
      PROVE  /\ fp + TranslateSlotOffset(Fn, S("outgoing", s)) = OutgoingAt(Fn, Top.sp, s)
             /\ mem[OutgoingAt(Fn, Top.sp, s)] = Read(S("outgoing", s))
  <2>1. S("outgoing", s)[1] = "outgoing" /\ S("outgoing", s)[2] = s
    BY DEF S
  <2>2. TranslateSlotOffset(Fn, S("outgoing", s)) = OutgoingSlotOffset(Fn, s)
    BY <2>1 DEF TranslateSlotOffset
  <2>3. Read(S("outgoing", s)) = Top.outgoing[s]
    BY <1>1, <2>1 DEF Read, InReg
  <2>. QED  BY <1>1, <2>2, <2>3 DEF OutgoingAt, SlotsHeld
<1>4. ASSUME NEW s \in Slots(Fn.incoming)
      PROVE  /\ fp + TranslateSlotOffset(Fn, S("incoming", s)) = fp + IncomingSlotOffset(s)
             /\ mem[fp + IncomingSlotOffset(s)] = Read(S("incoming", s))
  <2>1. S("incoming", s)[1] = "incoming" /\ S("incoming", s)[2] = s
    BY DEF S
  <2>2. TranslateSlotOffset(Fn, S("incoming", s)) = IncomingSlotOffset(s)
    BY <2>1 DEF TranslateSlotOffset
  <2>3. PICK p : p = Len(frames) - 1
    OBVIOUS
  <2>4. Read(S("incoming", s)) = frames[p].outgoing[s]
    BY <2>1, <2>3 DEF Read, InReg
  <2>5. /\ p \in 1..Len(frames) - 1 /\ s \in Slots(frames[p].fn.outgoing)
        /\ fp + IncomingSlotOffset(s) = OutgoingAt(frames[p].fn, frames[p].sp, s)
    BY <2>3, IncomingSlots
  <2>6. SlotsHeld(mem, frames[p])
    BY <2>5 DEF IInv, WaitingInv
  <2>7. mem[OutgoingAt(frames[p].fn, frames[p].sp, s)] = frames[p].outgoing[s]
    BY <2>5, <2>6 DEF SlotsHeld
  <2>. QED  BY <2>2, <2>4, <2>5, <2>7
<1>. QED  BY <1>2, <1>3, <1>4

\* What an instruction of the body finds in its locations, by its registers and the memory.
LEMMA LocationRead ==
  ASSUME IInv, pc = "body", NEW inst \in Fn.code, NEW loc \in Locations(inst)
  PROVE  IF InReg(loc) THEN loc[2] \in Range(Fn.used) /\ Read(loc) = regs[loc[2]]
         ELSE mem[fp + TranslateSlotOffset(Fn, loc)] = Read(loc)
<1>1. \/ \E r \in Range(Fn.used) : loc = R(r)
      \/ \E s \in Slots(Fn.local) : loc = S("local", s)
      \/ \E s \in Slots(Fn.outgoing) : loc = S("outgoing", s)
      \/ \E s \in Slots(Fn.incoming) : loc = S("incoming", s)
  BY FrameFacts, FunctionFacts DEF IInv
<1>2. CASE \E r \in Range(Fn.used) : loc = R(r)
  BY <1>2 DEF R, InReg, Read
<1>3. CASE \E s \in Slots(Fn.local) : loc = S("local", s)
  <2>1. ~InReg(loc)
    BY <1>3 DEF InReg, S
  <2>. QED  BY <1>3, <2>1, SlotRead
<1>4. CASE \E s \in Slots(Fn.outgoing) : loc = S("outgoing", s)
  <2>1. ~InReg(loc)
    BY <1>4 DEF InReg, S
  <2>. QED  BY <1>4, <2>1, SlotRead
<1>5. CASE \E s \in Slots(Fn.incoming) : loc = S("incoming", s)
  <2>1. ~InReg(loc)
    BY <1>5 DEF InReg, S
  <2>. QED  BY <1>5, <2>1, SlotRead
<1>. QED  BY <1>1, <1>2, <1>3, <1>4, <1>5

LEMMA SeenIsRead ==
  ASSUME IInv, pc = "body", NEW inst \in Fn.code
  PROVE  Seen(inst) = [j \in DOMAIN Operands(inst) |-> Read(Operands(inst)[j])]
<1>1. IsInstr(inst) /\ ~Panics(inst)
  BY FrameFacts, FunctionFacts DEF IInv
<1>2. ASSUME NEW j \in DOMAIN Operands(inst) PROVE Seen(inst)[j] = Read(Operands(inst)[j])
  <2>1. Operands(inst)[j] \in Locations(inst)
    BY <1>1, LocationsOf
  <2>2. Seen(inst)[j] = IF InReg(Operands(inst)[j]) THEN regs[Operands(inst)[j][2]]
                        ELSE mem[fp + TranslateSlotOffset(Fn, Operands(inst)[j])]
    BY <1>1, OperandLoaded
  <2>. QED  BY <2>1, <2>2, LocationRead
<1>3. Seen(inst) = [j \in DOMAIN Operands(inst) |-> Seen(inst)[j]]
  BY DEF Seen
<1>. QED  BY <1>2, <1>3

\* The machine instruction computes what the instruction of the body does.
LEMMA ComputedIsResult ==
  ASSUME IInv, pc = "body", NEW inst \in Fn.code, NEW v \in Results(inst)
  PROVE  Computed(inst, v) = v
<1>1. IsInstr(inst)
  BY FrameFacts, FunctionFacts DEF IInv
<1>2. PICK a : a = inst.args
  OBVIOUS
<1>3. Len(a) \in Nat /\ DOMAIN a = 1..Len(a)
  BY <1>1, <1>2 DEF IsInstr, IsSeq
<1>4. \A j \in 1..Len(a) :
        /\ j \in DOMAIN Operands(inst) /\ Operands(inst)[j] = a[j] /\ a[j] \in Locations(inst)
  BY <1>1, <1>2, LocationsOf
<1>5. \A j \in 1..Len(a) : Seen(inst)[j] = Read(a[j])
  BY <1>4, SeenIsRead
<1>6. ASSUME inst.op = "first" PROVE 1 \in 1..Len(a) /\ v = Read(a[1])
  BY <1>1, <1>2, <1>3, <1>6 DEF IsInstr, Results
<1>7. ASSUME inst.op = "second" PROVE 2 \in 1..Len(a) /\ v = Read(a[2])
  BY <1>1, <1>2, <1>3, <1>7 DEF IsInstr, Results
<1>8. CASE inst.k = "Lgetstack"
  <2>1. inst.op = "first" /\ ~InReg(a[1])
    BY <1>1, <1>2, <1>8 DEF IsInstr
  <2>2. Computed(inst, v) = mem[fp + TranslateSlotOffset(Fn, a[1])]
    BY <1>2, <1>8 DEF Computed
  <2>3. mem[fp + TranslateSlotOffset(Fn, a[1])] = Read(a[1])
    BY <1>4, <1>6, <2>1, LocationRead
  <2>. QED  BY <1>6, <2>1, <2>2, <2>3
<1>9. CASE inst.k = "Lsetstack"
  <2>1. inst.op = "first" /\ InReg(a[1])
    BY <1>1, <1>2, <1>9 DEF IsInstr
  <2>2. Computed(inst, v) = regs[a[1][2]]
    <3>1. inst.k # "Lgetstack"
      BY <1>9
    <3>. QED  BY <1>2, <1>9, <3>1 DEF Computed
  <2>3. regs[a[1][2]] = Read(a[1])
    BY <1>4, <1>6, <2>1, LocationRead
  <2>. QED  BY <1>6, <2>1, <2>2, <2>3
<1>10. CASE inst.k \notin {"Lgetstack", "Lsetstack"}
  <2>1. Computed(inst, v) = CASE inst.op = "first"  -> Seen(inst)[1]
                              [] inst.op = "second" -> Seen(inst)[2]
                              [] OTHER -> v
    BY <1>10 DEF Computed
  <2>2. CASE inst.op = "first"
    BY <1>5, <1>6, <2>1, <2>2
  <2>3. CASE inst.op = "second"
    BY <1>5, <1>7, <2>1, <2>3
  <2>4. CASE inst.op \notin {"first", "second"}
    BY <2>1, <2>4
  <2>. QED  BY <2>2, <2>3, <2>4
<1>. QED  BY <1>8, <1>9, <1>10

\* The value that an instruction computes is a number.
LEMMA ResultType ==
  ASSUME IInv, pc = "body", NEW inst \in Fn.code, NEW v \in Results(inst)
  PROVE  v \in Int
<1>1. IsInstr(inst)
  BY FrameFacts, FunctionFacts DEF IInv
<1>2. regs \in [CalleeSaved -> Int]
  BY DEF IInv, RunningInv
<1>3. ASSUME NEW loc \in Locations(inst) PROVE Read(loc) \in Int
  <2>1. \/ \E r \in Range(Fn.used) : loc = R(r)
        \/ \E s \in Slots(Fn.local) : loc = S("local", s)
        \/ \E s \in Slots(Fn.outgoing) : loc = S("outgoing", s)
        \/ \E s \in Slots(Fn.incoming) : loc = S("incoming", s)
    BY FrameFacts, FunctionFacts DEF IInv
  <2>2. /\ \A s \in Slots(Fn.local) : Read(S("local", s)) \in Int
        /\ \A s \in Slots(Fn.outgoing) : Read(S("outgoing", s)) \in Int
        /\ \A s \in Slots(Fn.incoming) : Read(S("incoming", s)) \in Int
    <3>1. mem \in [Addresses -> Int]
      BY DEF IInv, RunningInv
    <3>2. /\ \A s \in Slots(Fn.local) : LocalAt(Fn, Top.sp, s) \in Addresses
          /\ \A s \in Slots(Fn.outgoing) : OutgoingAt(Fn, Top.sp, s) \in Addresses
      BY FrameFacts, Areas DEF IInv, Region
    <3>3. ASSUME NEW s \in Slots(Fn.incoming) PROVE fp + IncomingSlotOffset(s) \in Addresses
      <4>1. PICK p : p = Len(frames) - 1
        OBVIOUS
      <4>2. /\ p \in 1..Len(frames) /\ s \in Slots(frames[p].fn.outgoing)
            /\ fp + IncomingSlotOffset(s) = OutgoingAt(frames[p].fn, frames[p].sp, s)
        BY <4>1, IncomingSlots
      <4>3. FitsBelow(frames[p].fn, frames[p].sp)
        BY <4>2, FrameFacts DEF IInv
      <4>. QED  BY <4>2, <4>3, Areas DEF Region
    <3>. QED  BY <3>1, <3>2, <3>3, SlotRead
  <2>3. ASSUME NEW r \in Range(Fn.used), loc = R(r) PROVE Read(loc) \in Int
    <3>1. InReg(loc) /\ Read(loc) = regs[r]
      BY <2>3 DEF InReg, R, Read
    <3>2. r \in CalleeSaved
      <4>1. PICK u : u = Fn.used
        OBVIOUS
      <4>2. u \in Seq(CalleeSaved) /\ r \in Range(u)
        BY <4>1, FrameFacts, FunctionFacts DEF IInv
      <4>. QED  BY <4>2 DEF Range
    <3>. QED  BY <1>2, <3>1, <3>2
  <2>. QED  BY <2>1, <2>2, <2>3
<1>4. PICK a : a = inst.args
  OBVIOUS
<1>5. Len(a) \in Nat
  BY <1>1, <1>4 DEF IsInstr, IsSeq
<1>6. \A j \in 1..Len(a) : a[j] \in Locations(inst)
  BY <1>1, <1>4, LocationsOf
<1>7. CASE inst.op = "any"
  BY <1>7, StackAssumption DEF Results
<1>8. CASE inst.op = "first"
  <2>1. 1 \in 1..Len(a) /\ v = Read(a[1])
    BY <1>1, <1>4, <1>5, <1>8 DEF IsInstr, Results
  <2>. QED  BY <1>3, <1>6, <2>1
<1>9. CASE inst.op = "second"
  <2>1. 2 \in 1..Len(a) /\ v = Read(a[2])
    BY <1>1, <1>4, <1>5, <1>9 DEF IsInstr, Results
  <2>. QED  BY <1>3, <1>6, <2>1
<1>10. CASE inst.op = "none"
  BY <1>10 DEF Results
<1>. QED  BY <1>1, <1>7, <1>8, <1>9, <1>10 DEF IsInstr

-----------------------------------------------------------------------------
(***************************************************************************)
(* The body of a function.                                                 *)
(***************************************************************************)
LEMMA MapUpdate ==
  ASSUME NEW h \in SlotMaps, NEW s, NEW v \in Int
  PROVE  /\ [h EXCEPT ![s] = v] \in SlotMaps /\ DOMAIN [h EXCEPT ![s] = v] = DOMAIN h
         /\ \A t \in DOMAIN h : [h EXCEPT ![s] = v][t] = IF t = s THEN v ELSE h[t]
<1>1. PICK b \in UNION {{fn.local, fn.outgoing} : fn \in Functions} : h \in [Slots(b) -> Int]
  BY DEF SlotMaps
<1>2. [h EXCEPT ![s] = v] \in [Slots(b) -> Int]
  BY <1>1
<1>3. [h EXCEPT ![s] = v] \in SlotMaps
  BY <1>2 DEF SlotMaps
<1>. QED  BY <1>1, <1>3

\* A store to a slot of the running activation or of its caller keeps the invariant.
LEMMA SlotStore ==
  ASSUME IInv, pc = "body", UNCHANGED <<sp, fp, lr, regs, pc, i>>,
         NEW k \in 1..Len(frames), NEW g \in Frame, frames' = [frames EXCEPT ![k] = g],
         g.fn = frames[k].fn, g.sp = frames[k].sp, g.fp = frames[k].fp, g.lr = frames[k].lr,
         g.regs = frames[k].regs,
         DOMAIN g.local = Slots(g.fn.local), DOMAIN g.outgoing = Slots(g.fn.outgoing),
         NEW a \in Region(frames[k].fn, frames[k].sp), NEW v \in Int, mem' = [mem EXCEPT ![a] = v],
         a \notin {frames[k].sp - 16, frames[k].sp - 8},
         \A j \in 1..Len(Saved(frames[k].fn)) : a # SaveAt(frames[k].sp, j),
         SlotsHeld(mem', g)
  PROVE  IInv'
<1> DEFINE n == Len(frames)
<1>1. FramesInv /\ n \in Nat \ {0} /\ n \in 1..n /\ Top = frames[n] /\ Fn = Top.fn
  BY FrameFacts DEF IInv, Top
<1>2. /\ mem \in [Addresses -> Int] /\ PairHeld(mem, Top) /\ SavesHeld(mem, Top, Len(Saved(Fn)))
      /\ SlotsHeld(mem, Top) /\ OthersKept(Top, regs) /\ fp = Top.sp - 16
      /\ sp = Top.sp - TotalSize(Fn) /\ regs \in [CalleeSaved -> Int] /\ lr \in Nat
  BY DEF IInv, RunningInv
<1>3. a \in Addresses
  BY DEF Region
<1>4. mem' \in [Addresses -> Int] /\ \A b \in Addresses : b # a => mem'[b] = mem[b]
  BY <1>2, <1>3
<1>5. /\ FramesInv' /\ Len(frames') = n /\ frames'[k] = g
      /\ \A j \in 1..n : j # k => frames'[j] = frames[j]
  BY <1>1, FrameUpdate
<1>6. ASSUME NEW j \in 1..n
      PROVE  /\ PairHeld(mem, frames[j]) /\ SavesHeld(mem, frames[j], Len(Saved(frames[j].fn)))
             /\ SlotsHeld(mem, frames[j])
  <2>1. CASE j = n
    BY <1>1, <1>2, <2>1
  <2>2. CASE j # n
    <3>1. j \in 1..n - 1
      BY <1>1, <2>2
    <3>. QED  BY <3>1 DEF IInv, WaitingInv
  <2>. QED  BY <2>1, <2>2
<1>7. \A j \in 1..n : /\ frames'[j].fn = frames[j].fn /\ frames'[j].sp = frames[j].sp
                      /\ frames'[j].fp = frames[j].fp /\ frames'[j].lr = frames[j].lr
                      /\ frames'[j].regs = frames[j].regs
  BY <1>5
<1>8. ASSUME NEW j \in 1..n
      PROVE  /\ PairHeld(mem', frames'[j]) /\ SavesHeld(mem', frames'[j], Len(Saved(frames'[j].fn)))
             /\ SlotsHeld(mem', frames'[j])
  <2>1. FitsBelow(frames[j].fn, frames[j].sp)
    BY <1>1, FrameFacts
  <2>2. CASE j = k
    <3>1. /\ frames[k].sp - 16 \in Addresses /\ frames[k].sp - 8 \in Addresses
          /\ \A m \in 1..Len(Saved(frames[k].fn)) : SaveAt(frames[k].sp, m) \in Addresses
      BY <2>1, <2>2, Areas DEF Region
    <3>2. PairHeld(mem', g)
      BY <1>4, <1>6, <3>1 DEF PairHeld
    <3>3. SavesHeld(mem', g, Len(Saved(g.fn)))
      <4> SUFFICES ASSUME NEW m \in 1..Len(Saved(g.fn))
                   PROVE  mem'[SaveAt(g.sp, m)] = g.regs[Saved(g.fn)[m]]
        BY DEF SavesHeld
      <4>1. m \in 1..Len(Saved(frames[k].fn)) /\ SaveAt(g.sp, m) = SaveAt(frames[k].sp, m)
        OBVIOUS
      <4>2. mem'[SaveAt(frames[k].sp, m)] = mem[SaveAt(frames[k].sp, m)]
        BY <1>4, <3>1, <4>1
      <4>3. mem[SaveAt(frames[k].sp, m)] = frames[k].regs[Saved(frames[k].fn)[m]]
        BY <1>6, <4>1 DEF SavesHeld
      <4>. QED  BY <4>1, <4>2, <4>3
    <3>. QED  BY <1>5, <2>2, <3>2, <3>3
  <2>3. CASE j # k
    <3>1. a \notin Region(frames[j].fn, frames[j].sp)
      <4>1. j < k \/ k < j
        BY <1>1, <2>3
      <4>2. CASE k < j
        BY <1>1, <4>2, RegionsApart
      <4>3. CASE j < k
        BY <1>1, <4>3, RegionsApart
      <4>. QED  BY <4>1, <4>2, <4>3
    <3>2. \A b \in Region(frames[j].fn, frames[j].sp) : mem'[b] = mem[b]
      BY <1>4, <3>1 DEF Region
    <3>3. frames'[j] = frames[j]
      BY <1>5, <2>3
    <3>4. /\ PairHeld(mem', frames[j]) /\ SavesHeld(mem', frames[j], Len(Saved(frames[j].fn)))
          /\ SlotsHeld(mem', frames[j])
      BY <1>6, <2>1, <3>2, HeldElsewhere
    <3>. QED  BY <3>3, <3>4
  <2>. QED  BY <2>2, <2>3
<1>9. WaitingInv'
  <2> SUFFICES ASSUME NEW j \in 1..n - 1
               PROVE  /\ PairHeld(mem', frames'[j])
                      /\ SavesHeld(mem', frames'[j], Len(Saved(frames'[j].fn)))
                      /\ SlotsHeld(mem', frames'[j])
                      /\ OthersKept(frames'[j], frames'[j+1].regs)
    BY <1>5 DEF WaitingInv
  <2>1. j \in 1..n /\ j + 1 \in 1..n
    BY <1>1
  <2>2. OthersKept(frames[j], frames[j+1].regs)
    BY DEF IInv, WaitingInv
  <2>3. OthersKept(frames'[j], frames'[j+1].regs)
    BY <1>7, <2>1, <2>2 DEF OthersKept
  <2>. QED  BY <1>8, <2>1, <2>3
<1>10. /\ Top' = frames'[n] /\ Fn' = Fn /\ Top'.sp = Top.sp /\ Top'.fp = Top.fp
       /\ Top'.lr = Top.lr /\ Top'.regs = Top.regs /\ Top'.fn = Fn
  BY <1>1, <1>5, <1>7 DEF Top, Fn
<1>11. OthersKept(Top', regs)
  BY <1>1, <1>2, <1>10 DEF OthersKept
<1>12. PairHeld(mem', Top') /\ SavesHeld(mem', Top', Len(Saved(Fn))) /\ SlotsHeld(mem', Top')
  BY <1>1, <1>8, <1>10
<1> HIDE DEF n
<1>. QED  BY <1>2, <1>4, <1>5, <1>9, <1>10, <1>11, <1>12 DEF IInv, RunningInv

LEMMA StoreLocal ==
  ASSUME IInv, pc = "body", UNCHANGED <<sp, fp, lr, regs, pc, i>>,
         NEW s \in Slots(Fn.local), NEW v \in Int,
         mem' = [mem EXCEPT ![LocalAt(Fn, Top.sp, s)] = v],
         frames' = [frames EXCEPT ![Len(frames)].local[s] = v]
  PROVE  IInv'
<1> DEFINE n == Len(frames)
           h == [frames[n].local EXCEPT ![s] = v]
           g == [frames[n] EXCEPT !.local = h]
<1>1. /\ FramesInv /\ n \in 1..n /\ Top = frames[n] /\ Fn = Top.fn /\ frames[n] \in Frame
      /\ FitsBelow(Fn, Top.sp) /\ DOMAIN Top.local = Slots(Fn.local)
      /\ DOMAIN Top.outgoing = Slots(Fn.outgoing)
  BY FrameFacts DEF IInv, Top, FramesInv
<1>2. frames[n].local \in SlotMaps
  BY <1>1 DEF Frame
<1>3. /\ h \in SlotMaps /\ DOMAIN h = Slots(Fn.local)
      /\ \A t \in Slots(Fn.local) : h[t] = IF t = s THEN v ELSE Top.local[t]
  BY <1>1, <1>2, MapUpdate
<1>4. frames' = [frames EXCEPT ![n] = g]
  OBVIOUS
<1> HIDE DEF h
<1>5. /\ g \in Frame /\ g.fn = Fn /\ g.sp = Top.sp /\ g.fp = Top.fp /\ g.lr = Top.lr
      /\ g.regs = Top.regs /\ g.local = h /\ g.outgoing = Top.outgoing
  BY <1>1, <1>3 DEF Frame
<1> HIDE DEF g
<1>6. mem \in [Addresses -> Int] /\ SlotsHeld(mem, Top)
  BY DEF IInv, RunningInv
<1>7. PICK a : a = LocalAt(Fn, Top.sp, s)
  OBVIOUS
<1>8. /\ a \in Region(Fn, Top.sp) /\ a \notin {Top.sp - 16, Top.sp - 8}
      /\ \A j \in 1..Len(Saved(Fn)) : a # SaveAt(Top.sp, j)
      /\ \A t \in Slots(Fn.local) : LocalAt(Fn, Top.sp, t) \in Addresses
      /\ \A t \in Slots(Fn.local) : a = LocalAt(Fn, Top.sp, t) => s = t
      /\ \A t \in Slots(Fn.outgoing) : OutgoingAt(Fn, Top.sp, t) \in Addresses
      /\ \A t \in Slots(Fn.outgoing) : OutgoingAt(Fn, Top.sp, t) # a
  BY <1>1, <1>7, Areas DEF Region
<1>9. mem'[a] = v /\ \A b \in Addresses : b # a => mem'[b] = mem[b]
  BY <1>6, <1>7, <1>8 DEF Region
<1>10. SlotsHeld(mem', g)
  <2>1. ASSUME NEW t \in Slots(Fn.local) PROVE mem'[LocalAt(Fn, Top.sp, t)] = h[t]
    <3>1. CASE t = s
      BY <1>3, <1>7, <1>9, <3>1
    <3>2. CASE t # s
      BY <1>1, <1>3, <1>6, <1>8, <1>9, <3>2 DEF SlotsHeld
    <3>. QED  BY <3>1, <3>2
  <2>2. ASSUME NEW t \in Slots(Fn.outgoing)
        PROVE  mem'[OutgoingAt(Fn, Top.sp, t)] = Top.outgoing[t]
    BY <1>1, <1>6, <1>8, <1>9 DEF SlotsHeld
  <2>. QED  BY <1>5, <2>1, <2>2 DEF SlotsHeld
<1>11. mem' = [mem EXCEPT ![a] = v]
  BY <1>7
<1>12. /\ g.fn = frames[n].fn /\ g.sp = frames[n].sp /\ g.fp = frames[n].fp
       /\ g.lr = frames[n].lr /\ g.regs = frames[n].regs
       /\ DOMAIN g.local = Slots(g.fn.local) /\ DOMAIN g.outgoing = Slots(g.fn.outgoing)
  BY <1>1, <1>3, <1>5
<1>13. /\ a \in Region(frames[n].fn, frames[n].sp)
       /\ a \notin {frames[n].sp - 16, frames[n].sp - 8}
       /\ \A j \in 1..Len(Saved(frames[n].fn)) : a # SaveAt(frames[n].sp, j)
  BY <1>1, <1>8
<1>14. n \in 1..Len(frames) /\ g \in Frame
  BY <1>1, <1>5
<1> HIDE DEF n
<1>. QED  BY <1>4, <1>10, <1>11, <1>12, <1>13, <1>14, SlotStore

LEMMA StoreOutgoing ==
  ASSUME IInv, pc = "body", UNCHANGED <<sp, fp, lr, regs, pc, i>>,
         NEW k \in 1..Len(frames), NEW s \in Slots(frames[k].fn.outgoing), NEW v \in Int,
         mem' = [mem EXCEPT ![OutgoingAt(frames[k].fn, frames[k].sp, s)] = v],
         frames' = [frames EXCEPT ![k].outgoing[s] = v]
  PROVE  IInv'
<1> DEFINE h == [frames[k].outgoing EXCEPT ![s] = v]
           g == [frames[k] EXCEPT !.outgoing = h]
<1>1. PICK f, fn, top : f = frames[k] /\ fn = f.fn /\ top = f.sp
  OBVIOUS
<1>2. /\ FramesInv /\ f \in Frame /\ FitsBelow(fn, top) /\ DOMAIN f.local = Slots(fn.local)
      /\ DOMAIN f.outgoing = Slots(fn.outgoing)
  BY <1>1, FrameFacts DEF IInv, FramesInv
<1>3. f.outgoing \in SlotMaps
  BY <1>2 DEF Frame
<1>4. /\ h \in SlotMaps /\ DOMAIN h = Slots(fn.outgoing)
      /\ \A t \in Slots(fn.outgoing) : h[t] = IF t = s THEN v ELSE f.outgoing[t]
  BY <1>1, <1>2, <1>3, MapUpdate
<1>5. frames' = [frames EXCEPT ![k] = g]
  OBVIOUS
<1> HIDE DEF h
<1>6. /\ g \in Frame /\ g.fn = fn /\ g.sp = top /\ g.fp = f.fp /\ g.lr = f.lr
      /\ g.regs = f.regs /\ g.local = f.local /\ g.outgoing = h
  BY <1>1, <1>2, <1>4 DEF Frame
<1> HIDE DEF g
<1>7. mem \in [Addresses -> Int] /\ SlotsHeld(mem, f)
  <2>1. SlotsHeld(mem, Top) /\ mem \in [Addresses -> Int] /\ Top = frames[Len(frames)]
    BY DEF IInv, RunningInv, Top
  <2>2. k = Len(frames) \/ k \in 1..Len(frames) - 1
    BY <1>2, FrameFacts
  <2>3. \A j \in 1..Len(frames) - 1 : SlotsHeld(mem, frames[j])
    BY DEF IInv, WaitingInv
  <2>. QED  BY <1>1, <2>1, <2>2, <2>3
<1>8. PICK a : a = OutgoingAt(fn, top, s)
  OBVIOUS
<1>9. s \in Slots(fn.outgoing)
  BY <1>1
<1>10. /\ a \in Region(fn, top) /\ a \notin {top - 16, top - 8}
       /\ \A j \in 1..Len(Saved(fn)) : a # SaveAt(top, j)
       /\ \A t \in Slots(fn.local) : LocalAt(fn, top, t) \in Addresses
       /\ \A t \in Slots(fn.local) : a # LocalAt(fn, top, t)
       /\ \A t \in Slots(fn.outgoing) : OutgoingAt(fn, top, t) \in Addresses
       /\ \A t \in Slots(fn.outgoing) : a = OutgoingAt(fn, top, t) => s = t
  BY <1>2, <1>8, <1>9, Areas DEF Region
<1>11. mem' = [mem EXCEPT ![a] = v]
  BY <1>1, <1>8
<1>12. mem'[a] = v /\ \A b \in Addresses : b # a => mem'[b] = mem[b]
  BY <1>7, <1>10, <1>11 DEF Region
<1>13. SlotsHeld(mem', g)
  <2>1. ASSUME NEW t \in Slots(fn.local) PROVE mem'[LocalAt(fn, top, t)] = f.local[t]
    BY <1>1, <1>7, <1>10, <1>12 DEF SlotsHeld
  <2>2. ASSUME NEW t \in Slots(fn.outgoing) PROVE mem'[OutgoingAt(fn, top, t)] = h[t]
    <3>1. CASE t = s
      BY <1>4, <1>8, <1>12, <3>1
    <3>2. CASE t # s
      BY <1>1, <1>4, <1>7, <1>10, <1>12, <3>2 DEF SlotsHeld
    <3>. QED  BY <3>1, <3>2
  <2>. QED  BY <1>6, <2>1, <2>2 DEF SlotsHeld
<1>14. /\ g.fn = frames[k].fn /\ g.sp = frames[k].sp /\ g.fp = frames[k].fp
       /\ g.lr = frames[k].lr /\ g.regs = frames[k].regs
       /\ DOMAIN g.local = Slots(g.fn.local) /\ DOMAIN g.outgoing = Slots(g.fn.outgoing)
  BY <1>1, <1>2, <1>4, <1>6
<1>15. /\ a \in Region(frames[k].fn, frames[k].sp)
       /\ a \notin {frames[k].sp - 16, frames[k].sp - 8}
       /\ \A j \in 1..Len(Saved(frames[k].fn)) : a # SaveAt(frames[k].sp, j)
       /\ g \in Frame
  BY <1>1, <1>6, <1>10
<1>. QED  BY <1>5, <1>11, <1>13, <1>14, <1>15, SlotStore

LEMMA StepExecute == IInv /\ Execute => IInv'
<1> SUFFICES ASSUME IInv, Execute PROVE IInv'
  OBVIOUS
<1> DEFINE n == Len(frames)
           written(inst, slot) == inst.dest # <<>> /\ inst.dest[1][1] = slot
           ran(inst, v) ==
             /\ transformInst(inst, v)
             /\ frames' = CASE written(inst, "local")    -> [frames EXCEPT ![n].local[inst.dest[1][2]] = v]
                            [] written(inst, "outgoing") -> [frames EXCEPT ![n].outgoing[inst.dest[1][2]] = v]
                            [] written(inst, "incoming") -> [frames EXCEPT ![n - 1].outgoing[inst.dest[1][2]] = v]
                            [] OTHER -> frames
<1>1. pc = "body" /\ UNCHANGED <<sp, fp, lr, pc, i>>
  BY DEF Execute
<1>2. \E inst \in Fn.code : \E v \in Results(inst) : ran(inst, v)
  BY DEF Execute
<1>. PICK inst \in Fn.code : \E v \in Results(inst) : ran(inst, v)
  BY <1>2
<1>. PICK v \in Results(inst) : ran(inst, v)
  OBVIOUS
<1>3. Computed(inst, v) = v /\ v \in Int
  BY <1>1, ComputedIsResult, ResultType
<1>4. PICK d : d = inst.dest[1]
  OBVIOUS
<1>5. /\ regs' = IF inst.dest # <<>> /\ InReg(d) THEN [regs EXCEPT ![d[2]] = v] ELSE regs
      /\ mem' = IF inst.dest # <<>> /\ ~InReg(d) THEN [mem EXCEPT ![fp + TranslateSlotOffset(Fn, d)] = v]
                ELSE mem
  BY <1>3, <1>4 DEF transformInst
<1>6. frames' = CASE inst.dest # <<>> /\ d[1] = "local"    -> [frames EXCEPT ![n].local[d[2]] = v]
                  [] inst.dest # <<>> /\ d[1] = "outgoing" -> [frames EXCEPT ![n].outgoing[d[2]] = v]
                  [] inst.dest # <<>> /\ d[1] = "incoming" -> [frames EXCEPT ![n - 1].outgoing[d[2]] = v]
                  [] OTHER -> frames
  BY <1>4
<1>7. CASE inst.dest = <<>>
  <2>1. UNCHANGED <<mem, regs, frames>>
    BY <1>5, <1>6, <1>7
  <2>. QED  BY <1>1, <2>1, StepStutter DEF vars
<1>8. CASE inst.dest # <<>>
  <2>1. /\ regs' = IF InReg(d) THEN [regs EXCEPT ![d[2]] = v] ELSE regs
        /\ mem' = IF ~InReg(d) THEN [mem EXCEPT ![fp + TranslateSlotOffset(Fn, d)] = v] ELSE mem
        /\ frames' = CASE d[1] = "local"    -> [frames EXCEPT ![n].local[d[2]] = v]
                       [] d[1] = "outgoing" -> [frames EXCEPT ![n].outgoing[d[2]] = v]
                       [] d[1] = "incoming" -> [frames EXCEPT ![n - 1].outgoing[d[2]] = v]
                       [] OTHER -> frames
    BY <1>5, <1>6, <1>8
  <2>2. d \in Locations(inst)
    <3>1. IsInstr(inst)
      BY FrameFacts, FunctionFacts DEF IInv
    <3>. QED  BY <1>4, <1>8, <3>1, LocationsOf
  <2>3. \/ \E r \in Range(Fn.used) : d = R(r)
        \/ \E s \in Slots(Fn.local) : d = S("local", s)
        \/ \E s \in Slots(Fn.outgoing) : d = S("outgoing", s)
        \/ \E s \in Slots(Fn.incoming) : d = S("incoming", s)
    BY <2>2, FrameFacts, FunctionFacts DEF IInv
  <2>4. ASSUME NEW r \in Range(Fn.used), d = R(r) PROVE IInv'
    <3>1. d[1] = "R" /\ d[2] = r /\ InReg(d)
      BY <2>4 DEF R, InReg
    <3>2. regs' = [regs EXCEPT ![r] = v] /\ UNCHANGED <<mem, frames>>
      BY <2>1, <3>1
    <3>3. FramesInv' /\ WaitingInv' /\ Top' = Top /\ Fn' = Fn
      BY <3>2, WaitingKept DEF IInv
    <3>4. regs \in [CalleeSaved -> Int] /\ OthersKept(Top, regs) /\ Top.fn = Fn
      BY <1>1, FrameFacts DEF IInv, RunningInv
    <3>5. regs' \in [CalleeSaved -> Int] /\ \A q \in CalleeSaved : q # r => regs'[q] = regs[q]
      BY <1>3, <3>2, <3>4
    <3>6. OthersKept(Top, regs')
      BY <3>4, <3>5 DEF OthersKept
    <3>. QED  BY <1>1, <3>2, <3>3, <3>5, <3>6 DEF IInv, RunningInv
  <2>5. ASSUME NEW s \in Slots(Fn.local), d = S("local", s) PROVE IInv'
    <3>1. d[1] = "local" /\ d[2] = s /\ ~InReg(d)
      BY <2>5 DEF S, InReg
    <3>2. regs' = regs /\ frames' = [frames EXCEPT ![n].local[s] = v]
      BY <2>1, <3>1
    <3>3. mem' = [mem EXCEPT ![LocalAt(Fn, Top.sp, s)] = v]
      BY <1>1, <2>1, <2>5, <3>1, SlotRead
    <3>. QED  BY <1>1, <1>3, <3>2, <3>3, StoreLocal
  <2>6. ASSUME NEW s \in Slots(Fn.outgoing), d = S("outgoing", s) PROVE IInv'
    <3>1. d[1] = "outgoing" /\ d[2] = s /\ ~InReg(d)
      BY <2>6 DEF S, InReg
    <3>2. regs' = regs /\ frames' = [frames EXCEPT ![n].outgoing[s] = v]
      BY <2>1, <3>1
    <3>3. mem' = [mem EXCEPT ![OutgoingAt(Fn, Top.sp, s)] = v]
      BY <1>1, <2>1, <2>6, <3>1, SlotRead
    <3>4. n \in 1..n /\ frames[n].fn = Fn /\ frames[n].sp = Top.sp
      BY FrameFacts DEF IInv, Top, Fn
    <3>5. s \in Slots(frames[n].fn.outgoing)
          /\ mem' = [mem EXCEPT ![OutgoingAt(frames[n].fn, frames[n].sp, s)] = v]
      BY <3>3, <3>4
    <3>. QED  BY <1>1, <1>3, <3>2, <3>4, <3>5, StoreOutgoing
  <2>7. ASSUME NEW s \in Slots(Fn.incoming), d = S("incoming", s) PROVE IInv'
    <3>1. d[1] = "incoming" /\ d[2] = s /\ ~InReg(d)
      BY <2>7 DEF S, InReg
    <3>2. PICK p : p = n - 1
      OBVIOUS
    <3>3. regs' = regs /\ frames' = [frames EXCEPT ![p].outgoing[s] = v]
      BY <2>1, <3>1, <3>2
    <3>4. /\ p \in 1..Len(frames) /\ s \in Slots(frames[p].fn.outgoing)
          /\ fp + IncomingSlotOffset(s) = OutgoingAt(frames[p].fn, frames[p].sp, s)
      BY <1>1, <3>2, IncomingSlots
    <3>5. fp + TranslateSlotOffset(Fn, d) = OutgoingAt(frames[p].fn, frames[p].sp, s)
      BY <1>1, <2>7, <3>4, SlotRead
    <3>6. mem' = [mem EXCEPT ![OutgoingAt(frames[p].fn, frames[p].sp, s)] = v]
      BY <2>1, <3>1, <3>5
    <3>. QED  BY <1>1, <1>3, <3>3, <3>4, <3>6, StoreOutgoing
  <2>. QED  BY <2>3, <2>4, <2>5, <2>6, <2>7
<1>. QED  BY <1>7, <1>8

-----------------------------------------------------------------------------
(***************************************************************************)
(* The theorems.                                                           *)
(***************************************************************************)
LEMMA InvariantStep == IInv /\ [Next]_vars => IInv'
BY StepAllocate, StepSaveFP, StepSetFP, StepSaveRegister, StepEndPrologue, StepExecute,
   StepCall, StepBeginEpilogue, StepRestorePair, StepRestoreFP, StepFree, StepReturn,
   StepStutter DEF Next, Exit

LEMMA InvariantHolds == Spec => []IInv
BY InitHolds, InvariantStep, PTL DEF Spec

(***************************************************************************)
(* A function returns with SP, FP, LR and the callee-saved registers as it *)
(* found them, whatever its body and the functions it calls do: what       *)
(* GeneratePrologue saves, GenerateEpilogue restores (stacking/prolog.go). *)
(***************************************************************************)
THEOREM FunctionsRestore == Spec => []Restored
<1>1. ASSUME IInv PROVE Restored
  BY <1>1 DEF IInv, RunningInv, Restored, Top
<1>. QED  BY <1>1, InvariantHolds, PTL

(***************************************************************************)
(* The slots of every activation hold what it wrote there last: the areas  *)
(* that ComputeLayout assigns, and the frames of nested calls, never       *)
(* overlap (stacking/layout.go).                                           *)
(***************************************************************************)
THEOREM SlotsAlwaysHold == Spec => []SlotsHold
<1>1. ASSUME IInv PROVE SlotsHold
  <2> SUFFICES ASSUME NEW k \in 1..Len(frames), InBody(k)
               PROVE  /\ \A s \in Slots(frames[k].fn.local) :
                           mem[FramePointer(k) + LocalSlotOffset(frames[k].fn, s)] = frames[k].local[s]
                      /\ \A s \in Slots(frames[k].fn.outgoing) :
                           mem[FramePointer(k) + OutgoingSlotOffset(frames[k].fn, s)] = frames[k].outgoing[s]
    BY DEF SlotsHold
  <2>1. FramePointer(k) = frames[k].sp - 16 /\ SlotsHeld(mem, frames[k])
    <3>1. FramesInv /\ Len(frames) \in Nat
      BY <1>1, FrameFacts DEF IInv
    <3>2. CASE k = Len(frames)
      BY <1>1, <3>1, <3>2 DEF IInv, RunningInv, Top, InBody, FramePointer
    <3>3. CASE k # Len(frames)
      <4>1. k \in 1..Len(frames) - 1 /\ k + 1 \in 2..Len(frames) /\ k + 1 - 1 = k
        BY <3>1, <3>3
      <4>2. frames[k + 1].fp = frames[k + 1 - 1].sp - 16
        BY <3>1, <4>1 DEF FramesInv
      <4>3. SlotsHeld(mem, frames[k])
        BY <1>1, <4>1 DEF IInv, WaitingInv
      <4>. QED  BY <3>3, <4>1, <4>2, <4>3 DEF FramePointer
    <3>. QED  BY <3>2, <3>3
  <2>. QED  BY <2>1 DEF SlotsHeld, LocalAt, OutgoingAt
<1>. QED  BY <1>1, InvariantHolds, PTL

(***************************************************************************)
(* A function reads its stack arguments where its caller stored them: the  *)
(* incoming offsets of one frame and the outgoing offsets of the other     *)
(* meet (stacking/slots.go), for every two functions.                      *)
(***************************************************************************)
THEOREM ArgumentsAlwaysArrive == Spec => []ArgumentsArrive
<1>1. ASSUME IInv PROVE ArgumentsArrive
  <2> SUFFICES ASSUME pc = "body", NEW s \in Slots(Fn.incoming)
               PROVE  mem[fp + IncomingSlotOffset(s)] = frames[Len(frames) - 1].outgoing[s]
    BY DEF ArgumentsArrive
  <2>1. mem[fp + IncomingSlotOffset(s)] = Read(S("incoming", s))
    BY <1>1, SlotRead
  <2>2. S("incoming", s)[1] = "incoming" /\ S("incoming", s)[2] = s
    BY DEF S
  <2>3. Read(S("incoming", s)) = frames[Len(frames) - 1].outgoing[s]
    BY <2>2 DEF Read, InReg
  <2>. QED  BY <2>1, <2>3
<1>. QED  BY <1>1, InvariantHolds, PTL

(***************************************************************************)
(* Every machine instruction gets the operands of the Linear instruction   *)
(* it was made from: the loads into X16 and X17 that ensureInReg and       *)
(* locsToRegsWithSpill emit do not disturb one another                     *)
(* (stacking/transform.go).                                                *)
(***************************************************************************)
THEOREM OperandsAlwaysRead == Spec => []OperandsRead
<1>1. ASSUME IInv PROVE OperandsRead
  BY <1>1, SeenIsRead DEF OperandsRead
<1>. QED  BY <1>1, InvariantHolds, PTL
=============================================================================
