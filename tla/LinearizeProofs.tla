-------------------------- MODULE LinearizeProofs --------------------------
(***************************************************************************)
(* Proofs about linearization, for every finite control-flow graph: the    *)
(* labels that are jumped to are defined once, and the code executes a     *)
(* path of the graph.                                                      *)
(***************************************************************************)
EXTENDS Linearize, FiniteSetTheorems, SequenceTheorems, WellFoundedInduction, TLAPS

-----------------------------------------------------------------------------
(***************************************************************************)
(* Iterating a function.  Induction over numbers is done by way of the     *)
(* least number that is not in a set.                                      *)
(***************************************************************************)
LEMMA LeastOf ==
  ASSUME NEW S \in SUBSET Nat, S # {}
  PROVE  \E x \in S : \A y \in S : x <= y
<1>1. PICK x \in S : \A y \in S : ~ (<<y, x>> \in OpToRel(<, Nat))
  BY NatLessThanWellFounded, WFMin
<1>2. \A y \in S : ~(y < x)
  BY <1>1 DEF OpToRel
<1>. QED  BY <1>2

\* A set that holds the first number and with each number the next holds all up to n.
LEMMA UpTo ==
  ASSUME NEW n \in Nat, NEW S, 0 \in S, \A k \in 0..n : k < n /\ k \in S => k + 1 \in S
  PROVE  \A k \in 0..n : k \in S
<1> SUFFICES ASSUME {k \in 0..n : k \notin S} # {}
             PROVE  FALSE
  OBVIOUS
<1>1. {k \in 0..n : k \notin S} \in SUBSET Nat
  OBVIOUS
<1>2. PICK x \in {k \in 0..n : k \notin S} : \A y \in {k \in 0..n : k \notin S} : x <= y
  BY <1>1, LeastOf
<1>3. x # 0 /\ x \in 0..n /\ x \notin S
  BY <1>2
<1>4. x - 1 \in 0..n /\ x - 1 < n /\ ~(x <= x - 1) /\ (x - 1) + 1 = x
  BY <1>3
<1>5. x - 1 \in S
  BY <1>2, <1>4
<1>. QED  BY <1>3, <1>4, <1>5

IsIteration(g, step, x, n) == g[0] = x /\ \A k \in 1..n : g[k] = step[g[k - 1]]

\* a is the n-th point of an iteration of step from x.
Reaches(T, step, x, n, a) == \E g \in [0..n -> T] : IsIteration(g, step, x, n) /\ g[n] = a

LEMMA IterationExtends ==
  ASSUME NEW T, NEW step \in [T -> T], NEW x \in T, NEW n \in Nat,
         NEW g \in [0..n -> T], IsIteration(g, step, x, n)
  PROVE  \E h \in [0..n + 1 -> T] : IsIteration(h, step, x, n + 1) /\ h[n + 1] = step[g[n]]
<1> DEFINE h == [k \in 0..n + 1 |-> IF k = n + 1 THEN step[g[n]] ELSE g[k]]
<1>1. h \in [0..n + 1 -> T]
  OBVIOUS
<1>2. h[0] = x /\ h[n + 1] = step[g[n]]
  BY DEF IsIteration
<1>3. ASSUME NEW k \in 1..n + 1
      PROVE  h[k] = step[h[k - 1]]
  <2>1. CASE k = n + 1
    <3>1. h[k - 1] = g[n] /\ h[k] = step[g[n]]
      BY <2>1
    <3>. QED  BY <3>1
  <2>2. CASE k # n + 1
    <3>1. k \in 1..n /\ h[k - 1] = g[k - 1] /\ h[k] = g[k]
      BY <2>2
    <3>. QED  BY <3>1 DEF IsIteration
  <2>. QED  BY <2>1, <2>2
<1>. QED  BY <1>1, <1>2, <1>3 DEF IsIteration

LEMMA IterationExists ==
  ASSUME NEW T, NEW step \in [T -> T], NEW x \in T, NEW n \in Nat
  PROVE  \E g \in [0..n -> T] : IsIteration(g, step, x, n)
<1> DEFINE S == {k \in Nat : \E g \in [0..k -> T] : IsIteration(g, step, x, k)}
<1>1. 0 \in S
  <2>1. [k \in 0..0 |-> x] \in [0..0 -> T] /\ IsIteration([k \in 0..0 |-> x], step, x, 0)
    BY DEF IsIteration
  <2>. QED  BY <2>1
<1>2. ASSUME NEW k \in Nat, k \in S
      PROVE  k + 1 \in S
  <2>1. PICK g \in [0..k -> T] : IsIteration(g, step, x, k)
    BY <1>2
  <2>2. \E h \in [0..k + 1 -> T] : IsIteration(h, step, x, k + 1)
    BY <2>1, IterationExtends
  <2>. QED  BY <2>2
<1> HIDE DEF S
<1>3. \A k \in 0..n : k \in S
  BY <1>1, <1>2, UpTo
<1>4. n \in S
  BY <1>3
<1>. QED  BY <1>4 DEF S

\* Two iterations from the same point agree.
LEMMA IterationUnique ==
  ASSUME NEW step, NEW x, NEW m \in Nat, NEW n \in Nat, m <= n,
         NEW g, IsIteration(g, step, x, m), NEW h, IsIteration(h, step, x, n)
  PROVE  g[m] = h[m]
<1> DEFINE S == {k \in 0..m : g[k] = h[k]}
<1>1. 0 \in S
  BY DEF IsIteration
<1>2. ASSUME NEW k \in 0..m, k < m, k \in S
      PROVE  k + 1 \in S
  <2>1. k + 1 \in 1..m /\ k + 1 \in 1..n /\ (k + 1) - 1 = k
    BY <1>2
  <2>2. g[k + 1] = step[g[k]] /\ h[k + 1] = step[h[k]]
    BY <2>1 DEF IsIteration
  <2>. QED  BY <1>2, <2>1, <2>2
<1> HIDE DEF S
<1>3. \A k \in 0..m : k \in S
  BY <1>1, <1>2, UpTo
<1>. QED  BY <1>3 DEF S

\* Once at a fixed point, an iteration stays there.
LEMMA IterationStays ==
  ASSUME NEW step, NEW x, NEW m \in Nat, NEW n \in Nat, m <= n,
         NEW h, IsIteration(h, step, x, n), step[h[m]] = h[m]
  PROVE  h[n] = h[m]
<1> DEFINE S == {k \in Nat : m + k <= n => h[m + k] = h[m]}
<1>1. 0 \in S
  OBVIOUS
<1>2. ASSUME NEW k \in Nat, k \in S
      PROVE  k + 1 \in S
  <2>1. CASE m + k + 1 <= n
    <3>1. m + (k + 1) \in 1..n /\ (m + (k + 1)) - 1 = m + k /\ m + k <= n
      BY <2>1
    <3>2. h[m + (k + 1)] = step[h[m + k]]
      BY <3>1 DEF IsIteration
    <3>. QED  BY <1>2, <3>1, <3>2
  <2>. QED  BY <2>1
<1>3. n - m \in Nat /\ m + (n - m) = n
  OBVIOUS
<1> HIDE DEF S
<1>4. \A k \in 0..n - m : k \in S
  BY <1>1, <1>2, <1>3, UpTo
<1>5. n - m \in S
  BY <1>3, <1>4
<1>. QED  BY <1>3, <1>5 DEF S

\* The walk along silent steps is an iteration.
LEMMA SilentWalkIterates ==
  ASSUME NEW code, NEW p, NEW step \in [Places(code) -> Places(code)], p \in Places(code),
         \A q \in Places(code) : step[q] = Onward(code, q),
         Cardinality(Places(code)) \in Nat
  PROVE  IsIteration(SilentWalk(code, p), step, p, Cardinality(Places(code)))
<1> DEFINE n == Cardinality(Places(code))
           F(w) == [k \in 0..n |-> IF k = 0 THEN p ELSE Onward(code, w[k - 1])]
<1>1. PICK g \in [0..n -> Places(code)] : IsIteration(g, step, p, n)
  BY IterationExists
<1>2. \A k \in 1..n : g[k] = Onward(code, g[k - 1])
  <2> TAKE k \in 1..n
  <2>1. k - 1 \in 0..n
    OBVIOUS
  <2>. QED  BY <1>1, <2>1 DEF IsIteration
<1>3. g = F(g)
  BY <1>1, <1>2 DEF IsIteration
<1> DEFINE w == SilentWalk(code, p)
<1>4. w = CHOOSE v : v = F(v)
  BY DEF SilentWalk
<1>5. w = F(w)
  BY <1>3, <1>4
<1> HIDE DEF w
<1>6. n \in Nat
  OBVIOUS
<1>7. w[0] = p /\ \A k \in 1..n : w[k] = Onward(code, w[k - 1])
  BY <1>5, <1>6
<1> DEFINE S == {k \in 0..n : w[k] \in Places(code)}
<1>8. 0 \in S
  BY <1>6, <1>7
<1>9. ASSUME NEW k \in 0..n, k < n, k \in S
      PROVE  k + 1 \in S
  <2>1. k + 1 \in 1..n /\ (k + 1) - 1 = k
    BY <1>6, <1>9
  <2>2. w[k + 1] = step[w[k]] /\ w[k] \in Places(code)
    BY <1>7, <1>9, <2>1
  <2>. QED  BY <2>1, <2>2
<1> HIDE DEF S
<1>10. \A k \in 0..n : k \in S
  <2> HIDE DEF n
  <2>. QED  BY <1>6, <1>8, <1>9, UpTo
<1>11. ASSUME NEW k \in 1..n
       PROVE  w[k] = step[w[k - 1]]
  <2>1. k - 1 \in 0..n
    BY <1>6
  <2>2. w[k - 1] \in Places(code)
    BY <1>10, <2>1 DEF S
  <2>. QED  BY <1>7, <2>2
<1>. QED  BY <1>7, <1>11 DEF IsIteration, w

-----------------------------------------------------------------------------
(***************************************************************************)
(* Silent steps of a graph.                                                *)
(***************************************************************************)
\* Silent steps lead from p to q: every set of places that they do not leave holds q with p.
SilentTo(code, p, q) ==
  \A S \in SUBSET Places(code) :
    p \in S /\ (\A s \in S : Silent(code, s) => Following(code, s, 1) \in S) => q \in S

LEMMA PlaceOfBlock ==
  ASSUME NEW code, NEW entry, IsCFG(code, entry), NEW n \in DOMAIN code,
         NEW j \in 1..Len(code[n].body) + 1
  PROVE  <<n, j>> \in Places(code)
BY DEF Places

LEMMA PlaceParts ==
  ASSUME NEW code, NEW entry, IsCFG(code, entry), NEW p \in Places(code)
  PROVE  /\ p = <<p[1], p[2]>> /\ p[1] \in DOMAIN code
         /\ p[2] \in 1..Len(code[p[1]].body) + 1 /\ Len(code[p[1]].body) \in Nat
         /\ p[2] \in Nat /\ p[2] # 0
<1>1. PICK n \in DOMAIN code : p \in {<<n, j>> : j \in 1..Len(code[n].body) + 1}
  BY DEF Places
<1>2. PICK j \in 1..Len(code[n].body) + 1 : p = <<n, j>>
  BY <1>1
<1>3. IsBlock(code[n], DOMAIN code)
  BY DEF IsCFG
<1>4. code[n].body \in Seq({"nop", "op"})
  BY <1>3 DEF IsBlock
<1>5. Len(code[n].body) \in Nat
  BY <1>4
<1>6. j \in Nat /\ j # 0
  BY <1>5
<1>. QED  BY <1>2, <1>5, <1>6

\* The values that a function has on a finite set are finite in number.
LEMMA ImageFinite ==
  ASSUME NEW S, IsFiniteSet(S), NEW T, NEW f \in [S -> T], \A y \in T : \E x \in S : f[x] = y
  PROVE  IsFiniteSet(T)
<1>1. f \in Surjection(S, T)
  BY DEF Surjection
<1>. QED  BY <1>1, FS_Surjection

LEMMA PlacesFinite ==
  ASSUME NEW code, NEW entry, IsCFG(code, entry)
  PROVE  IsFiniteSet(Places(code))
<1> DEFINE Of(n) == {<<n, j>> : j \in 1..Len(code[n].body) + 1}
<1>1. ASSUME NEW n \in DOMAIN code
      PROVE  IsFiniteSet(Of(n))
  <2>1. IsBlock(code[n], DOMAIN code)
    BY DEF IsCFG
  <2>2. code[n].body \in Seq({"nop", "op"})
    BY <2>1 DEF IsBlock
  <2>3. Len(code[n].body) + 1 \in Int
    BY <2>2
  <2>4. IsFiniteSet(1..Len(code[n].body) + 1)
    BY <2>3, FS_Interval
  <2> DEFINE J == 1..Len(code[n].body) + 1
             f == [j \in J |-> <<n, j>>]
  <2>5. f \in [J -> Of(n)] /\ \A y \in Of(n) : \E j \in J : f[j] = y
    OBVIOUS
  <2> HIDE DEF f, Of
  <2>. QED  BY <2>4, <2>5, ImageFinite
<1>2. IsFiniteSet({Of(n) : n \in DOMAIN code})
  <2>1. IsFiniteSet(DOMAIN code)
    BY DEF IsCFG
  <2> DEFINE B == {Of(n) : n \in DOMAIN code}
             f == [n \in DOMAIN code |-> Of(n)]
  <2>2. f \in [DOMAIN code -> B] /\ \A y \in B : \E n \in DOMAIN code : f[n] = y
    OBVIOUS
  <2> HIDE DEF f, B
  <2>3. IsFiniteSet(B)
    BY <2>1, <2>2, ImageFinite
  <2>. QED  BY <2>3 DEF B
<1>3. IsFiniteSet(UNION {Of(n) : n \in DOMAIN code})
  BY <1>1, <1>2, FS_UNION
<1>. QED  BY <1>3 DEF Places

\* A silent step leads to a place.
LEMMA SilentStepPlace ==
  ASSUME NEW code, NEW entry, IsCFG(code, entry), NEW p \in Places(code), Silent(code, p)
  PROVE  Following(code, p, 1) \in Places(code)
<1> DEFINE n == p[1]
           j == p[2]
<1>1. /\ n \in DOMAIN code /\ j \in 1..Len(code[n].body) + 1 /\ Len(code[n].body) \in Nat
      /\ j \in Nat
  BY PlaceParts
<1>2. IsBlock(code[n], DOMAIN code)
  BY <1>1 DEF IsCFG
<1>3. CASE AtTerminator(code, p)
  <2>1. code[n].kind = "branch"
    BY <1>3 DEF Silent
  <2>2. code[n].succs \in Seq(DOMAIN code) /\ Len(code[n].succs) = 1
    BY <1>2, <2>1 DEF IsBlock
  <2>3. code[n].succs[1] \in DOMAIN code
    BY <2>2
  <2>4. PICK m \in DOMAIN code : m = code[n].succs[1]
    BY <2>3
  <2>5. IsBlock(code[m], DOMAIN code)
    BY DEF IsCFG
  <2>6. code[m].body \in Seq({"nop", "op"})
    BY <2>5 DEF IsBlock
  <2>7. 1 \in 1..Len(code[m].body) + 1
    BY <2>6
  <2>8. <<m, 1>> \in Places(code)
    BY <2>7, PlaceOfBlock
  <2>. QED  BY <1>3, <2>4, <2>8 DEF Following
<1>4. CASE ~AtTerminator(code, p)
  <2>1. j # Len(code[n].body) + 1
    BY <1>4 DEF AtTerminator
  <2>2. j + 1 \in 1..Len(code[n].body) + 1
    BY <1>1, <2>1
  <2>3. <<n, j + 1>> \in Places(code)
    BY <1>1, <2>2, PlaceOfBlock
  <2>. QED  BY <1>4, <2>3 DEF Following
<1>. QED  BY <1>3, <1>4

LEMMA SilentToSame ==
  ASSUME NEW code, NEW p
  PROVE  SilentTo(code, p, p)
BY DEF SilentTo

LEMMA SilentToNext ==
  ASSUME NEW code, NEW p, Silent(code, p)
  PROVE  SilentTo(code, p, Following(code, p, 1))
BY DEF SilentTo

LEMMA SilentToTrans ==
  ASSUME NEW code, NEW p, NEW q, NEW r, SilentTo(code, p, q), SilentTo(code, q, r)
  PROVE  SilentTo(code, p, r)
BY DEF SilentTo

LEMMA SilentToPlace ==
  ASSUME NEW code, NEW entry, IsCFG(code, entry), NEW p \in Places(code), NEW q,
         SilentTo(code, p, q)
  PROVE  q \in Places(code)
BY SilentStepPlace DEF SilentTo

\* A repetition in an iteration can be cut out.
LEMMA IterationShortens ==
  ASSUME NEW T, NEW step \in [T -> T], NEW x \in T, NEW n \in Nat,
         NEW g \in [0..n -> T], IsIteration(g, step, x, n),
         NEW i \in 0..n, NEW j \in 0..n, i < j, g[i] = g[j]
  PROVE  \E m \in Nat : m < n /\ Reaches(T, step, x, m, g[n])
<1> DEFINE d == j - i
           m == n - d
           h == [k \in 0..m |-> IF k <= i THEN g[k] ELSE g[k + d]]
<1>1. d \in Nat /\ d # 0 /\ m \in Nat /\ m < n /\ i <= m /\ i + d = j /\ m + d = n
  OBVIOUS
<1> HIDE DEF d, m
<1>2. ASSUME NEW k \in 0..m
      PROVE  h[k] \in T /\ k + d \in 0..n /\ k \in 0..n
  BY <1>1
<1>3. h \in [0..m -> T]
  BY <1>1, <1>2
<1>4. h[0] = x
  BY <1>1 DEF IsIteration
<1>5. h[m] = g[n]
  <2>1. CASE m = i
    BY <1>1, <2>1
  <2>2. CASE m # i
    <3>1. ~(m <= i) /\ m \in 0..m
      BY <1>1, <2>2
    <3>2. h[m] = g[m + d]
      BY <3>1
    <3>. QED  BY <1>1, <3>2
  <2>. QED  BY <2>1, <2>2
<1>6. ASSUME NEW k \in 1..m
      PROVE  h[k] = step[h[k - 1]]
  <2>1. k - 1 \in 0..m /\ k \in 0..m /\ k \in 1..n /\ k + d \in 1..n /\ (k + d) - 1 = (k - 1) + d
    BY <1>1
  <2>2. g[k] = step[g[k - 1]] /\ g[k + d] = step[g[(k - 1) + d]]
    BY <2>1 DEF IsIteration
  <2>3. CASE k <= i
    BY <2>1, <2>2, <2>3
  <2>4. CASE k = i + 1
    <3>1. k - 1 = i /\ (k - 1) + d = j /\ ~(k <= i) /\ k - 1 <= i
      BY <1>1, <2>4
    <3>2. h[k - 1] = g[i] /\ h[k] = g[k + d]
      BY <2>1, <3>1
    <3>. QED  BY <2>2, <3>1, <3>2
  <2>5. CASE k > i + 1
    <3>1. ~(k <= i) /\ ~(k - 1 <= i)
      BY <1>1, <2>5
    <3>2. h[k - 1] = g[(k - 1) + d] /\ h[k] = g[k + d]
      BY <2>1, <3>1
    <3>. QED  BY <2>2, <3>2
  <2>6. k <= i \/ k = i + 1 \/ k > i + 1
    BY <1>1
  <2>. QED  BY <2>3, <2>4, <2>5, <2>6
<1>7. IsIteration(h, step, x, m)
  BY <1>4, <1>6 DEF IsIteration
<1>8. Reaches(T, step, x, m, g[n])
  BY <1>3, <1>5, <1>7 DEF Reaches
<1>. QED  BY <1>1, <1>8

(***************************************************************************)
(* A place that can be reached by iterating is reached within as many      *)
(* steps as there are places.                                              *)
(***************************************************************************)
LEMMA IterationShort ==
  ASSUME NEW T, IsFiniteSet(T), NEW step \in [T -> T], NEW x \in T, NEW a,
         NEW n0 \in Nat, Reaches(T, step, x, n0, a)
  PROVE  \E n \in 0..Cardinality(T) : Reaches(T, step, x, n, a)
<1> DEFINE S == {n \in Nat : Reaches(T, step, x, n, a)}
<1>1. S \in SUBSET Nat /\ n0 \in S
  OBVIOUS
<1>2. PICK n \in S : \A k \in S : n <= k
  <2> HIDE DEF S
  <2>. QED  BY <1>1, LeastOf
<1>3. PICK g \in [0..n -> T] : IsIteration(g, step, x, n) /\ g[n] = a
  BY <1>2 DEF Reaches
<1>4. Cardinality(T) \in Nat
  BY FS_CardinalityType
<1>5. ASSUME n > Cardinality(T)
      PROVE  FALSE
  <2>1. 0..n = 0..n /\ IsFiniteSet(0..n) /\ Cardinality(0..n) = n + 1
    BY <1>2, FS_Interval
  <2>2. Cardinality(T) < Cardinality(0..n)
    BY <1>2, <1>4, <1>5, <2>1
  <2>3. PICK i, j \in 0..n : i # j /\ g[i] = g[j]
    BY <2>1, <2>2, FS_PigeonHole
  <2>4. PICK u, v \in 0..n : u < v /\ g[u] = g[v]
    BY <1>2, <2>3
  <2>5. PICK m \in Nat : m < n /\ Reaches(T, step, x, m, g[n])
    <3>1. n \in Nat
      BY <1>2
    <3> HIDE DEF S
    <3>. QED  BY <1>3, <2>4, <3>1, IterationShortens
  <2>6. m \in S
    BY <1>3, <2>5
  <2>. QED  BY <1>2, <2>5, <2>6
<1>6. n \in 0..Cardinality(T)
  BY <1>2, <1>4, <1>5
<1>. QED  BY <1>2, <1>6

(***************************************************************************)
(* A visible place that silent steps lead to is the first one.             *)
(***************************************************************************)
LEMMA SilentToFirst ==
  ASSUME NEW code, NEW entry, IsCFG(code, entry), NEW p \in Places(code), NEW a,
         SilentTo(code, p, a), ~Silent(code, a)
  PROVE  FirstVisible(code, p) = a
<1> DEFINE T == Places(code)
           step == [q \in T |-> Onward(code, q)]
           N == Cardinality(T)
           S == {s \in T : \E n \in Nat : Reaches(T, step, p, n, s)}
<1>1. IsFiniteSet(T) /\ N \in Nat
  BY PlacesFinite, FS_CardinalityType
<1>2. step \in [T -> T] /\ \A q \in T : step[q] = Onward(code, q)
  BY SilentStepPlace DEF Onward
<1> HIDE DEF T, step, N
<1>3. p \in S
  <2>1. PICK g \in [0..0 -> T] : IsIteration(g, step, p, 0)
    BY <1>2, IterationExists DEF T
  <2>2. g[0] = p /\ 0 \in Nat
    BY <2>1 DEF IsIteration
  <2>. QED  BY <2>1, <2>2 DEF T, Reaches
<1>4. ASSUME NEW s \in S, Silent(code, s)
      PROVE  Following(code, s, 1) \in S
  <2>1. s \in T
    OBVIOUS
  <2>2. PICK n \in Nat : Reaches(T, step, p, n, s)
    OBVIOUS
  <2>3. PICK g \in [0..n -> T] : IsIteration(g, step, p, n) /\ g[n] = s
    BY <2>2 DEF Reaches
  <2>4. step[s] = Following(code, s, 1)
    BY <1>2, <1>4, <2>1 DEF Onward
  <2>5. p \in T
    BY DEF T
  <2>6. PICK h \in [0..n + 1 -> T] : IsIteration(h, step, p, n + 1) /\ h[n + 1] = step[g[n]]
    <3> HIDE DEF S
    <3>. QED  BY <1>2, <2>3, <2>5, IterationExtends
  <2>7. Reaches(T, step, p, n + 1, Following(code, s, 1)) /\ n + 1 \in Nat
    BY <2>3, <2>4, <2>6 DEF Reaches
  <2>8. Following(code, s, 1) \in T
    BY <1>2, <2>1, <2>4
  <2>. QED  BY <2>7, <2>8
<1>5. a \in S
  <2>1. S \in SUBSET Places(code)
    BY DEF T
  <2> HIDE DEF S
  <2>. QED  BY <1>3, <1>4, <2>1 DEF SilentTo
<1>6. PICK n0 \in Nat : Reaches(T, step, p, n0, a)
  BY <1>5
<1>7. p \in T /\ a \in T
  BY <1>5 DEF T
<1> HIDE DEF S
<1>8. PICK n \in 0..N : Reaches(T, step, p, n, a)
  BY <1>1, <1>2, <1>6, <1>7, IterationShort DEF N
<1>10. PICK g \in [0..n -> T] : IsIteration(g, step, p, n) /\ g[n] = a
  BY <1>8 DEF Reaches
<1> DEFINE w == SilentWalk(code, p)
<1>11. IsIteration(w, step, p, N)
  BY <1>1, <1>2, SilentWalkIterates DEF T, N
<1>12. n \in Nat /\ n <= N
  BY <1>1
<1> HIDE DEF w
<1>13. g[n] = w[n]
  BY <1>1, <1>10, <1>11, <1>12, IterationUnique
<1>14. step[a] = a
  BY <1>2, <1>7 DEF Onward
<1>15. w[N] = w[n]
  BY <1>1, <1>10, <1>11, <1>12, <1>13, <1>14, IterationStays
<1>. QED  BY <1>10, <1>13, <1>15 DEF FirstVisible, w, N, T

-----------------------------------------------------------------------------
(***************************************************************************)
(* The inductive invariant.  Start is the place of the graph that an       *)
(* instruction of the code stands for, After the one that comes after it   *)
(* when it does not jump.                                                  *)
(***************************************************************************)
Kinds == {"label", "goto", "op", "cond", "jumptable", "return", "tailcall"}
Instructions(code) == [kind : Kinds, labels : Seq(Nat), at : (DOMAIN code \cup {0}) \X Nat]

Start(o, inst) ==
  IF inst.kind \in {"label", "goto"} THEN <<o[inst.labels[1]], 1>> ELSE inst.at
After(code, o, inst) ==
  IF inst.kind = "label" THEN <<o[inst.labels[1]], 1>>
  ELSE Following(code, inst.at, Len(inst.labels) + 1)
Falls(inst) == inst.kind \in {"label", "op", "cond"}

\* An instruction names blocks of the order; a visible one goes where its place goes.
SoundLabels(o, inst) ==
  /\ \A i \in DOMAIN inst.labels : inst.labels[i] \in DOMAIN o
  /\ inst.kind \in {"label", "goto"} => Len(inst.labels) = 1
SoundPlace(code, o, inst) ==
  inst.kind \notin {"label", "goto"} =>
    /\ inst.at \in Places(code) /\ ~Silent(code, inst.at)
    /\ \A i \in DOMAIN inst.labels :
         SilentTo(code, Following(code, inst.at, i), <<o[inst.labels[i]], 1>>)
SoundExits(code, inst) ==
  /\ inst.kind \in {"op", "cond", "jumptable"} =>
       /\ ~IsExit(code, inst.at)
       /\ Outcomes(code, inst.at) = 1..Len(inst.labels) + (IF inst.kind = "jumptable" THEN 0 ELSE 1)
  /\ inst.kind \in {"return", "tailcall"} => IsExit(code, inst.at)
Sound(code, o, inst) ==
  SoundLabels(o, inst) /\ SoundPlace(code, o, inst) /\ SoundExits(code, inst)

\* Each instruction that does not jump is followed by the one that comes after it.
Linked(code, o, c) ==
  \A q \in DOMAIN c :
    q + 1 \in DOMAIN c /\ Falls(c[q]) => SilentTo(code, After(code, o, c[q]), Start(o, c[q + 1]))

\* Where the last instruction falls.
LeadsTo(code, o, c, p) ==
  c # <<>> /\ Falls(c[Len(c)]) => SilentTo(code, After(code, o, c[Len(c)]), p)
Ends(c) == c # <<>> => ~Falls(c[Len(c)])

SoundCode(code, o, c) ==
  /\ c \in Seq(Instructions(code))
  /\ \A q \in DOMAIN c : Sound(code, o, c[q])
  /\ Linked(code, o, c)

IsDefinition(c, q, l) == c[q].kind = "label" /\ c[q].labels[1] = l
Once(c, l) == \E q \in DOMAIN c : \A r \in DOMAIN c : IsDefinition(c, r, l) <=> r = q
Never(c, l) == \A r \in DOMAIN c : ~IsDefinition(c, r, l)

Unstarted == linear = <<>> /\ block = 1 /\ index = 0
NotYetRun == last = [at |-> <<graph.entry, 0>>, out |-> 1]

OrderInv ==
  /\ stack \in Seq([node : DOMAIN graph.code, next : Nat \ {0}])
  /\ postorder \in Seq(DOMAIN graph.code)
  /\ \A i \in DOMAIN stack : stack[i].node \in visited
  /\ \A k \in DOMAIN postorder : postorder[k] \in visited
  /\ \A i \in DOMAIN stack : \A j \in DOMAIN Succs(stack[i].node) :
       j < stack[i].next => Succs(stack[i].node)[j] \in visited
  /\ \A k \in DOMAIN postorder : \A j \in DOMAIN Succs(postorder[k]) :
       Succs(postorder[k])[j] \in visited
  /\ \A n \in visited :
       (\E i \in DOMAIN stack : stack[i].node = n) \/ (\E k \in DOMAIN postorder : postorder[k] = n)
  /\ \A i, k \in DOMAIN stack : stack[i].node = stack[k].node => i = k
  /\ \A i, k \in DOMAIN postorder : postorder[i] = postorder[k] => i = k
  /\ \A i \in DOMAIN stack, k \in DOMAIN postorder : stack[i].node # postorder[k]
  /\ stack # <<>> => stack[1].node = graph.entry
  /\ stack = <<>> => postorder # <<>> /\ postorder[Len(postorder)] = graph.entry

(***************************************************************************)
(* The blocks in order: the entry comes first, every successor is there,   *)
(* none twice.                                                             *)
(***************************************************************************)
Ordered ==
  /\ order \in Seq(DOMAIN graph.code) /\ order # <<>> /\ order[1] = graph.entry
  /\ \A i, k \in DOMAIN order : order[i] = order[k] => i = k
  /\ \A k \in DOMAIN order : \A j \in DOMAIN Succs(order[k]) :
       \E l \in DOMAIN order : order[l] = Succs(order[k])[j]

EmitInv ==
  /\ block \in 1..Len(order) + 1 /\ index \in Nat
  /\ block > Len(order) => index = 0
  /\ block <= Len(order) => index <= Len(graph.code[order[block]].body) + 1
  /\ SoundCode(graph.code, order, linear)
  /\ block <= Len(order) =>
       LeadsTo(graph.code, order, linear, <<order[block], IF index = 0 THEN 1 ELSE index>>)
  /\ block > Len(order) => Ends(linear)
  /\ \A l \in DOMAIN order :
       IF l < block \/ (l = block /\ index # 0) THEN Once(linear, l) ELSE Never(linear, l)
  /\ IF block = 1 /\ index = 0 THEN linear = <<>> ELSE linear # <<>> /\ linear[1] = Llabel(1)

\* The whole code: it starts at the entry and does not run off its end.
Complete(g, o, c) ==
  /\ SoundCode(g.code, o, c) /\ Ends(c)
  /\ c # <<>> /\ c[1].kind = "label" /\ o[c[1].labels[1]] = g.entry

Kept == UsedLabels \cup {linear[1].labels[1]}

CleanupInv ==
  /\ pos \in 1..Len(linear) + 1 /\ newCode \in Seq(Instructions(graph.code))
  /\ \A q \in DOMAIN newCode :
       /\ \E r \in DOMAIN linear : newCode[q] = linear[r]
       /\ newCode[q].kind = "label" => newCode[q].labels[1] \in Kept
  /\ Linked(graph.code, order, newCode)
  /\ pos <= Len(linear) => LeadsTo(graph.code, order, newCode, Start(order, linear[pos]))
  /\ pos > Len(linear) => Ends(newCode)
  /\ IF pos = 1 THEN newCode = <<>> ELSE newCode # <<>> /\ newCode[1] = linear[1]
  /\ \A l \in Kept :
       IF \E r \in 1..pos - 1 : IsDefinition(linear, r, l)
       THEN Once(newCode, l) ELSE Never(newCode, l)

UsedOnce(c) == \A q \in DOMAIN c : \A i \in DOMAIN c[q].labels : Once(c, c[q].labels[i])

RunInv ==
  /\ pos \in DOMAIN linear
  /\ Graph!Here \in Places(graph.code)
  /\ SilentTo(graph.code, Graph!Here, Start(order, linear[pos]))
  /\ ~Graph!Finished

LInv ==
  /\ graph \in Graphs
  /\ pc \in {"order", "emit", "tunnel", "cleanup", "run", "halted"}
  /\ pc = "order" => OrderInv /\ Unstarted
  /\ pc # "order" => Ordered
  /\ pc = "emit" => EmitInv
  /\ pc \in {"tunnel", "cleanup", "run", "halted"} => Complete(graph, order, linear)
  /\ pc \in {"tunnel", "cleanup"} => \A l \in DOMAIN order : Once(linear, l)
  /\ pc \in {"order", "emit", "tunnel"} => pos = 1 /\ newCode = <<>>
  /\ pc = "cleanup" => CleanupInv
  /\ pc \in {"run", "halted"} => UsedOnce(linear)
  /\ pc = "run" => RunInv
  /\ pc \notin {"run", "halted"} => NotYetRun

-----------------------------------------------------------------------------
(***************************************************************************)
(* Code that grows at its end.                                             *)
(***************************************************************************)
LEMMA AppendParts ==
  ASSUME NEW T, NEW c \in Seq(T), NEW e \in T
  PROVE  /\ Append(c, e) \in Seq(T) /\ Append(c, e) # <<>>
         /\ Len(c) \in Nat /\ Len(Append(c, e)) = Len(c) + 1
         /\ DOMAIN c = 1..Len(c) /\ DOMAIN Append(c, e) = 1..Len(c) + 1
         /\ \A i \in 1..Len(c) : Append(c, e)[i] = c[i]
         /\ Append(c, e)[Len(c) + 1] = e
OBVIOUS

LEMMA LeadsOn ==
  ASSUME NEW code, NEW o, NEW c, NEW p, NEW q, LeadsTo(code, o, c, p), SilentTo(code, p, q)
  PROVE  LeadsTo(code, o, c, q)
BY SilentToTrans DEF LeadsTo

LEMMA AppendLinked ==
  ASSUME NEW code, NEW o, NEW T, NEW c \in Seq(T), NEW inst \in T,
         Linked(code, o, c), LeadsTo(code, o, c, Start(o, inst))
  PROVE  Linked(code, o, Append(c, inst))
<1> DEFINE d == Append(c, inst)
<1>1. /\ Len(c) \in Nat /\ DOMAIN c = 1..Len(c) /\ DOMAIN d = 1..Len(c) + 1
      /\ \A i \in 1..Len(c) : d[i] = c[i]
      /\ d[Len(c) + 1] = inst
  BY AppendParts
<1> HIDE DEF d
<1>2. ASSUME NEW q \in DOMAIN d, q + 1 \in DOMAIN d, Falls(d[q])
      PROVE  SilentTo(code, After(code, o, d[q]), Start(o, d[q + 1]))
  <2>1. q \in 1..Len(c) /\ d[q] = c[q]
    BY <1>1, <1>2
  <2>2. CASE q = Len(c)
    <3>1. c # <<>> /\ c[Len(c)] = d[q] /\ d[q + 1] = inst
      BY <1>1, <2>1, <2>2
    <3>. QED  BY <1>2, <3>1 DEF LeadsTo
  <2>3. CASE q # Len(c)
    <3>1. q + 1 \in DOMAIN c /\ q \in DOMAIN c /\ d[q + 1] = c[q + 1]
      BY <1>1, <2>1, <2>3
    <3>. QED  BY <1>2, <2>1, <3>1 DEF Linked
  <2>. QED  BY <2>2, <2>3
<1>. QED  BY <1>2 DEF Linked, d

LEMMA AppendSound ==
  ASSUME NEW code, NEW o, NEW c, SoundCode(code, o, c), NEW inst \in Instructions(code),
         Sound(code, o, inst), LeadsTo(code, o, c, Start(o, inst))
  PROVE  SoundCode(code, o, Append(c, inst))
<1> DEFINE d == Append(c, inst)
<1>1. c \in Seq(Instructions(code))
  BY DEF SoundCode
<1>2. Linked(code, o, d)
  BY <1>1, AppendLinked DEF SoundCode
<1>3. /\ Len(c) \in Nat /\ DOMAIN c = 1..Len(c) /\ DOMAIN d = 1..Len(c) + 1
      /\ \A i \in 1..Len(c) : d[i] = c[i]
      /\ d[Len(c) + 1] = inst /\ d \in Seq(Instructions(code))
  BY <1>1, AppendParts
<1> HIDE DEF d
<1>4. ASSUME NEW q \in DOMAIN d
      PROVE  Sound(code, o, d[q])
  <2>1. q = Len(c) + 1 \/ q \in 1..Len(c)
    BY <1>3
  <2>. QED  BY <1>3, <2>1 DEF SoundCode
<1>. QED  BY <1>2, <1>3, <1>4 DEF SoundCode, d

LEMMA AppendLeads ==
  ASSUME NEW code, NEW o, NEW T, NEW c \in Seq(T), NEW inst \in T, NEW p,
         Falls(inst) => SilentTo(code, After(code, o, inst), p)
  PROVE  LeadsTo(code, o, Append(c, inst), p)
<1>1. Append(c, inst)[Len(Append(c, inst))] = inst
  BY AppendParts
<1>. QED  BY <1>1 DEF LeadsTo

LEMMA AppendEnds ==
  ASSUME NEW T, NEW c \in Seq(T), NEW inst \in T, ~Falls(inst)
  PROVE  Ends(Append(c, inst))
<1>1. Append(c, inst)[Len(Append(c, inst))] = inst
  BY AppendParts
<1>. QED  BY <1>1 DEF Ends

\* An instruction that does not define l changes nothing about the definitions of l.
LEMMA AppendOther ==
  ASSUME NEW T, NEW c \in Seq(T), NEW inst \in T, NEW l, inst.kind # "label" \/ inst.labels[1] # l
  PROVE  /\ Once(c, l) => Once(Append(c, inst), l)
         /\ Never(c, l) => Never(Append(c, inst), l)
<1> DEFINE d == Append(c, inst)
<1>1. /\ Len(c) \in Nat /\ DOMAIN c = 1..Len(c) /\ DOMAIN d = 1..Len(c) + 1
      /\ \A i \in 1..Len(c) : d[i] = c[i]
      /\ d[Len(c) + 1] = inst
  BY AppendParts
<1> HIDE DEF d
<1>2. \A r \in DOMAIN c : r \in DOMAIN d /\ (IsDefinition(d, r, l) <=> IsDefinition(c, r, l))
  BY <1>1 DEF IsDefinition
<1>3. ~IsDefinition(d, Len(c) + 1, l)
  BY <1>1 DEF IsDefinition
<1>4. \A r \in DOMAIN d : r \in DOMAIN c \/ r = Len(c) + 1
  BY <1>1
<1>5. ASSUME Once(c, l)
      PROVE  Once(d, l)
  <2>1. PICK q \in DOMAIN c : \A r \in DOMAIN c : IsDefinition(c, r, l) <=> r = q
    BY <1>5 DEF Once
  <2>2. q \in DOMAIN d /\ q # Len(c) + 1
    BY <1>1, <2>1
  <2>3. \A r \in DOMAIN d : IsDefinition(d, r, l) <=> r = q
    BY <1>2, <1>3, <1>4, <2>1, <2>2
  <2>. QED  BY <2>2, <2>3 DEF Once
<1>6. ASSUME Never(c, l)
      PROVE  Never(d, l)
  BY <1>2, <1>3, <1>4, <1>6 DEF Never
<1>. QED  BY <1>5, <1>6 DEF d

LEMMA AppendDefinition ==
  ASSUME NEW T, NEW c \in Seq(T), NEW inst \in T, NEW l,
         inst.kind = "label", inst.labels[1] = l, Never(c, l)
  PROVE  Once(Append(c, inst), l)
<1> DEFINE d == Append(c, inst)
<1>1. /\ Len(c) \in Nat /\ DOMAIN c = 1..Len(c) /\ DOMAIN d = 1..Len(c) + 1
      /\ \A i \in 1..Len(c) : d[i] = c[i]
      /\ d[Len(c) + 1] = inst
  BY AppendParts
<1> HIDE DEF d
<1>2. \A r \in DOMAIN c : ~IsDefinition(d, r, l) /\ r # Len(c) + 1
  BY <1>1 DEF IsDefinition, Never
<1>3. IsDefinition(d, Len(c) + 1, l) /\ Len(c) + 1 \in DOMAIN d
  BY <1>1 DEF IsDefinition
<1>4. \A r \in DOMAIN d : r \in DOMAIN c \/ r = Len(c) + 1
  BY <1>1
<1>5. \A r \in DOMAIN d : IsDefinition(d, r, l) <=> r = Len(c) + 1
  BY <1>2, <1>3, <1>4
<1>. QED  BY <1>3, <1>5 DEF Once, d

\* The first instruction stays.
LEMMA AppendFirst ==
  ASSUME NEW T, NEW c \in Seq(T), NEW inst \in T, c # <<>>
  PROVE  Append(c, inst)[1] = c[1] /\ Append(c, inst) # <<>>
<1>1. Len(c) \in Nat /\ Len(c) # 0
  OBVIOUS
<1>2. 1 \in 1..Len(c)
  BY <1>1
<1>. QED  BY <1>2, AppendParts

-----------------------------------------------------------------------------
(***************************************************************************)
(* The instructions that are emitted.                                      *)
(***************************************************************************)
LEMMA BlockParts ==
  ASSUME NEW code, NEW entry, IsCFG(code, entry), NEW n \in DOMAIN code
  PROVE  /\ code[n].body \in Seq({"nop", "op"}) /\ Len(code[n].body) \in Nat
         /\ DOMAIN code[n].body = 1..Len(code[n].body)
         /\ code[n].succs \in Seq(DOMAIN code) /\ Len(code[n].succs) \in Nat
         /\ DOMAIN code[n].succs = 1..Len(code[n].succs)
         /\ \A j \in 1..Len(code[n].succs) : code[n].succs[j] \in DOMAIN code
         /\ code[n].kind \in BlockKinds
<1>1. IsBlock(code[n], DOMAIN code)
  BY DEF IsCFG
<1>2. code[n].body \in Seq({"nop", "op"}) /\ code[n].succs \in Seq(DOMAIN code)
      /\ code[n].kind \in BlockKinds
  BY <1>1 DEF IsBlock
<1>3. PICK b \in Seq({"nop", "op"}) : b = code[n].body
  BY <1>2
<1>4. PICK s \in Seq(DOMAIN code) : s = code[n].succs
  BY <1>2
<1>5. Len(b) \in Nat /\ DOMAIN b = 1..Len(b)
  OBVIOUS
<1>6. Len(s) \in Nat /\ DOMAIN s = 1..Len(s) /\ \A j \in 1..Len(s) : s[j] \in DOMAIN code
  OBVIOUS
<1>. QED  BY <1>2, <1>3, <1>4, <1>5, <1>6

LEMMA BlockShape ==
  ASSUME NEW code, NEW entry, IsCFG(code, entry), NEW n \in DOMAIN code
  PROVE  /\ code[n].kind = "branch" => Len(code[n].succs) = 1
         /\ code[n].kind = "cond" => Len(code[n].succs) = 2
         /\ code[n].kind = "jumptable" => Len(code[n].succs) > 0
         /\ code[n].kind \in {"return", "tailcall"} => code[n].succs = <<>>
BY DEF IsCFG, IsBlock

\* The place of a block's terminator.
LEMMA TerminatorPlace ==
  ASSUME NEW code, NEW entry, IsCFG(code, entry), NEW n \in DOMAIN code
  PROVE  LET p == <<n, Len(code[n].body) + 1>>
         IN  /\ p \in Places(code) /\ p \in (DOMAIN code \cup {0}) \X Nat
             /\ AtTerminator(code, p)
             /\ Silent(code, p) <=> code[n].kind = "branch"
             /\ \A j : Following(code, p, j) = <<code[n].succs[j], 1>>
             /\ code[n].succs # <<>> => Outcomes(code, p) = 1..Len(code[n].succs)
             /\ IsExit(code, p) <=> code[n].succs = <<>>
<1> DEFINE p == <<n, Len(code[n].body) + 1>>
<1>1. Len(code[n].body) \in Nat
  BY BlockParts
<1>2. Len(code[n].body) + 1 \in 1..Len(code[n].body) + 1 /\ Len(code[n].body) + 1 \in Nat
  BY <1>1
<1>3. p \in Places(code) /\ p \in (DOMAIN code \cup {0}) \X Nat
  BY <1>2, PlaceOfBlock
<1>4. p[1] = n /\ p[2] = Len(code[n].body) + 1
  OBVIOUS
<1>5. AtTerminator(code, p)
  BY <1>4 DEF AtTerminator
<1> HIDE DEF p
<1>6. Silent(code, p) <=> code[n].kind = "branch"
  BY <1>4, <1>5 DEF Silent
<1>7. \A j : Following(code, p, j) = <<code[n].succs[j], 1>>
  BY <1>4, <1>5 DEF Following
<1>8. code[n].succs # <<>> => Outcomes(code, p) = 1..Len(code[n].succs)
  BY <1>4, <1>5 DEF Outcomes
<1>9. IsExit(code, p) <=> code[n].succs = <<>>
  BY <1>4, <1>5 DEF IsExit
<1>. QED  BY <1>3, <1>5, <1>6, <1>7, <1>8, <1>9 DEF p

\* The place of an instruction of a block's body.
LEMMA BodyPlace ==
  ASSUME NEW code, NEW entry, IsCFG(code, entry), NEW n \in DOMAIN code,
         NEW j \in DOMAIN code[n].body
  PROVE  LET p == <<n, j>>
         IN  /\ p \in Places(code) /\ p \in (DOMAIN code \cup {0}) \X Nat
             /\ ~AtTerminator(code, p)
             /\ Silent(code, p) <=> code[n].body[j] = "nop"
             /\ \A i : Following(code, p, i) = <<n, j + 1>>
             /\ Outcomes(code, p) = {1} /\ ~IsExit(code, p)
<1> DEFINE p == <<n, j>>
<1>1. Len(code[n].body) \in Nat /\ j \in 1..Len(code[n].body)
  BY BlockParts
<1>2. j \in 1..Len(code[n].body) + 1 /\ j \in Nat /\ j # Len(code[n].body) + 1
  BY <1>1
<1>3. p \in Places(code) /\ p \in (DOMAIN code \cup {0}) \X Nat
  BY <1>2, PlaceOfBlock
<1>4. p[1] = n /\ p[2] = j
  OBVIOUS
<1> HIDE DEF p
<1>5. ~AtTerminator(code, p)
  BY <1>2, <1>4 DEF AtTerminator
<1>6. Silent(code, p) <=> code[n].body[j] = "nop"
  BY <1>4, <1>5 DEF Silent
<1>7. \A i : Following(code, p, i) = <<n, j + 1>>
  BY <1>4, <1>5 DEF Following
<1>8. Outcomes(code, p) = {1} /\ ~IsExit(code, p)
  BY <1>5 DEF Outcomes, IsExit
<1>. QED  BY <1>3, <1>5, <1>6, <1>7, <1>8 DEF p

\* A visible place goes on to a place.
LEMMA OutcomePlace ==
  ASSUME NEW code, NEW entry, IsCFG(code, entry), NEW p \in Places(code),
         ~IsExit(code, p), NEW out \in Outcomes(code, p)
  PROVE  Following(code, p, out) \in Places(code)
<1> DEFINE n == p[1]
           j == p[2]
<1>1. /\ n \in DOMAIN code /\ j \in 1..Len(code[n].body) + 1 /\ Len(code[n].body) \in Nat
      /\ j \in Nat
  BY PlaceParts
<1>2. CASE AtTerminator(code, p)
  <2>1. code[n].succs # <<>>
    BY <1>2 DEF IsExit
  <2>2. out \in 1..Len(code[n].succs)
    BY <1>2, <2>1 DEF Outcomes
  <2>3. code[n].succs[out] \in DOMAIN code
    BY <1>1, <2>2, BlockParts
  <2>4. PICK m \in DOMAIN code : m = code[n].succs[out]
    BY <2>3
  <2>5. Len(code[m].body) \in Nat
    BY BlockParts
  <2>6. 1 \in 1..Len(code[m].body) + 1
    BY <2>5
  <2>7. <<m, 1>> \in Places(code)
    BY <2>6, PlaceOfBlock
  <2>. QED  BY <1>2, <2>4, <2>7 DEF Following
<1>3. CASE ~AtTerminator(code, p)
  <2>1. j # Len(code[n].body) + 1
    BY <1>3 DEF AtTerminator
  <2>2. j + 1 \in 1..Len(code[n].body) + 1
    BY <1>1, <2>1
  <2>3. <<n, j + 1>> \in Places(code)
    BY <1>1, <2>2, PlaceOfBlock
  <2>. QED  BY <1>3, <2>3 DEF Following
<1>. QED  BY <1>2, <1>3

LEMMA LabelSound ==
  ASSUME NEW code, NEW o, NEW l \in DOMAIN o, l \in Nat
  PROVE  /\ Llabel(l) \in Instructions(code) /\ Sound(code, o, Llabel(l))
         /\ Start(o, Llabel(l)) = <<o[l], 1>> /\ After(code, o, Llabel(l)) = <<o[l], 1>>
         /\ Falls(Llabel(l))
<1>1. Llabel(l) \in Instructions(code)
  BY DEF Llabel, Instructions, Kinds
<1>2. Sound(code, o, Llabel(l))
  BY DEF Sound, SoundLabels, SoundPlace, SoundExits, Llabel
<1>. QED  BY <1>1, <1>2 DEF Start, After, Falls, Llabel

LEMMA GotoSound ==
  ASSUME NEW code, NEW o, NEW l \in DOMAIN o, l \in Nat
  PROVE  /\ Lgoto(l) \in Instructions(code) /\ Sound(code, o, Lgoto(l))
         /\ Start(o, Lgoto(l)) = <<o[l], 1>>
         /\ ~Falls(Lgoto(l)) /\ Lgoto(l).kind # "label"
<1>1. Lgoto(l) \in Instructions(code)
  BY DEF Lgoto, Instructions, Kinds
<1>2. Sound(code, o, Lgoto(l))
  BY DEF Sound, SoundLabels, SoundPlace, SoundExits, Lgoto
<1>. QED  BY <1>1, <1>2 DEF Start, Falls, Lgoto

LEMMA OpSound ==
  ASSUME NEW code, NEW entry, IsCFG(code, entry), NEW o, NEW n \in DOMAIN code,
         NEW j \in DOMAIN code[n].body, code[n].body[j] # "nop"
  PROVE  LET inst == Lop(<<n, j>>)
         IN  /\ inst \in Instructions(code) /\ Sound(code, o, inst)
             /\ Start(o, inst) = <<n, j>> /\ After(code, o, inst) = <<n, j + 1>>
             /\ inst.kind # "label"
<1> DEFINE p == <<n, j>>
           inst == Lop(p)
<1>1. /\ p \in Places(code) /\ p \in (DOMAIN code \cup {0}) \X Nat
      /\ ~Silent(code, p)
      /\ \A i : Following(code, p, i) = <<n, j + 1>>
      /\ Outcomes(code, p) = {1} /\ ~IsExit(code, p)
  BY BodyPlace
<1> HIDE DEF p
<1>2. inst.kind = "op" /\ inst.labels = <<>> /\ inst.at = p
  BY DEF Lop
<1>3. inst \in Instructions(code)
  BY <1>1 DEF Lop, Instructions, Kinds
<1> HIDE DEF inst
<1>4. 1..Len(inst.labels) + (IF inst.kind = "jumptable" THEN 0 ELSE 1) = {1}
  BY <1>2
<1>5. DOMAIN inst.labels = {}
  BY <1>2
<1>6. Sound(code, o, inst)
  BY <1>1, <1>2, <1>4, <1>5 DEF Sound, SoundLabels, SoundPlace, SoundExits
<1>7. Start(o, inst) = p /\ After(code, o, inst) = <<n, j + 1>>
  BY <1>1, <1>2 DEF Start, After
<1>. QED  BY <1>2, <1>3, <1>6, <1>7 DEF inst, p

LEMMA CondSound ==
  ASSUME NEW code, NEW entry, IsCFG(code, entry), NEW o, NEW n \in DOMAIN code,
         code[n].kind = "cond", NEW l \in DOMAIN o, l \in Nat, o[l] = code[n].succs[1]
  PROVE  LET p == <<n, Len(code[n].body) + 1>>
             inst == Lcond(p, l)
         IN  /\ inst \in Instructions(code) /\ Sound(code, o, inst)
             /\ Start(o, inst) = p /\ After(code, o, inst) = <<code[n].succs[2], 1>>
             /\ inst.kind # "label"
<1> DEFINE p == <<n, Len(code[n].body) + 1>>
           inst == Lcond(p, l)
<1>1. Len(code[n].succs) = 2 /\ code[n].succs # <<>>
  BY BlockShape
<1>2. /\ p \in Places(code) /\ p \in (DOMAIN code \cup {0}) \X Nat
      /\ ~Silent(code, p)
      /\ \A j : Following(code, p, j) = <<code[n].succs[j], 1>>
      /\ Outcomes(code, p) = 1..2 /\ ~IsExit(code, p)
  BY <1>1, TerminatorPlace
<1> HIDE DEF p
<1>3. inst.kind = "cond" /\ inst.labels = <<l>> /\ inst.at = p
  BY DEF Lcond
<1>4. inst \in Instructions(code)
  BY <1>2 DEF Lcond, Instructions, Kinds
<1> HIDE DEF inst
<1>5. Len(inst.labels) = 1 /\ DOMAIN inst.labels = {1} /\ inst.labels[1] = l
  BY <1>3
<1>6. 1..Len(inst.labels) + (IF inst.kind = "jumptable" THEN 0 ELSE 1) = 1..2
  BY <1>3, <1>5
<1>7. SilentTo(code, Following(code, p, 1), <<o[l], 1>>)
  BY <1>2, SilentToSame
<1>8. SoundLabels(o, inst)
  BY <1>3, <1>5 DEF SoundLabels
<1>9. SoundPlace(code, o, inst)
  BY <1>2, <1>3, <1>5, <1>7 DEF SoundPlace
<1>10. SoundExits(code, inst)
  BY <1>2, <1>3, <1>6 DEF SoundExits
<1>11. Start(o, inst) = p /\ After(code, o, inst) = <<code[n].succs[2], 1>>
  BY <1>2, <1>3, <1>5 DEF Start, After
<1>. QED  BY <1>3, <1>4, <1>8, <1>9, <1>10, <1>11 DEF inst, p, Sound

LEMMA JumptableSound ==
  ASSUME NEW code, NEW entry, IsCFG(code, entry), NEW o, NEW n \in DOMAIN code,
         code[n].kind = "jumptable", NEW ls \in [DOMAIN code[n].succs -> Nat],
         \A j \in DOMAIN code[n].succs : ls[j] \in DOMAIN o /\ o[ls[j]] = code[n].succs[j]
  PROVE  LET p == <<n, Len(code[n].body) + 1>>
             inst == Ljumptable(p, ls)
         IN  /\ inst \in Instructions(code) /\ Sound(code, o, inst)
             /\ Start(o, inst) = p /\ ~Falls(inst) /\ inst.kind # "label"
<1> DEFINE p == <<n, Len(code[n].body) + 1>>
           inst == Ljumptable(p, ls)
<1>1. code[n].succs # <<>> /\ Len(code[n].succs) \in Nat
      /\ DOMAIN code[n].succs = 1..Len(code[n].succs)
  BY BlockShape, BlockParts
<1>2. /\ p \in Places(code) /\ p \in (DOMAIN code \cup {0}) \X Nat
      /\ ~Silent(code, p)
      /\ \A j : Following(code, p, j) = <<code[n].succs[j], 1>>
      /\ Outcomes(code, p) = 1..Len(code[n].succs) /\ ~IsExit(code, p)
  BY <1>1, TerminatorPlace
<1> HIDE DEF p
<1>3. inst.kind = "jumptable" /\ inst.labels = ls /\ inst.at = p
  BY DEF Ljumptable
<1>4. ls \in Seq(Nat) /\ Len(ls) = Len(code[n].succs) /\ DOMAIN ls = DOMAIN code[n].succs
  BY <1>1
<1>5. inst \in Instructions(code)
  BY <1>2, <1>4 DEF Ljumptable, Instructions, Kinds
<1> HIDE DEF inst
<1>6. 1..Len(inst.labels) + (IF inst.kind = "jumptable" THEN 0 ELSE 1) = 1..Len(code[n].succs)
  BY <1>1, <1>3, <1>4
<1>7. \A j \in DOMAIN ls : SilentTo(code, Following(code, p, j), <<o[ls[j]], 1>>)
  BY <1>2, <1>4, SilentToSame
<1>8. SoundLabels(o, inst)
  BY <1>3, <1>4 DEF SoundLabels
<1>9. SoundPlace(code, o, inst)
  BY <1>2, <1>3, <1>7 DEF SoundPlace
<1>10. SoundExits(code, inst)
  BY <1>2, <1>3, <1>6 DEF SoundExits
<1>11. Start(o, inst) = p /\ ~Falls(inst)
  BY <1>3 DEF Start, Falls
<1>. QED  BY <1>3, <1>5, <1>8, <1>9, <1>10, <1>11 DEF inst, p, Sound

LEMMA EndSound ==
  ASSUME NEW code, NEW entry, IsCFG(code, entry), NEW o, NEW n \in DOMAIN code,
         code[n].kind \in {"return", "tailcall"}
  PROVE  LET p == <<n, Len(code[n].body) + 1>>
             inst == Lend(p, code[n].kind)
         IN  /\ inst \in Instructions(code) /\ Sound(code, o, inst)
             /\ Start(o, inst) = p /\ ~Falls(inst) /\ inst.kind # "label"
<1> DEFINE p == <<n, Len(code[n].body) + 1>>
           inst == Lend(p, code[n].kind)
<1>1. code[n].succs = <<>>
  BY BlockShape
<1>2. /\ p \in Places(code) /\ p \in (DOMAIN code \cup {0}) \X Nat
      /\ ~Silent(code, p) /\ IsExit(code, p)
  BY <1>1, TerminatorPlace
<1> HIDE DEF p
<1>3. inst.kind \in {"return", "tailcall"} /\ inst.labels = <<>> /\ inst.at = p
  BY DEF Lend
<1>4. inst \in Instructions(code)
  BY <1>2 DEF Lend, Instructions, Kinds
<1> HIDE DEF inst
<1>5. DOMAIN inst.labels = {}
  BY <1>3
<1>6. SoundLabels(o, inst)
  BY <1>3, <1>5 DEF SoundLabels
<1>7. SoundPlace(code, o, inst)
  BY <1>2, <1>3, <1>5 DEF SoundPlace
<1>8. SoundExits(code, inst)
  BY <1>2, <1>3 DEF SoundExits
<1>9. Start(o, inst) = p /\ ~Falls(inst)
  BY <1>3 DEF Start, Falls
<1>. QED  BY <1>3, <1>4, <1>6, <1>7, <1>8, <1>9 DEF inst, p, Sound

-----------------------------------------------------------------------------
(***************************************************************************)
(* computeOrder.                                                           *)
(***************************************************************************)
LEMMA SeqParts ==
  ASSUME NEW T, NEW c \in Seq(T)
  PROVE  /\ Len(c) \in Nat /\ DOMAIN c = 1..Len(c) /\ c \in [1..Len(c) -> T]
         /\ \A i \in 1..Len(c) : c[i] \in T
OBVIOUS

LEMMA SeqOfFunction ==
  ASSUME NEW T, NEW m \in Nat, NEW c \in [1..m -> T]
  PROVE  c \in Seq(T) /\ Len(c) = m
OBVIOUS

LEMMA GraphIsCFG ==
  ASSUME graph \in Graphs
  PROVE  IsCFG(graph.code, graph.entry)
BY GraphsAssumption

LEMMA InitInv ==
  ASSUME Init
  PROVE  LInv
<1>1. graph \in Graphs
  BY DEF Init
<1>2. graph.entry \in DOMAIN graph.code
  BY <1>1, GraphIsCFG DEF IsCFG
<1>3. PICK e \in DOMAIN graph.code : e = graph.entry
  BY <1>2
<1> DEFINE F == [node : DOMAIN graph.code, next : Nat \ {0}]
           f == [node |-> e, next |-> 1]
<1>4. stack = <<f>> /\ visited = {e} /\ postorder = <<>>
  BY <1>3 DEF Init
<1>5. f \in F /\ f.node = e /\ f.next = 1
  OBVIOUS
<1> HIDE DEF f
<1>6. stack \in Seq(F) /\ DOMAIN stack = {1} /\ stack[1] = f /\ stack # <<>>
  BY <1>4, <1>5
<1>7. postorder \in Seq(DOMAIN graph.code) /\ DOMAIN postorder = {}
  BY <1>4
<1>8. \A j \in DOMAIN Succs(e) : ~(j < f.next)
  <2>1. DOMAIN Succs(e) = 1..Len(Succs(e)) /\ Len(Succs(e)) \in Nat
    BY <1>1, GraphIsCFG, BlockParts DEF Succs
  <2>. QED  BY <1>5, <2>1
<1>9. OrderInv
  BY <1>3, <1>4, <1>5, <1>6, <1>7, <1>8 DEF OrderInv
<1>. QED  BY <1>1, <1>9 DEF Init, LInv, Unstarted, NotYetRun

\* A step that only orders blocks has to keep OrderInv.
LEMMA OrderStep ==
  ASSUME LInv, pc = "order", OrderInv',
         UNCHANGED <<graph, order, emitting, linear, newCode, pc, pos, last, tick>>
  PROVE  LInv'
BY DEF LInv, Unstarted, NotYetRun, emitting

LEMMA VisitSuccessorInv ==
  ASSUME LInv, VisitSuccessor
  PROVE  LInv'
<1> DEFINE C == DOMAIN graph.code
           F == [node : C, next : Nat \ {0}]
           m == Len(stack)
           s == Succs(Top.node)[Top.next]
           back == [stack EXCEPT ![m].next = @ + 1]
<1>1. /\ OrderInv /\ graph \in Graphs /\ pc = "order" /\ stack # <<>>
      /\ Top.next <= Len(Succs(Top.node))
  BY DEF LInv, VisitSuccessor
<1>2. stack \in Seq(F) /\ postorder \in Seq(C)
  BY <1>1 DEF OrderInv
<1>3. m \in Nat /\ m # 0 /\ DOMAIN stack = 1..m /\ m \in 1..m
  BY <1>1, <1>2
<1>4. \A i \in 1..m : stack[i] \in F
  <2> HIDE DEF F
  <2>. QED  BY <1>2, SeqParts
<1>5. stack[m] \in F /\ Top = stack[m]
  BY <1>3, <1>4 DEF Top
<1>6. PICK n \in C, x \in Nat \ {0} : stack[m].node = n /\ stack[m].next = x
  BY <1>5
<1>7. x + 1 \in Nat \ {0} /\ x \in Nat
  OBVIOUS
<1>8. /\ Len(Succs(n)) \in Nat /\ DOMAIN Succs(n) = 1..Len(Succs(n))
      /\ \A j \in 1..Len(Succs(n)) : Succs(n)[j] \in C
  BY <1>1, GraphIsCFG, BlockParts DEF Succs
<1>9. x \in 1..Len(Succs(n)) /\ s = Succs(n)[x]
  BY <1>1, <1>5, <1>6, <1>7, <1>8
<1>10. s \in C
  BY <1>8, <1>9
<1>11. back[m] = [stack[m] EXCEPT !.next = x + 1]
  BY <1>2, <1>3, <1>6
<1>12. back[m] \in F /\ back[m].node = n /\ back[m].next = x + 1
  BY <1>5, <1>6, <1>7, <1>11
<1>13. DOMAIN back = 1..m /\ Len(back) = m /\ \A i \in 1..m : i # m => back[i] = stack[i]
  BY <1>2, <1>3
<1> HIDE DEF back, s, m
<1>14. back \in Seq(F)
  <2>1. \A i \in 1..m : back[i] \in F
    BY <1>4, <1>12, <1>13
  <2>2. back \in [1..m -> F]
    BY <1>13, <2>1, <1>2 DEF back
  <2> HIDE DEF F
  <2>. QED  BY <1>3, <2>2, SeqOfFunction
<1>15. /\ IF s \in visited
          THEN stack' = back /\ visited' = visited
          ELSE stack' = Append(back, [node |-> s, next |-> 1]) /\ visited' = visited \cup {s}
       /\ postorder' = postorder /\ graph' = graph
  BY DEF VisitSuccessor, s, back, m
<1>16. \A i \in 1..m : back[i].node = stack[i].node
  BY <1>6, <1>12, <1>13
<1>17. s \in visited' /\ \A v \in visited : v \in visited'
  BY <1>15
<1>18. ASSUME NEW i \in 1..m, NEW j \in DOMAIN Succs(back[i].node), j < back[i].next
       PROVE  Succs(back[i].node)[j] \in visited'
  <2>1. CASE i = m /\ j = x
    BY <1>9, <1>12, <1>17, <2>1
  <2>2. CASE i = m /\ j # x
    <3>1. back[i].node = n /\ j \in 1..Len(Succs(n)) /\ j < x
      BY <1>8, <1>12, <1>18, <2>2
    <3>2. /\ i \in DOMAIN stack /\ stack[i].node = n /\ j < stack[i].next
          /\ j \in DOMAIN Succs(stack[i].node)
      BY <1>3, <1>6, <1>8, <2>2, <3>1
    <3>3. Succs(stack[i].node)[j] \in visited
      BY <1>1, <3>2 DEF OrderInv
    <3>. QED  BY <1>17, <3>1, <3>2, <3>3
  <2>3. CASE i # m
    <3>1. back[i] = stack[i] /\ i \in DOMAIN stack
      BY <1>3, <1>13, <2>3
    <3>2. Succs(stack[i].node)[j] \in visited
      BY <1>1, <1>18, <3>1 DEF OrderInv
    <3>. QED  BY <1>17, <3>1, <3>2
  <2>. QED  BY <2>1, <2>2, <2>3
<1>19. \A v : Succs(v)' = Succs(v)
  BY <1>15 DEF Succs
<1>20. CASE s \in visited
  <2>1. stack' = back /\ visited' = visited /\ postorder' = postorder /\ graph' = graph
    BY <1>15, <1>20
  <2>2. stack' \in Seq([node : DOMAIN graph'.code, next : Nat \ {0}])
    BY <1>14, <2>1
  <2>3. stack' # <<>> /\ DOMAIN stack' = 1..m /\ DOMAIN stack = 1..m
    BY <1>3, <1>13, <2>1
  <2>4. 1 \in 1..m
    BY <1>3
  <2>5. OrderInv'
    <3> HIDE DEF C, F
    <3>1. /\ \A i \in DOMAIN stack' : stack'[i].node \in visited'
          /\ \A k \in DOMAIN postorder' : postorder'[k] \in visited'
      BY <1>1, <1>16, <2>1, <2>3 DEF OrderInv
    <3>2. \A i \in DOMAIN stack' : \A j \in DOMAIN Succs(stack[i].node)' :
             j < stack'[i].next => Succs(stack[i].node)'[j] \in visited'
      BY <1>18, <1>19, <2>1, <2>3 DEF Succs
    <3>3. \A k \in DOMAIN postorder' : \A j \in DOMAIN Succs(postorder[k])' :
             Succs(postorder[k])'[j] \in visited'
      BY <1>1, <2>1 DEF OrderInv, Succs
    <3>4. \A v \in visited' :
            \/ \E i \in DOMAIN stack' : stack'[i].node = v
            \/ \E k \in DOMAIN postorder' : postorder'[k] = v
      BY <1>1, <1>16, <2>1, <2>3 DEF OrderInv
    <3>5. /\ \A i, k \in DOMAIN stack' : stack'[i].node = stack'[k].node => i = k
          /\ \A i, k \in DOMAIN postorder' : postorder'[i] = postorder'[k] => i = k
          /\ \A i \in DOMAIN stack', k \in DOMAIN postorder' : stack'[i].node # postorder'[k]
      BY <1>1, <1>16, <2>1, <2>3 DEF OrderInv
    <3>6. stack'[1].node = graph'.entry
      BY <1>1, <1>16, <2>1, <2>3, <2>4 DEF OrderInv
    <3>7. postorder' \in Seq(DOMAIN graph'.code)
      BY <1>2, <2>1 DEF C
    <3>. QED  BY <2>2, <2>3, <3>1, <3>2, <3>3, <3>4, <3>5, <3>6, <3>7 DEF OrderInv
  <2>. QED  BY <1>1, <2>5, OrderStep DEF VisitSuccessor
<1>21. CASE s \notin visited
  <2> DEFINE f == [node |-> s, next |-> 1]
             st == Append(back, f)
  <2>1. stack' = st /\ visited' = visited \cup {s} /\ postorder' = postorder /\ graph' = graph
    BY <1>15, <1>21
  <2>2. f \in F /\ f.node = s /\ f.next = 1
    BY <1>10
  <2> HIDE DEF f
  <2>3. st \in Seq(F) /\ st # <<>> /\ DOMAIN st = 1..m + 1 /\ st[m + 1] = f
        /\ \A i \in 1..m : st[i] = back[i]
    BY <1>13, <1>14, <2>2, AppendParts
  <2> HIDE DEF st
  <2>4. /\ DOMAIN stack = 1..m /\ \A i \in 1..m + 1 : i \in 1..m \/ i = m + 1
        /\ \A i \in 1..m : i \in 1..m + 1 /\ i # m + 1
        /\ m + 1 \in 1..m + 1 /\ 1 \in 1..m
    BY <1>3
  <2>5. \A i \in 1..m : st[i].node = stack[i].node
    BY <1>16, <2>3
  <2>6. /\ \A i \in 1..m : stack[i].node # s
        /\ \A k \in DOMAIN postorder : postorder[k] # s
    BY <1>1, <1>3, <1>21 DEF OrderInv
  <2>7. OrderInv'
    <3>1. stack' \in Seq([node : DOMAIN graph'.code, next : Nat \ {0}])
      BY <2>1, <2>3
    <3>2. postorder' \in Seq(DOMAIN graph'.code)
      BY <1>2, <2>1
    <3> HIDE DEF C, F
    <3>3. /\ \A i \in DOMAIN stack' : stack'[i].node \in visited'
          /\ \A k \in DOMAIN postorder' : postorder'[k] \in visited'
      BY <1>1, <2>1, <2>2, <2>3, <2>4, <2>5 DEF OrderInv
    <3>4. ASSUME NEW i \in DOMAIN stack', NEW j \in DOMAIN Succs(stack[i].node)', j < stack'[i].next
          PROVE  Succs(stack[i].node)'[j] \in visited'
      <4>1. i \in 1..m + 1 /\ stack'[i] = st[i] /\ Succs(stack[i].node)' = Succs(st[i].node)
        BY <2>1, <2>3 DEF Succs
      <4>2. CASE i = m + 1
        <5>1. st[i].node = s /\ st[i].next = 1
          BY <2>2, <2>3, <4>2
        <5>2. DOMAIN Succs(s) = 1..Len(Succs(s)) /\ Len(Succs(s)) \in Nat
          BY <1>1, <1>10, GraphIsCFG, BlockParts DEF Succs, C
        <5>. QED  BY <3>4, <4>1, <5>1, <5>2
      <4>3. CASE i \in 1..m
        BY <1>18, <2>3, <3>4, <4>1, <4>3
      <4>. QED  BY <2>4, <4>1, <4>2, <4>3
    <3>5. \A k \in DOMAIN postorder' : \A j \in DOMAIN Succs(postorder[k])' :
             Succs(postorder[k])'[j] \in visited'
      BY <1>1, <2>1 DEF OrderInv, Succs
    <3>6. ASSUME NEW v \in visited'
          PROVE  \/ \E i \in DOMAIN stack' : stack'[i].node = v
                 \/ \E k \in DOMAIN postorder' : postorder'[k] = v
      <4>1. CASE v = s
        BY <2>1, <2>2, <2>3, <2>4, <4>1
      <4>2. CASE v \in visited
        <5>1. \/ \E i \in DOMAIN stack : stack[i].node = v
              \/ \E k \in DOMAIN postorder : postorder[k] = v
          BY <1>1, <4>2 DEF OrderInv
        <5>2. ASSUME NEW i \in DOMAIN stack, stack[i].node = v
              PROVE  i \in DOMAIN stack' /\ stack'[i].node = v
          BY <2>1, <2>3, <2>4, <2>5, <5>2
        <5>. QED  BY <2>1, <5>1, <5>2
      <4>. QED  BY <2>1, <4>1, <4>2
    <3>7. \A i, k \in DOMAIN stack' : stack'[i].node = stack'[k].node => i = k
      BY <1>1, <2>1, <2>2, <2>3, <2>4, <2>5, <2>6 DEF OrderInv
    <3>8. \A i, k \in DOMAIN postorder' : postorder'[i] = postorder'[k] => i = k
      BY <1>1, <2>1 DEF OrderInv
    <3>9. \A i \in DOMAIN stack', k \in DOMAIN postorder' : stack'[i].node # postorder'[k]
      BY <1>1, <2>1, <2>2, <2>3, <2>4, <2>5, <2>6 DEF OrderInv
    <3>10. stack' # <<>> /\ stack'[1].node = graph'.entry
      BY <1>1, <2>1, <2>3, <2>4, <2>5 DEF OrderInv
    <3>. QED  BY <3>1, <3>2, <3>3, <3>4, <3>5, <3>6, <3>7, <3>8, <3>9, <3>10 DEF OrderInv
  <2>. QED  BY <1>1, <2>7, OrderStep DEF VisitSuccessor
<1>. QED  BY <1>20, <1>21

LEMMA FrontParts ==
  ASSUME NEW T, NEW c \in Seq(T), c # <<>>
  PROVE  /\ Front(c) \in Seq(T) /\ Len(Front(c)) = Len(c) - 1 /\ DOMAIN Front(c) = 1..Len(c) - 1
         /\ \A i \in 1..Len(c) - 1 : Front(c)[i] = c[i]
<1>1. Len(c) \in Nat /\ Len(c) # 0
  OBVIOUS
<1>2. \A i \in 1..Len(c) - 1 : c[i] \in T
  BY <1>1
<1>3. PICK k : k = Len(c) - 1
  OBVIOUS
<1>4. k \in Nat
  BY <1>1, <1>3
<1>5. SubSeq(c, 1, k) \in Seq(T)
  BY <1>1, <1>2, <1>3, SubSeqProperties
<1>6. Len(SubSeq(c, 1, k)) = k /\ \A i \in 1..k : SubSeq(c, 1, k)[i] = c[i]
  BY <1>1, <1>3, <1>4
<1>7. DOMAIN SubSeq(c, 1, k) = 1..k
  BY <1>5, <1>6, SeqParts
<1>. QED  BY <1>3, <1>5, <1>6, <1>7 DEF Front

LEMMA LeaveNodeInv ==
  ASSUME LInv, LeaveNode
  PROVE  LInv'
<1> DEFINE C == DOMAIN graph.code
           F == [node : C, next : Nat \ {0}]
           m == Len(stack)
<1>1. /\ OrderInv /\ graph \in Graphs /\ pc = "order" /\ stack # <<>>
      /\ Top.next > Len(Succs(Top.node))
  BY DEF LInv, LeaveNode
<1>2. stack \in Seq(F) /\ postorder \in Seq(C)
  BY <1>1 DEF OrderInv
<1>3. m \in Nat /\ m # 0 /\ DOMAIN stack = 1..m /\ m \in 1..m
  BY <1>1, <1>2
<1>4. stack[m] \in F /\ Top = stack[m]
  <2>1. stack[m] \in F
    <3> HIDE DEF F
    <3>. QED  BY <1>2, <1>3, SeqParts
  <2>. QED  BY <2>1 DEF Top
<1>5. PICK n \in C, x \in Nat \ {0} : stack[m].node = n /\ stack[m].next = x
  BY <1>4
<1>6. /\ Len(Succs(n)) \in Nat /\ DOMAIN Succs(n) = 1..Len(Succs(n))
  BY <1>1, GraphIsCFG, BlockParts DEF Succs
<1>7. \A j \in DOMAIN Succs(n) : j < x
  BY <1>1, <1>4, <1>5, <1>6
<1>8. \A j \in DOMAIN Succs(n) : Succs(n)[j] \in visited
  BY <1>1, <1>3, <1>5, <1>7 DEF OrderInv
<1> DEFINE st == Front(stack)
           po == Append(postorder, n)
           k0 == Len(postorder)
<1>9. stack' = st /\ postorder' = po /\ visited' = visited /\ graph' = graph
  BY <1>4, <1>5 DEF LeaveNode
<1>10. /\ st \in Seq(F) /\ DOMAIN st = 1..m - 1 /\ Len(st) = m - 1
       /\ \A i \in 1..m - 1 : st[i] = stack[i]
  <2> HIDE DEF F
  <2>. QED  BY <1>1, <1>2, FrontParts
<1>11. /\ k0 \in Nat /\ DOMAIN postorder = 1..k0 /\ po \in Seq(C) /\ po # <<>>
       /\ Len(po) = k0 + 1 /\ DOMAIN po = 1..k0 + 1
       /\ po[k0 + 1] = n /\ \A k \in 1..k0 : po[k] = postorder[k]
  BY <1>2, AppendParts
<1> HIDE DEF st, po, m, k0
<1>12. /\ \A i \in 1..m - 1 : i \in 1..m /\ i # m
       /\ \A i \in 1..m : i \in 1..m - 1 \/ i = m
       /\ \A k \in 1..k0 + 1 : k \in 1..k0 \/ k = k0 + 1
       /\ \A k \in 1..k0 : k \in 1..k0 + 1 /\ k # k0 + 1
       /\ k0 + 1 \in 1..k0 + 1
  BY <1>3, <1>11
<1>13. /\ \A i, k \in 1..m : stack[i].node = stack[k].node => i = k
       /\ \A i, k \in 1..k0 : postorder[i] = postorder[k] => i = k
       /\ \A i \in 1..m, k \in 1..k0 : stack[i].node # postorder[k]
  BY <1>1, <1>3, <1>11 DEF OrderInv
<1>14. \A i \in 1..m - 1 : stack[i].node # n
  BY <1>3, <1>5, <1>12, <1>13
<1>15. \A k \in 1..k0 : postorder[k] # n
  BY <1>3, <1>5, <1>13
<1>16. n \in visited
  BY <1>1, <1>3, <1>5 DEF OrderInv
<1>17. OrderInv'
  <2>1. stack' \in Seq([node : DOMAIN graph'.code, next : Nat \ {0}])
    BY <1>9, <1>10
  <2>2. postorder' \in Seq(DOMAIN graph'.code)
    BY <1>9, <1>11
  <2> HIDE DEF C, F
  <2>3. \A i \in DOMAIN stack' : stack'[i].node \in visited'
    BY <1>1, <1>3, <1>9, <1>10, <1>12 DEF OrderInv
  <2>4. \A k \in DOMAIN postorder' : postorder'[k] \in visited'
    BY <1>1, <1>9, <1>11, <1>12, <1>16 DEF OrderInv
  <2>5. ASSUME NEW i \in DOMAIN stack', NEW j \in DOMAIN Succs(stack[i].node)', j < stack'[i].next
        PROVE  Succs(stack[i].node)'[j] \in visited'
    <3>1. i \in DOMAIN stack /\ stack'[i] = stack[i] /\ Succs(stack[i].node)' = Succs(stack[i].node)
      BY <1>3, <1>9, <1>10, <1>12 DEF Succs
    <3>. QED  BY <1>1, <1>9, <2>5, <3>1 DEF OrderInv
  <2>6. ASSUME NEW k \in DOMAIN postorder', NEW j \in DOMAIN Succs(postorder[k])'
        PROVE  Succs(postorder[k])'[j] \in visited'
    <3>1. k \in 1..k0 + 1 /\ Succs(postorder[k])' = Succs(po[k])
      BY <1>9, <1>11 DEF Succs
    <3>2. CASE k = k0 + 1
      BY <1>8, <1>9, <1>11, <2>6, <3>1, <3>2
    <3>3. CASE k \in 1..k0
      BY <1>1, <1>9, <1>11, <2>6, <3>1, <3>3 DEF OrderInv
    <3>. QED  BY <1>12, <3>1, <3>2, <3>3
  <2>7. ASSUME NEW v \in visited'
        PROVE  \/ \E i \in DOMAIN stack' : stack'[i].node = v
               \/ \E k \in DOMAIN postorder' : postorder'[k] = v
    <3>1. \/ \E i \in DOMAIN stack : stack[i].node = v
          \/ \E k \in DOMAIN postorder : postorder[k] = v
      BY <1>1, <1>9, <2>7 DEF OrderInv
    <3>2. ASSUME NEW k \in DOMAIN postorder, postorder[k] = v
          PROVE  k \in DOMAIN postorder' /\ postorder'[k] = v
      BY <1>9, <1>11, <1>12, <3>2
    <3>3. ASSUME NEW i \in DOMAIN stack, stack[i].node = v
          PROVE  \/ i \in DOMAIN stack' /\ stack'[i].node = v
                 \/ k0 + 1 \in DOMAIN postorder' /\ postorder'[k0 + 1] = v
      BY <1>3, <1>5, <1>9, <1>10, <1>11, <1>12, <3>3
    <3>. QED  BY <3>1, <3>2, <3>3
  <2>8. \A i, k \in DOMAIN stack' : stack'[i].node = stack'[k].node => i = k
    BY <1>1, <1>3, <1>9, <1>10, <1>12 DEF OrderInv
  <2>9. \A i, k \in DOMAIN postorder' : postorder'[i] = postorder'[k] => i = k
    BY <1>9, <1>11, <1>12, <1>15, <1>13
  <2>10. \A i \in DOMAIN stack', k \in DOMAIN postorder' : stack'[i].node # postorder'[k]
    BY <1>9, <1>10, <1>11, <1>12, <1>14, <1>13
  <2>11. stack' # <<>> => stack'[1].node = graph'.entry
    <3>1. stack' # <<>> => 1 \in 1..m - 1
      BY <1>3, <1>9, <1>10
    <3>. QED  BY <1>1, <1>9, <1>10, <3>1 DEF OrderInv
  <2>12. stack' = <<>> => postorder' # <<>> /\ postorder'[Len(postorder')] = graph'.entry
    <3>1. stack' = <<>> => m = 1
      BY <1>3, <1>9, <1>10
    <3>2. m = 1 => n = graph.entry
      BY <1>1, <1>5 DEF OrderInv
    <3>. QED  BY <1>9, <1>11, <3>1, <3>2
  <2>. QED  BY <2>1, <2>2, <2>3, <2>4, <2>5, <2>6, <2>7, <2>8, <2>9, <2>10, <2>11, <2>12
            DEF OrderInv
<1>. QED  BY <1>1, <1>17, OrderStep DEF LeaveNode

LEMMA EmptyCodeSound ==
  ASSUME NEW code, NEW o
  PROVE  /\ SoundCode(code, o, <<>>)
         /\ \A p : LeadsTo(code, o, <<>>, p)
         /\ \A l : Never(<<>>, l)
BY DEF SoundCode, Linked, LeadsTo, Never

LEMMA EndOrderInv ==
  ASSUME LInv, EndOrder
  PROVE  LInv'
<1> DEFINE C == DOMAIN graph.code
           m == Len(postorder)
<1>1. OrderInv /\ graph \in Graphs /\ pc = "order" /\ stack = <<>>
  BY DEF LInv, EndOrder
<1>2. postorder \in Seq(C) /\ postorder # <<>> /\ postorder[m] = graph.entry
  BY <1>1 DEF OrderInv
<1>3. m \in Nat /\ m # 0 /\ DOMAIN postorder = 1..m /\ \A i \in 1..m : postorder[i] \in C
  BY <1>2
<1> DEFINE o == [i \in 1..m |-> postorder[m - i + 1]]
<1>4. order' = o /\ graph' = graph
  BY <1>2 DEF EndOrder, Reverse
<1>5. \A i \in 1..m : m - i + 1 \in 1..m /\ o[i] = postorder[m - i + 1] /\ m - (m - i + 1) + 1 = i
  BY <1>3
<1>6. o \in [1..m -> C] /\ 1 \in 1..m /\ m - 1 + 1 = m
  BY <1>3, <1>5
<1> HIDE DEF m, o
<1>7. o \in Seq(C) /\ Len(o) = m /\ DOMAIN o = 1..m /\ o # <<>>
  <2>1. o \in Seq(C) /\ Len(o) = m
    BY <1>3, <1>6, SeqOfFunction
  <2>2. DOMAIN o = 1..m
    BY <1>6
  <2>. QED  BY <1>3, <2>1, <2>2
<1>8. o[1] = graph.entry
  BY <1>2, <1>5, <1>6
<1>9. \A i, k \in DOMAIN o : o[i] = o[k] => i = k
  <2> SUFFICES ASSUME NEW i \in 1..m, NEW k \in 1..m, o[i] = o[k]
               PROVE  i = k
    BY <1>7
  <2>1. m - i + 1 = m - k + 1
    BY <1>1, <1>3, <1>5 DEF OrderInv
  <2>. QED  BY <1>3, <2>1
<1>10. ASSUME NEW k \in DOMAIN o, NEW j \in DOMAIN Succs(o[k])
       PROVE  \E l \in DOMAIN o : o[l] = Succs(o[k])[j]
  <2>1. k \in 1..m /\ m - k + 1 \in DOMAIN postorder /\ o[k] = postorder[m - k + 1]
    BY <1>3, <1>5, <1>7
  <2>2. Succs(o[k])[j] \in visited
    BY <1>1, <2>1 DEF OrderInv
  <2>3. PICK i \in DOMAIN postorder : postorder[i] = Succs(o[k])[j]
    BY <1>1, <2>2 DEF OrderInv
  <2>4. i \in 1..m
    BY <1>3
  <2>5. m - i + 1 \in 1..m /\ m - (m - i + 1) + 1 = i
    BY <1>5, <2>4
  <2>6. o[m - i + 1] = postorder[i]
    BY <1>5, <2>5
  <2>. QED  BY <1>7, <2>3, <2>5, <2>6
<1>11. Ordered'
  <2>1. \A k \in DOMAIN order' : \A j \in DOMAIN Succs(order[k])' :
           \E l \in DOMAIN order' : order'[l] = Succs(order[k])'[j]
    BY <1>4, <1>10 DEF Succs
  <2>. QED  BY <1>4, <1>7, <1>8, <1>9, <2>1 DEF Ordered
<1>12. linear' = <<>> /\ block' = 1 /\ index' = 0
  BY <1>1 DEF LInv, EndOrder, Unstarted, emitting
<1>13. EmitInv'
  <2>1. 1 \in 1..Len(o) + 1 /\ ~(1 > Len(o)) /\ 0 \in Nat
    BY <1>3, <1>7
  <2>2. 0 <= Len(graph.code[o[1]].body) + 1
    <3>1. o[1] \in C
      BY <1>6
    <3>2. Len(graph.code[o[1]].body) \in Nat
      BY <1>1, <3>1, GraphIsCFG, BlockParts
    <3>. QED  BY <3>2
  <2>3. \A l \in DOMAIN o : ~(l < 1)
    BY <1>3, <1>7
  <2>. QED  BY <1>4, <1>12, <2>1, <2>2, <2>3, EmptyCodeSound DEF EmitInv
<1>14. pc' = "emit" /\ pos' = pos /\ newCode' = newCode /\ last' = last
  BY DEF EndOrder
<1>. QED  BY <1>1, <1>4, <1>11, <1>13, <1>14 DEF LInv, NotYetRun

-----------------------------------------------------------------------------
(***************************************************************************)
(* emitBlock.                                                              *)
(***************************************************************************)
LEMMA OrderedStays ==
  ASSUME Ordered, graph' = graph, order' = order
  PROVE  Ordered'
BY DEF Ordered, Succs

\* A step that only emits has to keep EmitInv.
LEMMA EmitStep ==
  ASSUME LInv, pc = "emit", EmitInv', UNCHANGED <<graph, ordering, newCode, pc, pos, last>>
  PROVE  LInv'
<1>1. Ordered'
  BY OrderedStays DEF LInv, ordering
<1>. QED  BY <1>1 DEF LInv, NotYetRun

\* The block that is emitted.
LEMMA BlockFacts ==
  ASSUME LInv, pc = "emit", block <= Len(order)
  PROVE  /\ EmitInv /\ Ordered /\ IsCFG(graph.code, graph.entry)
         /\ Len(order) \in Nat /\ DOMAIN order = 1..Len(order)
         /\ block \in DOMAIN order /\ block \in Nat /\ block # 0 /\ index \in Nat
         /\ order[block] \in DOMAIN graph.code
<1>1. EmitInv /\ Ordered /\ IsCFG(graph.code, graph.entry)
  BY GraphIsCFG DEF LInv
<1>2. order \in Seq(DOMAIN graph.code)
  BY <1>1 DEF Ordered
<1>3. /\ Len(order) \in Nat /\ DOMAIN order = 1..Len(order)
      /\ \A i \in 1..Len(order) : order[i] \in DOMAIN graph.code
  BY <1>2, SeqParts
<1>4. block \in 1..Len(order) + 1 /\ index \in Nat
  BY <1>1 DEF EmitInv
<1>5. block \in 1..Len(order) /\ block \in Nat /\ block # 0
  BY <1>3, <1>4
<1>. QED  BY <1>1, <1>3, <1>4, <1>5

LEMMA EmitLabelInv ==
  ASSUME LInv, EmitLabel
  PROVE  LInv'
<1> DEFINE inst == Llabel(block)
           d == Append(linear, inst)
<1>1. /\ pc = "emit" /\ block <= Len(order) /\ index = 0
      /\ linear' = d /\ index' = 1 /\ block' = block /\ graph' = graph /\ order' = order
  BY DEF EmitLabel, ordering
<1>2. /\ EmitInv /\ Ordered /\ IsCFG(graph.code, graph.entry)
      /\ Len(order) \in Nat /\ DOMAIN order = 1..Len(order)
      /\ block \in DOMAIN order /\ block \in Nat /\ block # 0
      /\ order[block] \in DOMAIN graph.code
  BY <1>1, BlockFacts
<1>3. /\ inst \in Instructions(graph.code) /\ Sound(graph.code, order, inst)
      /\ Start(order, inst) = <<order[block], 1>>
      /\ After(graph.code, order, inst) = <<order[block], 1>>
  BY <1>2, LabelSound
<1>4. inst.kind = "label" /\ inst.labels[1] = block
  BY DEF Llabel
<1>5. /\ SoundCode(graph.code, order, linear)
      /\ LeadsTo(graph.code, order, linear, <<order[block], 1>>)
  BY <1>1, <1>2 DEF EmitInv
<1>6. linear \in Seq(Instructions(graph.code))
  BY <1>5 DEF SoundCode
<1> HIDE DEF inst
<1>7. SoundCode(graph.code, order, d)
  BY <1>3, <1>5, AppendSound
<1>8. LeadsTo(graph.code, order, d, <<order[block], 1>>)
  <2>1. SilentTo(graph.code, After(graph.code, order, inst), <<order[block], 1>>)
    BY <1>3, SilentToSame
  <2>. QED  BY <1>3, <1>6, <2>1, AppendLeads
<1>9. ASSUME NEW l \in DOMAIN order
      PROVE  IF l < block \/ l = block THEN Once(d, l) ELSE Never(d, l)
  <2>1. CASE l = block
    <3>1. ~(l < block)
      BY <1>2, <2>1
    <3>2. Never(linear, l)
      BY <1>1, <1>2, <2>1, <3>1 DEF EmitInv
    <3>. QED  BY <1>3, <1>4, <1>6, <2>1, <3>2, AppendDefinition
  <2>2. CASE l # block
    <3>1. IF l < block THEN Once(linear, l) ELSE Never(linear, l)
      BY <1>1, <1>2, <2>2 DEF EmitInv
    <3>2. Once(linear, l) => Once(d, l)
      BY <1>3, <1>4, <1>6, <2>2, AppendOther
    <3>3. Never(linear, l) => Never(d, l)
      BY <1>3, <1>4, <1>6, <2>2, AppendOther
    <3>. QED  BY <2>2, <3>1, <3>2, <3>3
  <2>. QED  BY <2>1, <2>2
<1>10. d # <<>> /\ d[1] = Llabel(1)
  <2>1. CASE block = 1
    <3>1. linear = <<>>
      BY <1>1, <1>2, <2>1 DEF EmitInv
    <3>. QED  BY <2>1, <3>1 DEF inst
  <2>2. CASE block # 1
    <3>1. linear # <<>> /\ linear[1] = Llabel(1)
      BY <1>2, <2>2 DEF EmitInv
    <3>. QED  BY <1>3, <1>6, <3>1, AppendFirst
  <2>. QED  BY <2>1, <2>2
<1> HIDE DEF d
<1>11. 1 <= Len(graph.code[order[block]].body) + 1
  <2>1. Len(graph.code[order[block]].body) \in Nat
    BY <1>2, BlockParts
  <2>. QED  BY <2>1
<1>12. EmitInv'
  <2>1. block \in 1..Len(order) + 1 /\ ~(block > Len(order))
    BY <1>1, <1>2
  <2>. QED  BY <1>1, <1>7, <1>8, <1>9, <1>10, <1>11, <2>1 DEF EmitInv
<1>. QED  BY <1>1, <1>12, EmitStep DEF EmitLabel

LEMMA EmitInstructionInv ==
  ASSUME LInv, EmitInstruction
  PROVE  LInv'
<1> DEFINE n == order[block]
           inst == Lop(<<n, index>>)
           d == IF graph.code[n].body[index] = "nop" THEN linear ELSE Append(linear, inst)
<1>1. /\ pc = "emit" /\ block <= Len(order) /\ index \in DOMAIN graph.code[n].body
      /\ linear' = d /\ index' = index + 1 /\ block' = block /\ graph' = graph /\ order' = order
  BY DEF EmitInstruction, ordering
<1>2. /\ EmitInv /\ Ordered /\ IsCFG(graph.code, graph.entry)
      /\ Len(order) \in Nat /\ DOMAIN order = 1..Len(order)
      /\ block \in DOMAIN order /\ block \in Nat /\ block # 0
      /\ n \in DOMAIN graph.code
  BY <1>1, BlockFacts
<1>3. /\ Len(graph.code[n].body) \in Nat /\ index \in 1..Len(graph.code[n].body)
      /\ index \in Nat /\ index # 0 /\ index + 1 \in Nat /\ index + 1 # 0
      /\ index + 1 <= Len(graph.code[n].body) + 1
  <2>1. Len(graph.code[n].body) \in Nat /\ DOMAIN graph.code[n].body = 1..Len(graph.code[n].body)
    BY <1>2, BlockParts
  <2>. QED  BY <1>1, <2>1
<1>4. SoundCode(graph.code, order, linear) /\ LeadsTo(graph.code, order, linear, <<n, index>>)
  BY <1>1, <1>2, <1>3 DEF EmitInv
<1>5. linear \in Seq(Instructions(graph.code))
  BY <1>4 DEF SoundCode
<1>6. linear # <<>> /\ linear[1] = Llabel(1)
  BY <1>2, <1>3 DEF EmitInv
<1>7. \A l \in DOMAIN order : IF l < block \/ l = block THEN Once(linear, l) ELSE Never(linear, l)
  BY <1>2, <1>3 DEF EmitInv
<1> HIDE DEF n
<1>8. /\ SoundCode(graph.code, order, d) /\ LeadsTo(graph.code, order, d, <<n, index + 1>>)
      /\ d # <<>> /\ d[1] = Llabel(1)
      /\ \A l \in DOMAIN order : IF l < block \/ l = block THEN Once(d, l) ELSE Never(d, l)
  <2>1. CASE graph.code[n].body[index] = "nop"
    <3>1. /\ Silent(graph.code, <<n, index>>)
          /\ Following(graph.code, <<n, index>>, 1) = <<n, index + 1>>
      BY <1>1, <1>2, <2>1, BodyPlace
    <3>2. SilentTo(graph.code, <<n, index>>, <<n, index + 1>>)
      BY <3>1, SilentToNext
    <3>3. LeadsTo(graph.code, order, linear, <<n, index + 1>>)
      BY <1>4, <3>2, LeadsOn
    <3>. QED  BY <1>4, <1>6, <1>7, <2>1, <3>3
  <2>2. CASE graph.code[n].body[index] # "nop"
    <3>1. /\ inst \in Instructions(graph.code) /\ Sound(graph.code, order, inst)
          /\ Start(order, inst) = <<n, index>>
          /\ After(graph.code, order, inst) = <<n, index + 1>> /\ inst.kind # "label"
      <4> HIDE DEF d
      <4>1. PICK j \in DOMAIN graph.code[n].body : j = index
        BY <1>1
      <4>2. graph.code[n].body[j] # "nop" /\ inst = Lop(<<n, j>>)
        BY <2>2, <4>1
      <4>. QED  BY <1>2, <4>1, <4>2, OpSound
    <3>2. d = Append(linear, inst)
      BY <2>2
    <3> HIDE DEF inst, d
    <3>3. SoundCode(graph.code, order, d)
      BY <1>4, <3>1, <3>2, AppendSound
    <3>4. LeadsTo(graph.code, order, d, <<n, index + 1>>)
      <4>1. SilentTo(graph.code, After(graph.code, order, inst), <<n, index + 1>>)
        BY <3>1, SilentToSame
      <4>. QED  BY <1>5, <3>1, <3>2, <4>1, AppendLeads
    <3>5. d # <<>> /\ d[1] = Llabel(1)
      BY <1>5, <1>6, <3>1, <3>2, AppendFirst
    <3>6. \A l : (Once(linear, l) => Once(d, l)) /\ (Never(linear, l) => Never(d, l))
      BY <1>5, <3>1, <3>2, AppendOther
    <3>. QED  BY <1>7, <3>3, <3>4, <3>5, <3>6
  <2>. QED  BY <2>1, <2>2
<1> HIDE DEF d
<1>9. EmitInv'
  <2>1. block \in 1..Len(order) + 1 /\ ~(block > Len(order))
    BY <1>1, <1>2
  <2>. QED  BY <1>1, <1>3, <1>8, <2>1 DEF EmitInv, n
<1>. QED  BY <1>1, <1>9, EmitStep DEF EmitInstruction

\* The label of a successor.
LEMMA LabelOfSuccessor ==
  ASSUME Ordered, NEW k \in DOMAIN order, NEW j \in DOMAIN Succs(order[k])
  PROVE  /\ NodeToLbl(Succs(order[k])[j]) \in DOMAIN order
         /\ order[NodeToLbl(Succs(order[k])[j])] = Succs(order[k])[j]
<1>1. \E l \in DOMAIN order : order[l] = Succs(order[k])[j]
  BY DEF Ordered
<1>. QED  BY <1>1 DEF NodeToLbl

\* What emitTerminator appends, by the kind of the terminator.
LEMMA TerminatorForms ==
  ASSUME NEW l, NEW n, n = order[l], NEW p, p = <<n, Len(graph.code[n].body) + 1>>,
         NEW t1, t1 = NodeToLbl(graph.code[n].succs[1]),
         NEW t2, t2 = NodeToLbl(graph.code[n].succs[2])
  PROVE  /\ graph.code[n].kind = "branch" =>
              Terminator(l) = IF t1 = l + 1 THEN <<>> ELSE <<Lgoto(t1)>>
         /\ graph.code[n].kind = "cond" =>
              Terminator(l) = <<Lcond(p, t1)>> \o (IF t2 = l + 1 THEN <<>> ELSE <<Lgoto(t2)>>)
         /\ graph.code[n].kind = "jumptable" =>
              Terminator(l) = <<Ljumptable(p, [j \in DOMAIN graph.code[n].succs |->
                                                 NodeToLbl(graph.code[n].succs[j])])>>
         /\ graph.code[n].kind \in {"return", "tailcall"} =>
              Terminator(l) = <<Lend(p, graph.code[n].kind)>>
BY DEF Terminator

LEMMA ConcatShort ==
  ASSUME NEW T, NEW c \in Seq(T)
  PROVE  /\ c \o <<>> = c
         /\ \A e \in T : c \o <<e>> = Append(c, e)
         /\ \A e, f \in T : c \o (<<e>> \o <<f>>) = Append(Append(c, e), f)
         /\ \A e : <<e>> \o <<>> = <<e>>
OBVIOUS

\* What the code is like when a block is done.
EmittedTo(d, k) ==
  /\ SoundCode(graph.code, order, d)
  /\ k < Len(order) => LeadsTo(graph.code, order, d, <<order[k + 1], 1>>)
  /\ k = Len(order) => Ends(d)
  /\ d # <<>> /\ d[1] = Llabel(1)
  /\ \A l \in DOMAIN order : IF l < k \/ l = k THEN Once(d, l) ELSE Never(d, l)

\* The last instruction of a block leads on to the next block, if it leads anywhere.
LEMMA EmittedAppend ==
  ASSUME NEW c, SoundCode(graph.code, order, c), NEW k \in Nat,
         NEW inst \in Instructions(graph.code), Sound(graph.code, order, inst),
         inst.kind # "label",
         LeadsTo(graph.code, order, c, Start(order, inst)),
         k < Len(order) /\ Falls(inst) =>
           SilentTo(graph.code, After(graph.code, order, inst), <<order[k + 1], 1>>),
         k = Len(order) => ~Falls(inst),
         c # <<>>, c[1] = Llabel(1),
         \A l \in DOMAIN order : IF l < k \/ l = k THEN Once(c, l) ELSE Never(c, l)
  PROVE  EmittedTo(Append(c, inst), k)
<1> DEFINE d == Append(c, inst)
<1>1. c \in Seq(Instructions(graph.code))
  BY DEF SoundCode
<1>2. SoundCode(graph.code, order, d)
  BY AppendSound
<1>3. k < Len(order) => LeadsTo(graph.code, order, d, <<order[k + 1], 1>>)
  BY <1>1, AppendLeads
<1>4. k = Len(order) => Ends(d)
  BY <1>1, AppendEnds
<1>5. d # <<>> /\ d[1] = Llabel(1)
  BY <1>1, AppendFirst
<1>6. \A l : (Once(c, l) => Once(d, l)) /\ (Never(c, l) => Never(d, l))
  BY <1>1, AppendOther
<1> HIDE DEF d
<1>7. \A l \in DOMAIN order : IF l < k \/ l = k THEN Once(d, l) ELSE Never(d, l)
  BY <1>6
<1>8. EmittedTo(d, k)
  BY <1>2, <1>3, <1>4, <1>5, <1>7 DEF EmittedTo
<1>. QED  BY <1>8 DEF d

LEMMA EmitTerminatorInv ==
  ASSUME LInv, EmitTerminator
  PROVE  LInv'
<1>0. PICK n : n = order[block]
  OBVIOUS
<1>1. /\ pc = "emit" /\ block <= Len(order) /\ index = Len(graph.code[n].body) + 1
      /\ linear' = linear \o Terminator(block) /\ index' = 0 /\ block' = block + 1
      /\ graph' = graph /\ order' = order
  BY <1>0 DEF EmitTerminator, ordering
<1>2. /\ EmitInv /\ Ordered /\ IsCFG(graph.code, graph.entry)
      /\ Len(order) \in Nat /\ DOMAIN order = 1..Len(order)
      /\ block \in DOMAIN order /\ block \in Nat /\ block # 0
      /\ n \in DOMAIN graph.code
  BY <1>0, <1>1, BlockFacts
<1>3. /\ Len(graph.code[n].body) \in Nat /\ graph.code[n].kind \in BlockKinds
      /\ DOMAIN graph.code[n].succs = 1..Len(graph.code[n].succs)
      /\ Succs(order[block]) = graph.code[n].succs
  BY <1>0, <1>2, BlockParts DEF Succs
<1>4. index # 0
  BY <1>1, <1>3
<1>5. PICK p : p = <<n, Len(graph.code[n].body) + 1>>
  OBVIOUS
<1>6. SoundCode(graph.code, order, linear) /\ LeadsTo(graph.code, order, linear, p)
  BY <1>0, <1>1, <1>2, <1>4, <1>5 DEF EmitInv
<1>7. linear \in Seq(Instructions(graph.code))
  BY <1>6 DEF SoundCode
<1>8. linear # <<>> /\ linear[1] = Llabel(1)
  BY <1>2, <1>4 DEF EmitInv
<1>9. \A l \in DOMAIN order : IF l < block \/ l = block THEN Once(linear, l) ELSE Never(linear, l)
  BY <1>2, <1>4 DEF EmitInv
<1>10. PICK t1, t2 : /\ t1 = NodeToLbl(graph.code[n].succs[1])
                     /\ t2 = NodeToLbl(graph.code[n].succs[2])
  OBVIOUS
<1>11. \A j \in DOMAIN graph.code[n].succs :
         /\ NodeToLbl(graph.code[n].succs[j]) \in DOMAIN order
         /\ NodeToLbl(graph.code[n].succs[j]) \in Nat
         /\ order[NodeToLbl(graph.code[n].succs[j])] = graph.code[n].succs[j]
  BY <1>2, <1>3, LabelOfSuccessor
<1>12. block + 1 \in DOMAIN order => block < Len(order)
  BY <1>2
<1>13. /\ graph.code[n].kind = "branch" =>
            Terminator(block) = IF t1 = block + 1 THEN <<>> ELSE <<Lgoto(t1)>>
       /\ graph.code[n].kind = "cond" =>
            Terminator(block) = <<Lcond(p, t1)>> \o (IF t2 = block + 1 THEN <<>> ELSE <<Lgoto(t2)>>)
       /\ graph.code[n].kind = "jumptable" =>
            Terminator(block) = <<Ljumptable(p, [j \in DOMAIN graph.code[n].succs |->
                                               NodeToLbl(graph.code[n].succs[j])])>>
       /\ graph.code[n].kind \in {"return", "tailcall"} =>
            Terminator(block) = <<Lend(p, graph.code[n].kind)>>
  BY <1>0, <1>5, <1>10, TerminatorForms
<1>14. PICK d : d = linear \o Terminator(block)
  OBVIOUS
<1>15. ASSUME graph.code[n].kind = "branch"
       PROVE  EmittedTo(d, block)
  <2>1. Len(graph.code[n].succs) = 1
    BY <1>2, <1>15, BlockShape
  <2>2. 1 \in DOMAIN graph.code[n].succs
    BY <1>3, <2>1
  <2>3. t1 \in DOMAIN order /\ t1 \in Nat /\ order[t1] = graph.code[n].succs[1]
    BY <1>10, <1>11, <2>2
  <2>4. Silent(graph.code, p) /\ Following(graph.code, p, 1) = <<order[t1], 1>>
    BY <1>2, <1>5, <1>15, <2>3, TerminatorPlace
  <2>5. LeadsTo(graph.code, order, linear, <<order[t1], 1>>)
    BY <1>6, <2>4, SilentToNext, LeadsOn
  <2>6. ASSUME t1 = block + 1
        PROVE  EmittedTo(d, block)
    <3>1. Terminator(block) = <<>> /\ block < Len(order)
      BY <1>12, <1>13, <1>15, <2>3, <2>6
    <3>2. d = linear
      BY <1>7, <1>14, <3>1, ConcatShort
    <3>3. ~(block = Len(order))
      BY <1>2, <3>1
    <3>. QED  BY <1>6, <1>8, <1>9, <2>5, <2>6, <3>2, <3>3 DEF EmittedTo
  <2>7. ASSUME t1 # block + 1
        PROVE  EmittedTo(d, block)
    <3>1. PICK e : e = Lgoto(t1)
      OBVIOUS
    <3>2. /\ e \in Instructions(graph.code) /\ Sound(graph.code, order, e)
          /\ Start(order, e) = <<order[t1], 1>> /\ ~Falls(e) /\ e.kind # "label"
      BY <2>3, <3>1, GotoSound
    <3>3. Terminator(block) = <<e>>
      BY <1>13, <1>15, <2>7, <3>1
    <3>4. d = Append(linear, e)
      BY <1>7, <1>14, <3>2, <3>3, ConcatShort
    <3>. QED  BY <1>2, <1>6, <1>8, <1>9, <2>5, <3>2, <3>4, EmittedAppend
  <2>. QED  BY <2>6, <2>7
<1>16. ASSUME graph.code[n].kind = "cond"
       PROVE  EmittedTo(d, block)
  <2>1. Len(graph.code[n].succs) = 2
    BY <1>2, <1>16, BlockShape
  <2>2. 1 \in DOMAIN graph.code[n].succs /\ 2 \in DOMAIN graph.code[n].succs
    BY <1>3, <2>1
  <2>3. /\ t1 \in DOMAIN order /\ t1 \in Nat /\ order[t1] = graph.code[n].succs[1]
        /\ t2 \in DOMAIN order /\ t2 \in Nat /\ order[t2] = graph.code[n].succs[2]
    BY <1>10, <1>11, <2>2
  <2>4. PICK e : e = Lcond(p, t1)
    OBVIOUS
  <2>5. /\ e \in Instructions(graph.code) /\ Sound(graph.code, order, e)
        /\ Start(order, e) = p /\ After(graph.code, order, e) = <<order[t2], 1>>
        /\ e.kind # "label"
    BY <1>2, <1>5, <1>16, <2>3, <2>4, CondSound
  <2>6. SilentTo(graph.code, After(graph.code, order, e), <<order[t2], 1>>)
    BY <2>5, SilentToSame
  <2>7. ASSUME t2 = block + 1
        PROVE  EmittedTo(d, block)
    <3>1. Terminator(block) = <<e>> /\ block < Len(order)
      BY <1>12, <1>13, <1>16, <2>3, <2>4, <2>7, ConcatShort
    <3>2. d = Append(linear, e)
      BY <1>7, <1>14, <2>5, <3>1, ConcatShort
    <3>3. ~(block = Len(order))
      BY <1>2, <3>1
    <3>. QED  BY <1>2, <1>6, <1>8, <1>9, <2>5, <2>6, <2>7, <3>2, <3>3, EmittedAppend
  <2>8. ASSUME t2 # block + 1
        PROVE  EmittedTo(d, block)
    <3>1. PICK f : f = Lgoto(t2)
      OBVIOUS
    <3>2. /\ f \in Instructions(graph.code) /\ Sound(graph.code, order, f)
          /\ Start(order, f) = <<order[t2], 1>> /\ ~Falls(f) /\ f.kind # "label"
      BY <2>3, <3>1, GotoSound
    <3>3. Terminator(block) = <<e>> \o <<f>>
      BY <1>13, <1>16, <2>4, <2>8, <3>1
    <3>4. d = Append(Append(linear, e), f)
      BY <1>7, <1>14, <2>5, <3>2, <3>3, ConcatShort
    <3>5. PICK c : c = Append(linear, e)
      OBVIOUS
    <3>6. SoundCode(graph.code, order, c)
      BY <1>6, <2>5, <3>5, AppendSound
    <3>7. LeadsTo(graph.code, order, c, Start(order, f))
      BY <1>7, <2>5, <2>6, <3>2, <3>5, AppendLeads
    <3>8. c # <<>> /\ c[1] = Llabel(1)
      BY <1>7, <1>8, <2>5, <3>5, AppendFirst
    <3>9. \A l : (Once(linear, l) => Once(c, l)) /\ (Never(linear, l) => Never(c, l))
      BY <1>7, <2>5, <3>5, AppendOther
    <3>10. \A l \in DOMAIN order : IF l < block \/ l = block THEN Once(c, l) ELSE Never(c, l)
      BY <1>9, <3>9
    <3>. QED  BY <1>2, <3>2, <3>4, <3>5, <3>6, <3>7, <3>8, <3>10, EmittedAppend
  <2>. QED  BY <2>7, <2>8
<1>17. ASSUME graph.code[n].kind = "jumptable"
       PROVE  EmittedTo(d, block)
  <2>1. PICK ls : ls = [j \in DOMAIN graph.code[n].succs |-> NodeToLbl(graph.code[n].succs[j])]
    OBVIOUS
  <2>2. /\ ls \in [DOMAIN graph.code[n].succs -> Nat]
        /\ \A j \in DOMAIN graph.code[n].succs :
             ls[j] \in DOMAIN order /\ order[ls[j]] = graph.code[n].succs[j]
    BY <1>11, <2>1
  <2>3. PICK e : e = Ljumptable(p, ls)
    OBVIOUS
  <2>4. /\ e \in Instructions(graph.code) /\ Sound(graph.code, order, e)
        /\ Start(order, e) = p /\ ~Falls(e) /\ e.kind # "label"
    BY <1>2, <1>5, <1>17, <2>2, <2>3, JumptableSound
  <2>5. Terminator(block) = <<e>>
    BY <1>13, <1>17, <2>1, <2>3
  <2>6. d = Append(linear, e)
    BY <1>7, <1>14, <2>4, <2>5, ConcatShort
  <2>. QED  BY <1>2, <1>6, <1>8, <1>9, <2>4, <2>6, EmittedAppend
<1>18. ASSUME graph.code[n].kind \in {"return", "tailcall"}
       PROVE  EmittedTo(d, block)
  <2>1. PICK e : e = Lend(p, graph.code[n].kind)
    OBVIOUS
  <2>2. /\ e \in Instructions(graph.code) /\ Sound(graph.code, order, e)
        /\ Start(order, e) = p /\ ~Falls(e) /\ e.kind # "label"
    BY <1>2, <1>5, <1>18, <2>1, EndSound
  <2>3. Terminator(block) = <<e>>
    BY <1>13, <1>18, <2>1
  <2>4. d = Append(linear, e)
    BY <1>7, <1>14, <2>2, <2>3, ConcatShort
  <2>. QED  BY <1>2, <1>6, <1>8, <1>9, <2>2, <2>4, EmittedAppend
<1>19. EmittedTo(d, block)
  BY <1>3, <1>15, <1>16, <1>17, <1>18 DEF BlockKinds
<1>20. EmitInv'
  <2>1. PICK k \in Nat : k = block
    BY <1>2
  <2>2. /\ k + 1 \in 1..Len(order) + 1 /\ k + 1 # 1 /\ k <= Len(order)
        /\ k + 1 > Len(order) <=> k = Len(order)
        /\ k + 1 <= Len(order) <=> k < Len(order)
        /\ \A l \in DOMAIN order : l < k + 1 <=> (l < k \/ l = k)
    BY <1>1, <1>2, <2>1
  <2>3. block' = k + 1 /\ index' = 0 /\ linear' = d /\ graph' = graph /\ order' = order
    BY <1>1, <1>14, <2>1
  <2>4. k + 1 <= Len(order) => 0 <= Len(graph.code[order[k + 1]].body) + 1
    <3>1. ASSUME k + 1 <= Len(order)
          PROVE  0 <= Len(graph.code[order[k + 1]].body) + 1
      <4>1. k + 1 \in 1..Len(order)
        BY <1>2, <3>1
      <4>2. order[k + 1] \in DOMAIN graph.code
        BY <1>2, <4>1 DEF Ordered
      <4>3. Len(graph.code[order[k + 1]].body) \in Nat
        BY <1>2, <4>2, BlockParts
      <4>. QED  BY <4>3
    <3>. QED  BY <3>1
  <2>. QED  BY <1>19, <2>1, <2>2, <2>3, <2>4 DEF EmitInv, EmittedTo
<1>. QED  BY <1>1, <1>20, EmitStep DEF EmitTerminator

LEMMA EndEmitInv ==
  ASSUME LInv, EndEmit
  PROVE  LInv'
<1>1. /\ pc = "emit" /\ block > Len(order) /\ pc' = "tunnel"
      /\ UNCHANGED <<graph, order, linear, pos, newCode, last>>
  BY DEF EndEmit, ordering
<1>2. EmitInv /\ Ordered /\ graph \in Graphs
  BY <1>1 DEF LInv
<1>3. order \in Seq(DOMAIN graph.code) /\ order # <<>> /\ order[1] = graph.entry
  BY <1>2 DEF Ordered
<1>4. Len(order) \in Nat /\ Len(order) # 0 /\ DOMAIN order = 1..Len(order)
  BY <1>3
<1>5. /\ SoundCode(graph.code, order, linear) /\ Ends(linear)
      /\ \A l \in DOMAIN order :
           IF l < block \/ (l = block /\ index # 0) THEN Once(linear, l) ELSE Never(linear, l)
  BY <1>1, <1>2 DEF EmitInv
<1>6. block \in Nat /\ block # 1 /\ \A l \in DOMAIN order : l < block
  <2>1. block \in 1..Len(order) + 1
    BY <1>2 DEF EmitInv
  <2>. QED  BY <1>1, <1>4, <2>1
<1>7. linear # <<>> /\ linear[1] = Llabel(1)
  BY <1>2, <1>6 DEF EmitInv
<1>8. linear[1].kind = "label" /\ linear[1].labels[1] = 1
  BY <1>7 DEF Llabel
<1>9. Complete(graph, order, linear)
  BY <1>3, <1>5, <1>7, <1>8 DEF Complete
<1>10. \A l \in DOMAIN order : Once(linear, l)
  BY <1>5, <1>6
<1>11. Ordered'
  BY <1>1, <1>2, OrderedStays
<1>. QED  BY <1>1, <1>9, <1>10, <1>11 DEF LInv, NotYetRun

-----------------------------------------------------------------------------
(***************************************************************************)
(* Tunnel.                                                                 *)
(***************************************************************************)
\* A jump to l may as well go to m.
SameTarget(l, m) == SilentTo(graph.code, <<order[l], 1>>, <<order[m], 1>>)

LEMMA JumpTargetsSound ==
  ASSUME LInv, pc = "tunnel"
  PROVE  /\ DOMAIN JumpTargets \subseteq DOMAIN order
         /\ \A l \in DOMAIN JumpTargets :
              JumpTargets[l] \in DOMAIN order /\ SameTarget(l, JumpTargets[l])
         /\ Cardinality(DOMAIN JumpTargets) \in Nat
<1> DEFINE qs == {q \in 1..Len(linear) - 1 : IsLabel(q) /\ linear[q + 1].kind = "goto"}
           ls == {linear[q].labels[1] : q \in qs}
           at(l) == CHOOSE q \in qs : linear[q].labels[1] = l
<1>1. JumpTargets = [l \in ls |-> linear[at(l) + 1].labels[1]]
  BY DEF JumpTargets
<1>2. SoundCode(graph.code, order, linear) /\ order \in Seq(DOMAIN graph.code)
  BY DEF LInv, Complete, Ordered
<1>3. linear \in Seq(Instructions(graph.code)) /\ Linked(graph.code, order, linear)
      /\ \A q \in DOMAIN linear : Sound(graph.code, order, linear[q])
  BY <1>2 DEF SoundCode
<1>4. Len(linear) \in Nat /\ DOMAIN linear = 1..Len(linear)
  BY <1>3, SeqParts
<1>5. ASSUME NEW q \in qs
      PROVE  /\ linear[q].labels[1] \in DOMAIN order
             /\ linear[q + 1].labels[1] \in DOMAIN order
             /\ SameTarget(linear[q].labels[1], linear[q + 1].labels[1])
  <2>1. q \in DOMAIN linear /\ q + 1 \in DOMAIN linear
    BY <1>4
  <2>2. linear[q].kind = "label" /\ linear[q + 1].kind = "goto"
    BY DEF IsLabel
  <2>3. \A i \in DOMAIN linear : linear[i].labels \in Seq(Nat)
    <3>1. \A i \in DOMAIN linear : linear[i] \in Instructions(graph.code)
      BY <1>3, <1>4, SeqParts
    <3>. QED  BY <3>1 DEF Instructions
  <2>4. \A i \in DOMAIN linear : Len(linear[i].labels) = 1 => 1 \in DOMAIN linear[i].labels
    BY <2>3
  <2>5. linear[q].labels[1] \in DOMAIN order /\ linear[q + 1].labels[1] \in DOMAIN order
    BY <1>3, <2>1, <2>2, <2>4 DEF Sound, SoundLabels
  <2>6. SilentTo(graph.code, After(graph.code, order, linear[q]), Start(order, linear[q + 1]))
    BY <1>3, <2>1, <2>2 DEF Linked, Falls
  <2>. QED  BY <2>2, <2>5, <2>6 DEF After, Start, SameTarget
<1>6. ASSUME NEW l \in ls
      PROVE  at(l) \in qs /\ linear[at(l)].labels[1] = l
  <2>1. \E q \in qs : linear[q].labels[1] = l
    OBVIOUS
  <2>. QED  BY <2>1
<1>7. ls \subseteq DOMAIN order
  BY <1>5
<1> HIDE DEF qs, at
<1>8. ASSUME NEW l \in ls
      PROVE  /\ linear[at(l) + 1].labels[1] \in DOMAIN order
             /\ SameTarget(l, linear[at(l) + 1].labels[1])
  BY <1>5, <1>6
<1>9. IsFiniteSet(DOMAIN order)
  <2>1. Len(order) \in Nat /\ DOMAIN order = 1..Len(order)
    BY <1>2, SeqParts
  <2>. QED  BY <2>1, FS_Interval
<1>10. Cardinality(ls) \in Nat
  BY <1>7, <1>9, FS_Subset, FS_CardinalityType
<1> HIDE DEF ls
<1>11. DOMAIN JumpTargets = ls /\ \A l \in ls : JumpTargets[l] = linear[at(l) + 1].labels[1]
  BY <1>1
<1>. QED  BY <1>7, <1>8, <1>10, <1>11

(***************************************************************************)
(* Where resolveLabel ends, a jump may as well go.                         *)
(***************************************************************************)
LEMMA ResolveLabelSound ==
  ASSUME LInv, pc = "tunnel", NEW l0 \in DOMAIN order
  PROVE  resolveLabel(l0) \in DOMAIN order /\ SameTarget(l0, resolveLabel(l0))
<1> DEFINE L == DOMAIN order
           N == Cardinality(DOMAIN JumpTargets) + 1
           W == [current : L, visited : SUBSET L]
           x == [current |-> l0, visited |-> {}]
<1>0. PICK ts : ts = JumpTargets
  OBVIOUS
<1>1. /\ DOMAIN ts \subseteq L
      /\ \A l \in DOMAIN ts : ts[l] \in L /\ SameTarget(l, ts[l])
      /\ N \in Nat
  BY <1>0, JumpTargetsSound
<1>2. ASSUME NEW w \in W
      PROVE  Jump(ts, w) \in W /\ SameTarget(w.current, Jump(ts, w).current)
  <2>1. PICK c \in L, v \in SUBSET L : w = [current |-> c, visited |-> v]
    OBVIOUS
  <2>2. CASE c \in v \/ c \notin DOMAIN ts
    <3>1. Jump(ts, w) = w
      BY <2>1, <2>2 DEF Jump
    <3>. QED  BY <3>1, SilentToSame DEF SameTarget
  <2>3. CASE ~(c \in v \/ c \notin DOMAIN ts)
    <3>1. Jump(ts, w) = [current |-> ts[c], visited |-> v \cup {c}]
      BY <2>1, <2>3 DEF Jump
    <3>2. ts[c] \in L /\ SameTarget(c, ts[c]) /\ v \cup {c} \in SUBSET L
      BY <1>1, <2>3
    <3>3. Jump(ts, w) \in W /\ Jump(ts, w).current = ts[c] /\ w.current = c
      BY <2>1, <3>1, <3>2
    <3>. QED  BY <3>2, <3>3
  <2>. QED  BY <2>2, <2>3
<1>3. x \in W /\ x.current = l0
  OBVIOUS
<1> HIDE DEF W, x, N, L
<1> DEFINE step == [w \in W |-> Jump(ts, w)]
           F(w) == [k \in 0..N |-> IF k = 0 THEN x ELSE Jump(ts, w[k - 1])]
<1>4. step \in [W -> W] /\ \A w \in W : step[w] = Jump(ts, w)
  BY <1>2
<1> HIDE DEF step
<1>5. PICK g \in [0..N -> W] : IsIteration(g, step, x, N)
  BY <1>1, <1>3, <1>4, IterationExists
<1>6. \A k \in 1..N : g[k] = Jump(ts, g[k - 1])
  <2> TAKE k \in 1..N
  <2>1. k - 1 \in 0..N
    BY <1>1
  <2>. QED  BY <1>4, <1>5, <2>1 DEF IsIteration
<1>7. g = F(g)
  BY <1>1, <1>5, <1>6 DEF IsIteration
<1> DEFINE w == LabelWalk(ts, l0)
<1>8. w = CHOOSE v : v = F(v)
  BY <1>0 DEF LabelWalk, N, x
<1>9. w = F(w)
  BY <1>7, <1>8
<1> HIDE DEF w
<1>10. w[0] = x /\ \A k \in 1..N : w[k] = Jump(ts, w[k - 1])
  BY <1>1, <1>9
<1> DEFINE S == {k \in 0..N : w[k] \in W /\ SameTarget(l0, w[k].current)}
<1>11. 0 \in S
  BY <1>1, <1>3, <1>10, SilentToSame DEF SameTarget
<1>12. ASSUME NEW k \in 0..N, k < N, k \in S
       PROVE  k + 1 \in S
  <2>1. k + 1 \in 1..N /\ (k + 1) - 1 = k /\ k + 1 \in 0..N
    BY <1>1, <1>12
  <2>2. w[k + 1] = Jump(ts, w[k]) /\ w[k] \in W /\ SameTarget(l0, w[k].current)
    BY <1>10, <1>12, <2>1
  <2>3. w[k + 1] \in W /\ SameTarget(w[k].current, w[k + 1].current)
    BY <1>2, <2>2
  <2>4. SameTarget(l0, w[k + 1].current)
    BY <2>2, <2>3, SilentToTrans DEF SameTarget
  <2>. QED  BY <2>1, <2>3, <2>4
<1> HIDE DEF S
<1>13. \A k \in 0..N : k \in S
  BY <1>1, <1>11, <1>12, UpTo
<1>14. w[N] \in W /\ SameTarget(l0, w[N].current)
  BY <1>1, <1>13 DEF S
<1>15. w[N].current \in L
  BY <1>14 DEF W
<1>16. resolveLabel(l0) = w[N].current
  BY <1>0 DEF resolveLabel, w, N
<1>. QED  BY <1>14, <1>15, <1>16 DEF L

LEMMA TunnelInstructionSound ==
  ASSUME LInv, pc = "tunnel", NEW inst \in Instructions(graph.code), Sound(graph.code, order, inst)
  PROVE  LET t == TunnelInstruction(inst)
         IN  /\ t \in Instructions(graph.code) /\ Sound(graph.code, order, t)
             /\ t.kind = inst.kind /\ (inst.kind = "label" => t = inst)
             /\ SilentTo(graph.code, Start(order, inst), Start(order, t))
             /\ After(graph.code, order, t) = After(graph.code, order, inst)
<1> DEFINE t == TunnelInstruction(inst)
<1>1. CASE inst.kind = "label"
  <2>1. t = inst
    BY <1>1 DEF TunnelInstruction
  <2>2. SilentTo(graph.code, Start(order, inst), Start(order, inst))
    BY SilentToSame
  <2>. QED  BY <2>1, <2>2
<1>2. CASE inst.kind # "label"
  <2>1. PICK k \in Kinds, ls \in Seq(Nat), p \in (DOMAIN graph.code \cup {0}) \X Nat :
           inst = [kind |-> k, labels |-> ls, at |-> p]
    BY DEF Instructions
  <2>2. PICK ms : ms = [j \in DOMAIN ls |-> resolveLabel(ls[j])]
    OBVIOUS
  <2>3. inst.kind = k /\ inst.labels = ls /\ inst.at = p
    BY <2>1
  <2>4. t = [kind |-> k, labels |-> ms, at |-> p]
    <3>1. t = [inst EXCEPT !.labels = [j \in DOMAIN inst.labels |-> resolveLabel(inst.labels[j])]]
      BY <1>2 DEF TunnelInstruction
    <3>. QED  BY <2>1, <2>2, <2>3, <3>1
  <2>5. \A j \in DOMAIN ls : ls[j] \in DOMAIN order
    BY <2>3 DEF Sound, SoundLabels
  <2>6. \A j \in DOMAIN ls : ms[j] \in DOMAIN order /\ SameTarget(ls[j], ms[j])
    BY <2>2, <2>5, ResolveLabelSound
  <2>7. \A j \in DOMAIN order : j \in Nat
    <3>1. order \in Seq(DOMAIN graph.code)
      BY DEF LInv, Ordered
    <3>2. DOMAIN order = 1..Len(order) /\ Len(order) \in Nat
      BY <3>1, SeqParts
    <3>. QED  BY <3>2
  <2>8. DOMAIN ls = 1..Len(ls) /\ Len(ls) \in Nat
    BY SeqParts
  <2>9. ms \in [1..Len(ls) -> Nat] /\ DOMAIN ms = DOMAIN ls
    BY <2>2, <2>6, <2>7, <2>8
  <2>10. ms \in Seq(Nat) /\ Len(ms) = Len(ls)
    BY <2>8, <2>9, SeqOfFunction
  <2>11. t.kind = k /\ t.labels = ms /\ t.at = p /\ t \in Instructions(graph.code)
    BY <2>4, <2>10 DEF Instructions
  <2> HIDE DEF t
  <2>12. SoundLabels(order, t)
    BY <2>3, <2>6, <2>9, <2>10, <2>11 DEF Sound, SoundLabels
  <2>13. SoundPlace(graph.code, order, t)
    <3>1. SUFFICES ASSUME k \notin {"label", "goto"}
                   PROVE  /\ p \in Places(graph.code) /\ ~Silent(graph.code, p)
                          /\ \A i \in DOMAIN ms :
                               SilentTo(graph.code, Following(graph.code, p, i),
                                        <<order[ms[i]], 1>>)
      BY <2>11 DEF SoundPlace
    <3>2. /\ p \in Places(graph.code) /\ ~Silent(graph.code, p)
          /\ \A i \in DOMAIN ls :
               SilentTo(graph.code, Following(graph.code, p, i), <<order[ls[i]], 1>>)
      BY <2>3, <3>1 DEF Sound, SoundPlace
    <3>3. ASSUME NEW i \in DOMAIN ms
          PROVE  SilentTo(graph.code, Following(graph.code, p, i), <<order[ms[i]], 1>>)
      <4>1. SilentTo(graph.code, Following(graph.code, p, i), <<order[ls[i]], 1>>)
        BY <2>9, <3>2
      <4>2. SilentTo(graph.code, <<order[ls[i]], 1>>, <<order[ms[i]], 1>>)
        BY <2>6, <2>9 DEF SameTarget
      <4>. QED  BY <4>1, <4>2, SilentToTrans
    <3>. QED  BY <3>2, <3>3
  <2>14. SoundExits(graph.code, t)
    BY <2>3, <2>10, <2>11 DEF Sound, SoundExits
  <2>15. SilentTo(graph.code, Start(order, inst), Start(order, t))
    <3>1. CASE k = "goto"
      <4>1. 1 \in DOMAIN ls
        BY <2>3, <2>8, <3>1 DEF Sound, SoundLabels
      <4>2. SilentTo(graph.code, <<order[ls[1]], 1>>, <<order[ms[1]], 1>>)
        BY <2>6, <4>1 DEF SameTarget
      <4>. QED  BY <2>3, <2>11, <3>1, <4>2 DEF Start
    <3>2. CASE k # "goto"
      BY <1>2, <2>3, <2>11, <3>2, SilentToSame DEF Start
    <3>. QED  BY <3>1, <3>2
  <2>16. After(graph.code, order, t) = After(graph.code, order, inst)
    BY <1>2, <2>3, <2>10, <2>11 DEF After
  <2>. QED  BY <1>2, <2>3, <2>11, <2>12, <2>13, <2>14, <2>15, <2>16 DEF Sound, t
<1>. QED  BY <1>1, <1>2

LEMMA TunnelInv ==
  ASSUME LInv, Tunnel
  PROVE  LInv'
<1> DEFINE m == Len(linear)
           d == [q \in DOMAIN linear |-> TunnelInstruction(linear[q])]
<1>1. /\ pc = "tunnel" /\ linear' = d /\ pc' = "cleanup"
      /\ UNCHANGED <<graph, order, newCode, pos, last>>
  BY DEF Tunnel, ordering
<1>2. /\ Ordered /\ graph \in Graphs /\ Complete(graph, order, linear)
      /\ \A l \in DOMAIN order : Once(linear, l)
      /\ pos = 1 /\ newCode = <<>>
  BY <1>1 DEF LInv
<1>3. SoundCode(graph.code, order, linear) /\ Ends(linear) /\ linear # <<>>
      /\ linear[1].kind = "label" /\ order[linear[1].labels[1]] = graph.entry
  BY <1>2 DEF Complete
<1>4. linear \in Seq(Instructions(graph.code)) /\ Linked(graph.code, order, linear)
      /\ \A q \in DOMAIN linear : Sound(graph.code, order, linear[q])
  BY <1>3 DEF SoundCode
<1>5. m \in Nat /\ DOMAIN linear = 1..m /\ m # 0
      /\ \A q \in 1..m : linear[q] \in Instructions(graph.code)
  BY <1>3, <1>4, SeqParts
<1>6. DOMAIN d = 1..m /\ \A q \in 1..m : d[q] = TunnelInstruction(linear[q])
  BY <1>5
<1> HIDE DEF m
<1>7. \A q \in 1..m :
        /\ d[q] \in Instructions(graph.code) /\ Sound(graph.code, order, d[q])
        /\ d[q].kind = linear[q].kind /\ (linear[q].kind = "label" => d[q] = linear[q])
        /\ SilentTo(graph.code, Start(order, linear[q]), Start(order, d[q]))
        /\ After(graph.code, order, d[q]) = After(graph.code, order, linear[q])
  <2> TAKE q \in 1..m
  <2>1. linear[q] \in Instructions(graph.code) /\ Sound(graph.code, order, linear[q])
        /\ d[q] = TunnelInstruction(linear[q])
    BY <1>4, <1>5, <1>6
  <2> HIDE DEF d
  <2>. QED  BY <1>1, <2>1, TunnelInstructionSound
<1>8. d \in [1..m -> Instructions(graph.code)]
  BY <1>5, <1>7
<1> HIDE DEF d
<1>9. d \in Seq(Instructions(graph.code)) /\ Len(d) = m
  BY <1>5, <1>8, SeqOfFunction
<1>10. Linked(graph.code, order, d)
  <2> SUFFICES ASSUME NEW q \in 1..m, q + 1 \in 1..m, Falls(d[q])
               PROVE  SilentTo(graph.code, After(graph.code, order, d[q]), Start(order, d[q + 1]))
    BY <1>6 DEF Linked
  <2>1. Falls(linear[q])
    BY <1>7 DEF Falls
  <2>2. SilentTo(graph.code, After(graph.code, order, linear[q]), Start(order, linear[q + 1]))
    BY <1>4, <1>5, <2>1 DEF Linked
  <2>3. SilentTo(graph.code, Start(order, linear[q + 1]), Start(order, d[q + 1]))
    BY <1>7
  <2>4. After(graph.code, order, d[q]) = After(graph.code, order, linear[q])
    BY <1>7
  <2>. QED  BY <2>2, <2>3, <2>4, SilentToTrans
<1>11. SoundCode(graph.code, order, d)
  BY <1>6, <1>7, <1>9, <1>10 DEF SoundCode
<1>12. m \in 1..m /\ 1 \in 1..m
  BY <1>5
<1>13. Ends(d)
  <2>1. ~Falls(linear[m])
    BY <1>3 DEF Ends, m
  <2>2. ~Falls(d[m])
    BY <1>7, <1>12, <2>1 DEF Falls
  <2>. QED  BY <1>9, <2>2 DEF Ends
<1>14. d # <<>> /\ d[1].kind = "label" /\ order[d[1].labels[1]] = graph.entry
  BY <1>3, <1>5, <1>7, <1>9, <1>12
<1>15. Complete(graph, order, d)
  BY <1>11, <1>13, <1>14 DEF Complete
<1>16. ASSUME NEW l \in DOMAIN order
       PROVE  Once(d, l)
  <2>0. Once(linear, l)
    BY <1>2
  <2>1. PICK q \in DOMAIN linear : \A r \in DOMAIN linear : IsDefinition(linear, r, l) <=> r = q
    BY <2>0 DEF Once
  <2>2. \A r \in 1..m : IsDefinition(d, r, l) <=> IsDefinition(linear, r, l)
    BY <1>7 DEF IsDefinition
  <2>3. q \in DOMAIN d /\ \A r \in DOMAIN d : IsDefinition(d, r, l) <=> r = q
    BY <1>5, <1>6, <2>1, <2>2
  <2>. QED  BY <2>3 DEF Once
<1>17. Ordered'
  BY <1>1, <1>2, OrderedStays
<1>18. CleanupInv'
  <2>1. pos' = 1 /\ newCode' = <<>> /\ linear' = d /\ graph' = graph /\ order' = order
    BY <1>1, <1>2
  <2>2. 1 \in 1..Len(d) + 1 /\ ~(1 > Len(d)) /\ 1 - 1 = 0 /\ 1..0 = {}
    BY <1>5, <1>9
  <2>3. <<>> \in Seq(Instructions(graph.code)) /\ Linked(graph.code, order, <<>>)
    BY EmptyCodeSound DEF SoundCode
  <2>4. LeadsTo(graph.code, order, <<>>, Start(order, d[1])) /\ \A l : Never(<<>>, l)
    BY EmptyCodeSound
  <2>5. ~(\E r \in 1..pos' - 1 : TRUE)
    BY <2>1, <2>2
  <2>6. DOMAIN <<>> = {}
    OBVIOUS
  <2>. QED  BY <2>1, <2>2, <2>3, <2>4, <2>5, <2>6 DEF CleanupInv
<1>. QED  BY <1>1, <1>2, <1>15, <1>16, <1>17, <1>18 DEF LInv, NotYetRun

-----------------------------------------------------------------------------
(***************************************************************************)
(* CleanupLabels.                                                          *)
(***************************************************************************)
\* What is known about the code while labels are dropped.
LEMMA CleanupFacts ==
  ASSUME LInv, pc = "cleanup"
  PROVE  /\ CleanupInv /\ Ordered /\ IsCFG(graph.code, graph.entry)
         /\ linear \in Seq(Instructions(graph.code)) /\ Linked(graph.code, order, linear)
         /\ \A q \in DOMAIN linear : Sound(graph.code, order, linear[q])
         /\ Len(linear) \in Nat /\ Len(linear) # 0 /\ DOMAIN linear = 1..Len(linear)
         /\ pos \in Nat /\ pos # 0 /\ pos <= Len(linear) + 1
         /\ ~Falls(linear[Len(linear)])
         /\ linear[1].kind = "label" /\ order[linear[1].labels[1]] = graph.entry
         /\ \A l \in DOMAIN order : Once(linear, l)
<1>1. /\ CleanupInv /\ Ordered /\ IsCFG(graph.code, graph.entry) /\ Complete(graph, order, linear)
      /\ \A l \in DOMAIN order : Once(linear, l)
  BY GraphIsCFG DEF LInv
<1>2. /\ SoundCode(graph.code, order, linear) /\ ~Falls(linear[Len(linear)]) /\ linear # <<>>
      /\ linear[1].kind = "label" /\ order[linear[1].labels[1]] = graph.entry
  BY <1>1 DEF Complete, Ends
<1>3. /\ linear \in Seq(Instructions(graph.code)) /\ Linked(graph.code, order, linear)
      /\ \A q \in DOMAIN linear : Sound(graph.code, order, linear[q])
  BY <1>2 DEF SoundCode
<1>4. Len(linear) \in Nat /\ DOMAIN linear = 1..Len(linear) /\ Len(linear) # 0
  BY <1>2, <1>3, SeqParts
<1>5. pos \in 1..Len(linear) + 1
  BY <1>1 DEF CleanupInv
<1>6. pos \in Nat /\ pos # 0 /\ pos <= Len(linear) + 1
  BY <1>4, <1>5
<1>. QED  BY <1>1, <1>2, <1>3, <1>4, <1>6

\* The labels of an instruction are blocks of the order.
LEMMA LabelInOrder ==
  ASSUME NEW code, NEW o, NEW inst \in Instructions(code), Sound(code, o, inst)
  PROVE  /\ inst.kind \in {"label", "goto"} =>
              inst.labels[1] \in DOMAIN o /\ DOMAIN inst.labels = {1}
         /\ \A i \in DOMAIN inst.labels : inst.labels[i] \in DOMAIN o
<1>1. PICK ls \in Seq(Nat) : ls = inst.labels
  BY DEF Instructions
<1>2. \A i \in DOMAIN ls : ls[i] \in DOMAIN o
  BY <1>1 DEF Sound, SoundLabels
<1>3. inst.kind \in {"label", "goto"} => Len(ls) = 1
  BY <1>1 DEF Sound, SoundLabels
<1>4. DOMAIN ls = 1..Len(ls)
  OBVIOUS
<1>5. inst.kind \in {"label", "goto"} => DOMAIN ls = {1}
  BY <1>3, <1>4
<1>. QED  BY <1>1, <1>2, <1>5

LEMMA CleanupInstructionInv ==
  ASSUME LInv, CleanupInstruction
  PROVE  LInv'
<1> DEFINE m == Len(linear)
           code == graph.code
<1>0. PICK inst : inst = linear[pos]
  OBVIOUS
<1>1. /\ pc = "cleanup" /\ pos <= m /\ pos' = pos + 1
      /\ UNCHANGED <<graph, order, linear, pc, last>>
  BY DEF CleanupInstruction, ordering
<1>2. newCode' = IF inst.kind = "label" /\ inst.labels[1] \notin Kept THEN newCode
                 ELSE Append(newCode, inst)
  BY <1>0 DEF CleanupInstruction, IsLabel, Kept
<1>3. /\ CleanupInv /\ Ordered /\ IsCFG(code, graph.entry)
      /\ linear \in Seq(Instructions(code)) /\ Linked(code, order, linear)
      /\ \A q \in DOMAIN linear : Sound(code, order, linear[q])
      /\ m \in Nat /\ m # 0 /\ DOMAIN linear = 1..m
      /\ pos \in Nat /\ pos # 0 /\ pos <= m + 1
      /\ ~Falls(linear[m])
      /\ linear[1].kind = "label"
      /\ \A l \in DOMAIN order : Once(linear, l)
  BY <1>1, CleanupFacts
<1>4. pos \in DOMAIN linear /\ inst \in Instructions(code) /\ Sound(code, order, inst)
  <2>1. pos \in 1..m
    BY <1>1, <1>3
  <2>. QED  BY <1>0, <1>3, <2>1, SeqParts
<1>5. newCode \in Seq(Instructions(code)) /\ Linked(code, order, newCode)
      /\ LeadsTo(code, order, newCode, Start(order, inst))
  BY <1>0, <1>1, <1>3 DEF CleanupInv
<1>6. Kept' = Kept
  BY <1>1 DEF Kept, UsedLabels, IsLabel
<1>7. Falls(inst) => pos + 1 \in DOMAIN linear /\ pos + 1 <= m
        /\ SilentTo(code, After(code, order, inst), Start(order, linear[pos + 1]))
  <2> SUFFICES ASSUME Falls(inst)
               PROVE  pos + 1 \in DOMAIN linear /\ pos + 1 <= m
                      /\ SilentTo(code, After(code, order, inst), Start(order, linear[pos + 1]))
    OBVIOUS
  <2>1. ASSUME pos = m  PROVE FALSE
    <3>1. inst = linear[m]
      BY <1>0, <2>1
    <3>. QED  BY <1>3, <3>1 DEF Falls
  <2>2. pos + 1 \in DOMAIN linear /\ pos + 1 <= m
    <3>1. pos \in Nat /\ m \in Nat /\ pos <= m /\ pos # m
      BY <1>1, <1>3, <2>1
    <3> HIDE DEF m
    <3>2. pos + 1 \in 1..m /\ pos + 1 <= m
      BY <3>1
    <3>. QED  BY <1>3, <3>2
  <2>. QED  BY <1>0, <1>3, <1>4, <2>2 DEF Linked
<1>8. /\ \A q \in DOMAIN newCode : \E r \in DOMAIN linear : newCode[q] = linear[r]
      /\ \A q \in DOMAIN newCode : newCode[q].kind = "label" => newCode[q].labels[1] \in Kept
  BY <1>3 DEF CleanupInv
<1>9. \A l \in Kept : IF \E r \in 1..pos - 1 : IsDefinition(linear, r, l)
                      THEN Once(newCode, l) ELSE Never(newCode, l)
  BY <1>3 DEF CleanupInv
<1>10. /\ (pos + 1) - 1 = pos /\ pos + 1 # 1 /\ pos + 1 \in 1..m + 1
       /\ \A r \in 1..pos - 1 : r \in 1..pos /\ r # pos /\ r \in DOMAIN linear
       /\ \A r \in 1..pos : r \in 1..pos - 1 \/ r = pos
       /\ pos \in 1..pos
  BY <1>1, <1>3
<1> HIDE DEF m, code
<1>11. CASE inst.kind = "label" /\ inst.labels[1] \notin Kept
  <2>1. newCode' = newCode
    BY <1>2, <1>11
  <2>2. pos # 1
    BY <1>0, <1>11 DEF Kept
  <2>3. newCode # <<>> /\ newCode[1] = linear[1]
    BY <1>3, <2>2 DEF CleanupInv
  <2>4. Falls(inst) /\ After(code, order, inst) = Start(order, inst)
    BY <1>11 DEF Falls, After, Start
  <2>5. pos + 1 <= m /\ LeadsTo(code, order, newCode, Start(order, linear[pos + 1]))
    BY <1>5, <1>7, <2>4, LeadsOn
  <2>6. ASSUME NEW l \in Kept
        PROVE  IF \E r \in 1..(pos + 1) - 1 : IsDefinition(linear, r, l)
               THEN Once(newCode, l) ELSE Never(newCode, l)
    <3>1. ~IsDefinition(linear, pos, l)
      BY <1>0, <1>11 DEF IsDefinition
    <3>2. (\E r \in 1..pos : IsDefinition(linear, r, l))
            <=> (\E r \in 1..pos - 1 : IsDefinition(linear, r, l))
      BY <1>10, <3>1
    <3>. QED  BY <1>9, <1>10, <3>2
  <2>7. CleanupInv'
    <3>1. ~(pos + 1 > m)
      BY <1>3, <2>5 DEF m
    <3>. QED  BY <1>1, <1>5, <1>6, <1>8, <1>10, <2>1, <2>3, <2>5, <2>6, <3>1 DEF CleanupInv, m, code
  <2>. QED  BY <1>1, <1>3, <2>7, OrderedStays DEF LInv, NotYetRun
<1>12. CASE ~(inst.kind = "label" /\ inst.labels[1] \notin Kept)
  <2> DEFINE d == Append(newCode, inst)
             k == Len(newCode)
  <2>1. newCode' = d
    BY <1>2, <1>12
  <2>2. /\ d \in Seq(Instructions(code)) /\ d # <<>> /\ k \in Nat /\ DOMAIN newCode = 1..k
        /\ DOMAIN d = 1..k + 1 /\ d[k + 1] = inst /\ \A q \in 1..k : d[q] = newCode[q]
    BY <1>4, <1>5, AppendParts
  <2>3. Linked(code, order, d)
    BY <1>4, <1>5, AppendLinked
  <2>4. pos + 1 <= m => LeadsTo(code, order, d, Start(order, linear[pos + 1]))
    BY <1>4, <1>5, <1>7, AppendLeads
  <2>5. pos + 1 > m => Ends(d)
    <3>1. pos + 1 > m => ~(pos + 1 <= m)
      BY <1>3 DEF m
    <3>. QED  BY <1>4, <1>5, <1>7, <3>1, AppendEnds
  <2>6. d[1] = linear[1]
    <3>1. CASE pos = 1
      <4>1. newCode = <<>>
        BY <1>3, <3>1 DEF CleanupInv
      <4>2. d = <<inst>>
        BY <4>1
      <4>. QED  BY <1>0, <3>1, <4>2
    <3>2. CASE pos # 1
      <4>1. newCode # <<>> /\ newCode[1] = linear[1]
        BY <1>3, <3>2 DEF CleanupInv
      <4>. QED  BY <1>4, <1>5, <4>1, AppendFirst
    <3>. QED  BY <3>1, <3>2
  <2>7. ASSUME NEW l \in Kept
        PROVE  IF \E r \in 1..(pos + 1) - 1 : IsDefinition(linear, r, l)
               THEN Once(d, l) ELSE Never(d, l)
    <3>1. CASE inst.kind = "label" /\ inst.labels[1] = l
      <4>1. l \in DOMAIN order
        BY <1>4, <3>1, LabelInOrder
      <4>2. Once(linear, l)
        BY <1>3, <4>1
      <4>3. PICK q \in DOMAIN linear : \A r \in DOMAIN linear : IsDefinition(linear, r, l) <=> r = q
        BY <4>2 DEF Once
      <4>4. IsDefinition(linear, pos, l)
        BY <1>0, <3>1 DEF IsDefinition
      <4>5. ~(\E r \in 1..pos - 1 : IsDefinition(linear, r, l))
        BY <1>4, <1>10, <4>3, <4>4
      <4>6. Never(newCode, l)
        BY <1>9, <4>5
      <4>7. Once(d, l)
        BY <1>4, <1>5, <3>1, <4>6, AppendDefinition
      <4>. QED  BY <1>10, <4>4, <4>7
    <3>2. CASE ~(inst.kind = "label" /\ inst.labels[1] = l)
      <4>1. ~IsDefinition(linear, pos, l)
        BY <1>0, <3>2 DEF IsDefinition
      <4>2. (\E r \in 1..pos : IsDefinition(linear, r, l))
              <=> (\E r \in 1..pos - 1 : IsDefinition(linear, r, l))
        BY <1>10, <4>1
      <4>3. (Once(newCode, l) => Once(d, l)) /\ (Never(newCode, l) => Never(d, l))
        BY <1>4, <1>5, <3>2, AppendOther
      <4> HIDE DEF d
      <4>. QED  BY <1>9, <1>10, <4>2, <4>3
    <3>. QED  BY <3>1, <3>2
  <2> HIDE DEF d, k
  <2>8. \A q \in DOMAIN d : q \in DOMAIN newCode \/ q = k + 1
    BY <2>2
  <2>9. \A q \in DOMAIN d : /\ \E r \in DOMAIN linear : d[q] = linear[r]
                            /\ d[q].kind = "label" => d[q].labels[1] \in Kept
    BY <1>0, <1>4, <1>8, <1>12, <2>2, <2>8
  <2>10. CleanupInv'
    BY <1>1, <1>6, <1>10, <2>1, <2>2, <2>3, <2>4, <2>5, <2>6, <2>7, <2>9 DEF CleanupInv, m, code
  <2>. QED  BY <1>1, <1>3, <2>10, OrderedStays DEF LInv, NotYetRun
<1>. QED  BY <1>11, <1>12

-----------------------------------------------------------------------------
(***************************************************************************)
(* The operators of CFGRun are those of CFG.                               *)
(***************************************************************************)
LEMMA GraphOperators ==
  /\ Graph!Here = IF last.at[2] = 0 THEN <<graph.entry, 1>>
                  ELSE Following(graph.code, last.at, last.out)
  /\ Graph!Finished <=> last.at[2] # 0 /\ IsExit(graph.code, last.at)
  /\ Graph!IsCFG(graph.code, graph.entry) <=> IsCFG(graph.code, graph.entry)
  /\ \A p : /\ Graph!FirstVisible(graph.code, p) = FirstVisible(graph.code, p)
            /\ Graph!Silent(graph.code, p) <=> Silent(graph.code, p)
            /\ Graph!Outcomes(graph.code, p) = Outcomes(graph.code, p)
<1>1. Graph!Here = IF last.at[2] = 0 THEN <<graph.entry, 1>>
                   ELSE Following(graph.code, last.at, last.out)
  BY DEF Graph!Here, Graph!Following, Graph!AtTerminator, Following, AtTerminator
<1>2. Graph!Finished <=> last.at[2] # 0 /\ IsExit(graph.code, last.at)
  BY DEF Graph!Finished, Graph!IsExit, Graph!AtTerminator, IsExit, AtTerminator
<1>3. Graph!IsCFG(graph.code, graph.entry) <=> IsCFG(graph.code, graph.entry)
  BY DEF Graph!IsCFG, Graph!IsFiniteSet, Graph!IsBlock, Graph!BlockKinds, IsCFG, IsFiniteSet,
     IsBlock, BlockKinds
<1>4. ASSUME NEW p
      PROVE  /\ Graph!FirstVisible(graph.code, p) = FirstVisible(graph.code, p)
             /\ Graph!Silent(graph.code, p) <=> Silent(graph.code, p)
             /\ Graph!Outcomes(graph.code, p) = Outcomes(graph.code, p)
  <2>1. Graph!Silent(graph.code, p) <=> Silent(graph.code, p)
    BY DEF Graph!Silent, Graph!AtTerminator, Silent, AtTerminator
  <2>2. Graph!Outcomes(graph.code, p) = Outcomes(graph.code, p)
    BY DEF Graph!Outcomes, Graph!AtTerminator, Outcomes, AtTerminator
  <2>3. Graph!FirstVisible(graph.code, p) = FirstVisible(graph.code, p)
    BY DEF Graph!FirstVisible, Graph!SilentWalk, Graph!Onward, Graph!Silent, Graph!Following,
       Graph!AtTerminator, Graph!Places, Graph!Cardinality, FirstVisible, SilentWalk, Onward,
       Silent, Following, AtTerminator, Places, Cardinality
  <2>. QED  BY <2>1, <2>2, <2>3
<1>. QED  BY <1>1, <1>2, <1>3, <1>4

\* The first instruction of a graph is a place.
LEMMA EntryPlace ==
  ASSUME NEW code, NEW entry, IsCFG(code, entry)
  PROVE  <<entry, 1>> \in Places(code)
<1>1. entry \in DOMAIN code
  BY DEF IsCFG
<1>2. PICK b : b = code[entry]
  OBVIOUS
<1>3. b.body \in Seq({"nop", "op"})
  BY <1>1, <1>2 DEF IsCFG, IsBlock
<1>4. Len(b.body) \in Nat
  BY <1>3
<1>5. 1 \in 1..Len(b.body) + 1
  BY <1>4
<1>. QED  BY <1>1, <1>2, <1>5, PlaceOfBlock

LEMMA GraphNext ==
  /\ Graph!Here' = IF last'.at[2] = 0 THEN <<graph'.entry, 1>>
                   ELSE Following(graph'.code, last'.at, last'.out)
  /\ Graph!Finished' <=> last'.at[2] # 0 /\ IsExit(graph'.code, last'.at)
<1>1. Graph!Here' = IF last'.at[2] = 0 THEN <<graph'.entry, 1>>
                    ELSE Following(graph'.code, last'.at, last'.out)
  BY DEF Graph!Here, Graph!Following, Graph!AtTerminator, Following, AtTerminator
<1>2. Graph!Finished' <=> last'.at[2] # 0 /\ IsExit(graph'.code, last'.at)
  BY DEF Graph!Finished, Graph!IsExit, Graph!AtTerminator, IsExit, AtTerminator
<1>. QED  BY <1>1, <1>2

-----------------------------------------------------------------------------
(***************************************************************************)
(* The end of CleanupLabels.                                               *)
(***************************************************************************)
LEMMA EndCleanupInv ==
  ASSUME LInv, EndCleanup
  PROVE  LInv'
<1> DEFINE m == Len(linear)
           code == graph.code
<1>1. /\ pc = "cleanup" /\ pos > m /\ linear' = newCode /\ pos' = 1 /\ pc' = "run"
      /\ UNCHANGED <<graph, order, newCode, last>>
  BY DEF EndCleanup, ordering
<1>2. /\ CleanupInv /\ Ordered /\ IsCFG(code, graph.entry)
      /\ linear \in Seq(Instructions(code))
      /\ \A q \in DOMAIN linear : Sound(code, order, linear[q])
      /\ m \in Nat /\ m # 0 /\ DOMAIN linear = 1..m
      /\ pos \in Nat /\ pos # 0 /\ pos <= m + 1
      /\ linear[1].kind = "label" /\ order[linear[1].labels[1]] = graph.entry
      /\ \A l \in DOMAIN order : Once(linear, l)
  BY <1>1, CleanupFacts
<1>3. pos # 1 /\ pos - 1 = m
  <2>1. pos \in Nat /\ m \in Nat /\ m # 0 /\ pos > m /\ pos <= m + 1
    BY <1>1, <1>2
  <2> HIDE DEF m
  <2>. QED  BY <2>1
<1>4. /\ newCode \in Seq(Instructions(code)) /\ Linked(code, order, newCode) /\ Ends(newCode)
      /\ newCode # <<>> /\ newCode[1] = linear[1]
  BY <1>1, <1>2, <1>3 DEF CleanupInv
<1>5. \A q \in DOMAIN newCode :
        /\ \E r \in DOMAIN linear : newCode[q] = linear[r]
        /\ newCode[q].kind = "label" => newCode[q].labels[1] \in Kept
  BY <1>2 DEF CleanupInv
<1>6. \A l \in Kept : IF \E r \in 1..m : IsDefinition(linear, r, l)
                      THEN Once(newCode, l) ELSE Never(newCode, l)
  BY <1>2, <1>3 DEF CleanupInv
<1> HIDE DEF m, code
<1>7. Complete(graph, order, newCode)
  <2>1. \A q \in DOMAIN newCode : Sound(code, order, newCode[q])
    BY <1>2, <1>5
  <2>2. SoundCode(code, order, newCode)
    BY <1>4, <2>1 DEF SoundCode
  <2>. QED  BY <1>2, <1>4, <2>2 DEF Complete, code
<1>8. ASSUME NEW q \in DOMAIN newCode, NEW i \in DOMAIN newCode[q].labels
      PROVE  Once(newCode, newCode[q].labels[i])
  <2>1. PICK r \in DOMAIN linear : newCode[q] = linear[r]
    BY <1>5
  <2>2. PICK inst : inst = linear[r]
    OBVIOUS
  <2>3. PICK l : l = inst.labels[i]
    OBVIOUS
  <2>4. inst \in Instructions(code) /\ Sound(code, order, inst)
    BY <1>2, <2>2, SeqParts
  <2>5. i \in DOMAIN inst.labels
    BY <2>1, <2>2
  <2>6. l \in DOMAIN order /\ (inst.kind = "label" => i = 1)
    BY <2>3, <2>4, <2>5, LabelInOrder
  <2>7. l \in Kept
    <3>1. CASE inst.kind = "label"
      BY <1>5, <2>1, <2>2, <2>3, <2>6, <3>1
    <3>2. CASE inst.kind # "label"
      <4>1. l \in ToSet(inst.labels)
        BY <2>3, <2>5 DEF ToSet
      <4>2. ToSet(linear[r].labels) \subseteq UsedLabels
        BY <2>2, <3>2 DEF UsedLabels, IsLabel
      <4>. QED  BY <2>2, <4>1, <4>2 DEF Kept
    <3>. QED  BY <3>1, <3>2
  <2>8. PICK r0 \in DOMAIN linear : IsDefinition(linear, r0, l)
    BY <1>2, <2>6 DEF Once
  <2>9. Once(newCode, l)
    BY <1>2, <1>6, <2>7, <2>8
  <2>. QED  BY <2>1, <2>2, <2>3, <2>9
<1>9. UsedOnce(newCode)
  BY <1>8 DEF UsedOnce
<1>10. Graph!Here' = <<graph.entry, 1>> /\ ~Graph!Finished'
  <2>1. last = [at |-> <<graph.entry, 0>>, out |-> 1]
    BY <1>1 DEF LInv, NotYetRun
  <2>2. last.at[2] = 0
    BY <2>1
  <2>3. last'.at[2] = 0 /\ graph' = graph
    BY <1>1, <2>2
  <2>. QED  BY <2>3, GraphNext
<1>11. RunInv'
  <2>1. <<graph.entry, 1>> \in Places(code)
    BY <1>2, EntryPlace
  <2>2. Start(order, newCode[1]) = <<graph.entry, 1>>
    BY <1>2, <1>4 DEF Start
  <2>3. SilentTo(code, <<graph.entry, 1>>, Start(order, newCode[1]))
    BY <2>2, SilentToSame
  <2>4. 1 \in DOMAIN newCode
    BY <1>4
  <2>. QED  BY <1>1, <1>10, <2>1, <2>3, <2>4 DEF RunInv, code
<1>12. graph \in Graphs /\ Ordered'
  BY <1>1, <1>2, OrderedStays DEF LInv
<1>. QED  BY <1>1, <1>7, <1>9, <1>11, <1>12 DEF LInv

-----------------------------------------------------------------------------
(***************************************************************************)
(* The code at work.                                                       *)
(***************************************************************************)
LEMMA RunFacts ==
  ASSUME LInv, pc = "run"
  PROVE  /\ IsCFG(graph.code, graph.entry) /\ pos \in DOMAIN linear
         /\ Inst \in Instructions(graph.code) /\ Sound(graph.code, order, Inst)
         /\ Graph!Here \in Places(graph.code) /\ ~Graph!Finished
         /\ SilentTo(graph.code, Graph!Here, Start(order, Inst))
         /\ Falls(Inst) =>
              /\ pos + 1 \in DOMAIN linear
              /\ SilentTo(graph.code, After(graph.code, order, Inst), Start(order, linear[pos + 1]))
         /\ \A i \in DOMAIN Inst.labels : Once(linear, Inst.labels[i])
<1>1. IsCFG(graph.code, graph.entry) /\ Complete(graph, order, linear) /\ UsedOnce(linear) /\ RunInv
  BY GraphIsCFG DEF LInv
<1>2. /\ pos \in DOMAIN linear /\ Graph!Here \in Places(graph.code) /\ ~Graph!Finished
      /\ SilentTo(graph.code, Graph!Here, Start(order, Inst))
  BY <1>1 DEF RunInv, Inst
<1>3. /\ linear \in Seq(Instructions(graph.code)) /\ Linked(graph.code, order, linear)
      /\ Sound(graph.code, order, Inst) /\ linear # <<>> /\ ~Falls(linear[Len(linear)])
  BY <1>1, <1>2 DEF Complete, SoundCode, Ends, Inst
<1>4. PICK m \in Nat : m = Len(linear) /\ DOMAIN linear = 1..m
  BY <1>3, SeqParts
<1>5. Inst \in Instructions(graph.code)
  BY <1>2, <1>3, SeqParts DEF Inst
<1>6. ASSUME Falls(Inst)
      PROVE  /\ pos + 1 \in DOMAIN linear
             /\ SilentTo(graph.code, After(graph.code, order, Inst), Start(order, linear[pos + 1]))
  <2>1. ASSUME pos = m  PROVE FALSE
    <3>1. Inst = linear[Len(linear)]
      BY <1>4, <2>1 DEF Inst
    <3>. QED  BY <1>3, <1>6, <3>1
  <2>2. pos + 1 \in 1..m
    BY <1>2, <1>4, <2>1
  <2>3. pos + 1 \in DOMAIN linear
    BY <1>4, <2>2
  <2>. QED  BY <1>2, <1>3, <1>6, <2>3 DEF Linked, Inst
<1>7. \A i \in DOMAIN Inst.labels : Once(linear, Inst.labels[i])
  BY <1>1, <1>2 DEF UsedOnce, Inst
<1>. QED  BY <1>1, <1>2, <1>3, <1>5, <1>6, <1>7

\* A label that is defined once is where a jump to it goes.
LEMMA JumpPlace ==
  ASSUME NEW l, Once(linear, l)
  PROVE  PlaceOf(l) \in DOMAIN linear /\ Start(order, linear[PlaceOf(l)]) = <<order[l], 1>>
<1>1. PICK q \in DOMAIN linear : IsDefinition(linear, q, l)
  BY DEF Once
<1>2. \A r \in DOMAIN linear : Defines(r, l) <=> IsDefinition(linear, r, l)
  BY DEF Defines, IsLabel, IsDefinition
<1>3. PlaceOf(l) \in DOMAIN linear /\ Defines(PlaceOf(l), l)
  BY <1>1, <1>2 DEF PlaceOf
<1>4. PICK inst : inst = linear[PlaceOf(l)]
  OBVIOUS
<1>5. inst.kind = "label" /\ inst.labels[1] = l
  BY <1>3, <1>4 DEF Defines, IsLabel
<1>. QED  BY <1>3, <1>4, <1>5 DEF Start

LEMMA RunStep ==
  ASSUME LInv, pc = "run", RunInv', UNCHANGED <<graph, ordering, linear, pc>>
  PROVE  LInv'
<1>1. Ordered'
  BY OrderedStays DEF LInv, ordering
<1>2. pc' = "run" /\ graph' = graph /\ order' = order /\ linear' = linear
  BY DEF ordering
<1>3. graph \in Graphs /\ Complete(graph, order, linear) /\ UsedOnce(linear)
  BY DEF LInv
<1>. QED  BY <1>1, <1>2, <1>3 DEF LInv

\* Neither a label nor a jump is an instruction of the graph.
LEMMA HereStays ==
  ASSUME UNCHANGED <<graph, last>>
  PROVE  Graph!Here' = Graph!Here /\ (Graph!Finished' <=> Graph!Finished)
BY GraphOperators, GraphNext

LEMMA RunLabelInv ==
  ASSUME LInv, RunLabel
  PROVE  LInv'
<1>1. /\ pc = "run" /\ Inst.kind = "label" /\ pos' = pos + 1
      /\ UNCHANGED <<graph, ordering, linear, pc, last>> /\ order' = order
  BY DEF RunLabel, ordering
<1>2. Falls(Inst) /\ After(graph.code, order, Inst) = Start(order, Inst)
  BY <1>1 DEF Falls, After, Start
<1>3. /\ pos + 1 \in DOMAIN linear /\ Graph!Here \in Places(graph.code) /\ ~Graph!Finished
      /\ SilentTo(graph.code, Graph!Here, Start(order, Inst))
      /\ SilentTo(graph.code, Start(order, Inst), Start(order, linear[pos + 1]))
  BY <1>1, <1>2, RunFacts
<1>4. SilentTo(graph.code, Graph!Here, Start(order, linear[pos + 1]))
  BY <1>3, SilentToTrans
<1>5. RunInv'
  BY <1>1, <1>3, <1>4, HereStays DEF RunInv
<1>. QED  BY <1>1, <1>5, RunStep

LEMMA RunGotoInv ==
  ASSUME LInv, RunGoto
  PROVE  LInv'
<1>1. /\ pc = "run" /\ Inst.kind = "goto" /\ pos' = PlaceOf(Inst.labels[1])
      /\ UNCHANGED <<graph, ordering, linear, pc, last>> /\ order' = order
  BY DEF RunGoto, ordering
<1>2. PICK l : l = Inst.labels[1]
  OBVIOUS
<1>3. /\ Graph!Here \in Places(graph.code) /\ ~Graph!Finished
      /\ SilentTo(graph.code, Graph!Here, Start(order, Inst))
      /\ Inst \in Instructions(graph.code) /\ Sound(graph.code, order, Inst)
      /\ \A i \in DOMAIN Inst.labels : Once(linear, Inst.labels[i])
  BY <1>1, RunFacts
<1>4. Once(linear, l)
  <2>1. DOMAIN Inst.labels = {1}
    BY <1>1, <1>3, LabelInOrder
  <2>. QED  BY <1>2, <1>3, <2>1
<1>5. PlaceOf(l) \in DOMAIN linear /\ Start(order, linear[PlaceOf(l)]) = <<order[l], 1>>
  BY <1>4, JumpPlace
<1>6. Start(order, Inst) = <<order[l], 1>>
  BY <1>1, <1>2 DEF Start
<1>7. RunInv'
  BY <1>1, <1>2, <1>3, <1>5, <1>6, HereStays DEF RunInv
<1>. QED  BY <1>1, <1>7, RunStep

\* A visible instruction of the code is the one that the graph executes next.
LEMMA VisibleIsNext ==
  ASSUME LInv, pc = "run", Inst.kind \notin {"label", "goto"}
  PROVE  /\ Inst.at \in Places(graph.code) /\ ~Silent(graph.code, Inst.at)
         /\ FirstVisible(graph.code, Graph!Here) = Inst.at
<1>1. /\ IsCFG(graph.code, graph.entry) /\ Graph!Here \in Places(graph.code)
      /\ SilentTo(graph.code, Graph!Here, Start(order, Inst)) /\ Sound(graph.code, order, Inst)
  BY RunFacts
<1>2. Start(order, Inst) = Inst.at
  BY DEF Start
<1>3. Inst.at \in Places(graph.code) /\ ~Silent(graph.code, Inst.at)
  BY <1>1 DEF Sound, SoundPlace
<1>. QED  BY <1>1, <1>2, <1>3, SilentToFirst

\* To execute it is a step of the graph.
LEMMA ExecuteStep ==
  ASSUME LInv, pc = "run", Inst.kind \notin {"label", "goto"},
         NEW out \in Outcomes(graph.code, Inst.at),
         last' = [at |-> Inst.at, out |-> out], tick' = ~tick, graph' = graph
  PROVE  Graph!Execute
<1>1. PICK a : a = Inst.at
  OBVIOUS
<1>2. ~Silent(graph.code, a) /\ FirstVisible(graph.code, Graph!Here) = a
  BY <1>1, VisibleIsNext
<1>3. /\ ~Graph!Silent(graph.code, a) /\ Graph!FirstVisible(graph.code, Graph!Here) = a
      /\ out \in Graph!Outcomes(graph.code, a)
  BY <1>1, <1>2, GraphOperators
<1>4. ~Graph!Finished
  BY RunFacts
<1>. QED  BY <1>1, <1>3, <1>4 DEF Graph!Execute

LEMMA RunInstructionInv ==
  ASSUME LInv, RunInstruction
  PROVE  LInv' /\ Graph!Execute
<1> DEFINE code == graph.code
           extra == IF Inst.kind = "jumptable" THEN 0 ELSE 1
<1>1. /\ pc = "run" /\ Inst.kind \in {"op", "cond", "jumptable"} /\ tick' = ~tick
      /\ UNCHANGED <<graph, ordering, linear, pc>> /\ order' = order
  BY DEF RunInstruction, ordering
<1>2. PICK out \in 1..Len(Inst.labels) + extra :
        /\ pos' = IF out <= Len(Inst.labels) THEN PlaceOf(Inst.labels[out]) ELSE pos + 1
        /\ last' = [at |-> Inst.at, out |-> out]
  BY DEF RunInstruction
<1>3. /\ IsCFG(code, graph.entry) /\ Inst \in Instructions(code) /\ Sound(code, order, Inst)
      /\ Falls(Inst) => /\ pos + 1 \in DOMAIN linear
                        /\ SilentTo(code, After(code, order, Inst), Start(order, linear[pos + 1]))
      /\ \A i \in DOMAIN Inst.labels : Once(linear, Inst.labels[i])
  BY <1>1, RunFacts
<1>4. ~IsExit(code, Inst.at) /\ out \in Outcomes(code, Inst.at)
  BY <1>1, <1>2, <1>3 DEF Sound, SoundExits
<1>5. Inst.at \in Places(code)
  BY <1>1, VisibleIsNext
<1>6. Following(code, Inst.at, out) \in Places(code)
  BY <1>3, <1>4, <1>5, OutcomePlace
<1>7. Graph!Here' = Following(code, Inst.at, out) /\ ~Graph!Finished'
  <2>1. last'.at = Inst.at /\ last'.out = out /\ graph' = graph
    BY <1>1, <1>2
  <2>2. Inst.at[2] # 0
    BY <1>3, <1>5, PlaceParts
  <2>3. last'.at[2] # 0
    BY <2>1, <2>2
  <2>. QED  BY <1>4, <2>1, <2>3, GraphNext
<1>8. /\ pos' \in DOMAIN linear
      /\ SilentTo(code, Following(code, Inst.at, out), Start(order, linear[pos']))
  <2>1. PICK ls \in Seq(Nat) : ls = Inst.labels
    BY <1>3 DEF Instructions
  <2>2. Len(ls) \in Nat /\ DOMAIN ls = 1..Len(ls)
    OBVIOUS
  <2>3. out \in 1..Len(ls) + extra
    BY <1>2, <2>1
  <2>4. CASE out <= Len(ls)
    <3>1. out \in DOMAIN ls
      BY <2>2, <2>3, <2>4
    <3>2. PICK l : l = ls[out]
      OBVIOUS
    <3>3. pos' = PlaceOf(l)
      BY <1>2, <2>1, <2>4, <3>2
    <3>4. Once(linear, l)
      BY <1>3, <2>1, <3>1, <3>2
    <3>5. PlaceOf(l) \in DOMAIN linear /\ Start(order, linear[PlaceOf(l)]) = <<order[l], 1>>
      BY <3>4, JumpPlace
    <3>6. SilentTo(code, Following(code, Inst.at, out), <<order[l], 1>>)
      BY <1>1, <1>3, <2>1, <3>1, <3>2 DEF Sound, SoundPlace
    <3>. QED  BY <3>3, <3>5, <3>6
  <2>5. CASE ~(out <= Len(ls))
    <3>1. out = Len(ls) + 1 /\ Inst.kind # "jumptable"
      BY <2>2, <2>3, <2>5
    <3>2. Falls(Inst)
      BY <1>1, <3>1 DEF Falls
    <3>3. After(code, order, Inst) = Following(code, Inst.at, out)
      BY <1>1, <2>1, <3>1 DEF After
    <3>4. pos' = pos + 1
      BY <1>2, <2>1, <2>5
    <3>. QED  BY <1>3, <3>2, <3>3, <3>4
  <2>. QED  BY <2>4, <2>5
<1>9. RunInv'
  BY <1>1, <1>6, <1>7, <1>8 DEF RunInv
<1>10. LInv'
  BY <1>1, <1>9, RunStep
<1>11. Graph!Execute
  BY <1>1, <1>2, <1>4, ExecuteStep
<1>. QED  BY <1>10, <1>11

LEMMA RunEndInv ==
  ASSUME LInv, RunEnd
  PROVE  LInv' /\ Graph!Execute
<1>1. /\ pc = "run" /\ Inst.kind \in {"return", "tailcall"} /\ pc' = "halted"
      /\ last' = [at |-> Inst.at, out |-> 1] /\ tick' = ~tick
      /\ graph' = graph /\ order' = order /\ linear' = linear
  BY DEF RunEnd, ordering
<1>2. IsExit(graph.code, Inst.at)
  BY <1>1, RunFacts DEF Sound, SoundExits
<1>3. 1 \in Outcomes(graph.code, Inst.at)
  BY <1>2 DEF Outcomes, IsExit
<1>4. Graph!Execute
  BY <1>1, <1>3, ExecuteStep
<1>5. graph \in Graphs /\ Ordered /\ Complete(graph, order, linear) /\ UsedOnce(linear)
  BY <1>1 DEF LInv
<1>6. Ordered'
  BY <1>1, <1>5, OrderedStays
<1>7. LInv'
  BY <1>1, <1>5, <1>6 DEF LInv
<1>. QED  BY <1>4, <1>7

-----------------------------------------------------------------------------
LEMMA StutterInv ==
  ASSUME LInv, UNCHANGED vars
  PROVE  LInv'
<1>1. /\ graph' = graph /\ stack' = stack /\ visited' = visited /\ postorder' = postorder
      /\ order' = order /\ block' = block /\ index' = index /\ linear' = linear
      /\ newCode' = newCode /\ pc' = pc /\ pos' = pos /\ last' = last /\ tick' = tick
  BY DEF vars, ordering, emitting
<1>2. (OrderInv' <=> OrderInv) /\ (Unstarted' <=> Unstarted) /\ (Ordered' <=> Ordered)
  BY <1>1 DEF OrderInv, Unstarted, Ordered, Succs
<1>3. EmitInv' <=> EmitInv
  BY <1>1 DEF EmitInv
<1>4. CleanupInv' <=> CleanupInv
  BY <1>1 DEF CleanupInv, Kept, UsedLabels, IsLabel
<1>5. (RunInv' <=> RunInv) /\ (NotYetRun' <=> NotYetRun)
  BY <1>1, HereStays DEF RunInv, NotYetRun
<1>. QED  BY <1>1, <1>2, <1>3, <1>4, <1>5 DEF LInv

LEMMA NextInv ==
  ASSUME LInv, [Next]_vars
  PROVE  LInv' /\ [Graph!Execute]_<<graph, last, tick>>
<1>1. CASE VisitSuccessor
  BY <1>1, VisitSuccessorInv DEF VisitSuccessor
<1>2. CASE LeaveNode
  BY <1>2, LeaveNodeInv DEF LeaveNode
<1>3. CASE EndOrder
  BY <1>3, EndOrderInv DEF EndOrder
<1>4. CASE EmitLabel
  BY <1>4, EmitLabelInv DEF EmitLabel
<1>5. CASE EmitInstruction
  BY <1>5, EmitInstructionInv DEF EmitInstruction
<1>6. CASE EmitTerminator
  BY <1>6, EmitTerminatorInv DEF EmitTerminator
<1>7. CASE EndEmit
  BY <1>7, EndEmitInv DEF EndEmit
<1>8. CASE Tunnel
  BY <1>8, TunnelInv DEF Tunnel
<1>9. CASE CleanupInstruction
  BY <1>9, CleanupInstructionInv DEF CleanupInstruction
<1>10. CASE EndCleanup
  BY <1>10, EndCleanupInv DEF EndCleanup
<1>11. CASE RunLabel
  BY <1>11, RunLabelInv DEF RunLabel
<1>12. CASE RunGoto
  BY <1>12, RunGotoInv DEF RunGoto
<1>13. CASE RunInstruction
  BY <1>13, RunInstructionInv
<1>14. CASE RunEnd
  BY <1>14, RunEndInv
<1>15. CASE Halted \/ UNCHANGED vars
  <2>1. UNCHANGED vars
    BY <1>15 DEF Halted
  <2>. QED  BY <2>1, StutterInv DEF vars
<1>. QED  BY <1>1, <1>2, <1>3, <1>4, <1>5, <1>6, <1>7, <1>8, <1>9, <1>10, <1>11, <1>12, <1>13,
             <1>14, <1>15 DEF Next

(***************************************************************************)
(* computeOrder, emitBlock, Tunnel and CleanupLabels keep LInv in every    *)
(* step, and so does the code they made when it runs.                      *)
(***************************************************************************)
THEOREM LInvariant == Spec => []LInv
<1>1. Init => LInv
  BY InitInv
<1>2. LInv /\ [Next]_vars => LInv'
  BY NextInv
<1>. QED  BY <1>1, <1>2, PTL DEF Spec

\* Labels that are defined once.
LEMMA OnceIsOne ==
  ASSUME NEW l, Once(linear, l)
  PROVE  Cardinality({q \in DOMAIN linear : Defines(q, l)}) = 1
<1>1. PICK q \in DOMAIN linear : \A r \in DOMAIN linear : IsDefinition(linear, r, l) <=> r = q
  BY DEF Once
<1>2. {r \in DOMAIN linear : Defines(r, l)} = {q}
  BY <1>1 DEF Defines, IsLabel, IsDefinition
<1>. QED  BY <1>2, FS_Singleton

(***************************************************************************)
(* For every finite control-flow graph: once all blocks are emitted, and   *)
(* through tunneling, clean-up and the run, each label that an instruction *)
(* jumps to is defined once.                                               *)
(***************************************************************************)
THEOREM LabelsAreDefinedOnce == Spec => []LabelsResolve
<1>1. ASSUME LInv  PROVE LabelsResolve
  <2> SUFFICES ASSUME pc \notin {"order", "emit"}, NEW p \in DOMAIN linear,
                      NEW l \in ToSet(linear[p].labels)
               PROVE  Cardinality({q \in DOMAIN linear : Defines(q, l)}) = 1
    BY DEF LabelsResolve
  <2>1. PICK i \in DOMAIN linear[p].labels : l = linear[p].labels[i]
    BY DEF ToSet
  <2>2. CASE pc \in {"tunnel", "cleanup"}
    <3>1. Complete(graph, order, linear) /\ \A k \in DOMAIN order : Once(linear, k)
      BY <1>1, <2>2 DEF LInv
    <3>2. linear \in Seq(Instructions(graph.code)) /\ Sound(graph.code, order, linear[p])
      BY <3>1 DEF Complete, SoundCode
    <3>3. l \in DOMAIN order
      BY <2>1, <3>2, SeqParts, LabelInOrder
    <3>. QED  BY <3>1, <3>3, OnceIsOne
  <2>3. CASE pc \in {"run", "halted"}
    <3>1. Once(linear, l)
      BY <1>1, <2>1, <2>3 DEF LInv, UsedOnce
    <3>. QED  BY <3>1, OnceIsOne
  <2>. QED  BY <1>1, <2>2, <2>3 DEF LInv
<1>. QED  BY <1>1, LInvariant, PTL

(***************************************************************************)
(* For every finite control-flow graph: the linear code executes the       *)
(* instructions of the graph, along a path of the graph, and returns where *)
(* the graph does.  Every other step, of the passes or of the code, leaves *)
(* the execution of the graph where it is.                                 *)
(***************************************************************************)
THEOREM LinearCodeFollowsGraph == Spec => FollowsGraph
<1>1. Init => Graph!Init
  BY GraphIsCFG, GraphOperators DEF Init, Graph!Init
<1>2. LInv /\ [Next]_vars => [Graph!Execute]_<<graph, last, tick>>
  BY NextInv
<1>. QED  BY <1>1, <1>2, LInvariant, PTL DEF Spec, FollowsGraph, Graph!Spec

(***************************************************************************)
(* The order of emission has every block that the entry leads to, none of  *)
(* them twice, and the entry first.                                        *)
(***************************************************************************)
OrderComplete == pc # "order" => Ordered

\* For every finite graph computeOrder lists each block to emit exactly once.
THEOREM OrderIsComplete == Spec => []OrderComplete
<1>1. LInv => OrderComplete
  BY DEF LInv, OrderComplete
<1>. QED  BY <1>1, LInvariant, PTL
=============================================================================
