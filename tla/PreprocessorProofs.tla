------------------------- MODULE PreprocessorProofs -------------------------
(***************************************************************************)
(* The preprocessor's driver keeps its stacks in order, for every program, *)
(* every limit on includes, and whatever the expander and the conditions   *)
(* of #if return.                                                          *)
(***************************************************************************)
EXTENDS Preprocessor, SequenceTheorems, TLAPS

-----------------------------------------------------------------------------
(***************************************************************************)
(* Sequences.                                                              *)
(***************************************************************************)
LEMMA SeqParts ==
  ASSUME NEW T, NEW c \in Seq(T)
  PROVE  Len(c) \in Nat /\ DOMAIN c = 1..Len(c) /\ \A i \in 1..Len(c) : c[i] \in T
OBVIOUS

LEMMA AppendParts ==
  ASSUME NEW T, NEW c \in Seq(T), NEW x \in T
  PROVE  /\ Append(c, x) \in Seq(T) /\ Append(c, x) # <<>> /\ Len(Append(c, x)) = Len(c) + 1
         /\ Append(c, x)[Len(c) + 1] = x /\ \A i \in 1..Len(c) : Append(c, x)[i] = c[i]
OBVIOUS

LEMMA FrontParts ==
  ASSUME NEW T, NEW c \in Seq(T), c # <<>>
  PROVE  /\ Front(c) \in Seq(T) /\ Len(c) \in Nat /\ Len(c) # 0 /\ Len(Front(c)) = Len(c) - 1
         /\ \A i \in 1..Len(c) - 1 : Front(c)[i] = c[i]
<1>1. Len(c) \in Nat /\ Len(c) # 0 /\ \A i \in 1..Len(c) - 1 : c[i] \in T
  OBVIOUS
<1>2. PICK k : k = Len(c) - 1
  OBVIOUS
<1>3. k \in Nat
  BY <1>1, <1>2
<1>4. SubSeq(c, 1, k) \in Seq(T)
  BY <1>1, <1>2, SubSeqProperties
<1>5. Len(SubSeq(c, 1, k)) = k /\ \A i \in 1..k : SubSeq(c, 1, k)[i] = c[i]
  BY <1>1, <1>2, <1>3
<1>. QED  BY <1>1, <1>2, <1>4, <1>5 DEF Front

\* Another last element.
LEMMA ReplaceLast ==
  ASSUME NEW T, NEW c \in Seq(T), c # <<>>, NEW x \in T
  PROVE  /\ Append(Front(c), x) \in Seq(T) /\ Append(Front(c), x) # <<>>
         /\ Len(c) \in Nat /\ Len(c) # 0 /\ Len(Append(Front(c), x)) = Len(c)
         /\ Append(Front(c), x)[Len(c)] = x
         /\ \A i \in 1..Len(c) : i # Len(c) => Append(Front(c), x)[i] = c[i]
<1>1. PICK b \in Seq(T) : b = Front(c)
  BY FrontParts
<1>2. /\ Len(c) \in Nat /\ Len(c) # 0 /\ Len(b) = Len(c) - 1
      /\ \A i \in 1..Len(c) - 1 : b[i] = c[i]
  BY <1>1, FrontParts
<1>3. /\ Append(b, x) \in Seq(T) /\ Append(b, x) # <<>> /\ Len(Append(b, x)) = Len(b) + 1
      /\ Append(b, x)[Len(b) + 1] = x /\ \A i \in 1..Len(b) : Append(b, x)[i] = b[i]
  BY AppendParts
<1>4. Len(b) + 1 = Len(c)
  BY <1>2
<1>5. \A i \in 1..Len(c) : i # Len(c) => i \in 1..Len(b)
  BY <1>2
<1>. QED  BY <1>1, <1>2, <1>3, <1>4, <1>5

-----------------------------------------------------------------------------
(***************************************************************************)
(* The open files: fs are the frames, st the resolver's stack and dir its  *)
(* directory.  Each included file remembers the directory of its includer. *)
(***************************************************************************)
IsFrame(f) ==
  f = [file |-> f.file, at |-> f.at, pending |-> f.pending, parens |-> f.parens,
       oldDir |-> f.oldDir]

OpenFiles(fs, st, dir) ==
  /\ \E T : fs \in Seq(T)
  /\ fs # <<>> /\ Len(fs) <= MaxIncludeDepth
  /\ \A i \in 1..Len(fs) : IsFrame(fs[i])
  /\ \A i \in 1..Len(fs) : i # 1 => fs[i].oldDir = Dir(fs[i - 1].file)
  /\ \A i, j \in 1..Len(fs) : fs[i].file = fs[j].file => i = j
  /\ st = [i \in 1..Len(fs) |-> fs[i].file]
  /\ dir = Dir(fs[Len(fs)].file)

IncludeInv == status = "running" => OpenFiles(frames, includeStack, currentDir)

LEMMA FileGoesOn ==
  ASSUME NEW fs, NEW st, NEW dir, OpenFiles(fs, st, dir), NEW f, IsFrame(f),
         f.file = Last(fs).file, f.oldDir = Last(fs).oldDir
  PROVE  OpenFiles(Append(Front(fs), f), st, Dir(Last(fs).file))
<1>1. PICK S : fs \in Seq(S)
  BY DEF OpenFiles
<1>2. PICK T : T = S \cup {f}
  OBVIOUS
<1>3. fs \in Seq(T) /\ f \in T /\ fs # <<>>
  BY <1>1, <1>2 DEF OpenFiles
<1>4. PICK d : d = Append(Front(fs), f)
  OBVIOUS
<1>5. PICK n : n = Len(fs)
  OBVIOUS
<1>6. /\ d \in Seq(T) /\ d # <<>> /\ n \in Nat /\ n # 0 /\ Len(d) = n /\ d[n] = f
      /\ \A i \in 1..n : i # n => d[i] = fs[i]
  BY <1>3, <1>4, <1>5, ReplaceLast
<1>7. n \in 1..n /\ f.file = fs[n].file /\ f.oldDir = fs[n].oldDir
  BY <1>5, <1>6 DEF Last
<1>8. \A i \in 1..n : d[i].file = fs[i].file /\ d[i].oldDir = fs[i].oldDir
  BY <1>6, <1>7
<1>9. \A i \in 1..n : IsFrame(d[i])
  BY <1>5, <1>6 DEF OpenFiles
<1>10. n <= MaxIncludeDepth /\ \A i, j \in 1..n : d[i].file = d[j].file => i = j
  BY <1>5, <1>8 DEF OpenFiles
<1>11. \A i \in 1..n : i # 1 => i - 1 \in 1..n
  BY <1>6
<1>12. \A i \in 1..n : i # 1 => d[i].oldDir = Dir(d[i - 1].file)
  BY <1>5, <1>8, <1>11 DEF OpenFiles, Dir
<1>13. st = [i \in 1..n |-> d[i].file]
  BY <1>5, <1>8 DEF OpenFiles
<1>14. Dir(Last(fs).file) = Dir(d[n].file)
  BY <1>5, <1>7, <1>8 DEF Last
<1>. QED  BY <1>4, <1>6, <1>9, <1>10, <1>12, <1>13, <1>14 DEF OpenFiles

LEMMA FileOpened ==
  ASSUME NEW fs, NEW st, NEW dir, OpenFiles(fs, st, dir), NEW g, IsFrame(g),
         g.oldDir = Dir(Last(fs).file), Len(fs) < MaxIncludeDepth,
         \A i \in 1..Len(fs) : fs[i].file # g.file
  PROVE  OpenFiles(Append(fs, g), Append(st, g.file), Dir(g.file))
<1>1. PICK S : fs \in Seq(S)
  BY DEF OpenFiles
<1>2. PICK T : T = S \cup {g}
  OBVIOUS
<1>3. fs \in Seq(T) /\ g \in T /\ fs # <<>>
  BY <1>1, <1>2 DEF OpenFiles
<1>4. PICK d : d = Append(fs, g)
  OBVIOUS
<1>5. PICK n \in Nat : n = Len(fs)
  BY <1>3
<1>6. /\ d \in Seq(T) /\ d # <<>> /\ Len(d) = n + 1 /\ d[n + 1] = g
      /\ \A i \in 1..n : d[i] = fs[i]
  BY <1>3, <1>4, <1>5, AppendParts
<1>7. n # 0 /\ n \in 1..n /\ \A i \in 1..n + 1 : i \in 1..n \/ i = n + 1
  BY <1>3, <1>5
<1>8. \A i \in 1..n + 1 : IsFrame(d[i])
  BY <1>5, <1>6, <1>7 DEF OpenFiles
<1>9. n + 1 <= MaxIncludeDepth
  BY <1>5, DepthAssumption
<1>10. ASSUME NEW i \in 1..n + 1, NEW j \in 1..n + 1, d[i].file = d[j].file
       PROVE  i = j
  <2>1. CASE i \in 1..n /\ j \in 1..n
    BY <1>5, <1>6, <1>10, <2>1 DEF OpenFiles
  <2>2. CASE i \in 1..n /\ j = n + 1
    BY <1>5, <1>6, <1>10, <2>2
  <2>3. CASE i = n + 1 /\ j \in 1..n
    BY <1>5, <1>6, <1>10, <2>3
  <2>. QED  BY <1>7, <2>1, <2>2, <2>3
<1>11. ASSUME NEW i \in 1..n + 1, i # 1
       PROVE  d[i].oldDir = Dir(d[i - 1].file)
  <2>1. CASE i \in 1..n
    <3>1. i - 1 \in 1..n
      BY <1>11, <2>1
    <3>. QED  BY <1>5, <1>6, <1>11, <2>1, <3>1 DEF OpenFiles
  <2>2. CASE i = n + 1
    <3>1. i - 1 = n
      BY <2>2
    <3>. QED  BY <1>5, <1>6, <1>7, <2>2, <3>1 DEF Last
  <2>. QED  BY <1>7, <2>1, <2>2
<1>12. Append(st, g.file) = [i \in 1..n + 1 |-> d[i].file]
  <2>1. PICK F : F = {fs[i].file : i \in 1..n} \cup {g.file}
    OBVIOUS
  <2>2. st = [i \in 1..n |-> fs[i].file]
    BY <1>5 DEF OpenFiles
  <2>3. st \in Seq(F) /\ Len(st) = n
    BY <2>1, <2>2
  <2>4. /\ Append(st, g.file) \in Seq(F) /\ Len(Append(st, g.file)) = n + 1
        /\ Append(st, g.file)[n + 1] = g.file /\ \A i \in 1..n : Append(st, g.file)[i] = st[i]
    BY <2>1, <2>3, AppendParts
  <2>5. \A i \in 1..n + 1 : Append(st, g.file)[i] = d[i].file
    BY <1>6, <1>7, <2>2, <2>4
  <2>6. Append(st, g.file) = [i \in 1..n + 1 |-> Append(st, g.file)[i]]
    BY <2>4
  <2>. QED  BY <2>5, <2>6
<1>. QED  BY <1>4, <1>6, <1>8, <1>9, <1>10, <1>11, <1>12 DEF OpenFiles

LEMMA FileClosed ==
  ASSUME NEW fs, NEW st, NEW dir, OpenFiles(fs, st, dir), Len(fs) > 1
  PROVE  OpenFiles(Front(fs), Front(st), Last(fs).oldDir)
<1>1. PICK T : fs \in Seq(T)
  BY DEF OpenFiles
<1>2. PICK d : d = Front(fs)
  OBVIOUS
<1>3. PICK n \in Nat : n = Len(fs)
  BY <1>1
<1>4. fs # <<>> /\ n > 1 /\ n <= MaxIncludeDepth /\ st = [i \in 1..n |-> fs[i].file]
  BY <1>3 DEF OpenFiles
<1>5. d \in Seq(T) /\ Len(d) = n - 1 /\ \A i \in 1..n - 1 : d[i] = fs[i]
  BY <1>1, <1>2, <1>3, <1>4, FrontParts
<1>6. /\ d # <<>> /\ n - 1 <= MaxIncludeDepth /\ n \in 1..n /\ n # 1 /\ n - 1 \in 1..n - 1
      /\ \A i \in 1..n - 1 : i \in 1..n /\ (i # 1 => i - 1 \in 1..n - 1)
  BY <1>3, <1>4, <1>5, DepthAssumption
<1>7. \A i \in 1..n - 1 : IsFrame(d[i])
  BY <1>3, <1>5, <1>6 DEF OpenFiles
<1>8. \A i \in 1..n - 1 : i # 1 => d[i].oldDir = Dir(d[i - 1].file)
  BY <1>3, <1>5, <1>6 DEF OpenFiles
<1>9. \A i, j \in 1..n - 1 : d[i].file = d[j].file => i = j
  BY <1>3, <1>5, <1>6 DEF OpenFiles
<1>10. Front(st) = [i \in 1..n - 1 |-> d[i].file]
  <2>1. PICK F : F = {fs[i].file : i \in 1..n}
    OBVIOUS
  <2>2. st \in Seq(F) /\ Len(st) = n
    BY <1>4, <2>1
  <2>3. st # <<>>
    BY <1>4, <2>2
  <2>4. Front(st) \in Seq(F) /\ Len(Front(st)) = n - 1 /\ \A i \in 1..n - 1 : Front(st)[i] = st[i]
    BY <2>2, <2>3, FrontParts
  <2>5. \A i \in 1..n - 1 : Front(st)[i] = d[i].file
    BY <1>4, <1>5, <1>6, <2>4
  <2>6. Front(st) = [i \in 1..n - 1 |-> Front(st)[i]]
    BY <2>4
  <2>. QED  BY <2>5, <2>6
<1>11. Last(fs).oldDir = Dir(d[n - 1].file)
  BY <1>3, <1>5, <1>6 DEF OpenFiles, Last
<1>. QED  BY <1>2, <1>5, <1>6, <1>7, <1>8, <1>9, <1>10, <1>11 DEF OpenFiles

-----------------------------------------------------------------------------
(***************************************************************************)
(* The steps.                                                              *)
(***************************************************************************)
LEMMA IncludeInit ==
  ASSUME Init
  PROVE  IncludeInv
<1> DEFINE f == Frame(program.main, Dir(program.main))
<1>1. frames = <<f>> /\ includeStack = <<program.main>> /\ currentDir = Dir(program.main)
  BY DEF Init
<1>2. IsFrame(f) /\ f.file = program.main
  BY DEF IsFrame, Frame
<1> HIDE DEF f
<1>3. <<f>> \in Seq({f}) /\ <<f>> # <<>> /\ Len(<<f>>) = 1 /\ <<f>>[1] = f
  OBVIOUS
<1>4. \A i \in 1..1 : i = 1
  OBVIOUS
<1>5. 1 <= MaxIncludeDepth
  BY DepthAssumption
<1>6. <<program.main>> = [i \in 1..1 |-> <<f>>[i].file]
  BY <1>2, <1>3
<1>. QED  BY <1>1, <1>2, <1>3, <1>4, <1>5, <1>6 DEF IncludeInv, OpenFiles

\* The frame of the file being read, after a line.
LEMMA TopParts ==
  ASSUME IncludeInv, status = "running"
  PROVE  /\ IsFrame(Top) /\ IsFrame(NextFrame)
         /\ NextFrame.file = Top.file /\ NextFrame.oldDir = Top.oldDir
         /\ OpenFiles(frames, includeStack, currentDir) /\ currentDir = Dir(Top.file)
<1>1. OpenFiles(frames, includeStack, currentDir)
  BY DEF IncludeInv
<1>2. PICK T : frames \in Seq(T)
  BY <1>1 DEF OpenFiles
<1>3. Len(frames) \in 1..Len(frames)
  BY <1>1, <1>2 DEF OpenFiles
<1>4. IsFrame(Top) /\ currentDir = Dir(Top.file)
  BY <1>1, <1>3 DEF OpenFiles, Top, Last
<1>5. PICK p : p = ParensAfter
  OBVIOUS
<1>6. PICK t : t = Top
  OBVIOUS
<1>7. PICK a, b, c, d, e :
        t = [file |-> a, at |-> b, pending |-> c, parens |-> d, oldDir |-> e]
  BY <1>4, <1>6 DEF IsFrame
<1>8. [t EXCEPT !.at = @ + 1, !.pending = <<>>, !.parens = p]
        = [file |-> a, at |-> b + 1, pending |-> <<>>, parens |-> p, oldDir |-> e]
  <2>1. [t EXCEPT !.at = @ + 1]
          = [file |-> a, at |-> b + 1, pending |-> c, parens |-> d, oldDir |-> e]
    BY <1>7
  <2>2. PICK x, z : x = b + 1 /\ z = <<>>
    OBVIOUS
  <2>3. [[file |-> a, at |-> x, pending |-> c, parens |-> d, oldDir |-> e] EXCEPT !.pending = z]
          = [file |-> a, at |-> x, pending |-> z, parens |-> d, oldDir |-> e]
    OBVIOUS
  <2>4. [[file |-> a, at |-> x, pending |-> z, parens |-> d, oldDir |-> e] EXCEPT !.parens = p]
          = [file |-> a, at |-> x, pending |-> z, parens |-> p, oldDir |-> e]
    OBVIOUS
  <2>. QED  BY <2>1, <2>2, <2>3, <2>4
<1>9. NextFrame = [file |-> a, at |-> b + 1, pending |-> <<>>, parens |-> p, oldDir |-> e]
  BY <1>5, <1>6, <1>8 DEF NextFrame
<1>10. IsFrame(NextFrame) /\ NextFrame.file = a /\ NextFrame.oldDir = e
  BY <1>9 DEF IsFrame
<1>11. Top.file = a /\ Top.oldDir = e
  BY <1>6, <1>7
<1>. QED  BY <1>1, <1>4, <1>10, <1>11

\* A step that stays in the file, or ends the run, keeps the invariant.
LEMMA StaysInFile ==
  ASSUME IncludeInv, status = "running", NEW f, IsFrame(f), f.file = Top.file,
         f.oldDir = Top.oldDir, frames' = Append(Front(frames), f),
         includeStack' = includeStack, currentDir' = Dir(Top.file)
  PROVE  IncludeInv'
<1>1. OpenFiles(frames, includeStack, currentDir)
  BY DEF IncludeInv
<1>2. OpenFiles(Append(Front(frames), f), includeStack, Dir(Top.file))
  BY <1>1, FileGoesOn DEF Top
<1>. QED  BY <1>2 DEF IncludeInv

LEMMA Advances ==
  ASSUME IncludeInv, status = "running", Advance, includeStack' = includeStack,
         currentDir' = currentDir
  PROVE  IncludeInv'
BY TopParts, StaysInFile DEF Advance

LEMMA Fails ==
  ASSUME Fail
  PROVE  IncludeInv'
BY DEF Fail, IncludeInv

LEMMA TextIncludes ==
  ASSUME IncludeInv, status = "running", NEW toks, NEW f, ProcessText(toks, f),
         IsFrame(f), f.file = Top.file, f.oldDir = Top.oldDir
  PROVE  IncludeInv'
<1>1. Fail \/ /\ frames' = Append(Front(frames), f)
              /\ includeStack' = includeStack /\ currentDir' = currentDir
  BY DEF ProcessText
<1>2. currentDir = Dir(Top.file)
  BY TopParts
<1>. QED  BY <1>1, <1>2, Fails, StaysInFile

LEMMA IncludeFileKeeps ==
  ASSUME IncludeInv, IncludeFile
  PROVE  IncludeInv'
<1>1. PICK path : /\ ~CannotOpen(path) /\ includeStack' = Append(includeStack, path)
                  /\ frames' = Front(frames) \o <<NextFrame, Frame(path, Dir(Top.file))>>
                  /\ currentDir' = Dir(path)
  BY DEF IncludeFile
<1>2. status = "running" /\ status' = status
  BY DEF IncludeFile, ActiveDirective, Directive, HasLine
<1>3. /\ IsFrame(NextFrame) /\ NextFrame.file = Top.file /\ NextFrame.oldDir = Top.oldDir
      /\ OpenFiles(frames, includeStack, currentDir)
  BY <1>2, TopParts
<1>4. PICK f, g, b : f = NextFrame /\ g = Frame(path, Dir(Top.file)) /\ b = Front(frames)
  OBVIOUS
<1>5. PICK d : d = Append(b, f)
  OBVIOUS
<1>6. OpenFiles(d, includeStack, Dir(Top.file))
  BY <1>3, <1>4, <1>5, FileGoesOn DEF Top
<1>7. IsFrame(g) /\ g.file = path /\ g.oldDir = Dir(Top.file)
  BY <1>4 DEF IsFrame, Frame
<1>8. PICK T : frames \in Seq(T)
  BY <1>3 DEF OpenFiles
<1>9. PICK U : U = T \cup {f, g}
  OBVIOUS
<1>10. frames \in Seq(U) /\ frames # <<>> /\ f \in U /\ g \in U
  BY <1>3, <1>8, <1>9 DEF OpenFiles
<1>11. b \in Seq(U)
  BY <1>4, <1>10, FrontParts
<1>12. PICK n \in Nat : n = Len(frames)
  BY <1>8
<1>13. d \in Seq(U) /\ Len(d) = n /\ n # 0 /\ d[n] = f
  BY <1>4, <1>5, <1>10, <1>12, ReplaceLast
<1>14. Front(frames) \o <<f, g>> = Append(d, g)
  <2>1. b \o <<f, g>> = Append(Append(b, f), g)
    BY <1>10, <1>11
  <2>. QED  BY <1>4, <1>5, <2>1
<1>15. includeStack = [i \in 1..n |-> d[i].file]
  BY <1>6, <1>13 DEF OpenFiles
<1>16. includeStack \in Seq({d[i].file : i \in 1..n}) /\ Len(includeStack) = n
  BY <1>15
<1>17. n < MaxIncludeDepth /\ \A i \in 1..n : includeStack[i] # path
  <2>1. ~(n >= MaxIncludeDepth) /\ path \notin ToSet(includeStack)
    BY <1>1, <1>16 DEF CannotOpen
  <2>2. DOMAIN includeStack = 1..n
    BY <1>15
  <2>3. \A i \in 1..n : includeStack[i] # path
    BY <2>1, <2>2 DEF ToSet
  <2>. QED  BY <2>1, <2>3, DepthAssumption
<1>18. \A i \in 1..n : d[i].file # g.file
  BY <1>7, <1>15, <1>17
<1>19. g.oldDir = Dir(Last(d).file)
  BY <1>3, <1>4, <1>7, <1>13 DEF Last
<1>20. OpenFiles(Append(d, g), Append(includeStack, g.file), Dir(g.file))
  BY <1>6, <1>7, <1>13, <1>17, <1>18, <1>19, FileOpened
<1>. QED  BY <1>1, <1>4, <1>7, <1>14, <1>20 DEF IncludeInv

LEMMA PendingFrame ==
  ASSUME NEW t, IsFrame(t), NEW z
  PROVE  /\ IsFrame([t EXCEPT !.pending = z])
         /\ [t EXCEPT !.pending = z].file = t.file /\ [t EXCEPT !.pending = z].oldDir = t.oldDir
<1>1. PICK a, b, c, d, e :
        t = [file |-> a, at |-> b, pending |-> c, parens |-> d, oldDir |-> e]
  BY DEF IsFrame
<1>2. [t EXCEPT !.pending = z]
        = [file |-> a, at |-> b, pending |-> z, parens |-> d, oldDir |-> e]
  BY <1>1
<1>. QED  BY <1>1, <1>2 DEF IsFrame

LEMMA IncludeNext ==
  ASSUME IncludeInv, [Next]_vars
  PROVE  IncludeInv'
<1> USE DEF HasLine, Directive, ActiveDirective
<1>1. CASE CollectLine
  <2>1. /\ frames' = Append(Front(frames), [NextFrame EXCEPT !.pending = Gathered])
        /\ status = "running" /\ includeStack' = includeStack /\ currentDir' = currentDir
    BY <1>1 DEF CollectLine
  <2>2. /\ IsFrame(NextFrame) /\ NextFrame.file = Top.file /\ NextFrame.oldDir = Top.oldDir
        /\ currentDir = Dir(Top.file)
    BY <2>1, TopParts
  <2>3. PICK f : f = [NextFrame EXCEPT !.pending = Gathered]
    OBVIOUS
  <2>4. IsFrame(f) /\ f.file = Top.file /\ f.oldDir = Top.oldDir
    BY <2>2, <2>3, PendingFrame
  <2>. QED  BY <2>1, <2>2, <2>3, <2>4, StaysInFile
<1>2. CASE TextLine
  <2>1. status = "running" /\ ProcessText(Gathered, NextFrame)
    BY <1>2 DEF TextLine
  <2>. QED  BY <2>1, TopParts, TextIncludes
<1>3. CASE RemainingText
  <2>1. status = "running" /\ ProcessText(Top.pending, [Top EXCEPT !.pending = <<>>])
    BY <1>3 DEF RemainingText
  <2>2. PICK f : f = [Top EXCEPT !.pending = <<>>]
    OBVIOUS
  <2>3. IsFrame(f) /\ f.file = Top.file /\ f.oldDir = Top.oldDir
    BY <2>1, <2>2, TopParts, PendingFrame
  <2>. QED  BY <2>1, <2>2, <2>3, TextIncludes
<1>4. ASSUME status = "running", NEW stack, SetConditions(stack)
      PROVE  IncludeInv'
  BY <1>4, Advances DEF SetConditions
<1>5. CASE ProcessIf
  BY <1>4, <1>5, Fails DEF ProcessIf
<1>6. CASE ProcessIfdef
  BY <1>4, <1>6 DEF ProcessIfdef
<1>7. CASE ProcessElifLine
  BY <1>4, <1>7, Fails DEF ProcessElifLine
<1>8. CASE ProcessElseLine
  BY <1>4, <1>8, Fails DEF ProcessElseLine
<1>9. CASE ProcessEndifLine
  BY <1>4, <1>9, Fails DEF ProcessEndifLine
<1>10. CASE SkipDirective
  BY <1>10, Advances DEF SkipDirective
<1>11. CASE DefineOrUndef
  BY <1>11, Advances DEF DefineOrUndef
<1>12. CASE MarkPragmaOnce
  BY <1>12, Advances DEF MarkPragmaOnce
<1>13. CASE PassThrough
  BY <1>13, Advances DEF PassThrough
<1>14. CASE ErrorDirective \/ IncludeFails
  BY <1>14, Fails DEF ErrorDirective, IncludeFails
<1>15. CASE IncludeSkipped
  BY <1>15, TopParts, StaysInFile DEF IncludeSkipped, Advance
<1>16. CASE IncludeFile
  BY <1>16, IncludeFileKeeps
<1>17. CASE EndOfFile
  <2>1. /\ status = "running" /\ Len(frames) > 1 /\ frames' = Front(frames)
        /\ includeStack' = Front(includeStack) /\ currentDir' = Last(frames).oldDir
    BY <1>17 DEF EndOfFile, Top
  <2>. QED  BY <2>1, FileClosed DEF IncludeInv
<1>18. CASE EndOfMain
  BY <1>18, Fails DEF EndOfMain, IncludeInv
<1>19. CASE Terminated \/ UNCHANGED vars
  BY <1>19 DEF Terminated, vars, IncludeInv
<1>. QED  BY <1>1, <1>2, <1>3, <1>5, <1>6, <1>7, <1>8, <1>9, <1>10, <1>11, <1>12, <1>13, <1>14,
             <1>15, <1>16, <1>17, <1>18, <1>19 DEF Next

(***************************************************************************)
(* For every program and every limit: the resolver's stack is the path of  *)
(* open files, without repetition and within the limit, and its directory  *)
(* is that of the file being read, however files include each other and    *)
(* whatever the expander and the conditions return.                        *)
(***************************************************************************)
THEOREM StackIsAlwaysOpenFiles == Spec => []StackIsOpenFiles
<1>1. Init => IncludeInv
  BY IncludeInit
<1>2. IncludeInv /\ [Next]_vars => IncludeInv'
  BY IncludeNext
<1>3. ASSUME IncludeInv  PROVE StackIsOpenFiles
  <2> SUFFICES ASSUME status = "running"
               PROVE  /\ includeStack = [i \in 1..Len(frames) |-> frames[i].file]
                      /\ \A i, j \in 1..Len(includeStack) :
                           includeStack[i] = includeStack[j] => i = j
                      /\ Len(includeStack) <= MaxIncludeDepth
                      /\ currentDir = Dir(Top.file)
    BY DEF StackIsOpenFiles
  <2>1. OpenFiles(frames, includeStack, currentDir)
    BY <1>3 DEF IncludeInv
  <2>2. PICK T : frames \in Seq(T)
    BY <2>1 DEF OpenFiles
  <2>3. PICK n \in Nat : n = Len(frames)
    BY <2>2
  <2>4. /\ includeStack = [i \in 1..n |-> frames[i].file] /\ n <= MaxIncludeDepth
        /\ \A i, j \in 1..n : frames[i].file = frames[j].file => i = j
    BY <2>1, <2>3 DEF OpenFiles
  <2>5. Len(includeStack) = n
    BY <2>4
  <2>6. currentDir = Dir(Top.file)
    BY <2>1 DEF OpenFiles, Top, Last
  <2>. QED  BY <2>3, <2>4, <2>5, <2>6
<1>. QED  BY <1>1, <1>2, <1>3, PTL DEF Spec

-----------------------------------------------------------------------------
(***************************************************************************)
(* The stack of conditionals: a level's group is active only inside active *)
(* groups, and once a group was active the level knows.                    *)
(***************************************************************************)
Condition == [active : BOOLEAN, seenElse : BOOLEAN, anyActive : BOOLEAN]

Nested(stack) ==
  /\ stack \in Seq(Condition)
  /\ \A i \in 1..Len(stack) :
       stack[i].active => stack[i].anyActive /\ \A j \in 1..i : stack[j].active

(***************************************************************************)
(* The groups that the driver keeps nest: an active group is recorded at   *)
(* its level and lies in active groups only, so that IsActive, which asks  *)
(* every level, has the answer of the innermost one.                       *)
(***************************************************************************)
GroupsNest == Nested(conds) /\ (conds # <<>> => (IsActive(conds) <=> Last(conds).active))

(***************************************************************************)
(* What a step does to a section that stays open: an enclosing section is  *)
(* left alone, after #else nothing changes, and once a group of a section  *)
(* has been kept no later #elif or #else of it is.                         *)
(***************************************************************************)
Continues(old, new) ==
  \A i \in 1..Len(old) : i <= Len(new) =>
    /\ i # Len(old) \/ old[i].seenElse => new[i] = old[i]
    /\ old[i].anyActive => new[i].anyActive /\ (new[i].active => new[i] = old[i])

AtMostOneGroup == [][Continues(conds, conds')]_vars

LEMMA NestedParts ==
  ASSUME NEW c, Nested(c)
  PROVE  /\ c \in Seq(Condition) /\ Len(c) \in Nat
         /\ \A i \in 1..Len(c) : /\ c[i] \in Condition
                                 /\ c[i].active \in BOOLEAN /\ c[i].anyActive \in BOOLEAN
                                 /\ c[i].seenElse \in BOOLEAN
         /\ \A i \in 1..Len(c) : c[i].active => c[i].anyActive
         /\ \A i \in 1..Len(c) : \A j \in 1..i : c[i].active => c[j].active
<1>1. c \in Seq(Condition)
  BY DEF Nested
<1>2. Len(c) \in Nat /\ \A i \in 1..Len(c) : c[i] \in Condition
  BY <1>1, SeqParts
<1>3. \A x \in Condition : /\ x.active \in BOOLEAN /\ x.anyActive \in BOOLEAN
                           /\ x.seenElse \in BOOLEAN
  BY DEF Condition
<1>. QED  BY <1>1, <1>2, <1>3 DEF Nested

LEMMA LastDecides ==
  ASSUME NEW c, Nested(c), c # <<>>
  PROVE  IsActive(c) <=> Last(c).active
<1>1. Len(c) \in Nat /\ Len(c) # 0
  BY NestedParts
<1>2. Len(c) \in 1..Len(c)
  BY <1>1
<1>3. ASSUME IsActive(c)  PROVE c[Len(c)].active
  BY <1>2, <1>3 DEF IsActive
<1>4. ASSUME c[Len(c)].active  PROVE IsActive(c)
  BY <1>2, <1>4, NestedParts DEF IsActive
<1>. QED  BY <1>3, <1>4 DEF Last

\* #endif: the levels below go on as they are.
LEMMA NestedFront ==
  ASSUME NEW c, Nested(c), c # <<>>
  PROVE  Nested(Front(c)) /\ Continues(c, Front(c))
<1>1. PICK b : b = Front(c)
  OBVIOUS
<1>2. PICK n \in Nat : n = Len(c)
  BY NestedParts
<1>3. /\ b \in Seq(Condition) /\ n # 0 /\ Len(b) = n - 1
      /\ \A i \in 1..n - 1 : b[i] = c[i]
  BY <1>1, <1>2, NestedParts, FrontParts
<1>4. \A i \in 1..n - 1 : i \in 1..n /\ \A j \in 1..i : j \in 1..n - 1
  BY <1>2, <1>3
<1>5. \A i \in 1..Len(b) : b[i].active => b[i].anyActive /\ \A j \in 1..i : b[j].active
  BY <1>2, <1>3, <1>4, NestedParts
<1>6. Nested(b)
  BY <1>3, <1>5 DEF Nested
<1>7. \A i \in 1..Len(c) : i <= Len(b) => b[i] = c[i]
  BY <1>2, <1>3
<1>8. Continues(c, b)
  BY <1>7 DEF Continues
<1>. QED  BY <1>1, <1>6, <1>8

\* #if, #ifdef, #ifndef: one more level.
LEMMA NestedPush ==
  ASSUME NEW c, Nested(c), NEW v \in BOOLEAN
  PROVE  Nested(PushCondition(c, v)) /\ Continues(c, PushCondition(c, v))
<1>1. PICK kept : kept = (IsActive(c) /\ v)
  OBVIOUS
<1>2. PICK x : x = ConditionState(kept, FALSE, kept)
  OBVIOUS
<1>3. kept \in BOOLEAN
  BY <1>1
<1>4. x \in Condition /\ x.active = kept /\ x.anyActive = kept
  BY <1>2, <1>3 DEF Condition, ConditionState
<1>5. PICK d : d = Append(c, x)
  OBVIOUS
<1>6. PICK n \in Nat : n = Len(c)
  BY NestedParts
<1>7. d \in Seq(Condition) /\ Len(d) = n + 1 /\ d[n + 1] = x /\ \A i \in 1..n : d[i] = c[i]
  BY <1>4, <1>5, <1>6, NestedParts, AppendParts
<1>8. kept => \A j \in 1..n : c[j].active
  BY <1>1, <1>6 DEF IsActive
<1>9. \A i \in 1..n : d[i].active => d[i].anyActive /\ \A j \in 1..i : d[j].active
  <2>1. \A i \in 1..n : \A j \in 1..i : j \in 1..n
    BY <1>6
  <2>. QED  BY <1>6, <1>7, <2>1, NestedParts
<1>10. d[n + 1].active => d[n + 1].anyActive /\ \A j \in 1..n + 1 : d[j].active
  <2>1. \A j \in 1..n + 1 : j \in 1..n \/ j = n + 1
    BY <1>6
  <2>2. d[n + 1].active = kept /\ d[n + 1].anyActive = kept
    BY <1>4, <1>7
  <2>. QED  BY <1>7, <1>8, <2>1, <2>2
<1>11. \A i \in 1..Len(d) : i \in 1..n \/ i = n + 1
  BY <1>6, <1>7
<1>12. Nested(d)
  BY <1>7, <1>9, <1>10, <1>11 DEF Nested
<1>13. Continues(c, d)
  BY <1>6, <1>7 DEF Continues
<1>14. PushCondition(c, v) = d
  BY <1>1, <1>2, <1>5 DEF PushCondition
<1>. QED  BY <1>12, <1>13, <1>14

\* #elif, #else: the last level changes, to one that is kept only inside kept ones.
LEMMA NestedReplace ==
  ASSUME NEW c, Nested(c), c # <<>>, NEW x \in Condition, ~Last(c).seenElse,
         x.active => ParentActive(c) /\ ~Last(c).anyActive,
         x.anyActive <=> Last(c).anyActive \/ x.active
  PROVE  Nested(Append(Front(c), x)) /\ Continues(c, Append(Front(c), x))
<1>1. PICK d : d = Append(Front(c), x)
  OBVIOUS
<1>2. PICK n : n = Len(c)
  OBVIOUS
<1>3. /\ d \in Seq(Condition) /\ n \in Nat /\ n # 0 /\ Len(d) = n /\ d[n] = x
      /\ \A i \in 1..n : i # n => d[i] = c[i]
  BY <1>1, <1>2, NestedParts, ReplaceLast
<1>4. n \in 1..n
  BY <1>3
<1>5. Last(c) = c[n]
  BY <1>2 DEF Last
<1>6. ASSUME x.active  PROVE \A j \in 1..n : j # n => c[j].active
  <2>1. PICK b : b = Front(c)
    OBVIOUS
  <2>2. Len(b) = n - 1 /\ \A i \in 1..n - 1 : b[i] = c[i]
    BY <1>2, <2>1, NestedParts, FrontParts
  <2>3. \A j \in 1..n : j # n => j \in 1..n - 1
    BY <1>3
  <2>4. \A j \in 1..Len(b) : b[j].active
    BY <1>6, <2>1 DEF ParentActive, IsActive
  <2>. QED  BY <2>2, <2>3, <2>4
<1>7. \A i \in 1..n : i # n /\ d[i].active =>
                           d[i].anyActive /\ \A j \in 1..i : d[j].active
  <2>1. \A i \in 1..n : i # n => \A j \in 1..i : j \in 1..n /\ j # n
    BY <1>3
  <2>. QED  BY <1>2, <1>3, <2>1, NestedParts
<1>8. d[n].active => d[n].anyActive /\ \A j \in 1..n : d[j].active
  BY <1>3, <1>6
<1>9. Nested(d)
  BY <1>3, <1>7, <1>8 DEF Nested
<1>10. ~c[n].seenElse /\ (c[n].anyActive => d[n].anyActive /\ ~d[n].active)
  BY <1>3, <1>5
<1>11. Continues(c, d)
  <2>1. ASSUME NEW i \in 1..n
        PROVE  /\ i # n \/ c[i].seenElse => d[i] = c[i]
               /\ c[i].anyActive => d[i].anyActive /\ (d[i].active => d[i] = c[i])
    <3>1. CASE i = n
      BY <1>10, <3>1
    <3>2. CASE i # n
      BY <1>3, <3>2
    <3>. QED  BY <3>1, <3>2
  <2>. QED  BY <1>2, <2>1 DEF Continues
<1>. QED  BY <1>1, <1>9, <1>11

LEMMA NestedElif ==
  ASSUME NEW c, Nested(c), ~ElifFails(c), NEW v \in BOOLEAN
  PROVE  Nested(ProcessElif(c, v)) /\ Continues(c, ProcessElif(c, v))
<1>1. c # <<>> /\ ~Last(c).seenElse
  BY DEF ElifFails
<1>2. PICK l : l = Last(c)
  OBVIOUS
<1>3. l \in Condition
  <2>1. Len(c) \in Nat /\ Len(c) # 0
    BY <1>1, NestedParts
  <2>2. Len(c) \in 1..Len(c)
    BY <2>1
  <2>. QED  BY <1>2, <2>2, NestedParts DEF Last
<1>4. PICK kept : kept = (ElifEvaluates(c) /\ v)
  OBVIOUS
<1>5. PICK any : any = (l.anyActive \/ kept)
  OBVIOUS
<1>6. PICK x : x = [l EXCEPT !.active = kept, !.anyActive = any]
  OBVIOUS
<1>7. kept \in BOOLEAN /\ any \in BOOLEAN
  BY <1>4, <1>5
<1>8. x \in Condition /\ x.active = kept /\ x.anyActive = any
  BY <1>3, <1>6, <1>7 DEF Condition
<1>9. kept => ParentActive(c) /\ ~l.anyActive
  BY <1>2, <1>4 DEF ElifEvaluates
<1>10. Nested(Append(Front(c), x)) /\ Continues(c, Append(Front(c), x))
  BY <1>1, <1>2, <1>5, <1>8, <1>9, NestedReplace
<1>11. ProcessElif(c, v) = Append(Front(c), x)
  BY <1>2, <1>4, <1>5, <1>6 DEF ProcessElif
<1>. QED  BY <1>10, <1>11

LEMMA NestedElse ==
  ASSUME NEW c, Nested(c), ~ElseFails(c)
  PROVE  Nested(ProcessElse(c)) /\ Continues(c, ProcessElse(c))
<1>1. c # <<>> /\ ~Last(c).seenElse
  BY DEF ElseFails
<1>2. PICK kept : kept = (ParentActive(c) /\ ~Last(c).anyActive)
  OBVIOUS
<1>3. PICK any : any = (Last(c).anyActive \/ kept)
  OBVIOUS
<1>4. PICK x : x = ConditionState(kept, TRUE, any)
  OBVIOUS
<1>5. kept \in BOOLEAN /\ any \in BOOLEAN
  BY <1>2, <1>3
<1>6. x \in Condition /\ x.active = kept /\ x.anyActive = any
  BY <1>4, <1>5 DEF Condition, ConditionState
<1>7. Nested(Append(Front(c), x)) /\ Continues(c, Append(Front(c), x))
  BY <1>1, <1>2, <1>3, <1>6, NestedReplace
<1>8. ProcessElse(c) = Append(Front(c), x)
  BY <1>2, <1>3, <1>4 DEF ProcessElse
<1>. QED  BY <1>7, <1>8

\* No other step touches the stack, an error included.
LEMMA ConditionNext ==
  ASSUME Nested(conds), [Next]_vars
  PROVE  Nested(conds') /\ Continues(conds, conds')
<1>1. ASSUME UNCHANGED conds
      PROVE  Nested(conds') /\ Continues(conds, conds')
  BY <1>1 DEF Continues
<1>2. ASSUME Fail
      PROVE  Nested(conds') /\ Continues(conds, conds')
  BY <1>1, <1>2 DEF Fail
<1>3. ASSUME NEW toks, NEW f, ProcessText(toks, f)
      PROVE  Nested(conds') /\ Continues(conds, conds')
  BY <1>1, <1>2, <1>3 DEF ProcessText
<1>4. CASE CollectLine \/ TextLine \/ RemainingText
  BY <1>1, <1>3, <1>4 DEF CollectLine, TextLine, RemainingText
<1>5. CASE ProcessIf
  BY <1>2, <1>5, NestedPush DEF ProcessIf, SetConditions
<1>6. CASE ProcessIfdef
  BY <1>6, NestedPush DEF ProcessIfdef, SetConditions
<1>7. CASE ProcessElifLine
  BY <1>2, <1>7, NestedElif DEF ProcessElifLine, SetConditions
<1>8. CASE ProcessElseLine
  BY <1>2, <1>8, NestedElse DEF ProcessElseLine, SetConditions
<1>9. CASE ProcessEndifLine
  BY <1>2, <1>9, NestedFront DEF ProcessEndifLine, ProcessEndif, EndifFails, SetConditions
<1>10. CASE SkipDirective \/ DefineOrUndef \/ MarkPragmaOnce \/ PassThrough
  BY <1>1, <1>10 DEF SkipDirective, DefineOrUndef, MarkPragmaOnce, PassThrough
<1>11. CASE ErrorDirective \/ IncludeFails
  BY <1>2, <1>11 DEF ErrorDirective, IncludeFails
<1>12. CASE IncludeSkipped \/ IncludeFile \/ EndOfFile
  BY <1>1, <1>12 DEF IncludeSkipped, IncludeFile, EndOfFile
<1>13. CASE EndOfMain
  BY <1>1, <1>2, <1>13 DEF EndOfMain
<1>14. CASE Terminated \/ UNCHANGED vars
  BY <1>1, <1>14 DEF Terminated, vars
<1>. QED  BY <1>4, <1>5, <1>6, <1>7, <1>8, <1>9, <1>10, <1>11, <1>12, <1>13, <1>14 DEF Next

LEMMA ConditionInvariant == Spec => []Nested(conds)
<1>1. Init => Nested(conds)
  BY DEF Init, Nested
<1>2. Nested(conds) /\ [Next]_vars => Nested(conds)'
  BY ConditionNext
<1>. QED  BY <1>1, <1>2, PTL DEF Spec

(***************************************************************************)
(* For every program, with conditional lines in any order, in one file or  *)
(* across includes: what is kept is nested, and the innermost level tells  *)
(* whether a line is.                                                      *)
(***************************************************************************)
THEOREM KeptGroupsNest == Spec => []GroupsNest
<1>1. Nested(conds) => GroupsNest
  BY LastDecides DEF GroupsNest
<1>. QED  BY <1>1, ConditionInvariant, PTL

(***************************************************************************)
(* For every program and every result of its conditions: of the groups of  *)
(* a section at most one is kept, #else is the last of them, and nothing   *)
(* inside a section changes the sections around it.                        *)
(***************************************************************************)
THEOREM OneGroupIsKept == Spec => AtMostOneGroup
<1>1. Nested(conds) /\ [Next]_vars => [Continues(conds, conds')]_vars
  BY ConditionNext
<1>. QED  BY <1>1, ConditionInvariant, PTL DEF Spec, AtMostOneGroup
=============================================================================
