---------------------------- MODULE Preprocessor ----------------------------
(***************************************************************************)
(* The preprocessor's driver (pkg/cpp/preprocess.go) with the resolver of  *)
(* includes (include.go).  A step takes the next line of the file that is  *)
(* being read; an included file is a frame on a stack, as the recursion of *)
(* preprocessContent is.  A program is a set of files, where to look for   *)
(* headers, and the macros of the command line.  The driver is the same    *)
(* whatever the expander (MacroExpansion) and the conditions of #if        *)
(* (ConstExpr) make of their tokens: they are parameters.                  *)
(***************************************************************************)
EXTENDS Tokens

CONSTANTS
  Programs,              \* the programs to preprocess
  MaxIncludeDepth,       \* how many files may be open; 200 in the code
  Expand(_, _, _),       \* the expander: tokens, macros, file |-> its results, {} for an error
  Evaluate(_, _, _, _)   \* the conditions: tokens, macros, headers found, file |-> its results

ASSUME DepthAssumption == MaxIncludeDepth \in Nat \ {0}

(***************************************************************************)
(* Lines: what the lexer and the directive parser (directive.go) make of   *)
(* them.  A malformed directive is one the parser reports an error for; it *)
(* may be a conditional one.  expr is the condition as a tree, which only  *)
(* the reference semantics looks at.                                       *)
(***************************************************************************)
Line(kind, toks) ==
  [kind |-> kind, name |-> "", toks |-> toks, macro |-> Object(<<>>),
   expr |-> [op |-> "none"]]
Named(kind, name) == [Line(kind, <<>>) EXCEPT !.name = name]
Text(toks) == Line("text", toks)
Ifdef(name) == Named("ifdef", name)
Ifndef(name) == Named("ifndef", name)
Else == Line("else", <<>>)
Endif == Line("endif", <<>>)
DefineLine(name, macro) == [Named("define", name) EXCEPT !.macro = macro]
Undef(name) == Named("undef", name)
Include(toks) == Line("include", toks)
PragmaOnce == Line("once", <<>>)
Passed(toks) == Line("passed", toks)    \* #line, # 1 "file", other pragmas
Silent == Line("silent", <<>>)          \* # alone, #warning
Error == Line("error", <<>>)
Malformed(word) == Named("malformed", word)

\* The tokens of a line as the lexer sees them.
MacroTokens(name, macro) ==
  IF macro.kind = "object" THEN <<Id(name), Space>> \o macro.body
  ELSE <<Id(name), P("(")>> \o [i \in 1..Len(macro.params) |-> Id(macro.params[i])]
         \o <<P(")"), Space>> \o macro.body

RawTokens(line) ==
  CASE line.kind = "text" -> line.toks
    [] line.kind = "define" ->
         <<Hash, Id("define"), Space>> \o MacroTokens(line.name, line.macro)
    [] line.kind \in {"ifdef", "ifndef", "undef", "malformed"} ->
         <<Hash, Id(line.kind), Space, Id(line.name)>>
    [] OTHER -> <<Hash, Id(line.kind), Space>> \o line.toks

\* Parentheses left open after some tokens; a ")" too many is not counted.
OpenParens(depth, toks) ==
  FoldLeft(LAMBDA d, tok : IF tok = P("(") THEN d + 1
                           ELSE IF tok = P(")") /\ d > 0 THEN d - 1 ELSE d,
           depth, toks)

Dir(file) == file[1]

-----------------------------------------------------------------------------
(***************************************************************************)
(* The stack of conditionals (conditional.go).  A level records whether    *)
(* its current group is kept, whether #else has been seen and whether any  *)
(* group of it has been kept so far.                                       *)
(***************************************************************************)
ConditionState(kept, seenElse, any) ==
  [active |-> kept, seenElse |-> seenElse, anyActive |-> any]

IsActive(stack) == \A i \in 1..Len(stack) : stack[i].active

ParentActive(stack) == IsActive(Front(stack))

\* ProcessIf, ProcessIfdef, ProcessIfndef; the verdict counts only if active.
PushCondition(stack, verdict) ==
  LET kept == IsActive(stack) /\ verdict
  IN  Append(stack, ConditionState(kept, FALSE, kept))

\* Mutant: #elif does not ask whether an earlier group was kept.
ElifForgetful(stack) == ParentActive(stack)

\* ProcessElif looks at its condition only if this holds.
ElifEvaluates(stack) == ~Last(stack).anyActive /\ ParentActive(stack)

ElifFails(stack) == stack # <<>> => Last(stack).seenElse

ProcessElif(stack, verdict) ==
  LET kept == ElifEvaluates(stack) /\ verdict
  IN  Append(Front(stack),
             [Last(stack) EXCEPT !.active = kept, !.anyActive = @ \/ kept])

ElseFails(stack) == stack # <<>> => Last(stack).seenElse

ProcessElse(stack) ==
  LET kept == ParentActive(stack) /\ ~Last(stack).anyActive
  IN  Append(Front(stack), ConditionState(kept, TRUE, Last(stack).anyActive \/ kept))

EndifFails(stack) == stack = <<>>
ProcessEndif(stack) == Front(stack)

-----------------------------------------------------------------------------

VARIABLES
  program,         \* the program; it never changes
  frames,          \* files being read, the innermost last
  includeStack,    \* the resolver's stack of open files
  currentDir,      \* the directory the resolver starts from
  conds,           \* the stack of conditionals, one for all files
  macros,          \* the macro table
  includedOnce,    \* files that said #pragma once
  includeGuards,   \* the guard macro of files that have one
  output,          \* the text so far
  status           \* "running", "done" or "error"

tables == <<macros, includedOnce, includeGuards>>
vars == <<program, frames, includeStack, currentDir, conds, tables, output, status>>

Frame(file, oldDir) == [file |-> file, at |-> 1, pending |-> <<>>, parens |-> 0, oldDir |-> oldDir]

Init ==
  /\ program \in Programs
  /\ frames = <<Frame(program.main, Dir(program.main))>>
  /\ includeStack = <<program.main>>
  /\ currentDir = Dir(program.main)
  /\ conds = <<>>
  /\ macros = program.defines
  /\ includedOnce = {}
  /\ includeGuards = << >>
  /\ output = <<>>
  /\ status = "running"

-----------------------------------------------------------------------------
Top == Last(frames)
Lines == program.files[Top.file]
HasLine == status = "running" /\ Top.at <= Len(Lines)
CurrentLine == Lines[Top.at]

\* A line that continues a text is part of it, whatever it looks like.
IsText == Top.pending # <<>> \/ CurrentLine.kind = "text"
Gathered == Top.pending \o RawTokens(CurrentLine) \o <<Newline>>
ParensAfter == OpenParens(Top.parens, RawTokens(CurrentLine))

NextFrame == [Top EXCEPT !.at = @ + 1, !.pending = <<>>, !.parens = ParensAfter]
Advance == frames' = Append(Front(frames), NextFrame)

\* An error ends everything; the deferred calls of PopFile empty the stack.
Fail ==
  /\ status' = "error"
  /\ frames' = <<>> /\ includeStack' = <<>> /\ output' = <<>>
  /\ UNCHANGED <<program, currentDir, conds, tables>>

(***************************************************************************)
(* Text.  Lines are collected while parentheses are open, for macro        *)
(* arguments that span lines; then they are expanded, if active.           *)
(***************************************************************************)
CollectLine ==
  /\ HasLine /\ IsText /\ ParensAfter > 0
  /\ frames' = Append(Front(frames), [NextFrame EXCEPT !.pending = Gathered])
  /\ UNCHANGED <<program, includeStack, currentDir, conds, tables, output, status>>

Expanded(toks) == Expand(toks, macros, Top.file[2])

\* processLine on a text; the frame goes on as nextFrame.
ProcessText(toks, nextFrame) ==
  \/ /\ IsActive(conds) /\ Expanded(toks) = {}
     /\ Fail
  \/ /\ \/ ~IsActive(conds) /\ UNCHANGED output
        \/ /\ IsActive(conds)
           /\ \E text \in Expanded(toks) : output' = output \o Visible(text)
     /\ frames' = Append(Front(frames), nextFrame)
     /\ UNCHANGED <<program, includeStack, currentDir, conds, tables, status>>

TextLine ==
  /\ HasLine /\ IsText /\ ~(ParensAfter > 0)
  /\ ProcessText(Gathered, NextFrame)

\* The file ends inside parentheses: what has been collected is a line.
RemainingText ==
  /\ status = "running" /\ ~HasLine /\ Top.pending # <<>>
  /\ ProcessText(Top.pending, [Top EXCEPT !.pending = <<>>])

-----------------------------------------------------------------------------
Directive(kinds) == HasLine /\ ~IsText /\ CurrentLine.kind \in kinds

SetConditions(stack) ==
  /\ conds' = stack
  /\ Advance
  /\ UNCHANGED <<program, includeStack, currentDir, tables, output, status>>

(***************************************************************************)
(* Resolve: the directory dir for "file", then the search paths.           *)
(***************************************************************************)
SearchPath(dir, header) == (IF header.n = 0 THEN <<dir>> ELSE <<>>) \o program.paths

Candidates(dir, header) ==
  LET path == SearchPath(dir, header)
  IN  SelectSeq([i \in DOMAIN path |-> <<path[i], header.s>>],
                LAMBDA file : file \in DOMAIN program.files)

\* __has_include takes the resolver's directory as it finds it.
Found(toks) == {tok \in ToSet(toks) : tok.t = "header" /\ Candidates(currentDir, tok) # <<>>}

Verdict(toks) == Evaluate(toks, macros, Found(toks), Top.file[2])

ProcessIf ==
  /\ Directive({"if"})
  /\ \/ /\ IsActive(conds) /\ Verdict(CurrentLine.toks) = {}
        /\ Fail
     \/ /\ IsActive(conds)
        /\ \E v \in Verdict(CurrentLine.toks) : SetConditions(PushCondition(conds, v # 0))
     \/ /\ ~IsActive(conds)
        /\ SetConditions(PushCondition(conds, FALSE))

ProcessIfdef ==
  /\ Directive({"ifdef", "ifndef"})
  /\ SetConditions(PushCondition(conds, (CurrentLine.name \in DOMAIN macros)
                                          <=> (CurrentLine.kind = "ifdef")))

ProcessElifLine ==
  /\ Directive({"elif"})
  /\ \/ /\ ElifFails(conds)
        /\ Fail
     \/ /\ ~ElifFails(conds) /\ ElifEvaluates(conds) /\ Verdict(CurrentLine.toks) = {}
        /\ Fail
     \/ /\ ~ElifFails(conds) /\ ElifEvaluates(conds)
        /\ \E v \in Verdict(CurrentLine.toks) : SetConditions(ProcessElif(conds, v # 0))
     \/ /\ ~ElifFails(conds) /\ ~ElifEvaluates(conds)
        /\ SetConditions(ProcessElif(conds, FALSE))

ProcessElseLine ==
  /\ Directive({"else"})
  /\ \/ ElseFails(conds) /\ Fail
     \/ ~ElseFails(conds) /\ SetConditions(ProcessElse(conds))

ProcessEndifLine ==
  /\ Directive({"endif"})
  /\ \/ EndifFails(conds) /\ Fail
     \/ ~EndifFails(conds) /\ SetConditions(ProcessEndif(conds))

-----------------------------------------------------------------------------
\* Everything else in a skipped group, malformed conditionals included.
SkipDirective ==
  /\ Directive({"define", "undef", "include", "once", "passed", "silent", "error", "malformed"})
  /\ ~IsActive(conds)
  /\ Advance
  /\ UNCHANGED <<program, includeStack, currentDir, conds, tables, output, status>>

ActiveDirective(kinds) == Directive(kinds) /\ IsActive(conds)

DefineOrUndef ==
  /\ ActiveDirective({"define", "undef"})
  /\ macros' = IF CurrentLine.kind = "define"
               THEN Define(macros, CurrentLine.name, CurrentLine.macro)
               ELSE Undefine(macros, CurrentLine.name)
  /\ Advance
  /\ UNCHANGED <<program, includeStack, currentDir, conds, includedOnce, includeGuards,
                 output, status>>

MarkPragmaOnce ==
  /\ ActiveDirective({"once"})
  /\ includedOnce' = includedOnce \cup {Top.file}
  /\ Advance
  /\ UNCHANGED <<program, includeStack, currentDir, conds, macros, includeGuards, output, status>>

PassThrough ==
  /\ ActiveDirective({"passed", "silent"})
  /\ output' = IF CurrentLine.kind = "passed" THEN output \o Visible(RawTokens(CurrentLine))
               ELSE output
  /\ Advance
  /\ UNCHANGED <<program, includeStack, currentDir, conds, tables, status>>

ErrorDirective == ActiveDirective({"error", "malformed"}) /\ Fail

-----------------------------------------------------------------------------
(***************************************************************************)
(* processInclude.  A header that is not given directly is what the        *)
(* directive expands to.                                                   *)
(***************************************************************************)
Headers ==
  {Visible(toks) : toks \in IF Head(CurrentLine.toks).t = "header" THEN {CurrentLine.toks}
                            ELSE Expanded(CurrentLine.toks)}

\* A name without quotes is taken for one in quotes.
AsHeader(tok) == IF tok.t = "header" THEN tok ELSE Quoted(tok.s)

\* The file the header names, looked for beside the file being read; {} if there is none.
IncludePaths ==
  LET found(h) == Candidates(Dir(Top.file), AsHeader(h[1]))
  IN  {found(h)[1] : h \in {h \in Headers : Len(h) = 1 /\ found(h) # <<>>}}

AlreadyIncluded(path) ==
  \/ path \in includedOnce
  \/ path \in DOMAIN includeGuards /\ includeGuards[path] \in DOMAIN macros

\* Mutant: a file that is open may be included again.
CannotOpenTooDeep(path) == Len(includeStack) >= MaxIncludeDepth

\* The depth limit, and PushFile's check that the file is not open already.
CannotOpen(path) == Len(includeStack) >= MaxIncludeDepth \/ path \in ToSet(includeStack)

\* detectIncludeGuard looks at the first two lines only.
detectIncludeGuard(lines) ==
  IF Len(lines) >= 2 /\ lines[1].kind = "ifndef" /\ lines[2].kind = "define"
       /\ lines[1].name = lines[2].name
  THEN {lines[1].name} ELSE {}

RecordGuard(path) ==
  LET guard == detectIncludeGuard(program.files[path])
  IN  includeGuards' = [f \in DOMAIN includeGuards \cup {p \in {path} : guard # {}} |->
                          IF f = path /\ guard # {} THEN CHOOSE name \in guard : TRUE
                          ELSE includeGuards[f]]

IncludeFails ==
  /\ ActiveDirective({"include"})
  /\ \A path \in IncludePaths : ~AlreadyIncluded(path) /\ CannotOpen(path)
  /\ Fail

\* Mutant: the directive of a skipped file is not consumed.
IncludeSkippedStays ==
  /\ ActiveDirective({"include"})
  /\ \E path \in IncludePaths : AlreadyIncluded(path)
  /\ currentDir' = Dir(Top.file)
  /\ UNCHANGED <<program, frames, includeStack, conds, tables, output, status>>

IncludeSkipped ==
  /\ ActiveDirective({"include"})
  /\ \E path \in IncludePaths : AlreadyIncluded(path)
  /\ currentDir' = Dir(Top.file)
  /\ Advance
  /\ UNCHANGED <<program, includeStack, conds, tables, output, status>>

IncludeFile ==
  /\ ActiveDirective({"include"})
  /\ \E path \in IncludePaths :
       /\ ~AlreadyIncluded(path) /\ ~CannotOpen(path)
       /\ includeStack' = Append(includeStack, path)
       /\ RecordGuard(path)
       /\ frames' = Front(frames) \o <<NextFrame, Frame(path, Dir(Top.file))>>
       /\ currentDir' = Dir(path)
  /\ UNCHANGED <<program, conds, macros, includedOnce, output, status>>

\* The included file ends: its includer goes on.
EndOfFile ==
  /\ status = "running" /\ ~HasLine /\ Top.pending = <<>> /\ Len(frames) > 1
  /\ frames' = Front(frames)
  /\ includeStack' = Front(includeStack)
  /\ currentDir' = Top.oldDir
  /\ UNCHANGED <<program, conds, tables, output, status>>

\* The main file ends: CheckBalanced.
EndOfMain ==
  /\ status = "running" /\ ~HasLine /\ Top.pending = <<>> /\ Len(frames) = 1
  /\ \/ conds # <<>> /\ Fail
     \/ /\ conds = <<>>
        /\ status' = "done"
        /\ frames' = <<>> /\ includeStack' = <<>>
        /\ UNCHANGED <<program, currentDir, conds, tables, output>>

Terminated == status # "running" /\ UNCHANGED vars

Next ==
  \/ CollectLine \/ TextLine \/ RemainingText
  \/ ProcessIf \/ ProcessIfdef \/ ProcessElifLine \/ ProcessElseLine \/ ProcessEndifLine
  \/ SkipDirective \/ DefineOrUndef \/ MarkPragmaOnce \/ PassThrough \/ ErrorDirective
  \/ IncludeFails \/ IncludeSkipped \/ IncludeFile \/ EndOfFile \/ EndOfMain
  \/ Terminated

Spec == Init /\ [][Next]_vars
FairSpec == Spec /\ WF_vars(Next)

-----------------------------------------------------------------------------
(***************************************************************************)
(* The resolver's stack is the path of files that are open, from the main  *)
(* file to the one being read; no file is on it twice, and it is never     *)
(* deeper than MaxIncludeDepth.  Its directory is that of the file being   *)
(* read, through every include and return.  PushFile, the deferred PopFile *)
(* and SetCurrentFile keep them beside the recursion of preprocessContent. *)
(***************************************************************************)
StackIsOpenFiles ==
  status = "running" =>
    /\ includeStack = [i \in 1..Len(frames) |-> frames[i].file]
    /\ \A i, j \in 1..Len(includeStack) : includeStack[i] = includeStack[j] => i = j
    /\ Len(includeStack) <= MaxIncludeDepth
    /\ currentDir = Dir(Top.file)

(***************************************************************************)
(* Preprocessing ends, even when files include each other: processInclude  *)
(* opens no file that is open.                                             *)
(***************************************************************************)
Termination == <>(status # "running")
=============================================================================
