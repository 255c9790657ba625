---------------------------- MODULE Translation ----------------------------
(***************************************************************************)
(* What C says preprocessing is, as far as the programs checked here use   *)
(* it: groups are read by matching #if with #endif, conditions are trees   *)
(* with a value, and the text between two directives is one sequence of    *)
(* tokens whose macros are replaced with a hide set for every token.       *)
(* Nothing here follows the code.  What is shared with its model is the    *)
(* tokens and lines, the macro table, which token two pasted ones make     *)
(* (retokenize), the token a string is (stringify), and the features that  *)
(* the __has_ operators know.                                              *)
(***************************************************************************)
EXTENDS Preprocessor, ConstExpr

\* Conditions as trees.
Lit(n) == [op |-> "lit", n |-> n]
Name(s) == [op |-> "name", s |-> s]
Def(s) == [op |-> "defined", s |-> s]
Has(word, tok) == [op |-> "has", word |-> word, tok |-> tok]
Un(op, e) == [op |-> op, args |-> <<e>>]
Bin(op, l, r) == [op |-> op, args |-> <<l, r>>]
Cond(c, a, b) == [op |-> "?", args |-> <<c, a, b>>]

IsLeaf(e) == e.op \in {"lit", "name", "defined", "has"}

Rank(op) ==
  CASE op = "?" -> 0 [] op = "||" -> 1 [] op = "&&" -> 2 [] op = "|" -> 3 [] op = "^" -> 4
    [] op = "&" -> 5 [] op \in {"==", "!="} -> 6 [] op \in {"<", ">", "<=", ">="} -> 7
    [] op \in {"<<", ">>"} -> 8 [] op \in {"+", "-"} -> 9 [] op \in {"*", "/", "%"} -> 10

RankOf(e) == IF IsLeaf(e) \/ Len(e.args) = 1 THEN 11 ELSE Rank(e.op)

\* The tokens of a tree, with parentheses where the grammar needs them.
RECURSIVE Written(_, _)
Written(e, rank) ==
  LET r == RankOf(e)
      w == CASE e.op = "lit" -> <<Num(e.n)>>
             [] e.op = "name" -> <<Id(e.s)>>
             [] e.op = "defined" -> <<Id("defined"), P("("), Id(e.s), P(")")>>
             [] e.op = "has" -> <<Id(e.word), P("("), e.tok, P(")")>>
             [] e.op = "?" -> Written(e.args[1], 1) \o <<P("?")>> \o Written(e.args[2], 0)
                                \o <<P(":")>> \o Written(e.args[3], 0)
             [] ~IsLeaf(e) /\ Len(e.args) = 1 -> <<P(e.op)>> \o Written(e.args[1], 11)
             [] ~IsLeaf(e) /\ Len(e.args) = 2 ->
                  Written(e.args[1], r) \o <<P(e.op)>> \o Written(e.args[2], r + 1)
  IN  IF r < rank THEN <<P("(")>> \o w \o <<P(")")>> ELSE w

If(e) == [Line("if", Written(e, 0)) EXCEPT !.expr = e]
Elif(e) == [Line("elif", Written(e, 0)) EXCEPT !.expr = e]

\* A name stands for the number its macro is, through other names, or for 0.
RECURSIVE NameValue(_, _, _)
NameValue(name, table, seen) ==
  IF name \notin DOMAIN table \/ name \in seen THEN 0
  ELSE LET tok == table[name].body[1]
       IN  IF tok.t = "number" THEN tok.n ELSE NameValue(tok.s, table, seen \cup {name})

Value(v) == [val |-> v, err |-> FALSE]
NoValue == [val |-> 0, err |-> TRUE]

(***************************************************************************)
(* Operators on integers: exact where C has a value for them, so that a    *)
(* value out of range is one that C does not define.  Bitwise operators    *)
(* are about the positions of the ones in two's complement.                *)
(***************************************************************************)
InRange(v) == v \in -(2^(IntWidth - 1))..2^(IntWidth - 1) - 1

Positions == 0..IntWidth - 1
Ones(v) == {i \in Positions : (v \div 2^i) % 2 = 1}
OfOnes(S) == MapThenSumSet(LAMBDA i : IF i = IntWidth - 1 THEN -(2^i) ELSE 2^i, S)

\* The remainder is nearer to zero than the divisor, on the side of the dividend.
IsRemainder(rem, l, r) == -AbsValue(r) < rem /\ rem < AbsValue(r) /\ rem * l >= 0
Division(l, r) == CHOOSE q \in -AbsValue(l)..AbsValue(l) : IsRemainder(l - q * r, l, r)

\* Shifted to the right the sign stays.
Shifted(l, r) ==
  OfOnes({i \in Positions : (IF i + r < IntWidth THEN i + r ELSE IntWidth - 1) \in Ones(l)})

Arithmetic(op, l, r) ==
  CASE op = "+" -> l + r
    [] op = "-" -> l - r
    [] op = "*" -> l * r
    [] op = "/" -> Division(l, r)
    [] op = "%" -> l - Division(l, r) * r
    [] op = "<<" -> l * 2^r
    [] op = ">>" -> Shifted(l, r)
    [] op = "&" -> OfOnes(Ones(l) \cap Ones(r))
    [] op = "|" -> OfOnes(Ones(l) \cup Ones(r))
    [] op = "^" -> OfOnes(SymDiff(Ones(l), Ones(r)))
    [] op \in {"==", "<=", ">=", "!=", "<", ">"} ->
         TruthValue(\/ l = r /\ op \in {"==", "<=", ">="}
                    \/ l < r /\ op \in {"!=", "<", "<="}
                    \/ l > r /\ op \in {"!=", ">", ">="})
    [] op \in {"&&", "||"} -> TruthValue(r # 0)    \* the left operand did not decide

Sign(op, v) ==
  CASE op = "-" -> 0 - v [] op = "+" -> v
    [] op = "!" -> TruthValue(v = 0) [] op = "~" -> OfOnes(Positions \ Ones(v))

RECURSIVE Meaning(_, _, _)
Meaning(e, table, found) ==
  CASE e.op = "lit" -> Value(e.n)
    [] e.op = "name" -> Value(NameValue(e.s, table, {}))
    [] e.op = "defined" -> Value(TruthValue(e.s \in DOMAIN table))
    [] e.op = "has" ->
         Value(TruthValue(e.tok \in found \/ (e.word \in HasTable /\ e.tok.s \in Supported)))
    [] e.op = "?" ->
         LET c == Meaning(e.args[1], table, found)
         IN  IF c.err THEN NoValue
             ELSE Meaning(e.args[IF c.val # 0 THEN 2 ELSE 3], table, found)
    [] ~IsLeaf(e) /\ Len(e.args) = 1 ->
         LET v == Meaning(e.args[1], table, found)
         IN  IF v.err THEN NoValue ELSE Value(Sign(e.op, v.val))
    [] ~IsLeaf(e) /\ Len(e.args) = 2 ->
         LET l == Meaning(e.args[1], table, found)
             r == Meaning(e.args[2], table, found)
         IN  IF l.err THEN NoValue
             ELSE IF (e.op = "&&" /\ l.val = 0) \/ (e.op = "||" /\ l.val # 0)
             THEN Value(TruthValue(l.val # 0))
             ELSE IF r.err \/ (e.op \in {"/", "%"} /\ r.val = 0) THEN NoValue
             ELSE Value(Arithmetic(e.op, l.val, r.val))

-----------------------------------------------------------------------------
(***************************************************************************)
(* Macro replacement: every token carries the macros it is hidden from.    *)
(***************************************************************************)
\* The result of a replacement that may fail.
Ok(toks) == [toks |-> toks, err |-> FALSE]
Failure == [toks |-> <<>>, err |-> TRUE]
Both(a, b) == IF a.err \/ b.err THEN Failure ELSE Ok(a.toks \o b.toks)

Placemarker == Token("placemarker", "", 0)
Painted(toks, hide) == [i \in 1..Len(toks) |-> [tok |-> toks[i], hide |-> hide]]
Repaint(ts, hide) == [i \in 1..Len(ts) |-> [ts[i] EXCEPT !.hide = @ \cup hide]]
Bare(ts) == [i \in 1..Len(ts) |-> ts[i].tok]

RECURSIVE CallArguments(_, _, _, _)
CallArguments(ts, depth, arg, args) ==
  IF ts = <<>> THEN [args |-> <<>>, rest |-> <<>>, hide |-> {}, err |-> TRUE]
  ELSE LET tok == Head(ts).tok
       IN  CASE tok = P(")") /\ depth = 0 ->
                  [args |-> Append(args, arg), rest |-> Tail(ts), hide |-> Head(ts).hide,
                   err |-> FALSE]
             [] tok = P(",") /\ depth = 0 ->
                  CallArguments(Tail(ts), 0, <<>>, Append(args, arg))
             [] OTHER ->
                  CallArguments(Tail(ts), IF tok = P("(") THEN depth + 1
                                          ELSE IF tok = P(")") THEN depth - 1 ELSE depth,
                                Append(arg, Head(ts)), args)

\* F() has no argument if F has no parameter, and one empty argument if it has some.
Actuals(macro, call) ==
  IF call.args = << <<>> >> /\ macro.params = <<>> THEN <<>> ELSE call.args

CountFits(macro, args) ==
  IF macro.variadic THEN Len(args) >= Len(macro.params) ELSE Len(args) = Len(macro.params)

ActualFor(macro, args, p) ==
  IF \E i \in 1..Len(macro.params) : macro.params[i] = p
  THEN args[CHOOSE i \in 1..Len(macro.params) : macro.params[i] = p]
  ELSE LET extra == SubSeq(args, Len(macro.params) + 1, Len(args))
       IN  FlattenSeq([i \in 1..Len(extra) |->
                         IF i = 1 THEN extra[i] ELSE Painted(<<P(",")>>, {}) \o extra[i]])

IsParam(macro, tok) ==
  /\ tok.t = "identifier"
  /\ tok.s \in ToSet(macro.params) \cup (IF macro.variadic THEN {"__VA_ARGS__"} ELSE {})

RECURSIVE Glued(_, _)
Glued(done, ts) ==
  IF ts = <<>> THEN done
  ELSE IF Head(ts).tok # HashHash THEN Glued(Append(done, Head(ts)), Tail(ts))
  ELSE LET l == Last(done)
           r == ts[2]
           glue == CASE l.tok = Placemarker -> <<r.tok>>
                     [] r.tok = Placemarker -> <<l.tok>>
                     [] OTHER -> retokenize(l.tok, r.tok)
       IN  Glued(Front(done) \o Painted(glue, l.hide \cap r.hide), SubSeq(ts, 3, Len(ts)))

RECURSIVE Replaced(_, _, _)

\* The replacement list with the arguments in place.
Instantiated(macro, args, table, file) ==
  LET body == Visible(macro.body)
      part(i) ==
        CASE i > 1 /\ body[i-1] = Hash /\ IsParam(macro, body[i]) ->
               Painted(<<stringify(Bare(ActualFor(macro, args, body[i].s)))>>, {})
          [] body[i] = Hash /\ i < Len(body) /\ IsParam(macro, body[i+1]) -> <<>>
          [] ~IsParam(macro, body[i]) -> Painted(<<body[i]>>, {})
          [] OTHER ->
               LET arg == ActualFor(macro, args, body[i].s)
               IN  IF isPasteOp(body, i - 1) \/ isPasteOp(body, i + 1)
                   THEN IF arg = <<>> THEN Painted(<<Placemarker>>, {}) ELSE arg
                   ELSE Replaced(arg, table, file).toks
  IN  SelectSeq(Glued(<<>>, FlattenSeq([i \in 1..Len(body) |-> part(i)])),
                LAMBDA t : t.tok # Placemarker)

Replaced(ts, table, file) ==
  IF ts = <<>> THEN Ok(<<>>)
  ELSE LET t == Head(ts)
           rest == Tail(ts)
           kept == Both(Ok(<<t>>), Replaced(rest, table, file))
           macro == table[t.tok.s]
           call == CallArguments(Tail(rest), 0, <<>>, <<>>)
           args == Actuals(macro, call)
       IN  IF t.tok.t # "identifier" \/ t.tok.s \notin DOMAIN table \/ t.tok.s \in t.hide
           THEN kept
           ELSE CASE macro.kind = "builtin" ->
                       Both(Ok(Painted(<<Str(file)>>, {})), Replaced(rest, table, file))
                  [] macro.kind = "object" ->
                       Replaced(Repaint(Instantiated(macro, <<>>, table, file),
                                        t.hide \cup {t.tok.s}) \o rest, table, file)
                  [] macro.kind = "function" ->
                       IF rest = <<>> \/ Head(rest).tok # P("(") THEN kept
                       ELSE IF call.err \/ ~CountFits(macro, args) THEN Failure
                       ELSE Replaced(Repaint(Instantiated(macro, args, table, file),
                                             (t.hide \cap call.hide) \cup {t.tok.s})
                                       \o call.rest, table, file)

-----------------------------------------------------------------------------
(***************************************************************************)
(* Groups.  Inside is the number of if-sections around a line.             *)
(***************************************************************************)
Opens(line) == line.kind \in {"if", "ifdef", "ifndef"} \/ (line.kind = "malformed" /\ line.name = "if")
Inside(lines, i) ==
  Cardinality({j \in 1..i-1 : Opens(lines[j])})
    - Cardinality({j \in 1..i-1 : lines[j].kind = "endif"})

EndifOf(lines, i) ==
  CHOOSE j \in i+1..Len(lines) :
    /\ lines[j].kind = "endif" /\ Inside(lines, j) = Inside(lines, i) + 1
    /\ \A k \in i+1..j-1 : lines[k].kind = "endif" => Inside(lines, k) # Inside(lines, i) + 1

\* The #elif and #else lines of the section that line i opens.
PartsOf(lines, i) ==
  {j \in i+1..EndifOf(lines, i) : /\ lines[j].kind \in {"elif", "else"}
                                  /\ Inside(lines, j) = Inside(lines, i) + 1}

Balanced(lines) ==
  /\ \A i \in 1..Len(lines) : Inside(lines, i) >= 0
  /\ \A i \in 1..Len(lines) : lines[i].kind = "endif" => Inside(lines, i) > 0
  /\ Inside(lines, Len(lines) + 1) = 0
  /\ \A i \in 1..Len(lines) : lines[i].kind \in {"elif", "else"} => Inside(lines, i) > 0
  /\ \A i \in 1..Len(lines) : Opens(lines[i]) =>
       \A j, k \in PartsOf(lines, i) : lines[j].kind = "else" => k <= j

LeastOf(S) == CHOOSE i \in S : \A j \in S : i <= j

FirstFile(prog, file, header) ==
  LET dirs == (IF header.n = 0 THEN <<Dir(file)>> ELSE <<>>) \o prog.paths
      hits == {i \in 1..Len(dirs) : <<dirs[i], header.s>> \in DOMAIN prog.files}
  IN  IF hits = {} THEN {} ELSE {<<dirs[LeastOf(hits)], header.s>>}

RECURSIVE ReadGroup(_, _, _, _, _), ReadSection(_, _, _, _, _), ReadFile(_, _, _)

\* State of a reading: the macros, the text, the files said to be read once.
Stopped(st) == [st EXCEPT !.err = TRUE, !.out = <<>>]

\* Lines i to j - 1 of a file.
ReadGroup(prog, file, i, j, st) ==
  IF i >= j \/ st.err THEN st
  ELSE LET lines == prog.files[file]
           line == lines[i]
           ends == {k \in i+1..j : k = j \/ lines[k].kind # "text"}
           stop == LeastOf(ends)
           text == FlattenSeq([k \in 1..stop-i |-> Visible(lines[i+k-1].toks)])
           replaced == Replaced(Painted(text, {}), st.macros, file[2])
           header == IF Head(line.toks).t = "header" THEN line.toks
                     ELSE Bare(Replaced(Painted(line.toks, {}), st.macros, file[2]).toks)
           target == IF Len(header) = 1 /\ header[1].t = "header"
                     THEN FirstFile(prog, file, header[1]) ELSE {}
       IN  CASE line.kind = "text" ->
                  IF replaced.err THEN Stopped(st)
                  ELSE ReadGroup(prog, file, stop, j, [st EXCEPT !.out = @ \o Bare(replaced.toks)])
             [] line.kind # "text" /\ Opens(line) -> ReadSection(prog, file, i, j, st)
             [] line.kind = "define" ->
                  ReadGroup(prog, file, i + 1, j,
                            [st EXCEPT !.macros = Define(@, line.name, line.macro)])
             [] line.kind = "undef" ->
                  ReadGroup(prog, file, i + 1, j, [st EXCEPT !.macros = Undefine(@, line.name)])
             [] line.kind = "once" ->
                  ReadGroup(prog, file, i + 1, j, [st EXCEPT !.once = @ \cup {file}])
             [] line.kind = "passed" ->
                  ReadGroup(prog, file, i + 1, j,
                            [st EXCEPT !.out = @ \o Visible(RawTokens(line))])
             [] line.kind = "silent" -> ReadGroup(prog, file, i + 1, j, st)
             [] line.kind \in {"error", "malformed"} /\ ~Opens(line) -> Stopped(st)
             [] line.kind = "include" ->
                  IF target = {} THEN Stopped(st)
                  ELSE ReadGroup(prog, file, i + 1, j,
                                 ReadFile(prog, CHOOSE f \in target : TRUE, st))

\* The section that line i opens: the first group whose condition holds.
ReadSection(prog, file, i, j, st) ==
  LET lines == prog.files[file]
      end == EndifOf(lines, i)
      heads == {i} \cup PartsOf(lines, i)
      found(line) == {tok \in ToSet(line.toks) :
                        tok.t = "header" /\ FirstFile(prog, file, tok) # {}}
      holds(k) == CASE lines[k].kind \in {"if", "elif"} ->
                         Meaning(lines[k].expr, st.macros, found(lines[k]))
                    [] lines[k].kind = "ifdef" ->
                         Value(TruthValue(lines[k].name \in DOMAIN st.macros))
                    [] lines[k].kind = "ifndef" ->
                         Value(TruthValue(lines[k].name \notin DOMAIN st.macros))
                    [] lines[k].kind = "else" -> Value(1)
                    [] OTHER -> NoValue
      deciding == {k \in heads : holds(k).err \/ holds(k).val # 0}
      chosen == LeastOf(deciding)
      chosenEnd == LeastOf({k \in heads \cup {end} : k > chosen})
  IN  IF deciding = {} THEN ReadGroup(prog, file, end + 1, j, st)
      ELSE IF holds(chosen).err THEN Stopped(st)
      ELSE ReadGroup(prog, file, end + 1, j,
                     ReadGroup(prog, file, chosen + 1, chosenEnd, st))

ReadFile(prog, file, st) ==
  IF file \in st.once THEN st
  ELSE IF st.depth >= MaxIncludeDepth \/ ~Balanced(prog.files[file]) THEN Stopped(st)
  ELSE LET read == ReadGroup(prog, file, 1, Len(prog.files[file]) + 1, [st EXCEPT !.depth = @ + 1])
       IN  [read EXCEPT !.depth = st.depth]

Reading(prog) ==
  ReadFile(prog, prog.main,
           [macros |-> prog.defines, out |-> <<>>, once |-> {}, depth |-> 0, err |-> FALSE])

(***************************************************************************)
(* When preprocessing ends, its text is what the reading gives, and it has *)
(* reported an error exactly if the reading fails: the flags of the stack  *)
(* of conditionals keep the right groups, expansion with one hide set per  *)
(* call and per line replaces the right macros, the parser computes the    *)
(* value of the condition, and skipping guarded headers changes nothing.   *)
(***************************************************************************)
OutputIsTranslation ==
  status # "running" => /\ (status = "error") = Reading(program).err
                        /\ output = Reading(program).out
=============================================================================
