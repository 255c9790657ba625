----------------------------- MODULE ConstExpr -----------------------------
(***************************************************************************)
(* The conditions of #if and #elif (evaluateCondition in                   *)
(* pkg/cpp/conditional.go): `defined` and the __has_ operators are         *)
(* replaced by numbers, macros expanded, identifiers that are left become  *)
(* 0, and a recursive-descent parser computes the value in int64.          *)
(***************************************************************************)
EXTENDS MacroExpansion, Bitwise

CONSTANT IntWidth    \* the bits of an integer; 64 in the code

ASSUME IntWidthAssumption == IntWidth \in Nat /\ IntWidth >= 2

Wrap(v) == ((v + 2^(IntWidth - 1)) % 2^IntWidth) - 2^(IntWidth - 1)
Bits(v) == v % 2^IntWidth
TruthValue(b) == IF b THEN 1 ELSE 0

AbsValue(v) == IF v < 0 THEN -v ELSE v

\* Go's division and remainder: the quotient is truncated.
Quotient(l, r) ==
  IF (l < 0) = (r < 0) THEN AbsValue(l) \div AbsValue(r)
  ELSE -(AbsValue(l) \div AbsValue(r))

\* A count that is negative as a signed number is huge as an unsigned one.
ShiftLeft(l, r) == IF r \in 0..IntWidth - 1 THEN Wrap(l * 2^r) ELSE 0
ShiftRight(l, r) ==
  IF r \in 0..IntWidth - 1 THEN l \div 2^r ELSE IF l < 0 THEN -1 ELSE 0

Apply(op, l, r) ==
  CASE op = "||" -> TruthValue(l # 0 \/ r # 0)
    [] op = "&&" -> TruthValue(l # 0 /\ r # 0)
    [] op = "|" -> Wrap(Bits(l) | Bits(r))
    [] op = "^" -> Wrap(Bits(l) ^^ Bits(r))
    [] op = "&" -> Wrap(Bits(l) & Bits(r))
    [] op = "==" -> TruthValue(l = r)
    [] op = "!=" -> TruthValue(l # r)
    [] op = "<=" -> TruthValue(l <= r)
    [] op = ">=" -> TruthValue(l >= r)
    [] op = "<" -> TruthValue(l < r)
    [] op = ">" -> TruthValue(l > r)
    [] op = "<<" -> ShiftLeft(l, r)
    [] op = ">>" -> ShiftRight(l, r)
    [] op = "+" -> Wrap(l + r)
    [] op = "-" -> Wrap(l - r)
    [] op = "*" -> Wrap(l * r)
    [] op = "/" -> Wrap(Quotient(l, r))
    [] op = "%" -> Wrap(l - Quotient(l, r) * r)

ApplyUnary(op, v) ==
  CASE op = "!" -> TruthValue(v = 0)
    [] op = "-" -> Wrap(-v)
    [] op = "+" -> v
    [] op = "~" -> -v - 1

-----------------------------------------------------------------------------
\* Results of the parsing functions: a value and the next position; {} is an error.
Parsed(v, at) == [val |-> v, at |-> at]

\* One function of the code per level, from parseLogicalOr to parseMultiplicative.
Levels == << {"||"}, {"&&"}, {"|"}, {"^"}, {"&"}, {"==", "!="}, {"<=", ">=", "<", ">"},
             {"<<", ">>"}, {"+", "-"}, {"*", "/", "%"} >>

At(toks, i, texts) == i <= Len(toks) /\ toks[i].t = "punctuator" /\ toks[i].s \in texts

RECURSIVE parseConditional(_, _), ParseLevel(_, _, _), ParseMore(_, _, _), parseUnary(_, _)

ParseLevel(k, toks, at) ==
  IF k > Len(Levels) THEN parseUnary(toks, at)
  ELSE UNION {ParseMore(k, toks, left) : left \in ParseLevel(k + 1, toks, at)}

\* The loop of a level: both operands are always evaluated.
ParseMore(k, toks, left) ==
  IF ~At(toks, left.at, Levels[k]) THEN {left}
  ELSE LET op == toks[left.at].s
           rights == {r \in ParseLevel(k + 1, toks, left.at + 1) :
                        ~(op \in {"/", "%"} /\ r.val = 0)}
       IN  UNION {ParseMore(k, toks, next) :
                    next \in {Parsed(Apply(op, left.val, r.val), r.at) : r \in rights}}

parseConditional(toks, at) ==
  UNION {IF ~At(toks, cond.at, {"?"}) THEN {cond}
         ELSE UNION {{Parsed(IF cond.val # 0 THEN then.val ELSE else.val, else.at) :
                        else \in parseConditional(toks, then.at + 1)} :
                       then \in {t \in parseConditional(toks, cond.at + 1) :
                                   At(toks, t.at, {":"})}} :
           cond \in ParseLevel(1, toks, at)}

\* parsePrimary: numbers carry their value, whatever their base and suffix.
parsePrimary(toks, at) ==
  CASE At(toks, at, {"("}) ->
         {Parsed(inner.val, inner.at + 1) :
            inner \in {r \in parseConditional(toks, at + 1) : At(toks, r.at, {")"})}}
    [] at <= Len(toks) /\ toks[at].t = "number" -> {Parsed(toks[at].n, at + 1)}
    [] OTHER -> {}

parseUnary(toks, at) ==
  IF ~At(toks, at, {"!", "-", "+", "~"}) THEN parsePrimary(toks, at)
  ELSE {Parsed(ApplyUnary(toks[at].s, operand.val), operand.at) :
          operand \in parseUnary(toks, at + 1)}

\* The value; tokens left over are an error, and so is an empty expression.
evaluateExpr(toks) ==
  {r.val : r \in {p \in parseConditional(toks, 1) : p.at = Len(toks) + 1}}

-----------------------------------------------------------------------------
(***************************************************************************)
(* `defined NAME` and `defined ( NAME )` at the front, the white space     *)
(* around having been dropped: the name and how many tokens they are.      *)
(***************************************************************************)
DefinedForm(toks) ==
  LET isName(i) == i <= Len(toks) /\ toks[i].t = "identifier"
  IN  CASE isName(2) -> {[name |-> toks[2].s, len |-> 2]}
        [] At(toks, 2, {"("}) /\ isName(3) /\ At(toks, 4, {")"}) ->
             {[name |-> toks[3].s, len |-> 4]}
        [] OTHER -> {}

From(toks, i) == SubSeq(toks, i, Len(toks))

RECURSIVE processDefinedOperator(_, _)
processDefinedOperator(toks, macros) ==
  IF toks = <<>> THEN {<<>>}
  ELSE IF Head(toks) # Id("defined")
  THEN Join({<<Head(toks)>>}, processDefinedOperator(Tail(toks), macros))
  ELSE UNION {Join({<<Num(TruthValue(form.name \in DOMAIN macros))>>},
                   processDefinedOperator(From(toks, form.len + 1), macros)) :
                form \in DefinedForm(toks)}

(***************************************************************************)
(* The __has_ operators.  __has_feature, __has_attribute and __has_builtin *)
(* look their argument up in a table; __has_include asks the resolver,     *)
(* which finds the headers of `found`; __has_include_next is always 0.     *)
(* __has_cpp_attribute and __has_warning skip to a closing parenthesis     *)
(* that matches none after them, or to the end of the line.                *)
(***************************************************************************)
HasTable == {"__has_feature", "__has_extension", "__has_attribute", "__has_builtin"}
HasNothing == {"__has_cpp_attribute", "__has_warning"}
HasSkipped == {"__has_c_attribute", "__building_module"}
HasHeader == {"__has_include", "__has_include_next"}
HasWords == HasTable \cup HasNothing \cup HasSkipped \cup HasHeader
Supported == {"supported"}    \* stands for the entries that are true

\* How many tokens the operator at the front takes, with its ( argument ).
ArgumentEnd(toks, type) ==
  IF ~At(toks, 2, {"("}) THEN 1
  ELSE LET arg == IF 3 <= Len(toks) /\ toks[3].t = type THEN 3 ELSE 2
       IN  IF At(toks, arg + 1, {")"}) THEN arg + 1 ELSE arg

SkipToUnmatched(toks) ==
  LET ends == {i \in 2..Len(toks) : Depth(toks, i) < 0}
  IN  IF ends = {} THEN Len(toks) ELSE CHOOSE i \in ends : \A j \in ends : i <= j

skipParenthesizedArg(toks) ==
  LET ends == {i \in 3..Len(toks) : Depth(toks, i) = 0}
  IN  IF ~At(toks, 2, {"("}) THEN 1
      ELSE IF ends = {} THEN Len(toks) ELSE CHOOSE i \in ends : \A j \in ends : i <= j

HasOperator(toks, found) ==
  LET name == Head(toks).s
      argument == IF At(toks, 2, {"("}) /\ 3 <= Len(toks) THEN toks[3] ELSE Space
  IN  CASE name \in HasTable ->
             [val |-> TruthValue(argument.t = "identifier" /\ argument.s \in Supported),
              len |-> ArgumentEnd(toks, "identifier")]
        [] name \in HasHeader ->
             [val |-> TruthValue(name = "__has_include" /\ argument \in found),
              len |-> ArgumentEnd(toks, "header")]
        [] name \in HasNothing -> [val |-> 0, len |-> SkipToUnmatched(toks)]
        [] name \in HasSkipped -> [val |-> 0, len |-> skipParenthesizedArg(toks)]

\* The first pass of processDefinedAndExpand, over both kinds of operators.
RECURSIVE ReplaceOperators(_, _, _)
ReplaceOperators(toks, macros, found) ==
  IF toks = <<>> THEN {<<>>}
  ELSE CASE Head(toks) = Id("defined") ->
              UNION {Join({<<Num(TruthValue(form.name \in DOMAIN macros))>>},
                          ReplaceOperators(From(toks, form.len + 1), macros, found)) :
                       form \in DefinedForm(toks)}
         [] Head(toks).t = "identifier" /\ Head(toks).s \in HasWords ->
              UNION {Join({<<Num(has.val)>>},
                          ReplaceOperators(From(toks, has.len + 1), macros, found)) :
                       has \in {HasOperator(toks, found)}}
         [] OTHER -> Join({<<Head(toks)>>}, ReplaceOperators(Tail(toks), macros, found))

ZeroNames(toks) ==
  [i \in 1..Len(toks) |-> IF toks[i].t = "identifier" THEN Num(0) ELSE toks[i]]

processDefinedAndExpand(toks, macros, found, file) ==
  LET expanded == UNION {ExpandWithLoc(replaced, macros, file) :
                           replaced \in ReplaceOperators(Visible(toks), macros, found)}
  IN  {ZeroNames(final) : final \in UNION {processDefinedOperator(Visible(e), macros) :
                                             e \in expanded}}

\* The value of a condition, or {} for an error.
evaluateCondition(toks, macros, found, file) ==
  UNION {evaluateExpr(processed) :
           processed \in processDefinedAndExpand(toks, macros, found, file)}
=============================================================================
