--------------------------- MODULE MacroExpansion ---------------------------
(***************************************************************************)
(* The macro expander (pkg/cpp/expand.go).                                 *)
(***************************************************************************)
EXTENDS Tokens, FiniteSets

(***************************************************************************)
(* A function of the code that may return an error returns the set of its  *)
(* results here: {} is an error.  Join is the results of two calls in turn.*)
(***************************************************************************)
Join(a, b) == {x \o y : x \in a, y \in b}

RECURSIVE DropSpaces(_)
DropSpaces(toks) ==
  IF toks # <<>> /\ Head(toks).t = "space" THEN DropSpaces(Tail(toks)) ELSE toks

DropSpacesAtEnd(toks) == Reverse(DropSpaces(Reverse(toks)))

trimWhitespace(toks) == DropSpacesAtEnd(DropSpaces(toks))

(***************************************************************************)
(* parseArguments: the tokens from the "(" at the front to the matching    *)
(* ")", split at the commas that are in no inner parentheses.              *)
(***************************************************************************)
Depth(toks, i) ==
  Cardinality({j \in 1..i : toks[j] = P("(")}) - Cardinality({j \in 1..i : toks[j] = P(")")})

ClosingParens(toks) ==
  {i \in 1..Len(toks) : Depth(toks, i) = 0 /\ \A j \in 1..i-1 : Depth(toks, j) > 0}

Separators(toks, end) ==
  SetToSortSeq({1, end} \cup {i \in 1..end : toks[i] = P(",") /\ Depth(toks, i) = 1}, <)

SplitAt(toks, seps) ==
  [i \in 1..Len(seps) - 1 |-> trimWhitespace(SubSeq(toks, seps[i] + 1, seps[i+1] - 1))]

\* The arguments and what follows the call; {} if no ")" matches.
parseArguments(tokens) ==
  UNION {{[args |-> IF end = 2 THEN <<>> ELSE SplitAt(toks, seps),
           rest |-> SubSeq(toks, end + 1, Len(toks))] : seps \in {Separators(toks, end)}} :
           <<toks, end>> \in UNION {{toks} \X ClosingParens(toks) : toks \in {tokens}}}

validateArgCount(macro, args) ==
  IF macro.variadic THEN Len(args) >= Len(macro.params)
  ELSE Len(args) = Len(macro.params)

buildVAArgs(macro, args) ==
  LET extra == SubSeq(args, Len(macro.params) + 1, Len(args))
  IN  FlattenSeq([i \in 1..Len(extra) |->
                    IF i = 1 THEN extra[i] ELSE <<P(","), Space>> \o extra[i]])

ParamMap(macro, args) ==
  LET names == ToSet(macro.params) \cup (IF macro.variadic THEN {"__VA_ARGS__"} ELSE {})
  IN  [p \in names |->
         IF p \notin ToSet(macro.params) THEN buildVAArgs(macro, args)
         ELSE args[CHOOSE i \in 1..Len(macro.params) : macro.params[i] = p]]

\* stringify: one string token that stands for the text of the argument.
stringify(toks) == [Str("") EXCEPT !.of = Visible(toks)]

-----------------------------------------------------------------------------
Punctuators == {"==", "!=", "<=", ">=", "<<", ">>", "&&", "||"}

(***************************************************************************)
(* retokenize: the text of two tokens read again.  What does not make one  *)
(* token is read as two.                                                   *)
(***************************************************************************)
retokenize(left, right) ==
  CASE left.t = "identifier" /\ right.t \in {"identifier", "number"} ->
         <<Id(left.s \o right.s)>>
    [] left.t = "number" /\ right.t = "number" -> <<Num(left.n * 10 + right.n)>>
    [] left.t = "punctuator" /\ right.t = "punctuator"
         /\ (left.s \o right.s) \in Punctuators -> <<P(left.s \o right.s)>>
    [] OTHER -> <<left, right>>

(***************************************************************************)
(* handleTokenPasting: the first ## takes the token before it and the one  *)
(* after it, spaces apart; then the next one, which may take the result.   *)
(***************************************************************************)
RECURSIVE handleTokenPasting(_)
handleTokenPasting(toks) ==
  LET ops == {i \in 1..Len(toks) : toks[i] = HashHash}
      i == CHOOSE k \in ops : \A j \in ops : k <= j
  IN  IF ops = {} THEN {toks}
      ELSE UNION {IF left = <<>> \/ right = <<>> THEN {}
                  ELSE handleTokenPasting(Front(left) \o retokenize(Last(left), Head(right))
                                            \o Tail(right)) :
                    left \in {DropSpacesAtEnd(SubSeq(toks, 1, i - 1))},
                    right \in {DropSpaces(SubSeq(toks, i + 1, Len(toks)))}}

isPasteOp(body, i) == i \in 1..Len(body) /\ body[i] = HashHash

(***************************************************************************)
(* expandTokens, with what expandObjectMacro and expandFunctionMacro do.   *)
(* hide is the hide set, the macros being expanded: the code keeps it in   *)
(* one map, to which an expansion adds its macro and from which it deletes *)
(* it on return; a hidden macro is not expanded again, so that the map is  *)
(* then as it was.  file is what __FILE__ stands for.                      *)
(***************************************************************************)
RECURSIVE expandTokens(_, _, _, _), SubstituteFrom(_, _, _, _, _, _)

expandObjectMacro(macro, macros, hide, file) ==
  UNION {expandTokens(toks, macros, hide, file) : toks \in handleTokenPasting(macro.body)}

\* The replacement list from its i-th token on, with the arguments put in.
SubstituteFrom(body, i, map, macros, hide, file) ==
  IF i > Len(body) THEN {<<>>}
  ELSE LET tok == body[i]
           after == DropSpaces(SubSeq(body, i + 1, Len(body)))
           next == Len(body) - Len(after) + 1
       IN  CASE tok = Hash /\ after # <<>> /\ Head(after).t = "identifier"
                  /\ Head(after).s \in DOMAIN map ->
                  Join({<<stringify(map[Head(after).s])>>},
                       SubstituteFrom(body, next + 1, map, macros, hide, file))
             [] tok.t = "identifier" /\ tok.s \in DOMAIN map ->
                  Join(IF isPasteOp(body, i - 1) \/ isPasteOp(body, i + 1)
                       THEN {map[tok.s]}
                       ELSE expandTokens(map[tok.s], macros, hide, file),
                       SubstituteFrom(body, i + 1, map, macros, hide, file))
             [] OTHER ->
                  Join({<<tok>>}, SubstituteFrom(body, i + 1, map, macros, hide, file))

expandFunctionMacro(macro, args, macros, hide, file) ==
  LET substituted == UNION {SubstituteFrom(macro.body, 1, map, macros, hide, file) :
                              map \in {ParamMap(macro, args)}}
  IN  UNION {expandTokens(toks, macros, hide, file) :
               toks \in UNION {handleTokenPasting(toks) : toks \in substituted}}

expandTokens(toks, macros, hide, file) ==
  IF toks = <<>> THEN {<<>>}
  ELSE LET tok == Head(toks)
           rest == Tail(toks)
           copied == Join({<<tok>>}, expandTokens(rest, macros, hide, file))
           after == DropSpaces(rest)
       IN  IF tok.t # "identifier" \/ tok.s \notin DOMAIN macros \/ tok.s \in hide THEN copied
           ELSE CASE macros[tok.s].kind = "builtin" ->
                       Join({<<Str(file)>>}, expandTokens(rest, macros, hide, file))
                  [] macros[tok.s].kind = "object" ->
                       Join(expandObjectMacro(macros[tok.s], macros, hide \cup {tok.s}, file),
                            expandTokens(rest, macros, hide, file))
                  [] macros[tok.s].kind = "function" /\ (after = <<>> \/ Head(after) # P("(")) ->
                       copied
                  [] OTHER ->
                       UNION {Join(expandFunctionMacro(macros[tok.s], call.args, macros,
                                                       hide \cup {tok.s}, file),
                                   expandTokens(call.rest, macros, hide, file)) :
                                call \in {c \in parseArguments(after) :
                                            validateArgCount(macros[tok.s], c.args)}}

ExpandWithLoc(toks, macros, file) == expandTokens(toks, macros, {}, file)
=============================================================================
