------------------------------- MODULE Tokens -------------------------------
(***************************************************************************)
(* Tokens and the macro table of the preprocessor (pkg/cpp/lexer.go,       *)
(* macro.go).  A token keeps its type and its text; of a number also the   *)
(* value, of a string made by # the tokens it was made from.  White space  *)
(* is a token because the expander looks at neighbouring tokens; a run of  *)
(* blanks is one of them, and where blanks do not matter there are none.   *)
(***************************************************************************)
EXTENDS Integers, Sequences, SequencesExt, TLC

Token(type, text, value) == [t |-> type, s |-> text, n |-> value, of |-> <<>>]
Id(name) == Token("identifier", name, 0)
Num(n) == Token("number", ToString(n), n)
P(text) == Token("punctuator", text, 0)
Str(text) == Token("string", text, 0)
Quoted(base) == Token("header", base, 0)
Angled(base) == Token("header", base, 1)
Hash == P("#")
HashHash == Token("hashhash", "##", 0)
Space == Token("space", " ", 0)
Newline == Token("newline", "", 0)

IsBlank(tok) == tok.t \in {"space", "newline"}
Visible(toks) == SelectSeq(toks, LAMBDA tok : ~IsBlank(tok))

(***************************************************************************)
(* The macro table maps the defined names to their macros.  A new          *)
(* definition replaces the old one, with a warning if it differs.          *)
(***************************************************************************)
Macro(kind, params, variadic, body) ==
  [kind |-> kind, params |-> params, variadic |-> variadic, body |-> body]
Object(body) == Macro("object", <<>>, FALSE, body)
Function(params, body) == Macro("function", params, FALSE, body)
Variadic(params, body) == Macro("function", params, TRUE, body)
Builtin == Macro("builtin", <<>>, FALSE, <<>>)

Define(macros, name, macro) ==
  [n \in DOMAIN macros \cup {name} |-> IF n = name THEN macro ELSE macros[n]]

CannotUndefine == {"__FILE__", "__LINE__"}

Undefine(macros, name) ==
  IF name \in CannotUndefine THEN macros
  ELSE [n \in DOMAIN macros \ {name} |-> macros[n]]
=============================================================================
