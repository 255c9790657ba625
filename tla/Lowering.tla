------------------------------ MODULE Lowering ------------------------------
(***************************************************************************)
(* The passes that turn C statements into the structured statements of     *)
(* CminorSel: transformStmt of pkg/clightgen (C to Clight), TranslateStmt  *)
(* of pkg/cshmgen (Clight to Csharpminor), and SelectStmt of pkg/selection *)
(* (Cminor to CminorSel).  SimplLocals and Cminorgen lie between them and  *)
(* leave every statement where it is.                                      *)
(***************************************************************************)
EXTENDS CStatements

Sskip                == [kind |-> "Sskip"]
Sdo(what)            == [kind |-> "Sdo", what |-> what]
Sseq(first, second)  == [kind |-> "Sseq", first |-> first, second |-> second]
Sifthenelse(cond, then, else) ==
  [kind |-> "Sifthenelse", cond |-> cond, then |-> then, else |-> else]
Sswitch(expr, cases, default) ==
  [kind |-> "Sswitch", expr |-> expr, cases |-> cases, default |-> default]
Sreturn(value)       == [kind |-> "Sreturn", value |-> value]
Slabel(label, body)  == [kind |-> "Slabel", label |-> label, body |-> body]
Sgoto(label)         == [kind |-> "Sgoto", label |-> label]

\* Clight only.
SloopContinue(body, continue) == [kind |-> "SloopContinue", body |-> body, continue |-> continue]
Sbreak               == [kind |-> "Sbreak"]
Scontinue            == [kind |-> "Scontinue"]

\* From Csharpminor on.
Sloop(body)          == [kind |-> "Sloop", body |-> body]
Sblock(body)         == [kind |-> "Sblock", body |-> body]
Sexit(n)             == [kind |-> "Sexit", n |-> n]

SwitchCase(value, body) == [value |-> value, body |-> body]

Onotbool(e) == [op |-> "notbool", arg |-> e]

\* A sequence of statements, without the empty ones.
Seq2(a, b) == IF a = Sskip THEN b ELSE IF b = Sskip THEN a ELSE Sseq(a, b)
SeqAll(stmts) == FoldLeft(Seq2, Sskip, stmts)

-----------------------------------------------------------------------------
(* C to Clight.                                                            *)

Stmts(c) == [i \in DOMAIN c.effects |-> Sdo(c.effects[i])]

RECURSIVE transformStmt(_)

\* while (cond) body becomes: loop { if (cond) body else break }
transformWhile(s) ==
  SloopContinue(SeqAll(Append(Stmts(s.cond), Sifthenelse(s.cond.of, transformStmt(s.body), Sbreak))), Sskip)

\* do body while (cond) becomes: loop { body; if (!cond) break }
transformDoWhile(s) ==
  SloopContinue(SeqAll(<<transformStmt(s.body)>> \o Stmts(s.cond)
                        \o <<Sifthenelse(Onotbool(s.cond.of), Sbreak, Sskip)>>), Sskip)

\* Mutant: the step is at the end of the body.
StepInBody(s) ==
  SeqAll(<<transformStmt(s.init),
          SloopContinue(SeqAll(Append(Append(Stmts(s.cond),
                                Sifthenelse(s.cond.of, transformStmt(s.body), Sbreak)),
                                transformStmt(s.step))), Sskip)>>)

\* The step is what continue runs before the next iteration.
transformFor(s) ==
  SeqAll(<<transformStmt(s.init),
          SloopContinue(SeqAll(Append(Stmts(s.cond),
                                Sifthenelse(s.cond.of, transformStmt(s.body), Sbreak))),
                        transformStmt(s.step))>>)

transformItems(items) == SeqAll([i \in DOMAIN items |-> transformStmt(items[i])])

\* The cases whose labels are constants, in order; the last default counts.
transformSwitch(s) ==
  LET defaults == SelectSeq(s.cases, LAMBDA c : c.label = <<>>)
      cases == SelectSeq(s.cases, LAMBDA c : c.label # <<>> /\ c.literal)
  IN  SeqAll(Append(Stmts(s.cond),
        Sswitch(s.cond.of,
                [i \in DOMAIN cases |-> SwitchCase(cases[i].label[1], transformItems(cases[i].items))],
                IF defaults = <<>> THEN Sskip ELSE transformItems(Last(defaults).items))))

transformStmt(s) ==
  CASE s.kind = "do"       -> Sdo(s.what)
    [] s.kind = "block"    -> transformItems(s.items)
    [] s.kind = "if"       -> SeqAll(Append(Stmts(s.cond),
                                Sifthenelse(s.cond.of, transformStmt(s.then), transformStmt(s.else))))
    [] s.kind = "while"    -> transformWhile(s)
    [] s.kind = "dowhile"  -> transformDoWhile(s)
    [] s.kind = "for"      -> transformFor(s)
    [] s.kind = "break"    -> Sbreak
    [] s.kind = "continue" -> Scontinue
    [] s.kind = "switch"   -> transformSwitch(s)
    [] s.kind = "goto"     -> Sgoto(s.label)
    [] s.kind = "label"    -> Slabel(s.label, transformStmt(s.body))
    [] s.kind = "return"   -> SeqAll(Append(Stmts(s.cond), Sreturn(s.cond.of)))

-----------------------------------------------------------------------------
(* Clight to Csharpminor.                                                  *)

RECURSIVE translateClight(_)

\* Mutant: only one block around the loop.
OneBlock(s) ==
  Sblock(Sloop(SeqAll(<<translateClight(s.body), translateClight(s.continue)>>)))

(***************************************************************************)
(* block { loop { block { body }; continue } }: break leaves both blocks,  *)
(* continue the inner one.                                                 *)
(***************************************************************************)
translateLoop(s) ==
  Sblock(Sloop(SeqAll(<<Sblock(translateClight(s.body)), translateClight(s.continue)>>)))

translateBreak == Sexit(1)
translateContinue == Sexit(0)

translateClight(s) ==
  CASE s.kind = "Sseq" -> Sseq(translateClight(s.first), translateClight(s.second))
    [] s.kind = "Sifthenelse" -> [s EXCEPT !.then = translateClight(@), !.else = translateClight(@)]
    [] s.kind = "SloopContinue" -> translateLoop(s)
    [] s.kind = "Sbreak" -> translateBreak
    [] s.kind = "Scontinue" -> translateContinue
    [] s.kind = "Sswitch" ->
         [s EXCEPT !.cases = [i \in DOMAIN @ |-> [@[i] EXCEPT !.body = translateClight(@)]],
                   !.default = translateClight(@)]
    [] s.kind = "Slabel" -> [s EXCEPT !.body = translateClight(@)]
    [] OTHER -> s

-----------------------------------------------------------------------------
(* Cminor to CminorSel: expressions that control become conditions.        *)

CondTrue == [cond |-> "true"]
CondFalse == [cond |-> "false"]
CondCmp(e) == [cond |-> "nonzero", arg |-> e]
CondNot(c) == [cond |-> "not", arg |-> c]

RECURSIVE SelectCondition(_)
SelectCondition(e) ==
  CASE e.op = "const"   -> IF e.val # 0 THEN CondTrue ELSE CondFalse
    [] e.op = "notbool" -> CondNot(SelectCondition(e.arg))
    [] OTHER            -> CondCmp(e)

RECURSIVE SelectStmt(_)
SelectStmt(s) ==
  CASE s.kind = "Sseq" -> Sseq(SelectStmt(s.first), SelectStmt(s.second))
    [] s.kind = "Sifthenelse" ->
         Sifthenelse(SelectCondition(s.cond), SelectStmt(s.then), SelectStmt(s.else))
    [] s.kind \in {"Sloop", "Sblock", "Slabel"} -> [s EXCEPT !.body = SelectStmt(@)]
    [] s.kind = "Sswitch" ->
         [s EXCEPT !.cases = [i \in DOMAIN @ |-> [@[i] EXCEPT !.body = SelectStmt(@)]],
                   !.default = SelectStmt(@)]
    [] OTHER -> s
=============================================================================
