---------------------------- MODULE MCLinearize ----------------------------
(***************************************************************************)
(* All graphs of three blocks, two of them empty or with an operation, the *)
(* third empty or the end; conditions with two equal branches are among    *)
(* them.                                                                   *)
(***************************************************************************)
EXTENDS Linearize

Node == 1..3

Blocks ==
  {[body |-> body, kind |-> t[1], succs |-> t[2]] :
     body \in {<<>>, <<"nop", "op">>},
     t \in {<<"return", <<>>>>}
           \cup {<<"branch", <<s>>>> : s \in Node}
           \cup {<<"cond", <<s, u>>>> : s, u \in Node}}

LastBlocks == {b \in Blocks : b.body = <<>> \/ b.kind = "return"}

\* Blocks that end in a jump table or a tail call, which the compiler emits rarely.
RareBlocks ==
  {[body |-> <<>>, kind |-> "jumptable", succs |-> <<1, 2, 3>>],
   [body |-> <<"op">>, kind |-> "jumptable", succs |-> <<3, 2>>],
   [body |-> <<"op">>, kind |-> "tailcall", succs |-> <<>>]}

MCGraphs ==
  {[code |-> b, entry |-> 1] :
     b \in (Blocks \X Blocks \X LastBlocks) \cup (RareBlocks \X LastBlocks \X RareBlocks)}
=============================================================================
