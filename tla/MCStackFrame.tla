---------------------------- MODULE MCStackFrame ----------------------------
(***************************************************************************)
(* Three functions: one that saves an odd number of registers and passes   *)
(* stack arguments, one that takes a stack argument and saves a pair of    *)
(* registers, and a leaf with nothing but a local slot. Their instructions *)
(* have operands in registers and slots in all positions.  They have no    *)
(* address-taken variable; OneFunction has one, at offset zero.            *)
(***************************************************************************)
EXTENDS StackFrame

x19 == R("x19")
x20 == R("x20")
local0 == S("local", 0)
outgoing0 == S("outgoing", 0)
incoming0 == S("incoming", 0)

MCFunctions ==
  {Function({Lop("any", <<>>, x19), Lop("second", <<outgoing0, local0>>, outgoing0),
             Lsetstack(x19, local0), Lcond(<<local0, outgoing0>>),
             Lstore(<<x19>>, local0)}, 0),
   Function({Lload(<<incoming0>>, x20), Lop("first", <<incoming0, x20>>, x19),
             Lgetstack(incoming0, x19), Lop("second", <<x20, x19>>, incoming0),
             Ljumptable(incoming0)}, 8),
   Function({Lop("any", <<>>, local0), Lbuiltin(<<local0, local0>>, local0)}, 0)}

NoVariables == [fn \in MCFunctions |-> {}]

MCCalleeSaveRegs == <<"x19", "x20">>

OneFunction == {Function({}, 0)}
OneVariable == [fn \in OneFunction |-> {0}]
=============================================================================
