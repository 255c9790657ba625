# ralph-cc in TLA+

ralph-cc is a C compiler for ARM64 in Go, built after CompCert: a chain of
passes, each from one intermediate representation to the next. This directory
holds TLA+ models of those passes, the TLC configurations that check them on
small programs, and TLAPS proofs: about the back end (liveness, the register
allocator, the code it leaves, linearization, the passing of arguments, stack
frames) and about the driver of the preprocessor.

A compiler has no concurrency of its own. What is hard to test in it is of
another kind: algorithms over worklists whose order is that of a Go map, which
differs from run to run; invariants that several passes keep together (exit
depths, calling conventions, frame offsets) and none states; and generated code,
which has to be right for every program and every path. So the models come in
two sorts: the compiler's algorithm step by step (Liveness, IRC, ParallelMoves,
EntryMoves, the passes of Linearize, Preprocessor), and the generated code executed beside
the code it was generated from, or against what that code may do (RegallocRun,
StatementRun, ExprRun, CFGRun, StackFrame).

## The system

| Component | State | Operations | What makes it correct |
|---|---|---|---|
| `pkg/preproc`, `pkg/cpp` | macro table, stack of conditionals, include stack | directives, expansion | the right text groups are kept, expansion ends, guards hold |
| `pkg/lexer`, `pkg/parser` | position in the input, typedef names | one function per production | the grammar of C |
| `pkg/clightgen`, `pkg/simplexpr`, `pkg/simpllocals` | next temporary, local types, address-taken set | `transformStmt`, `TransformExpr` | same effects in the same order |
| `pkg/cshmgen` | loop depth, temporaries of parameters | `TranslateStmt`, `TranslateExpr` | break and continue leave the right blocks; types and casts |
| `pkg/cminorgen` | stack offsets of address-taken variables | `TransformProgram` | variables do not overlap |
| `pkg/selection` | none | `SelectStmt`, `SelectExpr`, `SelectCondition` | rewriting keeps values |
| `pkg/rtlgen` | the graph, labels, exit targets, next register | `TranslateStmt` and one function per statement | the graph makes the steps of the statement, no node without instruction |
| `pkg/regalloc` | live sets; interference graph; worklists, moves, aliases, colors | `AnalyzeLiveness`, `BuildInterferenceGraph`, `Allocate`, `TransformFunction` | two registers live together are kept apart; values survive calls; parameters arrive |
| `pkg/linearize` | order, labels, code | `linearize`, `convertCall`, `Tunnel`, `CleanupLabels` | the code follows the graph; arguments reach their registers and slots |
| `pkg/stacking` | frame layout, saved registers | `ComputeLayout`, `GeneratePrologue`, `GenerateEpilogue`, `Transform` | areas of a frame do not overlap; registers and SP are restored |
| `pkg/asmgen` | none | `translateInstruction`, `translateOperation` | the machine code does what Mach says |
| `cmd/ralph-cc` | none | runs the passes in order | |

The passes call each other only through their results: each takes the previous
representation and returns a new one. They interact through conventions. The
allocator decides where parameters live and the entry moves put them there; the
allocator hands out X8 and `convertCall` uses X8 as a scratch register;
`convertCall` stores arguments to outgoing slots and stacking places those slots
where the callee's incoming slots will be; Csharpminor generation counts blocks
that RTL generation must have pushed. The hazards in `PROJECT.json` are mostly
of this sort.

## Modules and runs

A *pass* run ends without an error; a *violation* run checks one property that a
comment or a document of the repository states and that the code does not keep
(see Findings). Three violations are runs; each of the other deviations has an input in
an MC module and a property that the code does not keep on it, both named below. To see
one, put the input in the place of the family in the module's configuration and check
that property alone.

### Liveness (`pkg/regalloc/liveness.go`)

`RTL` has the instructions with what they read, define and go on to. `Liveness`
models `AnalyzeLiveness`: `changed` says whether the round changed anything,
`todo` which nodes it has still to visit, and `Visit(n)` recomputes live-out and
live-in of a node in any order (the loop ranges over a Go map). When a round
ends without change the analysis is done.

Run `liveness`: all functions of three nodes over two registers whose first two
nodes are any of a representative set of instructions. `DoneSolvesEquations`: the
result solves the dataflow equations. `BelowEverySolution`: no visit ever marks
something live that any solution leaves dead. `DoneIsPathLiveness`: a register is
live at a node exactly if a path leads from it to a read without a write between.
`LiveSetsOnlyGrow`; `Termination` under weak fairness of the loop.

### The allocator (`pkg/regalloc/irc.go`, `interference.go`)

`Interference` is the graph `BuildInterferenceGraph` returns: edges, move
preferences, registers live across calls. `IRC` models `Allocate`: one action per
handler of its loop (`Simplify`, the four outcomes of `coalesce`, `Freeze`,
`SelectSpill`), one per register that `assignColors` pops, and `BuildResult`. The
lists are the code's slices where their order shows and bags or sets where it
does not; a loop over a Go map is a choice of an order. `rep` is an auxiliary
variable, the end of each alias chain. Nothing in the code bounds the select
stack; `MaxStack` bounds the model and is a guard of `Simplify`, which is why
deadlock is not checked in these runs.

Run `irc`: the graphs of all straight-line functions of three instructions over
four registers with K = 2 colors, with and without a parameter, and one path of
four registers with a move between its ends. With two colors and four registers
every phase happens: coalescing through chains of aliases, constrained and
deferred moves, freezing, spilling, precolored neighbours. `InterferencePreserved`:
merging never merges interfering registers nor loses an edge between
representatives. `ColorsDiffer`: interfering registers never have the same color.
`ResultKeepsApart`: nor the same location, slots included. `NoRegisterForgotten`:
while the loop runs a register is always on a list, merged or fixed.
`EveryRegisterPlaced`: the result has a location for each. `CallsPreserve`: a register
live across a call that was not merged into a fixed parameter is callee-saved or in
memory. `ResultSeparates`: where the parameters were left alone (`ParamsLeftAlone`), the
result has all that `RegallocRun` asks of an allocation (`Separates`).
`ColorabilityKept`: Briggs's test never makes a graph that could be simplified one that
cannot.

`Termination`: on graphs that need no spilling the loop ends (weak fairness of `Next`:
the loop is sequential code). Run `irc_spill` is a violation; so are `ParamColorsFixed` on
`TwoParams` (K = 3, two argument registers) and `AllCallsPreserve` on `UnusedParam`.

### Allocated code (`pkg/regalloc/transform.go`)

`RegallocRun` runs a function and its allocated code side by side. An allocation
is any record of live sets and locations that keeps what the two models above
establish: `SolvesLiveness`, and `KeepsApart` (what a definition must be kept
apart from has another location; what lives across calls is not in a caller-saved
register). So the two halves fit: `IRC` shows that the allocator keeps the
promise (`ResultSeparates` and `KeepsApart` are the same operator `Separates` of
`Interference`), `RegallocRun` that the promise is enough. Each action runs one RTL
instruction and the block that `transformInstruction` makes of it. A call
overwrites every caller-saved location with unknown values. Values are symbolic
terms of two kinds, chosen by `\E`.

Run `allocated`: functions of four instructions over three registers (loops,
moves, calls, jump tables) with *every* allocation to an argument register, a
caller-saved and a callee-saved register and a slot. `AllocationSimulates`: the
location of each live register holds its value. `ResultsAgree`: both return the
same. The precondition of `AllocationSimulates` is that no instruction jumps back
to the entry node; `AlwaysSimulates` on `LoopAtEntry` shows why (violation).

### Calls (`pkg/linearize/linearize.go`, `pkg/regalloc/transform.go`)

`ParallelMoves` models the shuffle loop of `convertCall`: sweeps over the pending
moves in any order, a move whose destination nobody needs is made, and a sweep
without progress breaks a cycle with the scratch register. `ParallelAssignment` is
the abstract specification: one simultaneous assignment. `ConvertCall` puts the
overflow arguments before it and the call after it. `EntryMoves` is the callee's side
and composes with them: the callee finds the caller's registers and outgoing slots,
and `resolveParallelMoves` saves the sources that earlier moves would overwrite in
temporary registers, until they run out, and then moves the parameters one by one.

Run `calls`: every assignment of four argument registers from each other, X8 and a
slot; up to three arguments beyond the registers; and five parameters to every
choice of distinct places, with two temporaries so that they can run out.
`PendingIntact`: no value is overwritten before it is moved. `StuckInCycles`: the
scratch register is only used when all that is pending are cycles of registers.
`IsParallelAssignment`: the shuffle refines the assignment, after the overflow stores
too. `ArgumentsDelivered`: at the call the arguments are in place. `ParametersArrive`: when
the callee's body begins, its parameters hold the caller's arguments. `Termination` of
the shuffle under weak fairness of the whole.

`ArgumentsDelivered` exempts a conflict over X8, which `AllArgumentsDelivered` on
`ScratchCalls` violates, and does not look at the register of a function pointer:
`AllCalleesDelivered` on `PointerCalls` is violated.

### Linearization (`pkg/linearize`)

`CFG` is the LTL graph, `CFGRun` its execution (the abstract specification),
`Linearize` the passes and then the execution of the code they left: depth-first order
(`VisitSuccessor`, `LeaveNode`, `EndOrder`), emission of a label and of one instruction at a
time (`EmitLabel`, `EmitInstruction`, `EmitTerminator`, `EndEmit`), `Tunnel`, whose
`resolveLabel` is a walk over labels and gotos, and the removal of labels
(`CleanupInstruction`, `EndCleanup`). A graph has finitely many blocks, each with its
terminator last and with successors in the graph (`IsCFG`). Run `linearize`: all
graphs of three blocks, with conditions whose branches are equal, and some with
jump tables and tail calls. `LabelsResolve`: every branch finds its
label. `FollowsGraph`: the code refines the execution of the graph. `KeepsGoing`:
the code does not stall where the graph goes on (weak fairness of `Next`).

### Frames (`pkg/stacking`, `pkg/asmgen`)

`Stacking` has the offsets of `ComputeLayout`, of the padding of saved registers and of
slots, what `collectStackInfo` and `FindUsedCalleeSaveRegs` find in the instructions of a
function, and the register and the offset that `ensureInReg` and `TranslateSlotOffset`
give an operand. `StackFrame` has what the instructions that `transformInst` emits do:
`LoadOperands` is the registers after the loads of operands in slots into X16 and X17,
`Seen` the operands the operation then gets, `Computed` its result, which goes to a
register or a slot. It executes prologue, instructions, calls and epilogue of nested
activations on one stack; an activation runs the instructions of its body in any order. A
function (`IsFunction`) has instructions of the shapes of Linear, slots that are multiples
of eight, uses of local and outgoing slots that some counted instruction writes, and
incoming slots within its own arguments.

Run `frames`: three functions that save an odd number, two, or no registers, with operands
in registers and in local, outgoing and incoming slots, over a stack of 112 bytes (two to
three nested frames). `Restored`: a function returns with SP, FP, LR and the callee-saved
registers as it found them. `SlotsHold`: a slot holds what was last written to it.
`ArgumentsArrive`: incoming slots are the caller's outgoing ones. `OperandsRead`: whatever
instruction runs next gets the values of its operands. Functions whose transformation
panics (`Panics`) are left out: a store with two address operands and a source in a slot
needs a third temporary register, even if the addresses are in registers. `VariablesSpec`
adds stores to address-taken variables; its run `frame_variables` is a violation.

### Statements (`pkg/clightgen`, `pkg/cshmgen`, `pkg/selection`, `pkg/rtlgen`)

`CStatements` has the statements of C and how C executes them: the sequence of what
is left to do. `Lowering` has the three passes that turn statements into those of
CminorSel, `Rtlgen` the backward translation into a graph with the builder's state
(next node, code, labels, exit targets) passed along. An expression is one
computation and one node; a controlling expression has side effects first.
`StatementRun` executes the C function and the graph together: each side proceeds
silently to its next observable step and both must be about to make the same one.

Run `statements`: some 400 functions with loops in loops, switches in loops, loops
in switches, goto out of and into loops. `NodesHaveCode`: no node without an
instruction is reached. `SameNext`: the same computations, tests and returns in
the same order. `KeepsUp`: the graph reaches its next observable step after
finitely many jumps (weak fairness of `Next`: a processor goes on). The family
leaves out what four violations (`SameNext` on `ContinueInDo`, `FallThrough` and
`NegativeLabel`, the last with `Value <- LabelValues`; `NodesHaveCode` on `BreakInSwitch`)
show: continue in do-while, break in a switch, falling through, labels that are not
plain constants.

### Expressions and variables (`pkg/simplexpr` to `pkg/rtlgen`, `pkg/asmgen`)

`CExpr` has the data that the passes share (types, expression nodes, words, memory) and
the reference: a small-step semantics of C99 expressions in which the operands of an
operator are evaluated in any order, so that a function and its arguments have a *set*
of outcomes; an undefined one (overflow, two unsequenced writes, an uninitialized
read) allows everything. It follows the language and nothing in the code. One module
per pass translates a whole function as the code does, an operator per function of the
code: `SimplExpr` (with the locals and types of `clightgen` and the promotion of
`simpllocals`), `Cshmgen`, `Cminorgen`, `Selection`, `RtlgenExpr`. Temporaries, nodes and
registers are numbered as in the code and threaded through. Where the arms of a `CASE`
overlap the first one applies, as in a `switch` of Go. `ExprRun` compiles a function by the
passes in order, for every order that Go's map gives the modified parameters, and
executes the graph, one RTL instruction at a time, by what the machine instructions of
`asmgen` compute on W and X registers. The unspecified upper half of the registers of
arguments and results is all zeros or all ones.

Run `expressions`: 92 functions of two parameters, each with up to 25 pairs of
arguments around the limits of its types: every operator on int, unsigned and long;
comparisons of operands that differ in width or sign; nested and shifted operands,
casts; assignments, `++`, calls, commas, `?:`, `&&` and `||` in each other; address-taken
variables, fields, array elements, globals, parameters that change. `ResultIsC`: calls, memory
and result are an outcome that C allows. `ReadsWritten`: no instruction reads a
register that nothing on its way has written. `FrameAccessesInBounds`: an access to the
frame stays in one stack variable. `Terminates` under weak fairness of `Next` (a
processor goes on). Run `expressions_shadow` is a violation.

The functions leave out what the code does differently from C:

- a nested `?:`, `&&` or `||` in a branch of `?:` that has no side effects of its own loses
  its statements;
- `&(x)` hides that the address of x is taken, and Cshmgen then panics on the address of
  a temporary; the address of a parameter reads the register's old value;
- `&`, `|` and `^` with an operand shifted by a constant become an operation without the
  shift; a shifted operand of a long addition is computed in 32 bits;
- conditions and `!` on a long test 32 bits;
- `++` and compound assignments to char and short are not truncated, nor is the value of a
  return converted; an initializer of a long is not extended;
- mixed arithmetic other than comparison takes the width of its left operand; a division
  of int by unsigned is signed, of unsigned char by int unsigned;
- a comparison inside an address becomes an addition; `a[i]` and pointer arithmetic are
  not scaled by the size of the element, and an address of two registers loses the
  second;
- an `unsigned char` in the frame is read with its sign; `long int` is an int; a cast of int
  to float makes a double; a struct assignment panics; a cast to a pointer to struct is
  one to int;
- pointers are compared by their low 32 bits, extended without a sign (`extendToLong`): the
  functions do not compare addresses;
- a local that shadows a global has the global's type, and locals of the same name in
  different blocks are one.

The bodies of these functions are straight lines of declarations, computations and a
return: of `AnalyzeStmt` and `collectLocals` the cases of nested statements and blocks are
not in `SimplExpr`, and of `TransformStmt` not those of switches and labels. `&&`, `||`
and `?:` bring the conditionals that are there. Control flow is the subject of
`Lowering`. That the upper half of an argument or a result is not specified
(`InRegister`) is the calling convention's, not the code's. A condition on an undefined
value goes either way.

### The preprocessor (`pkg/cpp`)

`Tokens` has tokens and the macro table, `MacroExpansion` the expander; `ConstExpr` the
conditions of `#if` with their recursive-descent parser in integers of `IntWidth` bits.
`Preprocessor` has the stack of conditionals and the line loop: one step per line, one
action per kind of line or directive, included files as frames on a stack, and the
resolver's own stack and directory beside them. The expander and the evaluation of
conditions are parameters of it (`Expand`, `Evaluate`), which the run's configuration
gives as `ExpandWithLoc` and `evaluateCondition`. A function of the code that may fail
returns the set of its results, and the empty set is an error. `Translation` is the
reference: groups found by matching `#if` with `#endif`, conditions as trees with
arithmetic of their own (division by its defining equation, bit operations on sets of
positions), macro replacement with a hide set on every token. It is independent of the code
in these. It shares with the model the tokens and lines, the macro table, what `#` and `##`
make of two tokens (`stringify`, `retokenize`) and the names of which `__has_` says yes: an
error in those would be in both.

Run `preprocess`: sequences of six lines with conditionals in any order, matched or not;
headers in two directories that include each other, guarded, with `#pragma once` or without
end; chains of includes up to the limit and beyond; conditions with every pair of operators,
the values of every binary one on operands of both signs, unary ones, `?:`, `defined` and
the `__has_` operators; object- and function-like macros that name each other, with `#`,
`##` and variable arguments, over several lines. `OutputIsTranslation`: when it ends, the
text is that of the reference, and an error is reported exactly where the reference has
none. `StackIsOpenFiles`: the resolver's stack is the path of open files, without
repetition, and its directory is that of the file being read. `Termination` under weak
fairness of `Next` (sequential code).

The families leave out what the code does differently from C:

- an argument is expanded under the hide set of the call and scanned again without
  paint, so `F(F(1))` keeps the inner call and a macro that names itself is
  expanded twice (`PLAN_PREPROCESSOR.md:176` "Function-like
  macro arguments are expanded before substitution", `:193` "Prevent recursive
  expansion"); the result is not scanned together with the text after the call;
- `F()` with one parameter is an error, and an argument that expands to nothing may
  become one (`:194` "Handle empty arguments");
- `x ## y` written with blanks expands its operands (the comment of `isPasteOp`
  promises "or whitespace before/after ##");
- a malformed `#if` in a skipped group is ignored, but its `#endif` is not
  (`:223` "still track nesting");
- a file that is open and not guarded is a circular include even if a condition
  would end the recursion; `#if !defined` is not seen as a guard; text outside of a
  guard is lost on the second include;
- the conditionals of an included file need not match inside that file;
- a directive between open parentheses is text;
- `__has_cpp_attribute` and `__has_warning` swallow the rest of the condition;
- the operands of `&&`, `||` and `?:` are always evaluated, so that a division by zero
  in the one C does not evaluate is an error.

Conditions that C gives no value are left out as well (`ValuesDefined`): those that
overflow, shift a negative value to the left, or shift by the width or more.

## Bounds

Registers, locations, nodes and values are small sets, chosen so that each
branch of the code is taken: four registers with two colors force spilling,
freezing and chains of merges; four moves allow two disjoint cycles and chains
that hang off a cycle; three blocks give every shape of loop and of
unreachable code; a stack with room for three frames has a frame with a caller
and a callee; integers of eight bits overflow like those of 64 in conditions of `#if`, and
a char of two bits, a short of three, an int of four and a long of six have the limits of
the real ones within reach of small constants, each narrower than the next.
`MaxIncludeDepth` is a limit of the code, 200 there and 5 in the run. `MaxStack` (IRC) and
`StackTop` (StackFrame) are the only bounds on counters. The proofs do not use them.

## Fairness

Every fair specification is `WF_vars(Next)`: a compiler pass is a sequential loop
that runs as long as it can, and so is a generated program. No action is
singled out, so no choice of a map order is assumed fair.

## Proofs

Seven modules, checked by TLAPS for all values of the constants. Nearly
every theorem states a property that a run checks.

**`LivenessProofs`**: `TypeCorrect`; `FixpointReached`, whose strengthening is that in a
round without change the nodes visited satisfy the equations; `LeastSolution`;
`Monotone`, which needs that the equations would only add to the current sets;
`LivenessIsPathLiveness`; `LiveIsRead`. The reference of the last two quantifies over
paths no longer than the code has nodes. One half is that the registers live on such
paths solve the equations (`PathsSolve`): a path one node too long visits a node twice and is
shortened by cutting out the round trip. The other is that a solution has every register
live that is live on a path (`SolutionHasPaths`), from the end of the path to its
beginning. Assumption: the code of a function is finite.

**`IRCProofs`**: `TypeCorrect`; `CoalescingKeepsInterference`; `ColoringIsProper`. The
inductive invariant is in three layers. `Inv1` is the type invariant with `AliasInv` (a
merged register's alias has a lower number and the same representative) and `MoveInv`
(what was in a move still is), which keep precolored parameters and moves apart enough
for types; from `AliasInv` the lemma `AliasIsRep` shows that the recursive `getAlias`
computes `rep`. `EdgeInv` says that each edge of the input is still there between
representatives: `ColorsDiffer` alone is not inductive, since colors are chosen from the
neighbours in the merged graph. `ColorInv` says that neighbours in the current graph
have different colors. Assumptions: the inputs are symmetric, irreflexive graphs over
finitely many registers, the parameters are numbered first, and one that is live across a
call interferes with all others (`IsAllocatable`); there is at least one color, and
argument registers are caller-saved.

On the worklists: `EveryRegisterIsKept` is inductive by itself, given `Inv1` and what the
sorts and removals do to the registers on a list. `CoalescingIsConservative` is Briggs's
theorem for this code. It needs `BriggsInv`: as long as moves are left, what is on the
simplify list or the select stack has no moves and fewer than K neighbours among what is
not below it. Then a set in which everyone has K neighbours after a merge gives such a set
before it: removing what was simplified and the neighbours that the test did not count
leaves one without the merged register.

On the result: `ResultIsApart`, `EveryRegisterHasALocation`, `CallsArePreserved`,
`AllocatorKeepsPromises`. `ResultInv` adds to the above that fixed parameters are only
merged into one another and keep their places (`FixedInv`), that on the way through
`assignColors` everything is fixed, on the stack, colored or spilled (`PlaceInv`), that no
spill slot is given twice (`SlotInv`), and that being live across a call is inherited by
representatives, which then get callee-saved colors (`LacInv`).

**`RegallocRunProofs`**: `TypeCorrect`, `AllocationIsCorrect`, `ResultsAreRight`. The invariant
adds to `AllocationSimulates` that the two executions are at the same node and, after a
call, that the result is in the return register. Assumption: each allocation solves the
liveness equations and keeps apart what it must. `GraphIsAllocatable`: what
`BuildInterferenceGraph` makes of any solution of the liveness equations meets
`IsAllocatable`.

These three modules are a chain. The analysis returns a solution (`FixpointReached`); the graph of
a solution is one the allocator accepts (`GraphIsAllocatable`); what the allocator returns
separates what the graph says (`AllocatorKeepsPromises`, where the parameters are left
alone); an allocation that does so simulates the function (`AllocationIsCorrect`, where no
instruction jumps back to the entry). The two side conditions are the findings below. The
links are stated with the same operators (`SolvesLiveness`, `IsAllocatable`, `Separates`), and the
step from one module to the next is reading them together: no module composes all three.

**`CallProofs`**, on the shuffle: `ValuesIntact`, `OnlyCyclesAreLeft`,
`ShuffleImplementsAssignment`. The invariant says where the value of each pending move is,
that finished destinations hold theirs, that other locations are untouched, and what a
sweep without progress has learnt (`SweepInv`). Assumption: the scratch register is not a
destination.

On a whole call: `CallsDeliver`, `ParametersAlwaysArrive`, `CallImplementsAssignment`, for
the composition of `ConvertCall`, the shuffle and `EntryMoves`. `CallInv` says that before
the shuffle only the scratch register has changed, and holds the last argument that passed
through it (`OverflowInv`, `BeforeInv`), and that the outgoing slots have the arguments
stored so far, unless an argument was in the scratch register (`OutgoingInv`); during the
shuffle it is the invariant of the shuffle. `EntryInv` adds the callee: while sources are
saved, every parameter is still where it arrived and the copies have temporary registers
of their own (`SaveInv`); then the parameters before the current one are in place and the
values of the others are where the code takes them from (`PlaceInv`). Assumptions:
argument registers, temporary registers and incoming slots are distinct, and the
parameters have distinct places.

**`LinearizeProofs`**: `LabelsAreDefinedOnce`, `OrderIsComplete` and
`LinearCodeFollowsGraph`, the refinement of `CFGRun`, for every finite graph. The
inductive invariant `LInv` has a part for each pass. `OrderInv`: a block that was visited
is on the search's path or in the postorder, never both, and the successors that the
search has passed are visited; when it ends the order has every block it needs, none
twice, the entry first (`Ordered`). `EmitInv` and `SoundCode`: each instruction in the
code stands for a place of the graph (`Start`), its labels name the blocks it goes to, and
what comes next in the code stands for the place that comes next in the graph, up to
places where the graph does nothing visible (`SilentTo`); `Complete` says the same of code
without an open end. `CleanupInv` keeps it while labels go that nobody uses, and
`UsedOnce` is what remains of their being defined once. `RunInv` is the simulation:
silent steps of the graph lead from where its execution is to the place of the
current instruction. Two facts about iterating a function carry it: a place that can be
reached in any number of steps is reached in as many as there are places, so that the
bounded walks of the model (`SilentWalk`, `resolveLabel`) see it; and the first visible
place on a silent path is unique, so that replacing a label by the end of its chain of
gotos (`Tunnel`) does not change where a jump ends, even where gotos form a cycle.
Assumption: `IsCFG`.

**`PreprocessorProofs`**: `StackIsAlwaysOpenFiles`, `KeptGroupsNest`, `OneGroupIsKept`,
for every program and every result of the expander and of the conditions. `OpenFiles` adds
to `StackIsOpenFiles` that each included file remembers its includer's directory: that is
what the return from it restores. `Nested` says that an active group lies in active ones
and is recorded at its level; with it `#elif` and `#else` never keep a second group of a
section, the steps leave the sections around the innermost one alone, and an included file
continues the sections of its includer. Assumption: at least one file may be open.
`GroupsNest` and `AtMostOneGroup` are in this module and are not properties of a run:
`OutputIsTranslation` already compares the groups that are kept with C's.

**`StackFrameProofs`**: `FunctionsRestore`, `SlotsAlwaysHold`, `ArgumentsAlwaysArrive`,
`OperandsAlwaysRead`, for any functions, any set of callee-saved registers and any nesting of
calls. The lemma `Areas` is the layout: the saved pair, the saved registers, the local and the
outgoing slots of a frame are at different addresses, all within the region between the
caller's SP and the function's own. `FramesInv` stacks the regions one below the other, so
they never meet (`RegionsApart`); `WaitingInv` says that memory holds all that each waiting
activation will need; `RunningInv` says what holds of the running one at each point of prologue,
body and epilogue. None of the four properties is inductive by itself: that a
register is restored needs the slot it was saved in untouched by the body, by every callee and by
stores to the incoming area, which lies in the caller's frame. `TempsApart` shows that the
operands in slots have a temporary register each, by the rank of an operand among those in
slots. Assumptions, besides `IsFunction`: StackTop is a multiple of 16, the
temporary registers are not callee-saved, and a register that a builtin uses also occurs
elsewhere in the function (`FindUsedCalleeSaveRegs` does not look at builtins).

Only model-checked, by what the prover cannot do: every termination and other liveness
property (`Termination`, `KeepsGoing`, `KeepsUp`, `Terminates`), and what statements,
expressions and the text of the preprocessor come to (`NodesHaveCode`, `SameNext`,
`ResultIsC`, `ReadsWritten`, `FrameAccessesInBounds`, `OutputIsTranslation`): `Lowering`,
`Rtlgen`, `CStatements`, `CExpr` and the modules of the expression passes,
`MacroExpansion`, `ConstExpr` and `Translation` are recursive over syntax trees and token
lists, and a proof about them is an induction over that data.

## Findings

| Run, or property and input | What the code does |
|---|---|
| `irc_spill` | a register already on the select stack comes back to a worklist; with K+1 registers live at once the loop goes on pushing |
| `ParamColorsFixed`, `TwoParams` | a precolored parameter is put on a worklist and gets another color |
| `AllCallsPreserve`, `UnusedParam` | a register live across a call is merged into a parameter that sits in a caller-saved register |
| `AlwaysSimulates`, `LoopAtEntry` | parameter moves in an entry block that is a loop head run again on each iteration |
| `AllArgumentsDelivered`, `ScratchCalls` | an overflow argument passes through X8 and overwrites an argument kept there |
| `AllCalleesDelivered`, `PointerCalls` | the argument moves overwrite the register of a function pointer before the call |
| `frame_variables` | address-taken variables lie on the saved FP and LR |
| `expressions_shadow` | the temporary of a modified parameter is the last one of SimplExpr: two values share it |
| `SameNext`, `ContinueInDo` | continue in do-while skips the condition |
| `NodesHaveCode`, `BreakInSwitch` | break in a switch goes to a node without an instruction (in a loop, it leaves the loop) |
| `SameNext`, `FallThrough` | cases do not fall through |
| `SameNext`, `NegativeLabel` | a case with a label like -1 is dropped |

The rows that name a property and an input are not runs of their own: the property fails
when the configuration of its module gives that input. The passing runs leave these
cases out, in a guard of the property (`Recolored`, `EntryRunsOnce`, `ScratchConflict`, the
parameters for which the temporary registers ran out, the slots that `IsFunction` counts)
or in their inputs, and say nothing about them; `hazards` in `PROJECT.json` has no
property for them or says which part is covered. `Termination` of `IRC` is checked on
graphs that are greedily colorable; that the loop does not end on others is what
`irc_spill` shows.

The deviations of the preprocessor and of the expression passes are listed with their
modules above.

## Not modelled

`PROJECT.json` lists every component with the reason. Syntax trees and printers
hold no decisions. The driver is input and output. The lexer and the parser have
the grammar as their specification, which is no smaller than they are. Of the
expression passes, literals of characters, strings and floating point are left out, and so
is the execution of floating point, whose operators the tables of `Cshmgen` have.
`switch.go` of Cminorgen is called by its tests only. `ExprRun` runs on the registers of
RTL: that the allocator hands out X8, which asmgen uses as a scratch register for
remainders and multiplications by constants, is not met there.

## Plan

In order of importance:

1. the machine code of a whole function: `ExprRun` on allocated registers and slots, with
   the scratch registers of asmgen and stacking;
2. statements and expressions in one run;
3. the precedence climbing of the parser against the grammar of expressions;
4. the chain of proofs of the back end as one theorem: from the analysis through the
   allocator to the allocated code, and from there to the linear code.
