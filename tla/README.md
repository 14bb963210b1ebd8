# A TLA+ development of the ToyC compiler

ToyC-Compiler translates a C subset (`int`, `void`, `const`, functions, `if`,
`while`, short-circuit logic) from standard input to RV32 assembly on standard
output.  It is a sequential program: `main.cpp` runs the parser, the semantic
analysis, the IR generator with its two inlining and optimisation rounds, and
the code generator, one after the other.  What is hard in it is therefore not
concurrency.  It is that two walks over one tree must agree without sharing
their tables, that a dozen rewriting passes hand each other a program whose
invariants are nowhere written down, that a loop runs "until nothing changes",
and that closed formulas replace loops in 32-bit arithmetic.

## 1. Inventory

### 1.1 Components

| component | code | state it keeps | operations |
|---|---|---|---|
| driver | `main.cpp` | none | `compileSource`: parse, analyse, generate, emit; stops at the first stage that fails |
| parser | `parser_driver.cpp`, `toycc_parser.yy`, `toycc_lexer.l` | the AST being built, the first error | `parse`, `setError`, `lex` |
| symbol table | `symbol_table.h` | a stack of maps | `enterScope`, `exitScope`, `addSymbol`, `lookup`, `lookupCurrent`, `lookupFunction` |
| semantic analysis | `semantic_analyzer.cpp` | the symbol table, `whileDepth`, the current function, the errors | `collectGlobals`, `analyzeFuncDef`, `analyzeStmt`, `analyzeDecl`, `analyzeExpr`, `tryConstFold`; annotates the AST |
| IR generation | `ir_generator.cpp:23-624` | the code so far, counters for temporaries, labels and variables, `varScopeStack_`, `loopStack` | `genFuncDef`, `genDecl`, `genStmt`, `genExpr`, `genShortCircuit` |
| inliner | `ir_generator.cpp:715-1115` | the code | `inlinePass`, up to 64 rounds |
| scalar passes | `ir_generator.cpp:1117-2240` | the code, a `changed` flag | propagation, folding, branch pruning, algebra, merging, common subexpressions, dead code; up to 8 iterations |
| recurrence and call passes | `ir_generator.cpp:2242-2995` | the code | useless recurrences, pure call removal and hoisting |
| loop passes | `ir_generator.cpp:2997-3753`, `12006-12223` | the code | inversion, invariant motion, break guards, dead finite loops, unrolling |
| temporary recycling | `ir_generator.cpp:3755-3882` | the code | renames temporaries whose live ranges do not meet |
| loop summaries | `ir_generator.cpp:3884-12004` | the code | replace counted loops by closed forms (affine, polynomial, periodic, floor sums) |
| code generation | `code_generator.cpp` | the stack frame, the register map, the emitted text | frame analysis, register allocation, selection of instructions, peephole, tail calls, division by constants |

### 1.2 How they interact

The components are called once, in order, and pass whole values: source, AST,
annotated AST plus symbol table, IR, assembly.  Three contracts cross these
borders and are checked by no type:

* the IR generator walks the tree that the analysis has walked, with a scope
  stack of its own, and relies on the annotations for constants and globals;
* a pass may rely on what the earlier ones left (one definition of a
  temporary, labels that are unique, `RETURN` last) and on names whose spelling
  means something (`t7` is a temporary, `k3` a loop constant);
* the code generator relies on `PARAM`s that stand right before their `CALL`,
  and on facts about the range of variables that it derives again.

### 1.3 What makes each component correct

* symbol table: static scoping; a block never sees the names of a block that
  has been left.
* the two walks: a use of a name is the same declaration for both; two
  declarations never share storage; `break` and `continue` reach the innermost
  loop.
* analysis and IR generation together: an accepted program never comes to a
  name that stands for nothing or to a value that is none, and its code
  computes what the tree means, with the short-circuits of C and in one of the
  orders of evaluation that C allows.
* every pass: a function returns the same value and leaves the same globals as
  before, for every argument and every initial value of the globals; and the
  pass ends.
* code generation: the same between IR and machine, whatever registers the
  variables were given; the stack pointer is restored and aligned.

### 1.4 Hard behaviours

There are no threads, messages, timers or persistent state.  What a test
hardly reaches here:

* long sequences of legal declarations, blocks and loops after which one of two
  tables holds a name that the other has dropped;
* a fixpoint loop without a bound (`while (!converged)`, line 1387) whose
  transfer function decides whether the compiler ever ends;
* facts about a value - a constant, a copy, a common subexpression, an
  argument bound to a formal - used after an assignment or a call made them
  stale;
* passes that are right alone and wrong after another one has removed what they
  take for granted;
* arithmetic at the ends of the 32-bit range.

`PROJECT.json` lists each at its line, with the properties that watch it.

## 2. Plan

The order follows what the rest relies on.

| step | modules | state |
|---|---|---|
| 1 | `ScopeStack`, `LexicalEnv`, `Scoping`, `MCScoping`; `ScopingTheorems` | done, proved |
| 2 | `Words`, `IR`, `Algebra`, `Lowering`: the IR and the walk that emits it | done |
| 3 | `Propagation`, `ConstantPropagation`, `MCConstantPropagation`: Pass 0 step by step | done |
| 4 | `IRMachine`, `Execution`, `ScalarPasses`, `Inliner`, `Optimizer`, `MCOptimizer`: the pipeline up to Pass 2 | done |
| 5 | `Assembly`, `FrameAnalysis`, `Selection`, `CodeGenerator`, `TargetMachine`, `MCCodeGenerator`: from IR to text | done |
| 6 | `LoopShape`, `PureCalls`, `LoopPasses`, `TempRecycling`, `MCLoops`: the other passes behind Pass 2 in `Optimizer` | done |
| 7 | `LoopSummary`, `ClosedForms`, `QuotientSums`, `FloorSums`, `SignedRecurrences`, `StateLoops`, `CoupledLoops`, `MCSummaries`: loops computed in closed form | done |
| 8 | `PropagationTheorems`: typing of Pass 0, and `OperandsPreserved` when names are spelled apart | done, proved |
| 9 | `SemanticAnalysis`, `TreeMeaning`, `FrontEnd`, `MCFrontEnd`: analysis and generation against the meaning of the tree | done |
| 10 | `AllocationTheorems`: registers of the machine, shared only by values that are not needed together | done, proved |
| 11 | `SimulationTheorems`: Passes 0b and 0c keep the meaning of every program, and leave code | done, proved |
| 12 | `EncodingTheorems`: every line that is emitted can be assembled | done, proved |
| 13 | `InstructionTheorems`: the lines of an instruction compute its value, and implement the step of `IRMachine` | done, proved |

Abstract specifications: `LexicalEnv` (static scoping) for the symbol table;
`TreeMeaning` for analysis and generation together; for every pass, the meaning
that `IRMachine` gives the code it starts from; for code generation,
`IRMachine` again, with registers and memory below it.

The step-by-step modules (`Scoping`, `ConstantPropagation`, `CodeGenerator`) are
the ones meant for proofs and use no recursive operator.  The passes of `ScalarPasses`, the
inliner and the tree walk are recursive operators over code and are for TLC
only.  Passes 0b and 0c rewrite one instruction at a time and need no recursion;
they are in `Algebra`, and `SimulationTheorems` is about them.

## 3. The modules and the code

### 3.1 Scoping

`Scoping` runs the two walks side by side over one tree.  Its state is that of
`SymbolTable` (`scopes`), `SemanticAnalyzer` (`whileDepth`, and `accepted`, no
error so far) and `IRGenerator` (`varScopes`, `varCounter`, `labelCounter`,
`loopStack`), and of the walk itself: `nest`, the constructs that are open, and
`pending`, the declaration whose initialiser is being walked.  `irNameOf` is a
history of the IR names that the declarations were given.

An action is a construct: `EnterFunction`, `DeclareParam`, `EnterBody`,
`ExitFunction`, `EnterBlock`, `ExitBlock`, `EnterLoop`, `ExitLoop`,
`DeclareGlobal`, `DeclareConst`, `DeclareLocal`, `BeginInitialiser`,
`EndInitialiser`, and the refusals.  The tree is not a parameter: the walks may
meet any construct that the grammar allows next, so a run is a walk over some
tree and the runs are all of them.

`ScopeStack` has the operations of a stack of maps, shared by both.
`LexicalEnv` says what static scoping is, without a stack of maps: what is
visible, what belongs to the current block, and what was visible outside.
`StaticScoping` maps the symbol table to it.

### 3.2 The IR and the tree walk

`Words` is two's complement arithmetic of any width: TLC uses 4 and 16 values,
the compiler 2^32.  `IR` has operands and instructions; a spelling is a pair of
a prefix and a number, so that `t0` the temporary and `t0` the global are the
same spelling and differ in the operand type, as in `ir.h`.  `Lowering` is the
walk `genFuncDef`, `genDecl`, `genStmt`, `genExpr`, `genShortCircuit`, with the
folding on the way; `Algebra` has the identities that `genExpr` and Pass 0c
share.  The programs of the later runs are syntax trees, lowered by it: the
passes are only given code that the generator can emit.

### 3.3 The front end

`FrontEnd` is `compileSource` from the tree on, a global declaration at a time:
`CollectGlobal` is the first loop of `analyze`, which enters the functions;
`AnalyzeGlobal` the second, over all declarations; `Refuse` and `Accept` the
stop at errors; `GenerateGlobal` the walk that emits.  Its state is the symbol
table, the errors, the declarations annotated so far and the generator.

`SemanticAnalysis` is the walk of `SemanticAnalyzer` over a declaration, with
the symbol table as a `ScopeStack` of symbols.  The source writes annotations
into the tree; here the walk returns the annotated tree, and an annotation is
the node that the generator then walks: a number for a constant, a variable of
the function or of the program, a call with or without a value.  An error is
the kind of its message, and all errors of a program are compared, not only
whether there is one.

`TreeMeaning` is the specification: what the tree means in C, with
environments and a store, without a table and without code.  Operands and
arguments may be computed in any order, so a call has a set of outcomes.  An
outcome is *fine*, with a value and the globals; *anything*, where C leaves open
what happens (a division by zero, a branch on a variable without a value, a
run past the bound); or *wrong*, where the program should not have been
accepted.  Constants are substituted by `ConstFold` in the analysis and are
evaluated as expressions in the meaning.

The trees of `MCFrontEnd` were also given, as source text, to the built
compiler: it refuses the same ones, with the same errors, and its IR before
optimisation (`--emit-ir-raw`) is the model's, line for line.

### 3.4 Pass 0

`ConstantPropagation` handles one instruction in a step: `Sweep`, `SweepAgain`
and `StopSweeping` are the loop until convergence, `Rewrite` the pass over the
code.  Then a function is called (`Call`) and the original code runs
(`RunAssignment`, `RunCall`, `RunJump`, `RunOther`), with any arguments and
anything for what its calls return or store, while `OperandsPreserved` compares
what each original instruction reads with what the rewritten one would read.
`before` and `known` are histories; `in[k]` of the source is `before` at the
first instruction of block `k`.

`Propagation` has the lattice and the rules, which `ScalarPasses` uses too,
there run to the end as one operator.

### 3.5 The optimiser

`Optimizer` is `generate` behind the tree walk: `Inline` is a round of
`inlinePass`; `Propagate` to `Hoist` are the passes of an iteration of
`optimizePass`, `Repeat` ends the iteration, and `Tighten` to `Unroll` are the
passes that follow once.  Then comes the second inlining, and all of it again.
Each pass is an operator from code to code:

| module | passes | the code's name for it |
|---|---|---|
| `Inliner` | `InlineRound` | `inlinePass` |
| `ScalarPasses`, `Algebra` | 0 to 2.5 | propagation, folding, pruning, algebra, chains, merging, common subexpressions, dead code; what no observable instruction depends on, ifs included |
| `PureCalls` | 2.75, 2.76 | calls that are dropped (`pureTerminating`) or moved in front of a loop |
| `LoopPasses` | 3, 4, 4.25, 4.5, 5.4, 7 | inversion, invariants, breaks made into bounds, idle loops, guards, two rounds at a time |
| `TempRecycling` | 5 | names of temporaries used again |
| `ClosedForms` | 5.45, 5.55 | loops that count to a remainder of the counter around them; sums of polynomials |
| `LoopSummary` | 5.5, 6 | sums of linear expressions; loops that are constants |
| `QuotientSums` | 5.555, 5.56, 5.565 | sums of quotients, of what repeats with a remainder, of remainders of a shifted counter |
| `FloorSums` | 5.566 | sums of remainders of arithmetic progressions, from a table or by Euclid's loop |
| `SignedRecurrences` | 5.568, 5.569 | recurrences `acc = ((acc + p(i)) % m - i) % m` whose terms have one sign; loops that can be observed in one iteration only |
| `StateLoops` | 5.57, 5.575 | states that come again: one variable that is reduced, or all that the branches look at |
| `CoupledLoops` | 5.6, 5.7 | variables that are affine functions of each other: a power of the matrix of an iteration; two such bodies and a test of the counter: the product of their matrices in the order of the iterations |

Behind `MoveGuards` (5.4) come `SumRemainders` (5.45), `Summarise` (5.5),
`SumPolynomials` (5.55), `SumBuckets` (5.555), `SumPeriods` (5.56),
`SumOffsets` (5.565), `SumFloors` (5.566), `SumRecurrences` (5.568), `Sparsify`
(5.569), `FollowStates` (5.57), `FollowControls` (5.575), `SumCoupled` (5.6),
`SumForked` (5.7), `Evaluate` (6) and `Unroll` (7), in the code's order.  From how
many iterations on 5.568, 5.57 and 5.575 look at a loop (1024, 1000 and 16) are the
constants `RecurrenceTrips`, `StateTrips` and `ControlTrips`.  Pass 5.7 cuts the
iterations into runs, by period or by the bounds that a bisection finds, and
multiplies powers; the model multiplies the matrices of all iterations one by
one, which is the same product.
Where the code walks a hash table (the order of accumulators and of terms in
the summaries) the model takes a fixed order.  Otherwise what the passes leave
is what the compiler leaves: generated programs were given to the model and to
the compiler, and the IR compared.

`LoopShape` is what the loop passes ask of a loop: the form that inversion
leaves, a counter and its bound, the constant a variable has on entry, and
whether it is read behind the loop - which, as in the code, means further down
in the text.

`IRMachine` says what a step of the code computes (docs/middle-end-api.md,
section 3.3), `Execution` runs it to the end.  At
the start `meaning` is filled with the outcome of every function of the source
for every argument and global; `MeaningKept` runs the current code on the same
inputs after every step.  Pass 2.5 deletes assignments to globals that no
function reads any more, so globals are compared as long as one does.

A variable that was never assigned has the value `Undefined`.  Dividing by zero
or branching on `Undefined` has no meaning, and then the compiled code may do
anything.  A declaration without initialiser makes a variable undefined in the
source; in the compiled code it does nothing.

### 3.6 The code generator

`CodeGenerator` takes optimised IR and goes through `generate` function by
function.  `frame` is `frame_`: the registers of temporaries, other locals,
globals and hot constants, the spilled variables in the order of their slots,
and the registers to save.  `functions` are those that have no text yet, `queue`
what the stage at hand still has to place.  `PlaceTemp` gives one temporary its
register; `FindLive` is a round of the loop that computes `liveIn` and
`liveOut`, and `live` is the former; `BuildGraph`, once a round changes
nothing, computes the interference; `Colour` colours one local,
`OrderGlobals` and `PlaceGlobal` do the same for the globals of a leaf,
`Settle` gives out the constants, drafts the body and scans it for the
registers to save, and `Emit` writes the text and passes on to the next
function.  What depends on the order of a hash table - which copy partner is
asked first, globals of equal cost - is a nondeterministic choice.

`FrameAnalysis` is what the code finds out about a function, `Selection` the
lines for an instruction (`generateInstruction` and all it calls).  A line is a
record of opcode, registers, immediate and target; its layout is left out.
`Assembly` has the lines and `applyPeephole`, the pass over them.
`TargetMachine` is external to the compiler: what the RV32IM instructions that
are emitted do, the calling convention and the memory, over words of `2 * Half` values, with immediates of
`2 * ImmHalf` and a stack of `StackBytes`.  A call leaves anything it may
destroy in a value that is not a word, so that text which relies on it stops
instead of going on by luck.

The text that these modules give for the programs of the repository's tests was
compared with the compiler's own, from the same `--emit-ir`: line for line the
same, up to the order in which globals are loaded (a hash table) and the
multipliers of divisions (TLC's numbers do not hold 32-bit words).

`TextImplements` compares `IRMachine` with the text at the end, for every
function, argument and value of the global, and requires that the text restores
what belongs to its caller.

## 4. Runs

| run | what it asks | size |
|---|---|---|
| `scoping` | Do both walks resolve every name alike, give every declaration storage of its own and bind breaks to the innermost loop?  Is the symbol table static scoping? | every walk with 2 names, 3 open constructs, 3 declarations, 6 labels |
| `front_end` | Is a program that is accepted without a fault that the checks are for, in any order of evaluation?  Does its code do what the tree may do? | 1477 trees, of which 133 are refused; 16-valued words |
| `constants` | Does Pass 0 end, and keep what instructions read? | 192 programs, 4-valued words |
| `divergence` | Does it end when a loop swaps two variables? | violated, finding 1 |
| `optimiser` | Does the code mean the same after every pass and round?  Are all uses defined, labels unique, arguments in place? | 216 programs, 16-valued words |
| `loops` | The same for all passes behind Pass 2, and for calls that only the second inlining expands.  Does a function halt that is taken to? | 161 programs, 16-valued words |
| `hoisted_definition` | Does a variable keep its value when the loop that assigns it runs no iteration? | violated, finding 2 |
| `recycled_argument` | Does an argument keep its value when temporaries are renamed? | violated, finding 3 |
| `skipped_step` | Does a function halt that is taken to, when its loop has a `continue`? | violated, finding 4 |
| `summaries` | The same as `optimiser` for loops that Passes 5.566 to 5.7 compute | 30 programs, 64-valued words |
| `code_generator` | Does the text compute what the IR computes, and restore the caller's registers?  Are variables kept apart, registers saved, immediates in range? | 52 programs of three functions, 512-valued words |
| `machine_constants` | The same for every operator and every constant, on every value | 1513 functions, 64-valued words |

### 4.1 The properties

* `Agreement` - wherever a name may be used, except a variable's own name in
  its own initialiser, both tables name the same declaration.
* `IrNamesUnique` - no two declarations share an IR name.
* `BreakBindsInnermost` - `whileDepth`, `loopStack` and the loops that are open
  agree, up to the labels.
* `StaticScoping` - every step of the symbol table is a step of `LexicalEnv`.
* `AcceptedDoesNotGoWrong` - a program without an error never comes, for any
  arguments and in any order of evaluation, to a name that stands for nothing,
  to a value that is none, to a constant on the left of `=` or to a wrong number
  of arguments.
* `TreeImplemented` - a function of the code returns what the tree may return,
  and leaves the globals that the tree may leave, in one order of evaluation;
  globals start with the values of their initialisers.
* `OperandsPreserved` - on any path, whatever calls do, a rewritten operand has
  the value of the original one.
* `Converges` - the sweeps end.
* `MeaningKept` - where the source returns, the code of now returns the same
  and leaves the same globals.
* `NoDanglingUse` - what a function reads it also declares or assigns.
* `WellFormed` - a jump has one target, in its function; a call has its
  arguments right before it, in order and in full.
* `HaltingProven` - a function whose calls may be dropped, because it surely
  halts, does halt, whatever it is given.
* `TextImplements` - where a function of the IR returns, so does its text, with
  the same value and globals, and with the stack pointer and the saved
  registers as they were.
* `LiveValuesApart` - no line writes a register while it holds another value
  that is still needed.
* `SavedBeforeUse` - the registers that the text changes for its caller are
  among those that the prologue saves.
* `AllEncodable` - every immediate fits its instruction, and every line has the
  registers its opcode asks for.

Each has a mutant in `PROJECT.json`: a plausible slip in one definition that
makes TLC find the property violated.

### 4.2 The bounds, and why they are enough

* Scoping: a disagreement needs a name bound at two levels and a block that
  ends, so two names and three constructs; two names are interchangeable, which
  is what the symmetry says.  The proofs remove these bounds.
* Front end: a unit has a constant, a global, a function that changes the global
  and returns it or a constant, a void function that returns early, and a
  difference, whose two arguments tell orders apart; then eight binary operators
  on all pairs of ten operands (with calls, short-circuits and an assignment
  among them), pairs of eight statements as a body and inside a loop, and one
  error of each kind behind each statement, so that a table that a statement
  left wrong would be seen.  Two inputs, a negative and a positive one, take both
  sides of every condition.  `TreeFuel` = 20 rounds and calls and `Fuel` = 8 (256
  instructions) are more than any of these needs: an outcome past the bound would
  be *anything*, but a larger `TreeFuel` changes no outcome.
* Pass 0: the programs combine every two of eight statements in a loop and one
  of three after it: constants, copies, uses of both, a join, a call, globals
  written and not.  The lattice distinguishes only equal and unequal constants,
  so four values suffice for joins, and the tests see the wrap.
* Optimiser: all pairs of six statements in the callee times six callers.
  `Half` = 8 lets sums wrap and makes 3 a divisor that is no power of two.
  Every global and parameter takes a negative and a positive value, globals also
  0 (`Inputs`).  `Fuel` = 7 allows 128 steps of the source and 256 of the
  code; no loop of the family needs more.
* Loops: counters that go up, up to and including, down, and by two, to a
  constant and to `x`, times what an iteration may do: nine pieces alone, pairs
  of them, loops inside; sums in an inner loop whose start or step comes from
  the outer one; loops that are constants behind a condition of two operators; for each
  of the other summaries two to four loops, with sums that are subtracted,
  negative starts and divisors, and remainders of 2 and 3 - with words of 4 bits
  the sums wrap, and moduli above 3 would leave no room for more than one
  period;
  callers that ask for one result in every iteration or ignore it, of functions
  that recur, loop, or store.  Every action of `Next` that rewrites code does
  rewrite some.  `InlineLimit` and the limits for loops are 9 here, where the
  source has 24 and more, so that calls of functions of a dozen instructions
  are there for the call passes and for the second inlining; with the source's
  limits the same happens to bodies twice as long.
* `MaxRounds` and `MaxIterations` are those of the source.
* Summaries: three to five loops for each of the passes 5.566 to 5.7, so that
  each of their forms is written: a table and Euclid's loop, with factors that
  are variables; accumulators of both signs; work in front of the selected
  iteration, with branches; states with a lead-in, negative states and states
  that grow; matrices of words and of remainders, counters that step down, by
  two, in the middle of the body, or are global.  `Half` = 32 gives moduli of 3
  to 5 several periods in a loop.  `RecurrenceTrips`, `StateTrips` and
  `ControlTrips` are 5, 7 and 7, so that those loops run in `Fuel` = 7 (128
  steps).  The passes compare the number with the trips only, so it decides which
  loops are summarised and not what is written for them.

* Code generator: two argument, two saved and two temp registers, so that the
  third parameter comes on the stack and with three or four variables some
  spill and some share.  `ImmHalf` = 16 makes frames of six words larger than
  an immediate, so both forms of every access to the stack occur.  `Half` =
  256 leaves room for frames and makes 3, 5, 6, 11 and 40 constants of all the
  kinds that the selection distinguishes.  All pairs of seven pieces in a
  leaf that a caller jumps to, and over one leaf three more callers: calls in
  loops, a tail call of itself, values that live across calls.  The text of a
  function depends on no other function, so the pairs need one caller only.  `StackBytes` = 256 and `Fuel` = 8 (256
  steps of the IR, 1024 of the text) are enough for the recursion of the
  family; text that runs out of either would be found wrong, not passed over.
* Constants: with 64-valued words and 16-valued immediates every constant and
  every operand is tried, so the division by multiplication, the shifts, the
  comparisons at both ends and the windows of the peephole are exhaustive for
  that width.  The magic numbers are computed by the code's own loop, in the
  width at hand.

Deadlock is not checked in these runs: the walk, the pass and the pipeline end.

### 4.3 Fairness

`FairSpec` of `ConstantPropagation` has weak fairness of `Pass`, the steps of
the compiler.  The compiler is a sequential program and nothing can hold it up
between two instructions of a loop.  The running function has no fairness: a
ToyC program may loop for ever.

## 5. Findings

Each has a run that shows it.  Those about generated code were also seen in the
output of the built compiler.

1. `divergence` - The transfer function of Pass 0 makes a non-constant of an
   operand that is undetermined, so it is not monotone.  Two block states can
   then take turns for ever, and the compiler hangs on a legal program.
2. `hoisted_definition` - Pass 4 moves the only assignment of a user's variable
   in front of the loop.  The loop may run no iteration; behind it the variable
   has changed all the same.
3. `recycled_argument` - Pass 5 takes the operand of a `PARAM`, which is read,
   for one that is defined, and gives it the name that has just become free.
   Arguments of a call that are computed in another block, such as `x && y`,
   are passed wrong.
4. `skipped_step` - The proof that a function halts asks that every jump that
   stays in the loop stands in front of the step; a `continue` does, and jumps
   over it.  The call of such a function is dropped.

The programs of the passing runs stay clear of these and of the following,
which are of the same kinds and have no run of their own.  Each has a family of
programs; given to `Programs` or `Sources` in the configuration of a run of the
same module, with the constants that the table names, it violates the property.

| family | property | what happens |
|---|---|---|
| `OwnInitialiser` | `TreeImplemented` | in `int x = x + 1` that hides an `x`, the analysis takes the `x` of the initialiser for the outer variable and the generator for the inner one: one declares it after the initialiser (`semantic_analyzer.cpp:208`), the other before (`ir_generator.cpp:160`) |
| `AssignedThenCalled` | `TreeImplemented` | the value of `(g = p) + f(1)` is that of `g` after the call: an operand is a name and is read when the addition runs (`ir_generator.cpp:311`) |
| `VoidValue` | `AcceptedDoesNotGoWrong` | `x = v()` with a void `v` is accepted: `analyzeAssign` does not look at the type of the right side (`semantic_analyzer.cpp:275`), although an initialiser may not be void (line 213) |
| `VoidArgument`, `VoidCondition` | `AcceptedDoesNotGoWrong` | nor are the types of arguments and conditions looked at |
| `FunctionName` | `AcceptedDoesNotGoWrong` | the name of a function is an operand like that of a variable |
| `BareBranch` | `AcceptedDoesNotGoWrong` | a declaration that is a branch by itself is visible behind the `if`, in both walks |
| `SpellingPrograms` | `OperandsPreserved` | the states of Pass 0 are keyed by bare names: after an assignment to a global called `t0` the temporary `t0` is taken for it (`ir_generator.cpp:1320`) |
| `StoredResult` | `NoDanglingUse` | Pass 1 merges into globals too but renames later uses to a local of that name, which nobody defines (`ir_generator.cpp:2009`) |
| `GlobalArgument` | `MeaningKept` | a global passed by value is read by the expanded copy when it is used, not when the call is made (`ir_generator.cpp:1002`) |
| `PrunedReturn`, `InlineLimit` 5 | `MeaningKept` | once pruning has removed the default `RETURN`, the second inlining takes the last real one for it and drops it (`ir_generator.cpp:1046`) |
| `SharedLocal`, `InlineLimit` 5 | `MeaningKept` | variables that the callee declares keep their names in every copy; the result of one copy, passed to the next, is overwritten there (`ir_generator.cpp:1012`) |
| `InnerResult` | `MeaningKept` | Pass 4.5 looks for uses of what a loop writes in the text behind the loop; the next iteration of an outer loop reads it in front, and the loop goes (`ir_generator.cpp:3730`; the comment at 3452 promises that nothing it writes is used after it).  Passes 5.4, 5.5 and 6 look in the same way |
| `OtherBound` | `MeaningKept` | Pass 5.45 takes the last definition of the bound in the text for the only one (`ir_generator.cpp:4242`; the comment at 4049 says that the bound has been proved to lie below the modulus) |
| `SumInFront` | `MeaningKept` | and it looks for later uses of a sum behind the loop only (`ir_generator.cpp:4398`) |
| `StepFirst` | `MeaningKept` | Pass 5.565 recognises the instructions of a body but not their order; its formula takes the step of the counter for the last one (`ir_generator.cpp:6603`; the comment at 6645) |
| `StaleComparison` | `MeaningKept` | Pass 5.7 keeps what a temporary is as a value and as a truth in two tables and forgets neither when the other is written (`ir_generator.cpp:10908`, `10929`); temporaries have been recycled by then, so in `(i * 2 < 3) == 0` the right comparison is taken for `i * 2 == 0`, although the comment at 10777 says that the prefix has been proved to be that test |
| `EntryLoad` | `TextImplements` | a global gets the argument register of a formal that lives in a temp register, and is loaded at entry before the formal has been moved (`code_generator.cpp:811`) |
| `LargestImmediate` | `AllEncodable` | `x <= 2047` becomes `slti` with 2048, which does not assemble (`code_generator.cpp:2271`) |
| `IdleConstant` | `SavedBeforeUse` | a constant is loaded at entry into a saved register that the prologue has not saved, because no line of the body names it (`code_generator.cpp:1065`) |
| `UsedComparison` | `TextImplements` | the peephole makes one branch of a comparison and a branch, also when the result of the comparison is read later (`code_generator.cpp:1530`) |
| `FarBelow`, `Inputs <- Extremes` | `TextImplements` | `x >= 5` as the sign of `x - 5`, for the smallest `x` (`code_generator.cpp:1649`) |
| `SumThatWraps`, `Inputs <- Three` | `TextImplements` | a sum of two non-negative values is taken for non-negative, and divided by a shift (`code_generator.cpp:2567`) |
| `MiddleReadAbove` | `TextImplements` | the middle value of a chain `((x % m) + m) % m` is not computed, although the next iteration reads it (`code_generator.cpp:1132`) |
| `ChainOverT3`, `ArgRegs <- OneArgReg`, `SavedRegs <- NoRegs` | `TextImplements` | such a chain in which the remainders have been split is emitted as a remainder (`code_generator.cpp:1164`), whose magic multiplication keeps the dividend in `t3` (`1863`).  A function without a direct `MOD` gives `t3` away, to a temporary or to a constant (`507`, `852`); the value in it is lost.  The comment at 868 says that only a direct `MOD` uses `t3` |

Of the loop passes the following was seen in the source and in the compiler's
output, and has no family: Pass 4 hoists an assignment of a variable that the
condition of the loop reads, and the read of a global past a call that writes
it; Pass 5 renames what a `RETURN` reads as it does for a `PARAM`; Pass 6
ignores what a condition says besides its comparison, leaves the bound in the
counter also after `<=`, and counts trips in 32 bits; Pass 5.565 sums a
remainder that is added in front of its own definition as if it were added
behind, takes `i = i + 5` for an addition to the sum when the offset is 5, and
takes a sum or a product of values that are not negative for one that is not,
which fails when it wraps.  Of the later summaries:

* 5.566 drops a global that the loop writes besides the sum when no line below
  reads it, and takes a numerator with a variable that the body writes
  (`s = s + (i + n) % 3; n = n + 2`) for one that does not change;
* 5.566 and 5.575 take the last constant assignment in the text for the initial
  value, whatever joins in between: after `int s = 0; if (x) { s = 1; }` a loop
  over `s` starts with 1 also for `x` = 0 (`ir_generator.cpp:6880`, `9193`);
* 5.568 judges the sign of the whole increment (`ir_generator.cpp:8085`); when
  the increment is written with an inner remainder, that remainder may drop the
  large part before the counter is subtracted, and the value passes below zero
  although every increment is positive:
  `acc = ((acc + 2000 + i % 3) % 5000 - i) % 5000` ends with -851 after 1028
  iterations, and the formula gives 4149 (the comment at 7440 excludes sums that
  may cross zero);
* 5.575 does not count the counter among what the branches look at:
  `if (s) { s = 0; } else { s = i > 9; }` is taken to repeat at once, against
  the comment at 9098;
* 5.6 judges the sign of a dividend by its coefficients at the start of the
  iteration, where a term may have been reduced since: `t = (a * 3) % 5;
  a = (t - a) % 5` from 3 gives 4 for -1 after 11 iterations
  (`ir_generator.cpp:9957`).

So `Agreement` leaves out the pending name, and no program of `front_end`
initialises a variable with one that it hides; the programs of `constants` have
no variable without initialiser and no global spelled like a temporary; those of
`optimiser` pass no global to a function that writes it and do not store a
result in a global that a later expression uses.  In those of `loops` no
assignment is the first and only one of its variable and invariant, inner
loops are read behind themselves only, arguments of calls that stay are
computed where they are passed, no `continue` passes a step, and counters of
sums of remainders step last.  In those of `summaries` every variable of the
loop has one initial value, branches of seven or more iterations look at states
and not at the counter, a test does not compute with a comparison of a multiple of
the counter, the one global that changes is read behind the loop, and no
accumulator, dividend or term changes its sign against what its pass assumes.  The
programs of `code_generator` branch on temporaries that nothing else reads and add
small constants only; those of `machine_constants` leave out the two constants of
`LargestImmediate` (`OutOfRange`), and `>=` as a branch.

## 6. Proofs

`ScopingTheorems` proves, for any set of names and any bounds,

| theorem | statement |
|---|---|
| `TypeCorrect` | `Spec => []TypeOK` |
| `ResolutionAgrees` | `Spec => []Agreement` |
| `UniqueNames` | `Spec => []IrNamesUnique` |
| `BreaksBind` | `Spec => []BreakBindsInnermost` |
| `ImplementsStaticScoping` | `Spec => StaticScoping` |

The assumptions are those of `Scoping`: `NoName` is not a name and the bounds
are natural numbers.  Since the bounds are arbitrary the theorems hold for
programs of any size.  The module starts with lemmas about a stack of maps: what
`Find` returns (the innermost level that binds the name), that it looks only at
the levels it is given, and what pushing, popping and binding do.

The argument is the invariant `Inductive` = `TablesInv` /\ `NestInv`.
`Agreement` is not inductive: it says what two look-ups return, and leaving a
block uncovers levels it said nothing about.  `TablesMatch` therefore relates
the two stacks level by level; `PendingIsBound` says what the one exception,
the variable whose initialiser is being walked, looks like in both;
`NumbersUsed` bounds the numbers given out, which is why a new IR name is new.
`NestShape` ties the open constructs to the depth of the stacks and to the
number of loops, so that leaving a construct restores what entering it found.
There is one lemma per kind of step (`DeclareBoth`, `EnterBoth`, `LeaveBoth`,
`LoopEntered`, ...), `InductiveStep` goes through the actions, and
`InductiveAgreement` derives the look-ups from the levels.  The refinement
shows for each of `enterScope`, `exitScope` and `addSymbol` that the mapped
step is the abstract one.

`PropagationTheorems` is about Pass 0, for any programs, names and word size:

| theorem | statement |
|---|---|
| `TypeCorrect` | `Spec => []TypeOK` |
| `OperandsKept` | `(\A ir \in Programs : SpeltApart(ir)) => (Spec => []OperandsPreserved)` |

The assumptions are those of `Words`, `Propagation` and `ConstantPropagation`: a
word has at least four values, `Undefined` is none of them, and a program is a
sequence of instructions that declares the globals it names.  `SpeltApart` says
that no local is spelled like a global.  It is a hypothesis and no assumption
because the compiler does not see to it: the pass keys its tables by bare names,
and `SpellingPrograms` is what happens without it.

`OperandsPreserved` speaks of the running function only, so `Inductive` has a
part for each phase.  While the pass sweeps, `Follows` says that the state in
front of an instruction follows from the one before it, and `Joined` that the
state at the start of a block is the meet of those at the ends of its
predecessors, as far as this sweep has changed nothing.  When a sweep changes
nothing the two together are the fixpoint.  `Rewrote` says the same of the
states and copies under which instructions were rewritten - the rewrite goes
through the transfer function with the *rewritten* instruction, so those states
need not be those of the sweep, and both are carried along.  While the function
runs, `Sound` says that the variables have the values that the states claim,
`CopiesTrue` that a copy has the value of its origin, and `GlobalsKept` that a
global which nobody writes has its initial value.  `OperandKept` derives from these
that a replaced operand is read with the same value; `AssignmentSound` and
`CallSound` that an instruction makes the state behind it true; and `Arrives`
that this state implies the one at the next instruction, across an edge of the
flow graph too.  The proof does not use that the sweeps end: what holds
whenever they do is enough.

`AllocationTheorems` is about `CodeGenerator`, for any programs, any registers
and any word size:

| theorem | statement |
|---|---|
| `TypeCorrect` | `Spec => []TypeOK` |
| `ValuesApart` | `Spec => []LiveValuesApart` |

Two assumptions of `CodeGenerator` are used.  `RegistersApart`: there is an
argument register and a temp register, argument registers differ, so do temp
registers, no temp register is an argument or a saved one, and none of them is
a scratch register, `sp`, `s0`, `ra` or `x0`, as in the lists of
`code_generator.cpp`.
`ProgramsAreCode`: a program is a sequence of instructions in which a function
that begins also ends, and labels read nothing; `genFuncDef` emits the
former, and `LABEL` is given a target only.

`LiveValuesApart` says at the end that four allocators, each of which knows a
different thing, do not get in each other's way.  Temporaries are placed by the
text, by ranges from a definition to a last use that no bound of a block
interrupts; the other locals by liveness, with the temporaries left out of the
graph; globals and constants get what is left.  So `Inductive` says of each
stage what it knows.  `TempsInv`: temporaries in one register have ranges
that do not overlap, and none is in `t3` where a remainder needs it.  `GraphInv`: the graph was built from a fixpoint of the rounds,
and neighbours have different registers; `InterferenceShape` is the lemma that
the graph has an edge wherever a line writes one variable while another is
live, unless it copies it.  `GlobalsInv` and `ConstantsInv`: a register of a
global is no local's and no other global's, one of a constant is nobody's - also
`t3`, which a constant may get in a leaf although temporaries use it, but not
where a remainder needs it.  What joins the two
notions is `LivenessInv`: wherever a round of the liveness analysis has found a
candidate live, it is inside one of its ranges.  This holds in every round and not only at the
fixpoint, which is why it is an invariant: `RangeGoesOn` goes back over one
edge of the flow graph, and an edge that is a jump ends at a label, where no
candidate is in a range.  Then a temporary that is live behind a line that
writes another one is in a range which overlaps the other's.  TLC checked
`Inductive` on the programs of `code_generator` before it was proved.

`EncodingTheorems` is about `CodeGenerator` too, for any programs, registers,
immediates, and words of 6 to 32 bits:

| theorem | statement |
|---|---|
| `TextEncodable` | `Spec /\ AllTranslatable(ir) => []AllEncodable` |

`AllTranslatable` is what it asks of the code: constants and the numbers of
arguments are words; no `DIV` or `MOD` by 1, which Pass 0c removes
(`ir_generator.cpp:1827`, `1839`); and neither of the two constants that the generator
gets wrong: for `x <= 2047` it emits an immediate of 2048
(`LargestImmediate`), and for `x - -2048` as well (`code_generator.cpp:2045`).  It
is a hypothesis and no assumption, because source programs with these two
exist; `MCCodeGenerator` assumes it of the programs of its runs, so TLC checks it
there.  Division by 1 is in it because the test for a power of two comes first
in the code, and would emit a shift by 32; the branch for 1 below it is
never reached.  The other assumption that this proof needs is `RegistersReach`: `t3`
is the first register for temporaries (the selection names it), immediates are
words, and the places of the saved registers are immediates.

Here the text matters, and its three layers are proved one after the other.  The
selection: `MagicShift` shows that the multiplier search of a division by a
constant stops with a shift that a word allows, for every divisor it
is used for, and `MulText`, `DivText`, `ModText` and `CompareText` that every
other shift and immediate fits.  The peephole (`PeepholeText`): each
window replaces lines by lines that can be assembled, among them an `addi`
with a negated constant.  The frame (`PrologueText`, `LeaveText`): a frame that is
larger than an immediate goes through `t2`.  `LinesText` puts the selected
lines together.  What is written line after line is a recursive function of the
place, in the selection as in the peephole; induction is out of reach of the
prover, so `PiecedExists` shows that such a function exists and `PiecedText`
that it has no last place with a bad line.  The invariant `EncodingInv` adds to
that of `AllocationTheorems` that the text so far can be assembled, that constants
are given registers of the machine, and that no more is saved than there are
saved registers (`InOrderList`), which bounds where they are saved.

`InstructionTheorems` says what the lines of an instruction compute, for any
registers, immediates, and words of 6 to 32 bits:

| theorem | statement |
|---|---|
| `InstructionExact` | from words in registers or memory, the lines of an instruction that computes leave its value in its dest, fault nowhere, and change nothing else but scratch registers, and `t3` for a remainder of a value in memory |
| `StepImplemented` | where the machine has the values of the code's variables, it has those after the step of `IRMachine` behind the lines; places that the lines write apart |
| `FramesFit` | `Spec => []FrameFits`: every frame that text is made with is one that the former two ask for |
| `StepsImplemented` | `Spec => []LinesImplementSteps`: so whatever is needed after a step is there behind its lines |

The first two are about any frame, the last two about the frames of
`CodeGenerator`, whatever its programs.  The assumptions are those of the two
modules above, with those of `Words` and that `Undefined` is no word.  An instruction computes (`Computes`)
when its value depends on its operands only: arithmetic, comparisons, `NOT`,
assignments and initialisations.  `Prepared` is where
`StepsImplemented` starts, and each part of it is something the rest of the code provides or the
source means: the instruction is `Translatable`, as above; its operands have
values, and a divisor is not 0 (`Meaningful`); what the sign analysis concludes
of a dividend is so (`SignKnown`; `SumThatWraps` shows that the code's may be
wrong, which is why it is a hypothesis); constants with a register are in it; and
variables without one have places of their own that addresses
reach (`HasPlace`, `PlacesApart`), as the prologue and the data section lay them
out.  TLC put machines with three values for the dividend and three for the rest in front of every
instruction of `code_generator`: some six thousand were `Prepared`, and
each of them came out as `Follows` says.

The argument goes up in five steps.

* Division by a constant is a multiplication with a magic number and a shift
  (`emitMagicDiv`).  `StandsFor` is the invariant of the search that
  `computeSignedDivMagic` makes, quotients and remainders of a growing power of two, modulo the
  word where the code's integers wrap; from its exit condition follows that the
  high half of the product, shifted and corrected by the sign, is C's
  quotient for every word (`MagicIsExact`).
* `Leads` runs lines one after the other, `Turns` adds what they
  leave alone, `Yields` and `Leaves` what they leave in a register or a cell.
  They compose (`TurnsOn`, `YieldsOn`, `LeavesOn`), so lists of lines are put
  together without induction.
* A constant may be in a register or has to be built; an operand in a register, in a
  slot near or far from `s0`, or at a symbol.
* Each operation in each of its forms: `SourcesLines` and the comparisons
  have the immediate forms, powers of two, multiplication by shifts and sums,
  signed rounding, remainders by magic division and by a mask, and the
  order in which scratch registers are overwritten.
* `InstructionExact` joins them.  `StepImplemented` says it of `IRMachine`.

What an instruction overwrites besides its dest are variables in the same
register.  That none of them is needed any more is `LiveValuesApart`, which
`AllocationTheorems` proves; `NeededIsKept` derives it, with the one exception
that a copy may share a register with its source and then has the same value.  `FramesFit`
says that no value is in a register that a line uses on its own account:
here the strengthened invariants of the allocators are needed, and
that `t3` is spared in a function with a `MOD`.

Outside: labels, branches, calls, parameters and returns, prologue and epilogue;
the stages that see several lines - fused chains (`ChainOverT3` is why),
compare-and-branch, the peephole; and instructions that read a
variable without a value, which `IRMachine` lets go on.  `TextImplements`
checks all of them on the instances.

`SimulationTheorems` is about Passes 0b (`Folded`) and 0c (`Algebraic`), for any
code, any inputs and any word size:

| theorem | statement |
|---|---|
| `RewritingKeepsMeaning` | `Spec => []MeaningKept` |
| `RewritingGivesCode` | what the passes make of code is code |

`Spec` is in the module itself.  It runs the code in front of the pass and the code
behind it side by side on `IRMachine`, from the same function, arguments and
globals, an instruction each in every step.  The source decides freely whether a declaration
leaves a variable without a value; the rewritten code does nothing there, as
in `Execution`.  `MeaningKept` says that, as long as the source
has a meaning, both end together, and then the one `Implements` the other,
the operator that `Optimizer` uses too.  Runs that do not end are covered:
neither machine ends before the other.

`IsCode` is what `Init` asks of the code: constants are words, globals are
declared, the last instruction ends a function or declares a global, and every branch has its
one label and every call its one function.  `genFuncDef`, `freshLabel` and
the analysis see to that, and `RewritingGivesCode` is why the passes may be applied
again and again.  `FindsArgument` is the guard of a step: there is an argument for
a parameter that is read; the analysis compares the counts.  The
assumptions on constants are those of `Words` and that `Undefined` is no word.

The two machines need not be equal.  `x - x` is 0 for the compiler also where
`x` was never assigned.  So the invariant `Inductive` says of every place
that keeps a value - locals, arguments, pending arguments, the functions that
wait for a call, globals, the result - that the source has none there or both have
the same (`Covers`), and that the two are at the same instruction.  `EffectCovered` is the
heart of it: an instruction or what replaces it, on operands that are covered,
gives a result that is covered, unless the original has no meaning.  It rests on `NeutralIsRight`
(`x + 0`, `x * 1`, `x / x` and the like, in wrapping arithmetic) and
`NegationIsRight` (`x * -1` becomes `0 - x`, which agree on `INT_MIN`).
`0 / x` and `x / x` may become constants because with `x = 0` the
original means nothing.
Then there is one lemma per kind of step (`AdvancesKeep`, `JumpsKeep`, `EntersKeep`,
`ReturnsKeep`, ...), and `StepKeeps` goes through the instructions.  TLC checked
`Inductive` before it was proved, on small code with every operation and every
pair of operands (243023 states).

The lemmas about machine integers that these modules share (`ComputeIsWord`,
`DivisionIsInt`, `KnownQuotients`, ...) are in `Words`.

## 7. What is only model-checked, and what is not modelled

Only model-checked: that the sweeps of Pass 0 end, which is a liveness property;
the front end, the optimiser apart from Passes 0, 0b and 0c, and of the code
generator what the text as a whole computes, `TextImplements`.  The lines of single
instructions are proved; runs of whole functions cross jumps and calls.  The analysis, the tree walk, the other passes, the
inliner and the machines' runs are recursive operators, about which the prover
cannot reason.  `MeaningKept` of `Optimizer` compares such runs, so no theorem
states it for the pipeline, also where a pass of it is proved.
`SavedBeforeUse` has no theorem because it does not hold of all programs:
`IdleConstant` violates it.  Which programs do depends on what the peephole
leaves of the body, so a hypothesis in the manner of `AllTranslatable` would
repeat the pass.

Not modelled:

* the parser and lexer, which are generated; of the driver the options, files
  and printing;
* `isConstExpr` of the analysis, which nothing calls, and the wording and places
  of its messages;
* of the code generator: directives and the data section, `generateDefaultMain`,
  which nothing calls, `LOAD` and `STORE`, which no stage emits;
* a trap of the compiler itself: `INT_MIN / -1` among constants, in `tryConstFold`
  as in the folding of the generator, stops it.  The models wrap there; a
  compiler that stops has no output to be wrong;
* the order in which C++ evaluates arguments, on which only the numbers of
  temporaries in an expanded copy depend.
