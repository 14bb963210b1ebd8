------------------------------- MODULE Optimizer ------------------------------
(***************************************************************************)
(* IRGenerator::generate behind the tree walk: inline, optimise, inline,   *)
(* optimise.  An optimizePass repeats its passes up to Pass 4, in order,   *)
(* while one of them says it changed something, at most MaxIterations      *)
(* times; the others follow once.  Of the passes that compute loops in     *)
(* closed form, all but 5.7 are modelled.                                  *)
(***************************************************************************)
EXTENDS LoopPasses, TempRecycling, CoupledLoops, Execution

CONSTANTS Sources,       \* what the tree walk may emit: code and counters
          MaxRounds,     \* bound of inlinePass, 64
          MaxIterations, \* bound of optimizePass, 8
          Inputs,        \* values that the checks give to parameters and globals
          Fuel           \* bound: a run of the source has 2^Fuel steps, of the code twice as many

VARIABLES
  code,      \* ir
  temps,     \* tempCounter
  labels,    \* labelCounter
  stage,     \* inline, optimise, inline, optimise, and 5 when all is over
  round,     \* rounds of this inlinePass, iterations of this optimizePass
  pass,      \* the pass of this iteration that is next
  changed,   \* a pass of this iteration has changed the code
  meaning    \* history: what the functions of the source compute

vars == <<code, temps, labels, stage, round, pass, changed, meaning>>

\* A function is called with any arguments, the globals have any values but
\* those that nobody writes.
Calls(ir) ==
  UNION {{[func |-> f, actuals |-> xs, globals |-> gs] :
            xs \in [1..Len(Formals(ir, f)) -> Inputs],
            gs \in {g \in [GlobalsOf(ir) -> Inputs \union {0}] :
                      \A n \in GlobalsOf(ir) :
                        ReadOnly(ir, n) => g[n] = InitialValue(ir, n)}} :
           f \in FunctionsOf(ir)}

Meaning(ir, calls, fresh) ==
  [c \in calls |-> Outcome(ir, c.func, c.actuals, c.globals, fresh, Fuel)]

Init ==
  \E s \in Sources :
    /\ code = s.code /\ temps = s.temps /\ labels = s.labels
    /\ stage = 1 /\ round = 0 /\ pass = 1 /\ changed = FALSE
    /\ meaning = Meaning(s.code, Calls(s.code), TRUE)

Inlining == stage \in {1, 3}
Optimising(p) == stage \in {2, 4} /\ pass = p

\* A round that expands something is followed by another one.
Inline ==
  /\ Inlining
  /\ \E next \in {InlineRound(code, temps, labels)} :
       code' = next.code /\ temps' = next.temps /\ labels' = next.labels
  /\ IF code' # code /\ round + 1 < MaxRounds
     THEN round' = round + 1 /\ UNCHANGED stage
     ELSE round' = 0 /\ stage' = stage + 1
  /\ UNCHANGED <<pass, changed, meaning>>

\* Pass number p rewrites the code.
Rewrite(p, new, said) ==
  /\ Optimising(p)
  /\ code' = new /\ changed' = (changed \/ said)
  /\ pass' = p + 1
  /\ UNCHANGED <<labels, stage, round, meaning>>

Apply(p, new) == Rewrite(p, new, new # code) /\ UNCHANGED temps

Propagate  == Apply(1, Propagated(code))
Fold       == Apply(2, MapCode(code, Folded))
Prune      == Apply(3, ConstantBranchesGone(code))
Unjump     == Apply(4, EmptyJumpsGone(code))
Simplify   == Apply(5, MapCode(code, Algebraic))
Chain      == Apply(6, AddChainsMerged(code))
Split      == Rewrite(7, RemaindersSplit(code, temps), TempsSplit(code) # 0)
                /\ temps' = temps + TempsSplit(code)
Merge      == Apply(8, AssignmentsMerged(code))
\* Renamed operands alone do not count as a change.
Share ==
  /\ \E new \in {CommonSubexpressionsShared(code)} :
       Rewrite(9, new, \E i \in 1..Len(code) : new[i].op # code[i].op)
  /\ UNCHANGED temps
Eliminate  == Apply(10, DeadCodeGone(code))

KeepUseful == Apply(11, UselessGone(code))
DropCalls  == Apply(12, IdleCallsGone(code))
MoveCalls  == Apply(13, CallsHoisted(code))
Invert ==
  /\ Optimising(14)
  /\ \E next \in {LoopsInverted(code, temps, labels)} :
       /\ code' = next.code /\ temps' = next.temps /\ labels' = next.labels
       /\ changed' = (changed \/ next.code # code)
  /\ pass' = 15
  /\ UNCHANGED <<stage, round, meaning>>
Hoist      == Apply(15, InvariantsHoisted(code))

Repeat ==
  /\ Optimising(16)
  /\ changed' = FALSE
  /\ IF changed /\ round + 1 < MaxIterations
     THEN round' = round + 1 /\ pass' = 1
     ELSE round' = 0 /\ pass' = 17
  /\ UNCHANGED <<code, temps, labels, stage, meaning>>

Tighten    == Apply(17, BreaksTightened(code))
RemoveIdle == Apply(18, IdleLoopsGone(code))
Recycle    == Apply(19, Recycled(code))
MoveGuards == Apply(20, GuardsHoisted(code))

SumRemainders ==
  \E next \in {RemaindersSummed(code, temps)} :
    Rewrite(21, next.code, next.code # code) /\ temps' = next.temps
Summarise ==
  \E next \in {LoopsSummarised(code, temps)} :
    Rewrite(22, next.code, next.code # code) /\ temps' = next.temps
SumPolynomials == Apply(23, PolynomialsSummed(code))
SumBuckets == Apply(24, BucketsSummed(code))
SumPeriods == Apply(25, PeriodsSummed(code))
SumOffsets ==
  \E next \in {OffsetsSummed(code, temps)} :
    Rewrite(26, next.code, next.code # code) /\ temps' = next.temps

SumFloors ==
  /\ Optimising(27)
  /\ \E next \in {FloorsSummed(code, temps, labels)} :
       /\ code' = next.code /\ temps' = next.temps /\ labels' = next.labels
       /\ changed' = (changed \/ next.code # code)
  /\ pass' = 28
  /\ UNCHANGED <<stage, round, meaning>>
SumRecurrences == Apply(28, RecurrencesSummed(code))
Sparsify ==
  \E next \in {LoopsSparsified(code, temps)} :
    Rewrite(29, next.code, next.code # code) /\ temps' = next.temps
FollowStates   == Apply(30, StatesFollowed(code))
FollowControls == Apply(31, ControlsFollowed(code))
\* Nobody asks again whether something changed; with words the code says no.
SumCoupled ==
  \E next \in {CoupledSummarised(code, temps)} :
    Rewrite(32, next.code, next.code # code) /\ temps' = next.temps
SumForked ==
  \E next \in {ForkedSummarised(code, temps)} :
    Rewrite(33, next.code, next.code # code) /\ temps' = next.temps
Evaluate == Apply(34, LoopsComputed(code))

Unroll ==
  /\ Optimising(35)
  /\ code' = LoopsUnrolled(code)
  /\ stage' = stage + 1 /\ pass' = 1 /\ changed' = FALSE
  /\ UNCHANGED <<temps, labels, round, meaning>>

Next ==
  \/ Inline
  \/ Propagate \/ Fold \/ Prune \/ Unjump \/ Simplify \/ Chain \/ Split
  \/ Merge \/ Share \/ Eliminate
  \/ KeepUseful \/ DropCalls \/ MoveCalls \/ Invert \/ Hoist \/ Repeat
  \/ Tighten \/ RemoveIdle \/ Recycle \/ MoveGuards
  \/ SumRemainders \/ Summarise \/ SumPolynomials
  \/ SumBuckets \/ SumPeriods \/ SumOffsets \/ SumFloors
  \/ SumRecurrences \/ Sparsify \/ FollowStates \/ FollowControls
  \/ SumCoupled \/ SumForked \/ Evaluate \/ Unroll

Spec == Init /\ [][Next]_vars

-------------------------------------------------------------------------------
\* What the code still reads: only these globals can be observed.
ReadGlobals(ir) ==
  {n \in GlobalsOf(ir) : \E i \in 1..Len(ir) : Global(n) \in ObservedIn(ir[i])}

Observed(outcome, seen) ==
  [outcome EXCEPT !.globals = [n \in DOMAIN @ |-> IF n \in seen THEN @[n] ELSE Undefined]]

\* Whenever a function of the source returns, the function that the passes
\* have made of it so far returns the same value and leaves the same values
\* in the globals that some function still reads.
MeaningKept ==
  \A c \in DOMAIN meaning :
    Implements(Outcome(code, c.func, c.actuals, c.globals, FALSE, Fuel + 1),
               Observed(meaning[c], ReadGlobals(code)))

\* A function whose calls may go because it surely halts does halt, on every
\* path through its loops (lines 2503 to 2700).
HaltingProven ==
  LET proven == PureTerminating(code) IN
  \A c \in DOMAIN meaning :
    c.func \in proven =>
      Outcome(code, c.func, c.actuals, c.globals, FALSE, Fuel + 1).status # "running"

\* A variable that a function reads is declared or assigned in it: merging,
\* renaming and expanding leave no dangling use (lines 303, 1950, 2125).
NoDanglingUse ==
  \A f \in FunctionsOf(code) :
    LET body == InBody(code, f)
        written == {code[j].dest : j \in {k \in body : WritesLocal(code[k])}}
    IN \A i \in body : {o \in ObservedIn(code[i]) : IsLocal(o)} \subseteq written

\* A jump names one label, in the same function; a call is preceded by its
\* PARAMs, in order, as the next round and the code generator expect.
WellFormed ==
  \A f \in FunctionsOf(code) : \A i \in InBody(code, f) :
    /\ code[i].op \in BranchOps =>
         \E j \in InBody(code, f) : PlaceOf(code, code[i].dest) = {j}
    /\ IsCall(code[i]) =>
         /\ ActualsInOrder(code, i)
         /\ Len(Actuals(code, i)) = Len(Formals(code, code[i].src1.name))
===============================================================================
