----------------------------- MODULE ScalarPasses -----------------------------
(***************************************************************************)
(* The passes 0 to 2.5 of optimizePass, each an operator from code to code *)
(***************************************************************************)
EXTENDS Algebra, Propagation, SequencesExt

JumpTargets(ir) ==
  {ir[i].dest.name : i \in {j \in 1..Len(ir) : ir[j].op \in BranchOps /\ IsLabel(ir[j].dest)}}

-------------------------------------------------------------------------------
\* Pass 0: the sweeps, until the exit states are those of the sweep before,
\* then the rewriting.  names are those of locals and, written alike, globals.
\* (f @@ f is f; TLC computes it at once and not at every later use.)
StateNames(ir) == LocalsOf(ir) \union AllGlobals(ir) \union {NoName}

RECURSIVE SweepFrom(_, _, _, _)
SweepFrom(ir, out, state, i) ==
  IF i > Len(ir) THEN out
  ELSE LET entry == IF Starts(ir, i) THEN EntryState(ir, out, i) ELSE state
           exit  == Transfer(entry, ir[i], AllGlobals(ir)) @@ entry
       IN SweepFrom(ir, IF Ends(ir, i) THEN (i :> exit) @@ out ELSE out, exit, i + 1)

RECURSIVE Converged(_, _)
Converged(ir, out) ==
  LET next == SweepFrom(ir, out, << >>, 1) IN IF next = out THEN out ELSE Converged(ir, next)

RECURSIVE RewrittenFrom(_, _, _, _, _)
RewrittenFrom(ir, out, state, copies, i) ==
  IF i > Len(ir) THEN << >>
  ELSE LET s == IF Starts(ir, i) THEN EntryState(ir, out, i) ELSE state
           c == IF Starts(ir, i) THEN NoCopies(StateNames(ir)) ELSE copies
           new == Rewritten(s, c, ir[i], ir)
       IN << new >> \o RewrittenFrom(ir, out, Transfer(s, new, AllGlobals(ir)) @@ s,
                                     CopiesAfter(c, new, AllGlobals(ir)) @@ c, i + 1)

Propagated(ir) ==
  LET out == Converged(ir, [i \in 1..Len(ir) |-> NothingKnown(StateNames(ir))])
  IN RewrittenFrom(ir, out, << >>, << >>, 1)

-------------------------------------------------------------------------------
\* Pass 0bb: branches on constants, then the code that no path from the start
\* of its function reaches, then the labels that only those branches needed.
ConstantBranch(inst) == inst.op \in {"BEQZ", "BNEZ"} /\ IsImm(inst.src1)
TakenBranch(inst) == ConstantBranch(inst) /\ ((inst.op = "BEQZ") <=> (inst.src1.imm = 0))

BranchesFolded(ir) ==
  LET Fold(inst) == IF TakenBranch(inst) THEN Inst("BRANCH", inst.dest, None, None) ELSE inst
      Stays(inst) == ~ ConstantBranch(inst) \/ TakenBranch(inst)
  IN MapCode(SelectSeq(ir, Stays), Fold)

RECURSIVE ReachedFrom(_, _)
ReachedFrom(ir, seen) ==
  LET more == seen \union {j \in 1..Len(ir) : \E i \in seen : Flows(ir, i, j)}
  IN IF more = seen THEN seen ELSE ReachedFrom(ir, more)

Reachable(ir) == ReachedFrom(ir, {i \in 1..Len(ir) : ir[i].op = "FUNC_BEGIN"})

\* Only the global declarations are outside all functions.
Pruned(ir) ==
  LET reached == Reachable(ir)
      Stays(i) == i \in reached \/ ir[i].op \in {"FUNC_END", "GLOBAL_VAR_DECL"}
  IN Without(ir, {i \in 1..Len(ir) : ~ Stays(i)})

ConstantBranchesGone(ir) ==
  LET targets == {ir[i].dest.name : i \in {j \in 1..Len(ir) : ConstantBranch(ir[j])}}
      pruned  == Pruned(BranchesFolded(ir))
      Stays(inst) == inst.op = "LABEL" /\ inst.dest.name \in targets
                       => inst.dest.name \in JumpTargets(pruned)
  IN IF \E i \in 1..Len(ir) : ConstantBranch(ir[i]) THEN SelectSeq(pruned, Stays) ELSE ir

\* Pass 0bc: a jump to the next instruction goes, and its label with it when
\* nothing else jumps there.
EmptyJump(ir, i) ==
  i \in 1..(Len(ir) - 1) /\ ir[i].op = "BRANCH" /\ JumpsTo(ir, i, i + 1)

EmptyJumpsGone(ir) ==
  Without(ir, {i \in 1..Len(ir) :
                \/ EmptyJump(ir, i)
                \/ EmptyJump(ir, i - 1) /\ Cardinality(References(ir, ir[i].dest)) = 1})

-------------------------------------------------------------------------------
\* Pass 0c2: t = a + c1; d = t + c2 becomes d = a + (c1 + c2), if d is t or
\* nothing else uses t.  merged counts the uses of t that are gone already.
UseCount(ir, n) ==
  Cardinality({i \in 1..Len(ir) : Names(ir[i].src1, n)})
    + Cardinality({i \in 1..Len(ir) : Names(ir[i].src2, n)})
    + Cardinality({i \in 1..Len(ir) : ReadsDest(ir[i]) /\ Names(ir[i].dest, n)})

ChainAt(ir, i) ==
  /\ i + 1 <= Len(ir)
  /\ ir[i].op = "ADD" /\ IsImm(ir[i].src2)
  /\ IsLocal(ir[i].dest) /\ IsTempName(ir[i].dest.name)
  /\ ir[i + 1].op = "ADD" /\ IsImm(ir[i + 1].src2)
  /\ Names(ir[i + 1].src1, ir[i].dest.name)

RECURSIVE ChainsFrom(_, _, _)
ChainsFrom(ir, i, merged) ==
  IF i > Len(ir) THEN << >>
  ELSE LET t == ir[i].dest.name
           gone == Cardinality({j \in merged : ir[j].dest.name = t})
           sum == [ir[i] EXCEPT !.dest = ir[i + 1].dest,
                                !.src2 = Imm(Wrap(ir[i].src2.imm + ir[i + 1].src2.imm))]
       IN IF ChainAt(ir, i) /\ (ir[i + 1].dest = ir[i].dest \/ UseCount(ir, t) - gone = 1)
          THEN << sum >> \o ChainsFrom(ir, i + 2, merged \union {i})
          ELSE << ir[i] >> \o ChainsFrom(ir, i + 1, merged)

AddChainsMerged(ir) == ChainsFrom(ir, 1, {})

\* Pass 0d: x % c becomes x - x / c * c, except for a power of two.  The
\* new temporaries are numbered from temps on.
PowersOfTwo == {k \in 1..(Half - 1) : \E e \in 0..30 : k = 2^e}
LongRemainder(inst) ==
  /\ inst.op = "MOD" /\ IsImm(inst.src2)
  /\ inst.src2.imm \notin PowersOfTwo \union {-1, 0}

RemaindersSplit(ir, temps) ==
  LET before(i) == Cardinality({j \in 1..(i - 1) : LongRemainder(ir[j])})
      q(i) == Local(<<TempPrefix, temps + 2 * before(i)>>)
      m(i) == Local(<<TempPrefix, temps + 2 * before(i) + 1>>)
  IN FlattenSeq([i \in 1..Len(ir) |->
       IF ~ LongRemainder(ir[i]) THEN << ir[i] >>
       ELSE << Inst("DIV", q(i), ir[i].src1, ir[i].src2),
               Inst("MUL", m(i), q(i), ir[i].src2),
               Inst("SUB", ir[i].dest, ir[i].src1, m(i)) >>])

TempsSplit(ir) == 2 * Cardinality({i \in 1..Len(ir) : LongRemainder(ir[i])})

-------------------------------------------------------------------------------
\* Pass 1: t = a op b; x = t becomes x = a op b, if the uses of t are all
\* in the window behind it, where x still has the value; they become x.
MergeAt(ir, i) ==
  /\ i + 1 <= Len(ir)
  /\ ir[i].op \in CombinableOps /\ IsLocal(ir[i].dest)
  /\ ir[i + 1].op = "ASSIGN" /\ ir[i + 1].src1 = ir[i].dest
  /\ ir[i + 1].dest.name # ir[i].dest.name

MergeWindow(ir, i) ==
  LET tmp == ir[i].dest.name
      target == ir[i + 1].dest.name
      Stops(j) == ir[j].op \in BranchOps \union {"LABEL", "CALL"}
      Final(j) ==
        /\ ~ ReadsDest(ir[j])
        /\ ir[j].dest \in {Local(target), Global(target), Local(tmp)}
  IN {j \in (i + 2)..Len(ir) :
        /\ \A k \in (i + 2)..j : ~ Stops(k)
        /\ \A k \in (i + 2)..(j - 1) : ~ Final(k)}

\* The new operand is a local variable, whatever x is.
Renamed(inst, tmp, target) ==
  LET New(o) == IF Names(o, tmp) THEN Local(target) ELSE o
  IN [inst EXCEPT !.src1 = New(@), !.src2 = New(@),
                  !.dest = IF ReadsDest(inst) THEN New(@) ELSE @]

\* The uses were counted before the first merge.
RECURSIVE MergesFrom(_, _, _)
MergesFrom(ir, counted, i) ==
  IF i > Len(ir) THEN << >>
  ELSE LET tmp == ir[i].dest.name
           target == ir[i + 1].dest.name
           refs == {j \in MergeWindow(ir, i) : Uses(ir[j], tmp)}
           renamed == [j \in 1..Len(ir) |-> IF j \in refs THEN Renamed(ir[j], tmp, target) ELSE ir[j]]
       IN IF MergeAt(ir, i) /\ UseCount(counted, tmp) = Cardinality(refs) + 1
          THEN << [ir[i] EXCEPT !.dest = ir[i + 1].dest] >> \o MergesFrom(renamed, counted, i + 2)
          ELSE << ir[i] >> \o MergesFrom(ir, counted, i + 1)

AssignmentsMerged(ir) == MergesFrom(ir, ir, 1)

-------------------------------------------------------------------------------
\* Pass 1.5: inside a basic block a value computed before is copied from the
\* variable that has it.  values is valueMap, rename maps a temporary to the
\* variable that it copies.
CseBoundary ==
  BranchOps \union {"LABEL", "CALL", "LOAD", "STORE", "RETURN", "PARAM"}
Commutative == {"ADD", "MUL", "EQ", "NE"}

Plain(o) == IsLocal(o) \/ IsImm(o)
Cacheable(inst) ==
  /\ inst.op \in BinaryOps /\ IsLocal(inst.dest)
  /\ Plain(inst.src1) /\ Plain(inst.src2)
  /\ inst.dest \notin {inst.src1, inst.src2}

SameComputation(v, inst) ==
  /\ v.op = inst.op
  /\ \/ v.a = inst.src1 /\ v.b = inst.src2
     \/ v.op \in Commutative /\ v.a = inst.src2 /\ v.b = inst.src1

NothingComputed == [values |-> {}, rename |-> << >>]

\* Mutant: a value is still expected in a variable that got another one.
ForgetOperands(known, n) ==
  [values |-> {v \in known.values : ~ Names(v.a, n) /\ ~ Names(v.b, n)}, rename |-> known.rename]

\* invalidateVar.
Forget(known, n) ==
  [values |-> {v \in known.values : ~ Names(v.a, n) /\ ~ Names(v.b, n) /\ v.result # n},
   rename |-> [m \in {k \in DOMAIN known.rename : k # n /\ known.rename[k] # n} |-> known.rename[m]]]

\* What is known, and the instruction that takes the place of inst.
Reuse(known, inst) ==
  LET New(o) == IF IsLocal(o) /\ o.name \in DOMAIN known.rename THEN Local(known.rename[o.name]) ELSE o
      cur  == [inst EXCEPT !.src1 = New(@), !.src2 = New(@)]
      n    == cur.dest.name
      kept == IF WritesLocal(cur) THEN Forget(known, n) ELSE known
      hits == {v \in kept.values : SameComputation(v, cur)}
      had  == (CHOOSE v \in hits : TRUE).result
      more == [op |-> cur.op, a |-> cur.src1, b |-> cur.src2, result |-> n]
  IN IF ~ Cacheable(cur) THEN [known |-> kept, inst |-> cur]
     ELSE IF hits = {} THEN [known |-> [kept EXCEPT !.values = @ \union {more}], inst |-> cur]
     ELSE [known |-> IF IsTempName(n) THEN [kept EXCEPT !.rename = (n :> had) @@ @] ELSE kept,
           inst |-> Move(cur.dest, Local(had))]

RECURSIVE SharedFrom(_, _, _)
SharedFrom(ir, known, i) ==
  IF i > Len(ir) THEN << >>
  ELSE LET r == Reuse(IF ir[i].op \in CseBoundary THEN NothingComputed ELSE known, ir[i])
       IN << r.inst >> \o SharedFrom(ir, r.known, i + 1)

CommonSubexpressionsShared(ir) == SharedFrom(ir, NothingComputed, 1)

-------------------------------------------------------------------------------
\* Pass 2: what computes a value that no path reads any more goes.
LiveBehind(ir, live, i) == UNION {live[j] : j \in {k \in 1..Len(ir) : Flows(ir, i, k)}}

\* Mutant: what RETURN and PARAM read is not live.
LiveBeforeSources(ir, live, i) ==
  (LiveBehind(ir, live, i) \ (IF WritesLocal(ir[i]) THEN {ir[i].dest.name} ELSE {}))
    \union {n \in {ir[i].src1.name, ir[i].src2.name} : Names(ir[i].src1, n) \/ Names(ir[i].src2, n)}

LiveBefore(ir, live, i) ==
  (LiveBehind(ir, live, i) \ (IF WritesLocal(ir[i]) THEN {ir[i].dest.name} ELSE {}))
    \union {n \in {ir[i].src1.name, ir[i].src2.name, ir[i].dest.name} : Uses(ir[i], n)}

RECURSIVE Liveness(_, _)
Liveness(ir, live) ==
  LET next == [i \in 1..Len(ir) |-> LiveBefore(ir, live, i)]
  IN IF next = live THEN live ELSE Liveness(ir, next)

DeadCodeGone(ir) ==
  LET live == Liveness(ir, [i \in 1..Len(ir) |-> {}])
      Stays(i) == \/ ir[i].op \notin CombinableOps \union {"ASSIGN"}
                  \/ ~ IsLocal(ir[i].dest)
                  \/ ir[i].dest.name \in LiveBehind(ir, live, i)
  IN Without(ir, {i \in 1..Len(ir) : ~ Stays(i)})

-------------------------------------------------------------------------------
\* Pass 2.5: computations that no observable behaviour depends on go, also
\* those that only feed themselves or a branch around themselves.  A variable
\* is identified by its operand, wherever it is assigned.
VariablesOf(operands) == {o \in operands : IsLocal(o) \/ IsGlobal(o)}
SourceVariables(inst) == VariablesOf({inst.src1, inst.src2})

\* pureVariableDefinition.
Defines(inst) ==
  \/ VariablesOf({inst.dest}) # {} /\ inst.op \in CombinableOps \union {"ASSIGN"}
  \/ IsLocal(inst.dest) /\ inst.op = "LOCAL_VAR_DECL"

-------------------------------------------------------------------------------
\* structuredIfs: an if, or an if-else, that only computes and only jumps
\* forward inside itself, and that nothing else jumps into.
JoinOf(ir, b, e) ==
  LET ends == PlaceOf(ir, ir[e - 1].dest) IN
  IF e > b + 1 /\ ir[e - 1].op = "BRANCH" /\ \E k \in ends : k > e
  THEN CHOOSE k \in ends : TRUE ELSE e

StructuredIf(ir, b, j) ==
  /\ \A i \in (b + 1)..(j - 1) :
       \/ Defines(ir[i])
       \/ ir[i].op = "LABEL"
       \/ ir[i].op \in BranchOps /\ \E t \in PlaceOf(ir, ir[i].dest) : t \in (i + 1)..j
  /\ \A l \in (b + 1)..j : ir[l].op = "LABEL" => References(ir, ir[l].dest) \subseteq b..(j - 1)

\* From the branch to the join.
StructuredIfs(ir) ==
  {r \in {[branch |-> b, join |-> JoinOf(ir, b, e)] :
            <<b, e>> \in {<<b, e>> \in (1..Len(ir)) \X (1..Len(ir)) :
                            b < e /\ ir[b].op = "BEQZ" /\ e \in PlaceOf(ir, ir[b].dest)}} :
     StructuredIf(ir, r.branch, r.join)}

Tests(ir, r) == {i \in r.branch..(r.join - 1) : ir[i].op \in {"BEQZ", "BNEZ"}}
ConditionVariables(ir, r) == UNION {SourceVariables(ir[i]) : i \in Tests(ir, r)}
ControlledVariables(ir, r) == {ir[i].dest : i \in {k \in r.branch..r.join : Defines(ir[k])}}

-------------------------------------------------------------------------------
\* What an observable instruction reads is useful, and so is what a useful
\* variable is computed from, or decided by.
ObservedIn(inst) ==
  SourceVariables(inst) \union (IF ReadsDest(inst) THEN VariablesOf({inst.dest}) ELSE {})

Roots(ir, ifs) ==
  LET suppressed == UNION {Tests(ir, r) : r \in ifs}
  IN UNION {ObservedIn(ir[i]) : i \in {k \in 1..Len(ir) : ~ Defines(ir[k]) /\ k \notin suppressed}}

\* Mutant: the condition of an if is not what its assignments depend on.
DataDependencies(ir, ifs, useful) ==
  UNION {SourceVariables(ir[i]) : i \in {k \in 1..Len(ir) : Defines(ir[k]) /\ ir[k].dest \in useful}}

Dependencies(ir, ifs, useful) ==
  UNION {SourceVariables(ir[i]) : i \in {k \in 1..Len(ir) : Defines(ir[k]) /\ ir[k].dest \in useful}}
    \union UNION {ConditionVariables(ir, r) :
                    r \in {s \in ifs : ControlledVariables(ir, s) \cap useful # {}}}

RECURSIVE UsefulFrom(_, _, _)
UsefulFrom(ir, ifs, useful) ==
  LET more == useful \union Dependencies(ir, ifs, useful)
  IN IF more = useful THEN useful ELSE UsefulFrom(ir, ifs, more)

\* The dead ifs go as a whole, and so does what computes a useless variable;
\* declarations outside them stay.
UselessPlaces(ir, ifs, useful) ==
  LET dead == {r \in ifs : (ControlledVariables(ir, r) \union ConditionVariables(ir, r)) \cap useful = {}}
  IN UNION {r.branch..r.join : r \in dead}
       \union {i \in 1..Len(ir) : /\ VariablesOf({ir[i].dest}) \ useful # {}
                                  /\ ir[i].op \in CombinableOps \union {"ASSIGN"}}

UselessGone(ir) ==
  LET ifs == StructuredIfs(ir) IN Without(ir, UselessPlaces(ir, ifs, UsefulFrom(ir, ifs, Roots(ir, ifs))))
===============================================================================
