------------------------------- MODULE LoopPasses -----------------------------
(***************************************************************************)
(* Passes 3 to 4.5: loops are inverted, what does not change in a loop     *)
(* moves in front of it, a leading break tightens the bound, and loops     *)
(* whose results nobody reads go.  Pass 7: a loop that is still there does *)
(* two rounds per branch.                                                  *)
(***************************************************************************)
EXTENDS PureCalls, ScalarPasses

-------------------------------------------------------------------------------
\* Pass 3.  LABEL c; condition; BEQZ e; [LABEL b;] body; BRANCH c; LABEL e.
ConstantPrefix == "k"

\* The jump at the end of the loop with its condition at c and its branch out
\* at j: a set of at most one place.
LoopTail(ir, c, j) ==
  {k \in (j + 1)..(Len(ir) - 1) :
     /\ ir[k].op = "BRANCH" /\ ir[k].dest = ir[c].dest
     /\ ir[k + 1].op = "LABEL" /\ ir[k + 1].dest = ir[j].dest}

\* x = v - x; and the comparisons whose constant moves in front of the loop,
\* but for the signs and zero tests that one branch does.
ReverseSub(inst) ==
  inst.op = "SUB" /\ IsImm(inst.src1) /\ IsLocal(inst.dest) /\ inst.src2 = inst.dest

DirectBranch(inst, reversed) ==
  inst.op \in {"LT", "GE"} /\ inst.src2.imm \in {0, 1} \ reversed

Shareable(inst, reversed) ==
  inst.op \in Comparisons /\ IsImm(inst.src2) /\ ~ DirectBranch(inst, reversed)

\* The constants of the body, then those of the condition, in order.
SharedConstants(body, condition) ==
  LET reversed == {body[k].src1.imm : k \in {m \in 1..Len(body) : ReverseSub(body[m])}}
      Shared(inst) == Shareable(inst, reversed)
      found == SelectSeq(body \o condition, Shared)
      First(k) == \A m \in 1..(k - 1) : found[m].src2 # found[k].src2
      firsts == SelectSeq(Places(found), First)
  IN [reversed |-> reversed, values |-> [k \in 1..Len(firsts) |-> found[firsts[k]].src2]]

\* The values have the names k<temps>, k<temps + 1>, ...
ConstantName(shared, o, temps) ==
  Local(<<ConstantPrefix, temps + PositionIn(shared.values, o) - 1>>)


ComparisonsNamed(code, shared, temps) ==
  LET New(inst) == IF Shareable(inst, shared.reversed)
                   THEN [inst EXCEPT !.src2 = ConstantName(shared, @, temps)] ELSE inst
  IN MapCode(code, New)

SubtractionsNamed(code, shared, temps) ==
  LET Known(o) == \E k \in 1..Len(shared.values) : shared.values[k] = o
      New(inst) == IF ReverseSub(inst) /\ Known(inst.src1)
                   THEN [inst EXCEPT !.src1 = ConstantName(shared, @, temps)] ELSE inst
  IN MapCode(code, New)

\* Mutant: the constants are not assigned in front of the loop.
InvertedBare(ir, c, j, back, bodyLabel, shared, temps) ==
  LET entry == IF ir[j + 1].op = "LABEL" THEN << >> ELSE << Inst("LABEL", bodyLabel, None, None) >>
  IN << Inst("BRANCH", ir[c].dest, None, None) >> \o entry
       \o ComparisonsNamed(SubSeq(ir, j + 1, back - 1), shared, temps)
       \o << Inst("LABEL", ir[c].dest, None, None) >>
       \o ComparisonsNamed(SubSeq(ir, c + 1, j - 1), shared, temps)
       \o << [ir[j] EXCEPT !.op = "BNEZ", !.dest = bodyLabel] >>

Inverted(ir, c, j, back, bodyLabel, shared, temps) ==
  LET body == SubSeq(ir, j + 1, back - 1)
      entry == IF ir[j + 1].op = "LABEL" THEN << >> ELSE << Inst("LABEL", bodyLabel, None, None) >>
  IN [k \in 1..Len(shared.values) |->
        Move(ConstantName(shared, shared.values[k], temps), shared.values[k])]
       \o << Inst("BRANCH", ir[c].dest, None, None) >> \o entry
       \o SubtractionsNamed(ComparisonsNamed(body, shared, temps), shared, temps)
       \o << Inst("LABEL", ir[c].dest, None, None) >>
       \o ComparisonsNamed(SubSeq(ir, c + 1, j - 1), shared, temps)
       \o << [ir[j] EXCEPT !.op = "BNEZ", !.dest = bodyLabel] >>

\* From instruction i on.  A label is numbered for every candidate without
\* one, whether it is inverted or not.
RECURSIVE InvertFrom(_, _, _, _, _)
InvertFrom(ir, i, out, temps, labels) ==
  IF i > Len(ir) THEN [code |-> out, temps |-> temps, labels |-> labels]
  ELSE
    LET j == BranchBehind(ir, i)
        candidate == ir[i].op = "LABEL" /\ i + 2 <= Len(ir) /\ j < Len(ir) /\ ir[j].op = "BEQZ"
        labelled == ir[j + 1].op = "LABEL"
        bodyLabel == IF labelled THEN ir[j + 1].dest ELSE Label(<<"L", labels>>)
        used == IF candidate /\ ~ labelled THEN labels + 1 ELSE labels
        tails == LoopTail(ir, i, j)
        back == CHOOSE k \in tails : TRUE
        shared == SharedConstants(SubSeq(ir, j + 1, back - 1), SubSeq(ir, i + 1, j - 1))
    IN IF candidate /\ tails # {}
       THEN InvertFrom(ir, back + 1, out \o Inverted(ir, i, j, back, bodyLabel, shared, temps),
                       temps + Len(shared.values), used)
       ELSE InvertFrom(ir, i + 1, Append(out, ir[i]), temps, used)

LoopsInverted(ir, temps, labels) == InvertFrom(ir, 1, << >>, temps, labels)

-------------------------------------------------------------------------------
\* Pass 4.  A computation of the body moves in front of the first jump if its
\* operands do not change in the loop and nothing else in it writes its dest.
\* That of a user's variable must also be on every path, in front of which the
\* body does not read the variable.
Controls == BranchOps \union {"LABEL", "CALL", "LOAD", "STORE", "RETURN", "PARAM"}
Hoistable == (BinaryOps \ {"DIV", "MOD"}) \union {"NOT"}

\* Mutant: what the loop assigns may be read as well in front of it.
UnchangedInText(ir, from, to, o) ==
  \/ IsImm(o) \/ IsLocal(o)
  \/ IsGlobal(o) /\ \A k \in from..to : ir[k].dest # o

UnchangedBetween(ir, from, to, o) ==
  \/ IsImm(o)
  \/ (IsLocal(o) \/ IsGlobal(o)) /\ \A k \in from..to : ir[k].dest # o

InvariantAt(ir, i, loop, k) ==
  LET inst == ir[k] IN
  /\ \/ inst.op \in Hoistable
     \/ inst.op = "ASSIGN" /\ IsTempName(inst.dest.name)
  /\ IsLocal(inst.dest)
  /\ \A m \in (i + 2)..(loop.back - 1) : m # k => ir[m].dest # inst.dest
  /\ UnchangedBetween(ir, i + 2, loop.back - 1, inst.src1)
  /\ UnchangedBetween(ir, i + 2, loop.back - 1, inst.src2)
  /\ \/ IsTempName(inst.dest.name)
     \/ \A m \in (i + 2)..(k - 1) :
          ir[m].op \notin Controls /\ inst.dest \notin {ir[m].src1, ir[m].src2}

\* The loop at i, up to its condition; an inner loop of one that gave up
\* something waits for the next iteration of optimizePass.
RECURSIVE HoistFrom(_, _)
HoistFrom(ir, i) ==
  IF i > Len(ir) THEN << >>
  ELSE LET loop == CHOOSE l \in InvertedLoop(ir, i) : TRUE
           moved == IF InvertedLoop(ir, i) = {} THEN {}
                    ELSE {k \in (i + 2)..(loop.test - 1) : InvariantAt(ir, i, loop, k)}
           Moves(k) == k \in moved
           Stays(k) == k \notin moved
           run == SubSeq(Places(ir), i, loop.test - 1)
           Code(places) == [k \in 1..Len(places) |-> ir[places[k]]]
       IN IF moved = {} THEN << ir[i] >> \o HoistFrom(ir, i + 1)
          ELSE Code(SelectSeq(run, Moves)) \o Code(SelectSeq(run, Stays)) \o HoistFrom(ir, loop.test)

InvariantsHoisted(ir) == HoistFrom(ir, 1)

-------------------------------------------------------------------------------
\* Pass 4.25.  while (i < U) { if (i >= B) break; ...; i = i + 1 } becomes a
\* loop up to the smaller one of U and B.
SingleLabel(ir, l) == Cardinality(References(ir, l)) = 1

\* The loop at s and its condition at c: LT t, i, U; BNEZ b, t; LABEL exit.
PlainLoop(ir, s, c) ==
  /\ s < c /\ c + 3 <= Len(ir)
  /\ ir[s].op = "BRANCH" /\ ir[s + 1].op = "LABEL" /\ c \in PlaceOf(ir, ir[s].dest)
  /\ ir[c + 2].op = "BNEZ" /\ ir[c + 2].dest = ir[s + 1].dest
  /\ Decides(ir[c + 1], ir[c + 2])

\* The break in front: comparison; BEQZ skip; BRANCH exit; LABEL skip.
LeadingBreak(ir, s, c) ==
  /\ ir[s + 2].op \in Comparisons /\ Decides(ir[s + 2], ir[s + 3])
  /\ ir[s + 3].op = "BEQZ"
  /\ ir[s + 4].op = "BRANCH" /\ ir[s + 4].dest = ir[c + 3].dest
  /\ ir[s + 5].op = "LABEL" /\ ir[s + 5].dest = ir[s + 3].dest

\* guardRelation and its operands, the counter first.
Guard(ir, s, counter) == Oriented(ir[s + 2], IF ir[s + 2].src1 = counter THEN {} ELSE {counter})

CountsUpBehind(ir, s, c, counter, fixed) ==
  /\ \A k \in (s + 6)..(c - 1) :
       /\ ir[k].op \notin BranchOps \union {"LABEL", "RETURN"}
       /\ ir[s + 2].dest \notin {ir[k].src1, ir[k].src2}
       /\ ir[k].dest \notin {o \in fixed : IsLocal(o)}
       /\ ir[k].dest = counter => k = c - 1
  /\ c - 1 >= s + 6 /\ ir[c - 1].dest = counter /\ UnitStep(ir[c - 1], "LT")

\* The bound that the guard of the loop at s leaves: a set of at most one.
TightBound(ir, s, c) ==
  LET counter == ir[c + 1].src1
      guard == Guard(ir, s, counter)
  IN {b \in {Min({u, t + Truth(guard.rel = "GT")}) :
                u \in EntryConstant(ir, s, ir[c + 1].src2), t \in EntryConstant(ir, s, guard.bound)} :
        /\ c > s + 5 /\ PlainLoop(ir, s, c) /\ ir[c + 1].op = "LT" /\ IsLocal(counter)
        /\ ir[c + 3].op = "LABEL" /\ LeadingBreak(ir, s, c)
        /\ \A l \in {ir[s], ir[s + 1], ir[c + 3], ir[s + 5]} : SingleLabel(ir, l.dest)
        /\ guard.counter = counter /\ guard.rel \in {"GE", "GT"}
        /\ CountsUpBehind(ir, s, c, counter, {guard.bound, ir[c + 1].src2})
        /\ b \in Word}

Tightenable(ir) ==
  {s \in 1..(Len(ir) - 1) : \E c \in PlaceOf(ir, ir[s].dest) : TightBound(ir, s, c) # {}}

\* The first such loop, again and again.
RECURSIVE BreaksTightened(_)
BreaksTightened(ir) ==
  LET loops == Tightenable(ir)
      s == Min(loops)
      c == CHOOSE k \in PlaceOf(ir, ir[s].dest) : TRUE
      bound == CHOOSE b \in TightBound(ir, s, c) : TRUE
  IN IF loops = {} THEN ir
     ELSE BreaksTightened(Without([ir EXCEPT ![c + 1].src2 = Imm(bound)], (s + 2)..(s + 5)))

-------------------------------------------------------------------------------
\* Pass 4.5.  A loop goes when it is known to end, only writes variables of
\* its function, and nothing behind it reads one of them.
LocalWork == BinaryOps \union {"LOCAL_VAR_DECL", "ASSIGN", "NOT"}

\* The body of the loop at s is at s + 2..c - 1; its branches go on, leave the
\* loop or continue it.
BodyBranch(ir, p, c) ==
  /\ ir[p].op \in BranchOps
  /\ \E t \in PlaceOf(ir, ir[p].dest) : t \in (p + 1)..(c - 1) \/ t \in {c, c + 3}

Removable(ir, s, c, bound) ==
  \A p \in (s + 2)..(c - 1) :
    /\ ~ TouchesGlobal(ir[p])
    /\ \/ ir[p].op \in LocalWork /\ IsLocal(ir[p].dest) /\ ir[p].dest # bound
       \/ ir[p].op = "LABEL"
       \/ BodyBranch(ir, p, c)

\* candidateStep: what an instruction adds to the counter, a set.
StepOf(inst) ==
  CASE inst.op = "ADD" /\ inst.src1 = inst.dest /\ IsImm(inst.src2) -> {inst.src2.imm}
    [] inst.op = "ADD" /\ inst.src2 = inst.dest /\ IsImm(inst.src1) -> {inst.src1.imm}
    [] inst.op = "SUB" /\ inst.src1 = inst.dest /\ IsImm(inst.src2) -> {-inst.src2.imm} \ {Half}
    [] OTHER -> {}

\* terminatingStep: the last step does not wrap, wherever the counter starts.
EndsInTime(rel, step, bounds) ==
  IF bounds = {}
  THEN <<rel, step>> \in {<<"LT", 1>>, <<"GT", -1>>}
  ELSE \A b \in bounds :
         IF rel \in {"LT", "LE"} THEN step > 0 /\ b + step - Truth(rel = "LT") <= MaxWord
         ELSE step < 0 /\ b + step + Truth(rel = "GT") >= MinWord

\* On every path of an iteration: in front of every continue, or behind all.
OnEveryPath(ir, s, c, write) ==
  LET controls == {p \in (s + 2)..(c - 1) : ir[p].op \in BranchOps \union {"LABEL"}}
  IN IF \E p \in controls : ir[p].op \in BranchOps /\ c \in PlaceOf(ir, ir[p].dest)
     THEN write < Min(controls) ELSE \A p \in controls : write > p

Idle(ir, s, c) ==
  LET condition == ir[c + 1]
      loop == Oriented(condition, WrittenBetween(ir, s + 2, c - 1))
      writes == {p \in (s + 2)..(c - 1) : WritesLocal(ir[p]) /\ ir[p].dest = loop.counter}
  IN /\ ir[s].op = "BRANCH" /\ ir[s + 1].op = "LABEL" /\ SingleLabel(ir, ir[s + 1].dest)
     /\ s + 1 < c /\ c + 2 <= Len(ir)
     /\ condition.op \in Comparisons /\ ir[c + 2].op = "BNEZ" /\ ir[c + 2].dest = ir[s + 1].dest
     /\ Decides(condition, ir[c + 2]) /\ IsLocal(loop.counter)
     /\ Removable(ir, s, c, loop.bound)
     /\ \E p \in writes : /\ writes = {p} /\ OnEveryPath(ir, s, c, p)
                          /\ \E d \in StepOf(ir[p]) \ {0} :
                               EndsInTime(loop.rel, d, EntryConstant(ir, s, loop.bound))
     /\ \A p \in (1..Len(ir)) \ (s..(c + 2)) : \A t \in (s + 1)..(c + 2) : ~ JumpsTo(ir, p, t)
     /\ \A o \in WrittenBetween(ir, s + 2, c - 1) : ~ UsedBehind(ir, c + 2, o.name)

IdleLoops(ir) == {s \in 1..(Len(ir) - 1) : \E c \in PlaceOf(ir, ir[s].dest) : Idle(ir, s, c)}

\* The first one, again and again, with an exit label that nothing jumps to.
RECURSIVE IdleLoopsGone(_)
IdleLoopsGone(ir) ==
  LET loops == IdleLoops(ir)
      s == Min(loops)
      c == CHOOSE k \in PlaceOf(ir, ir[s].dest) : TRUE
      exit == {k \in {c + 3} \intersect (1..Len(ir)) :
                 ir[k].op = "LABEL" /\ References(ir, ir[k].dest) = {}}
  IN IF loops = {} THEN ir ELSE IdleLoopsGone(Without(ir, (s..(c + 2)) \union exit))

-------------------------------------------------------------------------------
\* Pass 5.4.  A loop that starts an iteration with BEQZ f, g for a g that it
\* does not write, and whose way from f only steps the counter, is not entered
\* without g.
FirstBehind(ir, p) == Min({k \in (p + 1)..(Len(ir) + 1) : k > Len(ir) \/ ir[k].op # "LABEL"})

\* f: t = 0; BEQZ l, t.  l: x = x + 1, the last instruction of the body.
EmptyPath(ir, f, c) ==
  LET zero == ir[f + 1]
      leave == FirstBehind(ir, f + 1)
  IN /\ f + 1 < c /\ zero.op = "ASSIGN" /\ Is(zero.src1, 0)
     /\ IsLocal(zero.dest) /\ IsTempName(zero.dest.name)
     /\ leave < c /\ ir[leave].op = "BEQZ" /\ ir[leave].src1 = zero.dest
     /\ \E l \in PlaceOf(ir, ir[leave].dest) : l > leave /\ l < c
          /\ LET step == FirstBehind(ir, l) IN
             /\ step < c /\ FirstBehind(ir, step) > c
             /\ UnitStep(ir[step], "LT") /\ IsLocal(ir[step].dest)
             /\ ~ UsedBehind(ir, c + 2, ir[step].dest.name)

Guardable(ir, s, c) ==
  /\ s + 3 < c /\ c + 3 <= Len(ir) /\ ir[s].op = "BRANCH" /\ ir[s + 1].op = "LABEL"
  /\ SingleLabel(ir, ir[s].dest) /\ SingleLabel(ir, ir[s + 1].dest)
  /\ ir[c + 2].op = "BNEZ" /\ ir[c + 2].dest = ir[s + 1].dest /\ ir[c + 3].op = "LABEL"
  /\ ir[s + 2].op = "BEQZ" /\ IsLocal(ir[s + 2].src1)
  /\ ir[s + 2].src1 \notin WrittenBetween(ir, s + 2, c - 1)
  /\ \E f \in PlaceOf(ir, ir[s + 2].dest) : f > s + 2 /\ f < c /\ EmptyPath(ir, f, c)

\* The last such loop, at most eight times.
RECURSIVE GuardsHoistedIn(_, _)
GuardsHoistedIn(ir, rounds) ==
  LET loops == {s \in 1..(Len(ir) - 1) : \E c \in PlaceOf(ir, ir[s].dest) : Guardable(ir, s, c)}
      s == Max(loops)
      c == CHOOSE k \in PlaceOf(ir, ir[s].dest) : TRUE
  IN IF rounds = 0 \/ loops = {} THEN ir
     ELSE GuardsHoistedIn(SubSeq(ir, 1, s - 1) \o << [ir[s + 2] EXCEPT !.dest = ir[c + 3].dest] >>
                            \o SubSeq(ir, s, s + 1) \o SubSeq(ir, s + 3, Len(ir)), rounds - 1)

GuardsHoisted(ir) == GuardsHoistedIn(ir, 8)

-------------------------------------------------------------------------------
\* Pass 7.  The names are numbered with the place of the loop, from zero.
UnrolledExit(i) == Label(<<"L_unroll_exit_", i - 1>>)
UnrolledMid(i)  == Label(<<"L_unroll_mid_", i - 1>>)
PairLimit(i)    == Local(<<"u", i - 1>>)

LongestBody == 24

\* alreadyUnrolled: the next label of the function is such an exit.
AlreadyUnrolled(ir, back) ==
  LET next == {k \in (back + 1)..Len(ir) : ir[k].op \in {"LABEL", "FUNC_END", "FUNC_BEGIN"}}
  IN next # {} /\ ir[Min(next)].op = "LABEL" /\ ir[Min(next)].dest.name[1] = "L_unroll_exit_"

\* The instructions of the body that step the counter; the last one counts.
CounterSteps(ir, i, loop) ==
  LET counter == ir[loop.test + 1].src1
  IN {k \in (i + 2)..(loop.test - 1) :
        /\ ir[k].op \in {"ADD", "SUB"}
        /\ ir[k].dest = counter /\ ir[k].src1 = counter /\ IsImm(ir[k].src2)}

Unrollable(ir, i, loop) ==
  LET steps == CounterSteps(ir, i, loop) IN
  /\ ~ AlreadyUnrolled(ir, loop.back)
  /\ ir[loop.test + 1].op \in {"LT", "LE"} /\ IsLocal(ir[loop.test + 1].src1)
  /\ loop.test - (i + 2) \in 1..LongestBody
  /\ \A k \in (i + 2)..(loop.test - 1) :
       ir[k].op \notin BranchOps \union {"LABEL", "CALL", "RETURN"}
  /\ steps # {} /\ ir[Max(steps)].src2.imm # 0

\* canPairWithoutMidGuard: i < bound with i = i + 1 as the only step, and a
\* bound that the loop does not write.
Pairable(ir, i, loop) ==
  LET condition == ir[loop.test + 1]
      step == ir[Max(CounterSteps(ir, i, loop))]
  IN /\ condition.op = "LT" /\ loop.back = loop.test + 2
     /\ step.src2.imm = IF step.op = "ADD" THEN 1 ELSE -1
     /\ Cardinality({k \in (i + 2)..(loop.test - 1) : ir[k].dest = condition.src1}) = 1
     /\ \A k \in (i + 2)..(loop.test - 1) : IsImm(condition.src2) \/ ir[k].dest # condition.src2

\* Mutant: the second round of a pair runs whatever the condition says.
UncheckedPair(ir, i, loop) ==
  LET body == SubSeq(ir, i + 2, loop.test - 1)
  IN SubSeq(ir, i, i + 1) \o body \o body \o SubSeq(ir, loop.test, loop.back)
       \o << Inst("LABEL", UnrolledExit(i), None, None) >>

\* Two rounds while two are left, one more if there is one left: the bound - 1
\* wraps only if the first test has failed.
Paired(ir, i, loop) ==
  LET body == SubSeq(ir, i + 2, loop.test - 1)
      condition == ir[loop.test + 1]
      leave == Inst("BEQZ", UnrolledExit(i), condition.dest, None)
  IN << Inst("SUB", PairLimit(i), condition.src2, Imm(1)), condition, leave, ir[i], ir[i + 1] >>
       \o body \o body
       \o << ir[loop.test], [condition EXCEPT !.src2 = PairLimit(i)], ir[loop.back],
             condition, leave >>
       \o body \o << Inst("LABEL", UnrolledExit(i), None, None) >>

\* Otherwise the condition is tested between the rounds as well.
Doubled(ir, i, loop) ==
  LET body == SubSeq(ir, i + 2, loop.test - 1)
  IN SubSeq(ir, i, i + 1) \o body \o SubSeq(ir, loop.test + 1, loop.back - 1)
       \o << Inst("BNEZ", UnrolledMid(i), ir[loop.back].src1, None),
             Inst("BRANCH", UnrolledExit(i), None, None),
             Inst("LABEL", UnrolledMid(i), None, None) >>
       \o body \o SubSeq(ir, loop.test, loop.back)
       \o << Inst("LABEL", UnrolledExit(i), None, None) >>

RECURSIVE UnrollFrom(_, _)
UnrollFrom(ir, i) ==
  IF i > Len(ir) THEN << >>
  ELSE LET loops == {l \in InvertedLoop(ir, i) : Unrollable(ir, i, l)}
           loop == CHOOSE l \in loops : TRUE
       IN IF loops = {} THEN << ir[i] >> \o UnrollFrom(ir, i + 1)
          ELSE (IF Pairable(ir, i, loop) THEN Paired(ir, i, loop) ELSE Doubled(ir, i, loop))
                 \o UnrollFrom(ir, loop.back + 1)

LoopsUnrolled(ir) == UnrollFrom(ir, 1)
===============================================================================
