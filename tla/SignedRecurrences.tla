--------------------------- MODULE SignedRecurrences --------------------------
(***************************************************************************)
(* Pass 5.568: loops of many iterations that compute, for a variable acc,  *)
(*   acc = ((acc + p(i)) % m - i) % m                                      *)
(* where p(i) repeats; they become the assignment of one number.           *)
(***************************************************************************)
EXTENDS FloorSums

CONSTANT RecurrenceTrips  \* the fewest iterations, 1024

\* PeriodicAffineValue: multiples of acc and of the counter, and a number for
\* each phase of the counter; of which only the remainder by the modulus is
\* right; least and greatest value; the part of the formula that it is.
Steady(v) ==
  {[accumulator |-> 0, induction |-> 0, phase |-> (0 :> w), modulus |-> {},
    least |-> w, greatest |-> w, shape |-> "none"] : w \in {v} \cap Word}

Period(v) == Cardinality(DOMAIN v.phase)
PhaseAt(v, k) == v.phase[k % Period(v)]
IsIndependent(v) == v.accumulator = 0 /\ v.induction = 0 /\ v.modulus = {}
IsSteady(v) == IsIndependent(v) /\ Period(v) = 1

MostPhases == 65536
PeriodOfBoth(v, w) == {p \in {Period(v) * (Period(w) \div Gcd[Period(v), Period(w)])} : p <= MostPhases}

\* A value that only repeats: its bounds are those of its phases.
Repeating(phase) ==
  LET all == {phase[k] : k \in DOMAIN phase}
  IN {[accumulator |-> 0, induction |-> 0, phase |-> phase, modulus |-> {},
       least |-> Min(all), greatest |-> Max(all), shape |-> "none"] : p \in {q \in {phase} : all \subseteq Word}}

Bounded(v) == {w \in {v} : {w.least, w.greatest} \subseteq Word}

SumShape(v, w, scale) ==
  CASE scale = 1 /\ v.shape = "acc" /\ IsIndependent(w) -> "acc + p"
    [] scale = 1 /\ w.shape = "acc" /\ IsIndependent(v) -> "acc + p"
    [] scale = -1 /\ v.shape = "inner" /\ w.induction = 1 /\ w.accumulator = 0 /\ w.modulus = {}
         /\ w.phase = (0 :> 0) -> "inner - i"
    [] OTHER -> "none"

AffineSum(v, w, scale) ==
  LET low == IF scale = 1 THEN w.least ELSE - w.greatest
      high == IF scale = 1 THEN w.greatest ELSE - w.least
  IN IF Cardinality(v.modulus \union w.modulus) > 1 THEN {}
     ELSE UNION {Bounded([accumulator |-> v.accumulator + scale * w.accumulator,
                          induction |-> v.induction + scale * w.induction,
                          phase |-> [k \in 0..(p - 1) |-> PhaseAt(v, k) + scale * PhaseAt(w, k)],
                          modulus |-> v.modulus \union w.modulus,
                          least |-> v.least + low, greatest |-> v.greatest + high,
                          shape |-> SumShape(v, w, scale)]) : p \in PeriodOfBoth(v, w)}

AffineScaled(v, f) ==
  Bounded([v EXCEPT !.accumulator = @ * f, !.induction = @ * f, !.phase = [k \in DOMAIN @ |-> @[k] * f],
                    !.least = Min({@ * f, v.greatest * f}), !.greatest = Max({@ * f, v.least * f})])

AffineProduct(v, w) ==
  CASE IsSteady(v) -> AffineScaled(w, v.phase[0])
    [] IsSteady(w) -> AffineScaled(v, w.phase[0])
    [] ~ IsIndependent(v) \/ ~ IsIndependent(w) -> {}
    [] OTHER -> UNION {Repeating([k \in 0..(p - 1) |-> PhaseAt(v, k) * PhaseAt(w, k)]) : p \in PeriodOfBoth(v, w)}

AffineQuotient(v, d) ==
  CASE d = 0 \/ (d = -1 /\ v.least = MinWord) -> {}
    [] IsIndependent(v) -> Repeating([k \in DOMAIN v.phase |-> TDiv(v.phase[k], d)])
    [] v.modulus = {} /\ v.least > - Magnitude(d) /\ v.greatest < Magnitude(d) -> Steady(0)
    [] OTHER -> {}

\* By the modulus m of acc, the remainder is the next part of the formula.
RemainderShape(v, d, m) ==
  CASE d = m /\ v.shape = "acc + p"   -> "inner"
    [] d = m /\ v.shape = "inner - i" -> "final"
    [] OTHER -> "none"

InductionPeriod(v, d) == IF v.induction = 0 THEN 1 ELSE d \div Gcd[Magnitude(v.induction), d]

AffineRemainder(v, d, m) ==
  CASE d <= 1 -> {}
    [] v.modulus = {} /\ v.least > -d /\ v.greatest < d -> {v}
    [] v.modulus = {} /\ v.accumulator = 0 /\ v.least >= 0 ->
         UNION {Repeating([k \in 0..(p - 1) |-> (v.induction * k + PhaseAt(v, k)) % d]) :
                  p \in {q \in {Period(v) * (InductionPeriod(v, d) \div Gcd[Period(v), InductionPeriod(v, d)])} :
                           q <= MostPhases}}
    [] v.modulus \subseteq {d} ->
         {[v EXCEPT !.modulus = {d}, !.shape = RemainderShape(v, d, m),
                    !.least = IF v.least >= 0 THEN 0 ELSE 1 - d,
                    !.greatest = IF v.greatest <= 0 THEN 0 ELSE d - 1]}
    [] OTHER -> {}

-------------------------------------------------------------------------------
\* x % d, as Pass 0d leaves it, from instruction k on.
NormalRemainder(ir, loop, k) ==
  /\ k + 2 < loop.test
  /\ ir[k].op = "DIV" /\ IsLocal(ir[k].dest) /\ IsImm(ir[k].src2) /\ ir[k].src2.imm > 1
  /\ ir[k + 1].op = "MUL" /\ IsLocal(ir[k + 1].dest)
  /\ {<<ir[k + 1].src1, ir[k + 1].src2>>, <<ir[k + 1].src2, ir[k + 1].src1>>} \cap {<<ir[k].dest, ir[k].src2>>} # {}
  /\ ir[k + 2] = Inst("SUB", ir[k + 2].dest, ir[k].src1, ir[k + 1].dest) /\ IsLocal(ir[k + 2].dest)

AffineOf(ir, loop, values, o) ==
  CASE IsImm(o) -> Steady(o.imm)
    [] ~ IsLocal(o) -> {}
    [] o \in DOMAIN values -> {values[o]}
    [] OTHER -> UNION {Steady(v) : v \in OnlyConstant(ir, loop.at, o)}

AffineResult(ir, loop, values, inst, m) ==
  LET left == AffineOf(ir, loop, values, inst.src1)
      right == AffineOf(ir, loop, values, inst.src2)
      scale == IF inst.op = "ADD" THEN 1 ELSE -1
  IN CASE IsMove(inst) -> left
       [] inst.op = "NOT" ->
            UNION {Repeating([k \in DOMAIN v.phase |-> Truth(v.phase[k] = 0)]) : v \in {w \in left : IsIndependent(w)}}
       [] inst.op \in {"ADD", "SUB"} -> UNION {AffineSum(p[1], p[2], scale) : p \in left \X right}
       [] inst.op = "MUL" -> UNION {AffineProduct(p[1], p[2]) : p \in left \X right}
       [] inst.op = "DIV" /\ IsImm(inst.src2) -> UNION {AffineQuotient(v, inst.src2.imm) : v \in left}
       [] inst.op = "MOD" /\ IsImm(inst.src2) -> UNION {AffineRemainder(v, inst.src2.imm, m) : v \in left}
       [] OTHER -> {}

\* The values behind the body, from instruction k on.
RECURSIVE AffineBody(_, _, _, _, _)
AffineBody(ir, loop, k, values, m) ==
  LET inst == ir[k]
      Behind1(o, found, next) == UNION {AffineBody(ir, loop, next, (o :> v) @@ values, m) : v \in found}
  IN CASE k = loop.test -> {values}
       [] EmptyDecl(inst) \/ inst.dest = loop.counter -> AffineBody(ir, loop, k + 1, values, m)
       [] NormalRemainder(ir, loop, k) ->
            Behind1(ir[k + 2].dest,
                    UNION {AffineRemainder(v, inst.src2.imm, m) : v \in AffineOf(ir, loop, values, inst.src1)}, k + 3)
       [] OTHER -> Behind1(inst.dest, AffineResult(ir, loop, values, inst, m), k + 1)

\* Arithmetic of local variables, whose end is the step of the counter.
StraightBody(ir, loop) ==
  LET body == (loop.at + 2)..(loop.test - 1)
  IN /\ body # {} /\ ir[loop.test - 1] = Inst("ADD", loop.counter, loop.counter, Imm(1))
     /\ \A k \in body :
          /\ IsLocal(ir[k].dest)
          /\ IsMove(ir[k]) \/ ir[k].op \in ArithmeticOps \union {"NOT"}
          /\ ir[k].dest = loop.counter => k = loop.test - 1 \/ EmptyDecl(ir[k])

\* What the body computes for others than the counter.
ResultsOf(ir, loop) ==
  {o \in {ir[k].dest : k \in {m \in (loop.at + 2)..(loop.test - 1) : ~ EmptyDecl(ir[m])}} \ {loop.counter} :
     UsedBehind(ir, loop.back, o.name)}

ModuliOf(ir, loop, o) ==
  {ir[k].src2.imm : k \in {m \in (loop.at + 2)..(loop.test - 3) :
                             NormalRemainder(ir, loop, m) /\ ir[m + 2].dest = o}}

StartOf(loop, o, m) ==
  (loop.counter :> [accumulator |-> 0, induction |-> 1, phase |-> (0 :> 0), modulus |-> {},
                    least |-> loop.count.initial, greatest |-> LastCount(loop) - 1, shape |-> "none"])
    @@ (o :> [accumulator |-> 1, induction |-> 0, phase |-> (0 :> 0), modulus |-> {m},
              least |-> 1 - m, greatest |-> m - 1, shape |-> "acc"])

\* Mutant: what is added in one iteration may have any sign.
AnySign(loop, initial, v) == TRUE

\* What is added in one iteration never has the other sign than acc at first.
OneSign(loop, initial, v) ==
  LET phases == {v.phase[k] : k \in DOMAIN v.phase}
  IN \/ initial >= 0 /\ Min(phases) - (LastCount(loop) - 1) >= 0
     \/ initial <= 0 /\ Max(phases) - loop.count.initial <= 0

\* acc behind the loop, from the sum of all that is added.
FinalRecurrence(loop, initial, v, m) ==
  LET Of(k) == PhaseAt(v, k) + v.induction * k
  IN TMod(initial + MapThenSumSet(Of, loop.count.initial..(LastCount(loop) - 1)), m)

RecurrencesAt(ir, loop, o) ==
  UNION {{[loop |-> loop, at |-> loop.at, sum |-> o, value |-> FinalRecurrence(loop, x[1], v[o], x[2])] :
            v \in {w \in AffineBody(ir, loop, loop.at + 2, StartOf(loop, o, x[2]), x[2]) :
                     /\ w[o].accumulator = 1 /\ w[o].induction = -1 /\ w[o].modulus = {x[2]}
                     /\ w[o].shape = "final" /\ Period(w[o]) > 1
                     /\ \A k \in DOMAIN w[o].phase : Magnitude(w[o].phase[k]) < x[2]
                     /\ OneSign(loop, x[1], w[o])}} :
           x \in {y \in EntryConstant(ir, loop.at, o) \X ModuliOf(ir, loop, o) :
                    ModuliOf(ir, loop, o) = {y[2]} /\ Magnitude(y[1]) < y[2]}}

RecurrenceLoops(ir) ==
  UNION {UNION {RecurrencesAt(ir, l, o) : o \in {r \in ResultsOf(ir, l) : ResultsOf(ir, l) = {r} /\ ~ IsTempName(r.name)}} :
           l \in {m \in KnownLoops(ir) : /\ m.count.initial >= 0 /\ m.count.trips >= RecurrenceTrips
                                         /\ StraightBody(ir, m)}}

RecurrenceRound(ir, k) ==
  LET Gone(s) ==
        Replaced(ir, s.loop, << Move(s.sum, Imm(s.value)) >> \o CounterSet(ir, s.loop, Imm(LastCount(s.loop))))
  IN OnLast(ir, RecurrenceLoops(ir), Gone)
RecurrencesSummed(ir) == FoldLeft(RecurrenceRound, ir, [k \in 1..ClosedFormRounds |-> k])

-------------------------------------------------------------------------------
\* Pass 5.569: a loop whose work is used in the one iteration where the
\* counter equals another variable, the selector, becomes that iteration,
\* behind a test that there is one.
\* if (counter == selector), in front of the last statement but the step.
SelectorOf(inst, counter) ==
  CASE inst.src1 = counter -> {o \in {inst.src2} : IsLocal(o)}
    [] inst.src2 = counter -> {o \in {inst.src1} : IsLocal(o)}
    [] OTHER -> {}

Guards(ir, loop) ==
  {k \in (loop.at + 2)..(loop.test - 3) :
     /\ ir[k].op = "EQ" /\ IsLocal(ir[k].dest) /\ ir[k + 1].op = "BEQZ" /\ ir[k + 1].src1 = ir[k].dest
     /\ SelectorOf(ir[k], loop.counter) # {}
     /\ PlaceOf(ir, ir[k + 1].dest) = {loop.test - 2} /\ Cardinality(References(ir, ir[k + 1].dest)) = 1
     /\ k + 1 < loop.test - 2}

Selected(ir, loop) ==
  LET guards == Guards(ir, loop)
      k == Min(guards)
  IN {[loop |-> loop, at |-> loop.at, guard |-> k, skip |-> loop.test - 2, selector |-> o] :
        o \in IF guards = {} THEN {} ELSE SelectorOf(ir[k], loop.counter)}

Prefix(s) == (s.loop.at + 2)..(s.guard - 1)
DefinedIn(ir, places) == {ir[k].dest : k \in {m \in places : IsLocal(ir[m].dest)}}
AssignedIn(ir, places) == {ir[k].dest : k \in {m \in places : IsLocal(ir[m].dest) /\ ~ EmptyDecl(ir[m])}}

\* The prefix computes local variables, and nobody jumps out of it or into it.
PrefixIsPure(ir, s) ==
  LET labels == {ir[k].dest : k \in {m \in Prefix(s) : ir[m].op = "LABEL"}}
  IN /\ \A k \in Prefix(s) :
          /\ ir[k].op \notin {"CALL", "RETURN", "PARAM"}
          /\ IsLocal(ir[k].dest) \/ ir[k].op \in BranchOps \union {"LABEL"}
     /\ \A k \in 1..Len(ir) :
          ir[k].op \in BranchOps => (k \in Prefix(s) <=> ir[k].dest \in labels)

\* What the prefix defines is computed anew before it is read, in the text,
\* and not read behind the loop.
ReadsOwnValues(ir, s) ==
  \A o \in DefinedIn(ir, Prefix(s)) :
    /\ \A k \in Prefix(s) : Uses(ir[k], o.name) => o \in AssignedIn(ir, (s.loop.at + 2)..(k - 1))
    /\ ~ UsedBehind(ir, s.loop.back, o.name) /\ o # s.loop.counter

\* Mutant: the program's variables may keep values from one iteration to another.
KeepsValues(ir, s) == TRUE

\* The program's variables among them are assigned in front of the first jump.
StartsAnew(ir, s) ==
  LET controls == {k \in Prefix(s) : ir[k].op \in BranchOps \union {"LABEL"}}
      straight == {k \in Prefix(s) : \A c \in controls : k < c}
  IN \A o \in AssignedIn(ir, Prefix(s)) : IsTempName(o.name) \/ o \in AssignedIn(ir, straight)

GuardedIsStraight(ir, s) ==
  \A k \in (s.guard + 2)..(s.skip - 1) :
    /\ ir[k].op \notin BranchOps \union {"LABEL", "CALL", "RETURN", "PARAM"} /\ ~ IsGlobal(ir[k].dest)
    /\ ir[k].dest \notin {s.loop.counter, s.selector}

SparseLoopsOf(ir) ==
  {s \in UNION {Selected(ir, l) : l \in LoopsWithBounds(ir)} :
     /\ s.loop.test > s.at + 4
     /\ ir[s.loop.test - 1] = Inst("ADD", s.loop.counter, s.loop.counter, Imm(1))
     /\ s.selector # ir[s.loop.test + 1].src2
     /\ s.selector \notin DefinedIn(ir, (s.at + 2)..(s.loop.test - 1))
     /\ PrefixIsPure(ir, s) /\ ReadsOwnValues(ir, s) /\ StartsAnew(ir, s) /\ GuardedIsStraight(ir, s)}

\* Mutant: the guarded statements without the work in front of the test.
WithoutPrefix(ir, s, temps) ==
  << Move(s.loop.counter, s.selector) >> \o SubSeq(ir, s.guard + 2, s.skip)
    \o << Move(s.loop.counter, Imm(LastCount(s.loop))) >>

SparseWritten(ir, s, temps) ==
  LET condition == ir[s.loop.test + 1]
      upper == LastCount(s.loop) - Truth(condition.op = "LE")
      exit == ir[s.skip].dest
      below == Temp(temps)
      within == Temp(temps + 1)
  IN << Inst("LT", below, s.selector, Imm(s.loop.count.initial)), Inst("BNEZ", exit, below, None),
        Inst(condition.op, within, s.selector, Imm(upper)), Inst("BEQZ", exit, within, None),
        Move(s.loop.counter, s.selector) >>
       \o SubSeq(ir, s.at + 2, s.guard - 1) \o SubSeq(ir, s.guard + 2, s.skip)
       \o << Move(s.loop.counter, Imm(LastCount(s.loop))) >>

SparseRound(out, k) ==
  LET Gone(s) == Output(Replaced(out.code, s.loop, SparseWritten(out.code, s, out.temps)), out.temps + 2)
  IN OnLast(out, SparseLoopsOf(out.code), Gone)
LoopsSparsified(ir, temps) == FoldLeft(SparseRound, Output(ir, temps), [k \in 1..ClosedFormRounds |-> k])
===============================================================================
