------------------------------ MODULE LoopSummary -----------------------------
(***************************************************************************)
(* Loops that are computed instead of run: Pass 5.5, for sums of what does *)
(* not change and of the counter, and Pass 6, whose results are constants. *)
(* Of the summaries between them see ClosedForms.                          *)
(***************************************************************************)
EXTENDS LoopShape

\* Mutant: the sum of the terms up to first + trips.
TermsSumOneMore(first, trips) == trips * first + (trips * (trips + 1)) \div 2

\* first + (first + 1) + ..., that many terms.
TermsSum(first, trips) == trips * first + (trips * (trips - 1)) \div 2

EmptyDecl(inst) == inst.op = "LOCAL_VAR_DECL" /\ IsNone(inst.src1)

LoopBody(ir, i, loop) == SubSeq(ir, i + 2, loop.test - 1)

\* What the body writes, in the order of the first writes.
WrittenInOrder(body) ==
  LET First(k) == /\ WritesLocal(body[k]) /\ ~ EmptyDecl(body[k])
                  /\ \A m \in 1..(k - 1) : body[m].dest = body[k].dest => EmptyDecl(body[m])
      firsts == SelectSeq(Places(body), First)
  IN [k \in 1..Len(firsts) |-> body[firsts[k]].dest]

-------------------------------------------------------------------------------
\* Pass 5.5.  Linear expressions in the values at the start of an iteration.
ConstantExpr(v, names) == [constant |-> v, coeffs |-> [n \in names |-> 0]]
VariableExpr(name, names) ==
  [constant |-> 0, coeffs |-> [n \in names |-> IF n = name THEN 1 ELSE 0]]

\* addScaled; 64 bits are enough for the loops of a program.
Combined(d, e, scale) ==
  [constant |-> d.constant + scale * e.constant,
   coeffs |-> [n \in DOMAIN d.coeffs |-> d.coeffs[n] + scale * e.coeffs[n]]]

IsConstantExpr(e) == \A n \in DOMAIN e.coeffs : e.coeffs[n] = 0

LinearOf(values, o) ==
  CASE IsImm(o)   -> {ConstantExpr(o.imm, DOMAIN values)}
    [] IsLocal(o) -> {values[o.name]}
    [] OTHER      -> {}

LinearResult(values, inst) ==
  LET zero == ConstantExpr(0, DOMAIN values)
      both == LinearOf(values, inst.src1) \X LinearOf(values, inst.src2)
  IN CASE inst.op \in {"ASSIGN", "LOCAL_VAR_DECL"} -> LinearOf(values, inst.src1)
       [] inst.op = "ADD" -> {Combined(p[1], p[2], 1) : p \in both}
       [] inst.op = "SUB" -> {Combined(p[1], p[2], -1) : p \in both}
       [] inst.op = "MUL" ->
            {IF IsConstantExpr(p[1]) THEN Combined(zero, p[2], p[1].constant)
             ELSE Combined(zero, p[1], p[2].constant) :
               p \in {q \in both : IsConstantExpr(q[1]) \/ IsConstantExpr(q[2])}}
       [] OTHER -> {}

LinearAfter(values, inst) ==
  IF EmptyDecl(inst) THEN {values}
  ELSE {[values EXCEPT ![inst.dest.name] = e] :
          e \in {x \in LinearResult(values, inst) : IsLocal(inst.dest)}}

\* The variables behind the body, or nothing if they are not all linear.
BodyValues(body) ==
  LET names == LocalsOf(body)
      Further(known, inst) == UNION {LinearAfter(values, inst) : values \in known}
  IN FoldLeft(Further, {[n \in names |-> VariableExpr(n, names)]}, body)

-------------------------------------------------------------------------------
\* The definitions of the variables of a function.
DefinitionsOf(ir, at) ==
  {k \in BeginOf(ir, FunctionAt(ir, at))..EndOf(ir, FunctionAt(ir, at)) :
     WritesLocal(ir[k]) /\ ~ EmptyDecl(ir[k])}

\* findUniqueConstant: the only definition in the whole function.
UniqueConstant(ir, at, o) ==
  LET definitions == {k \in DefinitionsOf(ir, at) : ir[k].dest = o}
  IN {ir[k].src1.imm : k \in {d \in definitions :
        /\ definitions = {d} /\ d < at /\ IsImm(ir[d].src1)
        /\ ir[d].op \in {"ASSIGN", "LOCAL_VAR_DECL"}}}

KnownBound(ir, i, o) ==
  IF EntryConstant(ir, i, o) # {} THEN EntryConstant(ir, i, o) ELSE UniqueConstant(ir, i, o)

\* The initial value, and the trips as long as the counter does not wrap.
Counted(ir, i, condition) ==
  {c \in {[initial |-> v, trips |-> Max({0, upper - v + Truth(condition.op = "LE")})] :
             v \in EntryConstant(ir, i, condition.src1),
             upper \in {u \in KnownBound(ir, i, condition.src2) :
                          condition.op = "LT" \/ u # MaxWord}} :
     c.trips <= MaxWord}

\* Nobody jumps into the loop but its first instruction.
ClosedLoop(ir, i, loop) ==
  \A k \in 1..Len(ir) :
    ir[k].op \in BranchOps /\ ir[k].dest \in {ir[i].dest, ir[i + 1].dest} => k \in i..loop.back

SumLoop(ir, i, loop) ==
  LET condition == ir[loop.test + 1] IN
  /\ loop.test > i + 2 /\ loop.back = loop.test + 2
  /\ condition.op \in {"LT", "LE"} /\ IsLocal(condition.src1)
  /\ Decides(condition, ir[loop.back])
  /\ ClosedLoop(ir, i, loop)

\* A round adds to n some multiple of the counter and of what does not change.
AddsUp(values, written, counter, n) ==
  /\ values[n].coeffs[n] = 1
  /\ \A m \in DOMAIN values \ {n, counter} : values[n].coeffs[m] # 0 => Local(m) \notin written

\* The loop whose first jump is at i, as sums of the variables that are read
\* behind it: a set of at most one.
SumsOf(ir, i, loop, count, values) ==
  LET counter == ir[loop.test + 1].src1
      order == WrittenInOrder(LoopBody(ir, i, loop))
      written == {order[k] : k \in 1..Len(order)}
      IsSum(o) == o # counter /\ UsedBehind(ir, loop.back, o.name)
      sums == SelectSeq(order, IsSum)
      step == values[counter.name]
  IN IF /\ counter \in written /\ ir[loop.test + 1].src2 \notin written
        /\ step = [VariableExpr(counter.name, DOMAIN values) EXCEPT !.constant = 1]
        /\ sums # << >>
        /\ \A k \in 1..Len(sums) : AddsUp(values, written, counter.name, sums[k].name)
     THEN {[back |-> loop.back, counter |-> counter, count |-> count, values |-> values, sums |-> sums]}
     ELSE {}

Summaries(ir, i) ==
  UNION {SumsOf(ir, i, x[1], x[2], x[3]) :
           x \in UNION {{l} \X Counted(ir, i, ir[l.test + 1]) \X BodyValues(LoopBody(ir, i, l)) :
                          l \in {m \in InvertedLoop(ir, i) : SumLoop(ir, i, m)}}}

\* What all rounds together add to n: a constant, and a multiple of each of
\* the variables that keep their value.
ConstantDelta(s, n) ==
  Wrap(Wrap(s.values[n].constant * s.count.trips)
         + Wrap(s.values[n].coeffs[s.counter.name] * TermsSum(s.count.initial, s.count.trips)))

Multiple(s, n, m) == Wrap(s.values[n].coeffs[m] * s.count.trips)

Terms(s, n) == SetToSeq({m \in DOMAIN s.values \ {n, s.counter.name} : Multiple(s, n, m) # 0})

\* Code is written with the number of the next new variable.
Output(code, temps) == [code |-> code, temps |-> temps]

\* A proper multiple of m needs a variable.
TermAdded(out, s, n, m) ==
  LET factor == Multiple(s, n, m)
      product == Local(<<TempPrefix, out.temps>>)
      Into(op, o) == Inst(op, Local(n), Local(n), o)
  IN CASE factor = 1  -> [out EXCEPT !.code = Append(@, Into("ADD", Local(m)))]
       [] factor = -1 -> [out EXCEPT !.code = Append(@, Into("SUB", Local(m)))]
       [] OTHER -> Output(out.code \o << Inst("MUL", product, Local(m), Imm(factor)), Into("ADD", product) >>,
                       out.temps + 1)

SumWritten(ir, i, out, s, n) ==
  LET delta == ConstantDelta(s, n)
      terms == Terms(s, n)
      known == {v \in EntryConstant(ir, i, Local(n)) : terms = << >>}
      Added(o, m) == TermAdded(o, s, n, m)
      grown == FoldLeft(Added, out, terms)
      last == CASE known # {} -> << Move(Local(n), Imm(Wrap((CHOOSE v \in known : TRUE) + delta))) >>
                [] delta = 0 -> << >>
                [] OTHER -> << Inst("ADD", Local(n), Local(n), Imm(delta)) >>
  IN [grown EXCEPT !.code = @ \o last]

SummaryWritten(ir, i, out, s) ==
  LET Written(o, sum) == SumWritten(ir, i, o, s, sum.name)
      all == FoldLeft(Written, out, s.sums)
      final == Move(s.counter, Imm(s.count.initial + s.count.trips))
  IN IF UsedBehind(ir, s.back, s.counter.name) THEN [all EXCEPT !.code = Append(@, final)] ELSE all

\* The label behind goes too if nobody jumps to it.
Behind(ir, back) ==
  IF back < Len(ir) /\ ir[back + 1].op = "LABEL" /\ References(ir, ir[back + 1].dest) = {}
  THEN back + 2 ELSE back + 1

RECURSIVE SummariseFrom(_, _, _)
SummariseFrom(ir, i, out) ==
  IF i > Len(ir) THEN out
  ELSE LET Past(s) == SummariseFrom(ir, Behind(ir, s.back), SummaryWritten(ir, i, out, s))
           With(found) == IF found = {} THEN SummariseFrom(ir, i + 1, [out EXCEPT !.code = Append(@, ir[i])])
                          ELSE Past(CHOOSE s \in found : TRUE)
       IN With(Summaries(ir, i))

\* An outer loop is a candidate when its inner ones are gone.
SummaryRounds == 4

RECURSIVE SummarisedAgain(_, _, _)
SummarisedAgain(ir, temps, rounds) ==
  LET Again(next) == IF rounds = 0 \/ next.code = ir THEN Output(ir, temps)
                     ELSE SummarisedAgain(next.code, next.temps, rounds - 1)
  IN Again(SummariseFrom(ir, 1, Output(<< >>, temps)))

LoopsSummarised(ir, temps) == SummarisedAgain(ir, temps, SummaryRounds)

-------------------------------------------------------------------------------
\* Pass 6.  What the body has done so far: the counter's step, which
\* variables hold a line in the counter, what a round adds to the others.
Line(coeff, offset) == [coeff |-> coeff, offset |-> offset]
NoLoopWork == [step |-> 0, counted |-> FALSE, lines |-> << >>, sums |-> << >>]

LineOf(work, counter, o) ==
  CASE IsImm(o) -> {Line(0, o.imm)}
    [] o = counter -> {Line(1, 0)}
    [] o \in DOMAIN work.lines -> {work.lines[o]}
    [] OTHER -> {}

LineResult(op, d, e) ==
  CASE op = "ADD" -> Line(Wrap(d.coeff + e.coeff), Wrap(d.offset + e.offset))
    [] op = "SUB" -> Line(Wrap(d.coeff - e.coeff), Wrap(d.offset - e.offset))
    [] OTHER      -> Line(Wrap(d.coeff * e.offset + e.coeff * d.offset), Wrap(d.offset * e.offset))

\* A line that the variable d gets, as long as the counter has its old value.
NewLines(work, counter, inst) ==
  {LineResult(inst.op, p[1], p[2]) :
     p \in {q \in LineOf(work, counter, inst.src1) \X LineOf(work, counter, inst.src2) :
              /\ inst.op \in {"ADD", "SUB", "MUL"} /\ IsLocal(inst.dest) /\ ~ work.counted
              /\ inst.dest # counter /\ inst.dest \notin DOMAIN work.sums
              /\ inst.op = "MUL" => 0 \in {q[1].coeff, q[2].coeff}}}

\* s = s + e, or s - e.
Grows(inst) == inst.op \in {"ADD", "SUB"} /\ IsLocal(inst.dest) /\ inst.src1 = inst.dest

NewSums(work, counter, inst) ==
  {LineResult(inst.op, IF inst.dest \in DOMAIN work.sums THEN work.sums[inst.dest] ELSE Line(0, 0), e) :
     e \in {d \in LineOf(work, counter, inst.src2) :
              Grows(inst) /\ inst.dest # counter /\ (work.counted => IsImm(inst.src2))}}

WorkAfter(work, counter, inst) ==
  LET lines == NewLines(work, counter, inst) IN
  CASE EmptyDecl(inst) -> {work}
    [] Grows(inst) /\ inst.dest = counter /\ IsImm(inst.src2) ->
         {[work EXCEPT !.counted = TRUE,
                       !.step = Wrap(IF inst.op = "ADD" THEN @ + inst.src2.imm ELSE @ - inst.src2.imm)]}
    [] lines # {} -> {[work EXCEPT !.lines = (inst.dest :> e) @@ @] : e \in lines}
    [] OTHER -> {[work EXCEPT !.sums = (inst.dest :> e) @@ @] : e \in NewSums(work, counter, inst)}

BodyWork(body, counter) ==
  LET Further(known, inst) == UNION {WorkAfter(work, counter, inst) : work \in known}
  IN FoldLeft(Further, {NoLoopWork}, body)

\* The loop at i whose condition is c < bound or c <= bound; the code does
\* not look at what else the condition says.
CountedLoop(ir, i, loop) ==
  LET condition == ir[loop.test + 1] IN
  /\ loop.test > i + 2 /\ condition.op \in {"LT", "LE"} /\ IsLocal(condition.src1)
  /\ \A k \in (i + 2)..(loop.test - 1) : IsLocal(condition.src2) => ir[k].dest # condition.src2

\* The values that the variables have behind the loop.
FinalSum(sum, initial, first, trips) ==
  Wrap(initial + Wrap(sum.offset * trips)
         + (IF trips > 0 THEN Wrap(sum.coeff * TermsSum(first, trips)) ELSE 0))

Finals(condition, work, first, upper, initial) ==
  LET inclusive == Truth(condition.op = "LE")
      trips == Max({0, Wrap(upper - first + inclusive)})
      ran == Compute(condition.op, first, upper) = 1
  IN (condition.src1 :> IF ran THEN upper ELSE first)
       @@ [o \in DOMAIN work.sums |-> FinalSum(work.sums[o], initial[o], first, trips)]

Results(ir, i, loop) ==
  LET condition == ir[loop.test + 1]
      Known(o) == EntryConstant(ir, i, o)
  IN {Finals(condition, work, first, upper,
             [o \in DOMAIN work.sums |-> CHOOSE v \in Known(o) : TRUE]) :
        work \in {w \in BodyWork(LoopBody(ir, i, loop), condition.src1) :
                    w.step = 1 /\ DOMAIN w.sums # {} /\ \A o \in DOMAIN w.sums : Known(o) # {}},
        first \in Known(condition.src1), upper \in Known(condition.src2)}

\* foldBinary: what overflows or traps is not folded.
Foldable(op, a, b) ==
  CASE op = "ADD" -> a + b \in Word
    [] op = "SUB" -> a - b \in Word
    [] op = "MUL" -> a * b \in Word
    [] op \in {"DIV", "MOD"} -> b # 0 /\ ~ (a = MinWord /\ b = -1)
    [] OTHER -> TRUE

ConstantIn(known, o) ==
  CASE IsImm(o) -> {o.imm} [] o \in DOMAIN known -> {known[o]} [] OTHER -> {}

ConstantsOf(known, inst) ==
  CASE inst.op \in {"ASSIGN", "LOCAL_VAR_DECL"} -> ConstantIn(known, inst.src1)
    [] inst.op = "NOT" -> {Truth(v = 0) : v \in ConstantIn(known, inst.src1)}
    [] inst.op \in BinaryOps ->
         {Compute(inst.op, q[1], q[2]) :
            q \in {r \in ConstantIn(known, inst.src1) \X ConstantIn(known, inst.src2) :
                     Foldable(inst.op, r[1], r[2])}}
    [] OTHER -> {}

\* foldPostlude: from instruction k on a constant is returned, and the first
\* place behind the RETURNs.
RECURSIVE ReturnBehind(_, _, _)
ReturnBehind(ir, k, known) ==
  LET inst == ir[k]
      more == {m \in (k + 1)..Len(ir) : ir[m].op # "RETURN"}
  IN CASE k > Len(ir) -> {}
       [] EmptyDecl(inst) \/ (inst.op = "LABEL" /\ References(ir, inst.dest) = {}) ->
            ReturnBehind(ir, k + 1, known)
       [] inst.op = "RETURN" ->
            {[value |-> v, next |-> Min(more)] :
               v \in IF IsNone(inst.dest) THEN {0} ELSE ConstantIn(known, inst.dest)}
       [] OTHER ->
            UNION {ReturnBehind(ir, k + 1, (inst.dest :> v) @@ known) :
                     v \in {w \in ConstantsOf(known, inst) : IsLocal(inst.dest)}}

\* eraseDeadInit: the last definition of o in front of a loop that is gone.
DeadStartGone(out, o) ==
  LET definitions == {k \in 1..Len(out) : WritesLocal(out[k]) /\ out[k].dest = o}
      last == Max(definitions)
  IN CASE definitions = {} \/ (\E k \in (last + 1)..Len(out) : Uses(out[k], o.name)) -> out
       [] out[last].op = "LOCAL_VAR_DECL" -> [out EXCEPT ![last].src1 = None]
       [] OTHER -> Without(out, {last})

\* The loop becomes the result of its function, or its final values.
ReturnWritten(out, condition, finals, value) ==
  LET bound == IF IsLocal(condition.src2) THEN << condition.src2 >> ELSE << >>
      others == SetToSeq(DOMAIN finals \ {condition.src1})
  IN Append(FoldLeft(DeadStartGone, out, Append(others, condition.src1) \o bound),
            Inst("RETURN", Imm(value), None, None))

FinalsWritten(ir, i, loop, finals) ==
  LET counter == ir[loop.test + 1].src1
      IsFinal(o) == o \in DOMAIN finals \ {counter} /\ UsedBehind(ir, loop.back, o.name)
      sums == SelectSeq(WrittenInOrder(LoopBody(ir, i, loop)), IsFinal)
      read == IF UsedBehind(ir, loop.back, counter.name) THEN Append(sums, counter) ELSE sums
  IN [k \in 1..Len(read) |-> Move(read[k], Imm(finals[read[k]]))]

RECURSIVE ComputeFrom(_, _, _)
ComputeFrom(ir, i, out) ==
  IF i > Len(ir) THEN out
  ELSE LET Returning(l, finals, return) ==
             ComputeFrom(ir, return.next, ReturnWritten(out, ir[l.test + 1], finals, return.value))
           Past(l, finals, returns) ==
             IF returns = {} THEN ComputeFrom(ir, l.back + 1, out \o FinalsWritten(ir, i, l, finals))
             ELSE Returning(l, finals, CHOOSE r \in returns : TRUE)
           Replacing(x) == Past(x[1], x[2], ReturnBehind(ir, x[1].back + 1, x[2]))
           With(found) == IF found = {} THEN ComputeFrom(ir, i + 1, Append(out, ir[i]))
                          ELSE Replacing(CHOOSE x \in found : TRUE)
       IN With(UNION {{l} \X Results(ir, i, l) : l \in {m \in InvertedLoop(ir, i) : CountedLoop(ir, i, m)}})

LoopsComputed(ir) == ComputeFrom(ir, 1, << >>)
===============================================================================
