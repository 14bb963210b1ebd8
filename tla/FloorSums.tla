------------------------------- MODULE FloorSums ------------------------------
(***************************************************************************)
(* Pass 5.566: loops that add (base + stride * i) % m to one variable,     *)
(* where base and stride are known when the loop is reached.  The sum is   *)
(* looked up by the stride, or computed by a loop of Euclid's kind.  The   *)
(* code writes the terms of a linear form in the order of its hash table.  *)
(***************************************************************************)
EXTENDS QuotientSums

\* A loop as these summaries read it: the counter starts at a constant and
\* stops at one, both the last that the text assigns, to a global in any
\* function.
AnyWritesBetween(ir, from, to, o) == {k \in from..to : Writes(ir[k]) /\ ir[k].dest = o}

TextConstant(ir, at, o) ==
  LET first == IF IsGlobal(o) THEN 1 ELSE BeginOf(ir, FunctionAt(ir, at))
      writes == AnyWritesBetween(ir, first, at - 1, o)
      last == ir[Max(writes)]
  IN CASE IsImm(o) -> {o.imm}
       [] writes = {} -> {}
       [] last.op \in {"ASSIGN", "LOCAL_VAR_DECL", "GLOBAL_VAR_DECL"} /\ IsImm(last.src1) -> {last.src1.imm}
       [] OTHER -> {}

TextCounts(ir, at, condition) ==
  {c \in {[initial |-> v, trips |-> Max({0, u - v + Truth(condition.op = "LE")})] :
             v \in TextConstant(ir, at, condition.src1),
             u \in {w \in TextConstant(ir, at, condition.src2) : condition.op = "LT" \/ w # MaxWord}} :
     c.trips <= MaxWord}

TextLoops(ir) ==
  UNION {UNION {LET condition == ir[l.test + 1]
                IN {KnownLoop(i, l, condition.src1, c) : c \in TextCounts(ir, i, condition)} :
                  l \in {m \in InvertedLoop(ir, i) : SingleLoop(ir, i, m) /\ m.test > i + 2}} :
           i \in 1..Len(ir)}

SeenBehind(ir, back, o) ==
  \E k \in (back + 1)..EndOf(ir, FunctionAt(ir, back)) :
    o \in {ir[k].src1, ir[k].src2} \/ (ReadsDest(ir[k]) /\ ir[k].dest = o)

\* Variables that the body declares have no value when an iteration starts.
OwnVariables(ir, loop) == {ir[k].dest : k \in {m \in (loop.at + 2)..(loop.test - 1) : EmptyDecl(ir[m])}}
LoopWrites(ir, loop) == {ir[k].dest : k \in {m \in (loop.at + 2)..(loop.test - 1) : Writes(ir[m])}}

-------------------------------------------------------------------------------
\* ProgressionExpr: multiples of the counter, of the remainder, of variables
\* and of variables times the counter.  64 bits are enough.
Unit1 == <<"one", None>>
Induction == <<"counter", None>>
TheRemainder == <<"remainder", None>>
Invariant(o) == <<"invariant", o>>
PerTrip(o) == <<"per trip", o>>

Factor(e, t) == IF t \in DOMAIN e THEN e[t] ELSE 0
AddScaled(d, e, scale) ==
  LET sum == [t \in DOMAIN d \union DOMAIN e |-> Factor(d, t) + scale * Factor(e, t)]
  IN [t \in {u \in DOMAIN sum : sum[u] # 0} |-> sum[t]]
Scaled(e, scale) == AddScaled(<< >>, e, scale)
IsFixed(e) == DOMAIN e \subseteq {Unit1}
IsCount(e) == e = (Induction :> 1)
SingleInvariant(e) == {t \in DOMAIN e : DOMAIN e = {t} /\ t[1] = "invariant"}

ProgressionOf(loop, values, o) ==
  CASE IsImm(o) -> Scaled(Unit1 :> 1, o.imm)
    [] o = loop.counter -> Induction :> 1
    [] o \in DOMAIN values -> values[o]
    [] IsLocal(o) \/ IsGlobal(o) -> Invariant(o) :> 1
    [] OTHER -> << >>

ProgressionProduct(d, e) ==
  CASE IsFixed(d) -> {Scaled(e, Factor(d, Unit1))}
    [] IsFixed(e) -> {Scaled(d, Factor(e, Unit1))}
    [] IsCount(d) -> {PerTrip(t[2]) :> e[t] : t \in SingleInvariant(e)}
    [] IsCount(e) -> {PerTrip(t[2]) :> d[t] : t \in SingleInvariant(d)}
    [] OTHER -> {}

ProgressionResult(loop, values, inst) ==
  LET left == ProgressionOf(loop, values, inst.src1)
      right == ProgressionOf(loop, values, inst.src2)
  IN CASE IsMove(inst) -> {left}
       [] inst.op = "ADD" -> {AddScaled(left, right, 1)}
       [] inst.op = "SUB" -> {AddScaled(left, right, -1)}
       [] inst.op = "MUL" -> ProgressionProduct(left, right)
       [] OTHER -> {}

\* The remainder of a division by a constant, as Pass 0d leaves it.
SplitRemainder(ir, loop, k) ==
  /\ k + 2 < loop.test
  /\ ir[k].op = "DIV" /\ IsLocal(ir[k].dest) /\ IsImm(ir[k].src2) /\ ir[k].src2.imm > 1
  /\ ir[k + 1] = Inst("MUL", ir[k + 1].dest, ir[k].dest, ir[k].src2) /\ IsLocal(ir[k + 1].dest)
  /\ ir[k + 2] = Inst("SUB", ir[k + 2].dest, ir[k].src1, ir[k + 1].dest) /\ IsLocal(ir[k + 2].dest)

\* The body from instruction k on: what variables hold, which of them are the
\* program's, the one remainder, and the steps of the counter.
NoProgression == [values |-> << >>, results |-> {}, remainder |-> {}, steps |-> << >>]

WithProgression(ir, loop, work, o, e) ==
  [work EXCEPT !.values = (o :> e) @@ @,
               !.results = IF o \in OwnVariables(ir, loop) \/ (IsLocal(o) /\ IsTempName(o.name))
                           THEN @ ELSE @ \union {o}]

RECURSIVE Progressions(_, _, _, _)
Progressions(ir, loop, k, work) ==
  LET inst == ir[k]
      numerator == ProgressionOf(loop, work.values, inst.src1)
      steps == inst.op \in {"ADD", "SUB"} /\ inst.dest = loop.counter /\ inst.src1 = loop.counter /\ IsImm(inst.src2)
  IN CASE k = loop.test -> {work}
       [] EmptyDecl(inst) -> Progressions(ir, loop, k + 1, work)
       [] SplitRemainder(ir, loop, k) /\ work.remainder = {} /\ TheRemainder \notin DOMAIN numerator ->
            Progressions(ir, loop, k + 3,
                         [WithProgression(ir, loop, work, ir[k + 2].dest, TheRemainder :> 1)
                            EXCEPT !.remainder = {[of |-> numerator, modulus |-> inst.src2.imm]}])
       [] steps -> Progressions(ir, loop, k + 1,
                                [work EXCEPT !.steps = Append(@, inst.op = "ADD" /\ inst.src2.imm = 1)])
       [] OTHER ->
            UNION {Progressions(ir, loop, k + 1,
                                [WithProgression(ir, loop, work, inst.dest, e) EXCEPT !.results = @ \ {loop.counter}]) :
                     e \in {x \in ProgressionResult(loop, work.values, inst) :
                              /\ IsLocal(inst.dest) \/ IsGlobal(inst.dest)
                              /\ work.steps = << >> \/ ~ Last(work.steps)}}

-------------------------------------------------------------------------------
\* What an iteration adds to the only variable that is read behind the loop.
Delta(ir, loop, work, o) ==
  {Scaled([t \in DOMAIN e \ {Invariant(o)} |-> e[t]], 1) :
     e \in {x \in {work.values[o]} :
              /\ Factor(x, Invariant(o)) = 1 /\ TheRemainder \in DOMAIN x
              /\ \A w \in LoopWrites(ir, loop) \ {o} : {Invariant(w), PerTrip(w)} \cap DOMAIN x = {}
              /\ PerTrip(o) \notin DOMAIN x}}

\* Nothing in the numerator is negative, and no sum of remainders wraps.  The
\* proof is the one of Pass 5.565, of global variables as well.
NeverNegative(ir, at) ==
  ProvenFrom(ir, {k \in BeginOf(ir, FunctionAt(ir, at))..EndOf(ir, FunctionAt(ir, at)) :
                    Writes(ir[k]) /\ ~ EmptyDecl(ir[k])}, {})

PlainNumerator(ir, loop, remainder) ==
  LET trips == loop.count.trips
      known == NeverNegative(ir, loop.at)
  IN /\ \A t \in DOMAIN remainder.of :
          remainder.of[t] > 0 /\ (t[1] \in {"invariant", "per trip"} => t[2] \in known)
     /\ trips * (remainder.modulus - 1) <= MaxWord
     /\ ((trips * (trips - 1)) \div 2) * (remainder.modulus - 1) <= MaxWord

\* The code writes a constant and multiples of variables: all are words.
Multiples1(e, fixed, counted) ==
  LET operands == {t[2] : t \in {u \in DOMAIN e : u[1] \in {"invariant", "per trip"}}}
      sum == [o \in operands |-> fixed * Factor(e, Invariant(o)) + counted * Factor(e, PerTrip(o))]
  IN [o \in {p \in operands : sum[p] # 0} |-> sum[o]]
Linear(constant, terms) == [constant |-> constant, terms |-> terms]
IsWritable(l) == l.constant \in Word /\ \A o \in DOMAIN l.terms : l.terms[o] \in Word

CountSum(loop) == TermsSum(loop.count.initial, loop.count.trips)
BaseOfSum(loop, e) ==
  Linear(Factor(e, Unit1) + Factor(e, Induction) * loop.count.initial, Multiples1(e, 1, loop.count.initial))
StrideOfSum(e) == Linear(Factor(e, Induction), Multiples1(e, 0, 1))
RestOfSum(loop, e) ==
  Linear(Factor(e, Unit1) * loop.count.trips + Factor(e, Induction) * CountSum(loop),
         Multiples1(e, loop.count.trips, CountSum(loop)))

FloorSum(loop, remainder, o, delta) ==
  [loop |-> loop, at |-> loop.at, sum |-> o, modulus |-> remainder.modulus, factor |-> delta[TheRemainder],
   base |-> BaseOfSum(loop, remainder.of), stride |-> StrideOfSum(remainder.of), rest |-> RestOfSum(loop, delta)]

FloorSumsOf(ir, loop, work) ==
  LET read == {o \in work.results : SeenBehind(ir, loop.back, o)}
  IN IF work.steps = << TRUE >> /\ Cardinality(read) = 1
     THEN UNION {{FloorSum(loop, r, o, d) : d \in Delta(ir, loop, work, o)} :
                   r \in {q \in work.remainder : PlainNumerator(ir, loop, q)}, o \in read}
     ELSE {}

FloorLoops(ir) ==
  UNION {UNION {{s \in FloorSumsOf(ir, l, w) : IsWritable(s.base) /\ IsWritable(s.stride) /\ IsWritable(s.rest)} :
                  w \in Progressions(ir, l, l.at + 2, NoProgression)} :
           l \in {m \in TextLoops(ir) :
                    /\ m.count.initial >= 0 /\ m.count.trips >= 4
                    /\ m.count.trips * (m.count.trips - 1) <= MaxWord
                    /\ ir[m.test + 1].src2 \notin DefinesIn(LoopBody(ir, m.at, m))}}

-------------------------------------------------------------------------------
\* What is written so far, with the numbers of the next variable and label.
Draft(code, temps, labels) == [code |-> code, temps |-> temps, labels |-> labels]
Temp(k) == Local(<<TempPrefix, k>>)
Lbl(k) == Label(<<"L", k>>)
Set2(d, s) == Inst("ASSIGN", d, s, None)

\* appendLinear: the value is 0 until there is something to add to.
LinearTerm(out, o, factor) ==
  LET scaled == factor # 1
      term == IF scaled THEN Temp(out.temps) ELSE o
      next == IF scaled THEN out.temps + 1 ELSE out.temps
      product == IF scaled THEN << Inst("MUL", term, o, Imm(factor)) >> ELSE << >>
  IN IF out.value = Imm(0) THEN [out EXCEPT !.code = @ \o product, !.temps = next, !.value = term]
     ELSE [out EXCEPT !.code = @ \o Append(product, Inst("ADD", Temp(next), out.value, term)),
                      !.temps = next + 1, !.value = Temp(next)]

LinearWritten(out, l) ==
  LET Further(so_far, o) == LinearTerm(so_far, o, l.terms[o])
  IN FoldLeft(Further, [value |-> Imm(l.constant)] @@ out, SetToSeq(DOMAIN l.terms))

\* The sum for each remainder of the stride, found by halving.
LargestTable == 257
LongestTable == 4096
ResidueSum(residue, modulus, trips) ==
  LET Of(k) == (residue * k) % modulus IN MapThenSumSet(Of, 0..(trips - 1))

RECURSIVE LookUp(_, _, _, _)
LookUp(out, from, to, table) ==
  LET middle == from + (to - from) \div 2
      right == Lbl(out.labels)
      chosen == Temp(out.temps)
      left == LookUp(Draft(out.code \o << Inst("LT", chosen, table.by, Imm(middle)), Inst("BEQZ", right, chosen, None) >>,
                           out.temps + 1, out.labels + 1), from, middle, table)
  IN IF to - from = 1
     THEN [out EXCEPT !.code = @ \o << Set2(table.sum, Imm(table.entries[from])), Inst("BRANCH", table.done, None, None) >>]
     ELSE LookUp([left EXCEPT !.code = Append(@, Inst("LABEL", right, None, None))], middle, to, table)

\* Mutant: no label behind the table for the entries to jump to.
OpenTable(out, s, stride, sum) ==
  LET table == [by |-> stride, sum |-> sum, done |-> Lbl(out.labels),
                entries |-> [r \in 0..(s.modulus - 1) |-> ResidueSum(r, s.modulus, s.loop.count.trips)]]
  IN LookUp([out EXCEPT !.labels = @ + 1], 0, s.modulus, table)

LookUpWritten(out, s, stride, sum) ==
  LET done == Lbl(out.labels)
      table == [by |-> stride, sum |-> sum, done |-> done,
                entries |-> [r \in 0..(s.modulus - 1) |-> ResidueSum(r, s.modulus, s.loop.count.trips)]]
      found == LookUp([out EXCEPT !.labels = @ + 1], 0, s.modulus, table)
  IN [found EXCEPT !.code = Append(@, Inst("LABEL", done, None, None))]

\* The sum of floor((a * i + b) / m) for i < n: what a and b have of m comes
\* out, then the roles of a and m are exchanged.
EuclidWritten(out, s, base, stride, sum) ==
  LET T(k) == Temp(out.temps + k)
      top == Lbl(out.labels)
      skipA == Lbl(out.labels + 1)
      skipB == Lbl(out.labels + 2)
      done == Lbl(out.labels + 3)
      trips == s.loop.count.trips
      n == T(4)
      m == T(5)
      a == T(6)
      b == T(7)
      answer == T(8)
      Op(op, d, l, r) == Inst(op, d, l, r)
      Here(l) == Inst("LABEL", l, None, None)
      start ==
        << Op("MOD", T(0), base, Imm(s.modulus)),
           Op("MUL", T(1), stride, Imm((trips * (trips - 1)) \div 2)), Op("MUL", T(2), T(0), Imm(trips)),
           Op("ADD", T(3), T(1), T(2)),
           Set2(n, Imm(trips)), Set2(m, Imm(s.modulus)), Set2(a, stride), Set2(b, T(0)), Set2(answer, Imm(0)) >>
      strides ==
        << Here(top), Op("GE", T(9), a, m), Inst("BEQZ", skipA, T(9), None),
           Op("DIV", T(10), a, m), Op("SUB", T(11), n, Imm(1)), Op("MUL", T(12), n, T(11)),
           Op("DIV", T(13), T(12), Imm(2)), Op("MUL", T(14), T(13), T(10)), Op("ADD", answer, answer, T(14)),
           Op("MOD", a, a, m), Here(skipA) >>
      bases ==
        << Op("GE", T(15), b, m), Inst("BEQZ", skipB, T(15), None),
           Op("DIV", T(16), b, m), Op("MUL", T(17), n, T(16)), Op("ADD", answer, answer, T(17)),
           Op("MOD", b, b, m), Here(skipB) >>
      exchange ==
        << Op("MUL", T(18), a, n), Op("ADD", T(18), T(18), b), Op("LT", T(19), T(18), m),
           Inst("BNEZ", done, T(19), None),
           Op("DIV", T(20), T(18), m), Op("MOD", T(21), T(18), m), Set2(T(22), m), Set2(m, a),
           Set2(a, T(22)), Set2(n, T(20)), Set2(b, T(21)), Inst("BRANCH", top, None, None), Here(done),
           Op("MUL", T(23), answer, Imm(s.modulus)), Op("SUB", sum, T(3), T(23)) >>
  IN Draft(out.code \o start \o strides \o bases \o exchange, out.temps + 24, out.labels + 4)

\* ... and the rest of what the loop adds.
RestWritten(out, s, sum) ==
  LET rest == LinearWritten(out, s.rest)
      scaled == s.factor # 1
      product == IF scaled THEN << Inst("MUL", Temp(rest.temps), sum, Imm(Wrap(s.factor))) >> ELSE << >>
      next == IF scaled THEN rest.temps + 1 ELSE rest.temps
  IN Draft(rest.code \o product
             \o << Inst("ADD", Temp(next), rest.value, IF scaled THEN Temp(rest.temps) ELSE sum),
                   Inst("ADD", s.sum, s.sum, Temp(next)) >>, next + 1, out.labels)

FloorWritten(ir, s, temps, labels) ==
  LET base == LinearWritten(Draft(<< >>, temps, labels), s.base)
      stride == LinearWritten(Draft(base.code, base.temps, labels), s.stride)
      residue == Temp(stride.temps)
      sum == Temp(stride.temps + 1)
      out == Draft(Append(stride.code, Inst("MOD", residue, stride.value, Imm(s.modulus))), stride.temps + 2, labels)
      table == s.base = Linear(0, << >>) /\ s.modulus <= LargestTable /\ s.loop.count.trips <= LongestTable
      summed == IF table THEN LookUpWritten(out, s, residue, sum) ELSE EuclidWritten(out, s, base.value, residue, sum)
      all == RestWritten(summed, s, sum)
  IN [all EXCEPT !.code = @ \o CounterSet(ir, s.loop, Imm(LastCount(s.loop)))]

\* Numbers that the code spends on loops it then leaves alone are not counted.
FloorRound(out, k) ==
  LET With(s, new) == Draft(Replaced(out.code, s.loop, new.code), new.temps, new.labels)
      Gone(s) == With(s, FloorWritten(out.code, s, out.temps, out.labels))
  IN OnLast(out, FloorLoops(out.code), Gone)

FloorsSummed(ir, temps, labels) ==
  FoldLeft(FloorRound, Draft(ir, temps, labels), [k \in 1..ClosedFormRounds |-> k])
===============================================================================
