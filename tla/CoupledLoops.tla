------------------------------ MODULE CoupledLoops -----------------------------
(***************************************************************************)
(* Pass 5.6: a loop whose variables are affine functions of each other,    *)
(* once around.  All iterations together are a power of one matrix, of     *)
(* words or, when the body reduces by one modulus, of remainders.          *)
(* Pass 5.7: a loop with two such bodies, one of which a test of the       *)
(* counter selects: a product of two matrices.                             *)
(*                                                                         *)
(* The variables are known by their bare names.  A row is a function of    *)
(* names; NoName stands for the constant.                                  *)
(***************************************************************************)
EXTENDS StateLoops

MostAffineVariables == 384

IsVariable(o) == IsLocal(o) \/ IsGlobal(o)

\* What the body names, in its order, and the counter.
AffineVariables(body, counter) ==
  LET Add(seq, o) == IF ~ IsVariable(o) \/ \E k \in 1..Len(seq) : seq[k].name = o.name
                     THEN seq ELSE Append(seq, o)
      AddAll(seq, inst) == IF EmptyDecl(inst) THEN seq ELSE Add(Add(Add(seq, inst.dest), inst.src1), inst.src2)
  IN Add(FoldLeft(AddAll, << >>, body), counter)

-------------------------------------------------------------------------------
\* Rows and matrices, of words if m is 0 and otherwise of remainders by m.
Residue(v, m) == IF m = 0 THEN Wrap(v) ELSE v % m
UnitRow(names, n) == [c \in names |-> Truth(c = n)]
UnitRows(names) == [r \in names |-> UnitRow(names, r)]

\* Joining with the empty function has TLC compute a row at once.
ScaledRow(d, scale) == [c \in DOMAIN d |-> Wrap(scale * d[c])] @@ << >>
RowSum(d, e, scale) == [c \in DOMAIN d |-> Wrap(d[c] + scale * e[c])] @@ << >>
RowTimes(row, matrix, m) ==
  LET Entry(c) == LET Of(n) == Residue(row[n] * matrix[n][c], m) IN MapThenSumSet(Of, DOMAIN row)
  IN [c \in DOMAIN row |-> Residue(Entry(c), m)] @@ << >>
RowOfPower(matrix, r, trips, m) ==
  LET Further(row, k) == RowTimes(row, matrix, m)
  IN FoldLeft(Further, UnitRow(DOMAIN matrix, r), [k \in 1..trips |-> k])

\* Coefficients are unsigned when they are reduced.
ReducedRow(row, m) == [c \in DOMAIN row |-> (row[c] % (2 * Half)) % m] @@ << >>
IsConstantRow(row) == \A c \in DOMAIN row \ {NoName} : row[c] = 0

-------------------------------------------------------------------------------
\* The body: the rows, for some variables the bound below which they are and
\* are not negative, the modulus they have just been reduced by (or 0), the
\* modulus of all of them, what was reduced, and the next place of the body.
Unwalked(names) ==
  [rows |-> UnitRows(names), upper |-> [n \in names |-> {}], modulus |-> [n \in names |-> 0],
   common |-> 0, inputs |-> {}, next |-> 1]

RowOf(walk, o) == IF IsImm(o) THEN ScaledRow(walk.rows[NoName], o.imm) ELSE walk.rows[o.name]
UpperOf(walk, o) == IF IsImm(o) THEN {v \in {o.imm} : v >= 0} ELSE walk.upper[o.name]

Known(walk, n, row, upper, modulus) ==
  [walk EXCEPT !.rows[n] = row, !.upper[n] = upper, !.modulus[n] = modulus]

\* The dividend is not negative: by its bound, or else by its row, if all
\* variables are remainders when the iteration starts.
DividesAsResidue(row, upper, m) ==
  IF upper # {} THEN upper \subseteq 0..MaxWord
  ELSE /\ \A c \in DOMAIN row : row[c] >= 0
       /\ LET AtMost(c) == row[c] * (m - 1)
          IN row[NoName] + MapThenSumSet(AtMost, DOMAIN row \ {NoName}) <= MaxWord

ReducedInto(walk, n, dividend, m) ==
  LET row == RowOf(walk, dividend)
      inputs == {c \in DOMAIN row \ {NoName} : row[c] # 0}
  IN IF walk.common \in {0, m} /\ DividesAsResidue(row, UpperOf(walk, dividend), m)
     THEN {[Known(walk, n, ReducedRow(row, m), {m - 1}, m) EXCEPT !.common = m, !.inputs = @ \union inputs]}
     ELSE {}

\* x % m as Pass 0d splits it: q = x / m; p = q * m; r = x - p.
IsSplit(body, k) ==
  /\ IsLocal(body[k].dest) /\ IsImm(body[k].src2) /\ body[k].src2.imm > 1 /\ k + 2 <= Len(body)
  /\ body[k + 1].op = "MUL" /\ IsLocal(body[k + 1].dest) /\ <<body[k].dest, body[k].src2>> \in Factors(body[k + 1])
  /\ body[k + 2].op = "SUB" /\ IsLocal(body[k + 2].dest)
  /\ body[k + 2].src1 = body[k].src1 /\ body[k + 2].src2 = body[k + 1].dest

Combination(walk, inst) ==
  LET both == UpperOf(walk, inst.src1) \X UpperOf(walk, inst.src2)
      left == RowOf(walk, inst.src1)
      right == RowOf(walk, inst.src2)
      With(row, upper) == {Known(walk, inst.dest.name, row, {u \in upper : u <= MaxWord}, 0)}
  IN CASE inst.op = "ADD" -> With(RowSum(left, right, 1), {u[1] + u[2] : u \in both})
       [] inst.op = "SUB" -> With(RowSum(left, right, -1), {u[1] : u \in {w \in both : w[2] = 0}})
       [] inst.op = "MUL" /\ IsConstantRow(left) ->
            With(ScaledRow(right, left[NoName]), {u[1] * u[2] : u \in both})
       [] inst.op = "MUL" /\ IsConstantRow(right) ->
            With(ScaledRow(left, right[NoName]), {u[1] * u[2] : u \in both})
       [] OTHER -> {}

Walked(walk, body, k) ==
  LET inst == body[k]
      n == inst.dest.name
  IN CASE k < walk.next \/ EmptyDecl(inst) -> {walk}
       [] inst.op = "DIV" /\ IsSplit(body, k) ->
            {[w EXCEPT !.next = k + 3] : w \in ReducedInto(walk, body[k + 2].dest.name, inst.src1, inst.src2.imm)}
       [] IsMove(inst) ->
            {Known(walk, n, RowOf(walk, inst.src1), UpperOf(walk, inst.src1),
                   IF IsLocal(inst.src1) THEN walk.modulus[inst.src1.name] ELSE 0)}
       [] inst.op = "MOD" /\ IsImm(inst.src2) /\ inst.src2.imm > 1 ->
            ReducedInto(walk, n, inst.src1, inst.src2.imm)
       [] OTHER -> Combination(walk, inst)

IsAffineInst(inst) ==
  \/ EmptyDecl(inst)
  \/ /\ IsMove(inst) \/ inst.op \in ArithmeticOps
     /\ IsVariable(inst.dest) /\ (IsVariable(inst.src1) \/ IsImm(inst.src1))
     /\ IsNone(inst.src2) \/ IsImm(inst.src2) \/ IsVariable(inst.src2)

AffineWalks(body, names) ==
  LET Further(known, k) == UNION {Walked(w, body, k) : w \in known}
  IN IF \A k \in 1..Len(body) : IsAffineInst(body[k])
     THEN FoldLeft(Further, {Unwalked(names)}, Places(body)) ELSE {}

-------------------------------------------------------------------------------
\* The constant that a variable has at the loop: near it, or in all the
\* function; a global, at the start of main.
NearConstant(ir, at, o) ==
  LET stops == {p \in 1..(at - 1) : ir[p].op \in RunStarters \/ ir[p].dest = o}
      last == ir[Max(stops)]
  IN CASE IsImm(o) -> {o.imm}
       [] stops # {} /\ last.dest = o /\ IsMove(last) /\ IsImm(last.src1) -> {last.src1.imm}
       [] OTHER -> {}

MainFunction == <<"main", 0>>
StartConstant(ir, at, o) ==
  LET declared == {k \in 1..Len(ir) : ir[k].op = "GLOBAL_VAR_DECL" /\ ir[k].dest = o /\ IsImm(ir[k].src1)}
      main == FunctionAt(ir, at) = MainFunction
      before == BeginOf(ir, FunctionAt(ir, at))..(at - 1)
  IN {ir[k].src1.imm : k \in {d \in declared :
        main /\ declared = {d} /\ \A p \in before : ir[p].op # "CALL" /\ ir[p].dest # o}}

FarConstant(ir, at, o) == IF IsGlobal(o) THEN StartConstant(ir, at, o) ELSE OnlyConstant(ir, at, o)
ConstantAt(ir, at, o) ==
  IF NearConstant(ir, at, o) # {} THEN NearConstant(ir, at, o) ELSE FarConstant(ir, at, o)
\* The counter, if it is local, has its value near the loop.
CountFrom(ir, at, o) == IF IsGlobal(o) THEN ConstantAt(ir, at, o) ELSE NearConstant(ir, at, o)

\* Iterations that step by as much, towards a bound; the last step does not wrap.
Forwards == {"LT", "LE"}
TripsTo(rel, from, bound, step) ==
  LET distance == IF rel \in Forwards THEN bound - from ELSE from - bound
      strict == Truth(rel \in {"LT", "GT"})
  IN IF distance < strict THEN 0 ELSE (distance - strict) \div Magnitude(step) + 1

StepsTowards(rel, step) == IF rel \in Forwards THEN step > 0 ELSE step < 0

-------------------------------------------------------------------------------
\* The loops with an affine body and a number of iterations, at least two.
AffineShape(ir, at) ==
  {l \in InvertedLoop(ir, at) :
     /\ l.back = l.test + 2 /\ l.test > at + 2
     /\ ir[l.test + 1].op \in Comparisons /\ Decides(ir[l.test + 1], ir[l.back])
     /\ \A label \in {ir[at].dest, ir[at + 1].dest} : Cardinality(References(ir, label)) = 1}

\* What the body writes, by name, and what is read behind the loop: globals are.
NamesWritten(body) == {body[k].dest.name : k \in {m \in 1..Len(body) : ~ EmptyDecl(body[m])}}
ReadLater(ir, back, o) == IsGlobal(o) \/ UsedBehind(ir, back, o.name)

AffineLoop(ir, at, l, test, walk, variables) ==
  LET body == LoopBody(ir, at, l)
      step == walk.rows[test.counter.name][NoName]
      results == {o \in {variables[k] : k \in 1..Len(variables)} :
                    o.name \in NamesWritten(body) /\ ReadLater(ir, l.back, o)}
      Found(v, trips) ==
        [at |-> at, back |-> l.back, walk |-> walk, counter |-> test.counter, variables |-> variables,
         written |-> NamesWritten(body), results |-> results, trips |-> trips, last |-> v + trips * step]
  IN {f \in {Found(v, TripsTo(test.rel, v, bound, step)) :
                v \in CountFrom(ir, at, test.counter), bound \in ConstantAt(ir, at, test.bound)} :
        f.trips >= 2 /\ f.last \in Word}

\* The counter steps by a constant, in the direction of the bound.
StepsByConstant(walk, test) ==
  LET row == walk.rows[test.counter.name]
  IN /\ row[NoName] # 0 /\ StepsTowards(test.rel, row[NoName])
     /\ row = [UnitRow(DOMAIN row, test.counter.name) EXCEPT ![NoName] = row[NoName]]

AffineLoopsAt(ir, at, l) ==
  LET body == LoopBody(ir, at, l)
      test == Oriented(ir[l.test + 1], LoopWrites(ir, [at |-> at, test |-> l.test]))
      variables == AffineVariables(body, test.counter)
      names == {variables[k].name : k \in 1..Len(variables)}
  IN IF /\ IsVariable(test.counter) /\ test.counter.name \in NamesWritten(body)
        /\ ~ (IsVariable(test.bound) /\ test.bound.name \in NamesWritten(body))
        /\ Len(variables) <= MostAffineVariables
     THEN UNION {AffineLoop(ir, at, l, test, w, variables) :
                   w \in {v \in AffineWalks(body, names \union {NoName}) : StepsByConstant(v, test)}}
     ELSE {}

StateResults(f) == {o \in f.results : o.name # f.counter.name}

\* A variable of the program that the body sets to a constant has no part in
\* what is read behind the loop.
ResetsAreKilled(f) ==
  \A n \in f.written \ {f.counter.name} :
    ~ IsTempName(n) /\ IsConstantRow(f.walk.rows[n]) => \A o \in f.results : f.walk.rows[o.name][n] = 0

\* Sums that do not depend on each other are left to other passes.
IsCoupled(f) ==
  \E o \in StateResults(f) :
    \/ f.walk.rows[o.name][o.name] # 1
    \/ \E n \in f.written \ {o.name, f.counter.name} : f.walk.rows[o.name][n] # 0

\* What is read behind the loop, in the order of the body.
CoupledResults(f) ==
  LET Wanted(o) == o \in StateResults(f)
  IN SelectSeq(f.variables, Wanted)
CounterMove(f) ==
  IF \E o \in f.results : o.name = f.counter.name THEN << Move(f.counter, Imm(f.last)) >> ELSE << >>

\* Remainders: all that is reduced starts as one, and ends as one.
StartResidue(ir, f, n) ==
  UNION {{v \in ConstantAt(ir, f.at, f.variables[k]) : 0 <= v /\ v < f.walk.common} :
           k \in {m \in 1..Len(f.variables) : f.variables[m].name = n}}

RemainderRow(f, n) ==
  RowOfPower([r \in DOMAIN f.walk.rows |-> ReducedRow(f.walk.rows[r], f.walk.common)], n, f.trips, f.walk.common)

RemaindersKnown(ir, f) ==
  /\ \A n \in f.walk.inputs : StartResidue(ir, f, n) # {} /\ f.walk.modulus[n] = f.walk.common
  /\ \A o \in StateResults(f) :
       /\ f.walk.modulus[o.name] = f.walk.common /\ f.walk.rows[o.name][f.counter.name] = 0
       /\ \A n \in DOMAIN f.walk.rows \ (f.walk.inputs \union {NoName}) : RemainderRow(f, o.name)[n] = 0

RemaindersWritten(ir, f) ==
  LET Final(n) ==
        LET row == RemainderRow(f, n)
            Part(c) == row[c] * (CHOOSE v \in StartResidue(ir, f, c) : TRUE)
        IN (row[NoName] + MapThenSumSet(Part, f.walk.inputs)) % f.walk.common
      results == CoupledResults(f)
  IN [k \in 1..Len(results) |-> Move(results[k], Imm(Final(results[k].name)))] \o CounterMove(f)

\* The rows of the results behind the loop, and the results that change.
WordRows(f) == [n \in {o.name : o \in StateResults(f)} |-> RowOfPower(f.walk.rows, n, f.trips, 0)]
Changing(f, rows) ==
  LET Changes(o) == rows[o.name] # UnitRow(DOMAIN rows[o.name], o.name)
  IN SelectSeq(CoupledResults(f), Changes)

\* row, as instructions that compute a new variable, and the next number.
Computed(f, row, temps) ==
  LET final == Temp(temps)
      Appears(o) == row[o.name] # 0
      Plus1(out, o) ==
        LET plain == row[o.name] = 1
            term == IF plain THEN o ELSE Temp(out.temps)
            scaled == IF plain THEN << >> ELSE << Inst("MUL", term, o, Imm(row[o.name])) >>
            joined == IF out.code = << >> THEN Move(final, term) ELSE Inst("ADD", final, final, term)
        IN Output(out.code \o scaled \o << joined >>, out.temps + 1 - Truth(plain))
      sum == FoldLeft(Plus1, Output(<< >>, temps + 1), SelectSeq(f.variables, Appears))
  IN CASE sum.code = << >> -> Output(<< Move(final, Imm(row[NoName])) >>, sum.temps)
       [] row[NoName] = 0 -> sum
       [] OTHER -> Output(Append(sum.code, Inst("ADD", final, final, Imm(row[NoName]))), sum.temps)

\* Mutant: every result is written at once.
OneByOne(f, rows, temps) ==
  LET Next1(out, o) ==
        LET new == Computed(f, rows[o.name], out.temps)
        IN Output(Append(out.code \o new.code, Move(o, Temp(out.temps))), new.temps)
      all == FoldLeft(Next1, Output(<< >>, temps), Changing(f, rows))
  IN Output(all.code \o CounterMove(f), all.temps)

\* Words: every result is computed before one is written.
WordsWritten(f, rows, temps) ==
  LET Next1(out, o) ==
        LET new == Computed(f, rows[o.name], out.temps)
        IN [code |-> out.code \o new.code, moves |-> Append(out.moves, Move(o, Temp(out.temps))), temps |-> new.temps]
      all == FoldLeft(Next1, [code |-> << >>, moves |-> << >>, temps |-> temps], Changing(f, rows))
  IN Output(all.code \o all.moves \o CounterMove(f), all.temps)

-------------------------------------------------------------------------------
CoupledLoopsOf(ir) ==
  {f \in UNION {UNION {AffineLoopsAt(ir, i, l) : l \in AffineShape(ir, i)} : i \in 1..Len(ir)} :
     /\ ResetsAreKilled(f) /\ IsCoupled(f)
     /\ IF f.walk.common # 0 THEN RemaindersKnown(ir, f) ELSE Changing(f, WordRows(f)) \o CounterMove(f) # << >>}

CoupledRound(out, k) ==
  LET With(f, new) == Output(Replaced(out.code, f, new.code), new.temps)
      Gone(f) == With(f, IF f.walk.common = 0 THEN WordsWritten(f, WordRows(f), out.temps)
                         ELSE Output(RemaindersWritten(out.code, f), out.temps))
  IN OnLast(out, CoupledLoopsOf(out.code), Gone)

CoupledSummarised(ir, temps) == FoldLeft(CoupledRound, Output(ir, temps), [k \in 1..ClosedFormRounds |-> k])

-------------------------------------------------------------------------------
\* Pass 5.7.  The body: a prefix that computes a test, one part, a jump over
\* the other part, and what both have in common.
ForkOf(ir, at, l) ==
  LET guards == {k \in (at + 2)..(l.test - 1) : ir[k].op \in {"BEQZ", "BNEZ"}}
      g == Min(guards)
      Targets(k, after) ==
        {p \in PlaceOf(ir, ir[k].dest) : after < p /\ p < l.test /\ Cardinality(References(ir, ir[k].dest)) = 1}
      Jumps(e) == {j \in (g + 1)..(e - 1) : ir[j].op = "BRANCH" /\ \A k \in (j + 1)..(e - 1) : ir[k].op = "LABEL"}
      Fork(e, j, m) ==
        [prefix |-> SubSeq(ir, at + 2, g - 1), guard |-> ir[g], one |-> SubSeq(ir, g + 1, j - 1),
         other |-> SubSeq(ir, e + 1, m - 1), common |-> SubSeq(ir, m + 1, l.test - 1)]
  IN IF guards = {} \/ g = at + 2 THEN {}
     ELSE UNION {UNION {{Fork(e, j, m) : m \in Targets(j, e)} : j \in Jumps(e)} : e \in Targets(g, g + 1)}

\* The loops that count by one up to a bound, from a number on.
ForkedShape(ir, at) ==
  UNION {LET test == ir[l.test + 1]
             Found(fork, v, trips) ==
               [at |-> at, back |-> l.back, counter |-> test.src1, bound |-> test.src2, fork |-> fork,
                initial |-> v, trips |-> trips, last |-> v + trips]
         IN {f \in {Found(fork, v, TripsTo(test.op, v, bound, 1)) :
                      fork \in ForkOf(ir, at, l), v \in NearConstant(ir, at, test.src1),
                      bound \in IF IsGlobal(test.src2) THEN {} ELSE ConstantAt(ir, at, test.src2)} :
               f.initial >= 0 /\ f.trips >= 2 /\ f.last <= MaxWord} :
         l \in {m \in AffineShape(ir, at) : ir[m.test + 1].op \in Forwards /\ IsLocal(ir[m.test + 1].src1)}}

OnlyTemps(code) == \A k \in 1..Len(code) : EmptyDecl(code[k]) \/ (IsLocal(code[k].dest) /\ IsTempName(code[k].dest.name))

\* What the operand is: as found in the prefix, or a number.
FoundIn(ir, f, known, o) ==
  CASE IsImm(o) -> {Constant(o.imm)}
    [] ~ IsLocal(o) -> {}
    [] o.name \in DOMAIN known -> {known[o.name]}
    [] OTHER -> Unvarying(ir, f.at, o)

\* A test that repeats: quotients and remainders of the counter.
MostBranchPhases == 256
EveryPhase(period) == {Periodic(q) : q \in {period} \cap 0..MostBranchPhases}

RepeatingPart(op, d, e) ==
  LET divides == IsCounter(d) /\ IsConstant(e) /\ e.value \notin {0, 1, -1, MinWord}
  IN CASE op = "DIV" /\ divides -> {Quotient(0, e.value)}
       [] op = "MOD" /\ divides -> EveryPhase(Magnitude(e.value))
       [] op = "MUL" /\ d.kind = "quotient" /\ e = Constant(d.divisor) -> {Product(0, d.divisor)}
       [] op = "MUL" /\ e.kind = "quotient" /\ d = Constant(e.divisor) -> {Product(0, e.divisor)}
       [] op = "SUB" /\ IsCounter(d) /\ e.kind = "product" -> EveryPhase(Magnitude(e.divisor))
       [] op \notin BinaryOps \/ ~ Repeats(d) \/ ~ Repeats(e) -> {}
       [] IsConstant(d) /\ IsConstant(e) -> {Constant(0)}
       [] OTHER -> EveryPhase(PeriodOf(d) * (PeriodOf(e) \div Gcd[PeriodOf(d), PeriodOf(e)]))

RepeatingPrefix(ir, f) ==
  LET Part(known, inst) ==
        LET left == FoundIn(ir, f, known, inst.src1)
        IN CASE IsMove(inst) -> left
             [] inst.op = "NOT" -> {IF IsConstant(v) THEN Constant(Truth(v.value = 0)) ELSE v : v \in {w \in left : Repeats(w)}}
             [] OTHER -> UNION {RepeatingPart(inst.op, p[1], p[2]) : p \in left \X FoundIn(ir, f, known, inst.src2)}
      Further(all, inst) ==
        IF EmptyDecl(inst) THEN all
        ELSE UNION {{(inst.dest.name :> v) @@ known : v \in Part(known, inst)} : known \in all}
  IN IF OnlyTemps(f.fork.prefix)
     THEN FoldLeft(Further, {(f.counter.name :> Counter(0))}, f.fork.prefix) ELSE {}

PeriodOfTest(ir, f) ==
  {PeriodOf(w[f.fork.guard.src1.name]) : w \in {v \in RepeatingPrefix(ir, f) :
      f.fork.guard.src1.name \in DOMAIN v /\ Repeats(v[f.fork.guard.src1.name])}}

\* The test of one iteration, with numbers.
TestedAt(ir, f, count) ==
  LET Part(known, inst) ==
        LET left == ConcreteOf(ir, f, known, inst.src1)
        IN CASE IsMove(inst) -> left
             [] inst.op = "NOT" -> {Truth(v = 0) : v \in left}
             [] OTHER -> {Compute(inst.op, p[1], p[2]) : p \in
                            {q \in left \X ConcreteOf(ir, f, known, inst.src2) : Computable(inst.op, q[2])}}
      Further(all, inst) ==
        IF EmptyDecl(inst) THEN all
        ELSE UNION {{(inst.dest.name :> v) @@ known : v \in Part(known, inst)} : known \in all}
  IN {w[f.fork.guard.src1.name] : w \in FoldLeft(Further, {(f.counter.name :> count)}, f.fork.prefix)}

\* Mutant: the phases are those of a counter that starts with zero.
PhasesFromZero(ir, f) ==
  UNION {{[k \in 1..f.trips |-> CHOOSE v \in p[(k - 1) % q] : TRUE] :
            p \in {w \in {[k \in 0..(q - 1) |-> TestedAt(ir, f, k)]} : \A k \in DOMAIN w : w[k] # {}}} :
         q \in {r \in PeriodOfTest(ir, f) : f.initial + r - 1 <= MaxWord}}

RepeatingTests(ir, f) ==
  UNION {{[k \in 1..f.trips |-> CHOOSE v \in p[(k - 1) % q] : TRUE] :
            p \in {w \in {[k \in 0..(q - 1) |-> TestedAt(ir, f, f.initial + k)]} : \A k \in DOMAIN w : w[k] # {}}} :
         q \in {r \in PeriodOfTest(ir, f) : f.initial + r - 1 <= MaxWord}}

-------------------------------------------------------------------------------
\* A test that changes once or twice: a * counter + b against zero.  What is
\* known of a temporary as a value and as a truth is kept side by side.
Affine(a, b) == [a |-> a, b |-> b]
AffineAt(v, count) == v.a * count + v.b
NeverWraps(f, v) == {AffineAt(v, f.initial), AffineAt(v, f.last - 1)} \subseteq Word

ScalarOf(ir, f, w, o) ==
  CASE IsImm(o) -> {Affine(0, o.imm)}
    [] ~ IsLocal(o) -> {}
    [] o.name \in DOMAIN w.scalars -> {w.scalars[o.name]}
    [] OTHER -> {Affine(0, v) : v \in OnlyConstant(ir, f.at, o)}

ScalarResult(op, v, w) ==
  CASE op = "ADD" -> {Affine(v.a + w.a, v.b + w.b)}
    [] op = "SUB" -> {Affine(v.a - w.a, v.b - w.b)}
    [] v.a = 0 -> {Affine(w.a * v.b, w.b * v.b)}
    [] w.a = 0 -> {Affine(v.a * w.b, v.b * w.b)}
    [] OTHER -> {}

Opposite(rel) ==
  CASE rel = "LT" -> "GE" [] rel = "GE" -> "LT" [] rel = "GT" -> "LE"
    [] rel = "LE" -> "GT" [] rel = "EQ" -> "NE" [] OTHER -> "EQ"

Judged(rel, v) == [rel |-> rel, of |-> v]

ThresholdAfter(ir, f, w, inst) ==
  LET n == inst.dest.name
      left == ScalarOf(ir, f, w, inst.src1)
      both == left \X ScalarOf(ir, f, w, inst.src2)
      truths == {w.truths[m] : m \in {inst.src1.name} \cap DOMAIN w.truths}
      Values(all) == {[w EXCEPT !.scalars = (n :> v) @@ @] : v \in all}
      Truths(all) == {[w EXCEPT !.truths = (n :> t) @@ @] : t \in all}
  IN CASE IsMove(inst) -> IF left # {} THEN Values(left) ELSE Truths(truths)
       [] inst.op \in {"ADD", "SUB", "MUL"} ->
            Values({v \in UNION {ScalarResult(inst.op, p[1], p[2]) : p \in both} : NeverWraps(f, v)})
       [] inst.op \in RelationOps -> Truths({Judged(inst.op, Affine(p[1].a - p[2].a, p[1].b - p[2].b)) : p \in both})
       [] inst.op = "NOT" /\ truths # {} -> Truths({Judged(Opposite(t.rel), t.of) : t \in truths})
       [] inst.op = "NOT" /\ IsLocal(inst.src1) -> Truths({Judged("EQ", v) : v \in left})
       [] OTHER -> {}

ThresholdOf(ir, f) ==
  LET start == [scalars |-> (f.counter.name :> Affine(1, 0)), truths |-> << >>]
      Further(all, inst) ==
        IF EmptyDecl(inst) THEN all ELSE UNION {ThresholdAfter(ir, f, w, inst) : w \in all}
      n == f.fork.guard.src1.name
      Found(w) == CASE n \in DOMAIN w.truths -> {w.truths[n]}
                    [] n \in DOMAIN w.scalars -> {Judged("NE", w.scalars[n])}
                    [] OTHER -> {}
  IN IF OnlyTemps(f.fork.prefix) THEN UNION {Found(w) : w \in FoldLeft(Further, {start}, f.fork.prefix)} ELSE {}

ThresholdTests(ir, f) ==
  {[k \in 1..f.trips |-> Compute(t.rel, AffineAt(t.of, f.initial + k - 1), 0)] : t \in ThresholdOf(ir, f)}

\* What the test is in each iteration.
TestsOf(ir, f) == IF PeriodOfTest(ir, f) # {} THEN RepeatingTests(ir, f) ELSE ThresholdTests(ir, f)

-------------------------------------------------------------------------------
\* The two bodies.
MostForkedVariables == 20

IsLocalAffine(inst) ==
  /\ IsAffineInst(inst) /\ inst.op \notin {"DIV", "MOD"}
  /\ \A o \in {inst.dest, inst.src1, inst.src2} : ~ IsGlobal(o)

CountsByOne(rows, counter) ==
  rows[counter.name] = [UnitRow(DOMAIN rows, counter.name) EXCEPT ![NoName] = 1]

\* All iterations, from the last one back.
ProductRow(f, n) ==
  LET one == f.fork.guard.op = "BEQZ"
      Before(row, k) == RowTimes(row, IF (f.tests[f.trips + 1 - k] # 0) = one THEN f.one ELSE f.other, 0)
  IN FoldLeft(Before, UnitRow(DOMAIN f.one, n), [k \in 1..f.trips |-> k])
ProductRows(f) == [n \in {o.name : o \in StateResults(f)} |-> ProductRow(f, n)]

\* No variable that is read behind the loop is set to a number, and none
\* depends on a temporary.
NothingReset(f) ==
  \A o \in StateResults(f) :
    ~ IsTempName(o.name) => ~ IsConstantRow(f.one[o.name]) /\ ~ IsConstantRow(f.other[o.name])
DependsOnVariables(f) ==
  \A o \in StateResults(f) : LET row == ProductRow(f, o.name) IN \A n \in DOMAIN row : IsTempName(n) => row[n] = 0

ForkedLoopsAt(ir, f) ==
  LET code == f.fork.one \o f.fork.other \o f.fork.common
      variables == AffineVariables(code, f.counter)
      written == NamesWritten(code)
      names == {variables[k].name : k \in 1..Len(variables)} \union {NoName}
      results == {o \in {variables[k] : k \in 1..Len(variables)} : o.name \in written /\ UsedBehind(ir, f.back, o.name)}
      Found(v, w, tests) ==
        [one |-> v.rows, other |-> w.rows, tests |-> tests, variables |-> variables, results |-> results] @@ f
  IN IF /\ \A k \in 1..Len(code) : IsLocalAffine(code[k])
        /\ Len(variables) <= MostForkedVariables /\ f.counter.name \in written
        /\ ~ (IsLocal(f.bound) /\ f.bound.name \in written)
     THEN {s \in {Found(v, w, t) : v \in AffineWalks(f.fork.one \o f.fork.common, names),
                                   w \in AffineWalks(f.fork.other \o f.fork.common, names), t \in TestsOf(ir, f)} :
             /\ CountsByOne(s.one, s.counter) /\ CountsByOne(s.other, s.counter)
             /\ NothingReset(s) /\ DependsOnVariables(s)
             /\ Changing(s, ProductRows(s)) \o CounterMove(s) # << >>}
     ELSE {}

ForkedLoopsOf(ir) == UNION {UNION {ForkedLoopsAt(ir, f) : f \in ForkedShape(ir, i)} : i \in 1..Len(ir)}

ForkedRound(out, k) ==
  LET Gone(f) ==
        LET new == WordsWritten(f, ProductRows(f), out.temps) IN Output(Replaced(out.code, f, new.code), new.temps)
  IN OnLast(out, ForkedLoopsOf(out.code), Gone)

ForkedSummarised(ir, temps) == FoldLeft(ForkedRound, Output(ir, temps), [k \in 1..ClosedFormRounds |-> k])
===============================================================================
