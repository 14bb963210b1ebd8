------------------------------ MODULE QuotientSums ----------------------------
(***************************************************************************)
(* Summaries of loops that add quotients and remainders of their counter:  *)
(* Pass 5.555 (quotients, summed by their buckets), Pass 5.56 (what        *)
(* repeats with the remainders, computed for one period) and Pass 5.565    *)
(* (remainders of the counter and a number that is not negative, computed  *)
(* when the loop is reached).                                              *)
(***************************************************************************)
EXTENDS ClosedForms

\* The loops these passes look at: a trip count that is known, and a bound that
\* the body does not write.
KnownLoop(at, loop, counter, count) ==
  [at |-> at, test |-> loop.test, back |-> loop.back, counter |-> counter, count |-> count]

LoopsWithBounds(ir) ==
  UNION {UNION {LET condition == ir[l.test + 1]
                IN {KnownLoop(i, l, condition.src1, c) : c \in KnownTrips(ir, i, condition)} :
                  l \in {m \in InvertedLoop(ir, i) : SingleLoop(ir, i, m)}} :
           i \in 1..Len(ir)}

KnownLoops(ir) ==
  {l \in LoopsWithBounds(ir) : ir[l.test + 1].src2 \notin DefinesIn(LoopBody(ir, l.at, l))}

LastCount(loop) == loop.count.initial + loop.count.trips

\* The counter and an offset stay between 0 and the largest number.
RangeSafe(loop, offset) == loop.count.initial + offset >= 0 /\ LastCount(loop) - 1 + offset <= MaxWord

\* The work of a body whose values, whose accumulators so far and whose
\* other variables are known.
NoSums(counter, start) == [values |-> (counter.name :> start), sums |-> << >>, derived |-> {}]
WithSum(work, n, sum) ==
  [work EXCEPT !.sums = Append(@, sum), !.values = [m \in DOMAIN @ \ {n} |-> @[m]]]
WithValue(work, n, v) ==
  [work EXCEPT !.values = (n :> v) @@ @, !.derived = IF IsTempName(n) THEN @ ELSE @ \union {n}]

IsSelf(inst, o) == IsLocal(o) /\ o = inst.dest
GrowsItself(inst) ==
  \/ inst.op = "ADD" /\ (IsSelf(inst, inst.src1) \/ IsSelf(inst, inst.src2))
  \/ inst.op = "SUB" /\ IsSelf(inst, inst.src1) /\ ~ IsSelf(inst, inst.src2)
Grown(inst) == IF IsSelf(inst, inst.src1) THEN inst.src2 ELSE inst.src1

\* Something is summed, and nothing else of the body is read behind the loop.
OnlySumsUsed(ir, loop, work) ==
  work.sums # << >> /\ \A n \in work.derived : ~ UsedBehind(ir, loop.back, n)

\* The body in front of the step of the counter, which is its end.
BodyBeforeStep(ir, loop) == WorkBeforeStep(LoopBody(ir, loop.at, loop), loop.counter)

\* What is left of the loop: additions, and the counter if it is read.
Additions(ir, loop, names, delta) ==
  LET Adds(n) == UsedBehind(ir, loop.back, n) /\ delta[n] # 0
      added == SelectSeq(names, Adds)
  IN [k \in 1..Len(added) |-> Inst("ADD", Local(added[k]), Local(added[k]), Imm(delta[added[k]]))]
       \o CounterSet(ir, loop, Imm(LastCount(loop)))

-------------------------------------------------------------------------------
\* Pass 5.555.  A value is a constant, the counter plus an offset, or a
\* multiple of (counter + offset) / divisor plus variables and a constant.
Constant(v)    == [kind |-> "constant", value |-> v]
Counter(offset) == [kind |-> "counter", offset |-> offset]
Bucket(offset, divisor, factor, constant, states) ==
  [kind |-> "bucket", offset |-> offset, divisor |-> divisor, factor |-> factor,
   constant |-> constant, states |-> states]

IsConstant(v) == v.kind = "constant"
IsCounter(v)  == v.kind = "counter"
HasBucket(v)  == v.kind = "bucket" /\ v.factor # 0
AsBucket(v)   == IF IsConstant(v) THEN Bucket(0, 1, 0, v.value, << >>) ELSE v

Unvarying(ir, at, o) == {Constant(v) : v \in OnlyConstant(ir, at, o)}

BucketOf(ir, loop, work, o) ==
  CASE IsImm(o) -> {Constant(o.imm)}
    [] ~ IsLocal(o) -> {}
    [] o.name \in DOMAIN work.values -> {work.values[o.name]}
    [] Unvarying(ir, loop.at, o) # {} -> Unvarying(ir, loop.at, o)
    [] ~ IsTempName(o.name) -> {Bucket(0, 1, 0, 0, (o.name :> 1))}
    [] OTHER -> {}

\* Multiples of variables; a zero stays where only one side has one.
Multiples(d, e, scale) ==
  LET Of(c, n) == IF n \in DOMAIN c THEN c[n] ELSE 0
      sum == [n \in DOMAIN d \union DOMAIN e |-> Wrap(Of(d, n) + scale * Of(e, n))]
  IN [n \in {m \in DOMAIN sum : m \in DOMAIN e => sum[m] # 0} |-> sum[n]]

Compatible(d, e) ==
  HasBucket(d) /\ HasBucket(e) => d.offset = e.offset /\ d.divisor = e.divisor

BucketSum(d, e, scale) ==
  LET source == IF HasBucket(d) THEN d ELSE e
  IN Bucket(source.offset, source.divisor, Wrap(d.factor + scale * e.factor),
            Wrap(d.constant + scale * e.constant), Multiples(d.states, e.states, scale))

BucketScaled(d, v) ==
  Bucket(d.offset, d.divisor, Wrap(d.factor * v), Wrap(d.constant * v),
         [n \in DOMAIN d.states |-> Wrap(d.states[n] * v)])

Shifted(loop, v, by) == {Counter(v.offset + b) : b \in {c \in {by} : RangeSafe(loop, v.offset + c)}}

BucketResult(loop, op, d, e) ==
  LET scale == IF op = "ADD" THEN 1 ELSE -1 IN
  CASE op \in {"ADD", "SUB"} /\ IsConstant(d) /\ IsConstant(e) -> {Constant(Compute(op, d.value, e.value))}
    [] op \in {"ADD", "SUB"} /\ IsCounter(d) /\ IsConstant(e) -> Shifted(loop, d, scale * e.value)
    [] op = "ADD" /\ IsConstant(d) /\ IsCounter(e) -> Shifted(loop, e, d.value)
    [] op \in {"ADD", "SUB"} /\ ~ IsCounter(d) /\ ~ IsCounter(e) ->
         {BucketSum(AsBucket(p[1]), AsBucket(p[2]), scale) : p \in {q \in {<<d, e>>} : Compatible(d, e)}}
    [] op = "MUL" /\ d.kind = "bucket" /\ IsConstant(e) -> {BucketScaled(d, e.value)}
    [] op = "MUL" /\ IsConstant(d) /\ e.kind = "bucket" -> {BucketScaled(e, d.value)}
    [] op = "DIV" /\ IsCounter(d) /\ IsConstant(e) ->
         {Bucket(d.offset, Magnitude(v), IF v < 0 THEN -1 ELSE 1, 0, << >>) :
            v \in {w \in {e.value} : w \notin {0, MinWord} /\ RangeSafe(loop, d.offset)}}
    [] OTHER -> {}

BucketResults(ir, loop, work, inst) ==
  LET left == BucketOf(ir, loop, work, inst.src1)
      right == BucketOf(ir, loop, work, inst.src2)
  IN IF IsMove(inst) THEN left
     ELSE UNION {BucketResult(loop, inst.op, p[1], p[2]) : p \in left \X right}

\* A variable of the program that grows by a bucket is a sum.
SummedBucket(inst, grown, results) ==
  LET scale == IF inst.op = "SUB" THEN -1 ELSE 1
      direct == {v \in grown : GrowsItself(inst) /\ HasBucket(v) /\ v.states = << >>}
  IN IF IsTempName(inst.dest.name) THEN {}
     ELSE IF direct # {} THEN {BucketScaled(v, scale) : v \in direct}
     ELSE {v \in results : HasBucket(v) /\ v.states = (inst.dest.name :> 1)}

BucketsAfter(ir, loop, work, inst) ==
  LET n == inst.dest.name
      Known(results) == {WithValue(work, n, v) :
                           v \in {w \in results : w.kind = "bucket" /\ w.states # << >> => IsTempName(n)}}
      After(sums, results) ==
        IF sums = {} THEN Known(results)
        ELSE {WithSum(work, n, [name |-> n, offset |-> v.offset, divisor |-> v.divisor,
                                factor |-> v.factor, constant |-> v.constant]) : v \in sums}
      Of(results) == After(SummedBucket(inst, BucketOf(ir, loop, work, Grown(inst)), results), results)
  IN Of(BucketResults(ir, loop, work, inst))

\* 0 / divisor + 1 / divisor + ... + (count - 1) / divisor.
QuotientPrefix(count, divisor) ==
  LET quotient == count \div divisor
      remainder == count % divisor
  IN divisor * ((quotient * (quotient - 1)) \div 2) + quotient * remainder

BucketDelta(loop, sum) ==
  LET first == loop.count.initial + sum.offset
      trips == loop.count.trips
      quotients == QuotientPrefix(first + trips, sum.divisor) - QuotientPrefix(first, sum.divisor)
  IN Wrap(Wrap(quotients) * sum.factor) + Wrap(trips * sum.constant)

BucketWork(ir, loop) ==
  LET Further(known, inst) ==
        UNION {BucketsAfter(ir, loop, work, inst) : work \in {k \in known : IsLocal(inst.dest)}}
  IN UNION {{w \in FoldLeft(Further, {NoSums(loop.counter, Counter(0))}, body) : OnlySumsUsed(ir, loop, w)} :
              body \in BodyBeforeStep(ir, loop)}

BucketLoops(ir) ==
  UNION {{[loop |-> l, at |-> l.at, work |-> w] : w \in BucketWork(ir, l)} :
           l \in {m \in KnownLoops(ir) : m.count.trips <= MaxWord}}

\* Each sum once, where it is first added to.
SumNames(sums) == LET First(out, sum) == IF Contains(out, sum.name) THEN out ELSE Append(out, sum.name)
                  IN FoldLeft(First, << >>, sums)

BucketsWritten(ir, s) ==
  LET sums == s.work.sums
      Part(n, k) == IF sums[k].name = n THEN BucketDelta(s.loop, sums[k]) ELSE 0
      Delta(n) == LET Of(k) == Part(n, k) IN Wrap(MapThenSumSet(Of, 1..Len(sums)))
      names == SumNames(sums)
  IN Additions(ir, s.loop, names, [n \in {names[k] : k \in 1..Len(names)} |-> Delta(n)])

\* A round: the last loop of the text that the pass applies to.
BucketRound(ir, k) ==
  LET Gone(s) == Replaced(ir, s.loop, BucketsWritten(ir, s)) IN OnLast(ir, BucketLoops(ir), Gone)
BucketsSummed(ir) == FoldLeft(BucketRound, ir, [k \in 1..ClosedFormRounds |-> k])

-------------------------------------------------------------------------------
\* Pass 5.56.  A value is a constant, the counter plus an offset, its
\* quotient by some divisor, that times the divisor, or it repeats.
Quotient(offset, divisor) == [kind |-> "quotient", offset |-> offset, divisor |-> divisor]
Product(offset, divisor)  == [kind |-> "product", offset |-> offset, divisor |-> divisor]
Periodic(period)          == [kind |-> "periodic", period |-> period]

LargestPeriod == 1024

Repeats(v) == v.kind \in {"constant", "periodic"}
PeriodOf(v) == IF v.kind = "periodic" THEN v.period ELSE 1

\* The least common multiple, if it is not too large.
Gcd[m \in Nat, n \in Nat] == IF n = 0 THEN m ELSE Gcd[n, m % n]
CombinedPeriod(m, n) == {l \in {m * (n \div Gcd[m, n])} : l <= LargestPeriod}

PeriodicOf(ir, loop, work, o) ==
  CASE IsImm(o) -> {Constant(o.imm)}
    [] ~ IsLocal(o) -> {}
    [] o.name \in DOMAIN work.values -> {work.values[o.name]}
    [] OTHER -> Unvarying(ir, loop.at, o)

SmallPeriod(divisor) == {Periodic(q) : q \in {r \in {Magnitude(divisor)} : r <= LargestPeriod}}

PeriodicSpecial(loop, op, d, e) ==
  LET divides == IsCounter(d) /\ IsConstant(e) /\ e.value \notin {0, 1, -1, MinWord} /\ RangeSafe(loop, d.offset)
  IN CASE op = "ADD" /\ IsCounter(d) /\ IsConstant(e) -> {Counter(Wrap(d.offset + e.value))}
       [] op = "SUB" /\ IsCounter(d) /\ IsConstant(e) -> {Counter(Wrap(d.offset - e.value))}
       [] op = "ADD" /\ IsConstant(d) /\ IsCounter(e) -> {Counter(Wrap(e.offset + d.value))}
       [] op = "DIV" /\ divides -> {Quotient(d.offset, e.value)}
       [] op = "MOD" /\ divides -> SmallPeriod(e.value)
       [] op = "MUL" /\ d.kind = "quotient" /\ e = Constant(d.divisor) -> {Product(d.offset, d.divisor)}
       [] op = "MUL" /\ e.kind = "quotient" /\ d = Constant(e.divisor) -> {Product(e.offset, e.divisor)}
       [] op = "SUB" /\ IsCounter(d) /\ e.kind = "product" /\ d.offset = e.offset -> SmallPeriod(e.divisor)
       [] OTHER -> {}

Evaluable(op, l, r) == op \in {"DIV", "MOD"} => r # 0 /\ ~ (l = MinWord /\ r = -1)
Evaluated(op, l, r) == {Compute(op, q[1], q[2]) : q \in {p \in {<<l, r>>} : Evaluable(op, l, r)}}

PeriodicResult(loop, op, d, e) ==
  LET special == PeriodicSpecial(loop, op, d, e) IN
  CASE special # {} -> special
    [] op \notin BinaryOps \/ ~ Repeats(d) \/ ~ Repeats(e) -> {}
    [] IsConstant(d) /\ IsConstant(e) -> {Constant(v) : v \in Evaluated(op, d.value, e.value)}
    [] OTHER -> {Periodic(q) : q \in CombinedPeriod(PeriodOf(d), PeriodOf(e))}

PeriodicResults(ir, loop, work, inst) ==
  LET left == PeriodicOf(ir, loop, work, inst.src1)
      right == PeriodicOf(ir, loop, work, inst.src2)
  IN CASE IsMove(inst) -> left
       [] inst.op = "NOT" -> {IF IsConstant(v) THEN Constant(Truth(v.value = 0)) ELSE v :
                                v \in {w \in left : Repeats(w)}}
       [] OTHER -> UNION {PeriodicResult(loop, inst.op, p[1], p[2]) : p \in left \X right}

\* A variable of unknown value that grows by what repeats is a sum, once.
PeriodicAfter(ir, loop, work, inst) ==
  LET n == inst.dest.name
      deltas == {v \in PeriodicOf(ir, loop, work, Grown(inst)) :
                   /\ GrowsItself(inst) /\ v.kind = "periodic"
                   /\ PeriodicOf(ir, loop, work, inst.dest) = {}}
  IN IF deltas # {}
     THEN {WithSum(work, n, [name |-> n, delta |-> Grown(inst), period |-> v.period,
                             sign |-> IF inst.op = "SUB" THEN -1 ELSE 1]) :
             v \in {w \in deltas : \A k \in 1..Len(work.sums) : work.sums[k].name # n}}
     ELSE {WithValue(work, n, v) : v \in PeriodicResults(ir, loop, work, inst)}

PeriodicWork(ir, loop) ==
  LET Further(known, inst) ==
        UNION {PeriodicAfter(ir, loop, work, inst) : work \in {k \in known : IsLocal(inst.dest)}}
  IN UNION {{w \in FoldLeft(Further, {NoSums(loop.counter, Counter(0))}, body) : OnlySumsUsed(ir, loop, w)} :
              body \in BodyBeforeStep(ir, loop)}

\* The period of all sums together.
CommonPeriod(sums) ==
  LET Further(known, sum) == UNION {CombinedPeriod(m, sum.period) : m \in known}
  IN FoldLeft(Further, {1}, sums)

\* One iteration with numbers: what it adds to the sums.
ConcreteOf(ir, loop, known, o) ==
  CASE IsImm(o) -> {o.imm}
    [] ~ IsLocal(o) -> {}
    [] o.name \in DOMAIN known -> {known[o.name]}
    [] OTHER -> OnlyConstant(ir, loop.at, o)

ConcreteResult(ir, loop, known, inst) ==
  LET left == ConcreteOf(ir, loop, known, inst.src1)
      right == ConcreteOf(ir, loop, known, inst.src2)
  IN CASE IsMove(inst) -> left
       [] inst.op = "NOT" -> {Truth(v = 0) : v \in left}
       [] OTHER -> UNION {Evaluated(inst.op, p[1], p[2]) : p \in left \X right}

\* Sums keep what they grow by under their own name.
Phase(ir, loop, sums, body, count) ==
  LET Sum(n) == {k \in 1..Len(sums) : sums[k].name = n}
      Result(known, inst) ==
        UNION {IF k = 0 THEN ConcreteResult(ir, loop, known, inst)
               ELSE {Wrap(sums[k].sign * v) : v \in ConcreteOf(ir, loop, known, sums[k].delta)} :
                 k \in IF Sum(inst.dest.name) = {} THEN {0} ELSE Sum(inst.dest.name)}
      Further(all, inst) ==
        UNION {{(inst.dest.name :> v) @@ known : v \in Result(known, inst)} : known \in all}
  IN FoldLeft(Further, {(loop.counter.name :> count)}, body)

Phases(ir, loop, sums, period) ==
  LET body == CHOOSE b \in BodyBeforeStep(ir, loop) : TRUE
  IN [k \in 1..period |-> Phase(ir, loop, sums, body, loop.count.initial + k - 1)]

PeriodicLoops(ir) ==
  UNION {UNION {UNION {{[loop |-> l, at |-> l.at, sums |-> w.sums,
                         phases |-> [k \in 1..q |-> CHOOSE v \in p[k] : TRUE]] :
                          p \in {f \in {Phases(ir, l, w.sums, q)} : \A k \in 1..q : f[k] # {}}} :
                   q \in {r \in CommonPeriod(w.sums) : l.count.initial + r - 1 <= MaxWord}} :
                  w \in PeriodicWork(ir, l)} :
           l \in {m \in KnownLoops(ir) : m.count.initial >= 0}}

\* All complete periods, and the phases of the last one.
PeriodicDelta(s, n) ==
  LET Of(k) == s.phases[k][n]
      period == Len(s.phases)
      trips == s.loop.count.trips
  IN Wrap(Wrap(MapThenSumSet(Of, 1..period)) * (trips \div period)
            + MapThenSumSet(Of, 1..(trips % period)))

PeriodicWritten(ir, s) ==
  LET names == SumNames(s.sums)
  IN Additions(ir, s.loop, names, [n \in {names[k] : k \in 1..Len(names)} |-> PeriodicDelta(s, n)])

PeriodicRound(ir, k) ==
  LET Gone(s) == Replaced(ir, s.loop, PeriodicWritten(ir, s)) IN OnLast(ir, PeriodicLoops(ir), Gone)
PeriodsSummed(ir) == FoldLeft(PeriodicRound, ir, [k \in 1..ClosedFormRounds |-> k])

-------------------------------------------------------------------------------
\* Pass 5.565.  proveNonNegative: the variables of the function that no
\* definition makes negative, as long as sums and products do not wrap.
NotNegative(known, inst, o) ==
  IF IsImm(o) THEN o.imm >= 0 ELSE o = inst.dest \/ o \in known

KeepsSign(known, inst) ==
  LET left == NotNegative(known, inst, inst.src1)
      right == NotNegative(known, inst, inst.src2)
  IN CASE IsMove(inst) -> left
       [] inst.op \in {"ADD", "MUL"} -> left /\ right
       [] inst.op \in {"DIV", "MOD"} -> left /\ IsImm(inst.src2) /\ inst.src2.imm > 0
       [] OTHER -> inst.op \in RelationOps \union {"NOT"}

\* A first value that does not come from the variable itself.
Grounded(inst) ==
  CASE IsMove(inst) -> inst.src1 # inst.dest
    [] inst.op \in ArithmeticOps -> inst.dest \notin {inst.src1, inst.src2}
    [] OTHER -> TRUE

\* The code remembers a variable that it met while it looked at one whose
\* definitions read it as not proven; then it proves less than this.
RECURSIVE ProvenFrom(_, _, _)
ProvenFrom(ir, definitions, known) ==
  LET Of(o) == {k \in definitions : ir[k].dest = o}
      next == {o \in {ir[k].dest : k \in definitions} :
                 /\ \A k \in Of(o) : KeepsSign(known, ir[k])
                 /\ \E k \in Of(o) : Grounded(ir[k])}
  IN IF next = known THEN known ELSE ProvenFrom(ir, definitions, next)

NonNegative(ir, at) == ProvenFrom(ir, DefinitionsOf(ir, at), {})

\* (base + counter) % modulus, as Pass 0d leaves it, from instruction k on.
BaseOf(add, counter) ==
  CASE add.op # "ADD" \/ ~ IsLocal(add.dest) -> {}
    [] add.src1 = counter -> {add.src2}
    [] add.src2 = counter -> {add.src1}
    [] OTHER -> {}

RemainderChain(ir, loop, k) ==
  LET divided == ir[k].dest
      by == ir[k + 1].src2
      written == DefinesIn(LoopBody(ir, loop.at, loop))
      Invariant(o) == IF IsImm(o) THEN o.imm >= 0 ELSE o \notin written /\ o \in NonNegative(ir, loop.at)
      follows ==
        /\ ir[k + 1] = Inst("DIV", ir[k + 1].dest, divided, by) /\ IsLocal(ir[k + 1].dest)
        /\ IsImm(by) /\ by.imm > 1
        /\ ir[k + 2] = Inst("MUL", ir[k + 2].dest, ir[k + 1].dest, by) /\ IsLocal(ir[k + 2].dest)
        /\ ir[k + 3] = Inst("SUB", ir[k + 3].dest, divided, ir[k + 2].dest) /\ IsLocal(ir[k + 3].dest)
  IN {[at |-> k, base |-> o, remainder |-> ir[k + 3].dest, modulus |-> by.imm] :
        o \in {b \in BaseOf(ir[k], loop.counter) : follows /\ Invariant(b)}}

FirstChain(ir, loop) ==
  LET places == {k \in (loop.at + 2)..(loop.test - 4) : RemainderChain(ir, loop, k) # {}}
  IN IF places = {} THEN {} ELSE RemainderChain(ir, loop, Min(places))

AddsRemainder(inst, chain) ==
  inst.op = "ADD" /\ inst.src1 = inst.dest /\ IsLocal(inst.dest) /\ inst.src2 = chain.remainder

\* if (guard) sum = sum + remainder, from instruction k on.
GuardedSum(ir, loop, chain, k) ==
  /\ k \in (loop.at + 2)..(loop.test - 3)
  /\ ir[k].op = "BEQZ" /\ IsLocal(ir[k].src1)
  /\ AddsRemainder(ir[k + 1], chain)
  /\ ir[k + 2].op = "LABEL" /\ ir[k + 2].dest = ir[k].dest
  /\ Cardinality(References(ir, ir[k].dest)) = 1
  /\ ir[k].src1 \notin DefinesIn(LoopBody(ir, loop.at, loop))

\* The body is the remainder, the step of the counter and additions, in any
\* order.
OnlyRemainders(ir, loop, chain) ==
  LET links == chain.at..(chain.at + 3)
      body == (loop.at + 2)..(loop.test - 1) \ links
      steps == {k \in body : ir[k] = Inst("ADD", loop.counter, loop.counter, Imm(1))}
      guarded == {k \in body : GuardedSum(ir, loop, chain, k)}
      direct == {k \in body : AddsRemainder(ir[k], chain) /\ k - 1 \notin guarded}
      known == steps \union direct \union UNION {k..(k + 2) : k \in guarded}
  IN IF /\ Cardinality(steps) = 1 /\ direct \union guarded # {}
        /\ \A k \in body \ known : EmptyDecl(ir[k])
        /\ \A k \in links : ~ UsedBehind(ir, loop.back, ir[k].dest.name)
     THEN {[loop |-> loop, at |-> loop.at, chain |-> chain,
            direct |-> SetToSortSeq(direct, <), guarded |-> SetToSortSeq(guarded, <)]}
     ELSE {}

\* What does not depend on the base.
ConstantPart(loop, modulus) ==
  LET periods == loop.count.trips \div modulus
      rest == loop.count.trips % modulus
  IN periods * ((modulus * (modulus - 1)) \div 2) + (rest * (rest - 1)) \div 2

OffsetLoops(ir) ==
  UNION {UNION {OnlyRemainders(ir, x[1], x[2]) :
                  x \in {l} \X {c \in FirstChain(ir, l) :
                                /\ ConstantPart(l, c.modulus) <= MaxWord
                                /\ l.count.trips * (c.modulus - 1) <= MaxWord
                                /\ IsImm(c.base) => c.base.imm + l.count.initial <= MaxWord}} :
           l \in {m \in KnownLoops(ir) : m.count.initial >= 0}}

\* The remainder of the base; what the incomplete period adds; and less the
\* modulus for each number of it that is wrapped.  One variable holds each.
OffsetWritten(ir, s, temps) ==
  LET m == s.chain.modulus
      rest == s.loop.count.trips % m
      constant == ConstantPart(s.loop, m)
      initial == s.loop.count.initial
      moves == initial # 0 /\ ~ IsImm(s.chain.base)
      Result(k) == Local(<<TempPrefix, temps + k>>)
      remainder == IF moves THEN 1 ELSE 0
      scaled == IF rest = 1 THEN remainder ELSE remainder + 1
      partial == IF constant = 0 THEN scaled ELSE scaled + 1
      start == IF moves THEN << Inst("ADD", Result(0), s.chain.base, Imm(initial)) >> ELSE << >>
      base == CASE moves -> Result(0)
                [] IsImm(s.chain.base) -> Imm(s.chain.base.imm + initial)
                [] OTHER -> s.chain.base
      Of(op, k, l, o) == << Inst(op, Result(k), Result(l), o) >>
      all == IF rest = 0 THEN start
             ELSE start \o << Inst("MOD", Result(remainder), base, Imm(m)) >>
                    \o (IF rest = 1 THEN << >> ELSE Of("MUL", scaled, remainder, Imm(rest)))
                    \o (IF constant = 0 THEN << >> ELSE Of("ADD", partial, scaled, Imm(constant)))
                    \o Of("ADD", partial + 1, remainder, Imm(rest - m))
                    \o Of("GT", partial + 2, partial + 1, Imm(0))
                    \o Of("MUL", partial + 3, partial + 1, Result(partial + 2))
                    \o Of("MUL", partial + 4, partial + 3, Imm(m))
                    \o Of("SUB", partial + 5, partial, Result(partial + 4))
      Grow(o) == Inst("ADD", o, o, IF rest = 0 THEN Imm(constant) ELSE Result(partial + 5))
      direct == [k \in 1..Len(s.direct) |-> Grow(ir[s.direct[k]].dest)]
      guarded == [k \in 1..Len(s.guarded) |->
                    << ir[s.guarded[k]], Grow(ir[s.guarded[k] + 1].dest), ir[s.guarded[k] + 2] >>]
  IN [code |-> all \o direct \o FlattenSeq(guarded) \o CounterSet(ir, s.loop, Imm(LastCount(s.loop))),
      temps |-> temps + IF rest = 0 THEN Len(start) ELSE partial + 6]

OffsetRound(out, k) ==
  LET With(s, new) == Output(Replaced(out.code, s.loop, new.code), new.temps)
      Gone(s) == With(s, OffsetWritten(out.code, s, out.temps))
  IN OnLast(out, OffsetLoops(out.code), Gone)

OffsetsSummed(ir, temps) ==
  FoldLeft(OffsetRound, Output(ir, temps), [k \in 1..ClosedFormRounds |-> k])
===============================================================================
