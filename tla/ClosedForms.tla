------------------------------ MODULE ClosedForms -----------------------------
(***************************************************************************)
(* Two more summaries of loops: Pass 5.45, for loops that count to a       *)
(* remainder of the counter of the loop around them, and Pass 5.55, for    *)
(* sums of polynomials in the counter.  Both take the last loop of the     *)
(* text first, and look again when it is gone.  Several sums of one loop    *)
(* are written here in the order of the text, by the code in the order of  *)
(* a hash table.                                                           *)
(***************************************************************************)
EXTENDS LoopSummary

ClosedFormRounds == 8

\* A loop that nobody else jumps into, with a comparison for its condition.
SingleLoop(ir, i, loop) ==
  LET condition == ir[loop.test + 1] IN
  /\ loop.back = loop.test + 2
  /\ condition.op \in {"LT", "LE"} /\ IsLocal(condition.src1)
  /\ Decides(condition, ir[loop.back])
  /\ \A label \in {ir[i].dest, ir[i + 1].dest} : Cardinality(References(ir, label)) = 1

\* Of the loops found, the last one of the text.
LastOf(found) == CHOOSE s \in found : \A t \in found : t.at <= s.at

\* What becomes of the code when something is found: Does what it does with
\* the last of it.
OnLast(out, found, Does(_)) == IF found = {} THEN out ELSE Does(LastOf(found))

\* The loop found at s.at is replaced by the instructions of new.
Replaced(ir, s, new) ==
  SubSeq(ir, 1, s.at - 1) \o new \o SubSeq(ir, Behind(ir, s.back), Len(ir))

\* What an iteration does in front of the step of the counter, its last
\* instruction and the only one that writes the counter.
WorkBeforeStep(body, counter) ==
  LET Works(inst) == ~ EmptyDecl(inst)
      work == SelectSeq(body, Works)
  IN IF /\ work # << >> /\ work[Len(work)] = Inst("ADD", counter, counter, Imm(1))
        /\ \A k \in 1..(Len(work) - 1) : work[k].dest # counter
     THEN {Front(work)} ELSE {}

DefinesIn(body) == {body[k].dest : k \in {m \in 1..Len(body) : WritesLocal(body[m])}}

\* ... and the variable that counts, if it is read behind the loop.
CounterSet(ir, s, value) ==
  IF UsedBehind(ir, s.back, s.counter.name) THEN << Move(s.counter, value) >> ELSE << >>

-------------------------------------------------------------------------------
\* Pass 5.45.  previousDefinition: the last one in the text of the function.
DefinitionBefore(ir, at, o) ==
  LET found == {k \in 1..(at - 1) :
                  /\ WritesLocal(ir[k]) /\ ir[k].dest = o /\ ~ EmptyDecl(ir[k])
                  /\ \A m \in k..(at - 1) : ir[m].op # "FUNC_BEGIN"}
  IN IF found = {} THEN {} ELSE {Max(found)}

IsMove(inst) == inst.op \in {"ASSIGN", "LOCAL_VAR_DECL"}

LastConstant(ir, at, o) ==
  {ir[d].src1.imm : d \in {e \in DefinitionBefore(ir, at, o) : IsMove(ir[e]) /\ IsImm(ir[e].src1)}}

\* Mutant: ... from any constant.
CountsFromAnywhere(ir, k, loop) ==
  LET condition == ir[loop.test + 1]
      counter == condition.src1
      writes == {m \in (k + 2)..(loop.test - 1) : ir[m].dest = counter}
  IN /\ loop.back = loop.test + 2
     /\ condition.op \in {"LT", "LE"} /\ IsLocal(counter) /\ Decides(condition, ir[loop.back])
     /\ EntryConstant(ir, k, counter) # {}
     /\ \E u \in EntryConstant(ir, k, condition.src2) \union LastConstant(ir, k, condition.src2) :
          condition.op = "LE" => u # MaxWord
     /\ Cardinality(writes) = 1
     /\ \A m \in writes : ir[m] = Inst("ADD", counter, counter, Imm(1))

\* The loop at k counts up by one from a constant that is not negative, and
\* cannot wrap.
CountsUp(ir, k, loop) ==
  LET condition == ir[loop.test + 1]
      counter == condition.src1
      writes == {m \in (k + 2)..(loop.test - 1) : ir[m].dest = counter}
  IN /\ loop.back = loop.test + 2
     /\ condition.op \in {"LT", "LE"} /\ IsLocal(counter) /\ Decides(condition, ir[loop.back])
     /\ \E v \in EntryConstant(ir, k, counter) : v >= 0
     /\ \E u \in EntryConstant(ir, k, condition.src2) \union LastConstant(ir, k, condition.src2) :
          condition.op = "LE" => u # MaxWord
     /\ Cardinality(writes) = 1
     /\ \A m \in writes : ir[m] = Inst("ADD", counter, counter, Imm(1))

\* The nearest such loop around the one from i to test: at most one.
OuterLoop(ir, i, test) ==
  LET Around(k) == {l \in InvertedLoop(ir, k) : l.test > test + 2 /\ CountsUp(ir, k, l)}
      around == UNION {{[at |-> k, counter |-> ir[l.test + 1].src1] : l \in Around(k)} :
                         k \in {h \in 1..(i - 1) : \A m \in h..i : ir[m].op # "FUNC_BEGIN"}}
  IN IF around = {} THEN {} ELSE {LastOf(around)}

\* c % k, or c - c / k * k as Pass 0d writes it, computed in the outer loop.
LargestModulus == 1024
Factors(inst) == {<<inst.src1, inst.src2>>, <<inst.src2, inst.src1>>}

ModulusOf(ir, outer, d) ==
  LET Inside(at, o) == {k \in DefinitionBefore(ir, at, o) : k > outer.at + 1}
      counted == outer.counter
  IN CASE d <= outer.at + 1 \/ ir[d].src1 # counted -> {}
       [] ir[d].op = "MOD" /\ IsImm(ir[d].src2) -> {ir[d].src2.imm}
       [] ir[d].op = "SUB" ->
            UNION {{f[2].imm : f \in {h \in Factors(ir[p]) :
                      /\ ir[p].op = "MUL" /\ IsImm(h[2])
                      /\ \E q \in Inside(p, h[1]) :
                           ir[q].op = "DIV" /\ ir[q].src1 = counted /\ ir[q].src2 = h[2]}} :
                     p \in Inside(d, ir[d].src2)}
       [] OTHER -> {}

\* ... behind up to three copies.  A definition in front of this one in the
\* text may still be the one that counts.
RECURSIVE Modulus(_, _, _, _, _)
Modulus(ir, outer, at, o, lookups) ==
  UNION {IF IsMove(ir[d]) /\ IsLocal(ir[d].src1)
         THEN Modulus(ir, outer, d, ir[d].src1, lookups - 1)
         ELSE {k \in ModulusOf(ir, outer, d) : k > 1 /\ k <= LargestModulus} :
           d \in IF lookups = 0 THEN {} ELSE DefinitionBefore(ir, at, o)}

\* What the body adds, in words: nothing follows the step of the counter.
WrappedExpr(e) ==
  [constant |-> Wrap(e.constant), coeffs |-> [n \in DOMAIN e.coeffs |-> Wrap(e.coeffs[n])]]

ShortBodyValues(body, counter, bound) ==
  LET names == LocalsOf(body)
      Further(known, inst) ==
        {[v EXCEPT ![inst.dest.name] = WrappedExpr(@)] :
           v \in UNION {LinearAfter(values, inst) : values \in known}}
  IN UNION {FoldLeft(Further, {[n \in names |-> VariableExpr(n, names)]}, work) :
              work \in {w \in WorkBeforeStep(body, counter) :
                         counter # bound /\ \A k \in 1..Len(w) : w[k].dest # bound}}

\* Every variable of the body that is read behind the loop is a sum.
OnlySums(results, written, counter, values) ==
  /\ results # {}
  /\ \A o \in results :
       /\ o \in written /\ ~ IsTempName(o.name)
       /\ values[o.name].coeffs[o.name] = 1
       /\ \A m \in DOMAIN values \ {o.name, counter.name} : values[o.name].coeffs[m] = 0

RemainderSumsAt(ir, i, loop, values) ==
  LET condition == ir[loop.test + 1]
      counter == condition.src1
      body == LoopBody(ir, i, loop)
      order == WrittenInOrder(body)
      results == {o \in DefinesIn(body) \ {counter} : UsedBehind(ir, loop.back, o.name)}
      IsResult(o) == o \in results
  IN IF OnlySums(results, {order[k] : k \in 1..Len(order)}, counter, values)
     THEN {[at |-> i, back |-> loop.back, counter |-> counter, bound |-> condition.src2,
            values |-> values, sums |-> SelectSeq(order, IsResult)]}
     ELSE {}

RemainderLoop(ir, i, loop) ==
  LET condition == ir[loop.test + 1] IN
  /\ loop.test > i + 2 /\ SingleLoop(ir, i, loop)
  /\ condition.op = "LT" /\ IsLocal(condition.src2)
  /\ EntryConstant(ir, i, condition.src1) = {0}
  /\ \E outer \in OuterLoop(ir, i, loop.test) :
       \E k \in Modulus(ir, outer, i, condition.src2, 4) : (k - 1) * (k - 1) <= MaxWord

RemainderSums(ir) ==
  UNION {UNION {RemainderSumsAt(ir, x[1], x[2], v) :
                  v \in ShortBodyValues(LoopBody(ir, x[1], x[2]),
                                        ir[x[2].test + 1].src1, ir[x[2].test + 1].src2)} :
           x \in UNION {{i} \X {l \in InvertedLoop(ir, i) : RemainderLoop(ir, i, l)} : i \in 1..Len(ir)}}

\* n = n + factor * o.
MultipleAdded(out, n, factor, o) ==
  LET product == Local(<<TempPrefix, out.temps>>)
      Add(x) == Inst("ADD", Local(n), Local(n), x)
  IN CASE factor = 0 -> out
       [] factor = 1 -> [out EXCEPT !.code = Append(@, Add(o))]
       [] OTHER ->
            Output(out.code \o << Inst("MUL", product, o, Imm(factor)), Add(product) >>, out.temps + 1)

\* 0 + 1 + ... + (bound - 1) is computed when some sum needs it.
RemainderWritten(s, temps) ==
  LET Temp(k) == Local(<<TempPrefix, temps + k>>)
      counts == \E k \in 1..Len(s.sums) : s.values[s.sums[k].name].coeffs[s.counter.name] # 0
      triangle == << Inst("SUB", Temp(0), s.bound, Imm(1)), Inst("MUL", Temp(1), s.bound, Temp(0)),
                     Inst("DIV", Temp(2), Temp(1), Imm(2)) >>
      Written(out, o) ==
        LET e == s.values[o.name]
            grown == MultipleAdded(out, o.name, e.coeffs[s.counter.name], Temp(2))
        IN MultipleAdded(grown, o.name, e.constant, s.bound)
  IN FoldLeft(Written, IF counts THEN Output(triangle, temps + 3) ELSE Output(<< >>, temps), s.sums)

RemainderRound(out, k) ==
  LET With(s, new) == Output(Replaced(out.code, s, new.code \o CounterSet(out.code, s, s.bound)), new.temps)
      Gone(s) == With(s, RemainderWritten(s, out.temps))
  IN OnLast(out, RemainderSums(out.code), Gone)

RemaindersSummed(ir, temps) ==
  FoldLeft(RemainderRound, Output(ir, temps), [k \in 1..ClosedFormRounds |-> k])

-------------------------------------------------------------------------------
\* Pass 5.55.  Expressions of powers of the counter, up to the third, and of
\* variables at the start of an iteration: the coefficient of each.
Power(d) == <<"power", d>>
Powers == {Power(d) : d \in 0..3}

Term(names, t, factor) == [m \in Powers \union names |-> IF m = t THEN Wrap(factor) ELSE 0]
SumOf(d, e, scale) == [m \in DOMAIN d |-> Wrap(d[m] + scale * e[m])]
ScaledBy(e, factor) == [m \in DOMAIN e |-> Wrap(e[m] * factor)]
IsNumber(e) == \A m \in DOMAIN e \ {Power(0)} : e[m] = 0
IsPolynomial(e) == \A m \in DOMAIN e \ Powers : e[m] = 0

Products(d, e) ==
  LET Degree(k) == LET Part(l) == d[Power(l)] * e[Power(k - l)] IN MapThenSumSet(Part, 0..k)
  IN CASE IsNumber(d) -> {ScaledBy(e, d[Power(0)])}
       [] IsNumber(e) -> {ScaledBy(d, e[Power(0)])}
       [] ~ IsPolynomial(d) \/ ~ IsPolynomial(e) -> {}
       [] \E k \in 4..6 : \E l \in 0..3 : k - l \in 0..3 /\ d[Power(l)] # 0 /\ e[Power(k - l)] # 0 -> {}
       [] OTHER -> {[m \in DOMAIN d |-> IF m \in Powers THEN Wrap(Degree(m[2])) ELSE 0]}

\* What an operand stands for when the iteration starts: the counter, a
\* constant that nothing else is ever assigned, or itself.
OnlyConstant(ir, at, o) ==
  LET definitions == {k \in DefinitionsOf(ir, at) : ir[k].dest = o}
  IN {ir[k].src1.imm : k \in {d \in definitions :
        definitions = {d} /\ IsMove(ir[d]) /\ IsImm(ir[d].src1)}}

EntryExpr(ir, i, counter, names, n) ==
  LET only == OnlyConstant(ir, i, Local(n))
  IN CASE n = counter.name -> Term(names, Power(1), 1)
       [] only # {} -> Term(names, Power(0), CHOOSE v \in only : TRUE)
       [] OTHER -> Term(names, n, 1)

ExprOf(values, o) ==
  CASE IsImm(o)   -> {Term(DOMAIN values, Power(0), o.imm)}
    [] IsLocal(o) -> {values[o.name]}
    [] OTHER      -> {}

ExprResult(values, inst) ==
  LET both == ExprOf(values, inst.src1) \X ExprOf(values, inst.src2)
  IN CASE IsMove(inst)    -> ExprOf(values, inst.src1)
       [] inst.op = "ADD" -> {SumOf(p[1], p[2], 1) : p \in both}
       [] inst.op = "SUB" -> {SumOf(p[1], p[2], -1) : p \in both}
       [] inst.op = "MUL" -> UNION {Products(p[1], p[2]) : p \in both}
       [] OTHER -> {}

\* The body so far: the variables of this iteration and what they hold, the
\* steps of the counter, and what is added to the other variables, each once.
AddsToItself(e, n) == e[n] = 1 /\ \A m \in DOMAIN e \ (Powers \union {n}) : e[m] = 0
CounterStep(inst) == Wrap(IF inst.op = "ADD" THEN inst.src2.imm ELSE - inst.src2.imm)

PolynomialAfter(work, counter, inst) ==
  LET n == inst.dest.name
      found == IF work.steps = << >> /\ IsLocal(inst.dest) THEN ExprResult(work.values, inst) ELSE {}
  IN CASE EmptyDecl(inst) -> {[work EXCEPT !.own = @ \union {n}]}
       [] Grows(inst) /\ inst.dest = counter /\ IsImm(inst.src2) ->
            {[work EXCEPT !.steps = Append(@, CounterStep(inst))]}
          [] IsTempName(n) \/ n \in work.own ->
            {[work EXCEPT !.values[n] = IF n = counter.name THEN @ ELSE e] : e \in found}
       [] OTHER ->
            {[work EXCEPT !.added = (n :> e) @@ @] :
               e \in {x \in found : n # counter.name /\ n \notin DOMAIN work.added /\ AddsToItself(x, n)}}

PolynomialWork(ir, i, loop, counter) ==
  LET body == LoopBody(ir, i, loop)
      names == LocalsOf(body) \union {counter.name}
      start == [n \in names |-> EntryExpr(ir, i, counter, names, n)]
      Further(known, inst) == UNION {PolynomialAfter(work, counter, inst) : work \in known}
  IN FoldLeft(Further, {[values |-> start, own |-> {}, steps |-> << >>, added |-> << >>]}, body)

\* The trips of the loop, at least two; the counter does not wrap.
KnownTrips(ir, i, condition) ==
  LET nearby == EntryConstant(ir, i, condition.src2)
      uppers == IF nearby # {} THEN nearby ELSE OnlyConstant(ir, i, condition.src2)
  IN {c \in {[initial |-> v, trips |-> u - v + Truth(condition.op = "LE")] :
                v \in EntryConstant(ir, i, condition.src1), u \in uppers} :
        c.trips >= 2 /\ c.initial + c.trips <= MaxWord}

\* The sums of the first powers of 0, 1, ..., count - 1, and of as many
\* numbers from first on: divided before the multiplication wraps.
PowerSum(d, count) ==
  CASE d = 0 -> count
    [] d = 1 -> (count * (count - 1)) \div 2
    [] d = 2 -> (count * (count - 1) * (2 * count - 1)) \div 6
    [] d = 3 -> ((count * (count - 1)) \div 2) * ((count * (count - 1)) \div 2)

PowerSumFrom(d, first, count) ==
  CASE d = 0 -> PowerSum(0, count)
    [] d = 1 -> first * PowerSum(0, count) + PowerSum(1, count)
    [] d = 2 -> first * first * PowerSum(0, count) + 2 * first * PowerSum(1, count) + PowerSum(2, count)
    [] d = 3 -> first * first * first * PowerSum(0, count) + 3 * first * first * PowerSum(1, count)
                  + 3 * first * PowerSum(2, count) + PowerSum(3, count)

PolynomialSum(e, count) ==
  LET Part(d) == Wrap(e[Power(d)] * Wrap(PowerSumFrom(d, count.initial, count.trips)))
  IN Wrap(MapThenSumSet(Part, 0..3))

PolynomialsAt(ir, i, loop) ==
  LET condition == ir[loop.test + 1]
      counter == condition.src1
  IN {[at |-> i, back |-> loop.back, counter |-> counter, count |-> count, added |-> work.added] :
        count \in KnownTrips(ir, i, condition),
        work \in {w \in PolynomialWork(ir, i, loop, counter) :
                    /\ w.steps = << 1 >>
                    /\ \E n \in DOMAIN w.added : \E d \in 2..3 : w.added[n][Power(d)] # 0
                    /\ IsLocal(condition.src2) => condition.src2.name \notin DOMAIN w.added}}

PolynomialSums(ir) ==
  UNION {UNION {PolynomialsAt(ir, i, l) : l \in {m \in InvertedLoop(ir, i) : SingleLoop(ir, i, m)}} :
           i \in 1..Len(ir)}

PolynomialWritten(ir, s) ==
  LET Read(n) == UsedBehind(ir, s.back, n) /\ PolynomialSum(s.added[n], s.count) # 0
      read == SetToSeq({n \in DOMAIN s.added : Read(n)})
  IN [k \in 1..Len(read) |->
        Inst("ADD", Local(read[k]), Local(read[k]), Imm(PolynomialSum(s.added[read[k]], s.count)))]
       \o CounterSet(ir, s, Imm(s.count.initial + s.count.trips))

PolynomialRound(ir, k) ==
  LET Gone(s) == Replaced(ir, s, PolynomialWritten(ir, s)) IN OnLast(ir, PolynomialSums(ir), Gone)

PolynomialsSummed(ir) == FoldLeft(PolynomialRound, ir, [k \in 1..ClosedFormRounds |-> k])
===============================================================================
