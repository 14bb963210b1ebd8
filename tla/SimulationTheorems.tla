-------------------------- MODULE SimulationTheorems --------------------------
(***************************************************************************)
(* Passes 0b and 0c of optimizePass rewrite one instruction at a time.     *)
(* For every program, every word size and all inputs the rewritten code    *)
(* computes what the original code computes, as long as that has a         *)
(* meaning.                                                                *)
(*                                                                         *)
(* The two run side by side, an instruction each in every step.  The       *)
(* original decides freely whether a declaration without initialiser       *)
(* leaves its variable without a value; in the rewritten code it does      *)
(* nothing.                                                                *)
(***************************************************************************)
EXTENDS Algebra, IRMachine, TLAPS

VARIABLES
  original,  \* the code in front of the pass
  rewritten, \* the code behind it
  source,    \* the machine that runs the original code
  compiled   \* the machine that runs the rewritten code

vars == <<original, rewritten, source, compiled>>

BeginsOf(ir, f) == {i \in 1..Len(ir) : ir[i].op = "FUNC_BEGIN" /\ ir[i].dest.name = f}

\* Code as generate leaves it: constants are words, globals are declared, the
\* control stays inside, and functions and labels are there once.
IsCode(ir) ==
  /\ ir \in Seq(Range(ir))
  /\ ir # << >> /\ ir[Len(ir)].op \in {"FUNC_END", "GLOBAL_VAR_DECL"}
  /\ \A f \in FunctionsOf(ir) : \E k \in 1..Len(ir) : BeginsOf(ir, f) = {k}
  /\ \A i \in 1..Len(ir) :
       /\ \A o \in {ir[i].dest, ir[i].src1, ir[i].src2} :
            /\ IsImm(o) => o.imm \in Word
            /\ IsGlobal(o) => o.name \in GlobalsOf(ir)
       /\ ir[i].op \in BranchOps => \E k \in 1..Len(ir) : PlaceOf(ir, ir[i].dest) = {k}
       /\ ir[i].op = "CALL" => ir[i].src1.name \in FunctionsOf(ir)

Init ==
  /\ IsCode(original)
  /\ rewritten \in {MapCode(original, Folded), MapCode(original, Algebraic)}
  /\ \E f \in FunctionsOf(original), actuals \in Seq(Word), globals \in [GlobalsOf(original) -> Word] :
       /\ source = Start(original, f, actuals, globals)
       /\ compiled = Start(rewritten, f, actuals, globals)

\* A parameter has an argument.
FindsArgument == IsParamDecl(original[source.pc]) => source.actuals # << >>

Next ==
  /\ source.status = "running" /\ FindsArgument
  /\ \E fresh \in BOOLEAN : source' = Step(original, source, fresh)
  /\ compiled' = Step(rewritten, compiled, FALSE)
  /\ UNCHANGED <<original, rewritten>>

Spec == Init /\ [][Next]_vars

\* The two end together, and then the one implements the other.
MeaningKept ==
  source.status # "meaningless" => compiled.status = source.status /\ Implements(compiled, source)

-------------------------------------------------------------------------------
(***************************************************************************)
(* The invariant: the two machines are at the same place, and every value  *)
(* that the source has, the compiled code has too.                         *)
(***************************************************************************)
Value == Word \union {Undefined}

\* The machine of a function that waits for a call.
Callers(ir) ==
  [pc : {i \in 1..Len(ir) : ir[i].op = "CALL"}, locals : [LocalsOf(ir) -> Value], actuals : Seq(Value)]

IsRecord(m) ==
  m = [pc |-> m.pc, locals |-> m.locals, actuals |-> m.actuals, pending |-> m.pending,
       callers |-> m.callers, globals |-> m.globals, status |-> m.status, value |-> m.value]

IsMachine(ir, m) ==
  /\ IsRecord(m)
  /\ m.pc \in 1..Len(ir)
  /\ m.locals \in [LocalsOf(ir) -> Value] /\ m.globals \in [GlobalsOf(ir) -> Value]
  /\ m.actuals \in Seq(Value) /\ m.pending \in Seq(Value) /\ m.value \in Value
  /\ m.callers \in Seq(Callers(ir))

\* The code may have a value where the source has none.
Covers(v, w) == v \in {Undefined, w}
AllCovered(s, t) == Len(s) = Len(t) /\ \A k \in 1..Len(s) : Covers(s[k], t[k])
LocalsCovered(ir, l, m) == \A n \in LocalsOf(ir) : Covers(l[n], m[n])

CallersCovered(ir, s, t) ==
  /\ Len(s) = Len(t)
  /\ \A k \in 1..Len(s) :
       /\ s[k].pc = t[k].pc
       /\ LocalsCovered(ir, s[k].locals, t[k].locals)
       /\ AllCovered(s[k].actuals, t[k].actuals)

\* c, a machine of q, does what s, a machine of p, does.
Simulates(p, q, s, c) ==
  /\ IsMachine(p, s) /\ IsMachine(q, c)
  /\ c.pc = s.pc /\ c.status = s.status /\ Covers(s.value, c.value)
  /\ LocalsCovered(q, s.locals, c.locals)
  /\ AllCovered(s.actuals, c.actuals) /\ AllCovered(s.pending, c.pending)
  /\ CallersCovered(q, s.callers, c.callers)
  /\ \A g \in GlobalsOf(p) : Covers(s.globals[g], c.globals[g])

Replacements(inst) == {inst, Folded(inst), Algebraic(inst)}

\* q is p with some instructions replaced.
Rewrites(p, q) ==
  /\ q \in Seq(Range(q)) /\ Len(q) = Len(p)
  /\ \A i \in 1..Len(p) : q[i] \in Replacements(p[i])

Inductive ==
  /\ IsCode(original) /\ Rewrites(original, rewritten)
  /\ source.status # "meaningless" => Simulates(original, rewritten, source, compiled)

-------------------------------------------------------------------------------
(***************************************************************************)
(* One instruction.                                                        *)
(***************************************************************************)
\* What an operation gives where its operands have values.
LEMMA ResultOfWords ==
  ASSUME NEW op \in BinaryOps, NEW a \in Word, NEW b \in Word
  PROVE  Result(op, a, b) = Compute(op, a, b)
BY UndefinedIsNoValue DEF Result, BinaryOps, ArithmeticOps, RelationOps

\* The result of an operation on values is a value.
LEMMA ResultIsValue ==
  ASSUME NEW op \in CombinableOps, NEW a \in Value, NEW b \in Value,
         ~ (op \in {"DIV", "MOD"} /\ b \in {0, Undefined})
  PROVE  Result(op, a, b) \in Value
<1>1. CASE op = "NOT"
  BY <1>1, TruthsAreWords DEF Result, Value, Truth, Word
<1>2. CASE op # "NOT" /\ (a = Undefined \/ b = Undefined)
  BY <1>2 DEF Result, Value
<1>3. CASE op # "NOT" /\ a # Undefined /\ b # Undefined
  <2>1. a \in Word /\ b \in Word /\ op \in BinaryOps /\ Computable(op, b)
    BY <1>3 DEF Value, CombinableOps, Computable
  <2>. QED BY <2>1, ResultOfWords, ComputeIsWord DEF Value
<1>. QED BY <1>1, <1>2, <1>3

\* More values among the operands give the same result, or one where there
\* was none.
LEMMA ResultCovered ==
  ASSUME NEW op, NEW a1, NEW b1, NEW a2, NEW b2, Covers(a1, a2), Covers(b1, b2)
  PROVE  Covers(Result(op, a1, b1), Result(op, a2, b2))
BY DEF Covers, Result

\* The operands a and b have the values v and w.
ValuesOf(a, b, v, w) ==
  /\ v \in Value /\ w \in Value
  /\ (IsImm(a) => v = a.imm) /\ (IsImm(b) => w = b.imm)
  /\ SameVariable(a, b) => v = w

\* The identities, one by one.
LEMMA NeutralCases ==
  ASSUME NEW op, NEW a, NEW b, ~ IsNone(Neutral(op, a, b))
  PROVE  \/ SameVariable(a, b) /\ op \in Zeroes /\ Neutral(op, a, b) = Imm(0)
         \/ SameVariable(a, b) /\ op \in Ones /\ Neutral(op, a, b) = Imm(1)
         \/ op \in {"ADD", "SUB"} /\ Is(b, 0) /\ Neutral(op, a, b) = a
         \/ op = "ADD" /\ Is(a, 0) /\ Neutral(op, a, b) = b
         \/ op = "MUL" /\ (Is(a, 0) \/ Is(b, 0)) /\ Neutral(op, a, b) = Imm(0)
         \/ op = "MUL" /\ Is(b, 1) /\ Neutral(op, a, b) = a
         \/ op = "MUL" /\ Is(a, 1) /\ Neutral(op, a, b) = b
         \/ op = "DIV" /\ Is(b, 1) /\ Neutral(op, a, b) = a
         \/ op = "DIV" /\ Is(a, 0) /\ Neutral(op, a, b) = Imm(0)
         \/ op = "MOD" /\ (Is(b, 1) \/ Is(b, -1) \/ Is(a, 0)) /\ Neutral(op, a, b) = Imm(0)
<1>1. IsNone(None)
  BY DEF IsNone, None, Operand
<1>. QED BY <1>1 DEF Neutral

\* Neutral and absorbing elements, and x op x: for any x.
LEMMA NeutralIsRight ==
  ASSUME NEW op \in BinaryOps, NEW a, NEW b, NEW v, NEW w, ValuesOf(a, b, v, w),
         ~ (op \in {"DIV", "MOD"} /\ w \in {0, Undefined}),
         ~ IsNone(Neutral(op, a, b))
  PROVE  \/ Neutral(op, a, b) = a /\ Covers(Result(op, v, w), v)
         \/ Neutral(op, a, b) = b /\ Covers(Result(op, v, w), w)
         \/ \E k \in {0, 1} : Neutral(op, a, b) = Imm(k) /\ Covers(Result(op, v, w), k)
<1> DEFINE N == Neutral(op, a, b)
<1>1. CASE v = Undefined \/ w = Undefined
  <2>1. N = a \/ N = b \/ N = Imm(0) \/ N = Imm(1)
    BY NeutralCases
  <2>2. Result(op, v, w) = Undefined
    BY <1>1 DEF Result, BinaryOps, ArithmeticOps, RelationOps
  <2>. HIDE DEF N
  <2>. QED BY <2>1, <2>2 DEF Covers, N
<1>2. CASE v # Undefined /\ w # Undefined
  <2>1. v \in Word /\ w \in Word /\ v \in Int /\ w \in Int /\ 0 \in Word /\ 1 \in Word
    BY <1>2, TruthsAreWords DEF ValuesOf, Value, Word
  <2>2. Result(op, v, w) = Compute(op, v, w)
    BY <2>1, ResultOfWords
  <2>3. Wrap(v) = v /\ Wrap(w) = w /\ Wrap(0) = 0 /\ Wrap(1) = 1
    BY <2>1, WrapOfWord
  <2>4. (Is(a, 0) => v = 0) /\ (Is(b, 0) => w = 0) /\ (Is(a, 1) => v = 1) /\ (Is(b, 1) => w = 1) /\ (Is(b, -1) => w = -1)
    BY DEF Is, ValuesOf
  <2>5. /\ TDiv(v, 1) = v /\ TMod(v, 1) = 0 /\ TMod(v, -1) = 0
        /\ w # 0 => TDiv(w, w) = 1 /\ TMod(w, w) = 0 /\ TDiv(0, w) = 0 /\ TMod(0, w) = 0
    BY <2>1, KnownQuotients
  <2> HIDE DEF N
  <2>6. CASE SameVariable(a, b) /\ op \in Zeroes /\ N = Imm(0)
    <3>1. v = w
      BY <2>6 DEF ValuesOf
    <3>2. op \in {"DIV", "MOD"} => w # 0
      OBVIOUS
    <3>3. Compute(op, v, w) = 0
      BY <2>1, <2>3, <2>5, <2>6, <3>1, <3>2 DEF Compute, Zeroes, Truth
    <3>. QED BY <2>2, <2>6, <3>3 DEF Covers, N
  <2>7. CASE SameVariable(a, b) /\ op \in Ones /\ N = Imm(1)
    <3>1. v = w
      BY <2>7 DEF ValuesOf
    <3>2. op \in {"DIV", "MOD"} => w # 0
      OBVIOUS
    <3>3. Compute(op, v, w) = 1
      BY <2>1, <2>3, <2>5, <2>7, <3>1, <3>2 DEF Compute, Ones, Truth
    <3>. QED BY <2>2, <2>7, <3>3 DEF Covers, N
  <2>8. CASE op \in {"ADD", "SUB"} /\ Is(b, 0) /\ N = a
    BY <2>1, <2>2, <2>3, <2>4, <2>8 DEF Compute, Covers, N
  <2>9. CASE op = "ADD" /\ Is(a, 0) /\ N = b
    BY <2>1, <2>2, <2>3, <2>4, <2>9 DEF Compute, Covers, N
  <2>10. CASE op = "MUL" /\ (Is(a, 0) \/ Is(b, 0)) /\ N = Imm(0)
    BY <2>1, <2>2, <2>3, <2>4, <2>10 DEF Compute, Covers, N
  <2>11. CASE op = "MUL" /\ Is(b, 1) /\ N = a
    BY <2>1, <2>2, <2>3, <2>4, <2>11 DEF Compute, Covers, N
  <2>12. CASE op = "MUL" /\ Is(a, 1) /\ N = b
    BY <2>1, <2>2, <2>3, <2>4, <2>12 DEF Compute, Covers, N
  <2>13. CASE op = "DIV" /\ Is(b, 1) /\ N = a
    BY <2>1, <2>2, <2>3, <2>4, <2>5, <2>13 DEF Compute, Covers, N
  <2>14. CASE op = "DIV" /\ Is(a, 0) /\ N = Imm(0)
    BY <2>1, <2>2, <2>3, <2>4, <2>5, <2>14 DEF Compute, Covers, N
  <2>15. CASE op = "MOD" /\ (Is(b, 1) \/ Is(b, -1) \/ Is(a, 0)) /\ N = Imm(0)
    BY <2>1, <2>2, <2>3, <2>4, <2>5, <2>15 DEF Compute, Covers, N
  <2>. QED BY NeutralCases, <2>6, <2>7, <2>8, <2>9, <2>10, <2>11, <2>12, <2>13, <2>14, <2>15 DEF N
<1>. QED BY <1>1, <1>2

\* x * -1 is computed as 0 - x.
LEMMA NegationIsRight ==
  ASSUME NEW v \in Value
  PROVE  Result("MUL", v, -1) = Result("SUB", 0, v) /\ Result("MUL", -1, v) = Result("SUB", 0, v)
<1>1. 0 \in Word /\ -1 \in Word /\ 0 # Undefined /\ -1 # Undefined
  BY TruthsAreWords, UndefinedIsNoValue DEF Word
<1>2. CASE v = Undefined
  BY <1>2 DEF Result
<1>3. CASE v # Undefined
  <2>1. v \in Word /\ v \in Int
    BY <1>3, TruthsAreWords DEF Value, Word
  <2>2. v * (-1) = 0 - v /\ (-1) * v = 0 - v
    BY <2>1
  <2>3. "MUL" \in BinaryOps /\ "SUB" \in BinaryOps
    BY DEF BinaryOps, ArithmeticOps
  <2>. QED BY <1>1, <2>1, <2>2, <2>3, ResultOfWords DEF Compute
<1>. QED BY <1>2, <1>3

\* A replaced instruction writes what the original writes and reads no other
\* variables.
LEMMA ReplacementShape ==
  ASSUME NEW inst, NEW j \in Replacements(inst)
  PROVE  /\ j.dest = inst.dest
         /\ inst.op \notin CombinableOps => j = inst
         /\ inst.op \in CombinableOps => j.op \in CombinableOps \union {"ASSIGN"}
         /\ \A o \in {j.src1, j.src2} : IsLocal(o) \/ IsGlobal(o) => o \in {inst.src1, inst.src2}
<1>1. \A v : ~ IsLocal(Imm(v)) /\ ~ IsGlobal(Imm(v))
  BY DEF IsLocal, IsGlobal, Imm, Operand
<1>2. ~ IsLocal(None) /\ ~ IsGlobal(None)
  BY DEF IsLocal, IsGlobal, None, Operand
<1>3. ASSUME NEW d, NEW o
      PROVE  /\ Move(d, o).dest = d /\ Move(d, o).op = "ASSIGN"
             /\ Move(d, o).src1 = o /\ Move(d, o).src2 = None
  BY DEF Move, Inst
<1>4. CASE j = inst
  BY <1>4
<1>5. CASE j = Folded(inst)
  BY <1>1, <1>2, <1>3, <1>5 DEF Folded, CombinableOps
<1>6. CASE j = Algebraic(inst)
  <2>1. CASE inst.op \notin BinaryOps
    BY <1>4, <1>6, <2>1 DEF Algebraic
  <2>2. CASE inst.op \in BinaryOps /\ IsNone(Neutral(inst.op, inst.src1, inst.src2))
    <3>1. j = Computation(inst.op, inst.dest, inst.src1, inst.src2)
      BY <1>6, <2>2 DEF Algebraic
    <3>2. \/ j = Inst("SUB", inst.dest, Imm(0), inst.src1)
          \/ j = Inst("SUB", inst.dest, Imm(0), inst.src2)
          \/ j = Inst(inst.op, inst.dest, inst.src1, inst.src2)
      BY <3>1 DEF Computation
    <3>. QED BY <1>1, <2>2, <3>2 DEF Inst, CombinableOps, BinaryOps, ArithmeticOps
  <2>3. CASE inst.op \in BinaryOps /\ ~ IsNone(Neutral(inst.op, inst.src1, inst.src2))
    <3> DEFINE N == Neutral(inst.op, inst.src1, inst.src2)
    <3>1. j = Move(inst.dest, N)
      BY <1>6, <2>3 DEF Algebraic
    <3>2. N \in {inst.src1, inst.src2, Imm(0), Imm(1)}
      BY <2>3, NeutralCases
    <3>. HIDE DEF N
    <3>. QED BY <1>1, <1>2, <1>3, <2>3, <3>1, <3>2 DEF CombinableOps
  <2>. QED BY <2>1, <2>2, <2>3
<1>. QED BY <1>4, <1>5, <1>6 DEF Replacements

\* What a machine stores for an operation or an assignment.
Effect(inst, m) ==
  IF inst.op = "ASSIGN" THEN ValueIn(m, inst.src1)
  ELSE Result(inst.op, ValueIn(m, inst.src1), ValueIn(m, inst.src2))

DividesByNothing(inst, m) == inst.op \in {"DIV", "MOD"} /\ ValueIn(m, inst.src2) \in {0, Undefined}

\* The replaced instruction stores what the original stores, where that
\* stores a value, and has a meaning where that has one.
LEMMA EffectCovered ==
  ASSUME NEW inst, inst.op \in CombinableOps, NEW j \in Replacements(inst), NEW s, NEW c,
         ValueIn(s, inst.src1) \in Value, ValueIn(s, inst.src2) \in Value,
         \A o \in {inst.src1, inst.src2} : o \in {j.src1, j.src2} => Covers(ValueIn(s, o), ValueIn(c, o)),
         ~ DividesByNothing(inst, s)
  PROVE  Covers(Effect(inst, s), Effect(j, c)) /\ ~ DividesByNothing(j, c)
<1> DEFINE a == inst.src1
           b == inst.src2
           v == ValueIn(s, a)
           w == ValueIn(s, b)
           r == Result(inst.op, v, w)
<1>1. Effect(inst, s) = r
  BY DEF Effect, CombinableOps, BinaryOps, ArithmeticOps, RelationOps
<1>2. \A m, k : ValueIn(m, Imm(k)) = k
  BY DEF ValueIn, Imm, Operand, IsImm, IsLocal, IsGlobal
<1>3. ASSUME NEW d, NEW o PROVE Effect(Move(d, o), c) = ValueIn(c, o) /\ ~ DividesByNothing(Move(d, o), c)
  BY DEF Effect, DividesByNothing, Move, Inst
<1>4. (IsImm(a) => v = a.imm) /\ (IsImm(b) => w = b.imm)
  BY DEF ValueIn, IsImm, IsLocal, IsGlobal
<1>5. CASE j = inst
  <2>1. Covers(v, ValueIn(c, a)) /\ Covers(w, ValueIn(c, b))
    BY <1>5
  <2>2. Effect(j, c) = Result(inst.op, ValueIn(c, a), ValueIn(c, b))
    BY <1>5 DEF Effect, CombinableOps, BinaryOps, ArithmeticOps, RelationOps
  <2>3. ~ DividesByNothing(j, c)
    BY <1>5, <2>1 DEF DividesByNothing, Covers
  <2>. QED BY <1>1, <2>1, <2>2, <2>3, ResultCovered
<1>6. CASE j = Folded(inst) /\ j # inst
  <2>1. CASE inst.op = "NOT" /\ IsImm(a) /\ j = Move(inst.dest, Imm(Truth(a.imm = 0)))
    <3>1. Effect(j, c) = Truth(a.imm = 0) /\ ~ DividesByNothing(j, c)
      BY <1>2, <1>3, <2>1
    <3>2. r \in {Undefined, Truth(v = 0)}
      BY <2>1 DEF Result
    <3>. QED BY <1>1, <1>4, <2>1, <3>1, <3>2 DEF Covers
  <2>2. CASE inst.op \in BinaryOps /\ IsImm(a) /\ IsImm(b) /\ j = Move(inst.dest, Imm(Compute(inst.op, a.imm, b.imm)))
    <3>1. Effect(j, c) = Compute(inst.op, a.imm, b.imm) /\ ~ DividesByNothing(j, c)
      BY <1>2, <1>3, <2>2
    <3>2. r \in {Undefined, Compute(inst.op, v, w)}
      BY <2>2 DEF Result, BinaryOps, ArithmeticOps, RelationOps
    <3>. QED BY <1>1, <1>4, <2>2, <3>1, <3>2 DEF Covers
  <2>. QED BY <1>6, <2>1, <2>2 DEF Folded
<1>7. CASE j = Algebraic(inst) /\ j # inst
  <2>1. inst.op \in BinaryOps
    BY <1>7 DEF Algebraic
  <2>2. ValuesOf(a, b, v, w)
    BY <1>4 DEF ValuesOf, SameVariable, ValueIn, IsLocal, IsGlobal, IsImm
  <2>3. CASE ~ IsNone(Neutral(inst.op, a, b))
    <3> DEFINE N == Neutral(inst.op, a, b)
    <3>1. j = Move(inst.dest, N)
      BY <1>7, <2>1, <2>3 DEF Algebraic
    <3>2. \/ N = a /\ Covers(r, v)
          \/ N = b /\ Covers(r, w)
          \/ \E k \in {0, 1} : N = Imm(k) /\ Covers(r, k)
      BY <2>1, <2>2, <2>3, NeutralIsRight DEF DividesByNothing
    <3>3. j.src1 = N /\ Effect(j, c) = ValueIn(c, N) /\ ~ DividesByNothing(j, c)
      BY <1>3, <3>1 DEF Move, Inst
    <3>. HIDE DEF N, r, v, w
    <3>4. CASE N = a /\ Covers(r, v)
      BY <1>1, <3>3, <3>4 DEF Covers, v
    <3>5. CASE N = b /\ Covers(r, w)
      BY <1>1, <3>3, <3>5 DEF Covers, w
    <3>6. CASE \E k \in {0, 1} : N = Imm(k) /\ Covers(r, k)
      BY <1>1, <1>2, <3>3, <3>6
    <3>. QED BY <3>2, <3>4, <3>5, <3>6
  <2>4. CASE IsNone(Neutral(inst.op, a, b))
    <3>1. j = Computation(inst.op, inst.dest, a, b)
      BY <1>7, <2>1, <2>4 DEF Algebraic
    <3>2. CASE inst.op = "MUL" /\ Is(b, -1) /\ j = Inst("SUB", inst.dest, Imm(0), a)
      <4>1. Effect(j, c) = Result("SUB", 0, ValueIn(c, a)) /\ ~ DividesByNothing(j, c) /\ j.src2 = a
        BY <1>2, <3>2 DEF Effect, DividesByNothing, Inst
      <4>2. w = -1 /\ r = Result("SUB", 0, v)
        BY <1>4, <3>2, NegationIsRight DEF Is
      <4>3. Covers(v, ValueIn(c, a)) /\ Covers(0, 0)
        BY <4>1 DEF Covers
      <4>. QED BY <1>1, <4>1, <4>2, <4>3, ResultCovered
    <3>3. CASE inst.op = "MUL" /\ Is(a, -1) /\ j = Inst("SUB", inst.dest, Imm(0), b)
      <4>1. Effect(j, c) = Result("SUB", 0, ValueIn(c, b)) /\ ~ DividesByNothing(j, c) /\ j.src2 = b
        BY <1>2, <3>3 DEF Effect, DividesByNothing, Inst
      <4>2. v = -1 /\ r = Result("SUB", 0, w)
        BY <1>4, <3>3, NegationIsRight DEF Is
      <4>3. Covers(w, ValueIn(c, b)) /\ Covers(0, 0)
        BY <4>1 DEF Covers
      <4>. QED BY <1>1, <4>1, <4>2, <4>3, ResultCovered
    <3>4. CASE j = Inst(inst.op, inst.dest, a, b)
      <4>1. Covers(v, ValueIn(c, a)) /\ Covers(w, ValueIn(c, b))
        BY <3>4 DEF Inst
      <4>2. Effect(j, c) = Result(inst.op, ValueIn(c, a), ValueIn(c, b))
        BY <2>1, <3>4 DEF Effect, Inst, BinaryOps, ArithmeticOps, RelationOps
      <4>3. ~ DividesByNothing(j, c)
        BY <3>4, <4>1 DEF DividesByNothing, Covers, Inst
      <4>. QED BY <1>1, <4>1, <4>2, <4>3, ResultCovered
    <3>. QED BY <3>1, <3>2, <3>3, <3>4 DEF Computation
  <2>. QED BY <2>3, <2>4
<1>. QED BY <1>5, <1>6, <1>7 DEF Replacements

\* The constants of a replaced instruction are words.
LEMMA ReplacementWords ==
  ASSUME NEW inst, NEW j \in Replacements(inst),
         \A o \in {inst.src1, inst.src2} : IsImm(o) => o.imm \in Word
  PROVE  \A o \in {j.src1, j.src2} : IsImm(o) => o.imm \in Word
<1>1. 0 \in Word /\ 1 \in Word /\ \A v : Truth(v) \in Word
  BY TruthsAreWords DEF Word, Truth
<1>2. ~ IsImm(None) /\ \A v : Imm(v).imm = v
  BY DEF None, Operand, IsImm, Imm
<1>3. \A d, o : Move(d, o).src1 = o /\ Move(d, o).src2 = None
  BY DEF Move, Inst
<1>4. CASE j = Folded(inst) /\ j # inst
  <2>1. CASE j = Move(inst.dest, Imm(Truth(inst.src1.imm = 0)))
    BY <1>1, <1>2, <1>3, <2>1
  <2>2. CASE /\ inst.op \in BinaryOps /\ IsImm(inst.src1) /\ IsImm(inst.src2) /\ Computable(inst.op, inst.src2.imm)
             /\ j = Move(inst.dest, Imm(Compute(inst.op, inst.src1.imm, inst.src2.imm)))
    BY <1>2, <1>3, <2>2, ComputeIsWord
  <2>. QED BY <1>4, <2>1, <2>2 DEF Folded
<1>5. CASE j = Algebraic(inst) /\ j # inst
  <2> DEFINE N == Neutral(inst.op, inst.src1, inst.src2)
  <2>1. inst.op \in BinaryOps
    BY <1>5 DEF Algebraic
  <2>2. CASE ~ IsNone(N)
    <3>1. j = Move(inst.dest, N)
      BY <1>5, <2>1, <2>2 DEF Algebraic
    <3>2. N \in {inst.src1, inst.src2, Imm(0), Imm(1)}
      BY <2>2, NeutralCases
    <3>. HIDE DEF N
    <3>. QED BY <1>1, <1>2, <1>3, <3>1, <3>2
  <2>3. CASE IsNone(N)
    <3>1. j = Computation(inst.op, inst.dest, inst.src1, inst.src2)
      BY <1>5, <2>1, <2>3 DEF Algebraic
    <3>2. \/ j = Inst("SUB", inst.dest, Imm(0), inst.src1)
          \/ j = Inst("SUB", inst.dest, Imm(0), inst.src2)
          \/ j = Inst(inst.op, inst.dest, inst.src1, inst.src2)
      BY <3>1 DEF Computation
    <3>. QED BY <1>1, <1>2, <3>2 DEF Inst
  <2>. QED BY <2>2, <2>3
<1>. QED BY <1>4, <1>5 DEF Replacements

-------------------------------------------------------------------------------
(***************************************************************************)
(* The code.                                                               *)
(***************************************************************************)
\* Pass 0b and Pass 0c rewrite in the sense of Rewrites.
LEMMA PassesRewrite ==
  ASSUME NEW p, IsCode(p), NEW q \in {MapCode(p, Folded), MapCode(p, Algebraic)}
  PROVE  Rewrites(p, q)
<1>1. Len(p) \in Nat
  BY DEF IsCode
<1>2. PICK F \in [1..Len(p) -> {q[i] : i \in 1..Len(p)}] : q = F /\ \A i \in 1..Len(p) : F[i] \in Replacements(p[i])
  BY DEF MapCode, Replacements
<1>3. q \in Seq({q[i] : i \in 1..Len(p)}) /\ Len(q) = Len(p) /\ DOMAIN q = 1..Len(p)
  BY <1>1, <1>2
<1>. QED BY <1>2, <1>3 DEF Rewrites, Range

\* The rewritten code has the same functions, labels and globals at the same
\* places, and no other variables.
LEMMA RewritingShape ==
  ASSUME NEW p, IsCode(p), NEW q, Rewrites(p, q)
  PROVE  /\ Len(p) \in Nat /\ Len(q) = Len(p) /\ DOMAIN p = 1..Len(p) /\ DOMAIN q = 1..Len(p)
         /\ \A i \in 1..Len(p) : q[i] \in Replacements(p[i])
         /\ \A i \in 1..Len(p) : p[i].op \notin CombinableOps => q[i] = p[i]
         /\ \A i \in 1..Len(p) : q[i].op \notin CombinableOps \union {"ASSIGN"} => q[i] = p[i]
         /\ LocalsOf(q) \subseteq LocalsOf(p)
         /\ GlobalsOf(q) = GlobalsOf(p)
         /\ \A f : BeginsOf(q, f) = BeginsOf(p, f)
         /\ \A l : PlaceOf(q, l) = PlaceOf(p, l)
<1>1. Len(p) \in Nat /\ Len(q) = Len(p) /\ DOMAIN p = 1..Len(p) /\ DOMAIN q = 1..Len(p)
  BY DEF IsCode, Rewrites
<1>2. \A i \in 1..Len(p) : q[i] \in Replacements(p[i])
  BY DEF Rewrites
<1>3. \A i \in 1..Len(p) :
        /\ q[i].dest = p[i].dest
        /\ p[i].op \notin CombinableOps => q[i] = p[i]
        /\ p[i].op \in CombinableOps => q[i].op \in CombinableOps \union {"ASSIGN"}
        /\ \A o \in {q[i].src1, q[i].src2} : IsLocal(o) \/ IsGlobal(o) => o \in {p[i].src1, p[i].src2}
  BY <1>2, ReplacementShape
<1>4. \A i \in 1..Len(p) : q[i].op \notin CombinableOps \union {"ASSIGN"} => q[i] = p[i]
  BY <1>3
<1>5. \A i \in 1..Len(p) : \A op \in {"FUNC_BEGIN", "LABEL", "GLOBAL_VAR_DECL"} :
        (q[i].op = op \/ p[i].op = op) => q[i] = p[i]
  BY <1>3, <1>4 DEF CombinableOps, BinaryOps, ArithmeticOps, RelationOps
<1>6. LocalsOf(q) \subseteq LocalsOf(p)
  BY <1>1, <1>3 DEF LocalsOf
<1>7. GlobalsOf(q) = GlobalsOf(p)
  BY <1>1, <1>5 DEF GlobalsOf
<1>8. \A f : BeginsOf(q, f) = BeginsOf(p, f)
  BY <1>1, <1>5 DEF BeginsOf
<1>9. \A l : PlaceOf(q, l) = PlaceOf(p, l)
  BY <1>1, <1>5 DEF PlaceOf
<1>. QED BY <1>1, <1>2, <1>3, <1>4, <1>6, <1>7, <1>8, <1>9

\* A function begins and a label is at the one place that there is.
LEMMA TheBegin ==
  ASSUME NEW p, NEW f, NEW k, BeginsOf(p, f) = {k}
  PROVE  BeginOf(p, f) = k
BY DEF BeginOf, BeginsOf

-------------------------------------------------------------------------------
(***************************************************************************)
(* What the steps of a machine are made of.                                *)
(***************************************************************************)
\* A machine with another value in one field.
WithPc(m, x) == [m EXCEPT !.pc = x]
WithLocals(m, x) == [m EXCEPT !.locals = x]
WithActuals(m, x) == [m EXCEPT !.actuals = x]
WithPending(m, x) == [m EXCEPT !.pending = x]
WithCallers(m, x) == [m EXCEPT !.callers = x]
WithGlobals(m, x) == [m EXCEPT !.globals = x]
WithStatus(m, x) == [m EXCEPT !.status = x]
WithValue(m, x) == [m EXCEPT !.value = x]

\* The control goes elsewhere and the data stay.
LEMMA PcChanged ==
  ASSUME NEW m, IsRecord(m), NEW x
  PROVE  /\ IsRecord(WithPc(m, x)) /\ WithPc(m, x).pc = x
         /\ WithPc(m, x).locals = m.locals /\ WithPc(m, x).actuals = m.actuals /\ WithPc(m, x).pending = m.pending
         /\ WithPc(m, x).callers = m.callers /\ WithPc(m, x).globals = m.globals /\ WithPc(m, x).status = m.status
         /\ WithPc(m, x).value = m.value
BY DEF IsRecord, WithPc

\* The local variables change and the rest stays.
LEMMA LocalsChanged ==
  ASSUME NEW m, IsRecord(m), NEW x
  PROVE  /\ IsRecord(WithLocals(m, x)) /\ WithLocals(m, x).locals = x
         /\ WithLocals(m, x).pc = m.pc /\ WithLocals(m, x).actuals = m.actuals /\ WithLocals(m, x).pending = m.pending
         /\ WithLocals(m, x).callers = m.callers /\ WithLocals(m, x).globals = m.globals /\ WithLocals(m, x).status = m.status
         /\ WithLocals(m, x).value = m.value
BY DEF IsRecord, WithLocals

\* The arguments of the running function change and the rest stays.
LEMMA ActualsChanged ==
  ASSUME NEW m, IsRecord(m), NEW x
  PROVE  /\ IsRecord(WithActuals(m, x)) /\ WithActuals(m, x).actuals = x
         /\ WithActuals(m, x).pc = m.pc /\ WithActuals(m, x).locals = m.locals /\ WithActuals(m, x).pending = m.pending
         /\ WithActuals(m, x).callers = m.callers /\ WithActuals(m, x).globals = m.globals /\ WithActuals(m, x).status = m.status
         /\ WithActuals(m, x).value = m.value
BY DEF IsRecord, WithActuals

\* The arguments handed over change and the rest stays.
LEMMA PendingChanged ==
  ASSUME NEW m, IsRecord(m), NEW x
  PROVE  /\ IsRecord(WithPending(m, x)) /\ WithPending(m, x).pending = x
         /\ WithPending(m, x).pc = m.pc /\ WithPending(m, x).locals = m.locals /\ WithPending(m, x).actuals = m.actuals
         /\ WithPending(m, x).callers = m.callers /\ WithPending(m, x).globals = m.globals /\ WithPending(m, x).status = m.status
         /\ WithPending(m, x).value = m.value
BY DEF IsRecord, WithPending

\* The waiting functions change and the rest stays.
LEMMA CallersChanged ==
  ASSUME NEW m, IsRecord(m), NEW x
  PROVE  /\ IsRecord(WithCallers(m, x)) /\ WithCallers(m, x).callers = x
         /\ WithCallers(m, x).pc = m.pc /\ WithCallers(m, x).locals = m.locals /\ WithCallers(m, x).actuals = m.actuals
         /\ WithCallers(m, x).pending = m.pending /\ WithCallers(m, x).globals = m.globals /\ WithCallers(m, x).status = m.status
         /\ WithCallers(m, x).value = m.value
BY DEF IsRecord, WithCallers

\* The global variables change and the rest stays.
LEMMA GlobalsChanged ==
  ASSUME NEW m, IsRecord(m), NEW x
  PROVE  /\ IsRecord(WithGlobals(m, x)) /\ WithGlobals(m, x).globals = x
         /\ WithGlobals(m, x).pc = m.pc /\ WithGlobals(m, x).locals = m.locals /\ WithGlobals(m, x).actuals = m.actuals
         /\ WithGlobals(m, x).pending = m.pending /\ WithGlobals(m, x).callers = m.callers /\ WithGlobals(m, x).status = m.status
         /\ WithGlobals(m, x).value = m.value
BY DEF IsRecord, WithGlobals

\* The run ends in some way and the rest stays.
LEMMA StatusChanged ==
  ASSUME NEW m, IsRecord(m), NEW x
  PROVE  /\ IsRecord(WithStatus(m, x)) /\ WithStatus(m, x).status = x
         /\ WithStatus(m, x).pc = m.pc /\ WithStatus(m, x).locals = m.locals /\ WithStatus(m, x).actuals = m.actuals
         /\ WithStatus(m, x).pending = m.pending /\ WithStatus(m, x).callers = m.callers /\ WithStatus(m, x).globals = m.globals
         /\ WithStatus(m, x).value = m.value
BY DEF IsRecord, WithStatus

\* The returned value changes and the rest stays.
LEMMA ValueChanged ==
  ASSUME NEW m, IsRecord(m), NEW x
  PROVE  /\ IsRecord(WithValue(m, x)) /\ WithValue(m, x).value = x
         /\ WithValue(m, x).pc = m.pc /\ WithValue(m, x).locals = m.locals /\ WithValue(m, x).actuals = m.actuals
         /\ WithValue(m, x).pending = m.pending /\ WithValue(m, x).callers = m.callers /\ WithValue(m, x).globals = m.globals
         /\ WithValue(m, x).status = m.status
BY DEF IsRecord, WithValue

-------------------------------------------------------------------------------
(***************************************************************************)
(* The two machines stay together.                                         *)
(***************************************************************************)
\* They go to the same place.
LEMMA PlacesKeep ==
  ASSUME NEW p, NEW q, Len(q) = Len(p), NEW s, NEW c, Simulates(p, q, s, c), NEW k \in 1..Len(p)
  PROVE  Simulates(p, q, WithPc(s, k), WithPc(c, k))
BY PcChanged DEF Simulates, IsMachine

\* They store a value in the same local variable, which the code of the
\* compiled machine may no longer have.
LEMMA LocalsKeep ==
  ASSUME NEW p, NEW q, NEW s, NEW c, Simulates(p, q, s, c), LocalsOf(q) \subseteq LocalsOf(p),
         NEW n, NEW v \in Value, NEW w \in Value, Covers(v, w)
  PROVE  Simulates(p, q, WithLocals(s, [s.locals EXCEPT ![n] = v]), WithLocals(c, [c.locals EXCEPT ![n] = w]))
<1> DEFINE sl == [s.locals EXCEPT ![n] = v]
           cl == [c.locals EXCEPT ![n] = w]
           s1 == WithLocals(s, sl)
           c1 == WithLocals(c, cl)
<1>1. /\ IsRecord(s1) /\ s1.locals = sl /\ s1.pc = s.pc /\ s1.actuals = s.actuals /\ s1.pending = s.pending
      /\ s1.callers = s.callers /\ s1.globals = s.globals /\ s1.status = s.status /\ s1.value = s.value
      /\ IsRecord(c1) /\ c1.locals = cl /\ c1.pc = c.pc /\ c1.actuals = c.actuals /\ c1.pending = c.pending
      /\ c1.callers = c.callers /\ c1.globals = c.globals /\ c1.status = c.status /\ c1.value = c.value
  <2>. HIDE DEF sl, cl
  <2>. QED BY LocalsChanged DEF Simulates, IsMachine
<1>2. /\ sl \in [LocalsOf(p) -> Value] /\ cl \in [LocalsOf(q) -> Value]
      /\ LocalsCovered(q, sl, cl)
  <2>1. s.locals \in [LocalsOf(p) -> Value] /\ c.locals \in [LocalsOf(q) -> Value]
        /\ LocalsCovered(q, s.locals, c.locals)
    BY DEF Simulates, IsMachine
  <2>. QED BY <2>1 DEF LocalsCovered
<1>. HIDE DEF s1, c1, sl, cl
<1>3. Simulates(p, q, s1, c1)
  BY <1>1, <1>2 DEF Simulates, IsMachine
<1>. QED BY <1>3 DEF s1, c1, sl, cl

\* They store a value in the same global variable.
LEMMA GlobalsKeep ==
  ASSUME NEW p, NEW q, NEW s, NEW c, Simulates(p, q, s, c), GlobalsOf(q) = GlobalsOf(p),
         NEW n, NEW v \in Value, NEW w \in Value, Covers(v, w)
  PROVE  Simulates(p, q, WithGlobals(s, [s.globals EXCEPT ![n] = v]), WithGlobals(c, [c.globals EXCEPT ![n] = w]))
<1> DEFINE sl == [s.globals EXCEPT ![n] = v]
           cl == [c.globals EXCEPT ![n] = w]
           s1 == WithGlobals(s, sl)
           c1 == WithGlobals(c, cl)
<1>1. /\ IsRecord(s1) /\ s1.globals = sl /\ s1.pc = s.pc /\ s1.actuals = s.actuals /\ s1.pending = s.pending
      /\ s1.callers = s.callers /\ s1.locals = s.locals /\ s1.status = s.status /\ s1.value = s.value
      /\ IsRecord(c1) /\ c1.globals = cl /\ c1.pc = c.pc /\ c1.actuals = c.actuals /\ c1.pending = c.pending
      /\ c1.callers = c.callers /\ c1.locals = c.locals /\ c1.status = c.status /\ c1.value = c.value
  <2>. HIDE DEF sl, cl
  <2>. QED BY GlobalsChanged DEF Simulates, IsMachine
<1>2. /\ sl \in [GlobalsOf(p) -> Value] /\ cl \in [GlobalsOf(q) -> Value]
      /\ \A g \in GlobalsOf(p) : Covers(sl[g], cl[g])
  BY DEF Simulates, IsMachine
<1>. HIDE DEF s1, c1, sl, cl
<1>3. Simulates(p, q, s1, c1)
  BY <1>1, <1>2 DEF Simulates, IsMachine
<1>. QED BY <1>3 DEF s1, c1, sl, cl

\* They store a value in the dest of an instruction.
LEMMA StoresKeep ==
  ASSUME NEW p, IsCode(p), NEW q, Rewrites(p, q), NEW s, NEW c, Simulates(p, q, s, c),
         NEW o, NEW v \in Value, NEW w \in Value, Covers(v, w)
  PROVE  /\ Simulates(p, q, Stored(s, o, v), Stored(c, o, w))
         /\ Stored(s, o, v).pc = s.pc /\ Stored(s, o, v).actuals = s.actuals
<1>1. LocalsOf(q) \subseteq LocalsOf(p) /\ GlobalsOf(q) = GlobalsOf(p)
  BY RewritingShape
<1>2. CASE IsLocal(o)
  <2>1. Stored(s, o, v) = WithLocals(s, [s.locals EXCEPT ![o.name] = v])
        /\ Stored(c, o, w) = WithLocals(c, [c.locals EXCEPT ![o.name] = w])
    BY <1>2 DEF Stored, IsLocal, IsGlobal, WithLocals
  <2>2. Stored(s, o, v).pc = s.pc /\ Stored(s, o, v).actuals = s.actuals
    BY <2>1, LocalsChanged DEF Simulates, IsMachine
  <2>3. Simulates(p, q, WithLocals(s, [s.locals EXCEPT ![o.name] = v]), WithLocals(c, [c.locals EXCEPT ![o.name] = w]))
    BY <1>1, LocalsKeep
  <2>. QED BY <2>1, <2>2, <2>3
<1>3. CASE IsGlobal(o)
  <2>1. Stored(s, o, v) = WithGlobals(s, [s.globals EXCEPT ![o.name] = v])
        /\ Stored(c, o, w) = WithGlobals(c, [c.globals EXCEPT ![o.name] = w])
    BY <1>3 DEF Stored, IsLocal, IsGlobal, WithGlobals
  <2>2. Stored(s, o, v).pc = s.pc /\ Stored(s, o, v).actuals = s.actuals
    BY <2>1, GlobalsChanged DEF Simulates, IsMachine
  <2>3. Simulates(p, q, WithGlobals(s, [s.globals EXCEPT ![o.name] = v]), WithGlobals(c, [c.globals EXCEPT ![o.name] = w]))
    BY <1>1, GlobalsKeep
  <2>. QED BY <2>1, <2>2, <2>3
<1>4. CASE ~ IsLocal(o) /\ ~ IsGlobal(o)
  BY <1>4 DEF Stored
<1>. QED BY <1>2, <1>3, <1>4

\* The source loses a value.
LEMMA VoidingKeeps ==
  ASSUME NEW p, IsCode(p), NEW q, Rewrites(p, q), NEW s, NEW c, Simulates(p, q, s, c), NEW o
  PROVE  Simulates(p, q, Stored(s, o, Undefined), c) /\ Stored(s, o, Undefined).pc = s.pc
<1>1. LocalsOf(q) \subseteq LocalsOf(p)
  BY RewritingShape
<1>2. CASE IsLocal(o)
  <2> DEFINE sl == [s.locals EXCEPT ![o.name] = Undefined]
             s1 == WithLocals(s, sl)
  <2>1. /\ IsRecord(s1) /\ s1.locals = sl /\ s1.pc = s.pc /\ s1.actuals = s.actuals /\ s1.pending = s.pending
        /\ s1.callers = s.callers /\ s1.globals = s.globals /\ s1.status = s.status /\ s1.value = s.value
    <3>. HIDE DEF sl
    <3>. QED BY LocalsChanged DEF Simulates, IsMachine
  <2>2. sl \in [LocalsOf(p) -> Value] /\ LocalsCovered(q, sl, c.locals)
    BY <1>1 DEF Simulates, IsMachine, Value, LocalsCovered, Covers
  <2>3. Stored(s, o, Undefined) = s1
    BY <1>2 DEF Stored, IsLocal, IsGlobal, WithLocals
  <2>. HIDE DEF s1, sl
  <2>. QED BY <2>1, <2>2, <2>3 DEF Simulates, IsMachine
<1>3. CASE IsGlobal(o)
  <2> DEFINE sl == [s.globals EXCEPT ![o.name] = Undefined]
             s1 == WithGlobals(s, sl)
  <2>1. /\ IsRecord(s1) /\ s1.globals = sl /\ s1.pc = s.pc /\ s1.actuals = s.actuals /\ s1.pending = s.pending
        /\ s1.callers = s.callers /\ s1.locals = s.locals /\ s1.status = s.status /\ s1.value = s.value
    <3>. HIDE DEF sl
    <3>. QED BY GlobalsChanged DEF Simulates, IsMachine
  <2>2. sl \in [GlobalsOf(p) -> Value] /\ \A g \in GlobalsOf(p) : Covers(sl[g], c.globals[g])
    BY DEF Simulates, IsMachine, Value, Covers
  <2>3. Stored(s, o, Undefined) = s1
    BY <1>3 DEF Stored, IsLocal, IsGlobal, WithGlobals
  <2>. HIDE DEF s1, sl
  <2>. QED BY <2>1, <2>2, <2>3 DEF Simulates, IsMachine
<1>4. CASE ~ IsLocal(o) /\ ~ IsGlobal(o)
  BY <1>4 DEF Stored
<1>. QED BY <1>2, <1>3, <1>4

\* They end in the same way.
LEMMA EndsKeep ==
  ASSUME NEW p, NEW q, NEW s, NEW c, Simulates(p, q, s, c), NEW how
  PROVE  Simulates(p, q, WithStatus(s, how), WithStatus(c, how))
BY SMTT(30), StatusChanged DEF Simulates, IsMachine

\* They go on to the next instruction.
LEMMA AdvancesKeep ==
  ASSUME NEW p, IsCode(p), NEW q, Rewrites(p, q), NEW s, NEW c, Simulates(p, q, s, c),
         p[s.pc].op \notin {"FUNC_END", "GLOBAL_VAR_DECL"}
  PROVE  Simulates(p, q, Advanced(s), Advanced(c))
<1>1. Len(p) \in Nat /\ Len(q) = Len(p)
  BY RewritingShape
<1>2. s.pc \in 1..Len(p) /\ c.pc = s.pc
  BY DEF Simulates, IsMachine
<1>3. s.pc # Len(p)
  BY DEF IsCode
<1>4. s.pc + 1 \in 1..Len(p)
  BY <1>1, <1>2, <1>3
<1>5. Advanced(s) = WithPc(s, s.pc + 1) /\ Advanced(c) = WithPc(c, s.pc + 1)
  BY <1>2 DEF Advanced, WithPc
<1>. QED BY <1>1, <1>4, <1>5, PlacesKeep

\* They take the same branch.
LEMMA JumpsKeep ==
  ASSUME NEW p, IsCode(p), NEW q, Rewrites(p, q), NEW s, NEW c, Simulates(p, q, s, c),
         p[s.pc].op \in BranchOps, NEW taken \in BOOLEAN
  PROVE  Simulates(p, q, Jumped(p, s, p[s.pc], taken), Jumped(q, c, p[s.pc], taken))
<1>1. /\ Len(p) \in Nat /\ Len(q) = Len(p) /\ DOMAIN p = 1..Len(p) /\ DOMAIN q = 1..Len(p)
      /\ \A l : PlaceOf(q, l) = PlaceOf(p, l)
  BY RewritingShape
<1>2. s.pc \in 1..Len(p)
  BY DEF Simulates, IsMachine
<1>3. PICK k \in 1..Len(p) : PlaceOf(p, p[s.pc].dest) = {k}
  BY <1>2 DEF IsCode
<1>4. /\ (CHOOSE j \in DOMAIN p : p[j].op = "LABEL" /\ p[j].dest = p[s.pc].dest) = k
      /\ (CHOOSE j \in DOMAIN q : q[j].op = "LABEL" /\ q[j].dest = p[s.pc].dest) = k
  BY <1>1, <1>3 DEF PlaceOf
<1>5. CASE taken
  <2>1. Jumped(p, s, p[s.pc], taken) = WithPc(s, k) /\ Jumped(q, c, p[s.pc], taken) = WithPc(c, k)
    BY <1>4, <1>5 DEF Jumped, WithPc
  <2>. QED BY <1>1, <2>1, PlacesKeep
<1>6. CASE ~ taken
  BY <1>6, AdvancesKeep DEF Jumped, BranchOps
<1>. QED BY <1>5, <1>6

\* They hand over an argument.
LEMMA PendingKeeps ==
  ASSUME NEW p, NEW q, NEW s, NEW c, Simulates(p, q, s, c), NEW v \in Value, NEW w \in Value, Covers(v, w)
  PROVE  /\ Simulates(p, q, WithPending(s, Append(s.pending, v)), WithPending(c, Append(c.pending, w)))
         /\ WithPending(s, Append(s.pending, v)).pc = s.pc
<1> DEFINE sl == Append(s.pending, v)
           cl == Append(c.pending, w)
           s1 == WithPending(s, sl)
           c1 == WithPending(c, cl)
<1>1. /\ IsRecord(s1) /\ s1.pending = sl /\ s1.pc = s.pc /\ s1.actuals = s.actuals /\ s1.globals = s.globals
      /\ s1.callers = s.callers /\ s1.locals = s.locals /\ s1.status = s.status /\ s1.value = s.value
      /\ IsRecord(c1) /\ c1.pending = cl /\ c1.pc = c.pc /\ c1.actuals = c.actuals /\ c1.globals = c.globals
      /\ c1.callers = c.callers /\ c1.locals = c.locals /\ c1.status = c.status /\ c1.value = c.value
  <2>. HIDE DEF sl, cl
  <2>. QED BY PendingChanged DEF Simulates, IsMachine
<1>2. sl \in Seq(Value) /\ cl \in Seq(Value) /\ AllCovered(sl, cl)
  <2>1. s.pending \in Seq(Value) /\ c.pending \in Seq(Value) /\ AllCovered(s.pending, c.pending)
    BY DEF Simulates, IsMachine
  <2>2. /\ sl \in Seq(Value) /\ cl \in Seq(Value)
        /\ Len(sl) = Len(s.pending) + 1 /\ Len(cl) = Len(c.pending) + 1
        /\ \A k \in 1..Len(s.pending) : sl[k] = s.pending[k]
        /\ \A k \in 1..Len(c.pending) : cl[k] = c.pending[k]
        /\ sl[Len(s.pending) + 1] = v /\ cl[Len(c.pending) + 1] = w
    BY <2>1
  <2>. HIDE DEF sl, cl
  <2>. QED BY <2>1, <2>2 DEF AllCovered
<1>. HIDE DEF s1, c1, sl, cl
<1>3. Simulates(p, q, s1, c1)
  BY <1>1, <1>2 DEF Simulates, IsMachine
<1>. QED BY <1>1, <1>3 DEF s1, c1, sl, cl

\* They take an argument.
LEMMA ActualsKeep ==
  ASSUME NEW p, NEW q, NEW s, NEW c, Simulates(p, q, s, c), s.actuals # << >>
  PROVE  /\ Simulates(p, q, WithActuals(s, Tail(s.actuals)), WithActuals(c, Tail(c.actuals)))
         /\ WithActuals(s, Tail(s.actuals)).pc = s.pc
<1> DEFINE sl == Tail(s.actuals)
           cl == Tail(c.actuals)
           s1 == WithActuals(s, sl)
           c1 == WithActuals(c, cl)
<1>1. /\ IsRecord(s1) /\ s1.actuals = sl /\ s1.pc = s.pc /\ s1.pending = s.pending /\ s1.globals = s.globals
      /\ s1.callers = s.callers /\ s1.locals = s.locals /\ s1.status = s.status /\ s1.value = s.value
      /\ IsRecord(c1) /\ c1.actuals = cl /\ c1.pc = c.pc /\ c1.pending = c.pending /\ c1.globals = c.globals
      /\ c1.callers = c.callers /\ c1.locals = c.locals /\ c1.status = c.status /\ c1.value = c.value
  <2>. HIDE DEF sl, cl
  <2>. QED BY ActualsChanged DEF Simulates, IsMachine
<1>2. sl \in Seq(Value) /\ cl \in Seq(Value) /\ AllCovered(sl, cl)
  <2>1. s.actuals \in Seq(Value) /\ c.actuals \in Seq(Value) /\ AllCovered(s.actuals, c.actuals)
    BY DEF Simulates, IsMachine
  <2>2. c.actuals # << >>
    BY <2>1 DEF AllCovered
  <2>. QED BY <2>1, <2>2 DEF AllCovered
<1>. HIDE DEF s1, c1, sl, cl
<1>3. Simulates(p, q, s1, c1)
  BY <1>1, <1>2 DEF Simulates, IsMachine
<1>. QED BY <1>1, <1>3 DEF s1, c1, sl, cl

\* The operands of an instruction have values, and the code has those that
\* the source has.
LEMMA OperandsCovered ==
  ASSUME NEW p, IsCode(p), NEW q, Rewrites(p, q), NEW s, NEW c, Simulates(p, q, s, c),
         NEW i \in 1..Len(p)
  PROVE  /\ \A o \in {p[i].dest, p[i].src1, p[i].src2} : ValueIn(s, o) \in Value
         /\ \A o \in {q[i].dest, q[i].src1, q[i].src2} :
              /\ ValueIn(c, o) \in Value
              /\ o \in {p[i].dest, p[i].src1, p[i].src2} => Covers(ValueIn(s, o), ValueIn(c, o))
<1>1. /\ Len(q) = Len(p) /\ q[i] \in Replacements(p[i])
      /\ LocalsOf(q) \subseteq LocalsOf(p) /\ GlobalsOf(q) = GlobalsOf(p)
  BY RewritingShape
<1>2. /\ s.locals \in [LocalsOf(p) -> Value] /\ s.globals \in [GlobalsOf(p) -> Value]
      /\ c.locals \in [LocalsOf(q) -> Value] /\ c.globals \in [GlobalsOf(q) -> Value]
      /\ LocalsCovered(q, s.locals, c.locals) /\ \A g \in GlobalsOf(p) : Covers(s.globals[g], c.globals[g])
  BY DEF Simulates, IsMachine
<1>3. \A o \in {p[i].dest, p[i].src1, p[i].src2} :
        /\ IsImm(o) => o.imm \in Word
        /\ IsGlobal(o) => o.name \in GlobalsOf(p)
        /\ IsLocal(o) => o.name \in LocalsOf(p)
  BY DEF IsCode, LocalsOf
<1>4. \A o \in {q[i].dest, q[i].src1, q[i].src2} :
        /\ IsImm(o) => o.imm \in Word
        /\ IsGlobal(o) => o.name \in GlobalsOf(p)
        /\ IsLocal(o) => o.name \in LocalsOf(q)
  <2>1. q[i].dest = p[i].dest /\ \A o \in {q[i].src1, q[i].src2} : IsGlobal(o) => o \in {p[i].src1, p[i].src2}
    BY <1>1, ReplacementShape
  <2>2. \A o \in {q[i].src1, q[i].src2} : IsImm(o) => o.imm \in Word
    BY <1>1, <1>3, ReplacementWords
  <2>3. \A o \in {q[i].dest, q[i].src1, q[i].src2} : IsLocal(o) => o.name \in LocalsOf(q)
    BY <1>1 DEF LocalsOf
  <2>. QED BY <1>3, <2>1, <2>2, <2>3
<1>. QED BY SMTT(30), <1>1, <1>2, <1>3, <1>4 DEF ValueIn, Value, Covers, LocalsCovered

\* They call the same function.
LEMMA EntersKeep ==
  ASSUME NEW p, IsCode(p), NEW q, Rewrites(p, q), NEW s, NEW c, Simulates(p, q, s, c),
         p[s.pc].op = "CALL"
  PROVE  Simulates(p, q, Entered(p, s, p[s.pc]), Entered(q, c, p[s.pc]))
<1> DEFINE f == p[s.pc].src1.name
           Waiting(m) == [pc |-> m.pc, locals |-> m.locals, actuals |-> m.actuals]
           Made(m, k) == [pc |-> k, locals |-> [n \in DOMAIN m.locals |-> Undefined], actuals |-> m.pending,
                          pending |-> << >>, callers |-> Append(m.callers, Waiting(m)),
                          globals |-> m.globals, status |-> m.status, value |-> m.value]
<1>1. /\ Len(p) \in Nat /\ Len(q) = Len(p) /\ \A g : BeginsOf(q, g) = BeginsOf(p, g)
      /\ LocalsOf(q) \subseteq LocalsOf(p)
      /\ \A i \in 1..Len(p) : p[i].op = "CALL" => q[i] = p[i]
  BY RewritingShape DEF CombinableOps, BinaryOps, ArithmeticOps, RelationOps
<1>2. IsMachine(p, s) /\ IsMachine(q, c) /\ c.pc = s.pc /\ s.pc \in 1..Len(p)
  BY DEF Simulates, IsMachine
<1>3. PICK k \in 1..Len(p) : BeginOf(p, f) = k /\ BeginOf(q, f) = k
  <2>1. f \in FunctionsOf(p)
    BY <1>2 DEF IsCode
  <2>. HIDE DEF f
  <2>2. PICK k \in 1..Len(p) : BeginsOf(p, f) = {k}
    BY <2>1 DEF IsCode
  <2>3. BeginsOf(q, f) = {k}
    BY <1>1, <2>2
  <2>. QED BY <2>2, <2>3, TheBegin
<1>4. Entered(p, s, p[s.pc]) = Made(s, k) /\ Entered(q, c, p[s.pc]) = Made(c, k)
  <2>1. ASSUME NEW ir, NEW m, IsRecord(m), BeginOf(ir, f) = k
        PROVE  Entered(ir, m, p[s.pc]) = Made(m, k)
    <3> DEFINE m1 == WithPc(m, k)
               waiting == Append(m.callers, Waiting(m))
               m2 == WithCallers(m1, waiting)
               m3 == WithLocals(m2, [n \in DOMAIN m.locals |-> Undefined])
               m4 == WithActuals(m3, m.pending)
               m5 == WithPending(m4, << >>)
    <3>1. Entered(ir, m, p[s.pc]) = m5
      BY <2>1 DEF Entered, WithPc, WithCallers, WithLocals, WithActuals, WithPending, IsRecord
    <3>2. m5 = Made(m, k)
      <4>1. /\ IsRecord(m1) /\ m1.pc = k /\ m1.globals = m.globals /\ m1.status = m.status /\ m1.value = m.value
        BY <2>1, PcChanged
      <4>. HIDE DEF m1, waiting
      <4>2. /\ IsRecord(m2) /\ m2.pc = k /\ m2.callers = waiting
            /\ m2.globals = m.globals /\ m2.status = m.status /\ m2.value = m.value
        BY <4>1, CallersChanged
      <4>. HIDE DEF m2
      <4>3. /\ IsRecord(m3) /\ m3.pc = k /\ m3.callers = waiting
            /\ m3.locals = [n \in DOMAIN m.locals |-> Undefined]
            /\ m3.globals = m.globals /\ m3.status = m.status /\ m3.value = m.value
        BY <4>2, LocalsChanged
      <4>. HIDE DEF m3
      <4>4. /\ IsRecord(m4) /\ m4.pc = k /\ m4.callers = waiting
            /\ m4.locals = [n \in DOMAIN m.locals |-> Undefined] /\ m4.actuals = m.pending
            /\ m4.globals = m.globals /\ m4.status = m.status /\ m4.value = m.value
        BY <4>3, ActualsChanged
      <4>. HIDE DEF m4
      <4>5. /\ IsRecord(m5) /\ m5.pc = k /\ m5.callers = waiting
            /\ m5.locals = [n \in DOMAIN m.locals |-> Undefined] /\ m5.actuals = m.pending /\ m5.pending = << >>
            /\ m5.globals = m.globals /\ m5.status = m.status /\ m5.value = m.value
        BY <4>4, PendingChanged
      <4>. HIDE DEF m5
      <4>. QED BY <4>5 DEF IsRecord, waiting
    <3>. QED BY <3>1, <3>2
  <2>2. IsRecord(s) /\ IsRecord(c)
    BY <1>2 DEF IsMachine
  <2>. HIDE DEF Made, f
  <2>. QED BY <1>3, <2>1, <2>2
<1>5. IsMachine(p, Made(s, k))
  <2>1. Waiting(s) \in Callers(p)
    BY <1>2 DEF Callers, IsMachine
  <2>. HIDE DEF Waiting
  <2>2. Append(s.callers, Waiting(s)) \in Seq(Callers(p))
    BY <1>2, <2>1 DEF IsMachine
  <2>3. [n \in DOMAIN s.locals |-> Undefined] \in [LocalsOf(p) -> Value]
    BY <1>2 DEF IsMachine, Value
  <2>. QED BY <1>2, <2>2, <2>3 DEF IsMachine, IsRecord
<1>6. IsMachine(q, Made(c, k))
  <2>1. Waiting(c) \in Callers(q)
    BY <1>1, <1>2 DEF Callers, IsMachine
  <2>. HIDE DEF Waiting
  <2>2. Append(c.callers, Waiting(c)) \in Seq(Callers(q))
    BY <1>2, <2>1 DEF IsMachine
  <2>3. [n \in DOMAIN c.locals |-> Undefined] \in [LocalsOf(q) -> Value]
    BY <1>2 DEF IsMachine, Value
  <2>. QED BY <1>1, <1>2, <2>2, <2>3 DEF IsMachine, IsRecord
<1>7. CallersCovered(q, Append(s.callers, Waiting(s)), Append(c.callers, Waiting(c)))
  <2>1. /\ s.callers \in Seq(Callers(p)) /\ c.callers \in Seq(Callers(q))
        /\ CallersCovered(q, s.callers, c.callers)
    BY DEF Simulates, IsMachine
  <2>2. /\ Waiting(s).pc = Waiting(c).pc
        /\ LocalsCovered(q, Waiting(s).locals, Waiting(c).locals)
        /\ AllCovered(Waiting(s).actuals, Waiting(c).actuals)
    BY DEF Simulates
  <2> DEFINE sl == Append(s.callers, Waiting(s))
             cl == Append(c.callers, Waiting(c))
  <2>. HIDE DEF Waiting
  <2>3. /\ Len(sl) = Len(s.callers) + 1 /\ Len(cl) = Len(c.callers) + 1 /\ Len(s.callers) \in Nat
        /\ \A j \in 1..Len(s.callers) : sl[j] = s.callers[j]
        /\ \A j \in 1..Len(c.callers) : cl[j] = c.callers[j]
        /\ sl[Len(s.callers) + 1] = Waiting(s) /\ cl[Len(c.callers) + 1] = Waiting(c)
    BY <2>1
  <2>. HIDE DEF sl, cl
  <2>4. CallersCovered(q, sl, cl)
    <3> DEFINE n == Len(s.callers)
    <3>1. Len(c.callers) = n /\ Len(sl) = n + 1 /\ Len(cl) = n + 1 /\ n \in Nat
      BY <2>1, <2>3 DEF CallersCovered
    <3>2. ASSUME NEW j \in 1..Len(sl)
          PROVE  /\ sl[j].pc = cl[j].pc /\ LocalsCovered(q, sl[j].locals, cl[j].locals)
                 /\ AllCovered(sl[j].actuals, cl[j].actuals)
      <4>1. CASE j = n + 1
        BY <2>2, <2>3, <3>1, <4>1
      <4>2. CASE j # n + 1
        <5>1. j \in 1..n
          BY <3>1, <4>2
        <5>2. sl[j] = s.callers[j] /\ cl[j] = c.callers[j]
          BY <2>3, <3>1, <5>1
        <5>. QED BY <2>1, <5>1, <5>2 DEF CallersCovered
      <4>. QED BY <4>1, <4>2
    <3>. QED BY <3>1, <3>2 DEF CallersCovered
  <2>. QED BY <2>4 DEF sl, cl
<1>8. LocalsCovered(q, Made(s, k).locals, Made(c, k).locals)
  BY <1>1, <1>2 DEF LocalsCovered, Covers, IsMachine
<1>9. /\ AllCovered(Made(s, k).actuals, Made(c, k).actuals) /\ AllCovered(Made(s, k).pending, Made(c, k).pending)
      /\ Covers(s.value, c.value) /\ s.status = c.status
      /\ \A g \in GlobalsOf(p) : Covers(s.globals[g], c.globals[g])
  BY DEF Simulates, AllCovered
<1>. QED BY <1>4, <1>5, <1>6, <1>7, <1>8, <1>9 DEF Simulates

\* They return a value: the function to its caller, or the program.
LEMMA ReturnsKeep ==
  ASSUME NEW p, IsCode(p), NEW q, Rewrites(p, q), NEW s, NEW c, Simulates(p, q, s, c),
         NEW v \in Value, NEW w \in Value, Covers(v, w)
  PROVE  Simulates(p, q, Returned(p, s, v), Returned(q, c, w))
<1>1. /\ IsMachine(p, s) /\ IsMachine(q, c) /\ CallersCovered(q, s.callers, c.callers)
      /\ s.callers \in Seq(Callers(p)) /\ c.callers \in Seq(Callers(q))
  BY DEF Simulates, IsMachine
<1>2. CASE s.callers = << >>
  <2>1. c.callers = << >>
    BY <1>1, <1>2 DEF CallersCovered
  <2> DEFINE Made(m, r) == [pc |-> m.pc, locals |-> m.locals, actuals |-> m.actuals, pending |-> m.pending,
                            callers |-> m.callers, globals |-> m.globals, status |-> "returned", value |-> r]
  <2>2. Returned(p, s, v) = Made(s, v) /\ Returned(q, c, w) = Made(c, w)
    <3>1. ASSUME NEW ir, NEW m, NEW r, IsRecord(m), m.callers = << >> PROVE Returned(ir, m, r) = Made(m, r)
      <4> DEFINE m1 == WithStatus(m, "returned")
                 m2 == WithValue(m1, r)
      <4>1. Returned(ir, m, r) = m2
        BY <3>1 DEF Returned, WithStatus, WithValue
      <4>2. /\ IsRecord(m1) /\ m1.pc = m.pc /\ m1.locals = m.locals /\ m1.actuals = m.actuals
            /\ m1.pending = m.pending /\ m1.callers = m.callers /\ m1.globals = m.globals /\ m1.status = "returned"
        BY <3>1, StatusChanged
      <4>. HIDE DEF m1
      <4>3. /\ IsRecord(m2) /\ m2.pc = m.pc /\ m2.locals = m.locals /\ m2.actuals = m.actuals
            /\ m2.pending = m.pending /\ m2.callers = m.callers /\ m2.globals = m.globals
            /\ m2.status = "returned" /\ m2.value = r
        BY <4>2, ValueChanged
      <4>. HIDE DEF m2
      <4>. QED BY <4>1, <4>3 DEF IsRecord
    <3>2. IsRecord(s) /\ IsRecord(c)
      BY <1>1 DEF IsMachine
    <3>. HIDE DEF Made
    <3>. QED BY <1>2, <2>1, <3>1, <3>2
  <2>3. IsMachine(p, Made(s, v)) /\ IsMachine(q, Made(c, w))
    BY <1>1 DEF IsMachine, IsRecord
  <2>. QED BY <2>2, <2>3 DEF Simulates
<1>3. CASE s.callers # << >>
  <2> DEFINE sc == s.callers[Len(s.callers)]
             cc == c.callers[Len(c.callers)]
             Made(m, caller) == [pc |-> caller.pc, locals |-> caller.locals, actuals |-> caller.actuals,
                                 pending |-> m.pending, callers |-> Front(m.callers),
                                 globals |-> m.globals, status |-> m.status, value |-> m.value]
  <2>1. /\ c.callers # << >> /\ sc \in Callers(p) /\ cc \in Callers(q)
        /\ sc.pc = cc.pc /\ LocalsCovered(q, sc.locals, cc.locals) /\ AllCovered(sc.actuals, cc.actuals)
    BY <1>1, <1>3 DEF CallersCovered
  <2>2. /\ Front(s.callers) \in Seq(Callers(p)) /\ Front(c.callers) \in Seq(Callers(q))
        /\ CallersCovered(q, Front(s.callers), Front(c.callers))
    BY <1>1, <1>3, <2>1 DEF CallersCovered, Front
  <2>3. /\ sc.pc \in 1..Len(p) /\ p[sc.pc].op = "CALL" /\ sc.locals \in [LocalsOf(p) -> Value] /\ sc.actuals \in Seq(Value)
        /\ cc.pc \in 1..Len(q) /\ cc.locals \in [LocalsOf(q) -> Value] /\ cc.actuals \in Seq(Value)
        /\ q[cc.pc] = p[sc.pc]
    <3>1. /\ sc.pc \in 1..Len(p) /\ p[sc.pc].op = "CALL" /\ sc.locals \in [LocalsOf(p) -> Value] /\ sc.actuals \in Seq(Value)
          /\ cc.pc \in 1..Len(q) /\ cc.locals \in [LocalsOf(q) -> Value] /\ cc.actuals \in Seq(Value)
      <4>. HIDE DEF sc, cc
      <4>. QED BY <2>1 DEF Callers
    <3>2. \A i \in 1..Len(p) : p[i].op = "CALL" => q[i] = p[i]
      BY RewritingShape DEF CombinableOps, BinaryOps, ArithmeticOps, RelationOps
    <3>. QED BY <2>1, <3>1, <3>2
  <2>4. ASSUME NEW ir, NEW m, NEW caller, IsRecord(m)
        PROVE  [m EXCEPT !.pc = caller.pc, !.locals = caller.locals, !.actuals = caller.actuals,
                         !.callers = Front(@)] = Made(m, caller)
    <3> DEFINE m1 == WithPc(m, caller.pc)
               m2 == WithLocals(m1, caller.locals)
               m3 == WithActuals(m2, caller.actuals)
               m4 == WithCallers(m3, Front(m.callers))
    <3>1. /\ IsRecord(m1) /\ m1.pc = caller.pc /\ m1.callers = m.callers
          /\ m1.pending = m.pending /\ m1.globals = m.globals /\ m1.status = m.status /\ m1.value = m.value
      BY <2>4, PcChanged
    <3>2. /\ IsRecord(m2) /\ m2.pc = caller.pc /\ m2.locals = caller.locals /\ m2.callers = m.callers
          /\ m2.pending = m.pending /\ m2.globals = m.globals /\ m2.status = m.status /\ m2.value = m.value
      <4>. HIDE DEF m1
      <4>. QED BY <3>1, LocalsChanged
    <3>3. /\ IsRecord(m3) /\ m3.pc = caller.pc /\ m3.locals = caller.locals /\ m3.actuals = caller.actuals
          /\ m3.callers = m.callers
          /\ m3.pending = m.pending /\ m3.globals = m.globals /\ m3.status = m.status /\ m3.value = m.value
      <4>. HIDE DEF m2
      <4>. QED BY <3>2, ActualsChanged
    <3>4. /\ IsRecord(m4) /\ m4.pc = caller.pc /\ m4.locals = caller.locals /\ m4.actuals = caller.actuals
          /\ m4.callers = Front(m.callers)
          /\ m4.pending = m.pending /\ m4.globals = m.globals /\ m4.status = m.status /\ m4.value = m.value
      <4>. HIDE DEF m3
      <4>. QED BY <3>3, CallersChanged
    <3>5. [m EXCEPT !.pc = caller.pc, !.locals = caller.locals, !.actuals = caller.actuals,
                    !.callers = Front(@)] = WithCallers(m3, Front(m3.callers))
      BY DEF WithPc, WithLocals, WithActuals, WithCallers
    <3>6. [m EXCEPT !.pc = caller.pc, !.locals = caller.locals, !.actuals = caller.actuals,
                    !.callers = Front(@)] = m4
      <4>. HIDE DEF m3
      <4>. QED BY <3>3, <3>5
    <3>. HIDE DEF m4
    <3>. QED BY <3>4, <3>6 DEF IsRecord
  <2>5. /\ Returned(p, s, v) = Advanced(Stored(Made(s, sc), p[sc.pc].dest, v))
        /\ Returned(q, c, w) = Advanced(Stored(Made(c, cc), p[sc.pc].dest, w))
    <3>1. IsRecord(s) /\ IsRecord(c)
      BY <1>1 DEF IsMachine
    <3>2. /\ [s EXCEPT !.pc = sc.pc, !.locals = sc.locals, !.actuals = sc.actuals, !.callers = Front(@)] = Made(s, sc)
          /\ [c EXCEPT !.pc = cc.pc, !.locals = cc.locals, !.actuals = cc.actuals, !.callers = Front(@)] = Made(c, cc)
      BY <2>4, <3>1
    <3>. HIDE DEF Made
    <3>3. Returned(p, s, v) = Advanced(Stored(Made(s, sc), p[sc.pc].dest, v))
      BY <1>3, <3>2 DEF Returned, Last
    <3>4. Returned(q, c, w) = Advanced(Stored(Made(c, cc), q[cc.pc].dest, w))
      BY <2>1, <3>2 DEF Returned, Last
    <3>. QED BY <2>3, <3>3, <3>4
  <2>. HIDE DEF sc, cc
  <2>6. IsMachine(p, Made(s, sc))
    BY <1>1, <2>2, <2>3 DEF IsMachine, IsRecord
  <2>7. IsMachine(q, Made(c, cc))
    BY <1>1, <2>2, <2>3 DEF IsMachine, IsRecord
  <2>8. Simulates(p, q, Made(s, sc), Made(c, cc))
    BY <2>1, <2>2, <2>6, <2>7 DEF Simulates
  <2>9. Made(s, sc).pc = sc.pc
    OBVIOUS
  <2>. HIDE DEF Made
  <2>10. /\ Simulates(p, q, Stored(Made(s, sc), p[sc.pc].dest, v), Stored(Made(c, cc), p[sc.pc].dest, w))
         /\ Stored(Made(s, sc), p[sc.pc].dest, v).pc = sc.pc
    BY <2>8, <2>9, StoresKeep
  <2>. QED BY <2>3, <2>5, <2>10, AdvancesKeep
<1>. QED BY <1>2, <1>3

\* A declaration gives a parameter its argument or a variable its value, or
\* takes it away in the source.
LEMMA DeclarationsKeep ==
  ASSUME NEW p, IsCode(p), NEW q, Rewrites(p, q), NEW s, NEW c, Simulates(p, q, s, c),
         p[s.pc].op = "LOCAL_VAR_DECL", IsParam(p[s.pc].src1) => s.actuals # << >>, NEW fresh \in BOOLEAN
  PROVE  /\ Simulates(p, q, Declared(s, p[s.pc], fresh), Declared(c, p[s.pc], FALSE))
         /\ Declared(s, p[s.pc], fresh).pc = s.pc
<1> DEFINE inst == p[s.pc]
<1>1. s.pc \in 1..Len(p) /\ q[s.pc] = inst
  <2>1. s.pc \in 1..Len(p)
    BY DEF Simulates, IsMachine
  <2>. QED BY <2>1, RewritingShape DEF CombinableOps, BinaryOps, ArithmeticOps, RelationOps
<1>2. CASE IsParam(inst.src1)
  <2>1. /\ s.actuals \in Seq(Value) /\ c.actuals \in Seq(Value) /\ AllCovered(s.actuals, c.actuals)
        /\ s.actuals # << >>
    BY <1>2 DEF Simulates, IsMachine
  <2>2. Head(s.actuals) \in Value /\ Head(c.actuals) \in Value /\ Covers(Head(s.actuals), Head(c.actuals))
    BY <2>1 DEF AllCovered
  <2> DEFINE s1 == Stored(s, inst.dest, Head(s.actuals))
             c1 == Stored(c, inst.dest, Head(c.actuals))
  <2>3. Simulates(p, q, s1, c1) /\ s1.pc = s.pc /\ s1.actuals = s.actuals
    BY <2>2, StoresKeep
  <2>4. /\ Declared(s, inst, fresh) = WithActuals(s1, Tail(s1.actuals))
        /\ Declared(c, inst, FALSE) = WithActuals(c1, Tail(c1.actuals))
    BY <1>2 DEF Declared, WithActuals, IsParam, IsNone
  <2>. HIDE DEF s1, c1
  <2>5. /\ Simulates(p, q, WithActuals(s1, Tail(s1.actuals)), WithActuals(c1, Tail(c1.actuals)))
        /\ WithActuals(s1, Tail(s1.actuals)).pc = s1.pc
    BY <2>1, <2>3, ActualsKeep
  <2>. QED BY <2>3, <2>4, <2>5
<1>3. CASE IsNone(inst.src1)
  <2>1. Declared(c, inst, FALSE) = c
    BY <1>3 DEF Declared, IsParam, IsNone
  <2>2. CASE fresh
    <3>1. Declared(s, inst, fresh) = Stored(s, inst.dest, Undefined)
      BY <1>3, <2>2 DEF Declared, IsParam, IsNone
    <3>2. Simulates(p, q, Stored(s, inst.dest, Undefined), c) /\ Stored(s, inst.dest, Undefined).pc = s.pc
      BY VoidingKeeps
    <3>. QED BY <2>1, <3>1, <3>2
  <2>3. CASE ~ fresh
    BY <1>3, <2>1, <2>3 DEF Declared, IsParam, IsNone
  <2>. QED BY <2>2, <2>3
<1>4. CASE ~ IsParam(inst.src1) /\ ~ IsNone(inst.src1)
  <2>1. /\ Declared(s, inst, fresh) = Stored(s, inst.dest, ValueIn(s, inst.src1))
        /\ Declared(c, inst, FALSE) = Stored(c, inst.dest, ValueIn(c, inst.src1))
    BY <1>4 DEF Declared
  <2>2. /\ ValueIn(s, inst.src1) \in Value /\ ValueIn(c, inst.src1) \in Value
        /\ Covers(ValueIn(s, inst.src1), ValueIn(c, inst.src1))
    BY <1>1, OperandsCovered
  <2> DEFINE v == ValueIn(s, inst.src1)
             w == ValueIn(c, inst.src1)
  <2>3. Simulates(p, q, Stored(s, inst.dest, v), Stored(c, inst.dest, w)) /\ Stored(s, inst.dest, v).pc = s.pc
    <3>. HIDE DEF v, w, inst
    <3>. QED BY <2>2, StoresKeep DEF v, w
  <2>. QED BY <2>1, <2>3
<1>. QED BY <1>2, <1>3, <1>4

-------------------------------------------------------------------------------
(***************************************************************************)
(* A step of both keeps them together, unless the source's has no meaning. *)
(***************************************************************************)
LEMMA StepKeeps ==
  ASSUME NEW p, IsCode(p), NEW q, Rewrites(p, q), NEW s, NEW c, Simulates(p, q, s, c),
         IsParamDecl(p[s.pc]) => s.actuals # << >>, NEW fresh \in BOOLEAN,
         s.status = "running",
         Step(p, s, fresh).status # "meaningless"
  PROVE  Simulates(p, q, Step(p, s, fresh), Step(q, c, FALSE))
<1> DEFINE inst == p[s.pc]
           code == q[s.pc]
<1>1. c.pc = s.pc /\ s.pc \in 1..Len(p) /\ IsMachine(p, s) /\ IsMachine(q, c)
  BY DEF Simulates, IsMachine
<1>2. /\ code \in Replacements(inst)
      /\ inst.op \notin CombinableOps => code = inst
      /\ code.dest = inst.dest
      /\ inst.op \in CombinableOps => code.op \in CombinableOps \union {"ASSIGN"}
  <2>1. code \in Replacements(inst)
    BY <1>1, RewritingShape
  <2>. QED BY <2>1, ReplacementShape
<1>3. /\ \A o \in {inst.dest, inst.src1, inst.src2} : ValueIn(s, o) \in Value
      /\ \A o \in {code.dest, code.src1, code.src2} :
           /\ ValueIn(c, o) \in Value
           /\ o \in {inst.dest, inst.src1, inst.src2} => Covers(ValueIn(s, o), ValueIn(c, o))
  BY <1>1, OperandsCovered
<1>4. \A m, ir : IsMachine(ir, m) => Meaningless(m).status = "meaningless"
  BY DEF Meaningless, IsMachine, IsRecord
<1> DEFINE Ops == {"FUNC_END", "GLOBAL_VAR_DECL"}
           Others == {"ASSIGN", "LOCAL_VAR_DECL", "LABEL", "FUNC_BEGIN", "BRANCH", "BEQZ", "BNEZ", "PARAM",
                      "CALL", "RETURN"}
<1>5. ASSUME NEW s1, NEW c1, Simulates(p, q, s1, c1), s1.pc = s.pc, inst.op \notin Ops
      PROVE  Simulates(p, q, Advanced(s1), Advanced(c1))
  BY <1>5, AdvancesKeep
<1>6. CASE inst.op \in CombinableOps
  <2>1. ~ DividesByNothing(inst, s) /\ Step(p, s, fresh) = Advanced(Stored(s, inst.dest, Effect(inst, s)))
    <3>1. ~ DividesByNothing(inst, s)
      BY <1>1, <1>4, <1>6 DEF Step, DividesByNothing
    <3>2. inst.op \notin Others
      BY <1>6 DEF CombinableOps, BinaryOps, ArithmeticOps, RelationOps
    <3>. QED BY <1>6, <3>1, <3>2 DEF Step, DividesByNothing, Effect
  <2>2. Covers(Effect(inst, s), Effect(code, c)) /\ ~ DividesByNothing(code, c)
    BY <1>2, <1>3, <1>6, <2>1, EffectCovered
  <2>3. Step(q, c, FALSE) = Advanced(Stored(c, inst.dest, Effect(code, c)))
    <3>1. CombinableOps \cap Others = {}
      BY DEF CombinableOps, BinaryOps, ArithmeticOps, RelationOps
    <3>. QED BY <1>1, <1>2, <1>6, <2>2, <3>1 DEF Step, DividesByNothing, Effect
  <2>4. Effect(inst, s) \in Value /\ Effect(code, c) \in Value
    <3>1. inst.op # "ASSIGN"
      BY <1>6 DEF CombinableOps, BinaryOps, ArithmeticOps, RelationOps
    <3>. QED BY <1>2, <1>3, <1>6, <2>1, <2>2, <3>1, ResultIsValue DEF Effect, DividesByNothing
  <2>5. /\ Simulates(p, q, Stored(s, inst.dest, Effect(inst, s)), Stored(c, inst.dest, Effect(code, c)))
        /\ Stored(s, inst.dest, Effect(inst, s)).pc = s.pc
    BY <2>2, <2>4, StoresKeep
  <2>6. inst.op \notin Ops
    BY <1>6 DEF CombinableOps, BinaryOps, ArithmeticOps, RelationOps
  <2>. QED BY <1>5, <2>1, <2>3, <2>5, <2>6
<1>7. CASE inst.op = "ASSIGN"
  <2>1. code = inst /\ inst.op \notin CombinableOps
    BY <1>2, <1>7 DEF CombinableOps, BinaryOps, ArithmeticOps, RelationOps
  <2>2. /\ Step(p, s, fresh) = Advanced(Stored(s, inst.dest, ValueIn(s, inst.src1)))
        /\ Step(q, c, FALSE) = Advanced(Stored(c, inst.dest, ValueIn(c, inst.src1)))
    BY <1>1, <1>7, <2>1 DEF Step
  <2>3. /\ Simulates(p, q, Stored(s, inst.dest, ValueIn(s, inst.src1)), Stored(c, inst.dest, ValueIn(c, inst.src1)))
        /\ Stored(s, inst.dest, ValueIn(s, inst.src1)).pc = s.pc
    BY <1>3, <2>1, StoresKeep
  <2>. QED BY <1>5, <1>7, <2>2, <2>3
<1>8. CASE inst.op = "LOCAL_VAR_DECL"
  <2>1. code = inst /\ inst.op \notin CombinableOps
    BY <1>2, <1>8 DEF CombinableOps, BinaryOps, ArithmeticOps, RelationOps
  <2>2. /\ Step(p, s, fresh) = Advanced(Declared(s, inst, fresh))
        /\ Step(q, c, FALSE) = Advanced(Declared(c, inst, FALSE))
    BY <1>1, <1>8, <2>1 DEF Step
  <2>3. /\ Simulates(p, q, Declared(s, inst, fresh), Declared(c, inst, FALSE))
        /\ Declared(s, inst, fresh).pc = s.pc
    <3>1. IsParam(p[s.pc].src1) => s.actuals # << >>
      BY <1>8 DEF IsParamDecl
    <3>2. p[s.pc].op = "LOCAL_VAR_DECL"
      BY <1>8
    <3>3. /\ Simulates(p, q, Declared(s, p[s.pc], fresh), Declared(c, p[s.pc], FALSE))
          /\ Declared(s, p[s.pc], fresh).pc = s.pc
      BY ONLY IsCode(p), Rewrites(p, q), Simulates(p, q, s, c), fresh \in BOOLEAN, <3>1, <3>2, DeclarationsKeep, ZenonT(60)
    <3>. QED BY <3>3
  <2>. QED BY <1>5, <1>8, <2>2, <2>3
<1>9. CASE inst.op \in {"LABEL", "FUNC_BEGIN"}
  <2>1. code = inst /\ inst.op \notin CombinableOps
    BY <1>2, <1>9 DEF CombinableOps, BinaryOps, ArithmeticOps, RelationOps
  <2>2. Step(p, s, fresh) = Advanced(s) /\ Step(q, c, FALSE) = Advanced(c)
    BY <1>1, <1>9, <2>1 DEF Step
  <2>. QED BY <1>5, <1>9, <2>2
<1>10. CASE inst.op = "BRANCH"
  <2>1. code = inst /\ inst.op \notin CombinableOps
    BY <1>2, <1>10 DEF CombinableOps, BinaryOps, ArithmeticOps, RelationOps
  <2>2. Step(p, s, fresh) = Jumped(p, s, inst, TRUE) /\ Step(q, c, FALSE) = Jumped(q, c, inst, TRUE)
    BY <1>1, <1>10, <2>1 DEF Step
  <2>. QED BY <1>10, <2>2, JumpsKeep DEF BranchOps
<1>11. CASE inst.op \in {"BEQZ", "BNEZ"}
  <2>1. code = inst /\ inst.op \notin CombinableOps
    BY <1>2, <1>11 DEF CombinableOps, BinaryOps, ArithmeticOps, RelationOps
  <2> DEFINE a == ValueIn(s, inst.src1)
             b == ValueIn(c, inst.src1)
             taken == (inst.op = "BEQZ") <=> (a = 0)
  <2>2. a # Undefined /\ a = b
    <3>1. a # Undefined
      BY <1>1, <1>4, <1>11, <2>1 DEF Step
    <3>. QED BY <1>3, <2>1, <3>1 DEF Covers
  <2>3. Step(p, s, fresh) = Jumped(p, s, inst, taken)
    BY <1>11, <2>1, <2>2 DEF Step
  <2>4. Step(q, c, FALSE) = Jumped(q, c, inst, taken)
    BY <1>1, <1>11, <2>1, <2>2 DEF Step
  <2>5. taken \in BOOLEAN
    OBVIOUS
  <2>. HIDE DEF taken
  <2>. QED BY <1>11, <2>3, <2>4, <2>5, JumpsKeep DEF BranchOps
<1>12. CASE inst.op = "PARAM"
  <2>1. code = inst /\ inst.op \notin CombinableOps
    BY <1>2, <1>12 DEF CombinableOps, BinaryOps, ArithmeticOps, RelationOps
  <2>2. /\ Step(p, s, fresh) = Advanced(WithPending(s, Append(s.pending, ValueIn(s, inst.dest))))
        /\ Step(q, c, FALSE) = Advanced(WithPending(c, Append(c.pending, ValueIn(c, inst.dest))))
    BY <1>1, <1>12, <2>1 DEF Step, WithPending
  <2>3. /\ Simulates(p, q, WithPending(s, Append(s.pending, ValueIn(s, inst.dest))),
                           WithPending(c, Append(c.pending, ValueIn(c, inst.dest))))
        /\ WithPending(s, Append(s.pending, ValueIn(s, inst.dest))).pc = s.pc
    BY <1>3, <2>1, PendingKeeps
  <2>. QED BY <1>5, <1>12, <2>2, <2>3
<1>13. CASE inst.op = "CALL"
  <2>1. code = inst /\ inst.op \notin CombinableOps
    BY <1>2, <1>13 DEF CombinableOps, BinaryOps, ArithmeticOps, RelationOps
  <2>2. Step(p, s, fresh) = Entered(p, s, inst) /\ Step(q, c, FALSE) = Entered(q, c, inst)
    BY <1>1, <1>13, <2>1 DEF Step
  <2>. QED BY <1>13, <2>2, EntersKeep
<1>14. CASE inst.op = "RETURN"
  <2>1. code = inst /\ inst.op \notin CombinableOps
    BY <1>2, <1>14 DEF CombinableOps, BinaryOps, ArithmeticOps, RelationOps
  <2>2. /\ Step(p, s, fresh) = Returned(p, s, ValueIn(s, inst.dest))
        /\ Step(q, c, FALSE) = Returned(q, c, ValueIn(c, inst.dest))
    BY <1>1, <1>14, <2>1 DEF Step
  <2>. QED BY <1>3, <2>1, <2>2, ReturnsKeep
<1>15. CASE inst.op \notin CombinableOps \union Others
  <2>1. code = inst
    BY <1>2, <1>15
  <2>2. /\ Step(p, s, fresh) = WithStatus(s, "fell through")
        /\ Step(q, c, FALSE) = WithStatus(c, "fell through")
    BY <1>1, <1>15, <2>1 DEF Step, WithStatus
  <2>. QED BY <2>2, EndsKeep
<1>. QED BY <1>6, <1>7, <1>8, <1>9, <1>10, <1>11, <1>12, <1>13, <1>14, <1>15

-------------------------------------------------------------------------------
(***************************************************************************)
(* The specification.                                                      *)
(***************************************************************************)
\* Both start at the function's beginning, without a value in any local
\* variable.
LEMMA InductiveInit == Init => Inductive
<1> SUFFICES ASSUME Init PROVE Inductive
  OBVIOUS
<1> DEFINE p == original
           q == rewritten
<1>1. IsCode(p) /\ Rewrites(p, q)
  BY PassesRewrite DEF Init
<1>2. PICK f \in FunctionsOf(p), actuals \in Seq(Word), globals \in [GlobalsOf(p) -> Word] :
        source = Start(p, f, actuals, globals) /\ compiled = Start(q, f, actuals, globals)
  BY DEF Init
<1>3. PICK k \in 1..Len(p) : BeginOf(p, f) = k /\ BeginOf(q, f) = k
  <2>1. PICK k \in 1..Len(p) : BeginsOf(p, f) = {k}
    BY <1>1, <1>2 DEF IsCode
  <2>2. BeginsOf(q, f) = {k}
    BY <1>1, <2>1, RewritingShape
  <2>. QED BY <2>1, <2>2, TheBegin
<1>4. Len(q) = Len(p) /\ LocalsOf(q) \subseteq LocalsOf(p) /\ GlobalsOf(q) = GlobalsOf(p)
  BY <1>1, RewritingShape
<1>5. actuals \in Seq(Value) /\ globals \in [GlobalsOf(p) -> Value] /\ Undefined \in Value
  <2>1. Word \subseteq Value
    BY DEF Value
  <2>2. actuals \in Seq(Value)
    BY <1>2, <2>1
  <2>3. globals \in [GlobalsOf(p) -> Value]
    BY <1>2, <2>1
  <2>. QED BY <2>2, <2>3 DEF Value
<1>6. IsMachine(p, source) /\ IsMachine(q, compiled)
  BY <1>2, <1>3, <1>4, <1>5 DEF Start, IsMachine, IsRecord
<1>7. Simulates(p, q, source, compiled)
  BY <1>2, <1>3, <1>4, <1>5, <1>6 DEF Start, Simulates, LocalsCovered, AllCovered, CallersCovered, Covers
<1>. QED BY <1>1, <1>7 DEF Inductive

\* Every step, and every step that changes nothing, keeps the invariant.
LEMMA InductiveStep == Inductive /\ [Next]_vars => Inductive'
<1> SUFFICES ASSUME Inductive, [Next]_vars PROVE Inductive'
  OBVIOUS
<1>1. CASE UNCHANGED vars
  BY <1>1 DEF vars, Inductive
<1>2. CASE Next
  <2>1. PICK fresh \in BOOLEAN : source' = Step(original, source, fresh)
    BY <1>2 DEF Next
  <2>2. /\ source.status = "running" /\ compiled' = Step(rewritten, compiled, FALSE)
        /\ original' = original /\ rewritten' = rewritten
        /\ IsParamDecl(original[source.pc]) => source.actuals # << >>
    BY <1>2 DEF Next, FindsArgument
  <2>3. IsCode(original) /\ Rewrites(original, rewritten) /\ Simulates(original, rewritten, source, compiled)
    BY <2>2 DEF Inductive
  <2>4. source'.status # "meaningless" => Simulates(original, rewritten, source', compiled')
    BY <2>1, <2>2, <2>3, StepKeeps
  <2>. QED BY <2>2, <2>3, <2>4 DEF Inductive
<1>. QED BY <1>1, <1>2

(***************************************************************************)
(* Constant folding and the algebraic identities (Passes 0b and 0c of      *)
(* optimizePass) keep the meaning of every program, for every size of a    *)
(* word and all inputs: as long as the original run has a meaning, the     *)
(* rewritten code is as far, and when the original returns, the rewritten  *)
(* code returns with the value and the globals that the original defines.  *)
(***************************************************************************)
THEOREM RewritingKeepsMeaning == Spec => []MeaningKept
<1>1. ASSUME Inductive PROVE MeaningKept
  <2>1. SUFFICES ASSUME source.status # "meaningless"
                 PROVE  compiled.status = source.status /\ Implements(compiled, source)
    BY DEF MeaningKept
  <2>2. Simulates(original, rewritten, source, compiled)
    BY <1>1, <2>1 DEF Inductive
  <2>. QED BY <2>2 DEF Simulates, IsMachine, Covers, Implements
<1>2. Spec => []Inductive
  BY InductiveInit, InductiveStep, PTL DEF Spec
<1>. QED BY <1>1, <1>2, PTL

(***************************************************************************)
(* What the passes make of code is code again.  So the passes behind them, *)
(* and the same ones in the next iteration of optimizePass, find what they *)
(* find in generate's code: constants are words, every global is declared, *)
(* every branch has its one label and every call its function.             *)
(***************************************************************************)
THEOREM RewritingGivesCode ==
  ASSUME NEW p, IsCode(p), NEW q \in {MapCode(p, Folded), MapCode(p, Algebraic)}
  PROVE  IsCode(q)
<1>1. Rewrites(p, q)
  BY PassesRewrite
<1>2. /\ Len(p) \in Nat /\ Len(q) = Len(p) /\ DOMAIN q = 1..Len(p)
      /\ \A i \in 1..Len(p) : q[i] \in Replacements(p[i])
      /\ \A i \in 1..Len(p) : p[i].op \notin CombinableOps => q[i] = p[i]
      /\ \A i \in 1..Len(p) : q[i].op \notin CombinableOps \union {"ASSIGN"} => q[i] = p[i]
      /\ GlobalsOf(q) = GlobalsOf(p) /\ \A f : BeginsOf(q, f) = BeginsOf(p, f)
      /\ \A l : PlaceOf(q, l) = PlaceOf(p, l)
  BY <1>1, RewritingShape
<1>3. FunctionsOf(q) = FunctionsOf(p)
  <2>1. \A ir, f : f \in FunctionsOf(ir) <=> BeginsOf(ir, f) # {}
    BY DEF FunctionsOf, BeginsOf
  <2>2. \A f : f \in FunctionsOf(q) <=> f \in FunctionsOf(p)
    BY <1>2, <2>1
  <2>. QED BY <2>2
<1>4. q \in Seq(Range(q)) /\ q # << >>
  <2>1. Len(p) # 0
    BY DEF IsCode
  <2>. QED BY <1>1, <1>2, <2>1 DEF Rewrites
<1>5. q[Len(q)].op \in {"FUNC_END", "GLOBAL_VAR_DECL"}
  <2>1. p[Len(p)].op \in {"FUNC_END", "GLOBAL_VAR_DECL"} /\ Len(p) \in 1..Len(p)
    <3>1. Len(p) # 0
      BY DEF IsCode
    <3>. QED BY <1>2, <3>1 DEF IsCode
  <2>2. p[Len(p)].op \notin CombinableOps
    BY <2>1 DEF CombinableOps, BinaryOps, ArithmeticOps, RelationOps
  <2>. QED BY <1>2, <2>1, <2>2
<1>6. \A f \in FunctionsOf(q) : \E k \in 1..Len(q) : BeginsOf(q, f) = {k}
  BY <1>2, <1>3 DEF IsCode
<1>7. ASSUME NEW i \in 1..Len(q)
      PROVE  \A o \in {q[i].dest, q[i].src1, q[i].src2} :
               (IsImm(o) => o.imm \in Word) /\ (IsGlobal(o) => o.name \in GlobalsOf(q))
  <2>1. \A o \in {p[i].dest, p[i].src1, p[i].src2} :
          (IsImm(o) => o.imm \in Word) /\ (IsGlobal(o) => o.name \in GlobalsOf(q))
    BY <1>2 DEF IsCode
  <2>2. q[i] \in Replacements(p[i])
    BY <1>2
  <2>3. q[i].dest = p[i].dest /\ \A o \in {q[i].src1, q[i].src2} : IsGlobal(o) => o \in {p[i].src1, p[i].src2}
    BY <2>2, ReplacementShape
  <2>4. \A o \in {q[i].src1, q[i].src2} : IsImm(o) => o.imm \in Word
    BY <2>1, <2>2, ReplacementWords
  <2>. QED BY <2>1, <2>3, <2>4
<1>8. ASSUME NEW i \in 1..Len(q)
      PROVE  /\ q[i].op \in BranchOps => \E k \in 1..Len(q) : PlaceOf(q, q[i].dest) = {k}
             /\ q[i].op = "CALL" => q[i].src1.name \in FunctionsOf(q)
  <2>1. q[i].op \in BranchOps \union {"CALL"} => q[i] = p[i]
    BY <1>2 DEF BranchOps, CombinableOps, BinaryOps, ArithmeticOps, RelationOps
  <2>. QED BY <1>2, <1>3, <2>1 DEF IsCode
<1>. QED BY <1>4, <1>5, <1>6, <1>7, <1>8 DEF IsCode
===============================================================================
