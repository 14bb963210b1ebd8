----------------------------- MODULE FrameAnalysis ----------------------------
(***************************************************************************)
(* What CodeGenerator::analyzeStackFrame finds out about a function: the   *)
(* loops and what its variables and constants cost in them, the ranges of  *)
(* the short-lived variables, and which variables are needed together.     *)
(* An index is that of an instruction between FUNC_BEGIN and FUNC_END.     *)
(***************************************************************************)
EXTENDS Assembly

\* The elements of S by their keys, pairs of numbers, the smallest first.
Ordered(S, Key(_)) ==
  LET Before(x, z) == x[1] < z[1] \/ (x[1] = z[1] /\ x[2] < z[2])
      keyed == {Append(Key(x), x) : x \in S}
      Rank(x) == Cardinality({z \in keyed : Before(z, x)})
      ranked == {<<Rank(x), x[3]>> : x \in keyed}
  IN [k \in 1..Cardinality(S) |-> (CHOOSE x \in ranked : x[1] = k - 1)[2]]

Code(ir, f) == (BeginOf(ir, f) + 1)..(EndOf(ir, f) - 1)

HasCall(ir, f) == \E i \in Code(ir, f) : ir[i].op = "CALL"
HasStackParameters(ir, f) == Len(Formals(ir, f)) > Len(ArgRegs)
OutgoingWords(ir, f) ==
  Max({0} \union {ir[i].src1.imm + 1 - Len(ArgRegs) : i \in {j \in Code(ir, f) : ir[j].op = "PARAM"}})

-------------------------------------------------------------------------------
\* A jump back to a label makes a loop, from the label to the last such jump.
JumpsBack(ir, f, h) == {i \in Code(ir, f) : h < i /\ JumpsTo(ir, i, h)}
LoopDepth(ir, f, i) ==
  Min({7, Cardinality({h \in Code(ir, f) : h <= i /\ \E j \in JumpsBack(ir, f, h) : i <= j})})
UseWeight(ir, f, i) == 8^LoopDepth(ir, f, i)

Operands(inst) == << inst.src1, inst.src2, inst.dest >>
Declares(inst) == inst.op = "LOCAL_VAR_DECL" /\ IsNone(inst.src1)

\* What the operands that satisfy Wanted cost.
Weight(ir, f, Wanted(_)) ==
  LET Which(i) == {k \in 1..3 : Wanted(Operands(ir[i])[k]) /\ ~ (k = 3 /\ Declares(ir[i]))}
  IN MapThenSumSet(LAMBDA i : Cardinality(Which(i)) * UseWeight(ir, f, i), Code(ir, f))

LocalWeight(ir, f, n)  == Weight(ir, f, LAMBDA o : Names(o, n))
GlobalWeight(ir, f, n) == Weight(ir, f, LAMBDA o : IsGlobal(o) /\ o.name = n)

\* Hot constants: what a loop would load again and again.
IsPowerOfTwo(v) == \E n \in 0..(WordBits - 2) : v = 2^n
Log2(v) == CHOOSE n \in 0..(WordBits - 2) : v = 2^n
ShiftAdd == {-1, 3, 5, 7, 9, 15}
SmallFactor(v) == v \in ShiftAdd \/ IsPowerOfTwo(Magnitude(v))

\* computeSignedDivMagic: the multiplier and the shift that divide by d.
HasMagic(d) == d > 1 /\ ~ IsPowerOfTwo(d)

\* The rounds double the power of two, until the multiplier is precise enough.
Magic(d) ==
  LET anc == Half - 1 - (Half % d)
      Round[k \in Nat] ==
        IF k = 0
        THEN [q1 |-> Half \div anc, r1 |-> Half % anc, q2 |-> Half \div d, r2 |-> Half % d]
        ELSE LET s == Round[k - 1]
                 over1 == Truth(2 * s.r1 >= anc)
                 over2 == Truth(2 * s.r2 >= d)
             IN [q1 |-> 2 * s.q1 + over1, r1 |-> 2 * s.r1 - over1 * anc,
                 q2 |-> (2 * s.q2 + over2) % (2 * Half), r2 |-> 2 * s.r2 - over2 * d]
      Coarse(s) == s.q1 < d - s.r2 \/ (s.q1 = d - s.r2 /\ s.r1 = 0)
      last == CHOOSE k \in 1..(2 * WordBits) : ~ Coarse(Round[k]) /\ \A j \in 1..(k - 1) : Coarse(Round[j])
  IN [multiplier |-> Wrap(Round[last].q2 + 1), shift |-> last - 1]

MagicFor(v) == v # -Half /\ HasMagic(Magnitude(v))

\* noteHotConstant: the constants that the instruction gives a weight, and the
\* multiple of it.
HotConstants(inst) ==
  LET v == inst.src2.imm
      first == IF IsImm(inst.src1)
                    /\ \/ inst.op \in BinaryOps
                       \/ inst.op \in {"ASSIGN", "LOCAL_VAR_DECL"} /\ ~ fitsSigned12(inst.src1.imm)
               THEN << inst.src1.imm >> ELSE << >>
      magic == IF MagicFor(v) THEN << Magic(Magnitude(v)).multiplier >> ELSE << >>
      second ==
        CASE ~ IsImm(inst.src2) -> << >>
          [] inst.op \in {"ADD", "SUB", "LT", "LE", "GE"} -> IF fitsSigned12(v) THEN << >> ELSE << v >>
          [] inst.op = "MUL" -> IF SmallFactor(v) THEN << >> ELSE << v >>
          [] inst.op = "DIV" -> IF IsPowerOfTwo(v) \/ v = -1 THEN << >>
                                ELSE IF MagicFor(v) THEN magic ELSE << v >>
          [] inst.op = "MOD" -> IF IsPowerOfTwo(v) \/ v = -1 THEN << >> ELSE Append(magic, v)
          [] inst.op \in {"GT", "EQ", "NE"} -> << v >>
          [] OTHER -> << >>
      third == IF IsImm(inst.dest)
                    /\ \/ inst.op = "PARAM"
                       \/ inst.op = "RETURN" /\ ~ fitsSigned12(inst.dest.imm)
               THEN << inst.dest.imm >> ELSE << >>
  IN SelectSeq(first \o second \o third, LAMBDA c : c # 0)

ConstantWeight(ir, f, v) ==
  MapThenSumSet(
    LAMBDA i : IF LoopDepth(ir, f, i) = 0 THEN 0
               ELSE Len(SelectSeq(HotConstants(ir[i]), LAMBDA c : c = v))
                      * UseWeight(ir, f, i) * (IF fitsSigned12(v) THEN 1 ELSE 2),
    Code(ir, f))

HotScore == 8
HotIn(ir, f) ==
  LET all == UNION {ToSet(HotConstants(ir[i])) : i \in Code(ir, f)}
  IN Ordered({c \in all : ConstantWeight(ir, f, c) >= HotScore},
             LAMBDA c : <<-ConstantWeight(ir, f, c), c>>)

-------------------------------------------------------------------------------
\* varOrder: the local variables, the costliest first, else the first that the
\* code names.
LocalsIn(ir, f) ==
  {o.name : o \in {x \in UNION {ToSet(Operands(ir[i])) : i \in Code(ir, f)} : IsLocal(x)}}

FirstNamed(ir, f, n) ==
  LET here == CHOOSE i \in Code(ir, f) :
                /\ \E k \in 1..3 : Names(Operands(ir[i])[k], n)
                /\ \A j \in Code(ir, f) : j < i => \A k \in 1..3 : ~ Names(Operands(ir[j])[k], n)
  IN 3 * here + (IF Names(ir[here].dest, n) THEN 0 ELSE IF Names(ir[here].src1, n) THEN 1 ELSE 2)

VarKey(ir, f, n) == <<-LocalWeight(ir, f, n), FirstNamed(ir, f, n)>>
VarOrder(ir, f) == Ordered(LocalsIn(ir, f), LAMBDA n : VarKey(ir, f, n))

\* Ranges of temporaries, each from a definition to its last use.  A RETURN or
\* PARAM counts as a definition of what it reads.
BlockBounds == {"LABEL", "BRANCH", "BEQZ", "BNEZ", "CALL", "RETURN", "PARAM"}
SameBlock(ir, i, j) == \A k \in i..(j - 1) : ir[k].op \notin BlockBounds

Definitions(ir, f, n) == {i \in Code(ir, f) : Names(ir[i].dest, n)}
UsesOf(ir, f, n) == {i \in Code(ir, f) : Uses(ir[i], n)}
LatestBefore(S, i) == Max({j \in S : j < i})

IsCandidate(ir, f, n) ==
  LET defs == Definitions(ir, f, n)
      uses == UsesOf(ir, f, n)
      Reads(i) == {k \in 1..3 : Names(Operands(ir[i])[k], n) /\ (k = 3 => ReadsDest(ir[i]))}
  IN /\ Cardinality(defs) + MapThenSumSet(LAMBDA i : Cardinality(Reads(i)), uses) >= 2
     /\ defs # {}
     /\ \A i \in uses : \E j \in defs : j < i
     /\ \A i \in uses : SameBlock(ir, LatestBefore(defs, i), i)

LiveRanges(ir, f, n) ==
  LET defs == Definitions(ir, f, n)
  IN {<<d, Max({d} \union {i \in UsesOf(ir, f, n) : i > d /\ LatestBefore(defs, i) = d})>> : d \in defs}

Candidates(ir, f) == {n \in LocalsIn(ir, f) : IsCandidate(ir, f, n)}
CandidateKey(ir, f, n) == <<Min(Definitions(ir, f, n)), 0>>

RangesOverlap(R1, R2) == \E r \in R1, s \in R2 : r[1] <= s[2] /\ s[1] <= r[2]

\* t3 is spared when a MOD needs it.
TempRegisters(ir, f) ==
  IF \E i \in Code(ir, f) : ir[i].op = "MOD" THEN Tail(TempRegs) ELSE TempRegs

-------------------------------------------------------------------------------
\* Liveness.
Succ(ir, f, i) ==
  {j \in Code(ir, f) :
     \/ JumpsTo(ir, i, j)
     \/ j = i + 1 /\ ir[i].op \notin {"BRANCH", "RETURN"}}

ReadsOf(inst) == {o.name : o \in {x \in {inst.src1, inst.src2} : IsLocal(x)}}
                   \union (IF ReadsDest(inst) /\ IsLocal(inst.dest) THEN {inst.dest.name} ELSE {})

\* liveIn, of which live is what is known so far, and liveOut.  A round of the
\* source goes backwards and uses what it has just found; it ends in the same
\* least solution.
NothingLive(ir, f) == [i \in Code(ir, f) |-> {}]
LiveOut(ir, f, live, i) == UNION {live[j] : j \in Succ(ir, f, i)}
LiveRound(ir, f, live) ==
  [i \in Code(ir, f) |->
     ReadsOf(ir[i])
       \union (LiveOut(ir, f, live, i) \ (IF WritesLocal(ir[i]) THEN {ir[i].dest.name} ELSE {}))]

IsCopy(inst) == inst.op = "ASSIGN" /\ IsLocal(inst.src1) /\ IsLocal(inst.dest)

\* The variables that the definition of another keeps out of its register, and
\* the pairs, both ways.  temps have registers already.
Conflicts(ir, f, live, temps) ==
  UNION {{<<ir[i].dest.name, n>> :
            n \in {m \in LiveOut(ir, f, live, i) \ temps :
                     m # ir[i].dest.name /\ ~ (IsCopy(ir[i]) /\ Names(ir[i].src1, m))}} :
           i \in {j \in Code(ir, f) : WritesLocal(ir[j]) /\ ir[j].dest.name \notin temps}}

\* Mutant of Interference: the pairs one way.
InterferenceOneWay(ir, f, live, temps) == Conflicts(ir, f, live, temps)
Interference(ir, f, live, temps) ==
  UNION {{p, <<p[2], p[1]>>} : p \in Conflicts(ir, f, live, temps)}

CopyPartners(ir, f, n, temps) ==
  {m \in LocalsIn(ir, f) \ temps :
     \E i \in Code(ir, f) :
       /\ IsCopy(ir[i])
       /\ {ir[i].dest.name, ir[i].src1.name} = {m, n}}

-------------------------------------------------------------------------------
\* analyzeNonNegativeVars: where a local variable is taken to hold no negative
\* value; and the chains ((x % m) + m) % m, which are computed at once.
IsVariable(o) == IsLocal(o) \/ IsGlobal(o)

\* matchRawRemainder: a MOD, or the DIV, MUL, SUB that Pass 0d makes of one.
\* At most one.
RawRemainders(ir, f, i) ==
  {[source |-> ir[i].src1, dest |-> ir[j].dest, modulus |-> ir[i].src2.imm, length |-> j - i + 1] :
     j \in {k \in {i, i + 2} \cap Code(ir, f) :
       /\ IsImm(ir[i].src2) /\ ir[i].src2.imm > 1
       /\ IsVariable(ir[k].dest)
       /\ IF k = i THEN ir[i].op = "MOD"
          ELSE /\ ir[i].op = "DIV" /\ IsLocal(ir[i].dest)
               /\ ir[i + 1].op = "MUL" /\ IsLocal(ir[i + 1].dest)
               /\ <<ir[i + 1].src1, ir[i + 1].src2>> \in
                    {<<ir[i].dest, ir[i].src2>>, <<ir[i].src2, ir[i].dest>>}
               /\ ir[k].op = "SUB" /\ ir[k].src1 = ir[i].src1 /\ ir[k].src2 = ir[i + 1].dest}}

\* matchNormalizedRemainder.  middle is the variable that is given x % m + m.
NormalizedRemainders(ir, f, i) ==
  UNION {{[source |-> first.source, dest |-> second.dest, middle |-> first.dest,
           modulus |-> first.modulus, length |-> first.length + 1 + second.length] :
            second \in {s \in RawRemainders(ir, f, i + first.length + 1) :
                          s.modulus = first.modulus /\ s.source = first.dest}} :
         first \in {s \in RawRemainders(ir, f, i) :
                      /\ i + s.length \in Code(ir, f)
                      /\ ir[i + s.length] = Inst("ADD", s.dest, s.dest, Imm(s.modulus))
                      /\ IsLocal(s.dest)}}

ChainEnds(ir, f) ==
  UNION {{i + c.length - 1 : c \in NormalizedRemainders(ir, f, i)} : i \in Code(ir, f)}

-------------------------------------------------------------------------------
\* Every definition in the function is a constant, or the end of a chain.
GivesConstant(inst) ==
  inst.op \in {"ASSIGN", "LOCAL_VAR_DECL"} /\ IsImm(inst.src1) /\ inst.src1.imm >= 0

AlwaysNonNegative(ir, f, n) ==
  LET defs == {i \in Code(ir, f) : WritesLocal(ir[i]) /\ ir[i].dest.name = n /\ ~ Declares(ir[i])}
  IN defs # {} /\ \A i \in defs : GivesConstant(ir[i]) \/ i \in ChainEnds(ir, f)

\* The loop BRANCH condition; LABEL body; ..; LABEL condition; ..; LT n, _;
\* BNEZ body, from the body to the jump, when n starts from a constant and
\* only grows.  PARAM n counts as a definition.
Searched == {"LABEL", "BRANCH", "BEQZ", "BNEZ", "CALL", "FUNC_BEGIN"}

StartsNonNegative(ir, f, i, n) ==
  \E k \in Code(ir, f) :
    /\ k < i /\ Names(ir[k].dest, n) /\ GivesConstant(ir[k])
    /\ \A j \in (k + 1)..(i - 1) : ir[j].op \notin Searched /\ ~ Names(ir[j].dest, n)

Grows(inst, n) ==
  /\ inst.op \in {"ADD", "SUB"} /\ Names(inst.src1, n) /\ IsImm(inst.src2)
  /\ (IF inst.op = "ADD" THEN inst.src2.imm ELSE -inst.src2.imm) > 0

\* The least index behind i that satisfies P.
FirstAfter(ir, f, i, P(_)) == {k \in Code(ir, f) : k > i /\ P(k) /\ \A j \in (i + 1)..(k - 1) : ~ P(j)}

Counters(ir, f) ==
  UNION {UNION {{[name |-> ir[b - 1].src1.name, first |-> i + 2, last |-> b] :
      b \in {k \in FirstAfter(ir, f, c, LAMBDA j : ir[j].op = "BNEZ" /\ ir[j].dest = ir[i + 1].dest) :
               /\ k > c + 1
               /\ ir[k - 1].op \in {"LT", "LE"} /\ IsLocal(ir[k - 1].src1)
               /\ StartsNonNegative(ir, f, i, ir[k - 1].src1.name)
               /\ \A j \in (i + 2)..(k - 1) :
                    Names(ir[j].dest, ir[k - 1].src1.name) => Grows(ir[j], ir[k - 1].src1.name)}} :
      c \in FirstAfter(ir, f, i + 1, LAMBDA j : ir[j].op = "LABEL" /\ ir[j].dest = ir[i].dest)} :
    i \in {j \in Code(ir, f) : ir[j].op = "BRANCH" /\ j + 1 \in Code(ir, f) /\ ir[j + 1].op = "LABEL"}}

Seeded(ir, f, n, i) ==
  \/ AlwaysNonNegative(ir, f, n)
  \/ \E c \in Counters(ir, f) : c.name = n /\ i \in c.first..c.last

\* Along a straight line, known maps a variable to its last definition, which
\* is not negative.  A sum of such values is taken to be one.
LineEnders == {"LABEL", "BRANCH", "BEQZ", "BNEZ", "CALL", "RETURN"}

GivesNonNegative(ir, f, i, known) ==
  LET inst == ir[i]
      NonNegative(o) == \/ IsImm(o) /\ o.imm >= 0
                        \/ IsLocal(o) /\ (o.name \in known \/ Seeded(ir, f, o.name, i))
  IN \/ i \in ChainEnds(ir, f)
     \/ GivesConstant(inst)
     \/ inst.op = "ASSIGN" /\ IsLocal(inst.src1) /\ NonNegative(inst.src1)
     \/ inst.op = "ADD" /\ NonNegative(inst.src1) /\ NonNegative(inst.src2)
     \/ inst.op \in {"DIV", "MOD"} /\ NonNegative(inst.src1) /\ IsImm(inst.src2) /\ inst.src2.imm > 0

KnownBefore(ir, f, i) ==
  LET Known[k \in Nat] ==
        IF k - 1 \notin Code(ir, f) \/ ir[k - 1].op \in LineEnders THEN {}
        ELSE LET before == Known[k - 1]
                 inst == ir[k - 1]
             IN IF ~ IsLocal(inst.dest) THEN before
                ELSE (before \ {inst.dest.name})
                       \union (IF GivesNonNegative(ir, f, k - 1, before) THEN {inst.dest.name} ELSE {})
  IN Known[i]

\* isNonNegative, asked at i.  A range ends where its variable is redefined,
\* and starts at its definition.
HoldsNonNegative(ir, f, n, i, known) ==
  IF ir[i].op \notin LineEnders /\ Names(ir[i].dest, n)
  THEN GivesNonNegative(ir, f, i, known)
  ELSE n \in known

IsNonNegative(ir, f, n, i) ==
  Seeded(ir, f, n, i) \/ HoldsNonNegative(ir, f, n, i, KnownBefore(ir, f, i))
===============================================================================
