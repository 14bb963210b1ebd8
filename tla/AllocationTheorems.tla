-------------------------- MODULE AllocationTheorems --------------------------
(***************************************************************************)
(* For every program and every number of registers: the frame that         *)
(* CodeGenerator::generate lays out gives each variable one register of    *)
(* the machine, and no value that is still needed is overwritten in its    *)
(* register.                                                               *)
(***************************************************************************)
EXTENDS CodeGenerator, WellFoundedInduction, TLAPS

(***************************************************************************)
(* A nonempty set of indexes has a first and a last element; the last is   *)
(* what Max picks.                                                         *)
(***************************************************************************)
LEMMA LeastIndex ==
  ASSUME NEW S \in SUBSET Nat, S # {}
  PROVE  \E k \in S : \A j \in S : k <= j
<1> DEFINE Less == {ss \in Nat \X Nat : ss[1] < ss[2]}
<1>1. IsWellFoundedOn(Less, Nat)
  BY NatLessThanWellFounded DEF OpToRel
<1>2. PICK k \in S : \A j \in S : <<j, k>> \notin Less
  <2>. HIDE DEF Less
  <2>. QED BY <1>1, WFMin
<1>3. ASSUME NEW j \in S PROVE k <= j
  <2>1. j \in Nat /\ k \in Nat
    OBVIOUS
  <2>2. ~ (j < k)
    <3>1. SUFFICES ASSUME j < k PROVE <<j, k>> \in Less
      BY <1>2
    <3>. QED BY <2>1, <3>1
  <2>. QED BY <2>1, <2>2
<1>. QED BY <1>3

LEMMA GreatestIndex ==
  ASSUME NEW b \in Nat, NEW S, S # {}, \A j \in S : j \in Nat /\ j <= b
  PROVE  Max(S) \in S /\ \A j \in S : j <= Max(S)
<1> DEFINE Down == {b - j : j \in S}
<1>1. Down \in SUBSET Nat /\ Down # {}
  OBVIOUS
<1>2. PICK d \in Down : \A j \in Down : d <= j
  <2>. HIDE DEF Down
  <2>. QED BY <1>1, LeastIndex
<1>3. PICK k \in S : d = b - k
  OBVIOUS
<1>4. ASSUME NEW j \in S PROVE j <= k
  <2>1. b - j \in Down
    OBVIOUS
  <2>2. b - k <= b - j /\ j \in Int /\ k \in Int
    BY <1>2, <1>3, <2>1
  <2>. QED BY <2>2
<1>5. \E i \in S : \A j \in S : i >= j
  BY <1>4
<1>6. Max(S) \in S /\ \A j \in S : Max(S) >= j
  BY <1>5 DEF Max
<1>7. \A j \in S : j \in Int /\ Max(S) \in Int
  BY <1>6
<1>. QED BY <1>6, <1>7

-------------------------------------------------------------------------------
(***************************************************************************)
(* A function begins and ends in the code, and its instructions lie in     *)
(* between.                                                                *)
(***************************************************************************)
LEMMA FunctionInside ==
  ASSUME NEW p \in Programs, NEW f \in FunctionsOf(p)
  PROVE  /\ Len(p) \in Nat
         /\ BeginOf(p, f) \in 1..Len(p)
         /\ EndOf(p, f) \in 1..Len(p)
         /\ Code(p, f) \subseteq 1..Len(p)
<1>1. Len(p) \in Nat /\ \E j \in BeginOf(p, f)..Len(p) : p[j].op = "FUNC_END"
  BY ProgramsAreCode
<1>2. BeginOf(p, f) \in 1..Len(p)
  <2>1. \E i \in 1..Len(p) : p[i].op = "FUNC_BEGIN" /\ p[i].dest.name = f
    BY DEF FunctionsOf
  <2>. QED BY <2>1 DEF BeginOf
<1> DEFINE E == {j \in BeginOf(p, f)..Len(p) : p[j].op = "FUNC_END"}
<1>3. E \in SUBSET Nat /\ E # {}
  BY <1>1, <1>2
<1>4. PICK j \in E : \A k \in E : j <= k
  <2>. HIDE DEF E
  <2>. QED BY <1>3, LeastIndex
<1>5. \A k \in BeginOf(p, f)..(j - 1) : p[k].op # "FUNC_END"
  <2>1. SUFFICES ASSUME NEW k \in BeginOf(p, f)..(j - 1), p[k].op = "FUNC_END" PROVE FALSE
    OBVIOUS
  <2>2. k \in E /\ k < j /\ j \in Int /\ k \in Int
    BY <1>1, <1>2, <2>1
  <2>. QED BY <1>4, <2>2
<1>6. EndOf(p, f) \in BeginOf(p, f)..Len(p)
  BY <1>4, <1>5 DEF EndOf
<1>7. EndOf(p, f) \in 1..Len(p)
  BY <1>1, <1>2, <1>6
<1>. QED BY <1>1, <1>2, <1>7 DEF Code

(***************************************************************************)
(* The function at hand is one of those that have no text yet.             *)
(***************************************************************************)
LEMMA FirstIsOne ==
  ASSUME NEW p \in Programs, NEW fs \in SUBSET FunctionsOf(p), fs # {}
  PROVE  FirstOf(p, fs) \in fs
<1> DEFINE Begins == {BeginOf(p, f) : f \in fs}
<1>1. Begins \in SUBSET Nat /\ Begins # {}
  BY FunctionInside
<1>2. PICK b \in Begins : \A c \in Begins : b <= c
  <2>. HIDE DEF Begins
  <2>. QED BY <1>1, LeastIndex
<1>3. \E f \in fs : \A h \in fs : BeginOf(p, f) <= BeginOf(p, h)
  BY <1>2
<1>. QED BY <1>3 DEF FirstOf

-------------------------------------------------------------------------------
(***************************************************************************)
(* The ranges of a temporary.  One goes from a definition to a use, with   *)
(* no block bound in between; every use lies in one.                       *)
(***************************************************************************)
LEMMA LatestIs ==
  ASSUME NEW p \in Programs, NEW f \in FunctionsOf(p), NEW n, NEW i \in Code(p, f),
         \E d \in Definitions(p, f, n) : d < i
  PROVE  /\ LatestBefore(Definitions(p, f, n), i) \in Definitions(p, f, n)
         /\ LatestBefore(Definitions(p, f, n), i) < i
<1> DEFINE S == {j \in Definitions(p, f, n) : j < i}
<1>1. S # {} /\ Len(p) \in Nat /\ \A j \in S : j \in Nat /\ j <= Len(p)
  BY FunctionInside DEF Definitions
<1>2. Max(S) \in S
  <2>. HIDE DEF S
  <2>. QED BY <1>1, GreatestIndex
<1>. QED BY <1>2 DEF LatestBefore

\* A range of a candidate starts at a definition and ends at it or at a read
\* in the same block.
LEMMA RangeShape ==
  ASSUME NEW p \in Programs, NEW f \in FunctionsOf(p), NEW n, IsCandidate(p, f, n),
         NEW r \in LiveRanges(p, f, n)
  PROVE  /\ r[1] \in Definitions(p, f, n) /\ r[2] \in Code(p, f)
         /\ r[1] <= r[2]
         /\ r[1] < r[2] => r[2] \in UsesOf(p, f, n) /\ SameBlock(p, r[1], r[2])
<1> DEFINE Read(d) == {i \in UsesOf(p, f, n) : i > d /\ LatestBefore(Definitions(p, f, n), i) = d}
<1>1. PICK d \in Definitions(p, f, n) : r = <<d, Max({d} \union Read(d))>>
  BY DEF LiveRanges
<1>2. Code(p, f) \subseteq 1..Len(p) /\ Len(p) \in Nat
  BY FunctionInside
<1>3. d \in Code(p, f) /\ Read(d) \subseteq Code(p, f)
  BY DEF Definitions, UsesOf
<1> DEFINE S == {d} \union Read(d)
<1>4. S # {} /\ S \subseteq Code(p, f) /\ \A j \in S : j \in Nat /\ j <= Len(p)
  BY <1>2, <1>3
<1>5. Max(S) \in S /\ \A j \in S : j <= Max(S)
  <2>. HIDE DEF S
  <2>. QED BY <1>2, <1>4, GreatestIndex
<1>6. ASSUME d < Max(S) PROVE Max(S) \in UsesOf(p, f, n) /\ SameBlock(p, d, Max(S))
  <2>1. Max(S) \in Read(d)
    BY <1>2, <1>3, <1>5, <1>6
  <2>2. \A i \in UsesOf(p, f, n) : SameBlock(p, LatestBefore(Definitions(p, f, n), i), i)
    BY DEF IsCandidate
  <2>. QED BY <2>1, <2>2
<1>7. r[1] = d /\ r[2] = Max(S)
  BY <1>1
<1>8. d \in S /\ d \in Int /\ Max(S) \in Int
  BY <1>2, <1>3, <1>4, <1>5
<1>. HIDE DEF S
<1>. QED BY <1>3, <1>4, <1>5, <1>6, <1>7, <1>8

\* n is in one of its ranges when the control reaches i.
InRange(p, f, n, i) == \E r \in LiveRanges(p, f, n) : r[1] < i /\ i <= r[2]

\* Every read of a candidate finds it in a range.
LEMMA UseInRange ==
  ASSUME NEW p \in Programs, NEW f \in FunctionsOf(p), NEW n, IsCandidate(p, f, n),
         NEW i \in UsesOf(p, f, n)
  PROVE  InRange(p, f, n, i)
<1> DEFINE d == LatestBefore(Definitions(p, f, n), i)
<1>1. \E j \in Definitions(p, f, n) : j < i
  BY DEF IsCandidate
<1>2. d \in Definitions(p, f, n) /\ d < i
  BY <1>1, LatestIs DEF UsesOf
<1> DEFINE S == {d} \union {k \in UsesOf(p, f, n) : k > d /\ LatestBefore(Definitions(p, f, n), k) = d}
<1>3. Code(p, f) \subseteq 1..Len(p) /\ Len(p) \in Nat
  BY FunctionInside
<1>4. i \in Code(p, f) /\ d \in Code(p, f)
  BY <1>2 DEF UsesOf, Definitions
<1>5. i \in S /\ \A j \in S : j \in Nat /\ j <= Len(p)
  BY <1>2, <1>3, <1>4 DEF UsesOf
<1>6. i <= Max(S)
  <2>. HIDE DEF S
  <2>. QED BY <1>3, <1>5, GreatestIndex
<1>7. <<d, Max(S)>> \in LiveRanges(p, f, n)
  BY <1>2 DEF LiveRanges
<1>. QED BY <1>2, <1>6, <1>7 DEF InRange

-------------------------------------------------------------------------------
(***************************************************************************)
(* Liveness.  A round gives every place local variables of the function;   *)
(* and a temporary that is live at a place is in one of its ranges there:  *)
(* no jump leads into a range, for it would lead to a label, which ends a  *)
(* block, and which reads nothing.                                         *)
(***************************************************************************)
Typed(p, f, l) == l \in [Code(p, f) -> SUBSET LocalsIn(p, f)]
Ranged(p, f, l) == \A i \in Code(p, f) : \A n \in l[i] : IsCandidate(p, f, n) => InRange(p, f, n, i)

\* What an instruction reads and writes are variables of its function.
LEMMA NamedIsLocal ==
  ASSUME NEW p, NEW f, NEW i \in Code(p, f)
  PROVE  /\ ReadsOf(p[i]) \subseteq LocalsIn(p, f)
         /\ WritesLocal(p[i]) => p[i].dest.name \in LocalsIn(p, f)
<1>1. {p[i].src1, p[i].src2, p[i].dest} \subseteq UNION {ToSet(Operands(p[j])) : j \in Code(p, f)}
  <2>1. {p[i].src1, p[i].src2, p[i].dest} \subseteq ToSet(Operands(p[i]))
    <3> DEFINE o == Operands(p[i])
    <3>1. 1 \in DOMAIN o /\ 2 \in DOMAIN o /\ 3 \in DOMAIN o
      BY DEF Operands
    <3>2. o[1] = p[i].src1 /\ o[2] = p[i].src2 /\ o[3] = p[i].dest
      BY DEF Operands
    <3>. QED BY <3>1, <3>2 DEF ToSet
  <2>. QED BY <2>1
<1>. QED BY <1>1 DEF LocalsIn, ReadsOf, WritesLocal

\* The control goes on at the next instruction or at a label, inside the
\* function.
LEMMA SuccessorInside ==
  ASSUME NEW p, NEW f, NEW i, NEW j \in Succ(p, f, i)
  PROVE  j \in Code(p, f) /\ (p[j].op = "LABEL" \/ j = i + 1)
BY DEF Succ, JumpsTo

\* A round of the liveness analysis stays within the function's variables.
LEMMA RoundTyped ==
  ASSUME NEW p, NEW f, NEW l, Typed(p, f, l)
  PROVE  /\ Typed(p, f, LiveRound(p, f, l))
         /\ \A i : LiveOut(p, f, l, i) \subseteq LocalsIn(p, f)
<1>1. \A i : LiveOut(p, f, l, i) \subseteq LocalsIn(p, f)
  <2>1. \A i : \A j \in Succ(p, f, i) : l[j] \subseteq LocalsIn(p, f)
    BY SuccessorInside DEF Typed
  <2>. QED BY <2>1 DEF LiveOut
<1>2. \A i \in Code(p, f) : LiveRound(p, f, l)[i] \subseteq LocalsIn(p, f)
  BY <1>1, NamedIsLocal DEF LiveRound
<1>. QED BY <1>1, <1>2 DEF Typed, LiveRound

\* A label reads nothing and bounds a block.
LEMMA NothingInLabels ==
  ASSUME NEW p \in Programs, NEW f \in FunctionsOf(p), NEW n, NEW i \in Code(p, f),
         p[i].op = "LABEL"
  PROVE  i \notin UsesOf(p, f, n) /\ p[i].op \in BlockBounds
<1>1. i \in 1..Len(p)
  BY FunctionInside
<1>2. IsNone(p[i].src1) /\ IsNone(p[i].src2)
  BY <1>1, ProgramsAreCode
<1>. QED BY <1>2 DEF UsesOf, Uses, Names, IsNone, IsLocal, ReadsDest, BlockBounds

\* What is live behind i is in a range that goes on behind i.
LEMMA RangeGoesOn ==
  ASSUME NEW p \in Programs, NEW f \in FunctionsOf(p), NEW l, Ranged(p, f, l),
         NEW i \in Code(p, f), NEW n \in LiveOut(p, f, l, i), IsCandidate(p, f, n)
  PROVE  \E r \in LiveRanges(p, f, n) : r[1] <= i /\ i < r[2]
<1>1. PICK j \in Succ(p, f, i) : n \in l[j]
  BY DEF LiveOut
<1>2. j \in Code(p, f) /\ (p[j].op = "LABEL" \/ j = i + 1)
  BY SuccessorInside
<1>3. PICK r \in LiveRanges(p, f, n) : r[1] < j /\ j <= r[2]
  BY <1>1, <1>2 DEF Ranged, InRange
<1>4. Code(p, f) \subseteq 1..Len(p) /\ Len(p) \in Nat
  BY FunctionInside
<1>5. r[1] \in Code(p, f) /\ r[2] \in Code(p, f)
  BY RangeShape DEF Definitions
<1>6. r[2] \in UsesOf(p, f, n) /\ SameBlock(p, r[1], r[2])
  <2>1. r[1] < r[2]
    BY <1>2, <1>3, <1>4, <1>5
  <2>. QED BY <2>1, RangeShape
<1>7. p[j].op # "LABEL"
  <2>1. SUFFICES ASSUME p[j].op = "LABEL" PROVE FALSE
    OBVIOUS
  <2>2. j \notin UsesOf(p, f, n) /\ p[j].op \in BlockBounds
    BY <1>2, <2>1, NothingInLabels
  <2>3. j \in r[1]..(r[2] - 1)
    BY <1>2, <1>3, <1>4, <1>5, <1>6, <2>2
  <2>. QED BY <1>6, <2>2, <2>3 DEF SameBlock
<1>8. r[1] <= i /\ i < r[2]
  BY <1>2, <1>3, <1>4, <1>5, <1>7
<1>. QED BY <1>8

\* A round makes a candidate live only within its ranges.
LEMMA RoundRanged ==
  ASSUME NEW p \in Programs, NEW f \in FunctionsOf(p), NEW l, Ranged(p, f, l)
  PROVE  Ranged(p, f, LiveRound(p, f, l))
<1>1. SUFFICES ASSUME NEW i \in Code(p, f), NEW n \in LiveRound(p, f, l)[i], IsCandidate(p, f, n)
               PROVE  InRange(p, f, n, i)
  BY DEF Ranged
<1>2. CASE n \in ReadsOf(p[i])
  <2>1. i \in UsesOf(p, f, n)
    BY <1>2 DEF ReadsOf, UsesOf, Uses, Names
  <2>. QED BY <1>1, <2>1, UseInRange
<1>3. CASE n \notin ReadsOf(p[i])
  <2>1. n \in LiveOut(p, f, l, i) /\ (WritesLocal(p[i]) => n # p[i].dest.name)
    BY <1>1, <1>3 DEF LiveRound
  <2>2. PICK r \in LiveRanges(p, f, n) : r[1] <= i /\ i < r[2]
    BY <1>1, <2>1, RangeGoesOn
  <2>3. Code(p, f) \subseteq 1..Len(p) /\ Len(p) \in Nat
    BY FunctionInside
  <2>4. r[1] \in Code(p, f) /\ r[2] \in Code(p, f) /\ r[1] \in Definitions(p, f, n)
    BY <1>1, RangeShape DEF Definitions
  <2>5. r[1] # i
    <3>1. SUFFICES ASSUME r[1] = i PROVE FALSE
      OBVIOUS
    <3>2. Names(p[i].dest, n)
      BY <2>4, <3>1 DEF Definitions
    <3>3. ReadsDest(p[i])
      BY <2>1, <3>2 DEF WritesLocal, Names
    <3>4. SameBlock(p, r[1], r[2])
      BY <1>1, <2>2, <3>1, RangeShape
    <3>5. p[i].op \notin BlockBounds
      BY <2>2, <2>3, <2>4, <3>1, <3>4 DEF SameBlock
    <3>. QED BY <3>3, <3>5 DEF ReadsDest, BlockBounds
  <2>6. r[1] < i /\ i <= r[2]
    BY <2>2, <2>3, <2>4, <2>5
  <2>. QED BY <2>6 DEF InRange
<1>. QED BY <1>2, <1>3

-------------------------------------------------------------------------------
(***************************************************************************)
(* The inductive invariant.  Of the function at hand: two temporaries in   *)
(* the same register have ranges that do not overlap; what is known of     *)
(* liveness puts them inside their ranges; the other variables are         *)
(* coloured apart in a graph that was built from a solution; globals and   *)
(* constants have registers of their own.                                  *)
(***************************************************************************)
IsFrame(fr) ==
  fr = [temps |-> fr.temps, locals |-> fr.locals, globals |-> fr.globals,
        constants |-> fr.constants, spilled |-> fr.spilled, saved |-> fr.saved]

FunctionAtHand ==
  /\ ir \in Programs
  /\ functions \subseteq FunctionsOf(ir)
  /\ stage \in {"temps", "locals", "globals", "text"}
  /\ IsFrame(frame)

QueueInv ==
  functions # {} =>
    /\ stage = "temps" => queue \subseteq Candidates(ir, current)
    /\ stage = "globals" => queue \subseteq GlobalsIn
    /\ stage \in {"locals", "text"} => queue \subseteq LocalsIn(ir, current)

TempsInv ==
  /\ DOMAIN frame.temps \subseteq DOMAIN frame.locals
  /\ \A n \in DOMAIN frame.temps :
       /\ frame.temps[n] = frame.locals[n] /\ frame.temps[n] \in ToSet(TempRegs)
       /\ frame.temps[n] \in ToSet(TempRegisters(ir, current))
       /\ IsCandidate(ir, current, n)
  /\ \A n, m \in DOMAIN frame.temps :
       (n # m /\ frame.temps[n] = frame.temps[m]) =>
         ~ RangesOverlap(LiveRanges(ir, current, n), LiveRanges(ir, current, m))

LivenessInv == functions # {} => Typed(ir, current, live) /\ Ranged(ir, current, live)

Permanent == ToSet(ArgRegs) \union ToSet(SavedRegs)

GraphInv ==
  /\ stage = "temps" => Coloured = {} /\ conflicts = {}
  /\ (functions # {} /\ stage # "temps") =>
       /\ LiveRound(ir, current, live) = live
       /\ conflicts = Interference(ir, current, live, DOMAIN frame.temps)
  /\ \A n \in Coloured : frame.locals[n] \in Permanent
  /\ \A n, m \in Coloured : <<n, m>> \in conflicts => frame.locals[n] # frame.locals[m]

GlobalsInv ==
  /\ stage \in {"temps", "locals"} => DOMAIN frame.globals = {}
  /\ \A g \in DOMAIN frame.globals :
       /\ frame.globals[g] \in Permanent
       /\ \A n \in Coloured : frame.locals[n] # frame.globals[g]
       /\ \A h \in DOMAIN frame.globals : g # h => frame.globals[g] # frame.globals[h]

ConstantsInv ==
  /\ stage # "text" => DOMAIN frame.constants = {}
  /\ \A c \in DOMAIN frame.constants :
       /\ frame.constants[c] \in Permanent \union {t3}
       /\ \A n \in DOMAIN frame.locals : frame.locals[n] # frame.constants[c]
       /\ \A g \in DOMAIN frame.globals : frame.globals[g] # frame.constants[c]
       /\ frame.constants[c] = t3 => ~ NeedsRemainderScratch

Inductive ==
  /\ FunctionAtHand /\ QueueInv /\ TempsInv /\ LivenessInv
  /\ GraphInv /\ GlobalsInv /\ ConstantsInv

-------------------------------------------------------------------------------
(***************************************************************************)
(* What the steps are made of.                                             *)
(***************************************************************************)
\* Assigning the registers of the locals leaves the rest of the frame.
LEMMA LocalsChanged ==
  ASSUME NEW fr, IsFrame(fr), NEW a
  PROVE  /\ IsFrame([fr EXCEPT !.locals = a])
         /\ [fr EXCEPT !.locals = a].temps = fr.temps
         /\ [fr EXCEPT !.locals = a].locals = a
         /\ [fr EXCEPT !.locals = a].globals = fr.globals
         /\ [fr EXCEPT !.locals = a].constants = fr.constants
BY DEF IsFrame

\* Assigning the registers of the temporaries leaves the rest of the frame.
LEMMA TempsChanged ==
  ASSUME NEW fr, IsFrame(fr), NEW a
  PROVE  /\ IsFrame([fr EXCEPT !.temps = a])
         /\ [fr EXCEPT !.temps = a].temps = a
         /\ [fr EXCEPT !.temps = a].locals = fr.locals
         /\ [fr EXCEPT !.temps = a].globals = fr.globals
         /\ [fr EXCEPT !.temps = a].constants = fr.constants
BY DEF IsFrame

\* Assigning the registers of the globals leaves the rest of the frame.
LEMMA GlobalsChanged ==
  ASSUME NEW fr, IsFrame(fr), NEW a
  PROVE  /\ IsFrame([fr EXCEPT !.globals = a])
         /\ [fr EXCEPT !.globals = a].temps = fr.temps
         /\ [fr EXCEPT !.globals = a].locals = fr.locals
         /\ [fr EXCEPT !.globals = a].globals = a
         /\ [fr EXCEPT !.globals = a].constants = fr.constants
BY DEF IsFrame

\* While functions are left, the current one is a function of the program.
LEMMA AtHand ==
  ASSUME FunctionAtHand, functions # {}
  PROVE  ir \in Programs /\ current \in functions /\ current \in FunctionsOf(ir)
BY FirstIsOne DEF FunctionAtHand, current

\* What a function may use for temporaries are registers for temporaries.
LEMMA TempRegistersAre ==
  ASSUME NEW p, NEW f
  PROVE  ToSet(TempRegisters(p, f)) \subseteq ToSet(TempRegs)
<1>1. TempRegs \in Seq(STRING) /\ TempRegs # << >>
  BY RegistersApart
<1>2. ToSet(Tail(TempRegs)) \subseteq ToSet(TempRegs)
  BY <1>1 DEF ToSet
<1>. QED BY <1>2 DEF TempRegisters

\* The registers for temporaries, among them t3, and the permanent ones are
\* apart, and all are registers of the machine.
LEMMA RegistersOf ==
  /\ Permanent \cap ToSet(TempRegs) = {}
  /\ ToSet(Tail(ArgRegs) \o SavedRegs) \subseteq Permanent
  /\ ToSet(Allocatable) \subseteq Permanent
  /\ t3 \in ToSet(TempRegs)
  /\ Permanent \union ToSet(TempRegs) \subseteq Registers
<1>1. /\ ArgRegs \in Seq(STRING) /\ SavedRegs \in Seq(STRING) /\ ArgRegs # << >>
      /\ TempRegs \in Seq(STRING) /\ TempRegs # << >>
  BY RegistersApart
<1>2. Permanent \cap ToSet(TempRegs) = {}
  BY RegistersApart DEF Permanent
<1>3. ToSet(Tail(ArgRegs) \o SavedRegs) \subseteq Permanent
  BY <1>1 DEF ToSet, Permanent
<1>4. ToSet(Allocatable) \subseteq Permanent
  BY <1>1 DEF ToSet, Permanent, Allocatable
<1>5. t3 \in ToSet(TempRegs)
  BY <1>1 DEF ToSet, t3
<1>6. Permanent \union ToSet(TempRegs) \subseteq Registers
  BY DEF Registers, Destroyed, Permanent
<1>. QED BY <1>2, <1>3, <1>4, <1>5, <1>6

(***************************************************************************)
(* The graph: pairs of different variables, both ways; the definition of a *)
(* variable conflicts with what is live behind it, but not with what it is *)
(* a copy of.                                                              *)
(***************************************************************************)
LEMMA InterferenceShape ==
  ASSUME NEW p, NEW f, NEW l, Typed(p, f, l), NEW temps
  PROVE  /\ Interference(p, f, l, temps) \subseteq LocalsIn(p, f) \X LocalsIn(p, f)
         /\ \A n, m : <<n, m>> \in Interference(p, f, l, temps) => n # m
         /\ \A n, m : <<n, m>> \in Interference(p, f, l, temps) => <<m, n>> \in Interference(p, f, l, temps)
         /\ \A i \in Code(p, f) : \A m \in LiveOut(p, f, l, i) \ temps :
              (/\ WritesLocal(p[i]) /\ p[i].dest.name \notin temps /\ m # p[i].dest.name
               /\ ~ (IsCopy(p[i]) /\ Names(p[i].src1, m))) =>
                <<p[i].dest.name, m>> \in Interference(p, f, l, temps)
<1> DEFINE C == Conflicts(p, f, l, temps)
<1>1. ASSUME NEW q \in C
      PROVE  \E n \in LocalsIn(p, f), m \in LocalsIn(p, f) : q = <<n, m>> /\ n # m
  <2>1. PICK i \in Code(p, f) :
          /\ WritesLocal(p[i])
          /\ \E m \in LiveOut(p, f, l, i) : q = <<p[i].dest.name, m>> /\ m # p[i].dest.name
    BY DEF Conflicts
  <2>2. p[i].dest.name \in LocalsIn(p, f) /\ LiveOut(p, f, l, i) \subseteq LocalsIn(p, f)
    BY <2>1, NamedIsLocal, RoundTyped
  <2>. QED BY <2>1, <2>2
<1>2. \A q : q \in Interference(p, f, l, temps) <=> \E c \in C : q = c \/ q = <<c[2], c[1]>>
  BY DEF Interference
<1>3. \A i \in Code(p, f) : \A m \in LiveOut(p, f, l, i) \ temps :
        (/\ WritesLocal(p[i]) /\ p[i].dest.name \notin temps /\ m # p[i].dest.name
         /\ ~ (IsCopy(p[i]) /\ Names(p[i].src1, m))) => <<p[i].dest.name, m>> \in C
  BY DEF Conflicts
<1>. HIDE DEF C
<1>4. ASSUME NEW q \in Interference(p, f, l, temps)
      PROVE  \E n \in LocalsIn(p, f), m \in LocalsIn(p, f) :
               q = <<n, m>> /\ n # m /\ <<m, n>> \in Interference(p, f, l, temps)
  <2>1. PICK c \in C : q = c \/ q = <<c[2], c[1]>>
    BY <1>2
  <2>2. PICK n \in LocalsIn(p, f), m \in LocalsIn(p, f) : c = <<n, m>> /\ n # m
    BY <1>1
  <2>3. c[1] = n /\ c[2] = m
    BY <2>2
  <2>4. <<n, m>> \in Interference(p, f, l, temps) /\ <<m, n>> \in Interference(p, f, l, temps)
    BY <1>2, <2>2, <2>3
  <2>. QED BY <2>1, <2>2, <2>3, <2>4
<1>5. Interference(p, f, l, temps) \subseteq LocalsIn(p, f) \X LocalsIn(p, f)
  <2>1. SUFFICES ASSUME NEW q \in Interference(p, f, l, temps) PROVE q \in LocalsIn(p, f) \X LocalsIn(p, f)
    OBVIOUS
  <2>2. PICK n \in LocalsIn(p, f), m \in LocalsIn(p, f) : q = <<n, m>>
    BY <1>4
  <2>. QED BY <2>2
<1>6. ASSUME NEW n, NEW m, <<n, m>> \in Interference(p, f, l, temps)
      PROVE  n # m /\ <<m, n>> \in Interference(p, f, l, temps)
  <2>1. PICK n1 \in LocalsIn(p, f), m1 \in LocalsIn(p, f) :
          <<n, m>> = <<n1, m1>> /\ n1 # m1 /\ <<m1, n1>> \in Interference(p, f, l, temps)
    BY <1>4, <1>6
  <2>2. n = n1 /\ m = m1
    BY <2>1
  <2>. QED BY <2>1, <2>2
<1>7. C \subseteq Interference(p, f, l, temps)
  BY <1>2
<1>. QED BY <1>3, <1>5, <1>6, <1>7

\* A leaf's formals that stay where the caller left them are in argument
\* registers, each in its own.
LEMMA FormalsShape ==
  /\ \A n \in DOMAIN FormalsInPlace : FormalsInPlace[n] \in Permanent
  /\ \A n, m \in DOMAIN FormalsInPlace : n # m => FormalsInPlace[n] # FormalsInPlace[m]
<1> DEFINE formals == [k \in DOMAIN Formals(ir, current) |-> Formals(ir, current)[k].dest.name]
<1> DEFINE stay == {k \in DOMAIN formals \cap DOMAIN ArgRegs : formals[k] \notin DOMAIN frame.temps}
<1> DEFINE Where(n) == CHOOSE k \in stay : formals[k] = n
<1>1. CASE leaf
  <2>1. FormalsInPlace = [n \in {formals[k] : k \in stay} |-> ArgRegs[Where(n)]]
    BY <1>1 DEF FormalsInPlace
  <2>2. \A n \in {formals[k] : k \in stay} : Where(n) \in stay /\ formals[Where(n)] = n
    OBVIOUS
  <2>3. stay \subseteq DOMAIN ArgRegs
    OBVIOUS
  <2>4. \A j, k \in DOMAIN ArgRegs : ArgRegs[j] = ArgRegs[k] => j = k
    BY RegistersApart
  <2>. HIDE DEF stay, formals, Where
  <2>. QED BY <2>1, <2>2, <2>3, <2>4 DEF Permanent, ToSet
<1>2. CASE ~ leaf
  BY <1>2 DEF FormalsInPlace
<1>. QED BY <1>1, <1>2

\* The analysis starts within the function's variables and their ranges.
LEMMA NothingLiveShape ==
  ASSUME NEW p, NEW f
  PROVE  Typed(p, f, NothingLive(p, f)) /\ Ranged(p, f, NothingLive(p, f))
BY DEF Typed, Ranged, NothingLive

-------------------------------------------------------------------------------
(***************************************************************************)
(* Every step keeps the invariant.  A variable of the queue that finds no  *)
(* register leaves the frame as it is.                                     *)
(***************************************************************************)
\* Initially no function has a frame, and nothing is live.
LEMMA InductiveInit == Init => Inductive
<1> SUFFICES ASSUME Init PROVE Inductive
  OBVIOUS
<1> USE DEF Init
<1>1. FunctionAtHand
  BY DEF FunctionAtHand, NewFrame, IsFrame
<1>2. /\ DOMAIN frame.temps = {} /\ DOMAIN frame.locals = {}
      /\ DOMAIN frame.globals = {} /\ DOMAIN frame.constants = {}
  BY DEF NewFrame
<1>3. QueueInv
  BY DEF QueueInv, Begun, current
<1>4. LivenessInv
  BY NothingLiveShape DEF LivenessInv, Unseen, current
<1>. QED BY <1>1, <1>2, <1>3, <1>4 DEF Inductive, TempsInv, GraphInv, GlobalsInv, ConstantsInv, Coloured

\* The text is written and the next function starts with an empty frame.
LEMMA EmitKeeps ==
  ASSUME FunctionAtHand, Emit
  PROVE  Inductive'
<1> USE DEF Emit
<1>1. FunctionAtHand'
  BY DEF FunctionAtHand, NewFrame, IsFrame
<1>2. /\ DOMAIN frame'.temps = {} /\ DOMAIN frame'.locals = {}
      /\ DOMAIN frame'.globals = {} /\ DOMAIN frame'.constants = {}
  BY DEF NewFrame
<1>3. QueueInv'
  BY DEF QueueInv, Begun, current
<1>4. LivenessInv'
  BY NothingLiveShape DEF LivenessInv, Unseen, current
<1>. QED BY <1>1, <1>2, <1>3, <1>4 DEF Inductive, TempsInv, GraphInv, GlobalsInv, ConstantsInv, Coloured

\* The queue shrinks, the frame stays.
LEMMA FrameKept ==
  ASSUME Inductive, UNCHANGED <<ir, functions, stage, live, conflicts, frame>>, queue' \subseteq queue
  PROVE  Inductive'
<1>1. current' = current /\ Coloured' = Coloured /\ GlobalsIn' = GlobalsIn
      /\ NeedsRemainderScratch' = NeedsRemainderScratch
  BY DEF current, Coloured, GlobalsIn, NeedsRemainderScratch
<1>. QED BY <1>1 DEF Inductive, FunctionAtHand, QueueInv, TempsInv, LivenessInv, GraphInv, GlobalsInv, ConstantsInv

\* A temporary gets a register whose other temporaries' ranges are apart.
LEMMA PlaceTempKeeps ==
  ASSUME Inductive, PlaceTemp
  PROVE  Inductive'
<1>1. PICK n \in queue :
        /\ Placing("temps", n)
        /\ frame' \in IF FreeTemp(n) = {} THEN {frame}
                      ELSE {[Taken(r, n) EXCEPT !.temps = Joined(@, InReg(n, r))] : r \in FreeTemp(n)}
        /\ queue' = queue \ {n}
  BY Zenon DEF PlaceTemp
<1>2. UNCHANGED <<ir, functions, stage, live, conflicts>> /\ stage = "temps" /\ functions # {}
  BY <1>1 DEF PlaceTemp, Placing, At1
<1>3. CASE frame' = frame
  BY <1>1, <1>2, <1>3, FrameKept
<1>4. CASE frame' # frame
  <2>1. PICK r \in FreeTemp(n) : frame' = [Taken(r, n) EXCEPT !.temps = Joined(@, InReg(n, r))]
    BY <1>1, <1>4
  <2>2. /\ r \in ToSet(TempRegs) /\ r \in ToSet(TempRegisters(ir, current))
        /\ \A m \in DOMAIN frame.temps : frame.temps[m] = r =>
             ~ RangesOverlap(LiveRanges(ir, current, m), LiveRanges(ir, current, n))
    <3>1. r \in ToSet(TempRegisters(ir, current))
      BY DEF FreeTemp, FirstFit, ToSet
    <3>2. \A m \in DOMAIN frame.temps : frame.temps[m] = r =>
            ~ RangesOverlap(LiveRanges(ir, current, m), LiveRanges(ir, current, n))
      BY DEF FreeTemp, FirstFit
    <3>. QED BY <3>1, <3>2, TempRegistersAre
  <2>3. /\ IsFrame(frame')
        /\ frame'.temps = Joined(frame.temps, InReg(n, r))
        /\ frame'.locals = Joined(frame.locals, InReg(n, r))
        /\ frame'.globals = frame.globals /\ frame'.constants = frame.constants
    <3>1. IsFrame(frame)
      BY DEF Inductive, FunctionAtHand
    <3>2. /\ IsFrame(Taken(r, n))
          /\ Taken(r, n).locals = Joined(frame.locals, InReg(n, r))
          /\ Taken(r, n).temps = frame.temps
          /\ Taken(r, n).globals = frame.globals
          /\ Taken(r, n).constants = frame.constants
      BY <3>1, LocalsChanged DEF Taken
    <3>3. frame' = [Taken(r, n) EXCEPT !.temps = Joined(Taken(r, n).temps, InReg(n, r))]
      BY <2>1
    <3>. QED BY <3>2, <3>3, TempsChanged
  <2>4. DOMAIN frame.locals = DOMAIN frame.temps
    BY <1>2 DEF Inductive, TempsInv, GraphInv, Coloured
  <2>5. /\ DOMAIN frame'.temps = DOMAIN frame.temps \union {n}
        /\ DOMAIN frame'.locals = DOMAIN frame.temps \union {n}
        /\ \A m \in DOMAIN frame.temps : frame'.temps[m] = frame.temps[m] /\ frame'.locals[m] = frame.locals[m]
        /\ n \notin DOMAIN frame.temps => frame'.temps[n] = r /\ frame'.locals[n] = r
    BY <2>3, <2>4 DEF Joined, InReg
  <2>6. current' = current /\ IsCandidate(ir, current, n)
    BY <1>1, <1>2 DEF current, Inductive, QueueInv, Candidates
  <2>7. TempsInv'
    <3>1. \A m \in DOMAIN frame'.temps :
            /\ frame'.temps[m] = frame'.locals[m] /\ frame'.temps[m] \in ToSet(TempRegs)
            /\ frame'.temps[m] \in ToSet(TempRegisters(ir, current))
            /\ IsCandidate(ir, current, m)
      BY <2>2, <2>5, <2>6 DEF Inductive, TempsInv
    <3>2. ASSUME NEW k \in DOMAIN frame'.temps, NEW m \in DOMAIN frame'.temps,
                 k # m, frame'.temps[k] = frame'.temps[m]
          PROVE  ~ RangesOverlap(LiveRanges(ir, current, k), LiveRanges(ir, current, m))
      <4>1. CASE k \in DOMAIN frame.temps /\ m \in DOMAIN frame.temps
        BY <2>5, <3>2, <4>1 DEF Inductive, TempsInv
      <4>2. CASE k \in DOMAIN frame.temps /\ m \notin DOMAIN frame.temps
        BY <2>2, <2>5, <3>2, <4>2
      <4>3. CASE k \notin DOMAIN frame.temps /\ m \in DOMAIN frame.temps
        <5>1. ~ RangesOverlap(LiveRanges(ir, current, m), LiveRanges(ir, current, k))
          BY <2>2, <2>5, <3>2, <4>3
        <5>. QED BY <5>1 DEF RangesOverlap
      <4>4. CASE k \notin DOMAIN frame.temps /\ m \notin DOMAIN frame.temps
        BY <2>5, <3>2, <4>4
      <4>. QED BY <4>1, <4>2, <4>3, <4>4
    <3>. QED BY <1>2, <2>5, <2>6, <3>1, <3>2 DEF TempsInv
  <2>8. Coloured' = {} /\ DOMAIN frame'.globals = {} /\ DOMAIN frame'.constants = {}
    BY <1>2, <2>3, <2>5 DEF Coloured, Inductive, GlobalsInv, ConstantsInv
  <2>9. FunctionAtHand' /\ QueueInv' /\ LivenessInv'
    BY <1>1, <1>2, <2>3, <2>6 DEF Inductive, FunctionAtHand, QueueInv, LivenessInv
  <2>. QED BY <1>2, <2>7, <2>8, <2>9 DEF Inductive, GraphInv, GlobalsInv, ConstantsInv
<1>. QED BY <1>3, <1>4

\* A round of the liveness analysis leaves the frame as it is.
LEMMA FindLiveKeeps ==
  ASSUME Inductive, FindLive
  PROVE  Inductive'
<1> USE DEF FindLive
<1>1. UNCHANGED <<ir, functions, stage, queue, conflicts, frame>> /\ stage = "temps" /\ functions # {}
  BY DEF Placed, At1
<1>2. current' = current /\ Coloured' = Coloured /\ GlobalsIn' = GlobalsIn
  BY <1>1 DEF current, Coloured, GlobalsIn
<1>3. Typed(ir, current, live') /\ Ranged(ir, current, live')
  <2>1. ir \in Programs /\ current \in FunctionsOf(ir)
    BY <1>1, AtHand DEF Inductive
  <2>2. Typed(ir, current, live) /\ Ranged(ir, current, live)
    BY <1>1 DEF Inductive, LivenessInv
  <2>. QED BY <2>1, <2>2, RoundTyped, RoundRanged
<1>. QED BY <1>1, <1>2, <1>3 DEF Inductive, FunctionAtHand, QueueInv, TempsInv, LivenessInv, GraphInv, GlobalsInv, ConstantsInv

\* The graph is built from a solution, and formals in place conflict with
\* nothing in the same register.
LEMMA BuildGraphKeeps ==
  ASSUME Inductive, BuildGraph
  PROVE  Inductive'
<1>1. /\ UNCHANGED <<ir, functions, live>> /\ stage = "temps" /\ stage' = "locals" /\ functions # {}
      /\ LiveRound(ir, current, live) = live
      /\ conflicts' = Interference(ir, current, live, DOMAIN frame.temps)
      /\ queue' \subseteq LocalsIn(ir, current)
  BY DEF BuildGraph, Placed, At1
<1>2. /\ IsFrame(frame')
      /\ frame'.locals = Joined(frame.locals, FormalsInPlace)
      /\ frame'.temps = frame.temps
      /\ frame'.globals = frame.globals /\ frame'.constants = frame.constants
  <2>1. IsFrame(frame)
    BY DEF Inductive, FunctionAtHand
  <2>2. frame' = [frame EXCEPT !.locals = Joined(frame.locals, FormalsInPlace)]
    BY DEF BuildGraph
  <2>. QED BY <2>1, <2>2, LocalsChanged
<1>3. DOMAIN frame.locals = DOMAIN frame.temps
  BY <1>1 DEF Inductive, TempsInv, GraphInv, Coloured
<1>4. /\ Coloured' = DOMAIN FormalsInPlace \ DOMAIN frame.temps
      /\ \A n \in Coloured' : frame'.locals[n] = FormalsInPlace[n]
      /\ \A n \in DOMAIN frame.temps : frame'.locals[n] = frame.locals[n]
      /\ DOMAIN frame.temps \subseteq DOMAIN frame'.locals
  <2>1. /\ DOMAIN frame'.locals = DOMAIN frame.locals \union DOMAIN FormalsInPlace
        /\ \A n \in DOMAIN frame.locals : frame'.locals[n] = frame.locals[n]
        /\ \A n \in DOMAIN FormalsInPlace :
             n \notin DOMAIN frame.locals => frame'.locals[n] = FormalsInPlace[n]
    BY <1>2 DEF Joined
  <2>2. Coloured' = DOMAIN frame'.locals \ DOMAIN frame'.temps
    BY DEF Coloured
  <2>. QED BY <1>2, <1>3, <2>1, <2>2
<1>5. current' = current
  BY <1>1 DEF current
<1>6. TempsInv'
  BY <1>1, <1>2, <1>4, <1>5 DEF Inductive, TempsInv
<1>7. GraphInv'
  <2>1. \A n, m \in Coloured' : <<n, m>> \in conflicts' => n # m
    BY <1>1, InterferenceShape DEF Inductive, LivenessInv
  <2>. QED BY <1>1, <1>2, <1>4, <1>5, <2>1, FormalsShape DEF GraphInv
<1>8. DOMAIN frame'.globals = {} /\ DOMAIN frame'.constants = {}
  BY <1>1, <1>2 DEF Inductive, GlobalsInv, ConstantsInv
<1>9. FunctionAtHand' /\ QueueInv' /\ LivenessInv'
  BY <1>1, <1>2, <1>5 DEF Inductive, FunctionAtHand, QueueInv, LivenessInv
<1>. QED BY <1>1, <1>6, <1>7, <1>8, <1>9 DEF Inductive, GlobalsInv, ConstantsInv

\* A variable gets a register that none of its neighbours has.
LEMMA ColourKeeps ==
  ASSUME Inductive, Colour
  PROVE  Inductive'
<1>1. PICK n \in queue :
        /\ Placing("locals", n)
        /\ frame' \in IF Colours(n) = {} THEN {frame} ELSE {Taken(r, n) : r \in Colours(n)}
        /\ queue' = queue \ {n}
  BY Zenon DEF Colour
<1>2. UNCHANGED <<ir, functions, stage, live, conflicts>> /\ stage = "locals" /\ functions # {}
  BY <1>1 DEF Colour, Placing, At1
<1>3. CASE frame' = frame
  BY <1>1, <1>2, <1>3, FrameKept
<1>4. CASE frame' # frame
  <2>1. PICK r \in Colours(n) : frame' = Taken(r, n)
    BY <1>1, <1>4
  <2>2. r \in Permanent /\ Free(n, r)
    <3>1. CASE Preferred(n) # {}
      <4>1. r \in Preferred(n)
        BY <3>1 DEF Colours
      <4>. QED BY <4>1 DEF Preferred, Inductive, GraphInv
    <3>2. CASE Preferred(n) = {}
      <4>1. r \in ToSet(Allocatable) /\ Free(n, r)
        BY <3>2 DEF Colours, FirstFit, ToSet
      <4>. QED BY <4>1, RegistersOf
    <3>. QED BY <3>1, <3>2
  <2>3. /\ IsFrame(frame')
        /\ frame'.temps = frame.temps
        /\ frame'.locals = Joined(frame.locals, InReg(n, r))
        /\ frame'.globals = frame.globals /\ frame'.constants = frame.constants
    <3>1. IsFrame(frame) /\ frame' = [frame EXCEPT !.locals = Joined(frame.locals, InReg(n, r))]
      BY <2>1 DEF Inductive, FunctionAtHand, Taken
    <3>. QED BY <3>1, LocalsChanged
  <2>4. /\ DOMAIN frame'.locals = DOMAIN frame.locals \union {n}
        /\ \A m \in DOMAIN frame.locals : frame'.locals[m] = frame.locals[m]
        /\ n \notin DOMAIN frame.locals => frame'.locals[n] = r
    BY <2>3 DEF Joined, InReg
  <2>5. current' = current
    BY <1>2 DEF current
  <2>6. /\ Coloured \subseteq Coloured' /\ Coloured' \subseteq Coloured \union {n}
        /\ n \in Coloured' \ Coloured => frame'.locals[n] = r
        /\ Coloured \subseteq DOMAIN frame.locals
    BY <2>3, <2>4 DEF Coloured, Inductive, TempsInv
  <2>7. TempsInv'
    BY <1>2, <2>3, <2>4, <2>5 DEF Inductive, TempsInv
  <2>8. GraphInv'
    <3>1. \A m \in Coloured' : frame'.locals[m] \in Permanent
      BY <2>2, <2>4, <2>6 DEF Inductive, GraphInv
    <3>2. conflicts = Interference(ir, current, live, DOMAIN frame.temps) /\ Typed(ir, current, live)
      BY <1>2 DEF Inductive, GraphInv, LivenessInv
    <3>3. ASSUME NEW k \in Coloured', NEW m \in Coloured', <<k, m>> \in conflicts
          PROVE  frame'.locals[k] # frame'.locals[m]
      <4>1. k # m /\ <<m, k>> \in conflicts
        BY <3>2, <3>3, InterferenceShape
      <4>2. CASE k \in Coloured /\ m \in Coloured
        BY <2>4, <2>6, <3>3, <4>2 DEF Inductive, GraphInv
      <4>3. CASE k \notin Coloured
        BY <2>2, <2>4, <2>6, <3>3, <4>1, <4>3 DEF Free
      <4>4. CASE m \notin Coloured
        BY <2>2, <2>4, <2>6, <3>3, <4>1, <4>4 DEF Free
      <4>. QED BY <4>2, <4>3, <4>4
    <3>. QED BY <1>2, <2>3, <2>5, <3>1, <3>3 DEF Inductive, GraphInv
  <2>9. DOMAIN frame'.globals = {} /\ DOMAIN frame'.constants = {}
    BY <1>2, <2>3 DEF Inductive, GlobalsInv, ConstantsInv
  <2>10. FunctionAtHand' /\ QueueInv' /\ LivenessInv'
    BY <1>1, <1>2, <2>3, <2>5 DEF Inductive, FunctionAtHand, QueueInv, LivenessInv
  <2>. QED BY <2>7, <2>8, <2>9, <2>10 DEF Inductive, GlobalsInv, ConstantsInv
<1>. QED BY <1>3, <1>4

\* Listing the globals leaves the frame as it is.
LEMMA OrderGlobalsKeeps ==
  ASSUME Inductive, OrderGlobals
  PROVE  Inductive'
<1> USE DEF OrderGlobals
<1>1. /\ UNCHANGED <<ir, functions, live, conflicts, frame>> /\ stage = "locals" /\ stage' = "globals"
      /\ queue' \subseteq GlobalsIn
  BY DEF Placed, At1
<1>2. current' = current /\ Coloured' = Coloured /\ GlobalsIn' = GlobalsIn
  BY <1>1 DEF current, Coloured, GlobalsIn
<1>. QED BY <1>1, <1>2 DEF Inductive, FunctionAtHand, QueueInv, TempsInv, LivenessInv, GraphInv, GlobalsInv, ConstantsInv

\* A global gets a register that no local variable has.
LEMMA PlaceGlobalKeeps ==
  ASSUME Inductive, PlaceGlobal
  PROVE  Inductive'
<1>1. PICK g \in queue :
        /\ Placing("globals", g)
        /\ frame' \in IF FreeForGlobal = {} THEN {frame}
                      ELSE {[frame EXCEPT !.globals = Joined(@, InReg(g, r))] : r \in FreeForGlobal}
        /\ queue' = queue \ {g}
  BY DEF PlaceGlobal
<1>2. UNCHANGED <<ir, functions, stage, live, conflicts>> /\ stage = "globals" /\ functions # {}
  BY <1>1 DEF PlaceGlobal, Placing, At1
<1>3. CASE frame' = frame
  BY <1>1, <1>2, <1>3, FrameKept
<1>4. CASE frame' # frame
  <2>1. PICK r \in FreeForGlobal : frame' = [frame EXCEPT !.globals = Joined(frame.globals, InReg(g, r))]
    BY <1>1, <1>4
  <2>2. r \in Permanent /\ Unused(r)
    <3>1. r \in ToSet(Tail(ArgRegs) \o SavedRegs) /\ Unused(r)
      BY DEF FreeForGlobal, FirstFit, ToSet
    <3>. QED BY <3>1, RegistersOf
  <2>3. /\ IsFrame(frame')
        /\ frame'.temps = frame.temps /\ frame'.locals = frame.locals
        /\ frame'.globals = Joined(frame.globals, InReg(g, r))
        /\ frame'.constants = frame.constants
    <3>1. IsFrame(frame)
      BY DEF Inductive, FunctionAtHand
    <3>. QED BY <2>1, <3>1, GlobalsChanged
  <2>4. current' = current /\ Coloured' = Coloured /\ GlobalsIn' = GlobalsIn
    BY <1>2, <2>3 DEF current, Coloured, GlobalsIn
  <2>5. GlobalsInv'
    <3>1. /\ DOMAIN frame'.globals = DOMAIN frame.globals \union {g}
          /\ \A h \in DOMAIN frame.globals : frame'.globals[h] = frame.globals[h]
          /\ g \notin DOMAIN frame.globals => frame'.globals[g] = r
      BY <2>3 DEF Joined, InReg
    <3>. QED BY <1>2, <2>2, <2>3, <2>4, <3>1 DEF Inductive, GlobalsInv, Unused
  <2>6. /\ FunctionAtHand' /\ QueueInv' /\ TempsInv' /\ LivenessInv' /\ GraphInv' /\ ConstantsInv'
    BY <1>1, <1>2, <2>3, <2>4 DEF Inductive, FunctionAtHand, QueueInv, TempsInv, LivenessInv, GraphInv, ConstantsInv
  <2>. QED BY <2>5, <2>6 DEF Inductive
<1>. QED BY <1>3, <1>4

(***************************************************************************)
(* A hot constant gets a spare register; and nothing else is in it.        *)
(***************************************************************************)
LEMMA HoistedAreSpare ==
  ASSUME NEW hot
  PROVE  \A v \in DOMAIN Hoisted(hot) : Spare(Hoisted(hot)[v])
<1> DEFINE order == << t3 >> \o ArgRegs \o SavedRegs
<1> DEFINE spare == {j \in DOMAIN order : Spare(order[j])}
<1> DEFINE Rank(j) == Cardinality({i \in spare : i <= j})
<1> DEFINE given == {<<hot[Rank(j)], order[j]>> : j \in {i \in spare : Rank(i) <= HoistLimit /\ Rank(i) <= Len(hot)}}
<1>1. ASSUME NEW p \in given PROVE Spare(p[2])
  <2>1. PICK j \in {i \in spare : Rank(i) <= HoistLimit /\ Rank(i) <= Len(hot)} : p = <<hot[Rank(j)], order[j]>>
    OBVIOUS
  <2>2. j \in spare /\ p[2] = order[j]
    BY <2>1
  <2>. QED BY <2>2
<1>2. Hoisted(hot) = [v \in {p[1] : p \in given} |-> (CHOOSE p \in given : p[1] = v)[2]]
  BY DEF Hoisted
<1>. HIDE DEF given
<1>3. \A v \in {p[1] : p \in given} : (CHOOSE p \in given : p[1] = v) \in given
  OBVIOUS
<1>. QED BY <1>1, <1>2, <1>3

\* What is spare is t3, unless a remainder needs it, or a register in which no
\* global is.
LEMMA SpareIs ==
  ASSUME Inductive, NEW r, Spare(r)
  PROVE  /\ r \in Permanent \union {t3}
         /\ r = t3 => ~ NeedsRemainderScratch
         /\ \A g \in DOMAIN frame.globals : frame.globals[g] # r
<1>1. /\ Permanent \cap ToSet(TempRegs) = {} /\ t3 \in ToSet(TempRegs)
      /\ ToSet(SavedRegs) \subseteq Permanent
      /\ \A k \in DOMAIN ArgRegs : ArgRegs[k] \in Permanent
  BY RegistersOf DEF Permanent, ToSet
<1>2. \A g \in DOMAIN frame.globals : frame.globals[g] \in Permanent
  BY DEF Inductive, GlobalsInv
<1>. QED BY <1>1, <1>2 DEF Spare, Unused

\* No variable is in a register that is spare.
LEMMA SpareHoldsNothing ==
  ASSUME Inductive, NEW r, Spare(r), NEW n \in DOMAIN frame.locals
  PROVE  frame.locals[n] # r
<1>1. /\ Permanent \cap ToSet(TempRegs) = {} /\ t3 \in ToSet(TempRegs)
      /\ ToSet(SavedRegs) \subseteq Permanent
      /\ \A k \in DOMAIN ArgRegs : ArgRegs[k] \in Permanent
  BY RegistersOf DEF Permanent, ToSet
<1>2. CASE n \in Coloured
  <2>1. frame.locals[n] \in Permanent
    BY <1>2 DEF Inductive, GraphInv
  <2>. QED BY <1>1, <1>2, <2>1 DEF Spare, Unused
<1>3. CASE n \notin Coloured
  <2>1. n \in DOMAIN frame.temps /\ frame.temps[n] = frame.locals[n] /\ frame.temps[n] \in ToSet(TempRegs)
    BY <1>3 DEF Coloured, Inductive, TempsInv
  <2>. QED BY <1>1, <2>1 DEF Spare
<1>. QED BY <1>2, <1>3

\* Constants get registers that hold nothing; the frame is settled.
LEMMA SettleKeeps ==
  ASSUME Inductive, Settle
  PROVE  Inductive'
<1>1. /\ UNCHANGED <<ir, functions, queue, live, conflicts>>
      /\ stage = "globals" /\ stage' = "text" /\ queue = {} /\ functions # {}
  BY DEF Settle, Placed, At1
<1>2. PICK constants, spilled, saved :
        /\ constants = Hoisted(HotIn(ir, current))
        /\ frame' = [[frame EXCEPT !.constants = constants, !.spilled = spilled] EXCEPT !.saved = saved]
  BY DEF Settle
<1>3. /\ IsFrame(frame')
      /\ frame'.temps = frame.temps /\ frame'.locals = frame.locals /\ frame'.globals = frame.globals
      /\ frame'.constants = Hoisted(HotIn(ir, current))
  <2> DEFINE given == [frame EXCEPT !.constants = constants]
  <2> DEFINE fr == [given EXCEPT !.spilled = spilled]
  <2>1. given = [temps |-> frame.temps, locals |-> frame.locals, globals |-> frame.globals,
                 constants |-> constants, spilled |-> frame.spilled, saved |-> frame.saved]
    BY DEF Inductive, FunctionAtHand, IsFrame
  <2>2. frame' = [fr EXCEPT !.saved = saved]
    BY <1>2
  <2>. HIDE DEF given
  <2>3. fr = [temps |-> frame.temps, locals |-> frame.locals, globals |-> frame.globals,
              constants |-> constants, spilled |-> spilled, saved |-> frame.saved]
    BY <2>1
  <2>. HIDE DEF fr
  <2>4. frame' = [temps |-> frame.temps, locals |-> frame.locals, globals |-> frame.globals,
                  constants |-> constants, spilled |-> spilled, saved |-> saved]
    BY <2>2, <2>3
  <2>. QED BY <1>2, <2>4 DEF IsFrame
<1>4. current' = current /\ Coloured' = Coloured
  BY <1>1, <1>3 DEF current, Coloured
<1>5. ConstantsInv'
  <2>1. NeedsRemainderScratch' = NeedsRemainderScratch
    <3>1. \A o : RegOf(frame', o) = RegOf(frame, o)
      BY <1>3 DEF RegOf
    <3>. QED BY <1>1, <1>4, <3>1 DEF NeedsRemainderScratch
  <2>. QED BY <1>1, <1>3, <2>1, HoistedAreSpare, SpareHoldsNothing, SpareIs DEF ConstantsInv
<1>6. FunctionAtHand' /\ QueueInv' /\ TempsInv' /\ LivenessInv' /\ GraphInv' /\ GlobalsInv'
  BY <1>1, <1>3, <1>4 DEF Inductive, FunctionAtHand, QueueInv, TempsInv, LivenessInv, GraphInv, GlobalsInv
<1>. QED BY <1>5, <1>6 DEF Inductive

\* Every step, and every step that changes nothing, keeps the invariant.
LEMMA InductiveStep == Inductive /\ [Next]_vars => Inductive'
<1> SUFFICES ASSUME Inductive, [Next]_vars PROVE Inductive'
  OBVIOUS
<1>1. CASE UNCHANGED vars
  BY <1>1, FrameKept DEF vars
<1>2. CASE Next
  BY <1>2, PlaceTempKeeps, FindLiveKeeps, BuildGraphKeeps, ColourKeeps, OrderGlobalsKeeps,
     PlaceGlobalKeeps, SettleKeeps, EmitKeeps DEF Next, Inductive
<1>. QED BY <1>1, <1>2

\* The invariant holds in every reachable state.
LEMMA SpecInductive == Spec => []Inductive
<1>. QED BY InductiveInit, InductiveStep, PTL DEF Spec

-------------------------------------------------------------------------------
(***************************************************************************)
(* The frame and the queue belong to the function at hand, and every       *)
(* variable that has a register has one of the machine's, whatever the     *)
(* program and however many registers there are.                           *)
(***************************************************************************)
THEOREM TypeCorrect == Spec => []TypeOK
<1>1. ASSUME Inductive PROVE TypeOK
  <2>1. functions # {} =>
          /\ queue \subseteq (IF stage = "globals" THEN GlobalsIn ELSE LocalsIn(ir, current))
          /\ live \in [Code(ir, current) -> SUBSET LocalsIn(ir, current)]
    BY <1>1 DEF Inductive, FunctionAtHand, QueueInv, Candidates, LivenessInv, Typed
  <2>2. functions # {} => conflicts \subseteq LocalsIn(ir, current) \X LocalsIn(ir, current)
    BY <1>1, InterferenceShape DEF Inductive, GraphInv, LivenessInv
  <2>3. \A n \in DOMAIN frame.locals : frame.locals[n] \in Registers
    BY <1>1, RegistersOf DEF Inductive, TempsInv, GraphInv, Coloured
  <2>. QED BY <1>1, <2>1, <2>2, <2>3 DEF TypeOK, Inductive, FunctionAtHand, TempsInv
<1>. QED BY <1>1, SpecInductive, PTL

(***************************************************************************)
(* No instruction writes a register that holds another value that is       *)
(* needed afterwards: not another variable, unless it is a copy of it, nor *)
(* a global, nor a constant.                                               *)
(***************************************************************************)
LEMMA WrittenApart ==
  ASSUME Inductive, functions # {}, stage = "text", NEW i \in Code(ir, current), WritesLocal(ir[i]),
         ir[i].dest.name \in DOMAIN frame.locals,
         NEW m \in LiveOut(ir, current, live, i), m # ir[i].dest.name,
         m \in DOMAIN frame.locals, frame.locals[m] = frame.locals[ir[i].dest.name]
  PROVE  IsCopy(ir[i]) /\ Names(ir[i].src1, m)
<1> DEFINE n == ir[i].dest.name
<1>1. Permanent \cap ToSet(TempRegs) = {}
  BY RegistersOf
<1>2. CASE n \in DOMAIN frame.temps /\ m \in DOMAIN frame.temps
  <2>1. ir \in Programs /\ current \in FunctionsOf(ir) /\ Ranged(ir, current, live)
    BY AtHand DEF Inductive, LivenessInv
  <2>2. IsCandidate(ir, current, m) /\ IsCandidate(ir, current, n)
    BY <1>2 DEF Inductive, TempsInv
  <2>3. PICK r \in LiveRanges(ir, current, m) : r[1] <= i /\ i < r[2]
    BY <2>1, <2>2, RangeGoesOn
  <2>4. i \in Definitions(ir, current, n)
    BY DEF Definitions, Names, WritesLocal
  <2>5. PICK s \in LiveRanges(ir, current, n) : s[1] = i
    <3> DEFINE read == {k \in UsesOf(ir, current, n) : k > i /\ LatestBefore(Definitions(ir, current, n), k) = i}
    <3>1. <<i, Max({i} \union read)>> \in LiveRanges(ir, current, n)
      BY <2>4 DEF LiveRanges
    <3>. QED BY <3>1
  <2>6. s[1] <= s[2] /\ s[2] \in Code(ir, current)
    BY <2>1, <2>2, RangeShape
  <2>7. r[1] \in Code(ir, current) /\ r[2] \in Code(ir, current)
    BY <2>1, <2>2, RangeShape DEF Definitions
  <2>8. r[1] <= s[2] /\ s[1] <= r[2]
    BY <2>1, <2>3, <2>5, <2>6, <2>7, FunctionInside
  <2>9. RangesOverlap(LiveRanges(ir, current, m), LiveRanges(ir, current, n))
    BY <2>8 DEF RangesOverlap
  <2>. QED BY <1>2, <2>9 DEF Inductive, TempsInv
<1>3. CASE n \in Coloured /\ m \in Coloured
  <2>1. Typed(ir, current, live) /\ conflicts = Interference(ir, current, live, DOMAIN frame.temps)
    BY DEF Inductive, LivenessInv, GraphInv
  <2>2. <<n, m>> \notin conflicts
    BY <1>3 DEF Inductive, GraphInv
  <2>. QED BY <1>3, <2>1, <2>2, InterferenceShape DEF Coloured
<1>4. CASE n \in Coloured /\ m \in DOMAIN frame.temps
  BY <1>1, <1>4 DEF Inductive, GraphInv, TempsInv
<1>5. CASE n \in DOMAIN frame.temps /\ m \in Coloured
  BY <1>1, <1>5 DEF Inductive, GraphInv, TempsInv
<1>. QED BY <1>2, <1>3, <1>4, <1>5 DEF Coloured

(***************************************************************************)
(* In the text of every function of every program: no instruction that     *)
(* writes a local variable spoils in its register a value that is read     *)
(* later, whatever was decided about temporaries, locals, globals and      *)
(* constants before.                                                       *)
(***************************************************************************)
THEOREM ValuesApart == Spec => []LiveValuesApart
<1>1. ASSUME Inductive PROVE LiveValuesApart
  <2>1. SUFFICES ASSUME functions # {}, stage = "text" PROVE
          /\ LiveRound(ir, current, live) = live
          /\ \A i \in Code(ir, current) :
               (WritesLocal(ir[i]) /\ ir[i].dest.name \in DOMAIN frame.locals) =>
                 /\ \A m \in LiveOut(ir, current, live, i) \ {ir[i].dest.name} :
                      (m \in DOMAIN frame.locals /\ frame.locals[m] = frame.locals[ir[i].dest.name]) =>
                        IsCopy(ir[i]) /\ Names(ir[i].src1, m)
                 /\ frame.locals[ir[i].dest.name] \notin Range(frame.globals) \union Range(frame.constants)
    BY DEF LiveValuesApart, At1
  <2>2. LiveRound(ir, current, live) = live
    BY <1>1, <2>1 DEF Inductive, GraphInv
  <2>3. ASSUME NEW n \in DOMAIN frame.locals
        PROVE  frame.locals[n] \notin Range(frame.globals) \union Range(frame.constants)
    <3>1. frame.locals[n] \notin Range(frame.constants)
      BY <1>1 DEF Inductive, ConstantsInv, Range
    <3>2. CASE n \in Coloured
      BY <1>1, <3>1, <3>2 DEF Inductive, GlobalsInv, Range
    <3>3. CASE n \notin Coloured
      <4>1. frame.locals[n] \in ToSet(TempRegs)
        BY <1>1, <3>3 DEF Inductive, TempsInv, Coloured
      <4>2. \A g \in DOMAIN frame.globals : frame.globals[g] \in Permanent
        BY <1>1 DEF Inductive, GlobalsInv
      <4>. QED BY <3>1, <4>1, <4>2, RegistersOf DEF Range
    <3>. QED BY <3>2, <3>3
  <2>. QED BY <1>1, <2>1, <2>2, <2>3, WrittenApart
<1>. QED BY <1>1, SpecInductive, PTL
===============================================================================
