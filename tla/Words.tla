-------------------------------- MODULE Words ---------------------------------
(***************************************************************************)
(* Machine integers: two's complement words of any width.  The target is   *)
(* RV32, so Half is 2^31 there; models use a smaller one.  The compiler    *)
(* folds constants with the host's int, whose overflow C++ leaves open;    *)
(* the builds wrap like the target does.                                   *)
(***************************************************************************)
EXTENDS Integers

CONSTANT Half  \* the words are -Half .. Half - 1

ASSUME TruthsAreWords == Half \in Nat \ {0, 1}

Word == (-Half)..(Half - 1)
Wrap(x) == ((x + Half) % (2 * Half)) - Half

Truth(b) == IF b THEN 1 ELSE 0
Magnitude(a) == IF a < 0 THEN -a ELSE a

\* C's division truncates towards zero; the remainder has the dividend's sign.
TDiv(a, b) ==
  LET q == Magnitude(a) \div Magnitude(b) IN IF (a < 0) = (b < 0) THEN q ELSE -q
TMod(a, b) == a - b * TDiv(a, b)

ArithmeticOps == {"ADD", "SUB", "MUL", "DIV", "MOD"}
RelationOps   == {"LT", "GT", "LE", "GE", "EQ", "NE"}
BinaryOps     == ArithmeticOps \union RelationOps

\* Nothing is computed at compile time by dividing by zero.
Computable(op, b) == op \in {"DIV", "MOD"} => b # 0

Compute(op, a, b) ==
  CASE op = "ADD" -> Wrap(a + b)
    [] op = "SUB" -> Wrap(a - b)
    [] op = "MUL" -> Wrap(a * b)
    [] op = "DIV" -> Wrap(TDiv(a, b))
    [] op = "MOD" -> Wrap(TMod(a, b))
    [] op = "LT"  -> Truth(a < b)
    [] op = "GT"  -> Truth(a > b)
    [] op = "LE"  -> Truth(a <= b)
    [] op = "GE"  -> Truth(a >= b)
    [] op = "EQ"  -> Truth(a = b)
    [] OTHER      -> Truth(a # b)

-------------------------------------------------------------------------------
\* Arithmetic of the compiler that wraps around ends in a word: foldConst
\* stores an int.
LEMMA WrapIsWord ==
  ASSUME NEW x \in Int
  PROVE  Wrap(x) \in Word
<1> DEFINE m == 2 * Half
<1>1. m \in Int /\ m > 0 /\ m = Half + Half
  BY TruthsAreWords
<1>2. (x + Half) % m \in 0..(m - 1)
  <2>1. x + Half \in Int
    BY TruthsAreWords
  <2>. HIDE DEF m
  <2>. QED BY <1>1, <2>1
<1>. QED BY <1>1, <1>2, TruthsAreWords DEF Wrap, Word

\* Truncating division and remainder by anything but zero are integers.
LEMMA DivisionIsInt ==
  ASSUME NEW a \in Int, NEW b \in Int, b # 0
  PROVE  TDiv(a, b) \in Int /\ TMod(a, b) \in Int
<1> DEFINE p == Magnitude(a)
           q == Magnitude(b)
           d == p \div q
<1>1. p \in Int /\ q \in Int /\ q > 0
  BY DEF Magnitude
<1>2. d \in Int
  <2>. HIDE DEF p, q
  <2>. QED BY <1>1
<1>3. TDiv(a, b) \in {d, -d}
  BY DEF TDiv
<1>4. TDiv(a, b) \in Int
  <2>. HIDE DEF d
  <2>. QED BY <1>2, <1>3
<1>. QED BY <1>4 DEF TMod

\* What foldConst computes of two words is a word.
LEMMA ComputeIsWord ==
  ASSUME NEW op, NEW a \in Word, NEW b \in Word, Computable(op, b)
  PROVE  Compute(op, a, b) \in Word
<1>1. a \in Int /\ b \in Int
  BY TruthsAreWords DEF Word
<1>2. ASSUME NEW c PROVE Truth(c) \in Word
  BY TruthsAreWords DEF Truth, Word
<1>3. Wrap(a + b) \in Word /\ Wrap(a - b) \in Word /\ Wrap(a * b) \in Word
  BY <1>1, WrapIsWord
<1>4. op \in {"DIV", "MOD"} => Wrap(TDiv(a, b)) \in Word /\ Wrap(TMod(a, b)) \in Word
  BY <1>1, DivisionIsInt, WrapIsWord DEF Computable
<1>. QED BY <1>2, <1>3, <1>4 DEF Compute

\* A word is its own representative.
LEMMA WrapOfWord ==
  ASSUME NEW x \in Word
  PROVE  Wrap(x) = x
<1> DEFINE m == 2 * Half
           y == x + Half
<1>1. m \in Int /\ y \in Int /\ 0 <= y /\ y < m /\ m = Half + Half
  BY TruthsAreWords DEF Word
<1>2. y % m = y
  <2>. HIDE DEF m, y
  <2>. QED BY <1>1
<1>3. x \in Int /\ Half \in Int
  BY TruthsAreWords DEF Word
<1>. QED BY <1>2, <1>3 DEF Wrap

\* What the compiler knows of quotients and remainders without the operands:
\* by 1 and by -1, of 0, and of a number by itself.
LEMMA KnownQuotients ==
  ASSUME NEW a \in Int
  PROVE  /\ TDiv(a, 1) = a /\ TMod(a, 1) = 0
         /\ TDiv(a, -1) = -a /\ TMod(a, -1) = 0
         /\ a # 0 => TDiv(a, a) = 1 /\ TMod(a, a) = 0 /\ TDiv(0, a) = 0 /\ TMod(0, a) = 0
<1>1. TDiv(a, 1) = a /\ TDiv(a, -1) = -a
  BY DEF TDiv, Magnitude
<1>2. TMod(a, 1) = 0 /\ TMod(a, -1) = 0
  BY <1>1 DEF TMod
<1>3. ASSUME a # 0 PROVE TDiv(a, a) = 1 /\ TDiv(0, a) = 0
  <2> DEFINE p == Magnitude(a)
  <2>1. p \in Int /\ p > 0 /\ Magnitude(0) = 0
    BY <1>3 DEF Magnitude
  <2>2. p \div p = 1 /\ 0 \div p = 0
    <3>. HIDE DEF p
    <3>. QED BY <2>1
  <2>. QED BY <2>1, <2>2 DEF TDiv
<1>4. ASSUME a # 0 PROVE TMod(a, a) = 0 /\ TMod(0, a) = 0
  BY <1>3, <1>4 DEF TMod
<1>. QED BY <1>1, <1>2, <1>3, <1>4
===============================================================================
