-------------------------- MODULE InstructionTheorems -------------------------
(***************************************************************************)
(* What the lines compute that Selection emits for an instruction: its     *)
(* value (InstructionExact), the step of IRMachine (StepImplemented), and  *)
(* so, in every frame that the allocators of CodeGenerator end with        *)
(* (FramesFit), all that is needed behind the step (StepsImplemented).     *)
(* From the bottom up: division by multiplication, lines one after the     *)
(* other, constants, operands, operations, the instruction.                *)
(***************************************************************************)
EXTENDS EncodingTheorems

(***************************************************************************)
(* Quotients, and words as representatives modulo 2 * Half.                *)
(***************************************************************************)
\* The quotient rounds down.
LEMMA FloorBounds ==
  ASSUME NEW a \in Int, NEW b \in Nat \ {0}
  PROVE  /\ a \div b \in Int
         /\ (a \div b) * b <= a /\ a < (a \div b) * b + b
         /\ a % b = a - (a \div b) * b /\ a % b \in 0..(b - 1)
OBVIOUS

\* Nothing else is between the same bounds.
LEMMA FloorIs ==
  ASSUME NEW a \in Int, NEW b \in Nat \ {0}, NEW q \in Int, q * b <= a, a < q * b + b
  PROVE  a \div b = q /\ a % b = a - q * b
<1> DEFINE p == a \div b
<1>1. p \in Int /\ p * b <= a /\ a < p * b + b /\ a % b = a - p * b
  BY FloorBounds
<1>. HIDE DEF p
<1>2. ~ (p >= q + 1)
  <2>1. SUFFICES ASSUME p >= q + 1 PROVE FALSE
    OBVIOUS
  <2>2. p * b >= (q + 1) * b
    BY <1>1, <2>1
  <2>3. (q + 1) * b = q * b + b
    OBVIOUS
  <2>. QED BY <1>1, <2>2, <2>3
<1>3. ~ (q >= p + 1)
  <2>1. SUFFICES ASSUME q >= p + 1 PROVE FALSE
    OBVIOUS
  <2>2. q * b >= (p + 1) * b
    BY <1>1, <2>1
  <2>3. (p + 1) * b = p * b + b
    BY <1>1
  <2>. QED BY <1>1, <2>2, <2>3
<1>4. p = q
  BY <1>1, <1>2, <1>3
<1>. QED BY <1>1, <1>4 DEF p

\* A dividend that is not negative is made of its quotient and a rest.
LEMMA QuotientAndRest ==
  ASSUME NEW a \in Nat, NEW b \in Nat \ {0}
  PROVE  \E q \in Nat, r \in 0..(b - 1) : q = a \div b /\ a = q * b + r
<1>1. a \div b \in Nat
  OBVIOUS
<1>2. PICK q \in Nat : q = a \div b /\ q * b <= a /\ a < q * b + b
  <2>1. a \in Int
    OBVIOUS
  <2>2. (a \div b) * b <= a /\ a < (a \div b) * b + b
    BY Zenon, <2>1, FloorBounds
  <2>. QED BY Zenon, <1>1, <2>2
<1>3. a - q * b \in 0..(b - 1) /\ a = q * b + (a - q * b)
  BY <1>2
<1>. QED BY <1>2, <1>3

\* The word of a number differs from it by a multiple of 2 * Half, and is the
\* only word that does.
LEMMA WrapShape ==
  ASSUME NEW x \in Int
  PROVE  Wrap(x) \in Word /\ Wrap(x) \in Int /\ \E k \in Int : x = Wrap(x) + k * (2 * Half)
<1> DEFINE m == 2 * Half
           k == (x + Half) \div m
<1>1. Half \in Nat /\ m \in Nat \ {0}
  BY TruthsAreWords
<1>2. k \in Int /\ (x + Half) % m = (x + Half) - k * m
  <2>1. x + Half \in Int
    BY <1>1
  <2>. HIDE DEF m
  <2>. QED BY <1>1, <2>1, FloorBounds
<1>3. Wrap(x) = (x + Half) - k * m - Half
  BY <1>2 DEF Wrap
<1>4. Wrap(x) \in Word /\ Wrap(x) \in Int
  BY <1>1, WrapIsWord DEF Word
<1>5. x = Wrap(x) + k * m
  <2>. HIDE DEF m, k
  <2>1. k * m \in Int
    BY <1>1, <1>2
  <2>. QED BY <1>1, <1>3, <2>1
<1>. QED BY <1>2, <1>4, <1>5

\* No other word is congruent to it.
LEMMA WrapIs ==
  ASSUME NEW x \in Int, NEW y \in Word, NEW k \in Int, x = y + k * (2 * Half)
  PROVE  Wrap(x) = y
<1> DEFINE m == 2 * Half
<1>1. Half \in Nat /\ m \in Nat \ {0} /\ y \in Int /\ -Half <= y /\ y < Half /\ m = Half + Half
  BY TruthsAreWords DEF Word
<1>2. x = y + k * m
  OBVIOUS
<1>. HIDE DEF m
<1>3. k * m \in Int /\ x + Half \in Int
  BY <1>1
<1>4. k * m <= x + Half /\ x + Half < k * m + m
  BY <1>1, <1>2, <1>3
<1>5. (x + Half) % m = (x + Half) - k * m
  BY <1>1, <1>3, <1>4, FloorIs
<1>6. ((x + Half) % m) - Half = y
  BY <1>1, <1>2, <1>3, <1>5
<1>. QED BY <1>6 DEF Wrap, m

\* Intermediate results may be wrapped, or not.
LEMMA WrapAgain ==
  ASSUME NEW a \in Int, NEW b \in Int
  PROVE  /\ Wrap(Wrap(a) + b) = Wrap(a + b) /\ Wrap(b + Wrap(a)) = Wrap(a + b)
         /\ Wrap(Wrap(a) - b) = Wrap(a - b) /\ Wrap(b - Wrap(a)) = Wrap(b - a)
         /\ Wrap(Wrap(a) * b) = Wrap(a * b)
<1> DEFINE m == 2 * Half
<1>1. m \in Int
  BY TruthsAreWords
<1>2. PICK k \in Int : a = Wrap(a) + k * m
  BY WrapShape
<1>3. Wrap(a) \in Int
  BY WrapShape
<1>4. ASSUME NEW x \in Int, NEW y \in Int, NEW j \in Int, x = y + j * m PROVE Wrap(x) = Wrap(y)
  <2>1. PICK i \in Int : y = Wrap(y) + i * m
    BY WrapShape
  <2>2. Wrap(y) \in Word /\ Wrap(y) \in Int
    BY WrapShape
  <2>3. x = Wrap(y) + (i + j) * m
    <3>1. (i + j) * m = i * m + j * m /\ i * m \in Int /\ j * m \in Int
      <4>. HIDE DEF m
      <4>. QED BY <1>1
    <3>. HIDE DEF m
    <3>. QED BY <1>4, <2>1, <2>2, <3>1
  <2>4. i + j \in Int
    OBVIOUS
  <2>. QED BY <2>2, <2>3, <2>4, WrapIs
<1>. HIDE DEF m
<1> DEFINE w == Wrap(a)
           z == k * m
<1>5. w \in Int /\ z \in Int /\ a = w + z /\ z = k * m /\ -z = (-k) * m /\ z * b = (k * b) * m
  BY <1>1, <1>2, <1>3
<1>. HIDE DEF w, z
<1>6. Wrap(w + b) = Wrap(a + b) /\ Wrap(b + w) = Wrap(a + b) /\ Wrap(w - b) = Wrap(a - b)
  <2>1. a + b = (w + b) + k * m /\ a - b = (w - b) + k * m /\ b + w = w + b
    BY <1>5
  <2>2. a + b \in Int /\ a - b \in Int /\ w + b \in Int /\ w - b \in Int
    BY <1>5
  <2>. QED BY <1>4, <2>1, <2>2
<1>7. Wrap(b - w) = Wrap(b - a)
  <2>1. b - a = (b - w) + (-k) * m
    BY <1>5
  <2>2. b - a \in Int /\ b - w \in Int /\ -k \in Int
    BY <1>5
  <2>. QED BY <1>4, <2>1, <2>2
<1>8. Wrap(w * b) = Wrap(a * b)
  <2>1. a * b = (w + z) * b /\ (w + z) * b = w * b + z * b
    BY <1>5
  <2>2. a * b \in Int /\ w * b \in Int /\ k * b \in Int /\ z * b \in Int
    BY <1>5
  <2>3. a * b = w * b + (k * b) * m
    BY <1>5, <2>1
  <2>. QED BY <1>4, <2>2, <2>3
<1>. QED BY <1>6, <1>7, <1>8 DEF w

-------------------------------------------------------------------------------
(***************************************************************************)
(* The multiplier that divides by d.  A round holds the quotients and      *)
(* remainders of one power of two, p, by d and by the largest dividend     *)
(* that matters; the quotient by d only up to what a word holds.           *)
(***************************************************************************)
\* Multiples of the modulus do not count.
LEMMA ModAgain ==
  ASSUME NEW x \in Int, NEW k \in Int, NEW m \in Nat \ {0}
  PROVE  (x + k * m) % m = x % m
<1> DEFINE q == x \div m
<1>1. q \in Int /\ q * m <= x /\ x < q * m + m /\ x % m = x - q * m
  BY FloorBounds
<1>. HIDE DEF q
<1>2. (q + k) * m = q * m + k * m /\ q * m \in Int /\ k * m \in Int
  BY <1>1
<1>3. x + k * m \in Int /\ q + k \in Int /\ (q + k) * m <= x + k * m /\ x + k * m < (q + k) * m + m
  BY <1>1, <1>2
<1> DEFINE y == x + k * m
           z == q + k
<1>4. y \in Int /\ z \in Int /\ z * m <= y /\ y < z * m + m /\ y - z * m = x - q * m
  BY <1>1, <1>2, <1>3
<1>. HIDE DEF y, z
<1>5. y % m = y - z * m
  BY <1>4, FloorIs
<1>. QED BY <1>1, <1>4, <1>5 DEF y

\* Twice a quotient and twice its remainder, with what is carried over.
LEMMA Doubled ==
  ASSUME NEW q \in Int, NEW r \in Int, NEW d \in Int, NEW over \in Int
  PROVE  (2 * q + over) * d + (2 * r - over * d) = 2 * (q * d + r)
<1>1. (2 * q + over) * d = 2 * (q * d) + over * d
  OBVIOUS
<1>2. q * d \in Int /\ over * d \in Int
  OBVIOUS
<1>. QED BY <1>1, <1>2

\* The remainder of a double only needs the remainder.
LEMMA ModDoubled ==
  ASSUME NEW q \in Int, NEW m \in Nat \ {0}, NEW over \in Int
  PROVE  (2 * (q % m) + over) % m = (2 * q + over) % m
<1> DEFINE z == q \div m
           w == q % m
<1>1. z \in Int /\ w = q - z * m /\ w \in Int
  BY FloorBounds
<1>. HIDE DEF z, w
<1>2. (2 * z) * m = 2 * (z * m) /\ z * m \in Int
  BY <1>1
<1>3. 2 * q + over = (2 * w + over) + (2 * z) * m
  BY <1>1, <1>2
<1>4. 2 * w + over \in Int /\ 2 * z \in Int
  BY <1>1
<1>5. ((2 * w + over) + (2 * z) * m) % m = (2 * w + over) % m
  BY Zenon, <1>4, ModAgain
<1>6. (2 * w + over) % m = (2 * q + over) % m
  BY Zenon, <1>3, <1>5
<1>. QED BY <1>6 DEF w

\* The largest dividend that matters: one less than a multiple of d, among the
\* last d numbers that a word can hold.
LEMMA LargestFits ==
  ASSUME NEW d \in 2..(Half - 1)
  PROVE  /\ Half \in Nat /\ Half >= 3 /\ Largest(d) \in Nat /\ Largest(d) >= d - 1 /\ Largest(d) <= Half - 1
         /\ \E n \in Nat \ {0} : /\ Largest(d) = n * d - 1 /\ n * d <= Half /\ Half < n * d + d
<1>1. Half \in Nat /\ d \in Nat \ {0} /\ d >= 2 /\ d <= Half - 1
  BY TruthsAreWords
<1> DEFINE n == Half \div d
<1>2. n \in Int /\ n * d <= Half /\ Half < n * d + d /\ Half % d = Half - n * d
  BY <1>1, FloorBounds
<1>. HIDE DEF n
<1>3. n >= 1
  <2>1. SUFFICES ASSUME n <= 0 PROVE FALSE
    BY <1>2
  <2>2. n * d <= 0
    BY <1>1, <1>2, <2>1
  <2>3. n * d \in Int
    BY <1>1, <1>2
  <2>. QED BY <1>1, <1>2, <2>2, <2>3
<1>4. n * d >= d /\ n * d \in Int
  BY <1>1, <1>2, <1>3
<1>5. Largest(d) = n * d - 1
  BY <1>1, <1>2, <1>4 DEF Largest
<1>. QED BY <1>1, <1>2, <1>3, <1>4, <1>5

\* A round stands for p.
StandsFor(d, s, p) ==
  /\ s.q1 \in Nat /\ s.r1 \in 0..(Largest(d) - 1) /\ s.r2 \in 0..(d - 1)
  /\ s.q1 * Largest(d) + s.r1 = p
  /\ \E q \in Nat : q * d + s.r2 = p /\ s.q2 = q % (2 * Half)

\* The next round stands for twice as much.
LEMMA RoundDoubles ==
  ASSUME NEW d \in 2..(Half - 1), NEW s, NEW p \in Nat, StandsFor(d, s, p)
  PROVE  StandsFor(d, NextRound(d, s), 2 * p)
<1> DEFINE anc == Largest(d)
           over1 == Truth(2 * s.r1 >= anc)
           over2 == Truth(2 * s.r2 >= d)
           m == 2 * Half
<1>1. d \in Nat /\ anc \in Nat /\ m \in Nat \ {0} /\ s.q1 \in Nat /\ s.r1 \in 0..(anc - 1) /\ s.r2 \in 0..(d - 1)
  BY LargestFits DEF StandsFor
<1>2. PICK q \in Nat : q * d + s.r2 = p /\ s.q2 = q % m
  BY DEF StandsFor
<1>3. s.q1 * anc + s.r1 = p
  BY DEF StandsFor
<1>4. /\ over1 \in {0, 1} /\ over2 \in {0, 1}
      /\ 2 * s.r1 - over1 * anc \in 0..(anc - 1)
      /\ 2 * s.r2 - over2 * d \in 0..(d - 1)
  <2>. HIDE DEF anc
  <2>. QED BY <1>1 DEF Truth
<1>5. NextRound(d, s) = [q1 |-> 2 * s.q1 + over1, r1 |-> 2 * s.r1 - over1 * anc,
                         q2 |-> (2 * s.q2 + over2) % m, r2 |-> 2 * s.r2 - over2 * d]
  BY DEF NextRound
<1> HIDE DEF anc, over1, over2, m
<1>6. (2 * s.q1 + over1) * anc + (2 * s.r1 - over1 * anc) = 2 * p
  <2>1. s.q1 \in Int /\ s.r1 \in Int /\ anc \in Int /\ over1 \in Int 
    BY <1>1, <1>4
  <2>2. PICK a \in Int, b \in Int, c \in Int, o \in Int : a = s.q1 /\ b = s.r1 /\ c = anc /\ o = over1
    BY <2>1
  <2>3. (2 * a + o) * c + (2 * b - o * c) = 2 * (a * c + b)
    BY Doubled
  <2>4. (2 * s.q1 + over1) * anc + (2 * s.r1 - over1 * anc) = 2 * (s.q1 * anc + s.r1)
    BY Zenon, <2>2, <2>3
  <2>. QED BY Zenon, <1>3, <2>4
<1>7. (2 * q + over2) * d + (2 * s.r2 - over2 * d) = 2 * p
  <2>1. q \in Int /\ s.r2 \in Int /\ d \in Int /\ over2 \in Int 
    BY <1>1, <1>4
  <2>2. PICK b \in Int, o \in Int : b = s.r2 /\ o = over2
    BY <2>1
  <2>3. (2 * q + o) * d + (2 * b - o * d) = 2 * (q * d + b)
    BY <2>1, Doubled
  <2>4. (2 * q + over2) * d + (2 * s.r2 - over2 * d) = 2 * (q * d + s.r2)
    BY Zenon, <2>2, <2>3
  <2>. QED BY Zenon, <1>2, <2>4
<1>8. (2 * s.q2 + over2) % m = (2 * q + over2) % m
  <2>1. q \in Int /\ over2 \in Int
    BY <1>4
  <2>. QED BY SMTT(60), <1>1, <1>2, <2>1, ModDoubled
<1>9. 2 * q + over2 \in Nat /\ 2 * s.q1 + over1 \in Nat
  BY <1>1, <1>4
<1>10. /\ NextRound(d, s).q1 = 2 * s.q1 + over1 /\ NextRound(d, s).r1 = 2 * s.r1 - over1 * anc
       /\ NextRound(d, s).q2 = (2 * q + over2) % m /\ NextRound(d, s).r2 = 2 * s.r2 - over2 * d
  BY <1>5, <1>8
<1>11. /\ NextRound(d, s).q1 * anc + NextRound(d, s).r1 = 2 * p
       /\ (2 * q + over2) * d + NextRound(d, s).r2 = 2 * p
  BY <1>6, <1>7, <1>10
<1>. QED BY <1>4, <1>9, <1>10, <1>11 DEF StandsFor, anc, m

\* The first round stands for Half.
LEMMA FirstStands ==
  ASSUME NEW d \in 2..(Half - 1)
  PROVE  StandsFor(d, FirstRound(d), Half)
<1>1. Largest(d) \in Nat \ {0} /\ Half \in Nat \ {0} /\ 2 * Half \in Nat \ {0} /\ d \in Nat \ {0}
  BY LargestFits
<1>2. PICK anc \in Nat \ {0}, h \in Nat \ {0} : anc = Largest(d) /\ h = Half
  BY <1>1
<1>3. PICK q1 \in Int, r1 \in 0..(anc - 1), q2 \in Int, r2 \in 0..(d - 1) :
        /\ q1 = h \div anc /\ r1 = h % anc /\ r1 = h - q1 * anc
        /\ q2 = h \div d /\ r2 = h % d /\ r2 = h - q2 * d
  <2>1. h \div anc \in Int /\ h % anc = h - (h \div anc) * anc /\ h % anc \in 0..(anc - 1)
    <3>1. h \in Int
      OBVIOUS
    <3>. QED BY Zenon, <3>1, FloorBounds
  <2>2. h \div d \in Int /\ h % d = h - (h \div d) * d /\ h % d \in 0..(d - 1)
    <3>1. h \in Int
      OBVIOUS
    <3>. QED BY Zenon, <1>1, <3>1, FloorBounds
  <2>. QED BY Zenon, <2>1, <2>2
<1>4. q1 >= 0 /\ q2 >= 0
  BY <1>1, <1>3
<1>5. q1 * anc + r1 = h /\ q2 * d + r2 = h
  <2>1. q1 * anc \in Int /\ q2 * d \in Int
    BY <1>1
  <2>. QED BY <1>3, <2>1
<1>6. q2 = q2 % (2 * h)
  <2>1. q2 <= q2 * d /\ q2 * d \in Int
    BY <1>1, <1>4
  <2>2. q2 < 2 * h
    BY <1>5, <2>1
  <2>. QED BY <1>4, <2>2
<1>7. FirstRound(d) = [q1 |-> q1, r1 |-> r1, q2 |-> q2, r2 |-> r2]
  BY <1>2, <1>3 DEF FirstRound
<1>8. q1 \in Nat /\ q2 \in Nat
  BY <1>4
<1>9. \E q \in Nat : q * d + r2 = h /\ q2 = q % (2 * h)
  BY <1>5, <1>6, <1>8
<1>. QED BY SMTT(60), <1>2, <1>5, <1>7, <1>8, <1>9 DEF StandsFor

\* What makes the multiplier precise: it is too large by e / d of a power of
\* two, 2 * Half * t, and e times the largest dividend is less than that.
LEMMA MagicFactor ==
  ASSUME NEW d \in 2..(Half - 1)
  PROVE  \E factor \in Nat : \E e \in 1..d : \E t \in Nat \ {0} :
           /\ Magic(d).multiplier = Wrap(factor) /\ factor < 2 * Half
           /\ t = 2^Magic(d).shift
           /\ factor * d = (2 * Half) * t + e
           /\ e * Largest(d) < (2 * Half) * t
<1>1. PICK round \in [Nat -> RoundsOf(d)], k \in 1..(WordBits - 1) :
        /\ round[0] = FirstRound(d)
        /\ \A j \in Nat : j # 0 => round[j] = NextRound(d, round[j - 1])
        /\ ~ TooCoarse(d, round[k]) /\ \A j \in 1..(k - 1) : TooCoarse(d, round[j])
        /\ Magic(d).multiplier = Wrap(round[k].q2 + 1) /\ Magic(d).shift = k - 1
  BY MagicRounds
<1>2. /\ Half \in Nat /\ Half >= 3 /\ Largest(d) \in Nat /\ Largest(d) <= Half - 1
      /\ WordBits \in 6..32
  BY LargestFits, SmallNumbers
<1>3. \A j \in 0..31 : StandsFor(d, round[j], Half * 2^j) /\ Half * 2^j \in Nat
  <2> DEFINE Odd == {j \in 0..31 : ~ (StandsFor(d, round[j], Half * 2^j) /\ Half * 2^j \in Nat)}
  <2>1. SUFFICES ASSUME Odd # {} PROVE FALSE
    OBVIOUS
  <2>2. PICK j \in Odd : \A i \in Odd : j <= i
    <3>1. Odd \in SUBSET Nat
      OBVIOUS
    <3>. HIDE DEF Odd
    <3>. QED BY <2>1, <3>1, LeastIndex
  <2>3. j # 0
    <3>1. Half * 2^0 = Half
      BY <1>2
    <3>. QED BY <1>1, <1>2, <3>1, FirstStands
  <2>4. j - 1 \in 0..30 /\ j - 1 < j /\ (j - 1) + 1 = j /\ j \in Nat
    BY <2>3
  <2>5. StandsFor(d, round[j - 1], Half * 2^(j - 1)) /\ Half * 2^(j - 1) \in Nat
    <3>1. j - 1 \notin Odd
      BY <2>2, <2>4
    <3>. QED BY <2>4, <3>1
  <2>6. 2^(j - 1) \in Nat /\ 2^j = 2 * 2^(j - 1)
    BY <2>4, PowersDouble
  <2>7. Half * 2^j = 2 * (Half * 2^(j - 1)) /\ Half * 2^j \in Nat
    BY <1>2, <2>6
  <2>8. StandsFor(d, NextRound(d, round[j - 1]), 2 * (Half * 2^(j - 1)))
    <3> DEFINE p == Half * 2^(j - 1)
    <3>1. p \in Nat /\ StandsFor(d, round[j - 1], p)
      BY <2>5
    <3>. HIDE DEF p
    <3>2. StandsFor(d, NextRound(d, round[j - 1]), 2 * p)
      BY <3>1, RoundDoubles
    <3>. QED BY <3>2 DEF p
  <2>9. StandsFor(d, round[j], Half * 2^j)
    BY <1>1, <2>3, <2>4, <2>7, <2>8
  <2>. QED BY <2>2, <2>7, <2>9
<1> DEFINE t == 2^(k - 1)
           p == (2 * Half) * t
<1>4. k - 1 \in 0..30 /\ k \in 0..31 /\ (k - 1) + 1 = k
  BY <1>2
<1>5. t \in Nat \ {0} /\ p \in Nat /\ Half * 2^k = p
  <2>1. t \in Nat \ {0} /\ 2^k = 2 * t
    BY <1>4, PowersDouble
  <2>. HIDE DEF t
  <2>. QED BY <1>2, <2>1
<1> HIDE DEF t, p
<1>6. StandsFor(d, round[k], p)
  BY <1>3, <1>4, <1>5
<1>7. PICK q \in Nat : q * d + round[k].r2 = p /\ round[k].q2 = q % (2 * Half)
  BY <1>6 DEF StandsFor
<1>8. PICK q1 \in Nat, r1 \in Nat, r2 \in 0..(d - 1), anc \in Nat :
        /\ q1 = round[k].q1 /\ r1 = round[k].r1 /\ r2 = round[k].r2 /\ anc = Largest(d)
        /\ r1 < anc /\ q1 * anc + r1 = p
  BY <1>2, <1>6 DEF StandsFor
<1> DEFINE e == d - r2
<1>9. e \in 1..d /\ e \in Int
  OBVIOUS
<1>10. (q + 1) * d = p + e
  <2>1. q * d + r2 = p
    BY <1>7, <1>8
  <2>2. (q + 1) * d = q * d + d /\ q * d \in Int
    OBVIOUS
  <2>. QED BY <1>5, <2>1, <2>2
<1>11. ~ (q1 < e \/ (q1 = e /\ r1 = 0))
  <2>1. ~ (round[k].q1 < d - round[k].r2 \/ (round[k].q1 = d - round[k].r2 /\ round[k].r1 = 0))
    BY <1>1 DEF TooCoarse
  <2>. QED BY <1>8, <2>1
<1>12. e * anc < p
  <2>. HIDE DEF e
  <2>1. q1 * anc \in Int /\ e * anc \in Int
    BY <1>9
  <2>2. CASE q1 = e
    <3>1. r1 > 0
      BY <1>11, <2>2
    <3>. QED BY <1>8, <2>1, <2>2, <3>1
  <2>3. CASE q1 >= e + 1
    <3>1. q1 * anc >= (e + 1) * anc /\ (e + 1) * anc = e * anc + anc
      BY <1>9, <2>3
    <3>2. anc >= 1
      BY <1>8
    <3>. QED BY <1>5, <1>8, <2>1, <3>1, <3>2
  <2>. QED BY <1>9, <1>11, <2>2, <2>3
<1>13. q + 1 < 2 * Half
  <2>1. CASE k = 1
    <3>1. p = 2 * Half
      <4>1. 2^0 = 1
        OBVIOUS
      <4>2. t = 1
        BY <2>1, <4>1 DEF t
      <4>. QED BY <1>2, <4>2 DEF p
    <3>2. q * d <= 2 * Half /\ q * d \in Int
      BY <1>7, <1>8, <3>1
    <3>3. q * 2 <= q * d
      OBVIOUS
    <3>. QED BY <1>2, <3>2, <3>3
  <2>2. CASE k # 1
    <3>1. k - 1 \in 1..(k - 1) /\ k - 1 \in 0..31
      BY <1>4, <2>2
    <3>2. TooCoarse(d, round[k - 1]) /\ StandsFor(d, round[k - 1], Half * t)
      BY <1>1, <1>3, <3>1 DEF t
    <3>3. PICK a \in Nat, b \in Nat, c \in 0..(d - 1) :
            /\ a = round[k - 1].q1 /\ b = round[k - 1].r1 /\ c = round[k - 1].r2 /\ b < anc
            /\ a * anc + b = Half * t
      BY SMTT(60), <1>8, <3>2 DEF StandsFor
    <3>4. a < d - c \/ (a = d - c /\ b = 0)
      BY <3>2, <3>3 DEF TooCoarse
    <3>5. a * anc + b <= d * anc
      <4>1. CASE a < d - c
        <5>1. a + 1 <= d
          BY <4>1
        <5>2. (a + 1) * anc <= d * anc /\ (a + 1) * anc = a * anc + anc
          BY <5>1
        <5>3. a * anc \in Int /\ d * anc \in Int
          OBVIOUS
        <5>. QED BY <3>3, <5>2, <5>3
      <4>2. CASE a = d - c /\ b = 0
        <5>1. a <= d
          BY <4>2
        <5>2. a * anc <= d * anc
          BY <5>1
        <5>. QED BY <4>2, <5>2
      <4>. QED BY <3>4, <4>1, <4>2
    <3>6. p = 2 * (Half * t)
      BY <1>2, <1>5 DEF p
    <3>7. p <= (2 * anc) * d
      <4>1. (2 * anc) * d = 2 * (d * anc) /\ d * anc \in Int /\ a * anc \in Int
        OBVIOUS
      <4>. QED BY <3>3, <3>5, <3>6, <4>1
    <3>8. q * d <= (2 * anc) * d
      <4>1. q * d \in Int /\ (2 * anc) * d \in Int
        OBVIOUS
      <4>. QED BY <1>5, <1>7, <1>8, <3>7, <4>1
    <3>9. q <= 2 * anc
      <4>1. SUFFICES ASSUME q >= 2 * anc + 1 PROVE FALSE
        OBVIOUS
      <4>2. q * d >= (2 * anc + 1) * d
        BY <4>1
      <4>3. (2 * anc + 1) * d = (2 * anc) * d + d
        OBVIOUS
      <4>4. q * d \in Int /\ (2 * anc) * d \in Int
        OBVIOUS
      <4>. QED BY <3>8, <4>2, <4>3, <4>4
    <3>. QED BY <1>2, <1>8, <3>9
  <2>. QED BY <2>1, <2>2
<1>14. Magic(d).multiplier = Wrap(q + 1)
  <2>1. q % (2 * Half) = q
    BY <1>2, <1>13
  <2>. QED BY <1>1, <1>7, <2>1
<1>15. e * Largest(d) < (2 * Half) * t /\ (q + 1) * d = (2 * Half) * t + e /\ t = 2^Magic(d).shift
  BY <1>1, <1>8, <1>10, <1>12 DEF p, t
<1>. HIDE DEF e
<1>. QED BY <1>5, <1>9, <1>13, <1>14, <1>15

\* How far the multiplier may lead astray: for a dividend z of either sign, e
\* times its size stays within what its remainder leaves of the divisor.
LEMMA ErrorFits ==
  ASSUME NEW d \in 2..(Half - 1), NEW e \in 1..d, NEW t \in Nat \ {0}, NEW factor \in Nat, NEW p \in Nat,
         p = (2 * Half) * t, factor * d = p + e, e * Largest(d) < p,
         NEW z \in 0..Half, NEW q \in Nat, NEW r \in 0..(d - 1), z = q * d + r
  PROVE  e * z <= (d - r) * p /\ (z < Half => e * z < (d - r) * p)
<1>1. PICK n \in Nat \ {0}, anc \in Nat : /\ anc = Largest(d) /\ anc = n * d - 1 /\ n * d <= Half /\ Half < n * d + d
  BY LargestFits
<1>2. Half \in Nat /\ e * anc < p /\ n * d \in Int /\ q * d \in Int /\ n * d >= d
  <2>1. n * d >= d
    OBVIOUS
  <2>. QED BY <1>1, <2>1, LargestFits
<1>3. ASSUME NEW c \in Int, c >= 1, c <= d - r PROVE c * p <= (d - r) * p
  BY <1>3
<1>4. CASE z <= anc
  <2>1. e * z <= e * anc /\ e * z \in Int /\ e * anc \in Int
    BY <1>4
  <2>2. 1 * p <= (d - r) * p /\ 1 * p = p /\ (d - r) * p \in Int
    BY <1>3
  <2>. QED BY <1>2, <2>1, <2>2
<1>5. CASE z > anc
  <2>1. z >= n * d /\ z < n * d + d
    BY <1>1, <1>2, <1>5
  <2>2. q = n
    <3>1. z \div d = q /\ z \div d = n
      <4>1. q * d <= z /\ z < q * d + d /\ z \in Int /\ d \in Nat \ {0} /\ q \in Int /\ n \in Int
        BY <1>2
      <4>2. z \div d = q
        BY Zenon, <4>1, FloorIs
      <4>3. z \div d = n
        BY Zenon, <2>1, <4>1, FloorIs
      <4>. QED BY <4>2, <4>3
    <3>. QED BY <3>1
  <2>3. CASE r <= d - 2
    <3>1. z <= 2 * anc
      BY <1>1, <1>2, <2>2, <2>3
    <3>2. e * z <= e * (2 * anc) /\ e * (2 * anc) = 2 * (e * anc)
      BY <3>1
    <3>3. e * z \in Int /\ e * anc \in Int
      OBVIOUS
    <3>4. 2 * p <= (d - r) * p /\ (d - r) * p \in Int
      BY <1>3, <2>3
    <3>. QED BY <1>2, <3>2, <3>3, <3>4
  <2>4. CASE r = d - 1
    <3>1. z = Half /\ Half = n * d + d - 1
      BY <1>1, <1>2, <2>2, <2>4
    <3>2. (2 * t) * Half = (2 * t) * (n * d) + (2 * t) * d - 2 * t
      BY <3>1
    <3>3. p = (2 * t) * Half
      BY <1>2
    <3>4. (2 * t) * (n * d) = ((2 * t) * n) * d
      OBVIOUS
    <3> DEFINE more == factor - (2 * t) * n - 2 * t
    <3>5. more \in Int /\ more * d = factor * d - ((2 * t) * n) * d - (2 * t) * d
      OBVIOUS
    <3>6. /\ factor * d \in Int /\ ((2 * t) * n) * d \in Int /\ (2 * t) * d \in Int
      OBVIOUS
    <3>. HIDE DEF more
    <3>7. more * d = e - 2 * t
      BY <3>2, <3>3, <3>4, <3>5, <3>6
    <3>8. e <= 2 * t
      <4>1. SUFFICES ASSUME e > 2 * t PROVE FALSE
        OBVIOUS
      <4>2. more >= 1
        <5>1. SUFFICES ASSUME more <= 0 PROVE FALSE
          BY <3>5
        <5>2. more * d <= 0
          BY <3>5, <5>1
        <5>. QED BY <3>7, <4>1, <5>2
      <4>3. more * d >= d
        BY <3>5, <4>2
      <4>. QED BY <3>7, <4>3
    <3>9. e * Half <= (2 * t) * Half
      BY <1>2, <3>8
    <3>10. (d - r) * p = p
      BY <2>4
    <3>. QED BY <3>1, <3>3, <3>9, <3>10
  <2>. QED BY <2>3, <2>4
<1>. QED BY <1>2, <1>4, <1>5

\* The product of the dividend and the multiplier is between two multiples of
\* the power of two that the quotient tells.
LEMMA ProductBetween ==
  ASSUME NEW d \in 2..(Half - 1), NEW e \in 1..d, NEW t \in Nat \ {0}, NEW factor \in Nat, NEW p \in Nat,
         p = (2 * Half) * t, factor * d = p + e, e * Largest(d) < p,
         NEW z \in 0..Half, NEW q \in Nat, NEW r \in 0..(d - 1), z = q * d + r
  PROVE  /\ q * p <= z * factor /\ (z > 0 => q * p < z * factor)
         /\ z * factor <= (q + 1) * p /\ (z < Half => z * factor < (q + 1) * p)
<1>1. e * z <= (d - r) * p /\ (z < Half => e * z < (d - r) * p)
  BY ErrorFits
<1>2. (z * factor) * d = (q * p) * d + r * p + e * z
  <2>1. (z * factor) * d = z * (factor * d)
    OBVIOUS
  <2>2. z * (p + e) = z * p + e * z
    OBVIOUS
  <2>3. (q * d + r) * p = (q * p) * d + r * p
    OBVIOUS
  <2>. QED BY <2>1, <2>2, <2>3
<1>3. ((q + 1) * p) * d = (q * p) * d + r * p + (d - r) * p
  OBVIOUS
<1>4. PICK a \in Int, b \in Int, c \in Int, u \in Int, v \in Int, w \in Int :
        /\ a = z * factor /\ b = q * p /\ c = (q + 1) * p /\ u = r * p /\ v = e * z /\ w = (d - r) * p
  OBVIOUS
<1>5. u >= 0 /\ v >= 0 /\ (z > 0 => v > 0)
  <2>1. r * p >= 0 /\ e * z >= 0
    OBVIOUS
  <2>2. z > 0 => e * z > 0
    OBVIOUS
  <2>. QED BY <1>4, <2>1, <2>2
<1>6. /\ a * d = b * d + u + v /\ c * d = b * d + u + w /\ v <= w /\ (z < Half => v < w)
      /\ a * d \in Int /\ b * d \in Int /\ c * d \in Int
  BY <1>1, <1>2, <1>3, <1>4
<1>7. ASSUME NEW i \in Int, NEW j \in Int, i * d <= j * d PROVE i <= j
  <2>1. SUFFICES ASSUME i >= j + 1 PROVE FALSE
    OBVIOUS
  <2>2. i * d >= (j + 1) * d /\ (j + 1) * d = j * d + d /\ j * d \in Int /\ i * d \in Int
    BY <2>1
  <2>. QED BY <1>7, <2>2
<1>8. ASSUME NEW i \in Int, NEW j \in Int, i * d < j * d PROVE i < j
  <2>1. i <= j
    BY <1>7, <1>8
  <2>. QED BY <1>8, <2>1
<1>9. b <= a /\ a <= c
  BY <1>5, <1>6, <1>7
<1>10. (z > 0 => b < a) /\ (z < Half => a < c)
  BY <1>5, <1>6, <1>8
<1>. QED BY <1>4, <1>9, <1>10

\* Two quotients, one after the other.
LEMMA FloorTwice ==
  ASSUME NEW a \in Int, NEW b \in Nat \ {0}, NEW t \in Nat \ {0}, NEW q \in Int,
         q * (b * t) <= a, a < q * (b * t) + b * t
  PROVE  (a \div b) \div t = q
<1>1. PICK g \in Int : g = a \div b /\ g * b <= a /\ a < g * b + b
  BY FloorBounds
<1>2. PICK w \in Int : w = q * t /\ q * (b * t) = w * b
  <2>1. q * (b * t) = (q * t) * b
    OBVIOUS
  <2>. QED BY <2>1
<1>3. w * b \in Int /\ g * b \in Int /\ (w + t) * b = w * b + b * t
  OBVIOUS
<1>4. w <= g
  <2>1. SUFFICES ASSUME g + 1 <= w PROVE FALSE
    OBVIOUS
  <2>2. (g + 1) * b <= w * b /\ (g + 1) * b = g * b + b
    BY <2>1
  <2>. QED BY <1>1, <1>2, <1>3, <2>2
<1>5. g < w + t
  <2>1. SUFFICES ASSUME w + t <= g PROVE FALSE
    OBVIOUS
  <2>2. (w + t) * b <= g * b
    BY <2>1
  <2>. QED BY <1>1, <1>2, <1>3, <2>2
<1>6. q * t <= g /\ g < q * t + t
  BY <1>2, <1>4, <1>5
<1>7. g \div t = q
  BY <1>6, FloorIs
<1>. QED BY <1>1, <1>7

\* What the first lines of a division by d leave: the high word of the product
\* by the multiplier, which is made up for when it is negative, shifted.
MagicHigh(d, x) ==
  LET high == (x * Magic(d).multiplier) \div (2 * Half)
  IN IF Magic(d).multiplier < 0 THEN Wrap(high + x) ELSE high
MagicShifted(d, x) == MagicHigh(d, x) \div 2^Magic(d).shift

\* A number below 2 * Half as a word.
LEMMA UnsignedWord ==
  ASSUME NEW a \in Nat, a < 2 * Half
  PROVE  Wrap(a) = IF a < Half THEN a ELSE a - 2 * Half
<1>1. Half \in Nat
  BY TruthsAreWords
<1>2. CASE a < Half
  <2>1. a \in Word
    BY <1>1, <1>2 DEF Word
  <2>. QED BY <1>2, <2>1, WrapOfWord
<1>3. CASE a >= Half
  <2>1. a - 2 * Half \in Word /\ a = (a - 2 * Half) + 1 * (2 * Half)
    BY <1>1, <1>3 DEF Word
  <2>2. Wrap(a) = a - 2 * Half
    <3>1. 1 \in Int /\ a \in Int
      OBVIOUS
    <3>. QED BY Zenon, <2>1, <3>1, WrapIs
  <2>. QED BY <1>1, <1>3, <2>2
<1>. QED BY <1>1, <1>2, <1>3

\* The high word of the product by the multiplier itself, which may be larger
\* than a word, is a word; the wrapped one gives the same.
LEMMA HighWord ==
  ASSUME NEW factor \in Nat, factor < 2 * Half, NEW x \in Word
  PROVE  LET high == (x * Wrap(factor)) \div (2 * Half)
         IN (IF Wrap(factor) < 0 THEN Wrap(high + x) ELSE high) = (x * factor) \div (2 * Half)
<1>1. PICK m \in Nat \ {0}, h \in Nat, y \in Int : m = 2 * Half /\ h = Half /\ y = x /\ -h <= y /\ y < h
  BY TruthsAreWords DEF Word
<1>2. PICK g \in Int : g = (y * factor) \div m /\ g * m <= y * factor /\ y * factor < g * m + m
  <2>1. y * factor \in Int
    OBVIOUS
  <2>. QED BY Zenon, <2>1, FloorBounds
<1>3. CASE factor < h
  <2>1. Wrap(factor) = factor
    BY <1>1, <1>3, UnsignedWord
  <2>2. ~ (Wrap(factor) < 0)
    BY <2>1
  <2>. QED BY <2>1, <2>2
<1>4. CASE factor >= h
  <2>1. PICK w \in Int : w = Wrap(factor) /\ w = factor - m /\ w < 0
    <3>1. Wrap(factor) = factor - m
      BY <1>1, <1>4, UnsignedWord
    <3>. QED BY <1>1, <3>1
  <2>2. y * w = y * factor - y * m /\ (g - y) * m = g * m - y * m
    BY <2>1
  <2>3. y * m \in Int /\ y * factor \in Int /\ g * m \in Int /\ y * w \in Int
    OBVIOUS
  <2>4. (g - y) * m <= y * w /\ y * w < (g - y) * m + m
    BY <1>2, <2>2, <2>3
  <2>5. (y * w) \div m = g - y
    <3>1. g - y \in Int
      OBVIOUS
    <3>. QED BY Zenon, <2>3, <2>4, <3>1, FloorIs
  <2>6. g \in Word
    <3>1. CASE y >= 0
      <4>1. y * factor <= y * m /\ y * factor >= 0
        BY <1>1, <3>1
      <4>2. g <= y
        <5>1. SUFFICES ASSUME y + 1 <= g PROVE FALSE
          OBVIOUS
        <5>2. (y + 1) * m <= g * m /\ (y + 1) * m = y * m + m
          BY <5>1
        <5>. QED BY <1>2, <2>3, <4>1, <5>2
      <4>3. g >= 0
        <5>1. SUFFICES ASSUME g + 1 <= 0 PROVE FALSE
          OBVIOUS
        <5>2. (g + 1) * m <= 0 /\ (g + 1) * m = g * m + m
          BY <5>1
        <5>. QED BY <1>2, <2>3, <4>1, <5>2
      <4>. QED BY <1>1, <4>2, <4>3 DEF Word
    <3>2. CASE y < 0
      <4>1. y * m <= y * factor /\ y * factor <= 0
        BY <1>1, <3>2
      <4>2. y <= g
        <5>1. SUFFICES ASSUME g + 1 <= y PROVE FALSE
          OBVIOUS
        <5>2. (g + 1) * m <= y * m /\ (g + 1) * m = g * m + m
          BY <5>1
        <5>. QED BY <1>2, <2>3, <4>1, <5>2
      <4>3. g <= 0
        <5>1. SUFFICES ASSUME g >= 1 PROVE FALSE
          OBVIOUS
        <5>2. g * m >= m
          BY <5>1
        <5>. QED BY <1>2, <2>3, <4>1, <5>2
      <4>. QED BY <1>1, <4>2, <4>3 DEF Word
    <3>. QED BY <3>1, <3>2
  <2>7. Wrap((g - y) + y) = g
    <3>1. (g - y) + y = g
      OBVIOUS
    <3>. QED BY Zenon, <2>6, <3>1, WrapOfWord
  <2>8. (x * Wrap(factor)) \div (2 * Half) = g - y /\ Wrap(factor) < 0 /\ g = (x * factor) \div (2 * Half)
    BY <1>1, <1>2, <2>1, <2>5
  <2>. QED BY <1>1, <2>7, <2>8
<1>. QED BY <1>1, <1>3, <1>4

\* Division by a constant: the lines find the quotient, one too small when
\* the dividend is negative.
LEMMA MagicIsExact ==
  ASSUME NEW d \in 2..(Half - 1), NEW x \in Word
  PROVE  /\ x >= 0 => MagicShifted(d, x) = x \div d
         /\ x < 0 => MagicShifted(d, x) = -((-x) \div d) - 1
<1>1. PICK factor \in Nat, e \in 1..d, t \in Nat \ {0} :
        /\ Magic(d).multiplier = Wrap(factor) /\ factor < 2 * Half
        /\ t = 2^Magic(d).shift
        /\ factor * d = (2 * Half) * t + e
        /\ e * Largest(d) < (2 * Half) * t
  BY MagicFactor
<1>2. PICK h \in Nat, m \in Nat \ {0}, y \in Int, p \in Nat :
        /\ h = Half /\ m = 2 * Half /\ y = x /\ -h <= y /\ y < h /\ p = m * t
  BY TruthsAreWords DEF Word
<1>3. MagicShifted(d, x) = ((y * factor) \div m) \div t
  BY <1>1, <1>2, HighWord DEF MagicShifted, MagicHigh
<1>4. p = (2 * Half) * t /\ factor * d = p + e /\ e * Largest(d) < p
  BY <1>1, <1>2
<1>5. d \in Nat \ {0} /\ y * factor \in Int
  OBVIOUS
<1>6. CASE y >= 0
  <2>1. PICK q \in Nat, r \in 0..(d - 1) : q = y \div d /\ y = q * d + r
    <3>1. y \in Nat
      BY <1>6
    <3>. QED BY Zenon, <1>5, <3>1, QuotientAndRest
  <2>2. y \in 0..Half
    BY <1>2, <1>6
  <2>3. q * p <= y * factor /\ y * factor < (q + 1) * p
    BY <1>2, <1>4, <2>1, <2>2, ProductBetween
  <2>4. (q + 1) * p = q * p + p /\ q * p \in Int
    OBVIOUS
  <2>5. q * (m * t) <= y * factor /\ y * factor < q * (m * t) + m * t
    BY <1>2, <2>3, <2>4
  <2>6. ((y * factor) \div m) \div t = q
    <3>1. q \in Int
      OBVIOUS
    <3>. QED BY Zenon, <1>5, <2>5, <3>1, FloorTwice
  <2>. QED BY <1>2, <1>3, <1>6, <2>1, <2>6
<1>7. CASE y < 0
  <2>1. PICK z \in Nat, q \in Nat, r \in 0..(d - 1) : z = -y /\ q = z \div d /\ z = q * d + r
    <3>1. PICK z \in Nat : z = -y
      BY <1>7
    <3>2. PICK q \in Nat, r \in 0..(d - 1) : q = z \div d /\ z = q * d + r
      BY Zenon, <1>5, <3>1, QuotientAndRest
    <3>. QED BY <3>1, <3>2
  <2>2. z \in 0..Half /\ z > 0
    BY <1>2, <1>7, <2>1
  <2>3. q * p < z * factor /\ z * factor <= (q + 1) * p
    BY <1>2, <1>4, <2>1, <2>2, ProductBetween
  <2>4. PICK b \in Int : b = -q - 1
    OBVIOUS
  <2>5. b * p = -((q + 1) * p) /\ b * p + p = -(q * p) /\ y * factor = -(z * factor)
    BY <2>1, <2>4
  <2>6. /\ (q + 1) * p \in Int /\ q * p \in Int /\ z * factor \in Int /\ b * p \in Int
    OBVIOUS
  <2>7. b * p <= y * factor /\ y * factor < b * p + p
    BY <1>5, <2>3, <2>5, <2>6
  <2>8. b * (m * t) <= y * factor /\ y * factor < b * (m * t) + m * t
    BY <1>2, <2>7
  <2>9. ((y * factor) \div m) \div t = b
    BY Zenon, <1>5, <2>8, FloorTwice
  <2>. QED BY <1>2, <1>3, <1>7, <2>1, <2>4, <2>9
<1>. QED BY <1>2, <1>6, <1>7

-------------------------------------------------------------------------------
(***************************************************************************)
(* Running lines, one after the other.                                     *)
(***************************************************************************)
IsRunning(m) ==
  /\ m = [pc |-> m.pc, regs |-> m.regs, mem |-> m.mem, status |-> "running"]
  /\ m.regs = [r \in Registers |-> m.regs[r]]
  /\ m.mem = [w \in DOMAIN m.mem |-> m.mem[w]]

\* The lines lead from one machine to another, none of them faults.
Leads(code, lines, m, n) ==
  \E s : /\ s[0] = m /\ s[Len(lines)] = n
         /\ \A k \in 0..Len(lines) : IsRunning(s[k])
         /\ \A k \in 1..Len(lines) : s[k] = Worked(code, s[k - 1], lines[k])

\* No line leads nowhere.
LEMMA NoLineLeads ==
  ASSUME NEW code, NEW m, IsRunning(m)
  PROVE  Leads(code, << >>, m, m)
<1> DEFINE s == [k \in {0} |-> m]
<1>1. s[0] = m /\ s[Len(<< >>)] = m /\ 0..Len(<< >>) = {0} /\ 1..Len(<< >>) = {}
  OBVIOUS
<1>2. /\ \A k \in 0..Len(<< >>) : IsRunning(s[k])
      /\ \A k \in 1..Len(<< >>) : s[k] = Worked(code, s[k - 1], << >>[k])
  <2>. HIDE DEF s
  <2>. QED BY <1>1
<1>. HIDE DEF s
<1>. QED BY Zenon, <1>1, <1>2 DEF Leads

\* One line leads where it says.
LEMMA OneLineLeads ==
  ASSUME NEW code, NEW m, NEW line, IsRunning(m), IsRunning(Worked(code, m, line))
  PROVE  Leads(code, << line >>, m, Worked(code, m, line))
<1> DEFINE n == Worked(code, m, line)
           s == [k \in {0, 1} |-> IF k = 0 THEN m ELSE n]
<1>. HIDE DEF n
<1>1. s[0] = m /\ s[Len(<< line >>)] = n /\ 0..Len(<< line >>) = {0, 1} /\ 1..Len(<< line >>) = {1}
  OBVIOUS
<1>2. s[1] = n /\ << line >>[1] = line
  OBVIOUS
<1>. HIDE DEF s
<1>3. \A k \in 0..Len(<< line >>) : IsRunning(s[k])
  BY <1>1, <1>2 DEF n
<1>4. \A k \in 1..Len(<< line >>) : s[k] = Worked(code, s[k - 1], << line >>[k])
  <2>1. s[1] = Worked(code, s[1 - 1], << line >>[1])
    BY <1>1, <1>2 DEF n
  <2>. QED BY Zenon, <1>1, <2>1
<1>. QED BY Zenon, <1>1, <1>3, <1>4 DEF Leads, n

\* One list of lines after the other.
LEMMA LeadsOn ==
  ASSUME NEW code, NEW S, NEW first \in Seq(S), NEW second \in Seq(S), NEW m, NEW n, NEW o,
         Leads(code, first, m, n), Leads(code, second, n, o)
  PROVE  Leads(code, first \o second, m, o)
<1>1. PICK p \in Nat, q \in Nat : p = Len(first) /\ q = Len(second)
  OBVIOUS
<1> DEFINE lines == first \o second
<1>2. /\ Len(lines) = p + q
      /\ \A k \in 1..p : lines[k] = first[k]
      /\ \A k \in (p + 1)..(p + q) : lines[k] = second[k - p]
  BY <1>1
<1>. HIDE DEF lines
<1>3. PICK s : /\ s[0] = m /\ s[p] = n
               /\ \A k \in 0..p : IsRunning(s[k])
               /\ \A k \in 1..p : s[k] = Worked(code, s[k - 1], first[k])
  BY Zenon, <1>1 DEF Leads
<1>4. PICK t : /\ t[0] = n /\ t[q] = o
               /\ \A k \in 0..q : IsRunning(t[k])
               /\ \A k \in 1..q : t[k] = Worked(code, t[k - 1], second[k])
  BY Zenon, <1>1 DEF Leads
<1> DEFINE u == [k \in 0..(p + q) |-> IF k <= p THEN s[k] ELSE t[k - p]]
<1>5. \A k \in 0..p : u[k] = s[k]
  OBVIOUS
<1>6. \A k \in 0..q : u[k + p] = t[k]
  <2>1. ASSUME NEW k \in 0..q PROVE u[k + p] = t[k]
    <3>1. k + p \in 0..(p + q) /\ (k + p) - p = k
      OBVIOUS
    <3>2. CASE k = 0
      BY <1>3, <1>4, <3>1, <3>2
    <3>3. CASE k # 0
      BY <3>1, <3>3
    <3>. QED BY <3>2, <3>3
  <2>. QED BY <2>1
<1>. HIDE DEF u
<1>7. u[0] = m /\ u[Len(lines)] = o
  <2>1. 0 \in 0..p /\ q \in 0..q /\ Len(lines) = q + p
    BY <1>2
  <2>. QED BY Zenon, <1>3, <1>4, <1>5, <1>6, <2>1
<1>8. ASSUME NEW k \in 0..Len(lines) PROVE IsRunning(u[k])
  <2>1. CASE k <= p
    BY <1>2, <1>3, <1>5, <2>1
  <2>2. CASE k > p
    <3>1. k - p \in 0..q /\ (k - p) + p = k
      BY <1>2, <2>2
    <3>2. u[(k - p) + p] = t[k - p]
      BY Zenon, <1>6, <3>1
    <3>. QED BY <1>4, <3>1, <3>2
  <2>. QED BY <1>2, <2>1, <2>2
<1>9. ASSUME NEW k \in 1..Len(lines) PROVE u[k] = Worked(code, u[k - 1], lines[k])
  <2>1. CASE k <= p
    <3>1. k \in 0..p /\ k - 1 \in 0..p /\ k \in 1..p
      BY <2>1
    <3>. QED BY Zenon, <1>2, <1>3, <1>5, <3>1
  <2>2. CASE k > p
    <3>1. /\ k - p \in 0..q /\ k - p \in 1..q /\ (k - p) + p = k /\ k \in (p + 1)..(p + q)
          /\ (k - p) - 1 \in 0..q /\ ((k - p) - 1) + p = k - 1
      BY <1>2, <2>2
    <3>2. u[(k - p) + p] = t[k - p] /\ u[((k - p) - 1) + p] = t[(k - p) - 1]
      BY Zenon, <1>6, <3>1
    <3>3. t[k - p] = Worked(code, t[(k - p) - 1], second[k - p])
      BY Zenon, <1>4, <3>1
    <3>. QED BY Zenon, <1>2, <3>1, <3>2, <3>3
  <2>. QED BY <1>2, <2>1, <2>2
<1>. QED BY Zenon, <1>7, <1>8, <1>9 DEF Leads, lines

-------------------------------------------------------------------------------
(***************************************************************************)
(* What the lines for a constant compute, of words.                        *)
(***************************************************************************)
\* A word is a number between its bounds.
LEMMA WordBounds ==
  ASSUME NEW x \in Word
  PROVE  /\ x \in Int /\ -Half <= x /\ x < Half /\ Half \in Nat /\ Half >= 2
         /\ -x \in Int /\ (x < 0 => -x \in Nat /\ -x <= Half) /\ (x >= 0 => x \in Nat)
BY TruthsAreWords DEF Word

\* Division by signs.
LEMMA SignsOfQuotient ==
  ASSUME NEW a \in Int, NEW b \in Int, b # 0
  PROVE  /\ a >= 0 /\ b > 0 => TDiv(a, b) = a \div b
         /\ a < 0 /\ b > 0 => TDiv(a, b) = -((-a) \div b)
         /\ b < 0 => TDiv(a, b) = -TDiv(a, -b)
<1>1. a >= 0 /\ b > 0 => TDiv(a, b) = a \div b
  BY DEF TDiv, Magnitude
<1>2. a < 0 /\ b > 0 => TDiv(a, b) = -((-a) \div b)
  BY DEF TDiv, Magnitude
<1>3. ASSUME b < 0 PROVE TDiv(a, b) = -TDiv(a, -b)
  <2>1. PICK q \in Int : q = Magnitude(a) \div (-b)
    <3>1. Magnitude(a) \in Int /\ -b \in Nat \ {0}
      BY <1>3 DEF Magnitude
    <3>. QED BY <3>1, FloorBounds
  <2>2. TDiv(a, b) = IF a < 0 THEN q ELSE -q
    BY <1>3, <2>1 DEF TDiv, Magnitude
  <2>3. TDiv(a, -b) = IF a < 0 THEN -q ELSE q
    BY <1>3, <2>1 DEF TDiv, Magnitude
  <2>. QED BY <2>1, <2>2, <2>3
<1>. QED BY <1>1, <1>2, <1>3

\* The quotient of a word is no larger than the word, and half as large unless
\* the divisor is 1 or -1; the remainder is a word.
LEMMA QuotientFits ==
  ASSUME NEW x \in Word, NEW b \in Int, b # 0
  PROVE  /\ TDiv(x, b) \in Int /\ TMod(x, b) \in Word
         /\ b \notin {1, -1} => TDiv(x, b) \in Word /\ -TDiv(x, b) \in Word
<1>1. PICK d \in Nat \ {0} : d = Magnitude(b) /\ d = (IF b < 0 THEN -b ELSE b)
  BY DEF Magnitude
<1>2. PICK z \in Nat : z = Magnitude(x) /\ z = (IF x < 0 THEN -x ELSE x)
  BY WordBounds DEF Magnitude
<1>3. PICK q \in Nat, r \in 0..(d - 1) : q = z \div d /\ z = q * d + r
  BY QuotientAndRest
<1>4. q * d \in Int /\ q * d >= 0 /\ q * d >= q
  BY <1>3
<1>5. TDiv(x, b) = IF (x < 0) = (b < 0) THEN q ELSE -q
  BY <1>1, <1>2, <1>3 DEF TDiv
<1>6. b * q = (IF b < 0 THEN -(q * d) ELSE q * d) /\ b * (-q) = (IF b < 0 THEN q * d ELSE -(q * d))
  BY <1>1
<1>7. b * TDiv(x, b) = IF x < 0 THEN -(q * d) ELSE q * d
  BY <1>5, <1>6
<1>8. TMod(x, b) = IF x < 0 THEN -r ELSE r
  BY <1>2, <1>3, <1>4, <1>7, WordBounds DEF TMod
<1>9. r <= z
  BY <1>3, <1>4
<1>10. TMod(x, b) \in Word
  BY <1>2, <1>8, <1>9, WordBounds DEF Word
<1>11. ASSUME b \notin {1, -1} PROVE TDiv(x, b) \in Word /\ -TDiv(x, b) \in Word
  <2>1. d >= 2
    BY <1>1, <1>11
  <2>2. q * d >= q * 2
    BY <2>1
  <2>3. q + q <= Half
    BY <1>2, <1>3, <1>4, <2>2, WordBounds
  <2>4. q \in -Half..(Half - 1) /\ -q \in -Half..(Half - 1)
    BY <2>3, WordBounds
  <2>. QED BY <1>5, <2>4 DEF Word
<1>. QED BY <1>5, <1>10, <1>11

\* A shift by all bits but one leaves the sign.
LEMMA SignOfWord ==
  ASSUME NEW x \in Word
  PROVE  x \div 2^(WordBits - 1) = IF x < 0 THEN -1 ELSE 0
<1>1. PICK h \in Nat \ {0}, y \in Int : h = Half /\ y = x /\ -h <= y /\ y < h
  BY WordBounds
<1>2. y \div h = IF y < 0 THEN -1 ELSE 0
  <2>1. CASE y < 0
    <3>1. (-1) * h <= y /\ y < (-1) * h + h
      BY <1>1, <2>1
    <3>. QED BY <2>1, <3>1, FloorIs
  <2>2. CASE y >= 0
    <3>1. 0 * h <= y /\ y < 0 * h + h
      BY <1>1, <2>2
    <3>. QED BY <2>2, <3>1, FloorIs
  <2>. QED BY <2>1, <2>2
<1>. QED BY <1>1, <1>2, SmallNumbers

\* The shifted product is the quotient, once the sign of the dividend is taken
\* away from it; it is a word, and so are the quotients and their opposites.
LEMMA MagicQuotient ==
  ASSUME NEW imm \in Word, MagicFor(imm), NEW x \in Word
  PROVE  /\ MagicShifted(Magnitude(imm), x) \in Word
         /\ x >= 0 => MagicShifted(Magnitude(imm), x) = TDiv(x, Magnitude(imm))
         /\ MagicShifted(Magnitude(imm), x) - (IF x < 0 THEN -1 ELSE 0) = TDiv(x, Magnitude(imm))
         /\ TDiv(x, Magnitude(imm)) \in Word
         /\ TDiv(x, imm) = (IF imm < 0 THEN 0 - TDiv(x, Magnitude(imm)) ELSE TDiv(x, Magnitude(imm)))
         /\ TDiv(x, imm) \in Word /\ imm # 0
<1>1. PICK d \in 2..(Half - 1) : d = Magnitude(imm) /\ d = (IF imm < 0 THEN -imm ELSE imm) /\ ~ IsPowerOfTwo(d)
  <2>1. Magnitude(imm) = (IF imm < 0 THEN -imm ELSE imm) /\ Magnitude(imm) \in Int
    BY WordBounds DEF Magnitude
  <2>2. Magnitude(imm) > 1 /\ imm # -Half /\ ~ IsPowerOfTwo(Magnitude(imm))
    BY DEF MagicFor, HasMagic
  <2>. QED BY <2>1, <2>2, WordBounds
<1>2. d \in Int /\ d # 0 /\ d \notin {1, -1} /\ imm \in Int /\ imm # 0 /\ imm \notin {1, -1} /\ d > 0
  BY <1>1, WordBounds
<1>3. TDiv(x, d) \in Int /\ TDiv(x, d) \in Word /\ TDiv(x, imm) \in Word
  BY Zenon, <1>2, QuotientFits
<1>4. TDiv(x, imm) = IF imm < 0 THEN -TDiv(x, d) ELSE TDiv(x, d)
  <2>1. x \in Int
    BY WordBounds
  <2>. QED BY <1>1, <1>2, <2>1, SignsOfQuotient
<1>5. /\ x >= 0 => MagicShifted(d, x) = x \div d
      /\ x < 0 => MagicShifted(d, x) = -((-x) \div d) - 1
  BY <1>1, MagicIsExact
<1>6. /\ x >= 0 => TDiv(x, d) = x \div d
      /\ x < 0 => TDiv(x, d) = -((-x) \div d)
  BY <1>2, WordBounds, SignsOfQuotient
<1>7. x \in Int
  BY WordBounds
<1>8. CASE x >= 0
  BY <1>1, <1>2, <1>3, <1>4, <1>5, <1>6, <1>7, <1>8
<1>9. CASE x < 0
  <2>1. PICK q \in Nat : q = (-x) \div d
    <3>1. -x \in Nat /\ d \in Nat \ {0}
      BY <1>1, <1>9, WordBounds
    <3>2. PICK q \in Nat, r \in 0..(d - 1) : q = (-x) \div d /\ -x = q * d + r
      BY Zenon, <3>1, QuotientAndRest
    <3>. QED BY <3>2
  <2>2. MagicShifted(d, x) = -q - 1 /\ TDiv(x, d) = -q
    BY <1>5, <1>6, <1>9, <2>1
  <2>3. -q - 1 \in Word
    <3>1. -TDiv(x, d) \in Word
      BY Zenon, <1>2, QuotientFits
    <3>2. q \in Word
      BY <2>2, <3>1
    <3>. QED BY <3>2, WordBounds DEF Word
  <2>. QED BY <1>1, <1>2, <1>3, <1>4, <1>9, <2>2, <2>3
<1>. QED BY <1>7, <1>8, <1>9

\* Powers of two in a word.
LEMMA PowersInWords ==
  ASSUME NEW n \in 1..(WordBits - 2)
  PROVE  /\ 2^n \in Nat /\ 2^n >= 2 /\ 2^n < Half
         /\ 2^(WordBits - n) \in Nat \ {0} /\ 2^n * 2^(WordBits - n) = 2 * Half
<1>1. WordBits \in 6..32 /\ 2^(WordBits - 1) = Half
  BY SmallNumbers
<1> DEFINE S == {j \in Nat : j \in 1..(WordBits - 1) /\ 2^j * 2^(WordBits - j) # 2 * Half}
<1>2. \A k \in 0..30 : 2^k \in Nat \ {0} /\ 2^(k + 1) = 2 * 2^k
  BY Zenon, PowersDouble
<1>3. S = {}
  <2>1. SUFFICES ASSUME S # {} PROVE FALSE
    OBVIOUS
  <2>2. PICK k \in S : \A j \in S : k <= j
    <3>1. S \in SUBSET Nat
      OBVIOUS
    <3>. HIDE DEF S
    <3>. QED BY Zenon, <2>1, <3>1, LeastIndex
  <2>3. k \in Nat /\ k \in 1..(WordBits - 1) /\ 2^k * 2^(WordBits - k) # 2 * Half
    BY <2>2
  <2>4. CASE k = 1
    <3>1. 2^1 = 2 /\ Half \in Nat
      BY TruthsAreWords
    <3>. QED BY <1>1, <2>3, <2>4, <3>1
  <2>5. CASE k # 1
    <3>1. k - 1 \in 0..30 /\ WordBits - k \in 0..30 /\ k - 1 \in 1..(WordBits - 1) /\ k - 1 \in Nat
      BY <1>1, <2>3, <2>5
    <3>2. 2^((k - 1) + 1) = 2 * 2^(k - 1) /\ 2^((WordBits - k) + 1) = 2 * 2^(WordBits - k)
      BY <1>2, <3>1
    <3>3. (k - 1) + 1 = k /\ (WordBits - k) + 1 = WordBits - (k - 1)
      BY <1>1, <2>3
    <3>4. PICK a \in Nat, b \in Nat : a = 2^(k - 1) /\ b = 2^(WordBits - k)
      BY <1>2, <3>1
    <3>5. 2^k = 2 * a /\ 2^(WordBits - (k - 1)) = 2 * b
      BY <3>2, <3>3, <3>4
    <3>6. 2^(k - 1) * 2^(WordBits - (k - 1)) = 2^k * 2^(WordBits - k)
      <4>1. a * (2 * b) = (2 * a) * b
        OBVIOUS
      <4>. QED BY Zenon, <3>4, <3>5, <4>1
    <3>7. k - 1 \in S
      BY <2>3, <3>1, <3>6
    <3>. QED BY <2>2, <2>3, <3>7
  <2>. QED BY <2>4, <2>5
<1>4. n \in 1..(WordBits - 1) /\ n \in Nat /\ n \in 0..30 /\ n - 1 \in 0..30
  BY <1>1
<1>5. 2^n * 2^(WordBits - n) = 2 * Half
  BY <1>3, <1>4
<1>6. 2^n \in Nat /\ 2^n >= 2
  <2>1. (n - 1) + 1 = n
    BY <1>1
  <2>2. 2^(n - 1) \in Nat \ {0} /\ 2^((n - 1) + 1) = 2 * 2^(n - 1)
    BY Zenon, <1>2, <1>4
  <2>. QED BY <2>1, <2>2
<1>7. 2^(WordBits - n) \in Nat /\ 2^(WordBits - n) >= 4
  <2>1. WordBits - n - 1 \in 0..30 /\ (WordBits - n - 1) + 1 = WordBits - n
    BY <1>1
  <2>2. WordBits - n - 2 \in 0..30 /\ (WordBits - n - 2) + 1 = WordBits - n - 1
    BY <1>1
  <2>3. 2^(WordBits - n - 2) \in Nat \ {0} /\ 2^((WordBits - n - 2) + 1) = 2 * 2^(WordBits - n - 2)
    BY Zenon, <1>2, <2>2
  <2>4. 2^((WordBits - n - 1) + 1) = 2 * 2^(WordBits - n - 1)
    BY Zenon, <1>2, <2>1
  <2>. QED BY <2>1, <2>2, <2>3, <2>4
<1>8. 2^n < Half
  <2>1. PICK a \in Nat, b \in Nat, h \in Nat : a = 2^n /\ b = 2^(WordBits - n) /\ h = Half /\ a * b = 2 * h /\ b >= 4 /\ a >= 2
    BY <1>5, <1>6, <1>7, TruthsAreWords
  <2>2. a * b >= a * 4
    BY <2>1
  <2>. QED BY <2>1, <2>2
<1>. QED BY <1>5, <1>6, <1>7, <1>8

\* A shift to the left multiplies.
LEMMA ShiftIsProduct ==
  ASSUME NEW x \in Word, NEW v, IsPowerOfTwo(v)
  PROVE  /\ Shifted("slli", x, Log2(v)) = Wrap(x * v)
         /\ v \in Nat /\ v >= 1
BY LogFits DEF Shifted

\* A quotient by 2^n: a negative word is made larger by 2^n - 1 first, which
\* its sign gives.
LEMMA RoundedQuotient ==
  ASSUME NEW imm, IsPowerOfTwo(imm), imm # 1, NEW x \in Word
  PROVE  LET n == Log2(imm)
             sign == x \div 2^(WordBits - 1)
             more == Wrap((sign % (2 * Half)) \div 2^(WordBits - n))
         IN /\ n \in 1..(WordBits - 2) /\ 2^n = imm /\ imm \in Word /\ imm # 0
            /\ sign \in Word /\ more \in Word /\ Wrap(x + more) \in Word
            /\ Wrap(x + more) \div imm = TDiv(x, imm) /\ TDiv(x, imm) \in Word
            /\ x >= 0 => x \div imm = TDiv(x, imm) /\ x % imm = TMod(x, imm)
<1>1. PICK n \in 1..(WordBits - 2) : n = Log2(imm) /\ imm = 2^n
  <2>1. Log2(imm) \in 0..(WordBits - 2) /\ imm = 2^Log2(imm) /\ Log2(imm) # 0
    BY LogFits
  <2>. QED BY <2>1, SmallNumbers
<1>2. PICK p \in Nat \ {0}, c \in Nat \ {0}, h \in Nat \ {0} :
        p = 2^n /\ p >= 2 /\ p < h /\ c = 2^(WordBits - n) /\ h = Half /\ p * c = 2 * h
  <2>1. Half \in Nat \ {0}
    BY TruthsAreWords
  <2>. QED BY <2>1, PowersInWords
<1>3. PICK y \in Int : y = x /\ -h <= y /\ y < h
  BY <1>2, WordBounds
<1>4. PICK sign \in Int : sign = x \div 2^(WordBits - 1) /\ sign = IF y < 0 THEN -1 ELSE 0
  BY <1>3, SignOfWord
<1>5. (sign % (2 * h)) \div c = IF y < 0 THEN p - 1 ELSE 0
  <2>1. CASE y < 0
    <3>1. sign % (2 * h) = 2 * h - 1
      BY <1>2, <1>4, <2>1
    <3>2. (p - 1) * c = p * c - c
      OBVIOUS
    <3>3. (p - 1) * c <= 2 * h - 1 /\ 2 * h - 1 < (p - 1) * c + c
      BY <1>2, <3>2
    <3>4. (2 * h - 1) \div c = p - 1
      <4>1. 2 * h - 1 \in Int /\ p - 1 \in Int
        OBVIOUS
      <4>. QED BY Zenon, <3>3, <4>1, FloorIs
    <3>. QED BY <2>1, <3>1, <3>4
  <2>2. CASE y >= 0
    <3>1. sign % (2 * h) = 0
      BY <1>2, <1>4, <2>2
    <3>2. 0 \div c = 0
      OBVIOUS
    <3>. QED BY <2>2, <3>1, <3>2
  <2>. QED BY <2>1, <2>2
<1>6. p - 1 \in Word /\ 0 \in Word /\ -1 \in Word /\ p \in Word
  BY <1>2 DEF Word
<1>7. Wrap((sign % (2 * Half)) \div c) = (IF y < 0 THEN p - 1 ELSE 0)
  BY <1>2, <1>5, <1>6, WrapOfWord
<1>8. PICK z \in Word : z = Wrap(x + Wrap((sign % (2 * Half)) \div c)) /\ z = (IF y < 0 THEN y + (p - 1) ELSE y)
  <2>1. (IF y < 0 THEN y + (p - 1) ELSE y) \in Word
    BY <1>2, <1>3 DEF Word
  <2>2. x + Wrap((sign % (2 * Half)) \div c) = (IF y < 0 THEN y + (p - 1) ELSE y)
    BY <1>3, <1>7
  <2>. QED BY <2>1, <2>2, WrapOfWord
<1>9. z \div p = TDiv(x, p)
  <2>1. CASE y >= 0
    BY <1>2, <1>3, <1>8, <2>1, SignsOfQuotient
  <2>2. CASE y < 0
    <3>1. PICK w \in Nat : w = -y
      BY <2>2
    <3>2. PICK q \in Nat, r \in 0..(p - 1) : q = w \div p /\ w = q * p + r
      BY QuotientAndRest
    <3>3. TDiv(x, p) = -q
      BY <1>2, <1>3, <2>2, <3>1, <3>2, SignsOfQuotient
    <3>4. (-q) * p = -(q * p) /\ q * p \in Int
      OBVIOUS
    <3>5. PICK u \in Int : u = z /\ u = y + (p - 1)
      BY <1>8, <2>2
    <3>6. (-q) * p <= u /\ u < (-q) * p + p
      BY <3>1, <3>2, <3>4, <3>5
    <3>7. u \div p = -q
      <4>1. -q \in Int
        OBVIOUS
      <4>. QED BY Zenon, <3>6, <4>1, FloorIs
    <3>. QED BY <3>3, <3>5, <3>7
  <2>. QED BY <2>1, <2>2
<1>10. TDiv(x, p) \in Word
  <2>1. p \in Int /\ p # 0 /\ p \notin {1, -1}
    BY <1>2
  <2>. QED BY Zenon, <2>1, QuotientFits
<1>11. x >= 0 => x \div p = TDiv(x, p) /\ x % p = TMod(x, p)
  <2>1. SUFFICES ASSUME y >= 0 PROVE y \div p = TDiv(x, p) /\ y % p = TMod(x, p)
    BY <1>3
  <2>2. TDiv(x, p) = y \div p
    <3>1. TDiv(y, p) = y \div p
      <4>1. p \in Int /\ p # 0 /\ p > 0
        BY <1>2
      <4>. QED BY Zenon, <2>1, <4>1, SignsOfQuotient
    <3>. QED BY <1>3, <3>1
  <2>3. y % p = y - (y \div p) * p /\ y \div p \in Int
    BY FloorBounds
  <2>4. PICK q \in Int : q = y \div p
    BY <2>3
  <2>5. q * p = p * q
    OBVIOUS
  <2>. QED BY <1>3, <2>2, <2>3, <2>4, <2>5 DEF TMod
<1>12. sign \in Word
  BY <1>4, <1>6
<1>13. Wrap((sign % (2 * Half)) \div c) \in Word
  BY <1>6, <1>7
<1>. QED BY <1>1, <1>2, <1>4, <1>6, <1>8, <1>9, <1>10, <1>11, <1>12, <1>13

-------------------------------------------------------------------------------
(***************************************************************************)
(* What lines leave alone.                                                 *)
(***************************************************************************)
\* The lines lead from m to n, and change no registers and no memory but these.
Turns(code, lines, m, n, regs, cells) ==
  /\ IsList(lines) /\ Leads(code, lines, m, n)
  /\ IsRunning(m) /\ IsRunning(n)
  /\ \A r \in Registers \ regs : n.regs[r] = m.regs[r]
  /\ DOMAIN n.mem = DOMAIN m.mem
  /\ \A w \in DOMAIN m.mem \ cells : n.mem[w] = m.mem[w]

\* No line changes nothing.
LEMMA NothingTurns ==
  ASSUME NEW code, NEW m, IsRunning(m)
  PROVE  Turns(code, << >>, m, m, {}, {})
<1>1. << >> \in Seq({})
  OBVIOUS
<1>2. IsList(<< >>)
  BY <1>1, ListOf
<1>3. Leads(code, << >>, m, m)
  BY NoLineLeads
<1>. QED BY <1>2, <1>3 DEF Turns

\* What one list of lines and then another leave alone.
LEMMA TurnsOn ==
  ASSUME NEW code, NEW first, NEW second, NEW m, NEW n, NEW o,
         NEW A, NEW E, NEW C, NEW D, NEW regs, NEW cells,
         Turns(code, first, m, n, A, C), Turns(code, second, n, o, E, D),
         A \subseteq regs, E \subseteq regs, C \subseteq cells, D \subseteq cells
  PROVE  Turns(code, first \o second, m, o, regs, cells)
<1>1. IsList(first \o second)
  BY ListConcat DEF Turns
<1> DEFINE S == Range(first) \union Range(second)
<1>2. first \in Seq(S) /\ second \in Seq(S)
  <2>1. first \in Seq(Range(first)) /\ second \in Seq(Range(second))
    BY DEF Turns, IsList
  <2>. QED BY <2>1
<1>. HIDE DEF S
<1>3. Leads(code, first, m, n) /\ Leads(code, second, n, o)
  BY DEF Turns
<1>4. Leads(code, first \o second, m, o)
  BY Zenon, <1>2, <1>3, LeadsOn
<1>5. IsRunning(m) /\ IsRunning(o)
  BY DEF Turns
<1>6. \A r \in Registers \ regs : o.regs[r] = m.regs[r]
  BY DEF Turns
<1>7. DOMAIN o.mem = DOMAIN m.mem /\ \A w \in DOMAIN m.mem \ cells : o.mem[w] = m.mem[w]
  BY DEF Turns
<1>. QED BY <1>1, <1>4, <1>5, <1>6, <1>7 DEF Turns

\* It is no harm to name more than is changed.
LEMMA TurnsWider ==
  ASSUME NEW code, NEW lines, NEW m, NEW n, NEW A, NEW C, NEW regs, NEW cells,
         Turns(code, lines, m, n, A, C), A \subseteq regs, C \subseteq cells
  PROVE  Turns(code, lines, m, n, regs, cells)
BY DEF Turns

\* One part of a machine.
LEMMA PartPut ==
  ASSUME NEW pc, NEW regs, NEW mem, NEW status, NEW x
  PROVE  /\ [[pc |-> pc, regs |-> regs, mem |-> mem, status |-> status] EXCEPT !.pc = x]
              = [pc |-> x, regs |-> regs, mem |-> mem, status |-> status]
         /\ [[pc |-> pc, regs |-> regs, mem |-> mem, status |-> status] EXCEPT !.regs = x]
              = [pc |-> pc, regs |-> x, mem |-> mem, status |-> status]
         /\ [[pc |-> pc, regs |-> regs, mem |-> mem, status |-> status] EXCEPT !.mem = x]
              = [pc |-> pc, regs |-> regs, mem |-> x, status |-> status]
<1>1. [[pc |-> pc, regs |-> regs, mem |-> mem, status |-> status] EXCEPT !.pc = x]
        = [pc |-> x, regs |-> regs, mem |-> mem, status |-> status]
  OBVIOUS
<1>2. [[pc |-> pc, regs |-> regs, mem |-> mem, status |-> status] EXCEPT !.regs = x]
        = [pc |-> pc, regs |-> x, mem |-> mem, status |-> status]
  OBVIOUS
<1>3. [[pc |-> pc, regs |-> regs, mem |-> mem, status |-> status] EXCEPT !.mem = x]
        = [pc |-> pc, regs |-> regs, mem |-> x, status |-> status]
  OBVIOUS
<1>. QED BY <1>1, <1>2, <1>3

\* A register, and the next line.
LEMMA PutRegister ==
  ASSUME NEW m, NEW pc, NEW regs, NEW mem, NEW status, NEW r, NEW v,
         m = [pc |-> pc, regs |-> regs, mem |-> mem, status |-> status]
  PROVE  Put(m, r, v) = [pc |-> pc + 1, regs |-> [regs EXCEPT ![r] = v], mem |-> mem, status |-> status]
<1>1. m.pc = pc /\ m.regs = regs
  OBVIOUS
<1>2. PICK c, e : c = [m.regs EXCEPT ![r] = v] /\ e = m.pc + 1
  OBVIOUS
<1>3. PICK k : k = [m EXCEPT !.regs = c]
  OBVIOUS
<1>4. k = [pc |-> pc, regs |-> c, mem |-> mem, status |-> status]
  BY <1>3, PartPut
<1>5. [k EXCEPT !.pc = e] = [pc |-> e, regs |-> c, mem |-> mem, status |-> status]
  BY SMTT(60), <1>4, PartPut
<1>6. Put(m, r, v) = [k EXCEPT !.pc = e]
  BY Zenon, <1>2, <1>3 DEF Put
<1>7. c = [regs EXCEPT ![r] = v] /\ e = pc + 1
  BY Zenon, <1>1, <1>2
<1>. QED BY Zenon, <1>5, <1>6, <1>7

\* A cell of the memory, and the next line.
PutCell(m, w, v) == [m EXCEPT !.mem[w] = v, !.pc = @ + 1]

\* A store changes the memory and no register.
LEMMA PutInCell ==
  ASSUME NEW m, NEW pc, NEW regs, NEW mem, NEW status, NEW w, NEW v,
         m = [pc |-> pc, regs |-> regs, mem |-> mem, status |-> status]
  PROVE  PutCell(m, w, v) = [pc |-> pc + 1, regs |-> regs, mem |-> [mem EXCEPT ![w] = v], status |-> status]
<1>1. m.pc = pc /\ m.mem = mem
  OBVIOUS
<1>2. PICK c, e : c = [m.mem EXCEPT ![w] = v] /\ e = m.pc + 1
  OBVIOUS
<1>3. PICK k : k = [m EXCEPT !.mem = c]
  OBVIOUS
<1>4. k = [pc |-> pc, regs |-> regs, mem |-> c, status |-> status]
  BY <1>3, PartPut
<1>5. [k EXCEPT !.pc = e] = [pc |-> e, regs |-> regs, mem |-> c, status |-> status]
  BY SMTT(60), <1>4, PartPut
<1>6. PutCell(m, w, v) = [k EXCEPT !.pc = e]
  BY Zenon, <1>2, <1>3 DEF PutCell
<1>7. c = [mem EXCEPT ![w] = v] /\ e = pc + 1
  BY Zenon, <1>1, <1>2
<1>. QED BY Zenon, <1>5, <1>6, <1>7

\* A result in a register.
LEMMA PutTurns ==
  ASSUME NEW code, NEW m, IsRunning(m), NEW line, NEW r \in Registers, NEW v,
         Worked(code, m, line) = Put(m, r, v)
  PROVE  /\ Turns(code, << line >>, m, Put(m, r, v), {r}, {})
         /\ Put(m, r, v).regs[r] = v
<1> DEFINE n == Put(m, r, v)
<1>1. m = [pc |-> m.pc, regs |-> m.regs, mem |-> m.mem, status |-> "running"]
  BY DEF IsRunning
<1>2. n = [pc |-> m.pc + 1, regs |-> [m.regs EXCEPT ![r] = v], mem |-> m.mem, status |-> "running"]
  <2>1. PICK pc, regs, mem : m = [pc |-> pc, regs |-> regs, mem |-> mem, status |-> "running"]
    BY Zenon, <1>1
  <2>2. n = [pc |-> pc + 1, regs |-> [regs EXCEPT ![r] = v], mem |-> mem, status |-> "running"]
    BY <2>1, PutRegister
  <2>3. m.pc = pc /\ m.regs = regs /\ m.mem = mem
    BY <2>1
  <2>. QED BY Zenon, <2>2, <2>3
<1>3. m.regs = [q \in Registers |-> m.regs[q]] /\ m.mem = [w \in DOMAIN m.mem |-> m.mem[w]]
  BY DEF IsRunning
<1>4. n.regs = [m.regs EXCEPT ![r] = v] /\ n.mem = m.mem
  BY <1>2
<1>5. n.regs = [q \in Registers |-> n.regs[q]] /\ n.regs[r] = v /\ \A q \in Registers \ {r} : n.regs[q] = m.regs[q]
  BY <1>3, <1>4
<1>6. n = [pc |-> n.pc, regs |-> n.regs, mem |-> n.mem, status |-> "running"]
  BY <1>2
<1>. HIDE DEF n
<1>7. IsRunning(n)
  BY <1>3, <1>4, <1>5, <1>6 DEF IsRunning
<1>8. Leads(code, << line >>, m, n)
  BY <1>7, OneLineLeads DEF n
<1>9. IsList(<< line >>)
  <2>1. << line >> \in Seq({line})
    OBVIOUS
  <2>. QED BY <2>1, ListOf
<1>. QED BY <1>4, <1>5, <1>7, <1>8, <1>9 DEF Turns, n

\* Lines that leave v in r, and change no other registers than regs.
Yields(code, lines, m, r, v, regs) == \E n : Turns(code, lines, m, n, regs, {}) /\ n.regs[r] = v

\* A line that computes with registers that hold words.
LEMMA RegisterWord ==
  ASSUME NEW code, NEW m, IsRunning(m), NEW op \in Registered, NEW rd \in Registers, NEW rs, NEW rt,
         NEW a \in Word, NEW b \in Word, In(m, rs) = a, In(m, rt) = b
  PROVE  Yields(code, << R(op, rd, rs, rt) >>, m, rd, ALU(op, a, b), {rd})
<1> DEFINE line == R(op, rd, rs, rt)
           v == ALU(op, a, b)
<1>1. a # Undefined /\ b # Undefined
  BY UndefinedIsNoValue
<1>2. line.op = op /\ line.rd = rd /\ line.rs = rs /\ line.rt = rt
  BY DEF R, Line
<1>. HIDE DEF line
<1>3. Calculated(line, In(m, rs), In(m, rt)) = v
  BY <1>1, <1>2 DEF Calculated
<1>. HIDE DEF v
<1>4. Worked(code, m, line) = Put(m, rd, v)
  BY <1>2, <1>3 DEF Worked, Registered, Immediate
<1>5. Turns(code, << line >>, m, Put(m, rd, v), {rd}, {}) /\ Put(m, rd, v).regs[rd] = v
  BY <1>4, PutTurns
<1>. QED BY Zenon, <1>5 DEF Yields, line, v

\* Shifts are by words.
LEMMA ShiftsAreWords ==
  /\ 0..(WordBits - 1) \subseteq Word /\ WordBits \in Int
  /\ (-8)..16 \subseteq Word
<1>1. WordBits \in 6..32 /\ 2^(WordBits - 1) = Half /\ Half \in Nat
  BY SmallNumbers, TruthsAreWords
<1>2. 2^5 = 32
  OBVIOUS
<1>3. Half >= 32
  <2>1. CASE WordBits = 6
    <3>1. WordBits - 1 = 5
      BY <2>1
    <3>. QED BY <1>1, <1>2, <3>1
  <2>2. CASE WordBits # 6
    <3>1. 5 \in 1..(WordBits - 2)
      BY <1>1, <2>2
    <3>2. 2^5 < Half
      BY Zenon, <3>1, PowersInWords
    <3>. QED BY <1>1, <1>2, <3>2
  <2>. QED BY <2>1, <2>2
<1>. QED BY <1>1, <1>3 DEF Word

\* A line that computes with a register that holds a word, and an immediate.
LEMMA ImmediateWord ==
  ASSUME NEW code, NEW m, IsRunning(m), NEW op \in Immediate, NEW rd \in Registers, NEW rs,
         NEW a \in Word, NEW imm \in Word, In(m, rs) = a
  PROVE  Yields(code, << I(op, rd, rs, imm) >>, m, rd, ALU(op, a, imm), {rd})
<1> DEFINE line == I(op, rd, rs, imm)
           v == ALU(op, a, imm)
<1>1. a # Undefined /\ imm # Undefined
  BY UndefinedIsNoValue
<1>2. op \notin Registered
  BY DEF Immediate, Registered
<1>3. line.op = op /\ line.rd = rd /\ line.rs = rs /\ line.imm = imm
  BY DEF I, Line
<1>. HIDE DEF line
<1>4. Calculated(line, In(m, rs), imm) = v
  BY <1>1, <1>3 DEF Calculated
<1>. HIDE DEF v
<1>5. Worked(code, m, line) = Put(m, rd, v)
  BY <1>2, <1>3, <1>4 DEF Worked, Registered, Immediate
<1>6. Turns(code, << line >>, m, Put(m, rd, v), {rd}, {}) /\ Put(m, rd, v).regs[rd] = v
  BY <1>5, PutTurns
<1>. QED BY Zenon, <1>6 DEF Yields, line, v

\* A line that puts a number into a register.
LEMMA NumberLine ==
  ASSUME NEW code, NEW m, IsRunning(m), NEW rd \in Registers, NEW v
  PROVE  Turns(code, << Li(rd, v) >>, m, Put(m, rd, v), {rd}, {}) /\ Put(m, rd, v).regs[rd] = v
<1>1. Worked(code, m, Li(rd, v)) = Put(m, rd, v)
  BY DEF Worked, Li, I, Line, Registered, Immediate
<1>. QED BY <1>1, PutTurns

\* A line that copies a register.
LEMMA CopyLine ==
  ASSUME NEW code, NEW m, IsRunning(m), NEW rd \in Registers, NEW rs
  PROVE  LET n == Put(m, rd, In(m, rs))
         IN Turns(code, << U("mv", rd, rs) >>, m, n, {rd}, {}) /\ n.regs[rd] = In(m, rs)
<1>1. Worked(code, m, U("mv", rd, rs)) = Put(m, rd, In(m, rs))
  BY DEF Worked, U, R, Line, Registered, Immediate
<1>. QED BY <1>1, PutTurns

\* A line that puts the address of a global into a register.
LEMMA AddressLine ==
  ASSUME NEW code, NEW m, IsRunning(m), NEW rd \in Registers, NEW g
  PROVE  LET n == Put(m, rd, GlobalAt(code, g))
         IN Turns(code, << La(rd, g) >>, m, n, {rd}, {}) /\ n.regs[rd] = GlobalAt(code, g)
<1>1. Worked(code, m, La(rd, g)) = Put(m, rd, GlobalAt(code, g))
  BY DEF Worked, La, Line, Registered, Immediate
<1>. QED BY <1>1, PutTurns

-------------------------------------------------------------------------------
(***************************************************************************)
(* Memory.                                                                 *)
(***************************************************************************)
\* Lines are put together.
LEMMA TwoLines ==
  ASSUME NEW x, NEW y
  PROVE  << x >> \o << y >> = << x, y >>
<1> DEFINE S == {x, y}
           s == << x >> \o << y >>
<1>1. << x >> \in Seq(S) /\ << y >> \in Seq(S) /\ Len(<< x >>) = 1 /\ Len(<< y >>) = 1
      /\ << x >>[1] = x /\ << y >>[1] = y
  OBVIOUS
<1>2. s \in Seq(S) /\ Len(s) = 2 /\ s[1] = x /\ s[2] = y
  BY <1>1
<1>3. << x, y >> \in Seq(S) /\ Len(<< x, y >>) = 2 /\ << x, y >>[1] = x /\ << x, y >>[2] = y
  OBVIOUS
<1>. HIDE DEF s
<1>4. s = << x, y >>
  BY <1>2, <1>3
<1>. QED BY <1>4 DEF s

\* A load from where something is.
LEMMA LoadLine ==
  ASSUME NEW code, NEW m, IsRunning(m), NEW rd \in Registers, NEW base, NEW offset,
         NEW w \in DOMAIN m.mem, In(m, base) # Undefined, In(m, base) + offset = w
  PROVE  Yields(code, << Lw(rd, base, offset) >>, m, rd, m.mem[w], {rd})
<1> DEFINE line == Lw(rd, base, offset)
           v == m.mem[w]
<1>1. line.op = "lw" /\ line.rd = rd /\ line.rs = base /\ line.imm = offset
  BY DEF Lw, I, Line
<1>2. Access(m, line, In(m, base)) = Put(m, rd, v)
  BY <1>1 DEF Access
<1>. HIDE DEF line
<1>3. Worked(code, m, line) = Put(m, rd, v)
  BY <1>1, <1>2 DEF Worked, Registered, Immediate
<1>. HIDE DEF v
<1>4. Turns(code, << line >>, m, Put(m, rd, v), {rd}, {}) /\ Put(m, rd, v).regs[rd] = v
  BY <1>3, PutTurns
<1>. QED BY Zenon, <1>4 DEF line, v, Yields

\* Lines that leave v in the cell w, and change no registers but regs.
Leaves(code, lines, m, w, v, regs) == \E n : Turns(code, lines, m, n, regs, {w}) /\ n.mem[w] = v

\* A store to where something is.
LEMMA StoreLine ==
  ASSUME NEW code, NEW m, IsRunning(m), NEW rt, NEW base, NEW offset,
         NEW w \in DOMAIN m.mem, In(m, base) # Undefined, In(m, base) + offset = w
  PROVE  Leaves(code, << Sw(rt, base, offset) >>, m, w, In(m, rt), {})
<1> DEFINE line == Sw(rt, base, offset)
           v == In(m, rt)
           n == PutCell(m, w, v)
<1>1. line.op = "sw" /\ line.rt = rt /\ line.rs = base /\ line.imm = offset
  BY DEF Sw, Line
<1>2. Access(m, line, In(m, base)) = n
  BY <1>1 DEF Access, PutCell
<1>. HIDE DEF line
<1>3. Worked(code, m, line) = n
  BY <1>1, <1>2 DEF Worked, Registered, Immediate
<1>4. w \in DOMAIN m.mem
  OBVIOUS
<1>. HIDE DEF v
<1>5. n = [pc |-> m.pc + 1, regs |-> m.regs, mem |-> [m.mem EXCEPT ![w] = v], status |-> "running"]
  <2>1. PICK pc, regs, mem : m = [pc |-> pc, regs |-> regs, mem |-> mem, status |-> "running"]
    BY Zenon DEF IsRunning
  <2>2. n = [pc |-> pc + 1, regs |-> regs, mem |-> [mem EXCEPT ![w] = v], status |-> "running"]
    BY <2>1, PutInCell
  <2>3. m.pc = pc /\ m.regs = regs /\ m.mem = mem
    BY <2>1
  <2>. QED BY Zenon, <2>2, <2>3
<1>6. m.regs = [q \in Registers |-> m.regs[q]] /\ m.mem = [a \in DOMAIN m.mem |-> m.mem[a]]
  BY DEF IsRunning
<1>7. n.regs = m.regs /\ n.mem = [m.mem EXCEPT ![w] = v] /\ n = [pc |-> n.pc, regs |-> n.regs, mem |-> n.mem, status |-> "running"]
  BY <1>5
<1>8. /\ n.mem = [a \in DOMAIN n.mem |-> n.mem[a]] /\ DOMAIN n.mem = DOMAIN m.mem
      /\ n.mem[w] = v /\ \A a \in DOMAIN m.mem \ {w} : n.mem[a] = m.mem[a]
  BY <1>4, <1>6, <1>7
<1>. HIDE DEF n
<1>9. IsRunning(n)
  BY <1>6, <1>7, <1>8 DEF IsRunning
<1>10. Leads(code, << line >>, m, n)
  BY <1>3, <1>9, OneLineLeads
<1>11. IsList(<< line >>)
  <2>1. << line >> \in Seq({line})
    OBVIOUS
  <2>. QED BY <2>1, ListOf
<1>12. Turns(code, << line >>, m, n, {}, {w})
  BY <1>7, <1>8, <1>9, <1>10, <1>11 DEF Turns
<1>. QED BY Zenon, <1>8, <1>12 DEF line, v, n, Leaves

\* Something is offset bytes from what a register holds.
Near(m, base, offset) ==
  /\ m.regs[base] \in Word /\ offset \in Word
  /\ m.regs[base] + offset \in DOMAIN m.mem /\ m.regs[base] + offset \in Word

\* An address that no immediate reaches is computed first.
LEMMA ReachLines ==
  ASSUME NEW code, NEW m, IsRunning(m), NEW scratch \in {"t1", "t2"}, NEW base \in Registers \ {"t1", "t2", "x0"},
         NEW offset, Near(m, base, offset)
  PROVE  Yields(code, << Li(scratch, offset), R("add", scratch, base, scratch) >>, m, scratch,
                m.regs[base] + offset, {scratch})
<1>1. scratch \in Registers /\ scratch # "x0" /\ base # "x0" /\ base # scratch
  BY DEF Registers, Destroyed, Scratch
<1>2. PICK k : Turns(code, << Li(scratch, offset) >>, m, k, {scratch}, {}) /\ k.regs[scratch] = offset
  BY <1>1, NumberLine
<1>3. IsRunning(k) /\ k.regs[base] = m.regs[base]
  BY <1>1, <1>2 DEF Turns
<1>4. In(k, base) = m.regs[base] /\ In(k, scratch) = offset
  BY <1>1, <1>2, <1>3 DEF In
<1>5. PICK w \in Word : w = m.regs[base] + offset
  BY DEF Near
<1>6. m.regs[base] # Undefined /\ offset # Undefined /\ w # Undefined
  BY UndefinedIsNoValue DEF Near
<1>7. ALU("add", m.regs[base], offset) = w
  BY <1>5, WrapOfWord DEF ALU
<1>8. PICK n : Turns(code, << R("add", scratch, base, scratch) >>, k, n, {scratch}, {}) /\ n.regs[scratch] = w
  <2>1. "add" \in Registered
    BY DEF Registered
  <2>2. PICK a \in Word, b \in Word : a = m.regs[base] /\ b = offset
    BY DEF Near
  <2>3. In(k, base) = a /\ In(k, scratch) = b /\ ALU("add", a, b) = w
    BY <1>4, <1>7, <2>2
  <2>4. Yields(code, << R("add", scratch, base, scratch) >>, k, scratch, ALU("add", a, b), {scratch})
    BY <1>1, <1>3, <2>1, <2>3, RegisterWord
  <2>. QED BY Zenon, <2>3, <2>4 DEF Yields
<1>9. << Li(scratch, offset) >> \o << R("add", scratch, base, scratch) >> = << Li(scratch, offset), R("add", scratch, base, scratch) >>
  BY Zenon, TwoLines
<1>10. Turns(code, << Li(scratch, offset) >> \o << R("add", scratch, base, scratch) >>, m, n, {scratch}, {})
  BY <1>2, <1>8, TurnsOn
<1>. QED BY <1>5, <1>8, <1>9, <1>10 DEF Yields

-------------------------------------------------------------------------------
(***************************************************************************)
(* What the lines for a constant compute.                                  *)
(***************************************************************************)
\* The constants that have a register are in it.
HoldsConstants(fr, m) ==
  \A v \in DOMAIN fr.constants : fr.constants[v] \in Registers \ Scratch /\ In(m, fr.constants[v]) = v

\* What is in a register that lines leave alone.
LEMMA InKept ==
  ASSUME NEW code, NEW lines, NEW m, NEW n, NEW regs, NEW cells, Turns(code, lines, m, n, regs, cells),
         NEW r \in Usable \ regs
  PROVE  In(n, r) = In(m, r)
BY DEF Turns, In, Usable

LEMMA After ==
  ASSUME NEW code, NEW lines, NEW m, NEW n, NEW regs, NEW cells, Turns(code, lines, m, n, regs, cells)
  PROVE  IsRunning(n) /\ \A r \in Usable : r \notin regs => In(n, r) = In(m, r)
BY DEF Turns, In, Usable

\* The constants are.
LEMMA ConstantsKept ==
  ASSUME NEW code, NEW lines, NEW m, NEW n, NEW regs, NEW cells, NEW fr,
         Turns(code, lines, m, n, regs, cells), HoldsConstants(fr, m), regs \subseteq Scratch
  PROVE  HoldsConstants(fr, n) /\ IsRunning(n)
<1>1. ASSUME NEW v \in DOMAIN fr.constants
      PROVE  fr.constants[v] \in Registers \ Scratch /\ In(n, fr.constants[v]) = v
  <2>1. fr.constants[v] \in Registers \ Scratch /\ In(m, fr.constants[v]) = v
    BY DEF HoldsConstants
  <2>2. fr.constants[v] \in Usable \ regs
    BY <2>1 DEF Usable
  <2>3. In(n, fr.constants[v]) = In(m, fr.constants[v])
    BY <2>2, InKept
  <2>. QED BY <2>1, <2>3
<1>2. IsRunning(n)
  BY DEF Turns
<1>. QED BY <1>1, <1>2 DEF HoldsConstants

\* Where a register has the value already.
LEMMA NothingYields ==
  ASSUME NEW code, NEW m, IsRunning(m), NEW r, NEW regs
  PROVE  Yields(code, << >>, m, r, m.regs[r], regs)
<1>1. Turns(code, << >>, m, m, regs, {})
  BY NothingTurns, TurnsWider
<1>. QED BY <1>1 DEF Yields

\* One list of lines and then another.
LEMMA YieldsOn ==
  ASSUME NEW code, NEW first, NEW second, NEW m, NEW n, NEW A, NEW E, NEW regs, NEW r, NEW v,
         Turns(code, first, m, n, A, {}), Yields(code, second, n, r, v, E),
         A \subseteq regs, E \subseteq regs
  PROVE  Yields(code, first \o second, m, r, v, regs)
<1>1. PICK o : Turns(code, second, n, o, E, {}) /\ o.regs[r] = v
  BY DEF Yields
<1>2. Turns(code, first \o second, m, o, regs, {})
  BY <1>1, TurnsOn
<1>. QED BY <1>1, <1>2 DEF Yields

\* The lines that provide a constant leave it where the others expect it.
Provides(code, fr, m, v, r) ==
  \E n : /\ Turns(code, Providing(fr, v, r), m, n, {r}, {}) /\ In(n, Holding(fr, v, r)) = v
         /\ Holding(fr, v, r) \in (Registers \ Scratch) \union {r}

LEMMA ProvidingYields ==
  ASSUME NEW code, NEW m, IsRunning(m), NEW fr, HoldsConstants(fr, m), NEW v, NEW r \in Scratch
  PROVE  Provides(code, fr, m, v, r)
<1>1. r \in Registers /\ r # "x0"
  BY DEF Registers, Destroyed, Scratch
<1>2. CASE ConstReg(fr, v) = NoReg
  <2>1. Turns(code, << Li(r, v) >>, m, Put(m, r, v), {r}, {}) /\ Put(m, r, v).regs[r] = v
    BY <1>1, NumberLine
  <2>2. Holding(fr, v, r) = r /\ Providing(fr, v, r) = << Li(r, v) >>
    BY <1>2 DEF Holding, Providing
  <2>3. In(Put(m, r, v), r) = v
    BY <1>1, <2>1 DEF In
  <2>. QED BY <2>1, <2>2, <2>3 DEF Provides
<1>3. CASE ConstReg(fr, v) # NoReg
  <2>1. v \in DOMAIN fr.constants /\ ConstReg(fr, v) = fr.constants[v]
    BY <1>3 DEF ConstReg
  <2>2. Holding(fr, v, r) = fr.constants[v] /\ Providing(fr, v, r) = << >>
    BY <1>3, <2>1 DEF Holding, Providing
  <2>3. fr.constants[v] \in Registers \ Scratch /\ In(m, fr.constants[v]) = v
    BY <2>1 DEF HoldsConstants
  <2>4. Turns(code, << >>, m, m, {r}, {})
    BY NothingTurns, TurnsWider
  <2>. QED BY <2>2, <2>3, <2>4 DEF Provides
<1>. QED BY <1>2, <1>3

\* The high word of a product of words is a word.
LEMMA HighFits ==
  ASSUME NEW a \in Word, NEW b \in Word
  PROVE  (a * b) \div (2 * Half) \in Word
<1>1. PICK h \in Nat \ {0}, x \in Int, y \in Int : h = Half /\ x = a /\ y = b /\ -h <= x /\ x < h /\ -h <= y /\ y < h
  BY TruthsAreWords DEF Word
<1>2. PICK p \in Int, q \in Int, g \in Nat :
        p = x * y /\ g = h * h /\ q = p \div (2 * h)
  <2>1. x * y \in Int /\ h * h \in Nat /\ (x * y) \div (2 * h) \in Int
    OBVIOUS
  <2>. QED BY <2>1
<1>3. -g <= p /\ p <= g
  <2>1. (h - x) * (h + y) >= 0 /\ (h + x) * (h - y) >= 0 /\ (h - x) * (h - y) >= 0 /\ (h + x) * (h + y) >= 0
    <3>1. ASSUME NEW i \in Nat, NEW j \in Nat PROVE i * j >= 0
      OBVIOUS
    <3>2. h - x \in Nat /\ h + x \in Nat /\ h - y \in Nat /\ h + y \in Nat
      BY <1>1
    <3>. QED BY <3>1, <3>2
  <2>2. /\ (h - x) * (h + y) = h * h + h * y - h * x - x * y
        /\ (h + x) * (h - y) = h * h - h * y + h * x - x * y
        /\ (h - x) * (h - y) = h * h - h * y - h * x + x * y
        /\ (h + x) * (h + y) = h * h + h * y + h * x + x * y
    OBVIOUS
  <2>3. PICK i \in Int, j \in Int : i = h * y /\ j = h * x
    OBVIOUS
  <2>. QED BY <1>2, <2>1, <2>2, <2>3
<1>4. q * (2 * h) <= p /\ p < q * (2 * h) + 2 * h
  <2>1. 2 * h \in Nat \ {0}
    OBVIOUS
  <2>. QED BY Zenon, <1>2, <2>1, FloorBounds
<1>5. g >= 1
  BY <1>2
<1>6. ~ (q >= h)
  <2>1. SUFFICES ASSUME q >= h PROVE FALSE
    OBVIOUS
  <2>2. q * (2 * h) >= h * (2 * h) /\ h * (2 * h) = 2 * (h * h) /\ q * (2 * h) \in Int
    BY <2>1
  <2>. QED BY <1>2, <1>3, <1>4, <1>5, <2>2
<1>7. ~ (q + 1 <= -h)
  <2>1. SUFFICES ASSUME q + 1 <= -h PROVE FALSE
    OBVIOUS
  <2>2. (q + 1) * (2 * h) <= (-h) * (2 * h) /\ (-h) * (2 * h) = -(2 * (h * h))
        /\ (q + 1) * (2 * h) = q * (2 * h) + 2 * h /\ q * (2 * h) \in Int
    BY <2>1
  <2>. QED BY <1>2, <1>3, <1>4, <1>5, <2>2
<1>8. q \in Word
  BY <1>1, <1>6, <1>7 DEF Word
<1>9. q = (a * b) \div (2 * Half)
  BY <1>1, <1>2
<1>. QED BY <1>8, <1>9

\* What the operations on words are.
LEMMA Operations ==
  ASSUME NEW a, NEW b
  PROVE  /\ ALU("add", a, b) = Wrap(a + b) /\ ALU("addi", a, b) = Wrap(a + b)
         /\ ALU("sub", a, b) = Wrap(a - b) /\ ALU("mul", a, b) = Wrap(a * b)
         /\ ALU("mulh", a, b) = (a * b) \div (2 * Half)
         /\ ALU("div", a, b) = (IF b = 0 THEN -1 ELSE Wrap(TDiv(a, b)))
         /\ ALU("rem", a, b) = (IF b = 0 THEN a ELSE TMod(a, b))
         /\ ALU("srai", a, b) = a \div 2^b /\ ALU("slli", a, b) = Wrap(a * 2^b)
         /\ ALU("srli", a, b) = Wrap((a % (2 * Half)) \div 2^b)
         /\ ALU("andi", a, b) = a % (b + 1)
BY DEF ALU, Shifted

\* The lines that bring the quotient by a constant into t2.
LEMMA QuotientLines ==
  ASSUME NEW code, NEW m, IsRunning(m), NEW fr, HoldsConstants(fr, m),
         NEW imm \in Word, MagicFor(imm), NEW rs \in Usable \ {"t1", "t2"}, NEW x \in Word, In(m, rs) = x,
         NEW nonNegative \in BOOLEAN, nonNegative => x >= 0
  PROVE  Yields(code, Quotient(fr, imm, rs, nonNegative), m, "t2", TDiv(x, imm), Scratch)
<1> DEFINE d == Magnitude(imm)
           mult == Magic(d).multiplier
           high == (x * mult) \div (2 * Half)
           reg == Holding(fr, mult, "t1")
           first == Providing(fr, mult, "t1")
           second == << R("mulh", "t2", rs, reg) >>
           third == IF mult < 0 THEN << R("add", "t2", "t2", rs) >> ELSE << >>
           fourth == IF Magic(d).shift > 0 THEN << I("srai", "t2", "t2", Magic(d).shift) >> ELSE << >>
           fifth == IF nonNegative THEN << >> ELSE << I("srai", "t0", rs, WordBits - 1), R("sub", "t2", "t2", "t0") >>
           sixth == IF imm < 0 THEN << R("sub", "t2", "x0", "t2") >> ELSE << >>
<1>1. d \in 2..(Half - 1)
  <2>1. Magnitude(imm) = (IF imm < 0 THEN -imm ELSE imm) /\ Magnitude(imm) \in Int
    BY WordBounds DEF Magnitude
  <2>2. Magnitude(imm) > 1 /\ imm # -Half
    BY DEF MagicFor, HasMagic
  <2>. QED BY <2>1, <2>2, WordBounds
<1>2. mult \in Word /\ Magic(d).shift \in 0..(WordBits - 1) /\ high \in Word
  <2>1. mult \in Word
    <3>1. PICK factor \in Nat : Magic(d).multiplier = Wrap(factor)
      BY <1>1, MagicFactor
    <3>2. Wrap(factor) \in Word
      BY WrapIsWord
    <3>. QED BY <3>1, <3>2
  <2>. QED BY <1>1, <2>1, MagicShift, HighFits
<1>3. Scratch \subseteq Registers /\ "t0" # "x0" /\ "t1" # "x0" /\ "t2" # "x0" /\ Scratch = {"t0", "t1", "t2"}
      /\ "t0" # "t1" /\ "t0" # "t2" /\ "t1" # "t2"
  BY DEF Registers, Destroyed, Scratch
<1>4. PICK k1 : Turns(code, first, m, k1, {"t1"}, {}) /\ In(k1, reg) = mult
                 /\ reg \in (Registers \ Scratch) \union {"t1"}
  BY <1>3, ProvidingYields DEF Provides
<1>5. In(k1, rs) = x /\ IsRunning(k1)
  BY <1>4, After
<1>6. PICK k2 : Turns(code, second, k1, k2, {"t2"}, {}) /\ k2.regs["t2"] = high
  <2>1. "mulh" \in Registered
    BY DEF Registered
  <2>2. Yields(code, second, k1, "t2", ALU("mulh", x, mult), {"t2"})
    BY <1>2, <1>3, <1>4, <1>5, <2>1, RegisterWord
  <2>3. ALU("mulh", x, mult) = high
    BY Operations
  <2>. QED BY Zenon, <2>2, <2>3 DEF Yields
<1>7. In(k2, rs) = x /\ IsRunning(k2) /\ In(k2, "t2") = high
  BY <1>3, <1>5, <1>6, After DEF In
<1>8. Turns(code, first \o second, m, k2, Scratch, {})
  BY <1>3, <1>4, <1>6, TurnsOn
<1>. HIDE DEF first, second
<1>9. PICK k3 : Turns(code, third, k2, k3, {"t2"}, {}) /\ k3.regs["t2"] = MagicHigh(d, x)
  <2>1. CASE mult < 0
    <3>1. "add" \in Registered
      BY DEF Registered
    <3>2. Yields(code, << R("add", "t2", "t2", rs) >>, k2, "t2", ALU("add", high, x), {"t2"})
      BY <1>2, <1>3, <1>7, <3>1, RegisterWord
    <3>3. ALU("add", high, x) = MagicHigh(d, x)
      BY <2>1, Operations DEF MagicHigh
    <3>. QED BY Zenon, <2>1, <3>2, <3>3 DEF Yields
  <2>2. CASE ~ (mult < 0)
    <3>1. Yields(code, << >>, k2, "t2", k2.regs["t2"], {"t2"})
      BY <1>7, NothingYields
    <3>2. k2.regs["t2"] = MagicHigh(d, x)
      BY <1>6, <2>2 DEF MagicHigh
    <3>. QED BY Zenon, <2>2, <3>1, <3>2 DEF Yields
  <2>. QED BY <2>1, <2>2
<1>10. /\ MagicHigh(d, x) \in Word /\ MagicShifted(d, x) \in Word /\ TDiv(x, d) \in Word
       /\ TDiv(x, imm) \in Word
       /\ x >= 0 => MagicShifted(d, x) = TDiv(x, d)
       /\ MagicShifted(d, x) - (IF x < 0 THEN -1 ELSE 0) = TDiv(x, d)
       /\ TDiv(x, imm) = (IF imm < 0 THEN 0 - TDiv(x, d) ELSE TDiv(x, d))
  <2>1. MagicHigh(d, x) \in Word
    <3>1. mult < 0 => Wrap(high + x) \in Word
      <4>1. high + x \in Int
        BY <1>2, WordBounds
      <4>. QED BY <4>1, WrapIsWord
    <3>. QED BY <1>2, <3>1 DEF MagicHigh
  <2>. QED BY <2>1, MagicQuotient
<1>11. In(k3, rs) = x /\ IsRunning(k3) /\ In(k3, "t2") = MagicHigh(d, x)
  BY <1>3, <1>7, <1>9, After DEF In
<1>12. Turns(code, first \o second \o third, m, k3, Scratch, {})
  BY <1>3, <1>8, <1>9, TurnsOn
<1>. HIDE DEF third
<1>13. PICK k4 : Turns(code, fourth, k3, k4, {"t2"}, {}) /\ k4.regs["t2"] = MagicShifted(d, x)
  <2>1. CASE Magic(d).shift > 0
    <3>1. "srai" \in Immediate
      BY DEF Immediate
    <3>2. Magic(d).shift \in Word
      BY <1>2, ShiftsAreWords
    <3>3. Yields(code, << I("srai", "t2", "t2", Magic(d).shift) >>, k3, "t2", ALU("srai", MagicHigh(d, x), Magic(d).shift), {"t2"})
      BY <1>3, <1>10, <1>11, <3>1, <3>2, ImmediateWord
    <3>4. ALU("srai", MagicHigh(d, x), Magic(d).shift) = MagicShifted(d, x)
      BY Operations DEF MagicShifted
    <3>. QED BY Zenon, <2>1, <3>3, <3>4 DEF Yields
  <2>2. CASE ~ (Magic(d).shift > 0)
    <3>1. Yields(code, << >>, k3, "t2", k3.regs["t2"], {"t2"})
      BY <1>11, NothingYields
    <3>2. k3.regs["t2"] = MagicShifted(d, x)
      <4>1. Magic(d).shift = 0
        BY <1>2, <2>2, ShiftsAreWords
      <4>2. MagicHigh(d, x) \in Int
        BY <1>10, WordBounds
      <4>3. PICK g \in Int : g = MagicHigh(d, x)
        BY <4>2
      <4>4. MagicShifted(d, x) = g \div 2^0
        BY <4>1, <4>3 DEF MagicShifted
      <4>5. g \div 2^0 = g
        OBVIOUS
      <4>. QED BY <1>9, <4>3, <4>4, <4>5
    <3>. QED BY Zenon, <2>2, <3>1, <3>2 DEF Yields
  <2>. QED BY <2>1, <2>2
<1>14. In(k4, rs) = x /\ IsRunning(k4) /\ In(k4, "t2") = MagicShifted(d, x)
  BY <1>3, <1>11, <1>13, After DEF In
<1>15. Turns(code, first \o second \o third \o fourth, m, k4, Scratch, {})
  BY <1>3, <1>12, <1>13, TurnsOn
<1>. HIDE DEF fourth
<1>16. PICK k5 : Turns(code, fifth, k4, k5, Scratch, {}) /\ k5.regs["t2"] = TDiv(x, d)
  <2>1. CASE nonNegative
    <3>1. Yields(code, << >>, k4, "t2", k4.regs["t2"], Scratch)
      BY <1>14, NothingYields
    <3>2. k4.regs["t2"] = TDiv(x, d)
      BY <1>10, <1>13, <2>1
    <3>. QED BY Zenon, <2>1, <3>1, <3>2 DEF Yields
  <2>2. CASE ~ nonNegative
    <3>1. "srai" \in Immediate /\ "sub" \in Registered
      BY DEF Immediate, Registered
    <3>2. WordBits - 1 \in Word
      BY ShiftsAreWords, SmallNumbers
    <3>3. PICK sign \in Word : sign = x \div 2^(WordBits - 1) /\ sign = (IF x < 0 THEN -1 ELSE 0)
      BY SignOfWord, WordBounds DEF Word
    <3>4. PICK k : Turns(code, << I("srai", "t0", rs, WordBits - 1) >>, k4, k, {"t0"}, {}) /\ k.regs["t0"] = sign
      <4>1. Yields(code, << I("srai", "t0", rs, WordBits - 1) >>, k4, "t0", ALU("srai", x, WordBits - 1), {"t0"})
        BY <1>3, <1>14, <3>1, <3>2, ImmediateWord
      <4>2. ALU("srai", x, WordBits - 1) = sign
        BY <3>3, Operations
      <4>. QED BY Zenon, <4>1, <4>2 DEF Yields
    <3>5. In(k, "t2") = MagicShifted(d, x) /\ IsRunning(k) /\ In(k, "t0") = sign
      <4>1. "t2" \in Usable \ {"t0"}
        BY <1>3 DEF Usable
      <4>. QED BY <1>3, <1>14, <3>4, <4>1, InKept DEF Turns, In
    <3>6. Yields(code, << R("sub", "t2", "t2", "t0") >>, k, "t2", ALU("sub", MagicShifted(d, x), sign), {"t2"})
      BY <1>3, <1>10, <3>1, <3>3, <3>5, RegisterWord
    <3>7. ALU("sub", MagicShifted(d, x), sign) = TDiv(x, d)
      <4>1. MagicShifted(d, x) - sign = TDiv(x, d)
        BY <1>10, <3>3
      <4>. QED BY <1>10, <4>1, Operations, WrapOfWord
    <3>8. Yields(code, << I("srai", "t0", rs, WordBits - 1) >> \o << R("sub", "t2", "t2", "t0") >>, k4, "t2", TDiv(x, d), Scratch)
      BY <1>3, <3>4, <3>6, <3>7, YieldsOn
    <3>9. << I("srai", "t0", rs, WordBits - 1) >> \o << R("sub", "t2", "t2", "t0") >> = fifth
      BY <2>2, TwoLines
    <3>. QED BY Zenon, <3>8, <3>9 DEF Yields
  <2>. QED BY <2>1, <2>2
<1>17. IsRunning(k5) /\ In(k5, "t2") = TDiv(x, d) /\ In(k5, "x0") = 0 /\ 0 \in Word
  BY <1>3, <1>16, WordBounds, ShiftsAreWords DEF Turns, In, Word
<1>18. Turns(code, first \o second \o third \o fourth \o fifth, m, k5, Scratch, {})
  BY <1>3, <1>15, <1>16, TurnsOn
<1>. HIDE DEF fifth
<1>19. Yields(code, sixth, k5, "t2", TDiv(x, imm), {"t2"})
  <2>1. CASE imm < 0
    <3>1. "sub" \in Registered
      BY DEF Registered
    <3>2. Yields(code, << R("sub", "t2", "x0", "t2") >>, k5, "t2", ALU("sub", 0, TDiv(x, d)), {"t2"})
      BY <1>3, <1>10, <1>17, <3>1, RegisterWord
    <3>3. ALU("sub", 0, TDiv(x, d)) = TDiv(x, imm)
      BY <1>10, <2>1, Operations, WrapOfWord
    <3>. QED BY Zenon, <2>1, <3>2, <3>3
  <2>2. CASE ~ (imm < 0)
    <3>1. Yields(code, << >>, k5, "t2", k5.regs["t2"], {"t2"})
      BY <1>17, NothingYields
    <3>2. k5.regs["t2"] = TDiv(x, imm)
      BY <1>10, <1>16, <2>2
    <3>. QED BY Zenon, <2>2, <3>1, <3>2
  <2>. QED BY <2>1, <2>2
<1>. HIDE DEF sixth
<1>20. Yields(code, first \o second \o third \o fourth \o fifth \o sixth, m, "t2", TDiv(x, imm), Scratch)
  <2>1. {"t2"} \subseteq Scratch /\ Scratch \subseteq Scratch
    BY <1>3
  <2>. QED BY Zenon, <1>18, <1>19, <2>1, YieldsOn
<1>21. Quotient(fr, imm, rs, nonNegative) = first \o second \o third \o fourth \o fifth \o sixth
  BY DEF Quotient, first, second, third, fourth, fifth, sixth
<1>. QED BY Zenon, <1>20, <1>21

\* The machine's operations are the code's.
LEMMA OpcodeComputes ==
  ASSUME NEW op \in ArithmeticOps, NEW a \in Word, NEW b \in Word, Computable(op, b)
  PROVE  Opcode[op] \in Registered /\ ALU(Opcode[op], a, b) = Compute(op, a, b) /\ Compute(op, a, b) \in Word
<1>1. a \in Int /\ b \in Int
  BY WordBounds
<1>2. op = "MOD" => TMod(a, b) \in Word
  BY <1>1, QuotientFits DEF Computable
<1>3. op \in {"DIV", "MOD"} => b # 0 /\ TDiv(a, b) \in Int
  BY <1>1, QuotientFits DEF Computable
<1>4. Opcode[op] \in Registered /\ ALU(Opcode[op], a, b) = Compute(op, a, b)
  <2>1. CASE op = "ADD"
    BY <2>1, Operations DEF Opcode, Registered, Compute
  <2>2. CASE op = "SUB"
    BY <2>2, Operations DEF Opcode, Registered, Compute
  <2>3. CASE op = "MUL"
    BY <2>3, Operations DEF Opcode, Registered, Compute
  <2>4. CASE op = "DIV"
    BY <1>3, <2>4, Operations DEF Opcode, Registered, Compute
  <2>5. CASE op = "MOD"
    <3>1. Wrap(TMod(a, b)) = TMod(a, b)
      BY <1>2, <2>5, WrapOfWord
    <3>2. Compute(op, a, b) = Wrap(TMod(a, b)) /\ Opcode[op] = "rem" /\ "rem" \in Registered
      BY <2>5 DEF Opcode, Registered, Compute
    <3>. QED BY <1>3, <2>5, <3>1, <3>2, Operations
  <2>. QED BY <2>1, <2>2, <2>3, <2>4, <2>5 DEF ArithmeticOps
<1>5. Compute(op, a, b) \in Word
  <2>1. CASE op = "ADD"
    BY <1>1, <2>1, WrapIsWord DEF Compute
  <2>2. CASE op = "SUB"
    BY <1>1, <2>2, WrapIsWord DEF Compute
  <2>3. CASE op = "MUL"
    <3>1. a * b \in Int
      BY <1>1
    <3>. QED BY <2>3, <3>1, WrapIsWord DEF Compute
  <2>4. CASE op = "DIV"
    BY <1>3, <2>4, WrapIsWord DEF Compute
  <2>5. CASE op = "MOD"
    <3>1. TMod(a, b) \in Int
      BY <1>2, <2>5, WordBounds
    <3>. QED BY <2>5, <3>1, WrapIsWord DEF Compute
  <2>. QED BY <2>1, <2>2, <2>3, <2>4, <2>5 DEF ArithmeticOps
<1>. QED BY <1>4, <1>5

\* The scratch registers are registers of their own.
LEMMA ScratchRegisters ==
  /\ Scratch \subseteq Registers /\ Scratch = {"t0", "t1", "t2"}
  /\ "t0" # "t1" /\ "t0" # "t2" /\ "t1" # "t2" /\ "x0" \notin Scratch
  /\ "t3" \in Registers /\ "t3" \notin Scratch /\ "t3" # "x0"
  /\ Registers \subseteq Usable /\ "x0" \in Usable
<1>1. TempRegs \in Seq(STRING) /\ TempRegs # << >> /\ TempRegs[1] = "t3"
  BY Zenon, RegistersApart, RegistersReach
<1>2. "t3" \in ToSet(TempRegs)
  BY <1>1 DEF ToSet
<1>. QED BY <1>2 DEF Registers, Destroyed, Scratch, Usable

\* Division by hand of a constant that has no short form.
LEMMA ByRegisterLines ==
  ASSUME NEW code, NEW m, IsRunning(m), NEW fr, HoldsConstants(fr, m), NEW op \in ArithmeticOps,
         NEW imm \in Word, Computable(op, imm), NEW rd \in Registers, NEW rs \in Usable \ {"t1", "t2"},
         NEW x \in Word, In(m, rs) = x
  PROVE  Yields(code, ByRegister(fr, op, imm, rd, rs), m, rd, Compute(op, x, imm), Scratch \union {rd})
<1> DEFINE reg == Holding(fr, imm, "t1")
<1>1. PICK k : Turns(code, Providing(fr, imm, "t1"), m, k, {"t1"}, {}) /\ In(k, reg) = imm
  <2>1. "t1" \in Scratch
    BY ScratchRegisters
  <2>2. Provides(code, fr, m, imm, "t1")
    BY <2>1, ProvidingYields
  <2>. QED BY Zenon, <2>2 DEF Provides
<1>2. IsRunning(k) /\ In(k, rs) = x
  BY <1>1, After
<1>3. Opcode[op] \in Registered /\ ALU(Opcode[op], x, imm) = Compute(op, x, imm)
  BY OpcodeComputes
<1>4. Yields(code, << R(Opcode[op], rd, rs, reg) >>, k, rd, Compute(op, x, imm), {rd})
  <2>1. Yields(code, << R(Opcode[op], rd, rs, reg) >>, k, rd, ALU(Opcode[op], x, imm), {rd})
    BY <1>1, <1>2, <1>3, RegisterWord
  <2>. QED BY Zenon, <1>3, <2>1
<1>5. {"t1"} \subseteq Scratch \union {rd} /\ {rd} \subseteq Scratch \union {rd}
  BY ScratchRegisters
<1>6. Yields(code, Providing(fr, imm, "t1") \o << R(Opcode[op], rd, rs, reg) >>, m, rd, Compute(op, x, imm), Scratch \union {rd})
  BY SMTT(60), <1>1, <1>4, <1>5, YieldsOn
<1>. QED BY Zenon, <1>6 DEF ByRegister

\* The quotient is copied.
LEMMA MagicDivLines ==
  ASSUME NEW code, NEW m, IsRunning(m), NEW fr, HoldsConstants(fr, m),
         NEW imm \in Word, MagicFor(imm), NEW rd \in Registers, NEW rs \in Usable \ {"t1", "t2"},
         NEW x \in Word, In(m, rs) = x, NEW nonNegative \in BOOLEAN, nonNegative => x >= 0
  PROVE  Yields(code, MagicDiv(fr, imm, rs, rd, nonNegative), m, rd, Compute("DIV", x, imm), Scratch \union {rd})
<1>1. PICK k : Turns(code, Quotient(fr, imm, rs, nonNegative), m, k, Scratch, {}) /\ k.regs["t2"] = TDiv(x, imm)
  <2>1. Yields(code, Quotient(fr, imm, rs, nonNegative), m, "t2", TDiv(x, imm), Scratch)
    BY Zenon, QuotientLines
  <2>. QED BY Zenon, <2>1 DEF Yields
<1>2. IsRunning(k) /\ In(k, "t2") = TDiv(x, imm)
  BY <1>1, After, ScratchRegisters DEF In
<1>3. Yields(code, << U("mv", rd, "t2") >>, k, rd, TDiv(x, imm), {rd})
  BY <1>2, CopyLine DEF Yields
<1>4. Scratch \subseteq Scratch \union {rd} /\ {rd} \subseteq Scratch \union {rd}
  OBVIOUS
<1>5. Compute("DIV", x, imm) = TDiv(x, imm)
  BY MagicQuotient, WrapOfWord DEF Compute
<1>6. Yields(code, Quotient(fr, imm, rs, nonNegative) \o << U("mv", rd, "t2") >>, m, rd, TDiv(x, imm), Scratch \union {rd})
  BY Zenon, <1>1, <1>3, <1>4, YieldsOn
<1>. QED BY Zenon, <1>5, <1>6 DEF MagicDiv

\* What is left of x is the remainder; it is computed with words that wrap.
LEMMA RemainderOfQuotient ==
  ASSUME NEW x \in Word, NEW imm \in Word, imm # 0, TDiv(x, imm) \in Word
  PROVE  /\ Wrap(TDiv(x, imm) * imm) \in Word
         /\ Wrap(x - Wrap(TDiv(x, imm) * imm)) = Compute("MOD", x, imm)
<1>1. PICK q \in Int, y \in Int, d \in Int : q = TDiv(x, imm) /\ y = x /\ d = imm
  BY WordBounds
<1>2. PICK p \in Int : p = q * d
  OBVIOUS
<1>3. Wrap(p) \in Word /\ Wrap(y - Wrap(p)) = Wrap(y - p)
  BY WrapIsWord, WrapAgain
<1>4. TMod(x, imm) = y - p
  <2>1. d * q = q * d
    OBVIOUS
  <2>. QED BY <1>1, <1>2, <2>1 DEF TMod
<1>5. TDiv(x, imm) * imm = p
  BY <1>1, <1>2
<1>. QED BY <1>1, <1>3, <1>4, <1>5 DEF Compute

\* The lines that multiply the quotient again and take the product off.
LEMMA MagicModLines ==
  ASSUME NEW code, NEW m, IsRunning(m), NEW fr, HoldsConstants(fr, m),
         NEW imm \in Word, MagicFor(imm), NEW rd \in Registers, NEW rs \in Usable \ {"t1", "t2"},
         NEW x \in Word, In(m, rs) = x, NEW nonNegative \in BOOLEAN, nonNegative => x >= 0,
         rs = "t0" => \A v \in DOMAIN fr.constants : fr.constants[v] # "t3"
  PROVE  Yields(code, MagicMod(fr, imm, rs, rd, nonNegative), m, rd, Compute("MOD", x, imm),
                Scratch \union {rd} \union (IF rs = "t0" THEN {"t3"} ELSE {}))
<1> DEFINE regs == Scratch \union {rd} \union (IF rs = "t0" THEN {"t3"} ELSE {})
           kept == IF rs = "t0" THEN {"t3"} ELSE {}
           from == IF rs = "t0" THEN "t3" ELSE rs
           reg == Holding(fr, imm, "t1")
           first == IF rs = "t0" THEN << U("mv", "t3", "t0") >> ELSE << >>
           second == Quotient(fr, imm, rs, nonNegative)
           third == Providing(fr, imm, "t1")
           q == TDiv(x, imm)
<1>1. from \in Usable \ Scratch
  BY ScratchRegisters
<1>2. q \in Word /\ imm # 0 /\ Wrap(q * imm) \in Word
  BY MagicQuotient, RemainderOfQuotient
<1>3. PICK n0 : Turns(code, first, m, n0, kept, {}) /\ In(n0, from) = x /\ In(n0, rs) = x /\ HoldsConstants(fr, n0)
  <2>1. CASE rs = "t0"
    <3>1. PICK n0 : n0 = Put(m, "t3", In(m, "t0"))
      OBVIOUS
    <3>2. Turns(code, << U("mv", "t3", "t0") >>, m, n0, {"t3"}, {}) /\ n0.regs["t3"] = x
      BY <2>1, <3>1, CopyLine, ScratchRegisters
    <3>3. In(n0, "t3") = x /\ In(n0, "t0") = x
      BY <2>1, <3>2, After, ScratchRegisters DEF In
    <3>4. HoldsConstants(fr, n0)
      <4>1. ASSUME NEW v \in DOMAIN fr.constants
            PROVE  fr.constants[v] \in Registers \ Scratch /\ In(n0, fr.constants[v]) = v
        <5>1. fr.constants[v] \in Registers \ Scratch /\ In(m, fr.constants[v]) = v /\ fr.constants[v] # "t3"
          BY <2>1 DEF HoldsConstants
        <5>2. \A r \in Usable : r \notin {"t3"} => In(n0, r) = In(m, r)
          BY <3>2, After
        <5>3. fr.constants[v] \in Usable
          BY <5>1, ScratchRegisters
        <5>. QED BY <5>1, <5>2, <5>3
      <4>. QED BY <4>1 DEF HoldsConstants
    <3>. QED BY <2>1, <3>2, <3>3, <3>4
  <2>2. CASE rs # "t0"
    <3>1. Turns(code, << >>, m, m, {}, {})
      BY NothingTurns
    <3>. QED BY <2>2, <3>1
  <2>. QED BY <2>1, <2>2
<1>4. PICK n1 : Turns(code, second, n0, n1, Scratch, {}) /\ n1.regs["t2"] = q
  <2>1. IsRunning(n0)
    BY <1>3, After
  <2>2. Yields(code, second, n0, "t2", q, Scratch)
    BY <1>3, <2>1, QuotientLines
  <2>. QED BY Zenon, <2>2 DEF Yields
<1>5. IsRunning(n1) /\ HoldsConstants(fr, n1) /\ In(n1, from) = x /\ In(n1, "t2") = q
  <2>1. HoldsConstants(fr, n1)
    BY <1>3, <1>4, ConstantsKept
  <2>2. IsRunning(n1) /\ \A r \in Usable : r \notin Scratch => In(n1, r) = In(n0, r)
    BY <1>4, After
  <2>. QED BY <1>1, <1>3, <1>4, <2>1, <2>2, ScratchRegisters DEF In
<1>6. PICK n2 : Turns(code, third, n1, n2, {"t1"}, {}) /\ In(n2, reg) = imm
  <2>1. "t1" \in Scratch
    BY ScratchRegisters
  <2>2. Provides(code, fr, n1, imm, "t1")
    BY <1>5, <2>1, ProvidingYields
  <2>. QED BY Zenon, <2>2 DEF Provides
<1>7. IsRunning(n2) /\ In(n2, from) = x /\ In(n2, "t2") = q
  BY <1>1, <1>5, <1>6, After, ScratchRegisters
<1>8. Turns(code, first \o second \o third, m, n2, regs, {})
  <2>1. kept \subseteq regs /\ Scratch \subseteq regs /\ {"t1"} \subseteq regs /\ {} \subseteq {}
    BY ScratchRegisters
  <2>. HIDE DEF regs, kept, first, second, third
  <2>2. Turns(code, first \o second, m, n1, regs, {})
    BY <1>3, <1>4, <2>1, TurnsOn
  <2>. QED BY <1>6, <2>1, <2>2, TurnsOn
<1>9. PICK n3 : Turns(code, << R("mul", "t2", "t2", reg) >>, n2, n3, {"t2"}, {}) /\ n3.regs["t2"] = Wrap(q * imm)
  <2>1. "mul" \in Registered /\ "t2" \in Registers
    BY ScratchRegisters DEF Registered
  <2>2. Yields(code, << R("mul", "t2", "t2", reg) >>, n2, "t2", ALU("mul", q, imm), {"t2"})
    BY <1>2, <1>6, <1>7, <2>1, RegisterWord
  <2>3. ALU("mul", q, imm) = Wrap(q * imm)
    BY Operations
  <2>. QED BY Zenon, <2>2, <2>3 DEF Yields
<1>10. IsRunning(n3) /\ In(n3, from) = x /\ In(n3, "t2") = Wrap(q * imm)
  BY <1>1, <1>7, <1>9, After, ScratchRegisters DEF In
<1>11. Yields(code, << R("sub", rd, from, "t2") >>, n3, rd, Compute("MOD", x, imm), {rd})
  <2>1. "sub" \in Registered
    BY DEF Registered
  <2>2. Yields(code, << R("sub", rd, from, "t2") >>, n3, rd, ALU("sub", x, Wrap(q * imm)), {rd})
    BY <1>2, <1>10, <2>1, RegisterWord
  <2>3. ALU("sub", x, Wrap(q * imm)) = Compute("MOD", x, imm)
    BY <1>2, Operations, RemainderOfQuotient
  <2>. QED BY Zenon, <2>2, <2>3
<1>12. Yields(code, << R("mul", "t2", "t2", reg), R("sub", rd, from, "t2") >>, n2, rd, Compute("MOD", x, imm), regs)
  <2>1. {"t2"} \subseteq regs /\ {rd} \subseteq regs
    BY ScratchRegisters
  <2>2. << R("mul", "t2", "t2", reg) >> \o << R("sub", rd, from, "t2") >>
          = << R("mul", "t2", "t2", reg), R("sub", rd, from, "t2") >>
    BY Zenon, TwoLines
  <2>. HIDE DEF regs, from, reg
  <2>3. Yields(code, << R("mul", "t2", "t2", reg) >> \o << R("sub", rd, from, "t2") >>, n2, rd, Compute("MOD", x, imm), regs)
    BY Zenon, <1>9, <1>11, <2>1, YieldsOn
  <2>. QED BY Zenon, <2>2, <2>3
<1>13. MagicMod(fr, imm, rs, rd, nonNegative)
         = first \o second \o third \o << R("mul", "t2", "t2", reg), R("sub", rd, from, "t2") >>
  BY DEF MagicMod
<1>14. regs \subseteq regs
  OBVIOUS
<1>. HIDE DEF regs, first, second, third, from, reg
<1>15. Yields(code, first \o second \o third \o << R("mul", "t2", "t2", reg), R("sub", rd, from, "t2") >>, m, rd,
              Compute("MOD", x, imm), regs)
  BY Zenon, <1>8, <1>12, <1>14, YieldsOn
<1>. QED BY Zenon, <1>13, <1>15 DEF regs

\* Three lines are put together.
LEMMA ThreeLines ==
  ASSUME NEW x, NEW y, NEW z
  PROVE  << x >> \o << y >> \o << z >> = << x, y, z >>
<1> DEFINE S == {x, y, z}
           s == << x, y >> \o << z >>
<1>1. << x, y >> \in Seq(S) /\ << z >> \in Seq(S) /\ Len(<< x, y >>) = 2 /\ Len(<< z >>) = 1
      /\ << x, y >>[1] = x /\ << x, y >>[2] = y /\ << z >>[1] = z
  OBVIOUS
<1>2. s \in Seq(S) /\ Len(s) = 3 /\ s[1] = x /\ s[2] = y /\ s[3] = z
  BY <1>1
<1>3. << x, y, z >> \in Seq(S) /\ Len(<< x, y, z >>) = 3
      /\ << x, y, z >>[1] = x /\ << x, y, z >>[2] = y /\ << x, y, z >>[3] = z
  OBVIOUS
<1>. HIDE DEF s
<1>4. s = << x, y, z >>
  BY <1>2, <1>3
<1>5. << x >> \o << y >> = << x, y >>
  BY Zenon, TwoLines
<1>. QED BY Zenon, <1>4, <1>5 DEF s

\* What a word becomes before it is shifted by n bits.
Lifted(x, n) == Wrap(x + Wrap(((x \div 2^(WordBits - 1)) % (2 * Half)) \div 2^(WordBits - n)))

\* The lines that make a negative dividend larger.
LEMMA RoundedLines ==
  ASSUME NEW code, NEW m, IsRunning(m), NEW imm, IsPowerOfTwo(imm), imm # 1,
         NEW rs \in Usable \ {"t1"}, NEW x \in Word, In(m, rs) = x
  PROVE  Yields(code, Rounded(rs, Log2(imm)), m, "t1", Lifted(x, Log2(imm)), {"t1"})
<1> DEFINE sign == x \div 2^(WordBits - 1)
           more == Wrap((sign % (2 * Half)) \div 2^(WordBits - Log2(imm)))
           first == << I("srai", "t1", rs, WordBits - 1) >>
           second == << I("srli", "t1", "t1", WordBits - Log2(imm)) >>
           third == << R("add", "t1", rs, "t1") >>
<1>1. Log2(imm) \in 1..(WordBits - 2) /\ sign \in Word /\ more \in Word
  BY RoundedQuotient
<1>2. WordBits - 1 \in Word /\ WordBits - Log2(imm) \in Word
  BY <1>1, ShiftsAreWords, SmallNumbers
<1>3. "srai" \in Immediate /\ "srli" \in Immediate /\ "add" \in Registered /\ "t1" \in Registers /\ "t1" # "x0"
  BY ScratchRegisters DEF Immediate, Registered
<1>4. ALU("srai", x, WordBits - 1) = sign /\ ALU("srli", sign, WordBits - Log2(imm)) = more
      /\ ALU("add", x, more) = Lifted(x, Log2(imm))
  BY Operations DEF Lifted
<1>. HIDE DEF sign, more
<1>5. PICK k1 : Turns(code, first, m, k1, {"t1"}, {}) /\ k1.regs["t1"] = sign
  <2>1. Yields(code, first, m, "t1", ALU("srai", x, WordBits - 1), {"t1"})
    BY <1>2, <1>3, ImmediateWord
  <2>. QED BY Zenon, <1>4, <2>1 DEF Yields
<1>6. IsRunning(k1) /\ In(k1, rs) = x /\ In(k1, "t1") = sign
  BY <1>3, <1>5, After DEF In
<1>7. PICK k2 : Turns(code, second, k1, k2, {"t1"}, {}) /\ k2.regs["t1"] = more
  <2>1. Yields(code, second, k1, "t1", ALU("srli", sign, WordBits - Log2(imm)), {"t1"})
    BY <1>1, <1>2, <1>3, <1>6, ImmediateWord
  <2>. QED BY Zenon, <1>4, <2>1 DEF Yields
<1>8. IsRunning(k2) /\ In(k2, rs) = x /\ In(k2, "t1") = more
  BY <1>3, <1>6, <1>7, After DEF In
<1>9. Yields(code, third, k2, "t1", Lifted(x, Log2(imm)), {"t1"})
  <2>1. Yields(code, third, k2, "t1", ALU("add", x, more), {"t1"})
    BY <1>1, <1>3, <1>8, RegisterWord
  <2>. QED BY Zenon, <1>4, <2>1
<1>10. first \o second \o third = Rounded(rs, Log2(imm))
  BY ThreeLines DEF Rounded
<1>. HIDE DEF first, second, third
<1>11. Turns(code, first \o second, m, k2, {"t1"}, {})
  BY <1>5, <1>7, TurnsOn
<1>12. Yields(code, first \o second \o third, m, "t1", Lifted(x, Log2(imm)), {"t1"})
  BY <1>9, <1>11, YieldsOn
<1>. QED BY Zenon, <1>10, <1>12

\* A power of two, and its exponent, are words.
LEMMA PowerIsWord ==
  ASSUME NEW imm, IsPowerOfTwo(imm)
  PROVE  imm \in Word /\ imm - 1 \in Word /\ imm # 0 /\ Log2(imm) \in Word /\ imm = 2^Log2(imm)
<1>1. Log2(imm) \in 0..(WordBits - 2) /\ imm = 2^Log2(imm) /\ imm >= 1 /\ imm \in Int
  BY LogFits
<1>2. imm < Half
  <2>1. CASE imm = 1
    BY <2>1, TruthsAreWords
  <2>2. CASE imm # 1
    <3>1. imm \in Word
      BY <2>2, RoundedQuotient, ShiftsAreWords
    <3>. QED BY <3>1, WordBounds
  <2>. QED BY <2>1, <2>2
<1>3. Log2(imm) \in Word
  <2>1. Log2(imm) \in 0..(WordBits - 1)
    BY <1>1, SmallNumbers
  <2>. QED BY <2>1, ShiftsAreWords
<1>. QED BY <1>1, <1>2, <1>3, TruthsAreWords DEF Word


\* It is no harm to name more than is changed.
LEMMA YieldsWider ==
  ASSUME NEW code, NEW lines, NEW m, NEW r, NEW v, NEW A, NEW regs, Yields(code, lines, m, r, v, A), A \subseteq regs
  PROVE  Yields(code, lines, m, r, v, regs)
BY TurnsWider DEF Yields

\* Truncating division by minus one.
LEMMA DivisionByMinusOne ==
  ASSUME NEW x \in Word
  PROVE  Compute("DIV", x, -1) = Wrap(0 - x) /\ Compute("MOD", x, -1) = 0
<1>1. PICK y \in Int : y = x
  BY WordBounds
<1>2. TDiv(y, -1) = 0 - y
  <2>1. CASE y < 0
    BY <2>1 DEF TDiv, Magnitude
  <2>2. CASE y >= 0
    BY <2>2 DEF TDiv, Magnitude
  <2>. QED BY <2>1, <2>2
<1>3. TMod(y, -1) = 0
  BY <1>2 DEF TMod
<1>4. Wrap(0) = 0
  BY WrapOfWord, TruthsAreWords DEF Word
<1>. QED BY <1>1, <1>2, <1>3, <1>4 DEF Compute

\* The forms of a division exclude each other.
LEMMA FormsOfDivision ==
  ASSUME NEW imm
  PROVE  /\ IsPowerOfTwo(imm) => imm # -1 /\ ~ MagicFor(imm)
         /\ ~ MagicFor(-1)
<1>1. ASSUME IsPowerOfTwo(imm) PROVE imm # -1 /\ ~ MagicFor(imm)
  <2>1. imm \in Int /\ imm >= 1
    BY <1>1, LogFits
  <2>2. Magnitude(imm) = imm
    BY <2>1 DEF Magnitude
  <2>. QED BY <1>1, <2>1, <2>2 DEF MagicFor, HasMagic
<1>2. Magnitude(-1) = 1
  <2>1. PICK y \in Int : y = -1
    OBVIOUS
  <2>2. Magnitude(y) = (IF y < 0 THEN -y ELSE y)
    BY DEF Magnitude
  <2>3. y < 0 /\ -y = 1
    <3>1. y + 1 = 0
      BY <2>1
    <3>. QED BY ONLY y \in Int, <3>1
  <2>. QED BY <2>1, <2>2, <2>3
<1>3. ~ MagicFor(-1)
  BY <1>2 DEF MagicFor, HasMagic
<1>. QED BY <1>1, <1>3

\* What the lines for a division by a constant leave.
LEMMA DivLines ==
  ASSUME NEW code, NEW m, IsRunning(m), NEW fr, HoldsConstants(fr, m),
         NEW imm \in Word \ {0, 1}, NEW rd \in Registers, NEW rs \in Usable \ {"t1", "t2"},
         NEW x \in Word, In(m, rs) = x,
         NEW localNonNegative \in BOOLEAN, localNonNegative => x >= 0,
         NEW nonNegative \in BOOLEAN, nonNegative => x >= 0
  PROVE  Yields(code, DivByConstant(fr, imm, rd, rs, localNonNegative, nonNegative), m, rd,
                Compute("DIV", x, imm), Scratch \union {rd})
<1> DEFINE lines == DivByConstant(fr, imm, rd, rs, localNonNegative, nonNegative)
           regs == Scratch \union {rd}
           v == Compute("DIV", x, imm)
<1>1. CASE IsPowerOfTwo(imm)
  <2>1. imm = 2^Log2(imm) /\ Log2(imm) \in Word
    BY <1>1, PowerIsWord
  <2>2. "srai" \in Immediate
    BY DEF Immediate
  <2>3. TDiv(x, imm) \in Word /\ Lifted(x, Log2(imm)) \in Word /\ Lifted(x, Log2(imm)) \div imm = TDiv(x, imm)
        /\ (x >= 0 => x \div imm = TDiv(x, imm))
    BY <1>1, RoundedQuotient DEF Lifted
  <2>4. v = TDiv(x, imm)
    BY <2>3, WrapOfWord DEF Compute
  <2>5. CASE localNonNegative
    <3>1. lines = << I("srai", rd, rs, Log2(imm)) >>
      BY <1>1, <2>5, FormsOfDivision DEF DivByConstant
    <3>2. Yields(code, << I("srai", rd, rs, Log2(imm)) >>, m, rd, ALU("srai", x, Log2(imm)), {rd})
      BY <2>1, <2>2, ImmediateWord
    <3>3. ALU("srai", x, Log2(imm)) = v
      BY <2>1, <2>3, <2>4, <2>5, Operations
    <3>. QED BY <3>1, <3>2, <3>3, YieldsWider
  <2>6. CASE ~ localNonNegative
    <3>1. lines = Rounded(rs, Log2(imm)) \o << I("srai", rd, "t1", Log2(imm)) >>
      BY <1>1, <2>6, FormsOfDivision DEF DivByConstant
    <3>2. Yields(code, Rounded(rs, Log2(imm)), m, "t1", Lifted(x, Log2(imm)), {"t1"})
      BY <1>1, RoundedLines
    <3>3. PICK k : Turns(code, Rounded(rs, Log2(imm)), m, k, {"t1"}, {}) /\ k.regs["t1"] = Lifted(x, Log2(imm))
      BY <3>2 DEF Yields
    <3>4. IsRunning(k) /\ In(k, "t1") = Lifted(x, Log2(imm))
      BY <3>3, After DEF In
    <3>5. Yields(code, << I("srai", rd, "t1", Log2(imm)) >>, k, rd, ALU("srai", Lifted(x, Log2(imm)), Log2(imm)), {rd})
      BY <2>1, <2>2, <2>3, <3>4, ImmediateWord
    <3>6. ALU("srai", Lifted(x, Log2(imm)), Log2(imm)) = v
      BY <2>1, <2>3, <2>4, Operations
    <3>. QED BY <3>1, <3>3, <3>5, <3>6, YieldsOn, ScratchRegisters
  <2>. QED BY <2>5, <2>6
<1>2. CASE ~ IsPowerOfTwo(imm) /\ imm = -1
  <2>1. lines = << R("sub", rd, "x0", rs) >>
    BY <1>2, FormsOfDivision DEF DivByConstant
  <2>2. "sub" \in Registered /\ In(m, "x0") = 0 /\ 0 \in Word
    BY ShiftsAreWords DEF Registered, In
  <2>3. Yields(code, << R("sub", rd, "x0", rs) >>, m, rd, ALU("sub", 0, x), {rd})
    BY <2>2, RegisterWord
  <2>4. ALU("sub", 0, x) = v
    BY <1>2, Operations, DivisionByMinusOne
  <2>. QED BY <2>1, <2>3, <2>4, YieldsWider
<1>3. CASE ~ IsPowerOfTwo(imm) /\ imm # -1 /\ MagicFor(imm)
  <2>1. lines = MagicDiv(fr, imm, rs, rd, nonNegative)
    BY <1>3 DEF DivByConstant
  <2>2. Yields(code, MagicDiv(fr, imm, rs, rd, nonNegative), m, rd, v, regs)
    BY <1>3, MagicDivLines
  <2>. QED BY <2>1, <2>2
<1>4. CASE ~ IsPowerOfTwo(imm) /\ imm # -1 /\ ~ MagicFor(imm)
  <2>1. lines = ByRegister(fr, "DIV", imm, rd, rs)
    BY <1>4 DEF DivByConstant
  <2>2. "DIV" \in ArithmeticOps /\ Computable("DIV", imm)
    BY DEF ArithmeticOps, Computable
  <2>3. Yields(code, ByRegister(fr, "DIV", imm, rd, rs), m, rd, v, regs)
    BY <2>2, ByRegisterLines
  <2>. QED BY <2>1, <2>3
<1>. QED BY <1>1, <1>2, <1>3, <1>4

\* What the lines for a remainder by a constant leave.
LEMMA ModLines ==
  ASSUME NEW code, NEW m, IsRunning(m), NEW fr, HoldsConstants(fr, m),
         NEW imm \in Word \ {0, 1}, NEW rd \in Registers, NEW rs \in Usable \ {"t1", "t2"},
         NEW x \in Word, In(m, rs) = x,
         NEW localNonNegative \in BOOLEAN, localNonNegative => x >= 0,
         NEW nonNegative \in BOOLEAN, nonNegative => x >= 0,
         rs = "t0" => \A v \in DOMAIN fr.constants : fr.constants[v] # "t3"
  PROVE  Yields(code, ModByConstant(fr, imm, rd, rs, localNonNegative, nonNegative), m, rd,
                Compute("MOD", x, imm), Scratch \union {rd} \union (IF rs = "t0" THEN {"t3"} ELSE {}))
<1> DEFINE lines == ModByConstant(fr, imm, rd, rs, localNonNegative, nonNegative)
           regs == Scratch \union {rd} \union (IF rs = "t0" THEN {"t3"} ELSE {})
           v == Compute("MOD", x, imm)
<1>0. {"t1"} \subseteq regs /\ {rd} \subseteq regs /\ Scratch \union {rd} \subseteq regs
  BY ScratchRegisters
<1>. HIDE DEF regs
<1>1. CASE IsPowerOfTwo(imm)
  <2> DEFINE n == Log2(imm)
             q == TDiv(x, imm)
             first == Rounded(rs, n)
             second == << I("srai", "t1", "t1", n) >>
             third == << I("slli", "t1", "t1", n) >>
             fourth == << R("sub", rd, rs, "t1") >>
  <2>1. imm = 2^n /\ n \in Word /\ imm - 1 \in Word /\ imm # 0
    BY <1>1, PowerIsWord
  <2>2. /\ "srai" \in Immediate /\ "slli" \in Immediate /\ "andi" \in Immediate /\ "sub" \in Registered
        /\ "t1" \in Registers /\ "t1" # "x0"
    BY ScratchRegisters DEF Immediate, Registered
  <2>3. /\ q \in Word /\ Lifted(x, n) \in Word /\ Lifted(x, n) \div imm = q
        /\ (x >= 0 => x % imm = TMod(x, imm))
    BY <1>1, RoundedQuotient DEF Lifted
  <2>4. Wrap(q * imm) \in Word /\ Wrap(x - Wrap(q * imm)) = v
    BY <2>1, <2>3, RemainderOfQuotient
  <2>5. ALU("srai", Lifted(x, n), n) = q /\ ALU("slli", q, n) = Wrap(q * imm) /\ ALU("sub", x, Wrap(q * imm)) = v
    BY <2>1, <2>3, <2>4, Operations
  <2>6. CASE localNonNegative
    <3>1. lines = << I("andi", rd, rs, imm - 1) >>
      BY <1>1, <2>6, FormsOfDivision DEF ModByConstant
    <3>2. Yields(code, << I("andi", rd, rs, imm - 1) >>, m, rd, ALU("andi", x, imm - 1), {rd})
      BY <2>1, <2>2, ImmediateWord
    <3>3. ALU("andi", x, imm - 1) = v
      <4>1. imm \in Int /\ imm - 1 + 1 = imm
        BY WordBounds
      <4>2. TMod(x, imm) \in Word /\ x % imm = TMod(x, imm)
        BY <2>1, <2>3, <2>6, <4>1, QuotientFits
      <4>3. Wrap(TMod(x, imm)) = TMod(x, imm)
        BY <4>2, WrapOfWord
      <4>. QED BY <4>1, <4>2, <4>3, Operations DEF Compute
    <3>. QED BY <1>0, <3>1, <3>2, <3>3, YieldsWider
  <2>7. CASE ~ localNonNegative
    <3>1. lines = first \o << I("srai", "t1", "t1", n), I("slli", "t1", "t1", n), R("sub", rd, rs, "t1") >>
      BY <1>1, <2>7, FormsOfDivision DEF ModByConstant
    <3>2. Yields(code, first, m, "t1", Lifted(x, n), {"t1"})
      BY <1>1, RoundedLines
    <3>. HIDE DEF lines, first, n, q, v
    <3>3. PICK k1 : Turns(code, first, m, k1, {"t1"}, {}) /\ k1.regs["t1"] = Lifted(x, n)
      BY <3>2 DEF Yields
    <3>4. IsRunning(k1) /\ In(k1, "t1") = Lifted(x, n) /\ In(k1, rs) = x
      BY <2>2, <3>3, After DEF In
    <3>5. PICK k2 : Turns(code, second, k1, k2, {"t1"}, {}) /\ k2.regs["t1"] = q
      <4>1. Yields(code, second, k1, "t1", ALU("srai", Lifted(x, n), n), {"t1"})
        BY <2>1, <2>2, <2>3, <3>4, ImmediateWord
      <4>. QED BY Zenon, <2>5, <4>1 DEF Yields
    <3>6. IsRunning(k2) /\ In(k2, "t1") = q /\ In(k2, rs) = x
      BY <2>2, <3>4, <3>5, After DEF In
    <3>7. PICK k3 : Turns(code, third, k2, k3, {"t1"}, {}) /\ k3.regs["t1"] = Wrap(q * imm)
      <4>1. Yields(code, third, k2, "t1", ALU("slli", q, n), {"t1"})
        BY <2>1, <2>2, <2>3, <3>6, ImmediateWord
      <4>. QED BY Zenon, <2>5, <4>1 DEF Yields
    <3>8. IsRunning(k3) /\ In(k3, "t1") = Wrap(q * imm) /\ In(k3, rs) = x
      BY <2>2, <3>6, <3>7, After DEF In
    <3>9. Yields(code, fourth, k3, rd, v, {rd})
      <4>1. Yields(code, fourth, k3, rd, ALU("sub", x, Wrap(q * imm)), {rd})
        BY <2>2, <2>4, <3>8, RegisterWord
      <4>. QED BY Zenon, <2>5, <4>1
    <3>10. second \o third \o fourth = << I("srai", "t1", "t1", n), I("slli", "t1", "t1", n), R("sub", rd, rs, "t1") >>
      BY ThreeLines
    <3>. HIDE DEF second, third, fourth
    <3>11. Turns(code, second \o third, k1, k3, {"t1"}, {})
      BY <3>5, <3>7, TurnsOn
    <3>12. Yields(code, second \o third \o fourth, k1, rd, v, regs)
      BY <1>0, <3>9, <3>11, YieldsOn
    <3>13. regs \subseteq regs
      OBVIOUS
    <3>14. Yields(code, first \o (second \o third \o fourth), m, rd, v, regs)
      BY <1>0, <3>3, <3>12, <3>13, YieldsOn
    <3>. QED BY Zenon, <3>1, <3>10, <3>14 DEF lines, v, regs
  <2>. QED BY <2>6, <2>7
<1>2. CASE ~ IsPowerOfTwo(imm) /\ imm = -1
  <2>1. lines = << Li(rd, 0) >>
    BY <1>2, FormsOfDivision DEF ModByConstant
  <2>2. Yields(code, << Li(rd, 0) >>, m, rd, 0, {rd})
    BY NumberLine DEF Yields
  <2>3. v = 0
    BY <1>2, DivisionByMinusOne
  <2>. QED BY <1>0, <2>1, <2>2, <2>3, YieldsWider
<1>3. CASE ~ IsPowerOfTwo(imm) /\ imm # -1 /\ MagicFor(imm)
  <2>1. lines = MagicMod(fr, imm, rs, rd, nonNegative)
    BY <1>3 DEF ModByConstant
  <2>2. Yields(code, MagicMod(fr, imm, rs, rd, nonNegative), m, rd, v, regs)
    BY <1>3, MagicModLines DEF regs
  <2>. QED BY Zenon, <2>1, <2>2 DEF regs
<1>4. CASE ~ IsPowerOfTwo(imm) /\ imm # -1 /\ ~ MagicFor(imm)
  <2>1. lines = ByRegister(fr, "MOD", imm, rd, rs)
    BY <1>4 DEF ModByConstant
  <2>2. "MOD" \in ArithmeticOps /\ Computable("MOD", imm)
    BY DEF ArithmeticOps, Computable
  <2>3. Yields(code, ByRegister(fr, "MOD", imm, rd, rs), m, rd, v, Scratch \union {rd})
    BY <2>2, ByRegisterLines
  <2>. QED BY <1>0, <2>1, <2>3, YieldsWider
<1>. QED BY <1>1, <1>2, <1>3, <1>4 DEF regs

\* A shift multiplies.
LEMMA ShiftYields ==
  ASSUME NEW code, NEW m, IsRunning(m), NEW v, IsPowerOfTwo(v), NEW r \in Registers, NEW rs,
         NEW x \in Word, In(m, rs) = x
  PROVE  Yields(code, << I("slli", r, rs, Log2(v)) >>, m, r, Wrap(x * v), {r}) /\ Wrap(x * v) \in Word
<1>1. v = 2^Log2(v) /\ Log2(v) \in Word /\ v \in Int
  BY PowerIsWord, WordBounds
<1>2. "slli" \in Immediate
  BY DEF Immediate
<1>3. Yields(code, << I("slli", r, rs, Log2(v)) >>, m, r, ALU("slli", x, Log2(v)), {r})
  BY <1>1, <1>2, ImmediateWord
<1>4. ALU("slli", x, Log2(v)) = Wrap(x * v)
  BY <1>1, Operations
<1>5. x * v \in Int
  BY <1>1, WordBounds
<1>. QED BY <1>3, <1>4, <1>5, WrapIsWord

\* A shift and a sum or a difference.
LEMMA ShiftedSum ==
  ASSUME NEW code, NEW m, IsRunning(m), NEW v, IsPowerOfTwo(v), NEW op \in {"add", "sub"}, NEW rd \in Registers,
         NEW rs \in Usable \ {"t1"}, NEW x \in Word, In(m, rs) = x
  PROVE  Yields(code, << I("slli", "t1", rs, Log2(v)), R(op, rd, "t1", rs) >>, m, rd,
                Wrap(IF op = "add" THEN x * v + x ELSE x * v - x), Scratch \union {rd})
<1> DEFINE first == << I("slli", "t1", rs, Log2(v)) >>
           second == << R(op, rd, "t1", rs) >>
           w == Wrap(IF op = "add" THEN x * v + x ELSE x * v - x)
<1>1. "t1" \in Registers /\ "t1" # "x0" /\ {"t1"} \subseteq Scratch \union {rd} /\ {rd} \subseteq Scratch \union {rd}
  BY ScratchRegisters
<1>2. Yields(code, first, m, "t1", Wrap(x * v), {"t1"}) /\ Wrap(x * v) \in Word
  BY <1>1, ShiftYields
<1>3. PICK k : Turns(code, first, m, k, {"t1"}, {}) /\ k.regs["t1"] = Wrap(x * v)
  BY <1>2 DEF Yields
<1>4. IsRunning(k) /\ In(k, rs) = x /\ In(k, "t1") = Wrap(x * v)
  BY <1>1, <1>3, After DEF In
<1>5. op \in Registered
  BY DEF Registered
<1>6. Yields(code, second, k, rd, ALU(op, Wrap(x * v), x), {rd})
  BY <1>2, <1>4, <1>5, RegisterWord
<1>7. ALU(op, Wrap(x * v), x) = w
  <2>1. PICK y \in Int, p \in Int : y = x /\ p = x * v
    <3>1. v \in Int /\ x \in Int
      BY PowerIsWord, WordBounds
    <3>2. x * v \in Int
      BY <3>1
    <3>. QED BY <3>1, <3>2
  <2>2. Wrap(Wrap(p) + y) = Wrap(p + y) /\ Wrap(Wrap(p) - y) = Wrap(p - y)
    BY WrapAgain
  <2>. QED BY <2>1, <2>2, Operations
<1>8. first \o second = << I("slli", "t1", rs, Log2(v)), R(op, rd, "t1", rs) >>
  BY Zenon, TwoLines
<1>. HIDE DEF first, second, w
<1>9. Yields(code, first \o second, m, rd, w, Scratch \union {rd})
  BY <1>1, <1>3, <1>6, <1>7, YieldsOn
<1>. QED BY Zenon, <1>8, <1>9 DEF w

\* Small powers of two.
LEMMA SmallPowers == IsPowerOfTwo(2) /\ IsPowerOfTwo(4) /\ IsPowerOfTwo(8) /\ IsPowerOfTwo(16)
<1>1. 2^1 = 2 /\ 2^2 = 4 /\ 2^3 = 8 /\ 2^4 = 16
  OBVIOUS
<1>2. {1, 2, 3, 4} \subseteq 0..(WordBits - 2)
  BY SmallNumbers
<1>3. \E n \in 0..(WordBits - 2) : 2 = 2^n
  BY <1>1, <1>2
<1>4. \E n \in 0..(WordBits - 2) : 4 = 2^n
  BY <1>1, <1>2
<1>5. \E n \in 0..(WordBits - 2) : 8 = 2^n
  BY <1>1, <1>2
<1>6. \E n \in 0..(WordBits - 2) : 16 = 2^n
  BY <1>1, <1>2
<1>. QED BY <1>3, <1>4, <1>5, <1>6 DEF IsPowerOfTwo

\* What the lines for a product by a constant leave.
LEMMA MulLines ==
  ASSUME NEW code, NEW m, IsRunning(m), NEW fr, HoldsConstants(fr, m),
         NEW imm \in Word, NEW rd \in Registers \ {"x0"}, NEW rs \in Usable \ {"t1", "t2"},
         NEW x \in Word, In(m, rs) = x
  PROVE  Yields(code, MulByConstant(fr, imm, rd, rs), m, rd, Compute("MUL", x, imm), Scratch \union {rd})
<1> DEFINE regs == Scratch \union {rd}
           v == Compute("MUL", x, imm)
<1>1. {rd} \subseteq regs
  OBVIOUS
<1>2. v = Wrap(x * imm)
  BY DEF Compute
<1>3. PICK y \in Int, d \in Int, p \in Int : y = x /\ d = imm /\ p = x * imm /\ p = y * d
  <2>1. x \in Int /\ imm \in Int
    BY WordBounds
  <2>2. x * imm \in Int
    BY <2>1
  <2>. QED BY <2>1, <2>2
<1>. HIDE DEF regs, v
<1>4. IsPowerOfTwo(imm) => Yields(code, << I("slli", rd, rs, Log2(imm)) >>, m, rd, v, regs)
  <2>1. SUFFICES ASSUME IsPowerOfTwo(imm)
                 PROVE  Yields(code, << I("slli", rd, rs, Log2(imm)) >>, m, rd, v, regs)
    OBVIOUS
  <2>2. Yields(code, << I("slli", rd, rs, Log2(imm)) >>, m, rd, Wrap(x * imm), {rd})
    BY <2>1, ShiftYields
  <2>. QED BY <1>1, <1>2, <2>2, YieldsWider
<1>5. imm \in {3, 5, 9} => Yields(code, << I("slli", "t1", rs, Log2(imm - 1)), R("add", rd, "t1", rs) >>, m, rd, v, regs)
  <2>1. SUFFICES ASSUME imm \in {3, 5, 9}
                 PROVE  Yields(code, << I("slli", "t1", rs, Log2(imm - 1)), R("add", rd, "t1", rs) >>, m, rd, v, regs)
    OBVIOUS
  <2>2. PICK e : e = imm - 1 /\ IsPowerOfTwo(e)
    BY <2>1, SmallPowers
  <2>3. Yields(code, << I("slli", "t1", rs, Log2(e)), R("add", rd, "t1", rs) >>, m, rd,
               Wrap(IF "add" = "add" THEN x * e + x ELSE x * e - x), Scratch \union {rd})
    BY <2>2, ShiftedSum
  <2>4. x * e + x = p
    <3>1. y * (d - 1) + y = y * d
      OBVIOUS
    <3>. QED BY <1>3, <2>2, <3>1
  <2>. QED BY <1>2, <1>3, <2>2, <2>3, <2>4 DEF regs
<1>6. imm \in {7, 15} => Yields(code, << I("slli", "t1", rs, Log2(imm + 1)), R("sub", rd, "t1", rs) >>, m, rd, v, regs)
  <2>1. SUFFICES ASSUME imm \in {7, 15}
                 PROVE  Yields(code, << I("slli", "t1", rs, Log2(imm + 1)), R("sub", rd, "t1", rs) >>, m, rd, v, regs)
    OBVIOUS
  <2>2. PICK e : e = imm + 1 /\ IsPowerOfTwo(e)
    BY <2>1, SmallPowers
  <2>3. Yields(code, << I("slli", "t1", rs, Log2(e)), R("sub", rd, "t1", rs) >>, m, rd,
               Wrap(IF "sub" = "add" THEN x * e + x ELSE x * e - x), Scratch \union {rd})
    BY <2>2, ShiftedSum
  <2>4. x * e - x = p
    <3>1. y * (d + 1) - y = y * d
      OBVIOUS
    <3>. QED BY <1>3, <2>2, <3>1
  <2>. QED BY <1>2, <1>3, <2>2, <2>3, <2>4 DEF regs
<1>7. In(m, "x0") = 0 /\ 0 \in Word /\ "sub" \in Registered
  BY ShiftsAreWords DEF In, Registered
<1>8. imm = -1 => Yields(code, << R("sub", rd, "x0", rs) >>, m, rd, v, regs)
  <2>1. SUFFICES ASSUME imm = -1 PROVE Yields(code, << R("sub", rd, "x0", rs) >>, m, rd, v, regs)
    OBVIOUS
  <2>2. Yields(code, << R("sub", rd, "x0", rs) >>, m, rd, ALU("sub", 0, x), {rd})
    BY <1>7, RegisterWord
  <2>3. ALU("sub", 0, x) = v
    <3>1. 0 - y = y * (-1)
      OBVIOUS
    <3>2. 0 - x = x * imm
      BY <1>3, <2>1, <3>1
    <3>. QED BY <1>2, <3>2, Operations
  <2>. QED BY <1>1, <2>2, <2>3, YieldsWider
<1>9. IsPowerOfTwo(-imm) => Yields(code, << I("slli", rd, rs, Log2(-imm)), R("sub", rd, "x0", rd) >>, m, rd, v, regs)
  <2>1. SUFFICES ASSUME IsPowerOfTwo(-imm)
                 PROVE  Yields(code, << I("slli", rd, rs, Log2(-imm)), R("sub", rd, "x0", rd) >>, m, rd, v, regs)
    OBVIOUS
  <2>2. PICK e \in Int : e = -imm /\ IsPowerOfTwo(e) /\ e = -d
    BY <1>3, <2>1
  <2>3. Yields(code, << I("slli", rd, rs, Log2(e)) >>, m, rd, Wrap(x * e), {rd}) /\ Wrap(x * e) \in Word
    BY <2>2, ShiftYields
  <2>4. PICK k : Turns(code, << I("slli", rd, rs, Log2(e)) >>, m, k, {rd}, {}) /\ k.regs[rd] = Wrap(x * e)
    BY <2>3 DEF Yields
  <2>5. IsRunning(k) /\ In(k, rd) = Wrap(x * e) /\ In(k, "x0") = 0
    BY <2>4, After DEF In
  <2>6. Yields(code, << R("sub", rd, "x0", rd) >>, k, rd, ALU("sub", 0, Wrap(x * e)), {rd})
    BY <1>7, <2>3, <2>5, RegisterWord
  <2>7. ALU("sub", 0, Wrap(x * e)) = v
    <3>1. PICK w \in Int : w = x * e /\ 0 - w = p
      <4>1. y * e \in Int /\ 0 - y * e = y * d
        <5>1. y * (-d) = 0 - y * d
          OBVIOUS
        <5>. QED BY <2>2, <5>1
      <4>. QED BY <1>3, <4>1
    <3>2. Wrap(0 - Wrap(w)) = Wrap(0 - w)
      <4>1. 0 \in Int
        OBVIOUS
      <4>. QED BY Zenon, <4>1, WrapAgain
    <3>3. ALU("sub", 0, Wrap(w)) = Wrap(0 - Wrap(w))
      BY Operations
    <3>. QED BY <1>2, <1>3, <3>1, <3>2, <3>3
  <2>8. Yields(code, << I("slli", rd, rs, Log2(e)) >> \o << R("sub", rd, "x0", rd) >>, m, rd, v, regs)
    BY <1>1, <2>4, <2>6, <2>7, YieldsOn
  <2>9. << I("slli", rd, rs, Log2(e)) >> \o << R("sub", rd, "x0", rd) >> = << I("slli", rd, rs, Log2(e)), R("sub", rd, "x0", rd) >>
    BY Zenon, TwoLines
  <2>. QED BY <2>2, <2>8, <2>9
<1>10. Yields(code, ByRegister(fr, "MUL", imm, rd, rs), m, rd, v, regs)
  <2>1. "MUL" \in ArithmeticOps /\ Computable("MUL", imm)
    BY DEF ArithmeticOps, Computable
  <2>. QED BY <2>1, ByRegisterLines DEF regs, v
<1>11. Yields(code, MulByConstant(fr, imm, rd, rs), m, rd, v, regs)
  BY <1>4, <1>5, <1>6, <1>8, <1>9, <1>10 DEF MulByConstant
<1>. QED BY Zenon, <1>11 DEF v, regs

-------------------------------------------------------------------------------
(***************************************************************************)
(* Operands: where they are, and the lines that bring them into registers  *)
(* and back.                                                               *)
(***************************************************************************)
Place(code, fr, m, o) ==
  IF IsLocal(o) THEN m.regs["s0"] + LocalOffset(fr, o.name) ELSE GlobalAt(code, o.name)

\* What an operand is worth to the machine.
Held(code, fr, m, o) ==
  IF IsImm(o) THEN o.imm
  ELSE IF RegOf(fr, o) # NoReg THEN m.regs[RegOf(fr, o)]
  ELSE m.mem[Place(code, fr, m, o)]

\* A variable has a register of its own, or a place in memory.
Registry(fr, o) ==
  IsVariable(o) /\ ~ IsImm(o) /\ RegOf(fr, o) # NoReg /\ RegOf(fr, o) \in Registers \ (Scratch \union {"x0"})
Slot(code, fr, m, o) ==
  IsLocal(o) /\ ~ IsImm(o) /\ RegOf(fr, o) = NoReg /\ Near(m, "s0", LocalOffset(fr, o.name))
Symbol(code, fr, m, o) ==
  IsGlobal(o) /\ ~ IsImm(o) /\ ~ IsLocal(o) /\ RegOf(fr, o) = NoReg /\ GlobalAt(code, o.name) \in Word \cap DOMAIN m.mem
HasPlace(code, fr, m, o) == Registry(fr, o) \/ Slot(code, fr, m, o) \/ Symbol(code, fr, m, o)

\* An operand that the machine can get at.
Reachable(code, fr, m, o) == (IsImm(o) /\ o.imm \in Word) \/ HasPlace(code, fr, m, o)

\* A move, or nothing.
LEMMA MoveLines ==
  ASSUME NEW code, NEW m, IsRunning(m), NEW rd \in Registers \ {"x0"}, NEW rs
  PROVE  Yields(code, Move(rd, rs), m, rd, In(m, rs), {rd})
<1>1. CASE rd = rs
  <2>1. Yields(code, << >>, m, rd, m.regs[rd], {rd})
    BY NothingYields
  <2>. QED BY <1>1, <2>1 DEF Move, In
<1>2. CASE rd # rs
  <2>1. Yields(code, << U("mv", rd, rs) >>, m, rd, In(m, rs), {rd})
    BY CopyLine DEF Yields
  <2>. QED BY <1>2, <2>1 DEF Move
<1>. QED BY <1>1, <1>2

\* A load from near s0.
LEMMA SlotLoad ==
  ASSUME NEW code, NEW m, IsRunning(m), NEW r \in Registers \ {"t2", "x0"}, NEW offset, Near(m, "s0", offset)
  PROVE  Yields(code, LoadFromAddress(r, "s0", offset), m, r, m.mem[m.regs["s0"] + offset], {r, "t2"})
<1> DEFINE w == m.regs["s0"] + offset
           first == << Li("t2", offset), R("add", "t2", "s0", "t2") >>
<1>1. "s0" \in Registers /\ "s0" \notin Scratch /\ "s0" # "x0" /\ "t2" \in Registers
  BY ScratchRegisters DEF Registers
<1>2. w \in Word /\ w \in DOMAIN m.mem /\ In(m, "s0") = m.regs["s0"] /\ m.regs["s0"] \in Word
  BY <1>1 DEF Near, In
<1>3. CASE fitsSigned12(offset)
  <2>1. LoadFromAddress(r, "s0", offset) = << Lw(r, "s0", offset) >>
    BY <1>3 DEF LoadFromAddress, Reaching
  <2>2. In(m, "s0") # Undefined
    BY <1>2, UndefinedIsNoValue
  <2>4. Yields(code, << Lw(r, "s0", offset) >>, m, r, m.mem[w], {r})
    BY <1>2, <2>2, LoadLine
  <2>. QED BY <2>1, <2>4, YieldsWider
<1>4. CASE ~ fitsSigned12(offset)
  <2>1. LoadFromAddress(r, "s0", offset) = << Li("t2", offset), R("add", "t2", "s0", "t2"), Lw(r, "t2", 0) >>
    BY <1>4 DEF LoadFromAddress, Reaching
  <2>2. Yields(code, first, m, "t2", w, {"t2"})
    BY <1>1, ScratchRegisters, ReachLines
  <2>3. PICK k : Turns(code, first, m, k, {"t2"}, {}) /\ k.regs["t2"] = w
    BY <2>2 DEF Yields
  <2>4. IsRunning(k) /\ In(k, "t2") = w /\ k.mem[w] = m.mem[w] /\ DOMAIN k.mem = DOMAIN m.mem
    BY <1>2, <2>3 DEF Turns, In
  <2>5. In(k, "t2") # Undefined /\ In(k, "t2") + 0 = w
    BY <1>2, <2>4, UndefinedIsNoValue, WordBounds
  <2>7. Yields(code, << Lw(r, "t2", 0) >>, k, r, m.mem[w], {r})
    <3>1. Yields(code, << Lw(r, "t2", 0) >>, k, r, k.mem[w], {r})
      BY <1>2, <2>4, <2>5, LoadLine
    <3>. QED BY <2>4, <3>1
  <2>8. Yields(code, first \o << Lw(r, "t2", 0) >>, m, r, m.mem[w], {r, "t2"})
    BY <2>3, <2>7, YieldsOn
  <2>9. first \o << Lw(r, "t2", 0) >> = << Li("t2", offset), R("add", "t2", "s0", "t2"), Lw(r, "t2", 0) >>
    <3>1. << Li("t2", offset) >> \o << R("add", "t2", "s0", "t2") >> = first
      BY TwoLines
    <3>2. << Li("t2", offset) >> \o << R("add", "t2", "s0", "t2") >> \o << Lw(r, "t2", 0) >>
            = << Li("t2", offset), R("add", "t2", "s0", "t2"), Lw(r, "t2", 0) >>
      BY ThreeLines
    <3>. QED BY <3>1, <3>2
  <2>. QED BY <2>1, <2>8, <2>9
<1>. QED BY <1>3, <1>4

\* A list of lines, and then a store.
LEMMA LeavesOn ==
  ASSUME NEW code, NEW first, NEW second, NEW m, NEW n, NEW A, NEW E, NEW regs, NEW w, NEW v,
         Turns(code, first, m, n, A, {}), Leaves(code, second, n, w, v, E),
         A \subseteq regs, E \subseteq regs
  PROVE  Leaves(code, first \o second, m, w, v, regs)
<1>1. PICK o : Turns(code, second, n, o, E, {w}) /\ o.mem[w] = v
  BY DEF Leaves
<1>2. Turns(code, first \o second, m, o, regs, {w})
  BY <1>1, TurnsOn
<1>. QED BY <1>1, <1>2 DEF Leaves

\* A store near s0.
LEMMA SlotStore ==
  ASSUME NEW code, NEW m, IsRunning(m), NEW r \in Usable \ {"t2"}, NEW offset, Near(m, "s0", offset)
  PROVE  Leaves(code, StoreToAddress(r, "s0", offset), m, m.regs["s0"] + offset, In(m, r), {"t2"})
<1> DEFINE w == m.regs["s0"] + offset
           first == << Li("t2", offset), R("add", "t2", "s0", "t2") >>
<1>1. "s0" \in Registers /\ "s0" \notin Scratch /\ "s0" # "x0" /\ "t2" \in Registers
  BY ScratchRegisters DEF Registers
<1>2. w \in Word /\ w \in DOMAIN m.mem /\ In(m, "s0") = m.regs["s0"] /\ m.regs["s0"] \in Word
  BY <1>1 DEF Near, In
<1>3. CASE fitsSigned12(offset)
  <2>1. StoreToAddress(r, "s0", offset) = << Sw(r, "s0", offset) >>
    BY <1>3 DEF StoreToAddress, Reaching
  <2>2. In(m, "s0") # Undefined
    BY <1>2, UndefinedIsNoValue
  <2>3. Leaves(code, << Sw(r, "s0", offset) >>, m, w, In(m, r), {})
    BY <1>2, <2>2, StoreLine
  <2>4. PICK n : Turns(code, << Sw(r, "s0", offset) >>, m, n, {}, {w}) /\ n.mem[w] = In(m, r)
    BY <2>3 DEF Leaves
  <2>5. Turns(code, << Sw(r, "s0", offset) >>, m, n, {"t2"}, {w})
    BY <2>4, TurnsWider
  <2>. QED BY <2>1, <2>4, <2>5 DEF Leaves
<1>4. CASE ~ fitsSigned12(offset)
  <2>1. StoreToAddress(r, "s0", offset) = << Li("t2", offset), R("add", "t2", "s0", "t2"), Sw(r, "t2", 0) >>
    BY <1>4 DEF StoreToAddress, Reaching
  <2>2. Yields(code, first, m, "t2", w, {"t2"})
    BY <1>1, ScratchRegisters, ReachLines
  <2>3. PICK k : Turns(code, first, m, k, {"t2"}, {}) /\ k.regs["t2"] = w
    BY <2>2 DEF Yields
  <2>4. IsRunning(k) /\ In(k, "t2") = w /\ In(k, r) = In(m, r)
    BY <2>3, After DEF In
  <2>5. In(k, "t2") # Undefined /\ In(k, "t2") + 0 = w /\ w \in DOMAIN k.mem
    BY <1>2, <2>3, <2>4, UndefinedIsNoValue, WordBounds DEF Turns
  <2>6. Leaves(code, << Sw(r, "t2", 0) >>, k, w, In(m, r), {})
    <3>1. Leaves(code, << Sw(r, "t2", 0) >>, k, w, In(k, r), {})
      BY <2>4, <2>5, StoreLine
    <3>. QED BY <2>4, <3>1
  <2>7. Leaves(code, first \o << Sw(r, "t2", 0) >>, m, w, In(m, r), {"t2"})
    BY <2>3, <2>6, LeavesOn
  <2>8. first \o << Sw(r, "t2", 0) >> = << Li("t2", offset), R("add", "t2", "s0", "t2"), Sw(r, "t2", 0) >>
    <3>1. << Li("t2", offset) >> \o << R("add", "t2", "s0", "t2") >> = first
      BY TwoLines
    <3>2. << Li("t2", offset) >> \o << R("add", "t2", "s0", "t2") >> \o << Sw(r, "t2", 0) >>
            = << Li("t2", offset), R("add", "t2", "s0", "t2"), Sw(r, "t2", 0) >>
      BY ThreeLines
    <3>. QED BY <3>1, <3>2
  <2>. QED BY <2>1, <2>7, <2>8
<1>. QED BY <1>3, <1>4

\* A global by its symbol: its address in t2, and then it.
LEMMA SymbolLines ==
  ASSUME NEW code, NEW m, IsRunning(m), NEW g, GlobalAt(code, g) \in Word \cap DOMAIN m.mem, NEW r \in Usable \ {"t2"}
  PROVE  /\ r \in Registers \ {"x0"} => Yields(code, << La("t2", g), Lw(r, "t2", 0) >>, m, r, m.mem[GlobalAt(code, g)], {r, "t2"})
         /\ Leaves(code, << La("t2", g), Sw(r, "t2", 0) >>, m, GlobalAt(code, g), In(m, r), {"t2"})
<1>1. PICK w \in Word \cap DOMAIN m.mem : w = GlobalAt(code, g)
  OBVIOUS
<1>2. "t2" \in Registers
  BY ScratchRegisters
<1>3. PICK k : Turns(code, << La("t2", g) >>, m, k, {"t2"}, {}) /\ k.regs["t2"] = w
  BY <1>1, <1>2, AddressLine
<1>4. /\ IsRunning(k) /\ In(k, "t2") = w /\ In(k, r) = In(m, r)
      /\ w \in DOMAIN k.mem /\ k.mem[w] = m.mem[w]
  <2>1. IsRunning(k) /\ \A q \in Usable : q \notin {"t2"} => In(k, q) = In(m, q)
    BY <1>3, After
  <2>2. w \in DOMAIN k.mem /\ k.mem[w] = m.mem[w]
    BY <1>3 DEF Turns
  <2>3. In(k, "t2") = w
    BY <1>3 DEF In
  <2>. QED BY <2>1, <2>2, <2>3
<1>5. In(k, "t2") # Undefined /\ In(k, "t2") + 0 = w
  BY <1>4, UndefinedIsNoValue, WordBounds
<1>6. r \in Registers \ {"x0"} => Yields(code, << La("t2", g), Lw(r, "t2", 0) >>, m, r, m.mem[w], {r, "t2"})
  <2>1. SUFFICES ASSUME r \in Registers \ {"x0"}
                 PROVE  Yields(code, << La("t2", g), Lw(r, "t2", 0) >>, m, r, m.mem[w], {r, "t2"})
    OBVIOUS
  <2>2. Yields(code, << Lw(r, "t2", 0) >>, k, r, k.mem[w], {r})
    BY <1>4, <1>5, <2>1, LoadLine
  <2>3. Yields(code, << La("t2", g) >> \o << Lw(r, "t2", 0) >>, m, r, m.mem[w], {r, "t2"})
    BY <1>3, <1>4, <2>2, YieldsOn
  <2>4. << La("t2", g) >> \o << Lw(r, "t2", 0) >> = << La("t2", g), Lw(r, "t2", 0) >>
    BY TwoLines
  <2>. QED BY <2>3, <2>4
<1>7. Leaves(code, << La("t2", g), Sw(r, "t2", 0) >>, m, w, In(m, r), {"t2"})
  <2>1. Leaves(code, << Sw(r, "t2", 0) >>, k, w, In(k, r), {})
    BY <1>4, <1>5, StoreLine
  <2>2. Leaves(code, << La("t2", g) >> \o << Sw(r, "t2", 0) >>, m, w, In(m, r), {"t2"})
    BY <1>3, <1>4, <2>1, LeavesOn
  <2>3. << La("t2", g) >> \o << Sw(r, "t2", 0) >> = << La("t2", g), Sw(r, "t2", 0) >>
    BY TwoLines
  <2>. QED BY <2>2, <2>3
<1>. QED BY <1>1, <1>6, <1>7

\* An operand in a register.
LEMMA LoadLines ==
  ASSUME NEW code, NEW m, IsRunning(m), NEW fr, HoldsConstants(fr, m), NEW o, Reachable(code, fr, m, o),
         NEW r \in Registers \ {"t2", "x0"}
  PROVE  Yields(code, Load(fr, o, r), m, r, Held(code, fr, m, o), {r, "t2"})
<1>1. CASE IsImm(o)
  <2>1. Load(fr, o, r) = LoadImmediate(fr, o.imm, r) /\ Held(code, fr, m, o) = o.imm
    <3>1. RegOf(fr, o) = NoReg /\ ~ IsLocal(o)
      BY <1>1 DEF RegOf, IsImm, IsLocal, IsGlobal
    <3>. QED BY <1>1, <3>1 DEF Load, Held
  <2>2. CASE ConstReg(fr, o.imm) = NoReg
    <3>1. Yields(code, << Li(r, o.imm) >>, m, r, o.imm, {r})
      BY NumberLine DEF Yields
    <3>. QED BY <2>1, <2>2, <3>1, YieldsWider DEF LoadImmediate
  <2>3. CASE ConstReg(fr, o.imm) # NoReg
    <3>1. o.imm \in DOMAIN fr.constants /\ ConstReg(fr, o.imm) = fr.constants[o.imm]
      BY <2>3 DEF ConstReg
    <3>2. In(m, ConstReg(fr, o.imm)) = o.imm
      BY <3>1 DEF HoldsConstants
    <3>3. Yields(code, Move(r, ConstReg(fr, o.imm)), m, r, In(m, ConstReg(fr, o.imm)), {r})
      BY MoveLines
    <3>. QED BY <2>1, <2>3, <3>2, <3>3, YieldsWider DEF LoadImmediate
  <2>. QED BY <2>2, <2>3
<1>2. CASE Registry(fr, o)
  <2>1. Load(fr, o, r) = Move(r, RegOf(fr, o))
    BY <1>2 DEF Load, Registry, IsVariable, IsLocal, IsGlobal, IsImm
  <2>2. Held(code, fr, m, o) = In(m, RegOf(fr, o))
    BY <1>2 DEF Held, Registry, In
  <2>3. Yields(code, Move(r, RegOf(fr, o)), m, r, In(m, RegOf(fr, o)), {r})
    BY MoveLines
  <2>. QED BY <2>1, <2>2, <2>3, YieldsWider
<1>3. CASE Slot(code, fr, m, o)
  <2>1. Load(fr, o, r) = LoadFromAddress(r, "s0", LocalOffset(fr, o.name))
    BY <1>3 DEF Load, Slot
  <2>2. Held(code, fr, m, o) = m.mem[m.regs["s0"] + LocalOffset(fr, o.name)]
    BY <1>3 DEF Held, Slot, Place
  <2>3. Yields(code, LoadFromAddress(r, "s0", LocalOffset(fr, o.name)), m, r,
               m.mem[m.regs["s0"] + LocalOffset(fr, o.name)], {r, "t2"})
    BY <1>3, SlotLoad DEF Slot
  <2>. QED BY <2>1, <2>2, <2>3
<1>4. CASE Symbol(code, fr, m, o)
  <2>1. Load(fr, o, r) = << La("t2", o.name), Lw(r, "t2", 0) >>
    BY <1>4 DEF Load, Symbol
  <2>2. Held(code, fr, m, o) = m.mem[GlobalAt(code, o.name)]
    BY <1>4 DEF Held, Symbol, Place
  <2>3. Yields(code, << La("t2", o.name), Lw(r, "t2", 0) >>, m, r, m.mem[GlobalAt(code, o.name)], {r, "t2"})
    BY <1>4, SymbolLines, ScratchRegisters DEF Symbol
  <2>. QED BY <2>1, <2>2, <2>3
<1>. QED BY <1>1, <1>2, <1>3, <1>4 DEF Reachable, HasPlace

\* What lines that compute into a variable change: its register or its cell,
\* and the registers that they use themselves.
RegisterOf(fr, o) == IF RegOf(fr, o) = NoReg THEN {} ELSE {RegOf(fr, o)}
CellOf(code, fr, m, o) == IF RegOf(fr, o) = NoReg THEN {Place(code, fr, m, o)} ELSE {}

\* The variable o is worth v in the end, and nothing else has changed but regs.
Delivers(code, fr, lines, m, o, v, regs) ==
  \E n : /\ Turns(code, lines, m, n, regs \union RegisterOf(fr, o), CellOf(code, fr, m, o))
         /\ Held(code, fr, n, o) = v

\* A place in memory stays where it is when s0 does.
LEMMA PlaceKept ==
  ASSUME NEW code, NEW lines, NEW m, NEW n, NEW regs, NEW cells, Turns(code, lines, m, n, regs, cells),
         "s0" \notin regs, NEW fr, NEW o
  PROVE  /\ Place(code, fr, n, o) = Place(code, fr, m, o)
         /\ HasPlace(code, fr, m, o) => HasPlace(code, fr, n, o)
         /\ Reachable(code, fr, m, o) => Reachable(code, fr, n, o)
<1>1. "s0" \in Registers
  BY DEF Registers
<1>2. n.regs["s0"] = m.regs["s0"] /\ DOMAIN n.mem = DOMAIN m.mem
  BY <1>1 DEF Turns
<1>3. Place(code, fr, n, o) = Place(code, fr, m, o)
  BY <1>2 DEF Place
<1>4. Slot(code, fr, m, o) => Slot(code, fr, n, o)
  BY <1>2 DEF Slot, Near
<1>5. Symbol(code, fr, m, o) => Symbol(code, fr, n, o)
  BY <1>2 DEF Symbol
<1>6. HasPlace(code, fr, m, o) => HasPlace(code, fr, n, o)
  BY <1>4, <1>5 DEF HasPlace
<1>. QED BY <1>3, <1>6 DEF Reachable

\* What an operand is worth does not change when only registers do in which it
\* is not.
LEMMA HeldKept ==
  ASSUME NEW code, NEW lines, NEW m, NEW n, NEW regs, Turns(code, lines, m, n, regs, {}), "s0" \notin regs,
         NEW fr, NEW o, Reachable(code, fr, m, o), RegOf(fr, o) \notin regs
  PROVE  Held(code, fr, n, o) = Held(code, fr, m, o)
<1>1. Place(code, fr, n, o) = Place(code, fr, m, o)
  BY PlaceKept
<1>2. CASE IsImm(o)
  BY <1>2 DEF Held
<1>3. CASE Registry(fr, o)
  <2>1. RegOf(fr, o) \in Registers \ regs
    BY <1>3 DEF Registry
  <2>2. n.regs[RegOf(fr, o)] = m.regs[RegOf(fr, o)]
    BY <2>1 DEF Turns
  <2>. QED BY <1>3, <2>2 DEF Held, Registry
<1>4. CASE Slot(code, fr, m, o) \/ Symbol(code, fr, m, o)
  <2>1. Place(code, fr, m, o) \in DOMAIN m.mem /\ ~ IsImm(o) /\ RegOf(fr, o) = NoReg
    BY <1>4 DEF Slot, Symbol, Near, Place
  <2>2. n.mem[Place(code, fr, m, o)] = m.mem[Place(code, fr, m, o)]
    BY <2>1 DEF Turns
  <2>. QED BY <1>1, <2>1, <2>2 DEF Held
<1>. QED BY <1>2, <1>3, <1>4 DEF Reachable, HasPlace

\* A register in a variable that has none.
LEMMA StoreLines ==
  ASSUME NEW code, NEW m, IsRunning(m), NEW fr, NEW o, HasPlace(code, fr, m, o), RegOf(fr, o) = NoReg,
         NEW r \in Usable \ {"t2"}
  PROVE  Leaves(code, Store(fr, r, o), m, Place(code, fr, m, o), In(m, r), {"t2"})
<1>1. CASE Slot(code, fr, m, o)
  <2>1. Store(fr, r, o) = StoreToAddress(r, "s0", LocalOffset(fr, o.name))
    BY <1>1 DEF Store, Slot
  <2>2. Place(code, fr, m, o) = m.regs["s0"] + LocalOffset(fr, o.name)
    BY <1>1 DEF Slot, Place
  <2>3. Leaves(code, StoreToAddress(r, "s0", LocalOffset(fr, o.name)), m,
               m.regs["s0"] + LocalOffset(fr, o.name), In(m, r), {"t2"})
    BY <1>1, SlotStore DEF Slot
  <2>. QED BY <2>1, <2>2, <2>3
<1>2. CASE Symbol(code, fr, m, o)
  <2>1. Store(fr, r, o) = << La("t2", o.name), Sw(r, "t2", 0) >>
    BY <1>2 DEF Store, Symbol
  <2>2. Place(code, fr, m, o) = GlobalAt(code, o.name)
    BY <1>2 DEF Symbol, Place
  <2>3. Leaves(code, << La("t2", o.name), Sw(r, "t2", 0) >>, m, GlobalAt(code, o.name), In(m, r), {"t2"})
    BY <1>2, SymbolLines DEF Symbol
  <2>. QED BY <2>1, <2>2, <2>3
<1>. QED BY <1>1, <1>2 DEF HasPlace, Registry

\* What is in the register for the result comes where the result belongs.
LEMMA FinishLines ==
  ASSUME NEW code, NEW m, NEW fr, NEW o, HasPlace(code, fr, m, o), NEW lines, NEW v, NEW regs,
         Yields(code, lines, m, DestReg(fr, o), v, regs \union {DestReg(fr, o)}),
         Scratch \subseteq regs, "s0" \notin regs
  PROVE  Delivers(code, fr, lines \o Finish(fr, o), m, o, v, regs)
<1>1. PICK k : Turns(code, lines, m, k, regs \union {DestReg(fr, o)}, {}) /\ k.regs[DestReg(fr, o)] = v
  BY DEF Yields
<1>2. CASE RegOf(fr, o) = NoReg
  <2>1. DestReg(fr, o) = "t0" /\ Finish(fr, o) = Store(fr, "t0", o) /\ RegisterOf(fr, o) = {}
        /\ CellOf(code, fr, m, o) = {Place(code, fr, m, o)}
    BY <1>2 DEF DestReg, Finish, RegisterOf, CellOf
  <2>2. regs \union {DestReg(fr, o)} = regs /\ {"t2"} \subseteq regs
    BY <2>1, ScratchRegisters
  <2>3. Turns(code, lines, m, k, regs, {}) /\ k.regs["t0"] = v
    BY <1>1, <2>1, <2>2
  <2>4. IsRunning(k) /\ In(k, "t0") = v /\ HasPlace(code, fr, k, o) /\ Place(code, fr, k, o) = Place(code, fr, m, o)
    BY <2>3, After, PlaceKept DEF In
  <2>5. Leaves(code, Store(fr, "t0", o), k, Place(code, fr, m, o), v, {"t2"})
    <3>1. "t0" \in Usable \ {"t2"}
      BY ScratchRegisters
    <3>2. Leaves(code, Store(fr, "t0", o), k, Place(code, fr, k, o), In(k, "t0"), {"t2"})
      BY <1>2, <2>4, <3>1, StoreLines
    <3>. QED BY Zenon, <2>4, <3>2
  <2>6. Leaves(code, lines \o Store(fr, "t0", o), m, Place(code, fr, m, o), v, regs)
    <3>1. regs \subseteq regs
      OBVIOUS
    <3>. QED BY <2>2, <2>3, <2>5, <3>1, LeavesOn
  <2>7. PICK n : Turns(code, lines \o Store(fr, "t0", o), m, n, regs, {Place(code, fr, m, o)}) /\ n.mem[Place(code, fr, m, o)] = v
    BY <2>6 DEF Leaves
  <2>8. Held(code, fr, n, o) = v
    <3>1. Place(code, fr, n, o) = Place(code, fr, m, o)
      BY <2>7, PlaceKept
    <3>. QED BY <1>2, <2>7, <3>1 DEF Held, HasPlace, Registry, Slot, Symbol
  <2>9. regs \union RegisterOf(fr, o) = regs
    BY <2>1
  <2>. QED BY <2>1, <2>7, <2>8, <2>9 DEF Delivers
<1>3. CASE RegOf(fr, o) # NoReg
  <2>1. DestReg(fr, o) = RegOf(fr, o) /\ Finish(fr, o) = << >> /\ RegisterOf(fr, o) = {RegOf(fr, o)}
        /\ CellOf(code, fr, m, o) = {}
    BY <1>3 DEF DestReg, Finish, RegisterOf, CellOf
  <2>2. lines \o << >> = lines
    <3>1. lines \in Seq(Range(lines))
      BY <1>1 DEF Turns, IsList
    <3>. QED BY <3>1
  <2>3. Held(code, fr, k, o) = v
    BY <1>1, <1>3, <2>1 DEF Held, HasPlace, Registry, Slot, Symbol
  <2>. QED BY <1>1, <2>1, <2>2, <2>3 DEF Delivers
<1>. QED BY <1>2, <1>3

-------------------------------------------------------------------------------
(***************************************************************************)
(* Instructions.                                                           *)
(***************************************************************************)
\* The constants are kept where no register of theirs is changed.
ConstantsApart(fr, regs) == \A v \in DOMAIN fr.constants : fr.constants[v] \notin regs

LEMMA ConstantsStay ==
  ASSUME NEW code, NEW lines, NEW m, NEW n, NEW regs, NEW cells, NEW fr,
         Turns(code, lines, m, n, regs, cells), HoldsConstants(fr, m), ConstantsApart(fr, regs)
  PROVE  HoldsConstants(fr, n)
<1>1. \A r \in Usable : r \notin regs => In(n, r) = In(m, r)
  BY After
<1>. QED BY <1>1, ScratchRegisters DEF HoldsConstants, ConstantsApart

\* The register that a constant has.
LEMMA ConstantAt ==
  ASSUME NEW code, NEW fr, NEW m, HoldsConstants(fr, m), NEW o, ConstRegOf(fr, o) # NoReg
  PROVE  /\ IsImm(o) /\ o.imm \in DOMAIN fr.constants /\ ConstRegOf(fr, o) = fr.constants[o.imm]
         /\ ConstRegOf(fr, o) \in Registers \ Scratch /\ In(m, ConstRegOf(fr, o)) = Held(code, fr, m, o)
<1>1. IsImm(o) /\ o.imm \in DOMAIN fr.constants /\ ConstRegOf(fr, o) = fr.constants[o.imm]
  BY DEF ConstRegOf, ConstReg
<1>2. Held(code, fr, m, o) = o.imm
  BY <1>1 DEF Held
<1>. QED BY <1>1, <1>2 DEF HoldsConstants

\* The register that a variable has.
LEMMA VariableAt ==
  ASSUME NEW code, NEW fr, NEW m, NEW o, Reachable(code, fr, m, o), RegOf(fr, o) # NoReg
  PROVE  /\ ~ IsImm(o) /\ IsVariable(o) /\ RegOf(fr, o) \in Registers \ (Scratch \union {"x0"})
         /\ In(m, RegOf(fr, o)) = Held(code, fr, m, o)
<1>1. ~ IsImm(o)
  BY DEF RegOf, IsImm, IsLocal, IsGlobal
<1>2. Registry(fr, o)
  BY <1>1 DEF Reachable, HasPlace, Slot, Symbol
<1>. QED BY <1>2 DEF Registry, Held, In

\* The sources are where the line that computes expects them.
Fetches(code, fr, lines, m, inst, rd) ==
  \E n : /\ Turns(code, lines, m, n, {"t1", "t2", rd}, {})
         /\ LeftReg(fr, inst.src1, rd) \in Usable \ {"t1", "t2"}
         /\ In(n, LeftReg(fr, inst.src1, rd)) = Held(code, fr, m, inst.src1)
         /\ ~ IsSmall(inst.src2) =>
              /\ RightReg(fr, inst.src2, rd) \in Usable \ {"t2", rd}
              /\ In(n, RightReg(fr, inst.src2, rd)) = Held(code, fr, m, inst.src2)
         /\ HoldsConstants(fr, n)

LEMMA LoadSourcesLines ==
  ASSUME NEW code, NEW m, IsRunning(m), NEW fr, HoldsConstants(fr, m), NEW inst,
         Reachable(code, fr, m, inst.src1), Reachable(code, fr, m, inst.src2),
         NEW rd \in Registers \ {"t1", "t2", "x0"}, ConstantsApart(fr, {rd}), rd # "s0"
  PROVE  Fetches(code, fr, LoadSources(fr, inst, rd), m, inst, rd)
<1> DEFINE left == LeftReg(fr, inst.src1, rd)
           right == RightReg(fr, inst.src2, rd)
           first == IF ~ IsSmall(inst.src2) /\ right = "t1" THEN Load(fr, inst.src2, "t1") ELSE << >>
           second == IF left = rd THEN Load(fr, inst.src1, rd) ELSE << >>
           a == Held(code, fr, m, inst.src1)
           b == Held(code, fr, m, inst.src2)
<1>1. /\ "t1" \in Registers \ {"t2", "x0"} /\ rd \in Registers \ {"t2", "x0"} /\ {"t1", "t2"} \subseteq Scratch
      /\ "s0" \notin {"t1", "t2"}
  BY ScratchRegisters
<1>2. /\ right \in Usable \ {"t2", rd}
      /\ right # "t1" => In(m, right) = b
  <2>1. CASE IsVariable(inst.src2) /\ RegOf(fr, inst.src2) \notin {NoReg, rd}
    <3>1. ConstRegOf(fr, inst.src2) = NoReg
      BY <2>1, VariableAt DEF ConstRegOf
    <3>2. right = RegOf(fr, inst.src2)
      BY <2>1, <3>1 DEF RightReg
    <3>. QED BY <2>1, <3>2, VariableAt, ScratchRegisters
  <2>2. CASE ~ (IsVariable(inst.src2) /\ RegOf(fr, inst.src2) \notin {NoReg, rd})
             /\ ConstRegOf(fr, inst.src2) \notin {NoReg, rd}
    <3>1. right = ConstRegOf(fr, inst.src2)
      BY <2>2 DEF RightReg
    <3>. QED BY <2>2, <3>1, ConstantAt, ScratchRegisters
  <2>3. CASE ~ (IsVariable(inst.src2) /\ RegOf(fr, inst.src2) \notin {NoReg, rd})
             /\ ~ (ConstRegOf(fr, inst.src2) \notin {NoReg, rd})
    <3>1. right = "t1"
      BY <2>3 DEF RightReg
    <3>. QED BY <3>1, ScratchRegisters
  <2>. QED BY <2>1, <2>2, <2>3
<1>3. /\ left \in Usable \ {"t1", "t2"}
      /\ left # rd => left \notin Scratch /\ In(m, left) = a
  <2>1. CASE RegOf(fr, inst.src1) # NoReg
    <3>1. ConstRegOf(fr, inst.src1) = NoReg
      BY <2>1, VariableAt DEF ConstRegOf
    <3>2. left = RegOf(fr, inst.src1)
      BY <2>1, <3>1 DEF LeftReg
    <3>. QED BY <2>1, <3>2, VariableAt, ScratchRegisters
  <2>2. CASE RegOf(fr, inst.src1) = NoReg /\ ConstRegOf(fr, inst.src1) # NoReg
    <3>1. left = ConstRegOf(fr, inst.src1)
      BY <2>2 DEF LeftReg
    <3>. QED BY <2>2, <3>1, ConstantAt, ScratchRegisters
  <2>3. CASE RegOf(fr, inst.src1) = NoReg /\ ConstRegOf(fr, inst.src1) = NoReg
    <3>1. left = rd
      BY <2>3 DEF LeftReg
    <3>. QED BY <3>1, ScratchRegisters
  <2>. QED BY <2>1, <2>2, <2>3
<1>. HIDE DEF left, right
<1>4. PICK k1 : Turns(code, first, m, k1, {"t1", "t2"}, {}) /\ (~ IsSmall(inst.src2) => In(k1, right) = b)
  <2>1. CASE ~ IsSmall(inst.src2) /\ right = "t1"
    <3>1. Yields(code, Load(fr, inst.src2, "t1"), m, "t1", b, {"t1", "t2"})
      BY <1>1, LoadLines
    <3>2. PICK k1 : Turns(code, Load(fr, inst.src2, "t1"), m, k1, {"t1", "t2"}, {}) /\ k1.regs["t1"] = b
      BY <3>1 DEF Yields
    <3>3. In(k1, "t1") = b
      BY <3>2 DEF In
    <3>. QED BY <2>1, <3>2, <3>3
  <2>2. CASE ~ (~ IsSmall(inst.src2) /\ right = "t1")
    <3>1. Turns(code, << >>, m, m, {"t1", "t2"}, {})
      BY NothingTurns, TurnsWider
    <3>. QED BY <1>2, <2>2, <3>1
  <2>. QED BY <2>1, <2>2
<1>5. /\ IsRunning(k1) /\ HoldsConstants(fr, k1) /\ Reachable(code, fr, k1, inst.src1)
      /\ Held(code, fr, k1, inst.src1) = a
      /\ left # rd => In(k1, left) = a
  <2>1. IsRunning(k1) /\ \A q \in Usable : q \notin {"t1", "t2"} => In(k1, q) = In(m, q)
    BY <1>4, After
  <2>2. HoldsConstants(fr, k1)
    BY <1>1, <1>4, ConstantsKept
  <2>3. Reachable(code, fr, k1, inst.src1)
    BY <1>1, <1>4, PlaceKept
  <2>4. RegOf(fr, inst.src1) \notin {"t1", "t2"}
    BY <1>1, VariableAt DEF NoReg
  <2>5. Held(code, fr, k1, inst.src1) = a
    BY <1>1, <1>4, <2>4, HeldKept
  <2>. QED BY <1>3, <2>1, <2>2, <2>3, <2>5
<1>. HIDE DEF first
<1>6. PICK k2 : Turns(code, second, k1, k2, {rd, "t2"}, {}) /\ In(k2, left) = a
  <2>1. CASE left = rd
    <3>1. Yields(code, Load(fr, inst.src1, rd), k1, rd, Held(code, fr, k1, inst.src1), {rd, "t2"})
      BY <1>1, <1>5, LoadLines
    <3>2. PICK k2 : Turns(code, Load(fr, inst.src1, rd), k1, k2, {rd, "t2"}, {}) /\ k2.regs[rd] = a
      BY <1>5, <3>1 DEF Yields
    <3>3. In(k2, rd) = a
      BY <3>2 DEF In
    <3>. QED BY <2>1, <3>2, <3>3
  <2>2. CASE left # rd
    <3>1. Turns(code, << >>, k1, k1, {rd, "t2"}, {})
      BY <1>5, NothingTurns, TurnsWider
    <3>. QED BY <1>5, <2>2, <3>1
  <2>. QED BY <2>1, <2>2
<1>7. ~ IsSmall(inst.src2) => In(k2, right) = b
  <2>1. \A q \in Usable : q \notin {rd, "t2"} => In(k2, q) = In(k1, q)
    BY <1>6, After
  <2>. QED BY <1>2, <1>4, <2>1
<1>8. HoldsConstants(fr, k2)
  <2>1. ConstantsApart(fr, {rd, "t2"})
    <3>1. \A v \in DOMAIN fr.constants : fr.constants[v] # rd /\ fr.constants[v] \notin Scratch
      BY DEF ConstantsApart, HoldsConstants
    <3>. QED BY <1>1, <3>1 DEF ConstantsApart
  <2>. QED BY <1>5, <1>6, <2>1, ConstantsStay
<1>. HIDE DEF second
<1>9. Turns(code, first \o second, m, k2, {"t1", "t2", rd}, {})
  BY <1>4, <1>6, TurnsOn
<1>10. LoadSources(fr, inst, rd) = first \o second
  BY DEF LoadSources, first, second, left, right
<1>. HIDE DEF a, b
<1>11. Turns(code, LoadSources(fr, inst, rd), m, k2, {"t1", "t2", rd}, {})
  BY Zenon, <1>9, <1>10
<1>. QED BY Zenon, <1>2, <1>3, <1>6, <1>7, <1>8, <1>11 DEF Fetches, left, right, a, b

\* What the lines of an operation use: t3 too, for a remainder of t0.
Spoiled(inst, rs) == Scratch \union (IF inst.op = "MOD" /\ rs = "t0" THEN {"t3"} ELSE {})

\* Immediates are words, and so is their opposite and their successor.
LEMMA ImmediateIsWord ==
  ASSUME NEW v \in Word, fitsSigned12(v)
  PROVE  /\ v # -ImmHalf => -v \in Word
         /\ v # ImmHalf - 1 => v + 1 \in Word
<1>1. ImmHalf \in Int /\ ImmHalf <= Half
  BY RegistersReach, TruthsAreWords
<1>2. v \in Int /\ -ImmHalf <= v /\ v < ImmHalf
  BY <1>1, WordBounds DEF fitsSigned12
<1>. QED BY <1>1, <1>2, TruthsAreWords DEF Word

\* The lines that compute, once the sources are in registers.
LEMMA ArithmeticLines ==
  ASSUME NEW code, NEW m, IsRunning(m), NEW fr, HoldsConstants(fr, m),
         NEW inst, inst.op \in ArithmeticOps, Translatable(inst),
         NEW rd \in Registers \ {"x0"}, NEW rs \in Usable \ {"t1", "t2"}, NEW a \in Word, In(m, rs) = a,
         NEW b \in Word, Computable(inst.op, b),
         IsImm(inst.src1) => a = inst.src1.imm, IsImm(inst.src2) => b = inst.src2.imm,
         ~ IsSmall(inst.src2) => In(m, RightReg(fr, inst.src2, rd)) = b,
         NEW localNonNegative \in BOOLEAN, localNonNegative => a >= 0,
         (inst.op = "MOD" /\ rs = "t0") => \A v \in DOMAIN fr.constants : fr.constants[v] # "t3"
  PROVE  Yields(code, Arithmetic(fr, inst, rd, rs, localNonNegative), m, rd, Compute(inst.op, a, b),
                Spoiled(inst, rs) \union {rd})
<1> DEFINE imm == inst.src2.imm
           nonNegative == SourceNonNegative(inst.src1, localNonNegative)
           regs == Spoiled(inst, rs) \union {rd}
           v == Compute(inst.op, a, b)
           small == IsSmall(inst.src2)
           large == IsImm(inst.src2) /\ ~ IsSmall(inst.src2)
           rt == RightReg(fr, inst.src2, rd)
<1>1. {rd} \subseteq regs /\ Scratch \union {rd} \subseteq regs /\ regs \subseteq regs
  BY DEF Spoiled
<1>2. nonNegative \in BOOLEAN /\ (nonNegative => a >= 0)
  BY DEF SourceNonNegative
<1>3. small => IsImm(inst.src2) /\ imm = b /\ fitsSigned12(imm)
  BY DEF IsSmall
<1>4. IsImm(inst.src2) /\ inst.op \in {"DIV", "MOD"} => imm \in Word \ {0, 1} /\ imm = b
  BY DEF Translatable, Computable
<1>5. "addi" \in Immediate
  BY DEF Immediate
<1>6. ASSUME small, inst.op = "ADD" PROVE Yields(code, << I("addi", rd, rs, imm) >>, m, rd, v, regs)
  <2>1. Yields(code, << I("addi", rd, rs, imm) >>, m, rd, ALU("addi", a, imm), {rd})
    BY <1>3, <1>5, <1>6, ImmediateWord
  <2>2. ALU("addi", a, imm) = v
    BY <1>3, <1>6, Operations DEF Compute
  <2>. QED BY <1>1, <2>1, <2>2, YieldsWider
<1>7. ASSUME small, inst.op = "SUB" PROVE Yields(code, << I("addi", rd, rs, -imm) >>, m, rd, v, regs)
  <2>1. imm # -ImmHalf
    BY <1>3, <1>7 DEF Translatable
  <2>2. -imm \in Word
    BY <1>3, <1>7, <2>1, ImmediateIsWord
  <2>3. PICK e \in Word : e = -imm
    BY <2>2
  <2>4. Yields(code, << I("addi", rd, rs, e) >>, m, rd, ALU("addi", a, e), {rd})
    BY <1>5, <2>3, ImmediateWord
  <2>5. a + e = a - b
    BY <1>3, <1>7, <2>3, WordBounds
  <2>6. ALU("addi", a, e) = v
    BY <1>7, <2>5, Operations DEF Compute
  <2>. QED BY <1>1, <2>3, <2>4, <2>6, YieldsWider
<1>8. ASSUME small, inst.op = "MUL" PROVE Yields(code, MulByConstant(fr, imm, rd, rs), m, rd, v, regs)
  <2>1. Yields(code, MulByConstant(fr, b, rd, rs), m, rd, Compute("MUL", a, b), Scratch \union {rd})
    BY MulLines
  <2>. QED BY <1>1, <1>3, <1>8, <2>1, YieldsWider
<1>9. ASSUME small, inst.op = "DIV"
      PROVE  Yields(code, DivByConstant(fr, imm, rd, rs, localNonNegative, nonNegative), m, rd, v, regs)
  <2>1. b \in Word \ {0, 1}
    BY <1>3, <1>4, <1>9
  <2>2. Yields(code, DivByConstant(fr, b, rd, rs, localNonNegative, nonNegative), m, rd, Compute("DIV", a, b), Scratch \union {rd})
    BY <1>2, <2>1, DivLines
  <2>. QED BY <1>1, <1>3, <1>9, <2>2, YieldsWider
<1>10. ASSUME small, inst.op = "MOD"
       PROVE  Yields(code, ModByConstant(fr, imm, rd, rs, localNonNegative, nonNegative), m, rd, v, regs)
  <2>1. b \in Word \ {0, 1}
    BY <1>3, <1>4, <1>10
  <2>2. Yields(code, ModByConstant(fr, b, rd, rs, localNonNegative, nonNegative), m, rd, Compute("MOD", a, b),
               Scratch \union {rd} \union (IF rs = "t0" THEN {"t3"} ELSE {}))
    BY <1>2, <1>10, <2>1, ModLines
  <2>3. Scratch \union {rd} \union (IF rs = "t0" THEN {"t3"} ELSE {}) \subseteq regs
    BY <1>10 DEF Spoiled
  <2>. QED BY <1>3, <1>10, <2>2, <2>3, YieldsWider
<1>11. ASSUME large, inst.op = "DIV", MagicFor(imm)
       PROVE  Yields(code, MagicDiv(fr, imm, rs, rd, nonNegative), m, rd, v, regs)
  <2>1. imm = b /\ MagicFor(b)
    BY <1>11
  <2>2. Yields(code, MagicDiv(fr, b, rs, rd, nonNegative), m, rd, Compute("DIV", a, b), Scratch \union {rd})
    BY <1>2, <2>1, MagicDivLines
  <2>. QED BY <1>1, <1>11, <2>1, <2>2, YieldsWider
<1>12. ASSUME large, inst.op = "MOD", MagicFor(imm)
       PROVE  Yields(code, MagicMod(fr, imm, rs, rd, nonNegative), m, rd, v, regs)
  <2>1. imm = b /\ MagicFor(b)
    BY <1>12
  <2>2. Yields(code, MagicMod(fr, b, rs, rd, nonNegative), m, rd, Compute("MOD", a, b),
               Scratch \union {rd} \union (IF rs = "t0" THEN {"t3"} ELSE {}))
    BY <1>2, <1>12, <2>1, MagicModLines
  <2>3. Scratch \union {rd} \union (IF rs = "t0" THEN {"t3"} ELSE {}) \subseteq regs
    BY <1>12 DEF Spoiled
  <2>. QED BY <1>12, <2>1, <2>2, <2>3, YieldsWider
<1>13. ASSUME ~ small PROVE Yields(code, << R(Opcode[inst.op], rd, rs, rt) >>, m, rd, v, regs)
  <2>1. Opcode[inst.op] \in Registered /\ ALU(Opcode[inst.op], a, b) = v
    BY OpcodeComputes
  <2>2. Yields(code, << R(Opcode[inst.op], rd, rs, rt) >>, m, rd, ALU(Opcode[inst.op], a, b), {rd})
    BY <1>13, <2>1, RegisterWord
  <2>. QED BY <1>1, <2>1, <2>2, YieldsWider
<1>14. inst.op \in {"ADD", "SUB", "MUL", "DIV", "MOD"}
  BY DEF ArithmeticOps
<1>. HIDE DEF v, regs
<1>15. Yields(code, Arithmetic(fr, inst, rd, rs, localNonNegative), m, rd, v, regs)
  BY <1>6, <1>7, <1>8, <1>9, <1>10, <1>11, <1>12, <1>13, <1>14 DEF Arithmetic
<1>. QED BY Zenon, <1>15 DEF v, regs

\* The register for the result.
LEMMA DestRegister ==
  ASSUME NEW code, NEW fr, NEW m, NEW o, HasPlace(code, fr, m, o)
  PROVE  /\ DestReg(fr, o) \in Registers \ {"t1", "t2", "x0"}
         /\ RegOf(fr, o) # NoReg => DestReg(fr, o) = RegOf(fr, o) /\ DestReg(fr, o) \notin Scratch
<1>1. CASE RegOf(fr, o) = NoReg
  BY <1>1, ScratchRegisters DEF DestReg
<1>2. CASE RegOf(fr, o) # NoReg
  <2>1. Registry(fr, o)
    BY <1>2 DEF HasPlace, Slot, Symbol
  <2>. QED BY <1>2, <2>1, ScratchRegisters DEF DestReg, Registry
<1>. QED BY <1>1, <1>2

\* A constant minus the variable that the difference goes to.
LEMMA InPlaceLines ==
  ASSUME NEW code, NEW m, IsRunning(m), NEW fr, HoldsConstants(fr, m), NEW c \in Word,
         NEW rd \in Registers \ (Scratch \union {"x0"}), ConstantsApart(fr, {rd}), NEW b \in Word, In(m, rd) = b
  PROVE  /\ c = 0 => Yields(code, << R("sub", rd, "x0", rd) >>, m, rd, Compute("SUB", c, b), Scratch \union {rd})
         /\ Yields(code, Providing(fr, c, "t0") \o << R("sub", rd, Holding(fr, c, "t0"), rd) >>, m, rd,
                   Compute("SUB", c, b), Scratch \union {rd})
<1>1. "sub" \in Registered /\ In(m, "x0") = 0 /\ 0 \in Word
  BY ShiftsAreWords DEF Registered, In
<1>2. ALU("sub", c, b) = Compute("SUB", c, b)
  BY Operations DEF Compute
<1>3. {rd} \subseteq Scratch \union {rd} /\ {"t0"} \subseteq Scratch \union {rd} /\ "t0" \in Scratch
  BY ScratchRegisters
<1>4. ASSUME c = 0 PROVE Yields(code, << R("sub", rd, "x0", rd) >>, m, rd, Compute("SUB", c, b), Scratch \union {rd})
  <2>1. In(m, "x0") = c
    BY <1>1, <1>4
  <2>2. Yields(code, << R("sub", rd, "x0", rd) >>, m, rd, ALU("sub", c, b), {rd})
    BY <1>1, <2>1, RegisterWord
  <2>. QED BY <1>2, <1>3, <2>2, YieldsWider
<1>5. Provides(code, fr, m, c, "t0")
  BY <1>3, ProvidingYields
<1>6. PICK n : /\ Turns(code, Providing(fr, c, "t0"), m, n, {"t0"}, {}) /\ In(n, Holding(fr, c, "t0")) = c
  BY <1>5 DEF Provides
<1>7. IsRunning(n) /\ In(n, rd) = b
  BY <1>3, <1>6, After, ScratchRegisters
<1>8. Yields(code, << R("sub", rd, Holding(fr, c, "t0"), rd) >>, n, rd, Compute("SUB", c, b), {rd})
  <2>1. Yields(code, << R("sub", rd, Holding(fr, c, "t0"), rd) >>, n, rd, ALU("sub", c, b), {rd})
    BY <1>1, <1>6, <1>7, RegisterWord
  <2>. QED BY <1>2, <2>1
<1>9. Yields(code, Providing(fr, c, "t0") \o << R("sub", rd, Holding(fr, c, "t0"), rd) >>, m, rd,
             Compute("SUB", c, b), Scratch \union {rd})
  BY <1>3, <1>6, <1>8, YieldsOn
<1>. QED BY <1>4, <1>9

\* A negation.
LEMMA NotLines ==
  ASSUME NEW code, NEW m, IsRunning(m), NEW fr, HoldsConstants(fr, m), NEW o, Reachable(code, fr, m, o),
         Held(code, fr, m, o) \in Word, NEW rd \in Registers \ {"t1", "t2", "x0"}
  PROVE  Yields(code, Load(fr, o, rd) \o << I("sltiu", rd, rd, 1) >>, m, rd, Truth(Held(code, fr, m, o) = 0),
                Scratch \union {rd})
<1>1. Yields(code, Load(fr, o, rd), m, rd, Held(code, fr, m, o), {rd, "t2"})
  BY LoadLines
<1>2. PICK n : Turns(code, Load(fr, o, rd), m, n, {rd, "t2"}, {}) /\ n.regs[rd] = Held(code, fr, m, o)
  BY <1>1 DEF Yields
<1>3. IsRunning(n) /\ In(n, rd) = Held(code, fr, m, o) /\ "sltiu" \in Immediate /\ 1 \in Word
  BY <1>2, After, ShiftsAreWords DEF In, Immediate
<1>4. Yields(code, << I("sltiu", rd, rd, 1) >>, n, rd, ALU("sltiu", Held(code, fr, m, o), 1), {rd})
  BY <1>3, ImmediateWord
<1>5. ALU("sltiu", Held(code, fr, m, o), 1) = Truth(Held(code, fr, m, o) = 0)
  BY DEF ALU
<1>6. {rd, "t2"} \subseteq Scratch \union {rd} /\ {rd} \subseteq Scratch \union {rd}
  BY ScratchRegisters
<1>. QED BY <1>2, <1>4, <1>5, <1>6, YieldsOn

\* The frame is fit for the instruction: no constant is kept where its result
\* goes, and t3 is spared when a remainder needs it.
Fit(fr, inst) ==
  /\ DestReg(fr, inst.dest) # "s0" /\ ConstantsApart(fr, {DestReg(fr, inst.dest)})
  /\ (inst.op = "MOD" /\ RegOf(fr, inst.src1) = NoReg) => ConstantsApart(fr, {"t3"})

\* The machine runs with that frame, and the dest has a place.
Framed(code, fr, m, inst) ==
  /\ IsRunning(m) /\ HoldsConstants(fr, m) /\ Translatable(inst)
  /\ HasPlace(code, fr, m, inst.dest) /\ Fit(fr, inst)

\* And its sources hold words that it may be applied to.
Ready(code, fr, m, inst) ==
  /\ Framed(code, fr, m, inst)
  /\ Reachable(code, fr, m, inst.src1) /\ Held(code, fr, m, inst.src1) \in Word
  /\ inst.op \in BinaryOps =>
       /\ Reachable(code, fr, m, inst.src2) /\ Held(code, fr, m, inst.src2) \in Word
       /\ Computable(inst.op, Held(code, fr, m, inst.src2))

\* The registers that an instruction uses on its own account.
Clobbered(fr, inst) ==
  Scratch \union (IF inst.op = "MOD" /\ RegOf(fr, inst.src1) = NoReg THEN {"t3"} ELSE {})

\* The lines of an operation, without those that store the result.
LEMMA SourcesLines ==
  ASSUME NEW code, NEW m, NEW fr, NEW inst, inst.op \in ArithmeticOps, Ready(code, fr, m, inst),
         NEW localNonNegative \in BOOLEAN, localNonNegative => Held(code, fr, m, inst.src1) >= 0
  PROVE  LET rd == DestReg(fr, inst.dest)
         IN Yields(code, LoadSources(fr, inst, rd)
                         \o Arithmetic(fr, inst, rd, LeftReg(fr, inst.src1, rd), localNonNegative), m, rd,
                   Compute(inst.op, Held(code, fr, m, inst.src1), Held(code, fr, m, inst.src2)),
                   Clobbered(fr, inst) \union {rd})
<1> DEFINE rd == DestReg(fr, inst.dest)
           rs == LeftReg(fr, inst.src1, rd)
           a == Held(code, fr, m, inst.src1)
           b == Held(code, fr, m, inst.src2)
           first == LoadSources(fr, inst, rd)
           second == Arithmetic(fr, inst, rd, rs, localNonNegative)
           regs == Clobbered(fr, inst) \union {rd}
<1>1. /\ IsRunning(m) /\ HoldsConstants(fr, m) /\ Translatable(inst)
      /\ Reachable(code, fr, m, inst.src1) /\ Reachable(code, fr, m, inst.src2)
      /\ a \in Word /\ b \in Word /\ Computable(inst.op, b)
      /\ rd # "s0" /\ ConstantsApart(fr, {rd})
      /\ (inst.op = "MOD" /\ RegOf(fr, inst.src1) = NoReg) => ConstantsApart(fr, {"t3"})
  BY DEF Ready, Framed, Fit, BinaryOps
<1>2. rd \in Registers \ {"t1", "t2", "x0"}
  BY DestRegister DEF Ready, Framed, Fit
<1>3. Fetches(code, fr, first, m, inst, rd)
  BY <1>1, <1>2, LoadSourcesLines
<1>4. PICK n : /\ Turns(code, first, m, n, {"t1", "t2", rd}, {})
               /\ rs \in Usable \ {"t1", "t2"} /\ In(n, rs) = a
               /\ ~ IsSmall(inst.src2) => In(n, RightReg(fr, inst.src2, rd)) = b
               /\ HoldsConstants(fr, n)
  BY <1>3 DEF Fetches
<1>5. IsRunning(n)
  BY <1>4, After
<1>6. (IsImm(inst.src1) => a = inst.src1.imm) /\ (IsImm(inst.src2) => b = inst.src2.imm)
  BY DEF Held
<1>7. rs = "t0" => RegOf(fr, inst.src1) = NoReg
  <2>1. ASSUME RegOf(fr, inst.src1) # NoReg PROVE rs # "t0"
    <3>1. rs = RegOf(fr, inst.src1) /\ RegOf(fr, inst.src1) \notin Scratch
      <4>1. ~ IsImm(inst.src1) /\ RegOf(fr, inst.src1) \notin Scratch
        BY <1>1, <2>1, VariableAt
      <4>2. LeftReg(fr, inst.src1, rd) = RegOf(fr, inst.src1)
        BY <2>1, <4>1 DEF LeftReg, ConstRegOf
      <4>. QED BY <4>1, <4>2
    <3>. QED BY <3>1, ScratchRegisters
  <2>. QED BY <2>1
<1>8. (inst.op = "MOD" /\ rs = "t0") => \A v \in DOMAIN fr.constants : fr.constants[v] # "t3"
  BY <1>1, <1>7 DEF ConstantsApart
<1>9. /\ {"t1", "t2", rd} \subseteq regs
      /\ Spoiled(inst, rs) \union {rd} \subseteq regs
  BY <1>7, ScratchRegisters DEF Spoiled, Clobbered
<1>. HIDE DEF rd, rs, a, b, first, regs
<1>10. Yields(code, second, n, rd, Compute(inst.op, a, b), Spoiled(inst, rs) \union {rd})
  BY <1>1, <1>2, <1>4, <1>5, <1>6, <1>8, ArithmeticLines DEF a
<1>. HIDE DEF second
<1>11. Yields(code, first \o second, m, rd, Compute(inst.op, a, b), regs)
  BY <1>4, <1>9, <1>10, YieldsOn
<1>. QED BY Zenon, <1>11 DEF rd, rs, a, b, first, second, regs

\* What emitBinaryOp emits leaves the result of the operation in the dest.
LEMMA BinaryLines ==
  ASSUME NEW code, NEW m, NEW fr, NEW inst, inst.op \in ArithmeticOps \union {"NOT"}, Ready(code, fr, m, inst),
         NEW f, NEW i, LocalNonNegative(code, f, i, inst.src1) => Held(code, fr, m, inst.src1) >= 0
  PROVE  Delivers(code, fr, Binary(code, f, fr, inst, i), m, inst.dest,
                  Result(inst.op, Held(code, fr, m, inst.src1), Held(code, fr, m, inst.src2)), Clobbered(fr, inst))
<1> DEFINE rd == DestReg(fr, inst.dest)
           lhs == RegOf(fr, inst.src1)
           rhs == RegOf(fr, inst.src2)
           c == inst.src1.imm
           scratch == Holding(fr, c, IF rd = "t0" THEN "t2" ELSE "t0")
           inPlace == inst.op = "SUB" /\ IsImm(inst.src1) /\ rhs # NoReg /\ rhs = rd
           a == Held(code, fr, m, inst.src1)
           b == Held(code, fr, m, inst.src2)
           v == Result(inst.op, a, b)
           regs == Clobbered(fr, inst)
           finish == Finish(fr, inst.dest)
           nonNegative == LocalNonNegative(code, f, i, inst.src1)
           lines == LoadSources(fr, inst, rd) \o Arithmetic(fr, inst, rd, LeftReg(fr, inst.src1, rd), nonNegative)
<1>1. /\ IsRunning(m) /\ HoldsConstants(fr, m) /\ HasPlace(code, fr, m, inst.dest)
      /\ Reachable(code, fr, m, inst.src1) /\ a \in Word
      /\ ConstantsApart(fr, {rd})
  BY DEF Ready, Framed, Fit
<1>2. rd \in Registers \ {"t1", "t2", "x0"} /\ {rd} \subseteq regs \union {rd}
  BY <1>1, DestRegister
<1>3. Scratch \subseteq regs /\ "s0" \notin regs /\ Scratch \union {rd} \subseteq regs \union {rd}
  BY ScratchRegisters DEF Clobbered
<1>4. inst.op \in ArithmeticOps => /\ Reachable(code, fr, m, inst.src2) /\ b \in Word /\ Computable(inst.op, b)
                                   /\ v = Compute(inst.op, a, b)
  BY <1>1, UndefinedIsNoValue DEF Ready, Framed, Fit, BinaryOps, Result, ArithmeticOps
<1>5. ASSUME NEW some, Yields(code, some, m, rd, v, regs \union {rd})
      PROVE  Delivers(code, fr, some \o finish, m, inst.dest, v, regs)
  BY <1>1, <1>3, <1>5, FinishLines
<1>6. CASE inst.op = "NOT"
  <2>1. Yields(code, Load(fr, inst.src1, rd) \o << I("sltiu", rd, rd, 1) >>, m, rd, Truth(a = 0), Scratch \union {rd})
    BY <1>1, <1>2, NotLines
  <2>2. v = Truth(a = 0)
    BY <1>1, <1>6, UndefinedIsNoValue DEF Result
  <2>. HIDE DEF v, regs, rd, finish, a
  <2>3. Yields(code, Load(fr, inst.src1, rd) \o << I("sltiu", rd, rd, 1) >>, m, rd, v, regs \union {rd})
    BY <1>3, <2>1, <2>2, YieldsWider
  <2>4. Binary(code, f, fr, inst, i) = Load(fr, inst.src1, rd) \o << I("sltiu", rd, rd, 1) >> \o finish
    BY <1>6 DEF Binary, rd, finish
  <2>5. Delivers(code, fr, Binary(code, f, fr, inst, i), m, inst.dest, v, regs)
    BY <1>5, <2>3, <2>4
  <2>. QED BY Zenon, <2>5 DEF v, regs, a
<1>7. CASE inPlace
  <2>1. inst.op = "SUB" /\ inst.op \in ArithmeticOps /\ a = c /\ c \in Word
    BY <1>1, <1>7 DEF ArithmeticOps, Held
  <2>2. rd \in Registers \ (Scratch \union {"x0"}) /\ rhs = rd /\ In(m, rd) = b /\ b \in Word
    BY <1>4, <1>7, <2>1, VariableAt
  <2>3. rd # "t0" /\ scratch = Holding(fr, c, "t0")
    BY <2>2, ScratchRegisters
  <2>4. /\ c = 0 => Yields(code, << R("sub", rd, "x0", rd) >>, m, rd, Compute("SUB", c, b), Scratch \union {rd})
        /\ Yields(code, Providing(fr, c, "t0") \o << R("sub", rd, Holding(fr, c, "t0"), rd) >>, m, rd,
                  Compute("SUB", c, b), Scratch \union {rd})
    BY <1>1, <2>1, <2>2, InPlaceLines
  <2>5. v = Compute("SUB", c, b)
    BY <1>4, <2>1
  <2>6. Providing(fr, c, scratch) = Providing(fr, c, "t0")
    BY <2>3 DEF Providing, Holding
  <2>7. lhs = NoReg
    BY <1>7 DEF RegOf, IsImm, IsLocal, IsGlobal
  <2>8. CASE c = 0
    <3>1. Yields(code, << R("sub", rd, "x0", rhs) >>, m, rd, v, regs \union {rd})
      BY <1>3, <2>2, <2>4, <2>5, <2>8, YieldsWider
    <3>2. Binary(code, f, fr, inst, i) = << R("sub", rd, "x0", rhs) >> \o finish
      BY <1>7, <2>1, <2>8, <2>7 DEF Binary
    <3>3. Delivers(code, fr, Binary(code, f, fr, inst, i), m, inst.dest, v, regs)
      BY <1>5, <3>1, <3>2
    <3>. QED BY Zenon, <3>3
  <2>9. CASE c # 0
    <3>1. Yields(code, Providing(fr, c, scratch) \o << R("sub", rd, scratch, rhs) >>, m, rd, v, regs \union {rd})
      BY <1>3, <2>2, <2>3, <2>4, <2>5, <2>6, YieldsWider
    <3>2. Binary(code, f, fr, inst, i) = Providing(fr, c, scratch) \o << R("sub", rd, scratch, rhs) >> \o finish
      BY <1>7, <2>1, <2>9, <2>7 DEF Binary
    <3>3. Delivers(code, fr, Binary(code, f, fr, inst, i), m, inst.dest, v, regs)
      BY <1>5, <3>1, <3>2
    <3>. QED BY Zenon, <3>3
  <2>. QED BY <2>8, <2>9
<1>8. CASE inst.op # "NOT" /\ ~ inPlace /\ lhs # NoReg /\ rhs # NoReg
  <2>1. In(m, lhs) = a /\ In(m, rhs) = b
    BY <1>1, <1>4, <1>8, VariableAt
  <2>2. Opcode[inst.op] \in Registered /\ ALU(Opcode[inst.op], a, b) = v
    BY <1>1, <1>4, <1>8, OpcodeComputes
  <2>3. Yields(code, << R(Opcode[inst.op], rd, lhs, rhs) >>, m, rd, ALU(Opcode[inst.op], a, b), {rd})
    BY <1>1, <1>2, <1>4, <1>8, <2>1, <2>2, RegisterWord
  <2>4. Yields(code, << R(Opcode[inst.op], rd, lhs, rhs) >>, m, rd, v, regs \union {rd})
    BY <1>2, <2>2, <2>3, YieldsWider
  <2>5. Binary(code, f, fr, inst, i) = << R(Opcode[inst.op], rd, lhs, rhs) >> \o finish
    BY <1>8 DEF Binary
  <2>6. Delivers(code, fr, Binary(code, f, fr, inst, i), m, inst.dest, v, regs)
    BY <1>5, <2>4, <2>5
  <2>. QED BY Zenon, <2>6
<1>9. CASE inst.op # "NOT" /\ ~ inPlace /\ ~ (lhs # NoReg /\ rhs # NoReg)
  <2>1. nonNegative \in BOOLEAN
    BY DEF LocalNonNegative, IsLocal
  <2>2. Yields(code, lines, m, rd, Compute(inst.op, a, b), regs \union {rd})
    BY <1>9, <2>1, SourcesLines
  <2>3. Binary(code, f, fr, inst, i) = lines \o finish
    BY <1>9 DEF Binary
  <2>4. Delivers(code, fr, Binary(code, f, fr, inst, i), m, inst.dest, v, regs)
    BY <1>4, <1>5, <1>9, <2>2, <2>3
  <2>. QED BY Zenon, <2>4
<1>. QED BY <1>6, <1>7, <1>8, <1>9

-------------------------------------------------------------------------------
\* Comparisons.  The opposite of a truth.
LEMMA NegatedLines ==
  ASSUME NEW code, NEW m, NEW rd \in Registers \ {"x0"}, NEW first, NEW p \in BOOLEAN,
         Yields(code, first, m, rd, Truth(p), {rd})
  PROVE  Yields(code, first \o << I("xori", rd, rd, 1) >>, m, rd, Truth(~ p), {rd})
<1>1. PICK n : Turns(code, first, m, n, {rd}, {}) /\ n.regs[rd] = Truth(p)
  BY DEF Yields
<1>2. Truth(p) \in {0, 1} /\ {0, 1} \subseteq Word /\ 1 \in Word
  BY ShiftsAreWords DEF Truth
<1>3. IsRunning(n) /\ In(n, rd) = Truth(p) /\ "xori" \in Immediate
  BY <1>1, After DEF In, Immediate
<1>4. Yields(code, << I("xori", rd, rd, 1) >>, n, rd, ALU("xori", Truth(p), 1), {rd})
  BY <1>2, <1>3, ImmediateWord
<1>5. ALU("xori", Truth(p), 1) = Truth(~ p)
  <2>1. ALU("xori", Truth(p), 1) = IF Truth(p) % 2 = 0 THEN Truth(p) + 1 ELSE Truth(p) - 1
    BY DEF ALU
  <2>2. 0 % 2 = 0 /\ 1 % 2 = 1
    OBVIOUS
  <2>. QED BY <2>1, <2>2 DEF Truth
<1>6. {rd} \subseteq {rd}
  OBVIOUS
<1>. QED BY <1>1, <1>4, <1>5, <1>6, YieldsOn

\* A difference that is zero, or is not.
LEMMA DifferenceLines ==
  ASSUME NEW code, NEW m, IsRunning(m), NEW rd \in Registers \ {"x0"}, NEW rs, NEW rt,
         NEW a \in Word, NEW b \in Word, In(m, rs) = a, In(m, rt) = b
  PROVE  /\ Yields(code, << R("sub", rd, rs, rt), U("seqz", rd, rd) >>, m, rd, Truth(a = b), {rd})
         /\ Yields(code, << R("sub", rd, rs, rt), U("snez", rd, rd) >>, m, rd, Truth(a # b), {rd})
<1> DEFINE d == Wrap(a - b)
<1>1. {"sub", "seqz", "snez"} \subseteq Registered /\ 0 \in Word /\ {rd} \subseteq {rd}
  BY ShiftsAreWords DEF Registered
<1>2. d \in Word /\ (d = 0 <=> a = b)
  <2>1. a \in Int /\ b \in Int /\ a - b \in Int /\ -Half <= a /\ a < Half /\ -Half <= b /\ b < Half /\ Half \in Nat /\ Half >= 2
    BY WordBounds
  <2>2. PICK y \in Int : y = a - b
    BY <2>1
  <2>3. d \in Word
    BY <2>1, WrapIsWord
  <2>4. y + Half \in 1..(3 * Half - 1) \/ y + Half \in (1 - Half)..0
    BY <2>1, <2>2
  <2>5. PICK q \in Int : y + Half = q * (2 * Half) + ((y + Half) % (2 * Half))
    <3>1. PICK x \in Int, h \in Nat : x = y + Half /\ h = 2 * Half /\ h > 0
      BY <2>1
    <3>2. x \div h \in Int /\ x = (x \div h) * h + (x % h)
      BY <3>1
    <3>. QED BY <3>1, <3>2
  <2>6. ASSUME d = 0 PROVE a = b
    <3>1. (y + Half) % (2 * Half) = Half
      BY <2>1, <2>2, <2>6 DEF Wrap
    <3>2. y = q * (2 * Half)
      BY <2>1, <2>5, <3>1
    <3>3. PICK h \in Nat : h = 2 * Half /\ h > 0 /\ -h < y /\ y < h
      BY <2>1, <2>2
    <3>4. q = 0
      <4>1. ~ (q >= 1)
        <5>1. q >= 1 => q * h >= h
          BY <3>3
        <5>. QED BY <3>2, <3>3, <5>1
      <4>2. ~ (q <= -1)
        <5>1. q <= -1 => q * h <= -h
          BY <3>3
        <5>. QED BY <3>2, <3>3, <5>1
      <4>. QED BY <4>1, <4>2
    <3>5. y = 0
      BY <2>1, <3>2, <3>4
    <3>. QED BY <2>1, <2>2, <3>5
  <2>7. ASSUME a = b PROVE d = 0
    <3>1. y = 0
      BY <2>1, <2>2, <2>7
    <3>2. y \in Word
      BY <3>1, ShiftsAreWords
    <3>. QED BY <2>2, <3>1, <3>2, WrapOfWord
  <2>. QED BY <2>3, <2>6, <2>7
<1>3. Yields(code, << R("sub", rd, rs, rt) >>, m, rd, ALU("sub", a, b), {rd})
  BY <1>1, RegisterWord
<1>4. ALU("sub", a, b) = d
  BY Operations
<1>. HIDE DEF d
<1>5. PICK n : Turns(code, << R("sub", rd, rs, rt) >>, m, n, {rd}, {}) /\ n.regs[rd] = d
  BY <1>3, <1>4 DEF Yields
<1>6. IsRunning(n) /\ In(n, rd) = d /\ In(n, "x0") = 0
  BY <1>5, After DEF In
<1>7. ASSUME NEW op \in {"seqz", "snez"}
      PROVE  Yields(code, << R("sub", rd, rs, rt), U(op, rd, rd) >>, m, rd, ALU(op, d, 0), {rd})
  <2>1. Yields(code, << R(op, rd, rd, "x0") >>, n, rd, ALU(op, d, 0), {rd})
    BY <1>1, <1>2, <1>6, RegisterWord
  <2>2. Yields(code, << R("sub", rd, rs, rt) >> \o << U(op, rd, rd) >>, m, rd, ALU(op, d, 0), {rd})
    BY <1>1, <1>5, <2>1, YieldsOn DEF U
  <2>3. << R("sub", rd, rs, rt) >> \o << U(op, rd, rd) >> = << R("sub", rd, rs, rt), U(op, rd, rd) >>
    BY Zenon, TwoLines
  <2>. QED BY <2>2, <2>3
<1>8. ALU("seqz", d, 0) = Truth(a = b) /\ ALU("snez", d, 0) = Truth(a # b)
  BY <1>2 DEF ALU, Truth
<1>. QED BY <1>7, <1>8

\* The lines that compare, once the sources are in registers.
LEMMA ComparisonLines ==
  ASSUME NEW code, NEW m, IsRunning(m), NEW rd \in Registers \ {"x0"}, NEW rs, NEW rt,
         NEW a \in Word, NEW b \in Word, In(m, rs) = a
  PROVE  LET Negated == << I("xori", rd, rd, 1) >>
         IN /\ Yields(code, << I("slti", rd, rs, b) >>, m, rd, Truth(a < b), {rd})
            /\ Yields(code, << I("slti", rd, rs, b) >> \o Negated, m, rd, Truth(a >= b), {rd})
            /\ b + 1 \in Word => Yields(code, << I("slti", rd, rs, b + 1) >>, m, rd, Truth(a <= b), {rd})
            /\ In(m, rt) = b =>
                 /\ Yields(code, << R("slt", rd, rs, rt) >>, m, rd, Truth(a < b), {rd})
                 /\ Yields(code, << R("slt", rd, rt, rs) >>, m, rd, Truth(a > b), {rd})
                 /\ Yields(code, << R("slt", rd, rt, rs) >> \o Negated, m, rd, Truth(a <= b), {rd})
                 /\ Yields(code, << R("slt", rd, rs, rt) >> \o Negated, m, rd, Truth(a >= b), {rd})
                 /\ Yields(code, << R("sub", rd, rs, rt), U("seqz", rd, rd) >>, m, rd, Truth(a = b), {rd})
                 /\ Yields(code, << R("sub", rd, rs, rt), U("snez", rd, rd) >>, m, rd, Truth(a # b), {rd})
<1> DEFINE Negated == << I("xori", rd, rd, 1) >>
<1>1. "slti" \in Immediate /\ "slt" \in Registered /\ a \in Int /\ b \in Int
  BY WordBounds DEF Immediate, Registered
<1>2. (a < b) \in BOOLEAN /\ (b < a) \in BOOLEAN
  BY <1>1
<1>3. (~ (a < b)) = (a >= b) /\ (~ (b < a)) = (a <= b) /\ (b < a) = (a > b) /\ (a < b + 1) = (a <= b)
  BY <1>1
<1>4. \A c : ALU("slti", a, c) = Truth(a < c)
  BY DEF ALU
<1>5. Yields(code, << I("slti", rd, rs, b) >>, m, rd, Truth(a < b), {rd})
  <2>1. Yields(code, << I("slti", rd, rs, b) >>, m, rd, ALU("slti", a, b), {rd})
    BY <1>1, ImmediateWord
  <2>. QED BY <1>4, <2>1
<1>6. Yields(code, << I("slti", rd, rs, b) >> \o Negated, m, rd, Truth(a >= b), {rd})
  <2>1. Yields(code, << I("slti", rd, rs, b) >> \o Negated, m, rd, Truth(~ (a < b)), {rd})
    BY <1>2, <1>5, NegatedLines
  <2>. QED BY <1>3, <2>1
<1>7. ASSUME b + 1 \in Word PROVE Yields(code, << I("slti", rd, rs, b + 1) >>, m, rd, Truth(a <= b), {rd})
  <2>1. PICK c \in Word : c = b + 1
    BY <1>7
  <2>2. Yields(code, << I("slti", rd, rs, c) >>, m, rd, ALU("slti", a, c), {rd})
    BY <1>1, ImmediateWord
  <2>. QED BY <1>3, <1>4, <2>1, <2>2
<1>8. ASSUME In(m, rt) = b
      PROVE  /\ Yields(code, << R("slt", rd, rs, rt) >>, m, rd, Truth(a < b), {rd})
             /\ Yields(code, << R("slt", rd, rt, rs) >>, m, rd, Truth(b < a), {rd})
  <2>1. Yields(code, << R("slt", rd, rs, rt) >>, m, rd, ALU("slt", a, b), {rd})
    BY <1>1, <1>8, RegisterWord
  <2>2. Yields(code, << R("slt", rd, rt, rs) >>, m, rd, ALU("slt", b, a), {rd})
    BY <1>1, <1>8, RegisterWord
  <2>3. ALU("slt", a, b) = Truth(a < b) /\ ALU("slt", b, a) = Truth(b < a)
    BY DEF ALU
  <2>. QED BY <2>1, <2>2, <2>3
<1>9. ASSUME In(m, rt) = b
      PROVE  /\ Yields(code, << R("slt", rd, rt, rs) >> \o Negated, m, rd, Truth(a <= b), {rd})
             /\ Yields(code, << R("slt", rd, rs, rt) >> \o Negated, m, rd, Truth(a >= b), {rd})
  <2>1. Yields(code, << R("slt", rd, rt, rs) >> \o Negated, m, rd, Truth(~ (b < a)), {rd})
    BY <1>2, <1>8, <1>9, NegatedLines
  <2>2. Yields(code, << R("slt", rd, rs, rt) >> \o Negated, m, rd, Truth(~ (a < b)), {rd})
    BY <1>2, <1>8, <1>9, NegatedLines
  <2>. QED BY <1>3, <2>1, <2>2
<1>10. Truth(b < a) = Truth(a > b)
  BY <1>3
<1>. QED BY <1>5, <1>6, <1>7, <1>8, <1>9, <1>10, DifferenceLines

\* What emitCompareInto emits leaves the truth in rd.
LEMMA CompareIntoLines ==
  ASSUME NEW code, NEW m, NEW fr, NEW inst, inst.op \in RelationOps, Ready(code, fr, m, inst)
  PROVE  LET rd == DestReg(fr, inst.dest)
         IN Yields(code, CompareInto(fr, inst, rd), m, rd,
                   Compute(inst.op, Held(code, fr, m, inst.src1), Held(code, fr, m, inst.src2)),
                   Scratch \union {rd})
<1> DEFINE rd == DestReg(fr, inst.dest)
           rs == LeftReg(fr, inst.src1, rd)
           imm == inst.src2.imm
           small == IsSmall(inst.src2)
           given == inst.op \in {"GT", "EQ", "NE"}
           rt == IF small THEN Holding(fr, imm, "t1") ELSE RightReg(fr, inst.src2, rd)
           a == Held(code, fr, m, inst.src1)
           b == Held(code, fr, m, inst.src2)
           first == LoadSources(fr, inst, rd)
           second == IF small /\ given THEN Providing(fr, imm, "t1") ELSE << >>
           Negated == << I("xori", rd, rd, 1) >>
           third == CASE inst.op = "LT" /\ small -> << I("slti", rd, rs, imm) >>
                      [] inst.op = "LE" /\ small -> << I("slti", rd, rs, imm + 1) >>
                      [] inst.op = "GE" /\ small -> << I("slti", rd, rs, imm) >> \o Negated
                      [] inst.op = "LT" /\ ~ small -> << R("slt", rd, rs, rt) >>
                      [] inst.op = "LE" /\ ~ small -> << R("slt", rd, rt, rs) >> \o Negated
                      [] inst.op = "GE" /\ ~ small -> << R("slt", rd, rs, rt) >> \o Negated
                      [] inst.op = "GT" -> << R("slt", rd, rt, rs) >>
                      [] inst.op = "EQ" -> << R("sub", rd, rs, rt), U("seqz", rd, rd) >>
                      [] OTHER          -> << R("sub", rd, rs, rt), U("snez", rd, rd) >>
           v == Compute(inst.op, a, b)
<1>1. /\ IsRunning(m) /\ HoldsConstants(fr, m) /\ Translatable(inst)
      /\ Reachable(code, fr, m, inst.src1) /\ Reachable(code, fr, m, inst.src2)
      /\ a \in Word /\ b \in Word
      /\ rd # "s0" /\ ConstantsApart(fr, {rd})
  BY DEF Ready, Framed, Fit, BinaryOps
<1>2. rd \in Registers \ {"t1", "t2", "x0"}
  BY DestRegister DEF Ready, Framed, Fit
<1>3. Fetches(code, fr, first, m, inst, rd)
  BY <1>1, <1>2, LoadSourcesLines
<1>4. PICK n : /\ Turns(code, first, m, n, {"t1", "t2", rd}, {})
               /\ rs \in Usable \ {"t1", "t2"} /\ In(n, rs) = a
               /\ ~ small => In(n, RightReg(fr, inst.src2, rd)) = b
               /\ HoldsConstants(fr, n)
  BY <1>3 DEF Fetches
<1>5. IsRunning(n)
  BY <1>4, After
<1>6. small => imm = b /\ (inst.op = "LE" => b + 1 \in Word)
  <2>1. SUFFICES ASSUME small PROVE imm = b /\ (inst.op = "LE" => b + 1 \in Word)
    OBVIOUS
  <2>2. IsImm(inst.src2) /\ fitsSigned12(imm)
    BY <2>1 DEF IsSmall
  <2>3. imm = b
    BY <2>2 DEF Held
  <2>4. inst.op = "LE" => b # ImmHalf - 1
    BY <1>1, <2>2, <2>3 DEF Translatable
  <2>. QED BY <1>1, <2>2, <2>3, <2>4, ImmediateIsWord
<1>7. {"t1"} \subseteq Scratch /\ "t1" \in Scratch
  BY ScratchRegisters
<1>. HIDE DEF first, third
<1>8. PICK k : /\ Turns(code, second, n, k, {"t1"}, {})
               /\ (small => given) => In(k, rt) = b
  <2>1. CASE small /\ given
    <3>1. Provides(code, fr, n, b, "t1")
      BY <1>1, <1>4, <1>5, <1>7, ProvidingYields
    <3>2. PICK k : Turns(code, Providing(fr, b, "t1"), n, k, {"t1"}, {}) /\ In(k, Holding(fr, b, "t1")) = b
      BY <3>1 DEF Provides
    <3>3. second = Providing(fr, b, "t1") /\ rt = Holding(fr, b, "t1")
      BY <1>6, <2>1
    <3>. QED BY <3>2, <3>3
  <2>2. CASE ~ (small /\ given)
    <3>1. Turns(code, << >>, n, n, {"t1"}, {})
      BY <1>5, NothingTurns, TurnsWider
    <3>2. second = << >>
      BY <2>2
    <3>3. (small => given) => In(n, rt) = b
      BY <1>4, <2>2
    <3>. QED BY <3>1, <3>2, <3>3
  <2>. QED BY <2>1, <2>2
<1>9. IsRunning(k) /\ In(k, rs) = a
  <2>1. IsRunning(k) /\ \A q \in Usable : q \notin {"t1"} => In(k, q) = In(n, q)
    BY <1>8, After
  <2>. QED BY <1>4, <2>1
<1>10. /\ small => /\ Yields(code, << I("slti", rd, rs, imm) >>, k, rd, Truth(a < b), {rd})
                   /\ Yields(code, << I("slti", rd, rs, imm) >> \o Negated, k, rd, Truth(a >= b), {rd})
                   /\ inst.op = "LE" => Yields(code, << I("slti", rd, rs, imm + 1) >>, k, rd, Truth(a <= b), {rd})
       /\ (small => given) =>
                   /\ Yields(code, << R("slt", rd, rs, rt) >>, k, rd, Truth(a < b), {rd})
                   /\ Yields(code, << R("slt", rd, rt, rs) >>, k, rd, Truth(a > b), {rd})
                   /\ Yields(code, << R("slt", rd, rt, rs) >> \o Negated, k, rd, Truth(a <= b), {rd})
                   /\ Yields(code, << R("slt", rd, rs, rt) >> \o Negated, k, rd, Truth(a >= b), {rd})
                   /\ Yields(code, << R("sub", rd, rs, rt), U("seqz", rd, rd) >>, k, rd, Truth(a = b), {rd})
                   /\ Yields(code, << R("sub", rd, rs, rt), U("snez", rd, rd) >>, k, rd, Truth(a # b), {rd})
  <2>. HIDE DEF rs, rt, rd, a, b
  <2>1. /\ Yields(code, << I("slti", rd, rs, b) >>, k, rd, Truth(a < b), {rd})
        /\ Yields(code, << I("slti", rd, rs, b) >> \o Negated, k, rd, Truth(a >= b), {rd})
        /\ b + 1 \in Word => Yields(code, << I("slti", rd, rs, b + 1) >>, k, rd, Truth(a <= b), {rd})
        /\ In(k, rt) = b =>
             /\ Yields(code, << R("slt", rd, rs, rt) >>, k, rd, Truth(a < b), {rd})
             /\ Yields(code, << R("slt", rd, rt, rs) >>, k, rd, Truth(a > b), {rd})
             /\ Yields(code, << R("slt", rd, rt, rs) >> \o Negated, k, rd, Truth(a <= b), {rd})
             /\ Yields(code, << R("slt", rd, rs, rt) >> \o Negated, k, rd, Truth(a >= b), {rd})
             /\ Yields(code, << R("sub", rd, rs, rt), U("seqz", rd, rd) >>, k, rd, Truth(a = b), {rd})
             /\ Yields(code, << R("sub", rd, rs, rt), U("snez", rd, rd) >>, k, rd, Truth(a # b), {rd})
    BY <1>1, <1>2, <1>9, ComparisonLines
  <2>. QED BY <1>6, <1>8, <2>1
<1>11. /\ inst.op = "LT" => v = Truth(a < b)
       /\ inst.op = "GT" => v = Truth(a > b)
       /\ inst.op = "LE" => v = Truth(a <= b)
       /\ inst.op = "GE" => v = Truth(a >= b)
       /\ inst.op = "EQ" => v = Truth(a = b)
       /\ inst.op = "NE" => v = Truth(a # b)
  BY DEF Compute
<1>12. inst.op \in {"LT", "GT", "LE", "GE", "EQ", "NE"}
  BY DEF RelationOps
<1>. HIDE DEF v, Negated, a, b
<1>13. Yields(code, third, k, rd, v, {rd})
  BY <1>10, <1>11, <1>12 DEF third
<1>14. first \o second \o third = CompareInto(fr, inst, rd)
  BY DEF CompareInto, first, second, third, Negated
<1>15. /\ {"t1", "t2", rd} \subseteq Scratch \union {rd} /\ {"t1"} \subseteq Scratch \union {rd}
       /\ {rd} \subseteq Scratch \union {rd} /\ Scratch \union {rd} \subseteq Scratch \union {rd}
  BY ScratchRegisters
<1>. HIDE DEF second, rd
<1>16. Turns(code, first \o second, m, k, Scratch \union {rd}, {})
  BY <1>4, <1>8, <1>15, TurnsOn
<1>17. Yields(code, (first \o second) \o third, m, rd, v, Scratch \union {rd})
  BY <1>13, <1>15, <1>16, YieldsOn
<1>18. Yields(code, CompareInto(fr, inst, rd), m, rd, v, Scratch \union {rd})
  BY Zenon, <1>14, <1>17
<1>. QED BY Zenon, <1>18 DEF v, a, b, rd

-------------------------------------------------------------------------------
(***************************************************************************)
(* The instruction as a whole.                                             *)
(***************************************************************************)
\* The instruction computes its dest from its sources, and what it computes.
Computes(inst) ==
  \/ inst.op \in CombinableOps \union {"ASSIGN"}
  \/ inst.op = "LOCAL_VAR_DECL" /\ ~ Declares(inst) /\ ~ IsParamDecl(inst)
Computed(inst, a, b) == IF inst.op \in CombinableOps THEN Result(inst.op, a, b) ELSE a

\* What is known of the sign of the first source is so.
SignKnown(code, f, i, a) == LocalNonNegative(code, f, i, code[i].src1) => a >= 0

\* The lines of an instruction that computes (generateInstruction) leave what
\* it computes in the register or the cell of its dest, whatever registers the
\* frame gives to variables and constants and whichever constants the
\* instruction has; they fault nowhere, and change nothing else but scratch
\* registers.
THEOREM InstructionExact ==
  ASSUME NEW code, NEW m, NEW fr, NEW f, NEW i, Computes(code[i]), Ready(code, fr, m, code[i]),
         SignKnown(code, f, i, Held(code, fr, m, code[i].src1))
  PROVE  Delivers(code, fr, Single(code, f, fr, code[i], i), m, code[i].dest,
                  Computed(code[i], Held(code, fr, m, code[i].src1), Held(code, fr, m, code[i].src2)),
                  Clobbered(fr, code[i]))
<1> DEFINE inst == code[i]
           rd == DestReg(fr, inst.dest)
           a == Held(code, fr, m, inst.src1)
           b == Held(code, fr, m, inst.src2)
           v == Computed(inst, a, b)
           regs == Clobbered(fr, inst)
<1>1. /\ IsRunning(m) /\ HoldsConstants(fr, m) /\ HasPlace(code, fr, m, inst.dest)
      /\ Reachable(code, fr, m, inst.src1) /\ a \in Word
  BY DEF Ready, Framed, Fit
<1>2. rd \in Registers \ {"t1", "t2", "x0"}
  BY <1>1, DestRegister
<1>3. Scratch \subseteq regs /\ "s0" \notin regs /\ Scratch \union {rd} \subseteq regs \union {rd}
  BY ScratchRegisters DEF Clobbered
<1>4. ASSUME NEW some, Yields(code, some, m, rd, v, regs \union {rd})
      PROVE  Delivers(code, fr, some \o Finish(fr, inst.dest), m, inst.dest, v, regs)
  BY <1>1, <1>3, <1>4, FinishLines
<1>5. CASE inst.op \in ArithmeticOps \union {"NOT"}
  <2>1. Single(code, f, fr, inst, i) = Binary(code, f, fr, inst, i)
    BY <1>5 DEF Single, IsParamDecl, Declares, ArithmeticOps, RelationOps
  <2>2. Delivers(code, fr, Binary(code, f, fr, inst, i), m, inst.dest, Result(inst.op, a, b), regs)
    BY <1>5, BinaryLines DEF SignKnown
  <2>3. v = Result(inst.op, a, b)
    BY <1>5 DEF Computed, CombinableOps, BinaryOps
  <2>. QED BY <2>1, <2>2, <2>3
<1>6. CASE inst.op \in RelationOps
  <2>1. Single(code, f, fr, inst, i) = CompareInto(fr, inst, rd) \o Finish(fr, inst.dest)
    BY <1>6 DEF Single, IsParamDecl, Declares, ArithmeticOps, RelationOps
  <2>2. Yields(code, CompareInto(fr, inst, rd), m, rd, Compute(inst.op, a, b), Scratch \union {rd})
    BY <1>6, CompareIntoLines
  <2>3. v = Compute(inst.op, a, b)
    <3>1. a # Undefined /\ b # Undefined /\ inst.op # "NOT" /\ inst.op \in CombinableOps
      BY <1>1, <1>6, UndefinedIsNoValue DEF Ready, Framed, Fit, BinaryOps, CombinableOps, RelationOps
    <3>. QED BY <3>1 DEF Computed, Result
  <2>. HIDE DEF inst, rd, v, a, b, regs
  <2>4. Yields(code, CompareInto(fr, inst, rd), m, rd, v, regs \union {rd})
    BY <1>3, <2>2, <2>3, YieldsWider
  <2>5. Delivers(code, fr, Single(code, f, fr, inst, i), m, inst.dest, v, regs)
    BY <1>4, <2>1, <2>4
  <2>. QED BY Zenon, <2>5 DEF inst, v, a, b, regs
<1>7. CASE inst.op = "ASSIGN" \/ (inst.op = "LOCAL_VAR_DECL" /\ ~ Declares(inst) /\ ~ IsParamDecl(inst))
  <2>1. Single(code, f, fr, inst, i) = Load(fr, inst.src1, rd) \o Finish(fr, inst.dest)
    BY <1>7 DEF Single, IsParamDecl, Declares, ArithmeticOps, RelationOps
  <2>2. Yields(code, Load(fr, inst.src1, rd), m, rd, a, {rd, "t2"})
    BY <1>1, <1>2, LoadLines
  <2>3. v = a
    BY <1>7 DEF Computed, CombinableOps, BinaryOps, ArithmeticOps, RelationOps
  <2>4. {rd, "t2"} \subseteq regs \union {rd}
    BY <1>3, ScratchRegisters
  <2>. HIDE DEF inst, rd, v, a, b, regs
  <2>5. Yields(code, Load(fr, inst.src1, rd), m, rd, v, regs \union {rd})
    BY <2>2, <2>3, <2>4, YieldsWider
  <2>6. Delivers(code, fr, Single(code, f, fr, inst, i), m, inst.dest, v, regs)
    BY <1>4, <2>1, <2>5
  <2>. QED BY Zenon, <2>6 DEF inst, v, a, b, regs
<1>8. inst.op \in ArithmeticOps \union {"NOT"} \union RelationOps \union {"ASSIGN"}
      \/ (inst.op = "LOCAL_VAR_DECL" /\ ~ Declares(inst) /\ ~ IsParamDecl(inst))
  BY DEF Computes, CombinableOps, BinaryOps
<1>. QED BY <1>5, <1>6, <1>7, <1>8

-------------------------------------------------------------------------------
(***************************************************************************)
(* A step of the code, and the lines for it.                               *)
(***************************************************************************)
\* A machine that runs code.
IsSource(code, s) ==
  /\ s = [pc |-> s.pc, locals |-> s.locals, actuals |-> s.actuals, pending |-> s.pending,
          callers |-> s.callers, globals |-> s.globals, status |-> s.status, value |-> s.value]
  /\ s.locals = [n \in LocalsOf(code) |-> s.locals[n]]
  /\ s.globals = [g \in GlobalsOf(code) |-> s.globals[g]]

\* A variable of the code.
Known(code, o) == (IsLocal(o) /\ o.name \in LocalsOf(code)) \/ (IsGlobal(o) /\ o.name \in GlobalsOf(code))

\* The machine has, for the variables of A, the values that the code defines.
Represents(code, fr, m, s, A) ==
  \A o \in A : /\ Known(code, o) /\ HasPlace(code, fr, m, o)
               /\ ValueIn(s, o) \in {Undefined, Held(code, fr, m, o)}

\* The sources have values, and the instruction a result.
Meaningful(s, inst) ==
  /\ ValueIn(s, inst.src1) \in Word
  /\ inst.op \in BinaryOps => ValueIn(s, inst.src2) \in Word /\ Computable(inst.op, ValueIn(s, inst.src2))

\* Where the variable is, the instruction writes nothing.
Untouched(code, fr, m, inst, o) ==
  /\ RegOf(fr, o) \notin Clobbered(fr, inst) \union RegisterOf(fr, inst.dest)
  /\ RegOf(fr, o) = NoReg => Place(code, fr, m, o) \notin CellOf(code, fr, m, inst.dest)

\* The code's step stores what the instruction computes.
LEMMA StepStores ==
  ASSUME NEW code, NEW s, NEW fresh \in BOOLEAN, Computes(code[s.pc]), Meaningful(s, code[s.pc])
  PROVE  Step(code, s, fresh)
           = Advanced(Stored(s, code[s.pc].dest, Computed(code[s.pc], ValueIn(s, code[s.pc].src1), ValueIn(s, code[s.pc].src2))))
<1> DEFINE inst == code[s.pc]
           a == ValueIn(s, inst.src1)
           b == ValueIn(s, inst.src2)
<1>1. CASE inst.op \in CombinableOps
  <2>1. ~ (inst.op \in {"DIV", "MOD"} /\ b \in {0, Undefined})
    BY UndefinedIsNoValue DEF Meaningful, Computable, BinaryOps, ArithmeticOps
  <2>2. Computed(inst, a, b) = Result(inst.op, a, b)
    BY <1>1 DEF Computed
  <2>. QED BY <1>1, <2>1, <2>2 DEF Step, CombinableOps, BinaryOps, ArithmeticOps, RelationOps
<1>2. CASE inst.op \notin CombinableOps
  <2>1. Computed(inst, a, b) = a
    BY <1>2 DEF Computed
  <2>2. CASE inst.op = "ASSIGN"
    BY <1>2, <2>1, <2>2 DEF Step
  <2>3. CASE inst.op = "LOCAL_VAR_DECL" /\ ~ Declares(inst) /\ ~ IsParamDecl(inst)
    <3>1. ~ IsParam(inst.src1) /\ ~ IsNone(inst.src1)
      BY <2>3 DEF Declares, IsParamDecl
    <3>2. Declared(s, inst, fresh) = Stored(s, inst.dest, a)
      BY <3>1 DEF Declared
    <3>. QED BY <1>2, <2>1, <2>3, <3>2 DEF Step
  <2>. QED BY <1>2, <2>2, <2>3 DEF Computes
<1>. QED BY <1>1, <1>2

\* What is stored is there, and nothing else has changed.
LEMMA StoredValues ==
  ASSUME NEW code, NEW s, IsSource(code, s), NEW o, Known(code, o), NEW v, NEW q, Known(code, q)
  PROVE  LET t == Advanced(Stored(s, o, v))
         IN ValueIn(t, q) = IF q.type = o.type /\ q.name = o.name THEN v ELSE ValueIn(s, q)
<1> DEFINE t == Advanced(Stored(s, o, v))
           l == [n \in LocalsOf(code) |-> IF n = o.name THEN v ELSE s.locals[n]]
           g == [n \in GlobalsOf(code) |-> IF n = o.name THEN v ELSE s.globals[n]]
<1>1. CASE IsLocal(o)
  <2>1. t.locals = l /\ t.globals = s.globals
    BY <1>1 DEF Known, Stored, Advanced, IsSource, IsLocal, IsGlobal
  <2>. QED BY <1>1, <2>1 DEF ValueIn, IsVariable, IsLocal, IsGlobal, IsImm, Known, IsSource
<1>2. CASE IsGlobal(o)
  <2>1. t.globals = g /\ t.locals = s.locals
    BY <1>2 DEF Known, Stored, Advanced, IsSource, IsLocal, IsGlobal
  <2>. QED BY <1>2, <2>1 DEF ValueIn, IsVariable, IsLocal, IsGlobal, IsImm, Known, IsSource
<1>. QED BY <1>1, <1>2 DEF Known

\* What an instruction leaves alone.
LEMMA UntouchedKept ==
  ASSUME NEW code, NEW fr, NEW m, NEW inst, Framed(code, fr, m, inst), NEW lines, NEW n,
         Turns(code, lines, m, n, Clobbered(fr, inst) \union RegisterOf(fr, inst.dest), CellOf(code, fr, m, inst.dest))
  PROVE  /\ HoldsConstants(fr, n)
         /\ \A o : HasPlace(code, fr, m, o) => HasPlace(code, fr, n, o)
         /\ \A o : HasPlace(code, fr, m, o) /\ Untouched(code, fr, m, inst, o) => Held(code, fr, n, o) = Held(code, fr, m, o)
<1> DEFINE regs == Clobbered(fr, inst) \union RegisterOf(fr, inst.dest)
           cells == CellOf(code, fr, m, inst.dest)
<1>1. "s0" \notin regs
  <2>1. "s0" \notin Clobbered(fr, inst)
    BY ScratchRegisters DEF Clobbered
  <2>2. "s0" \notin RegisterOf(fr, inst.dest)
    BY DEF Framed, Fit, RegisterOf, DestReg
  <2>. QED BY <2>1, <2>2
<1>2. HoldsConstants(fr, n)
  <2>1. ConstantsApart(fr, Clobbered(fr, inst))
    <3>1. \A v \in DOMAIN fr.constants : fr.constants[v] \notin Scratch
      BY DEF Framed, Fit, HoldsConstants
    <3>. QED BY <3>1 DEF Framed, Fit, ConstantsApart, Clobbered
  <2>2. ConstantsApart(fr, RegisterOf(fr, inst.dest))
    BY DEF Framed, Fit, ConstantsApart, RegisterOf, DestReg
  <2>3. ConstantsApart(fr, regs)
    BY <2>1, <2>2 DEF ConstantsApart
  <2>4. HoldsConstants(fr, m)
    BY DEF Framed, Fit
  <2>. QED BY <2>3, <2>4, ConstantsStay
<1>3. ASSUME NEW o, HasPlace(code, fr, m, o)
      PROVE  HasPlace(code, fr, n, o) /\ Place(code, fr, n, o) = Place(code, fr, m, o)
  BY <1>1, <1>3, PlaceKept
<1>4. ASSUME NEW o, HasPlace(code, fr, m, o), Untouched(code, fr, m, inst, o)
      PROVE  Held(code, fr, n, o) = Held(code, fr, m, o)
  <2>1. CASE Registry(fr, o)
    <3>1. RegOf(fr, o) \in Registers \ regs
      BY <1>4, <2>1 DEF Registry, Untouched
    <3>2. n.regs[RegOf(fr, o)] = m.regs[RegOf(fr, o)]
      BY <3>1 DEF Turns
    <3>. QED BY <2>1, <3>2 DEF Held, Registry
  <2>2. CASE Slot(code, fr, m, o) \/ Symbol(code, fr, m, o)
    <3>1. Place(code, fr, m, o) \in DOMAIN m.mem /\ ~ IsImm(o) /\ RegOf(fr, o) = NoReg
      BY <2>2 DEF Slot, Symbol, Near, Place
    <3>2. Place(code, fr, m, o) \notin cells
      BY <1>4, <3>1 DEF Untouched
    <3>3. n.mem[Place(code, fr, m, o)] = m.mem[Place(code, fr, m, o)]
      BY <3>1, <3>2 DEF Turns
    <3>. QED BY <1>3, <1>4, <3>1, <3>3 DEF Held
  <2>. QED BY <1>4, <2>1, <2>2 DEF HasPlace
<1>. QED BY <1>2, <1>3, <1>4

\* Sources that the code defines are words in the machine too.
LEMMA SourceFound ==
  ASSUME NEW code, NEW fr, NEW m, NEW s, NEW A, Represents(code, fr, m, s, A), NEW o,
         IsVariable(o) => o \in A, ValueIn(s, o) \in Word
  PROVE  Reachable(code, fr, m, o) /\ Held(code, fr, m, o) = ValueIn(s, o)
<1>1. CASE IsImm(o)
  BY <1>1 DEF Reachable, Held, ValueIn, IsImm, IsLocal, IsGlobal
<1>2. CASE ~ IsImm(o)
  <2>1. IsVariable(o)
    BY <1>2, UndefinedIsNoValue DEF ValueIn, IsVariable
  <2>. QED BY <1>2, <2>1, UndefinedIsNoValue DEF Represents, Reachable
<1>. QED BY <1>1, <1>2

\* A step of the code that computes, and the lines for it: where the machine
\* has the values of the code's variables, it has them after both, the dest's
\* new one and all others that the instruction does not touch; constants are
\* still in their registers.  Variables that share a register with the dest
\* are touched: LiveValuesApart says that they are not needed any more.
THEOREM StepImplemented ==
  ASSUME NEW code, NEW m, NEW fr, NEW f, NEW s, NEW A, NEW fresh \in BOOLEAN,
         IsSource(code, s), Computes(code[s.pc]), Meaningful(s, code[s.pc]), Known(code, code[s.pc].dest),
         Framed(code, fr, m, code[s.pc]), Represents(code, fr, m, s, A),
         \A o \in {code[s.pc].src1, code[s.pc].src2} : IsVariable(o) => o \in A,
         SignKnown(code, f, s.pc, ValueIn(s, code[s.pc].src1))
  PROVE  \E n : /\ Turns(code, Single(code, f, fr, code[s.pc], s.pc), m, n,
                         Clobbered(fr, code[s.pc]) \union RegisterOf(fr, code[s.pc].dest), CellOf(code, fr, m, code[s.pc].dest))
                /\ HoldsConstants(fr, n)
                /\ Represents(code, fr, n, Step(code, s, fresh),
                              {o \in A : Untouched(code, fr, m, code[s.pc], o)} \union {code[s.pc].dest})
<1> DEFINE inst == code[s.pc]
           a == ValueIn(s, inst.src1)
           b == ValueIn(s, inst.src2)
           v == Computed(inst, a, b)
           t == Step(code, s, fresh)
           kept == {o \in A : Untouched(code, fr, m, inst, o)}
<1>1. Reachable(code, fr, m, inst.src1) /\ Held(code, fr, m, inst.src1) = a /\ a \in Word
  BY SourceFound DEF Meaningful
<1>2. inst.op \in BinaryOps => /\ Reachable(code, fr, m, inst.src2) /\ Held(code, fr, m, inst.src2) = b
                               /\ b \in Word /\ Computable(inst.op, b)
  BY SourceFound DEF Meaningful
<1>3. Ready(code, fr, m, inst) /\ HasPlace(code, fr, m, inst.dest)
  BY <1>1, <1>2 DEF Ready, Framed, Fit
<1>4. Computed(inst, Held(code, fr, m, inst.src1), Held(code, fr, m, inst.src2)) = v
  <2>1. CASE inst.op \in BinaryOps
    BY <1>1, <1>2, <2>1
  <2>2. CASE inst.op \notin BinaryOps
    BY <1>1, <2>2, UndefinedIsNoValue DEF Computed, CombinableOps, Result
  <2>. QED BY <2>1, <2>2
<1>5. Delivers(code, fr, Single(code, f, fr, inst, s.pc), m, inst.dest, v, Clobbered(fr, inst))
  <2>1. SignKnown(code, f, s.pc, Held(code, fr, m, inst.src1))
    BY <1>1
  <2>. QED BY <1>3, <1>4, <2>1, InstructionExact
<1>6. PICK n : /\ Turns(code, Single(code, f, fr, inst, s.pc), m, n,
                        Clobbered(fr, inst) \union RegisterOf(fr, inst.dest), CellOf(code, fr, m, inst.dest))
               /\ Held(code, fr, n, inst.dest) = v
  BY <1>5 DEF Delivers
<1>7. /\ HoldsConstants(fr, n)
      /\ \A o : HasPlace(code, fr, m, o) => HasPlace(code, fr, n, o)
      /\ \A o : HasPlace(code, fr, m, o) /\ Untouched(code, fr, m, inst, o) => Held(code, fr, n, o) = Held(code, fr, m, o)
  BY <1>6, UntouchedKept
<1>8. t = Advanced(Stored(s, inst.dest, v))
  BY StepStores
<1>9. \A q : Known(code, q)
               => ValueIn(t, q) = IF q.type = inst.dest.type /\ q.name = inst.dest.name THEN v ELSE ValueIn(s, q)
  BY <1>8, StoredValues
<1>10. ASSUME NEW o \in kept PROVE Known(code, o) /\ HasPlace(code, fr, n, o) /\ ValueIn(t, o) \in {Undefined, Held(code, fr, n, o)}
  <2>1. /\ Known(code, o) /\ HasPlace(code, fr, m, o) /\ ValueIn(s, o) \in {Undefined, Held(code, fr, m, o)}
        /\ Untouched(code, fr, m, inst, o)
    BY <1>10 DEF Represents
  <2>2. ~ (o.type = inst.dest.type /\ o.name = inst.dest.name)
    <3>1. SUFFICES ASSUME o.type = inst.dest.type /\ o.name = inst.dest.name PROVE FALSE
      OBVIOUS
    <3>2. RegOf(fr, o) = RegOf(fr, inst.dest) /\ Place(code, fr, m, o) = Place(code, fr, m, inst.dest)
      BY <3>1 DEF RegOf, Place, IsLocal, IsGlobal
    <3>. QED BY <2>1, <3>2 DEF Untouched, RegisterOf, CellOf
  <2>3. ValueIn(t, o) = ValueIn(s, o)
    BY <1>9, <2>1, <2>2
  <2>. QED BY <1>7, <2>1, <2>3
<1>11. Known(code, inst.dest) /\ HasPlace(code, fr, n, inst.dest) /\ ValueIn(t, inst.dest) = Held(code, fr, n, inst.dest)
  BY <1>3, <1>6, <1>7, <1>9
<1>. HIDE DEF kept, t
<1>12. Represents(code, fr, n, t, kept \union {inst.dest})
  BY <1>10, <1>11 DEF Represents
<1>. QED BY Zenon, <1>6, <1>7, <1>12 DEF kept, t


-------------------------------------------------------------------------------
(***************************************************************************)
(* The frames that the allocation ends with.                               *)
(***************************************************************************)
\* Registers that no line uses on its own account, or t3.
Own == Registers \ (Scratch \union {"x0", "sp", "s0", "ra", NoReg})

FrameFits ==
  At1("text") =>
    /\ \A n \in DOMAIN frame.locals : frame.locals[n] \in Own
    /\ \A g \in DOMAIN frame.globals : frame.globals[g] \in Own
    /\ \A v \in DOMAIN frame.constants : frame.constants[v] \in Own
    /\ \A n \in DOMAIN frame.locals, g \in DOMAIN frame.globals : frame.locals[n] # frame.globals[g]
    /\ \A g, h \in DOMAIN frame.globals : g # h => frame.globals[g] # frame.globals[h]
    /\ \A i \in Code(ir, current) :
         /\ Fit(frame, ir[i])
         /\ \A n \in DOMAIN frame.locals : frame.locals[n] \notin Clobbered(frame, ir[i])
         /\ \A g \in DOMAIN frame.globals : frame.globals[g] \notin Clobbered(frame, ir[i])

\* The elements of lists that are joined.
LEMMA JoinedSets ==
  ASSUME NEW s \in Seq(STRING), NEW t \in Seq(STRING)
  PROVE  s \o t \in Seq(STRING) /\ ToSet(s) \subseteq ToSet(s \o t) /\ ToSet(t) \subseteq ToSet(s \o t)
<1>1. s \o t \in Seq(STRING) /\ Len(s \o t) = Len(s) + Len(t) /\ Len(s) \in Nat /\ Len(t) \in Nat
  OBVIOUS
<1>2. \A k \in DOMAIN s : k \in DOMAIN (s \o t) /\ (s \o t)[k] = s[k]
  BY <1>1
<1>3. \A k \in DOMAIN t : k + Len(s) \in DOMAIN (s \o t) /\ (s \o t)[k + Len(s)] = t[k]
  BY <1>1
<1>. QED BY <1>1, <1>2, <1>3 DEF ToSet

\* The registers that values are given are none of those with a use of their
\* own, and t3 is not the first of those for temporaries by chance.
LEMMA OwnRegisters ==
  /\ Permanent \union ToSet(TempRegs) \subseteq Own
  /\ "t3" \notin Permanent /\ t3 = "t3" /\ "t3" \notin ToSet(Tail(TempRegs))
<1>1. /\ ArgRegs \in Seq(STRING) /\ SavedRegs \in Seq(STRING) /\ TempRegs \in Seq(STRING) /\ TempRegs # << >>
      /\ \A j, k \in DOMAIN TempRegs : TempRegs[j] = TempRegs[k] => j = k
      /\ (Scratch \union {"x0", "sp", "s0", "ra", NoReg}) \cap ToSet(TempRegs \o ArgRegs \o SavedRegs) = {}
  BY RegistersApart
<1>2. t3 = "t3"
  BY RegistersReach DEF t3
<1>3. "t3" \notin Permanent
  BY <1>2, RegistersOf
<1>4. "t3" \notin ToSet(Tail(TempRegs))
  <2>1. ASSUME NEW k \in DOMAIN Tail(TempRegs) PROVE Tail(TempRegs)[k] # "t3"
    <3>1. k \in Nat /\ k >= 1 /\ k + 1 \in DOMAIN TempRegs /\ 1 \in DOMAIN TempRegs /\ Tail(TempRegs)[k] = TempRegs[k + 1]
      BY <1>1
    <3>2. TempRegs[1] = "t3" /\ k + 1 # 1
      BY <1>2, <3>1 DEF t3
    <3>. QED BY <1>1, <3>1, <3>2
  <2>. QED BY <2>1 DEF ToSet
<1>5. Permanent \union ToSet(TempRegs) \subseteq ToSet(TempRegs \o ArgRegs \o SavedRegs)
  <2>1. /\ ToSet(TempRegs) \subseteq ToSet(TempRegs \o ArgRegs)
        /\ ToSet(ArgRegs) \subseteq ToSet(TempRegs \o ArgRegs)
    BY <1>1, JoinedSets
  <2>2. /\ TempRegs \o ArgRegs \in Seq(STRING)
        /\ ToSet(TempRegs \o ArgRegs) \subseteq ToSet((TempRegs \o ArgRegs) \o SavedRegs)
        /\ ToSet(SavedRegs) \subseteq ToSet((TempRegs \o ArgRegs) \o SavedRegs)
    BY <1>1, JoinedSets
  <2>. QED BY <2>1, <2>2 DEF Permanent
<1>6. Permanent \union ToSet(TempRegs) \subseteq Registers
  BY RegistersOf
<1>. QED BY <1>1, <1>2, <1>3, <1>4, <1>5, <1>6 DEF Own

\* Whatever code it has, the allocation ends with a frame that is fit for every
\* instruction of the function: each value is in a register that no line uses
\* on its own account, t3 included where a remainder needs it, and no constant
\* is where a result goes.  So the condition of InstructionExact and
\* StepImplemented on the frame holds of every frame that text is made with.
THEOREM FramesFit == Spec => []FrameFits
<1>1. ASSUME Inductive PROVE FrameFits
  <2>1. SUFFICES ASSUME functions # {}, stage = "text"
        PROVE /\ \A n \in DOMAIN frame.locals : frame.locals[n] \in Own
              /\ \A g \in DOMAIN frame.globals : frame.globals[g] \in Own
              /\ \A v \in DOMAIN frame.constants : frame.constants[v] \in Own
              /\ \A n \in DOMAIN frame.locals, g \in DOMAIN frame.globals : frame.locals[n] # frame.globals[g]
              /\ \A g, h \in DOMAIN frame.globals : g # h => frame.globals[g] # frame.globals[h]
              /\ \A i \in Code(ir, current) :
                   /\ Fit(frame, ir[i])
                   /\ \A n \in DOMAIN frame.locals : frame.locals[n] \notin Clobbered(frame, ir[i])
                   /\ \A g \in DOMAIN frame.globals : frame.globals[g] \notin Clobbered(frame, ir[i])
    BY DEF FrameFits, At1
  <2>2. ASSUME NEW n \in DOMAIN frame.locals
        PROVE  frame.locals[n] \in ToSet(TempRegisters(ir, current)) \/ frame.locals[n] \in Permanent
    BY <1>1, <2>2 DEF Inductive, TempsInv, GraphInv, Coloured
  <2>3. ToSet(TempRegisters(ir, current)) \subseteq ToSet(TempRegs)
    BY TempRegistersAre
  <2>4. \A n \in DOMAIN frame.locals : frame.locals[n] \in Own
    BY <2>2, <2>3, OwnRegisters
  <2>5. /\ \A g \in DOMAIN frame.globals : frame.globals[g] \in Permanent /\ frame.globals[g] \in Own
        /\ \A g, h \in DOMAIN frame.globals : g # h => frame.globals[g] # frame.globals[h]
    BY <1>1, OwnRegisters DEF Inductive, GlobalsInv
  <2>6. ASSUME NEW v \in DOMAIN frame.constants
        PROVE  /\ frame.constants[v] \in Own
               /\ \A n \in DOMAIN frame.locals : frame.locals[n] # frame.constants[v]
               /\ \A g \in DOMAIN frame.globals : frame.globals[g] # frame.constants[v]
               /\ frame.constants[v] = "t3" => ~ NeedsRemainderScratch
    BY <1>1, <2>6, OwnRegisters, RegistersOf DEF Inductive, ConstantsInv
  <2>7. ASSUME NEW n \in DOMAIN frame.locals, NEW g \in DOMAIN frame.globals
        PROVE  frame.locals[n] # frame.globals[g]
    <3>1. CASE n \in Coloured
      BY <1>1, <3>1 DEF Inductive, GlobalsInv
    <3>2. CASE n \notin Coloured
      <4>1. frame.locals[n] \in ToSet(TempRegs)
        BY <1>1, <3>2 DEF Inductive, TempsInv, Coloured
      <4>. QED BY <2>5, <4>1, RegistersOf
    <3>. QED BY <3>1, <3>2
  <2>8. ASSUME NEW i \in Code(ir, current)
        PROVE  /\ Fit(frame, ir[i])
               /\ \A n \in DOMAIN frame.locals : frame.locals[n] \notin Clobbered(frame, ir[i])
               /\ \A g \in DOMAIN frame.globals : frame.globals[g] \notin Clobbered(frame, ir[i])
    <3> DEFINE inst == ir[i]
               rd == DestReg(frame, inst.dest)
               remainder == inst.op = "MOD" /\ RegOf(frame, inst.src1) = NoReg
    <3>1. \/ rd = "t0"
          \/ \E n \in DOMAIN frame.locals : rd = frame.locals[n]
          \/ \E g \in DOMAIN frame.globals : rd = frame.globals[g]
      BY DEF DestReg, RegOf
    <3>2. rd # "s0"
      BY <2>4, <2>5, <3>1 DEF Own
    <3>3. ConstantsApart(frame, {rd})
      BY <2>6, <3>1, ScratchRegisters DEF ConstantsApart, Own
    <3>4. remainder => NeedsRemainderScratch /\ TempRegisters(ir, current) = Tail(TempRegs)
      BY DEF NeedsRemainderScratch, TempRegisters
    <3>5. remainder => ConstantsApart(frame, {"t3"})
      BY <2>6, <3>4 DEF ConstantsApart
    <3>6. \A n \in DOMAIN frame.locals : remainder => frame.locals[n] # "t3"
      BY <2>2, <3>4, OwnRegisters
    <3>7. \A g \in DOMAIN frame.globals : frame.globals[g] # "t3"
      BY <2>5, OwnRegisters
    <3>. QED BY <2>4, <2>5, <3>2, <3>3, <3>5, <3>6, <3>7 DEF Fit, Clobbered, Own
  <2>. QED BY <2>4, <2>5, <2>6, <2>7, <2>8
<1>. QED BY <1>1, SpecInductive, PTL

-------------------------------------------------------------------------------
(***************************************************************************)
(* Every step of the code, with the frame that its text is made with.      *)
(***************************************************************************)
\* Different variables that have no register are in different cells.
PlacesApart(p, fr, m, A) ==
  \A o, q \in A : (RegOf(fr, o) = NoReg /\ RegOf(fr, q) = NoReg /\ ~ SameVariable(o, q)) =>
                    Place(p, fr, m, o) # Place(p, fr, m, q)

\* What is needed behind instruction i: globals, and locals that are live.
Needed(i, o) == IsGlobal(o) \/ (IsLocal(o) /\ o.name \in LiveOut(ir, current, live, i))

\* The code is at an instruction that computes, from values; the machine has
\* those of the variables of A, and a place for the result.
Prepared(m, s, A) ==
  /\ s.pc \in Code(ir, current) /\ IsSource(ir, s)
  /\ Computes(ir[s.pc]) /\ Translatable(ir[s.pc]) /\ Meaningful(s, ir[s.pc])
  /\ \A o \in {ir[s.pc].src1, ir[s.pc].src2} : IsVariable(o) => o \in A
  /\ SignKnown(ir, current, s.pc, ValueIn(s, ir[s.pc].src1))
  /\ IsRunning(m) /\ HoldsConstants(frame, m) /\ Represents(ir, frame, m, s, A)
  /\ Known(ir, ir[s.pc].dest) /\ HasPlace(ir, frame, m, ir[s.pc].dest)
  /\ PlacesApart(ir, frame, m, A \union {ir[s.pc].dest})

\* The machine n has what the machine that makes the step has.
Follows(m, s, A, fresh, n) ==
  /\ Leads(ir, Single(ir, current, frame, ir[s.pc], s.pc), m, n)
  /\ IsRunning(n) /\ HoldsConstants(frame, n)
  /\ Represents(ir, frame, n, Step(ir, s, fresh), {o \in A : Needed(s.pc, o)} \union {ir[s.pc].dest})

LinesImplementSteps ==
  At1("text") =>
    \A m, s, A : \A fresh \in BOOLEAN : Prepared(m, s, A) => \E n : Follows(m, s, A, fresh, n)

\* A variable that is needed is the dest, or no line touches it, or the
\* instruction copies it to the dest, which is in the same register.
LEMMA NeededIsKept ==
  ASSUME FrameFits, LiveValuesApart, At1("text"),
         NEW m, NEW A, NEW i \in Code(ir, current), Computes(ir[i]), Known(ir, ir[i].dest),
         PlacesApart(ir, frame, m, A \union {ir[i].dest}),
         NEW o \in A, Known(ir, o), Needed(i, o), ~ SameVariable(o, ir[i].dest), ~ Untouched(ir, frame, m, ir[i], o)
  PROVE  /\ RegOf(frame, o) # NoReg /\ RegOf(frame, o) = RegOf(frame, ir[i].dest)
         /\ IsCopy(ir[i]) /\ SameVariable(o, ir[i].src1)
<1> DEFINE inst == ir[i]
           r == RegOf(frame, o)
<1>1. NoReg \notin Clobbered(frame, inst) \union RegisterOf(frame, inst.dest)
  BY DEF Clobbered, Scratch, RegisterOf, NoReg
<1>2. r # NoReg
  <2>1. SUFFICES ASSUME r = NoReg PROVE FALSE
    OBVIOUS
  <2>2. Place(ir, frame, m, o) \in CellOf(ir, frame, m, inst.dest)
    BY <1>1, <2>1 DEF Untouched
  <2>3. RegOf(frame, inst.dest) = NoReg /\ Place(ir, frame, m, o) = Place(ir, frame, m, inst.dest)
    BY <2>2 DEF CellOf
  <2>. QED BY <2>1, <2>3 DEF PlacesApart
<1>3. \/ IsLocal(o) /\ o.name \in DOMAIN frame.locals /\ r = frame.locals[o.name]
      \/ IsGlobal(o) /\ o.name \in DOMAIN frame.globals /\ r = frame.globals[o.name]
  BY <1>2 DEF RegOf
<1>4. r \notin Clobbered(frame, inst)
  BY <1>3 DEF FrameFits
<1>5. r = RegOf(frame, inst.dest)
  BY <1>2, <1>4 DEF Untouched, RegisterOf
<1>6. \/ IsLocal(inst.dest) /\ inst.dest.name \in DOMAIN frame.locals /\ r = frame.locals[inst.dest.name]
      \/ IsGlobal(inst.dest) /\ inst.dest.name \in DOMAIN frame.globals /\ r = frame.globals[inst.dest.name]
  BY <1>2, <1>5 DEF RegOf
<1>7. CASE IsLocal(o) /\ IsLocal(inst.dest)
  <2>1. o.name # inst.dest.name
    BY <1>7 DEF SameVariable, IsLocal
  <2>2. WritesLocal(inst)
    BY <1>7 DEF WritesLocal, ReadsDest, Computes, CombinableOps, BinaryOps, ArithmeticOps, RelationOps
  <2>3. o.name \in LiveOut(ir, current, live, i) \ {inst.dest.name}
    BY <1>7, <2>1 DEF Needed, IsLocal, IsGlobal
  <2>4. /\ o.name \in DOMAIN frame.locals /\ inst.dest.name \in DOMAIN frame.locals
        /\ frame.locals[o.name] = frame.locals[inst.dest.name]
    BY <1>3, <1>6, <1>7 DEF IsLocal, IsGlobal
  <2>5. IsCopy(inst) /\ Names(inst.src1, o.name)
    BY <2>2, <2>3, <2>4 DEF LiveValuesApart
  <2>. QED BY <1>2, <1>5, <1>7, <2>5 DEF Names, SameVariable, IsLocal
<1>8. CASE IsGlobal(o) /\ IsGlobal(inst.dest)
  <2>1. o.name # inst.dest.name
    BY <1>8 DEF SameVariable, IsGlobal
  <2>. QED BY <1>3, <1>6, <1>8, <2>1 DEF FrameFits, IsLocal, IsGlobal
<1>9. ~ (IsLocal(o) /\ IsGlobal(inst.dest)) /\ ~ (IsGlobal(o) /\ IsLocal(inst.dest))
  BY <1>3, <1>6 DEF FrameFits, IsLocal, IsGlobal
<1>. QED BY <1>7, <1>8, <1>9 DEF Known

\* The same variable is in the same place, with the same value.
LEMMA SameIsSame ==
  ASSUME NEW p, NEW fr, NEW m, NEW s, NEW o, NEW q, SameVariable(o, q), Known(p, o), HasPlace(p, fr, m, q)
  PROVE  /\ RegOf(fr, o) = RegOf(fr, q) /\ HasPlace(p, fr, m, o)
         /\ Held(p, fr, m, o) = Held(p, fr, m, q) /\ ValueIn(s, o) = ValueIn(s, q)
<1>1. o.type = q.type /\ o.name = q.name /\ ~ IsImm(o) /\ ~ IsImm(q)
  BY DEF SameVariable, Known, IsImm, IsLocal, IsGlobal
<1>2. RegOf(fr, o) = RegOf(fr, q) /\ Place(p, fr, m, o) = Place(p, fr, m, q)
  BY <1>1 DEF RegOf, Place, IsLocal, IsGlobal
<1>3. HasPlace(p, fr, m, o)
  BY <1>1, <1>2 DEF HasPlace, Registry, Slot, Symbol, IsVariable, IsLocal, IsGlobal
<1>4. Held(p, fr, m, o) = Held(p, fr, m, q)
  BY <1>1, <1>2 DEF Held
<1>5. ValueIn(s, o) = ValueIn(s, q)
  BY <1>1 DEF ValueIn, IsImm, IsLocal, IsGlobal
<1>. QED BY <1>2, <1>3, <1>4, <1>5

\* Whatever code it has and however the choices of the allocation fall, the
\* text of a function follows the code: wherever the code is at an instruction
\* that computes, from values, and the machine has those of the variables, the
\* instruction's lines lead the machine, without a fault, to where it has the
\* values of all variables that are needed after the step: the result, the
\* globals, and the locals that are live, in registers or in memory; and the
\* constants are still in their registers (generateInstruction, with
\* allocateTemporaries, allocateRegisters, the globals and constants of
\* generateFunction).
THEOREM StepsImplemented == Spec => []LinesImplementSteps
<1>1. ASSUME FrameFits, LiveValuesApart PROVE LinesImplementSteps
  <2>1. SUFFICES ASSUME At1("text"), NEW m, NEW s, NEW A, NEW fresh \in BOOLEAN, Prepared(m, s, A)
                 PROVE  \E n : Follows(m, s, A, fresh, n)
    BY DEF LinesImplementSteps
  <2> DEFINE i == s.pc
             inst == ir[s.pc]
             t == Step(ir, s, fresh)
             v == Computed(inst, ValueIn(s, inst.src1), ValueIn(s, inst.src2))
             lines == Single(ir, current, frame, inst, i)
             regs == Clobbered(frame, inst) \union RegisterOf(frame, inst.dest)
             cells == CellOf(ir, frame, m, inst.dest)
             kept == {o \in A : Untouched(ir, frame, m, inst, o)}
             needed == {o \in A : Needed(i, o)}
  <2>2. /\ i \in Code(ir, current) /\ IsSource(ir, s) /\ Computes(inst) /\ Translatable(inst) /\ Meaningful(s, inst)
        /\ \A o \in {inst.src1, inst.src2} : IsVariable(o) => o \in A
        /\ SignKnown(ir, current, i, ValueIn(s, inst.src1))
        /\ IsRunning(m) /\ HoldsConstants(frame, m) /\ Represents(ir, frame, m, s, A)
        /\ Known(ir, inst.dest) /\ HasPlace(ir, frame, m, inst.dest)
        /\ PlacesApart(ir, frame, m, A \union {inst.dest})
    BY <2>1 DEF Prepared
  <2>3. Framed(ir, frame, m, inst)
    BY <1>1, <2>1, <2>2 DEF Framed, FrameFits
  <2>4. PICK n : /\ Turns(ir, lines, m, n, regs, cells)
                 /\ HoldsConstants(frame, n)
                 /\ Represents(ir, frame, n, t, kept \union {inst.dest})
    BY <2>2, <2>3, StepImplemented
  <2>5. Leads(ir, lines, m, n) /\ IsRunning(n)
    BY <2>4 DEF Turns
  <2>6. /\ Known(ir, inst.dest) /\ HasPlace(ir, frame, n, inst.dest)
        /\ ValueIn(t, inst.dest) \in {Undefined, Held(ir, frame, n, inst.dest)}
    BY <2>4 DEF Represents
  <2>7. t = Advanced(Stored(s, inst.dest, v))
    BY <2>2, StepStores
  <2>8. \A q : Known(ir, q) => ValueIn(t, q) = IF SameVariable(q, inst.dest) THEN v ELSE ValueIn(s, q)
    BY <2>2, <2>7, StoredValues DEF SameVariable, Known
  <2>. HIDE DEF t, v, lines, regs, cells
  <2>9. ASSUME NEW o \in needed
        PROVE  Known(ir, o) /\ HasPlace(ir, frame, n, o) /\ ValueIn(t, o) \in {Undefined, Held(ir, frame, n, o)}
    <3>1. o \in A /\ Needed(i, o) /\ Known(ir, o)
      BY <2>2 DEF Represents
    <3>2. CASE SameVariable(o, inst.dest)
      BY <2>6, <3>1, <3>2, SameIsSame
    <3>3. CASE Untouched(ir, frame, m, inst, o)
      BY <2>4, <3>1, <3>3 DEF Represents
    <3>4. CASE ~ SameVariable(o, inst.dest) /\ ~ Untouched(ir, frame, m, inst, o)
      <4>1. /\ RegOf(frame, o) # NoReg /\ RegOf(frame, o) = RegOf(frame, inst.dest)
            /\ IsCopy(inst) /\ SameVariable(o, inst.src1)
        BY <1>1, <2>1, <2>2, <3>1, <3>4, NeededIsKept
      <4>2. ValueIn(t, o) = ValueIn(s, o) /\ ValueIn(t, inst.dest) = v
        BY <2>6, <2>8, <3>1, <3>4 DEF SameVariable, Known
      <4>3. v = ValueIn(s, inst.src1) /\ v \in Word
        BY <2>2, <4>1 DEF v, Computed, Meaningful, IsCopy, CombinableOps, BinaryOps, ArithmeticOps, RelationOps
      <4>4. ValueIn(s, o) = ValueIn(s, inst.src1)
        BY <3>1, <4>1 DEF SameVariable, Known, ValueIn, IsImm, IsLocal, IsGlobal
      <4>5. Held(ir, frame, n, inst.dest) = v
        BY <2>6, <4>2, <4>3, UndefinedIsNoValue
      <4>6. Held(ir, frame, n, o) = Held(ir, frame, n, inst.dest)
        BY <2>6, <3>1, <4>1 DEF Held, Known, IsImm, IsLocal, IsGlobal
      <4>7. HasPlace(ir, frame, n, o)
        <5>1. HasPlace(ir, frame, m, o)
          BY <2>2, <3>1 DEF Represents
        <5>. QED BY <4>1, <5>1 DEF HasPlace, Registry, Slot, Symbol
      <4>. QED BY <3>1, <4>2, <4>3, <4>4, <4>5, <4>6, <4>7
    <3>. QED BY <3>2, <3>3, <3>4
  <2>. HIDE DEF needed
  <2>10. Represents(ir, frame, n, t, needed \union {inst.dest})
    BY <2>6, <2>9 DEF Represents
  <2>11. Follows(m, s, A, fresh, n)
    BY <2>4, <2>5, <2>10 DEF Follows, lines, t, needed
  <2>. QED BY <2>11
<1>. QED BY <1>1, FramesFit, ValuesApart, PTL
===============================================================================
