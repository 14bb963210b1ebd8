--------------------------- MODULE EncodingTheorems ---------------------------
(***************************************************************************)
(* For every program, every number of registers and every width of the     *)
(* immediates: what the code generator emits can be assembled.  What it    *)
(* asks of the program is AllTranslatable of CodeGenerator.                *)
(*                                                                         *)
(* The recursive functions of the model, Lines and applyPeephole, are      *)
(* taken apart by one argument: a function that puts pieces of text one    *)
(* behind the other exists, so CHOOSE gives one that does (PiecedExists),  *)
(* and of the indices where it holds a line that cannot be assembled there *)
(* is a greatest, after which there is a piece that can (PiecedText).      *)
(***************************************************************************)
EXTENDS AllocationTheorems, FiniteSetTheorems

-------------------------------------------------------------------------------
(***************************************************************************)
(* Lines of text.                                                          *)
(***************************************************************************)
Usable == Registers \union {"x0"}
IsList(s) == s \in Seq(Range(s))
IsText(s) == IsList(s) /\ \A k \in 1..Len(s) : Encodable(s[k])

\* A list is what has a length and elements up to it.
LEMMA ListShape ==
  ASSUME NEW s, IsList(s)
  PROVE  Len(s) \in Nat /\ DOMAIN s = 1..Len(s) /\ Range(s) = {s[k] : k \in 1..Len(s)}
BY DEF IsList, Range

\* A sequence over any set is a list.
LEMMA ListOf ==
  ASSUME NEW S, NEW s \in Seq(S)
  PROVE  IsList(s)
<1>1. \A k \in 1..Len(s) : s[k] \in Range(s)
  BY DEF Range
<1>2. s = [k \in 1..Len(s) |-> s[k]] /\ Len(s) \in Nat
  OBVIOUS
<1>3. [k \in 1..Len(s) |-> s[k]] \in Seq(Range(s))
  BY <1>1, <1>2
<1>. QED BY <1>2, <1>3 DEF IsList

\* Lists are put together.
LEMMA ListConcat ==
  ASSUME NEW s, NEW t, IsList(s), IsList(t)
  PROVE  /\ IsList(s \o t) /\ Len(s \o t) = Len(s) + Len(t)
         /\ \A k \in 1..Len(s \o t) : (s \o t)[k] = IF k <= Len(s) THEN s[k] ELSE t[k - Len(s)]
<1> DEFINE S == Range(s) \union Range(t)
<1>1. s \in Seq(S) /\ t \in Seq(S)
  BY DEF IsList
<1>2. s \o t \in Seq(S)
  BY <1>1
<1>3. IsList(s \o t)
  <2>. HIDE DEF S
  <2>. QED BY <1>2, ListOf
<1>. QED BY <1>1, <1>3

\* Texts are put together.
LEMMA TextConcat ==
  ASSUME NEW s, NEW t, IsText(s), IsText(t)
  PROVE  IsText(s \o t)
<1>1. IsList(s) /\ IsList(t)
  BY DEF IsText
<1>2. /\ IsList(s \o t) /\ Len(s \o t) = Len(s) + Len(t)
      /\ \A k \in 1..Len(s \o t) : (s \o t)[k] = IF k <= Len(s) THEN s[k] ELSE t[k - Len(s)]
  BY <1>1, ListConcat
<1>3. Len(s) \in Nat /\ Len(t) \in Nat
  BY <1>1, ListShape
<1>4. ASSUME NEW k \in 1..Len(s \o t) PROVE Encodable((s \o t)[k])
  <2>1. CASE k <= Len(s)
    BY <1>2, <1>3, <2>1 DEF IsText
  <2>2. CASE ~ (k <= Len(s))
    <3>1. k - Len(s) \in 1..Len(t)
      BY <1>2, <1>3, <2>2
    <3>. QED BY <1>2, <2>2, <3>1 DEF IsText
  <2>. QED BY <2>1, <2>2
<1>. QED BY <1>2, <1>4 DEF IsText

\* Short texts.
LEMMA ShortTexts ==
  /\ IsText(<< >>)
  /\ \A x : Encodable(x) => IsText(<< x >>)
  /\ \A x, y : Encodable(x) /\ Encodable(y) => IsText(<< x, y >>)
  /\ \A x, y, z : Encodable(x) /\ Encodable(y) /\ Encodable(z) => IsText(<< x, y, z >>)
<1>1. IsText(<< >>)
  <2>1. << >> \in Seq({}) /\ Len(<< >>) = 0
    OBVIOUS
  <2>2. IsList(<< >>)
    BY <2>1, ListOf
  <2>. QED BY <2>1, <2>2 DEF IsText
<1>2. ASSUME NEW x, Encodable(x) PROVE IsText(<< x >>)
  <2>1. << x >> \in Seq({x})
    OBVIOUS
  <2>2. IsList(<< x >>)
    BY <2>1, ListOf
  <2>. QED BY <1>2, <2>2 DEF IsText
<1>3. ASSUME NEW x, NEW y, Encodable(x), Encodable(y) PROVE IsText(<< x, y >>)
  <2>1. << x, y >> \in Seq({x, y})
    OBVIOUS
  <2>2. IsList(<< x, y >>)
    BY <2>1, ListOf
  <2>. QED BY <1>3, <2>2 DEF IsText
<1>4. ASSUME NEW x, NEW y, NEW z, Encodable(x), Encodable(y), Encodable(z) PROVE IsText(<< x, y, z >>)
  <2>1. << x, y, z >> \in Seq({x, y, z})
    OBVIOUS
  <2>2. IsList(<< x, y, z >>)
    BY <2>1, ListOf
  <2>. QED BY <1>4, <2>2 DEF IsText
<1>. QED BY <1>1, <1>2, <1>3, <1>4

-------------------------------------------------------------------------------
(***************************************************************************)
(* Texts that are put together piece by piece, each piece saying where the *)
(* next one starts: the recursion of generateFunction and applyPeephole.   *)
(***************************************************************************)
Pieced(stop, last, piece, next, g) ==
  g = [k \in Nat |-> IF k \in stop THEN last[k] ELSE piece[k] \o g[next[k]]]

\* There is such a text: what starts at k depends on what starts later only,
\* and behind n nothing does.
LEMMA PiecedExists ==
  ASSUME NEW n \in Nat, NEW stop, NEW last, NEW piece, NEW next \in [Nat -> Nat],
         \A k \in Nat : k > n => k \in stop,
         \A k \in Nat : next[k] > k
  PROVE  \E g : Pieced(stop, last, piece, next, g)
<1> DEFINE From(k, g) == IF k \in stop THEN last[k] ELSE piece[k] \o g[next[k]]
<1> DEFINE Right(m, g) == g = [k \in Nat |-> g[k]] /\ \A k \in Nat : k >= m => g[k] = From(k, g)
<1> DEFINE Reached == {m \in Nat : \E g : Right(m, g)}
<1>1. n + 1 \in Reached
  <2> DEFINE g == [k \in Nat |-> last[k]]
  <2>1. Right(n + 1, g)
    <3>1. \A k \in Nat : k >= n + 1 => k \in stop
      OBVIOUS
    <3>. QED BY <3>1
  <2>2. n + 1 \in Nat
    OBVIOUS
  <2>. HIDE DEF g, Right
  <2>. QED BY <2>1, <2>2
<1>2. PICK m \in Reached : \A j \in Reached : m <= j
  <2>. HIDE DEF Reached
  <2>1. Reached \in SUBSET Nat
    BY DEF Reached
  <2>. QED BY <1>1, <2>1, LeastIndex
<1>3. PICK g : Right(m, g)
  OBVIOUS
<1>4. CASE m = 0
  <2>1. g = [k \in Nat |-> g[k]] /\ \A k \in Nat : k >= m => g[k] = From(k, g)
    BY <1>3
  <2>2. \A k \in Nat : g[k] = From(k, g)
    <3>. HIDE DEF From
    <3>. QED BY <1>4, <2>1
  <2>3. [k \in Nat |-> g[k]] = [k \in Nat |-> From(k, g)]
    <3>. HIDE DEF From
    <3>. QED BY <2>2
  <2>4. Pieced(stop, last, piece, next, g)
    BY <2>1, <2>3 DEF Pieced
  <2>. QED BY <2>4
<1>5. CASE m # 0
  <2>1. m - 1 \in Nat /\ m \in Nat
    BY <1>5
  <2> DEFINE h == [k \in Nat |-> IF k = m - 1 THEN From(k, g) ELSE g[k]]
  <2>2. ASSUME NEW k \in Nat, k >= m - 1 PROVE h[k] = From(k, h)
    <3>1. next[k] \in Nat /\ next[k] > k
      OBVIOUS
    <3>2. next[k] # m - 1
      BY <2>1, <2>2, <3>1
    <3>3. h[next[k]] = g[next[k]]
      BY <3>1, <3>2
    <3>4. From(k, h) = From(k, g)
      BY <3>3
    <3>5. CASE k = m - 1
      BY <3>4, <3>5
    <3>6. CASE k # m - 1
      <4>1. k >= m
        BY <2>1, <2>2, <3>6
      <4>. QED BY <1>3, <3>4, <3>6, <4>1
    <3>. QED BY <3>5, <3>6
  <2>3. Right(m - 1, h)
    <3>. HIDE DEF From
    <3>. QED BY <2>2
  <2>4. m - 1 \in Reached
    <3>. HIDE DEF h, Right
    <3>. QED BY <2>1, <2>3
  <2>. QED BY <1>2, <2>1, <2>4
<1>. QED BY <1>4, <1>5

\* What is pieced from text is text.
LEMMA PiecedText ==
  ASSUME NEW n \in Nat, NEW stop, NEW last, NEW piece, NEW next \in [Nat -> Nat], NEW g,
         \A k \in Nat : k > n => k \in stop,
         \A k \in Nat : next[k] > k,
         \A k \in Nat : k \in stop => IsText(last[k]),
         \A k \in Nat : k \notin stop => IsText(piece[k]),
         Pieced(stop, last, piece, next, g)
  PROVE  \A k \in Nat : IsText(g[k])
<1> DEFINE Wrong == {m \in Nat : m <= n /\ ~ IsText(g[m])}
<1>1. SUFFICES ASSUME NEW k \in Nat, ~ IsText(g[k]) PROVE FALSE
  OBVIOUS
<1>2. \A j \in Nat : g[j] = IF j \in stop THEN last[j] ELSE piece[j] \o g[next[j]]
  BY DEF Pieced
<1>3. k \in Wrong
  BY <1>1, <1>2
<1>4. Max(Wrong) \in Wrong /\ \A j \in Wrong : j <= Max(Wrong)
  <2>1. Wrong # {} /\ \A j \in Wrong : j \in Nat /\ j <= n
    BY <1>3
  <2>. HIDE DEF Wrong
  <2>. QED BY <2>1, GreatestIndex
<1>5. PICK m \in Wrong : \A j \in Wrong : j <= m
  BY <1>4
<1>6. next[m] \in Nat /\ next[m] > m /\ m \in Nat
  OBVIOUS
<1>7. IsText(g[next[m]])
  <2>1. next[m] \notin Wrong
    BY <1>5, <1>6
  <2>2. CASE next[m] > n
    <3>1. next[m] \in stop /\ g[next[m]] = last[next[m]]
      BY <1>2, <1>6, <2>2
    <3>. QED BY <1>6, <3>1
  <2>. QED BY <1>6, <2>1, <2>2
<1>8. IsText(g[m])
  BY <1>2, <1>6, <1>7, TextConcat
<1>. QED BY <1>8

-------------------------------------------------------------------------------
(***************************************************************************)
(* Lines.  Only the immediates of some instructions are limited.           *)
(***************************************************************************)
\* Powers of two double, one after the other.
LEMMA PowersDouble ==
  \A n \in 0..30 : 2^n \in Nat \ {0} /\ 2^(n + 1) = 2 * 2^n
<1>1. /\ 2^(0+1) = 2 * 2^0 /\ 2^(1+1) = 2 * 2^1 /\ 2^(2+1) = 2 * 2^2 /\ 2^(3+1) = 2 * 2^3
      /\ 2^(4+1) = 2 * 2^4 /\ 2^(5+1) = 2 * 2^5 /\ 2^(6+1) = 2 * 2^6 /\ 2^(7+1) = 2 * 2^7
      /\ 2^(8+1) = 2 * 2^8 /\ 2^(9+1) = 2 * 2^9 /\ 2^(10+1) = 2 * 2^10 /\ 2^(11+1) = 2 * 2^11
      /\ 2^(12+1) = 2 * 2^12 /\ 2^(13+1) = 2 * 2^13 /\ 2^(14+1) = 2 * 2^14 /\ 2^(15+1) = 2 * 2^15
      /\ 2^(16+1) = 2 * 2^16 /\ 2^(17+1) = 2 * 2^17 /\ 2^(18+1) = 2 * 2^18 /\ 2^(19+1) = 2 * 2^19
      /\ 2^(20+1) = 2 * 2^20 /\ 2^(21+1) = 2 * 2^21 /\ 2^(22+1) = 2 * 2^22 /\ 2^(23+1) = 2 * 2^23
      /\ 2^(24+1) = 2 * 2^24 /\ 2^(25+1) = 2 * 2^25 /\ 2^(26+1) = 2 * 2^26 /\ 2^(27+1) = 2 * 2^27
      /\ 2^(28+1) = 2 * 2^28 /\ 2^(29+1) = 2 * 2^29 /\ 2^(30+1) = 2 * 2^30
  OBVIOUS
<1>2. /\ 2^(0+1) \in Nat \ {0} /\ 2^(1+1) \in Nat \ {0} /\ 2^(2+1) \in Nat \ {0} /\ 2^(3+1) \in Nat \ {0}
      /\ 2^(4+1) \in Nat \ {0} /\ 2^(5+1) \in Nat \ {0} /\ 2^(6+1) \in Nat \ {0} /\ 2^(7+1) \in Nat \ {0}
      /\ 2^(8+1) \in Nat \ {0} /\ 2^(9+1) \in Nat \ {0} /\ 2^(10+1) \in Nat \ {0} /\ 2^(11+1) \in Nat \ {0}
      /\ 2^(12+1) \in Nat \ {0} /\ 2^(13+1) \in Nat \ {0} /\ 2^(14+1) \in Nat \ {0} /\ 2^(15+1) \in Nat \ {0}
      /\ 2^(16+1) \in Nat \ {0} /\ 2^(17+1) \in Nat \ {0} /\ 2^(18+1) \in Nat \ {0} /\ 2^(19+1) \in Nat \ {0}
      /\ 2^(20+1) \in Nat \ {0} /\ 2^(21+1) \in Nat \ {0} /\ 2^(22+1) \in Nat \ {0} /\ 2^(23+1) \in Nat \ {0}
      /\ 2^(24+1) \in Nat \ {0} /\ 2^(25+1) \in Nat \ {0} /\ 2^(26+1) \in Nat \ {0} /\ 2^(27+1) \in Nat \ {0}
      /\ 2^(28+1) \in Nat \ {0} /\ 2^(29+1) \in Nat \ {0} /\ 2^(30+1) \in Nat \ {0}
  OBVIOUS
<1> DEFINE Listed == {0, 1, 2, 3, 4, 5, 6, 7, 8, 9, 10, 11, 12, 13, 14, 15,
                      16, 17, 18, 19, 20, 21, 22, 23, 24, 25, 26, 27, 28, 29, 30}
<1>3. \A n \in Listed : 2^(n + 1) = 2 * 2^n /\ 2^(n + 1) \in Nat \ {0}
  BY ZenonT(60), <1>1, <1>2
<1>4. 0..30 = Listed
  OBVIOUS
<1>. HIDE DEF Listed
<1>5. \A n \in 0..30 : 2^(n + 1) = 2 * 2^n /\ 2^(n + 1) \in Nat \ {0}
  BY Zenon, <1>3, <1>4
<1>6. 2^0 = 1
  OBVIOUS
<1>7. ASSUME NEW n \in 0..30 PROVE 2^n \in Nat \ {0}
  <2>1. CASE n = 0
    BY <1>6, <2>1
  <2>2. CASE n # 0
    <3>1. n - 1 \in 0..30 /\ (n - 1) + 1 = n
      BY <2>2
    <3>. QED BY <1>5, <3>1
  <2>. QED BY <2>1, <2>2
<1>. QED BY <1>5, <1>7

\* The sizes of a word and an immediate.
LEMMA SmallNumbers ==
  /\ ImmHalf \in Nat /\ ImmHalf >= 8 /\ WordBits \in 6..32 /\ 2^(WordBits - 1) = Half
  /\ \A v \in (-8)..7 : fitsSigned12(v)
<1>1. ImmHalf \in Nat /\ ImmHalf >= 8
  <2>1. Len(SavedRegs) \in Nat
    BY RegistersApart
  <2>. QED BY <2>1, RegistersReach DEF WordBytes
<1>2. WordBits \in 6..32 /\ 2^(WordBits - 1) = Half
  BY Zenon, RegistersReach
<1>3. \A v \in (-8)..7 : fitsSigned12(v)
  BY <1>1 DEF fitsSigned12
<1>. QED BY <1>1, <1>2, <1>3

\* A line without an immediate, or with 0, can be assembled.
LEMMA PlainLine ==
  ASSUME NEW op, NEW rd \in Usable, NEW rs \in Usable, NEW rt \in Usable, NEW to
  PROVE  Encodable(Line(op, rd, rs, rt, 0, to))
<1>1. fitsSigned12(0) /\ 0 \in 0..(WordBits - 1)
  BY SmallNumbers
<1>. QED BY <1>1 DEF Encodable, Line, Usable

\* A line with an immediate that fits.
LEMMA SmallLine ==
  ASSUME NEW op, NEW rd \in Usable, NEW rs \in Usable, NEW rt \in Usable, NEW v, NEW to,
         fitsSigned12(v), op \notin {"slli", "srli", "srai"}
  PROVE  Encodable(Line(op, rd, rs, rt, v, to))
BY DEF Encodable, Line, Usable

\* A shift.
LEMMA ShiftLine ==
  ASSUME NEW op \in {"slli", "srli", "srai"}, NEW rd \in Usable, NEW rs \in Usable, NEW v \in 0..(WordBits - 1)
  PROVE  Encodable(I(op, rd, rs, v))
BY DEF Encodable, I, Line, Usable

\* li takes any constant.
LEMMA LiLine ==
  ASSUME NEW rd \in Usable, NEW v
  PROVE  Encodable(Li(rd, v))
BY DEF Encodable, Li, I, Line, Usable

\* The kinds of lines that hold no immediate.
LEMMA PlainLines ==
  /\ \A op, rd, rs, rt : {rd, rs, rt} \subseteq Usable => Encodable(R(op, rd, rs, rt))
  /\ \A op, rd, rs : {rd, rs} \subseteq Usable => Encodable(U(op, rd, rs))
  /\ \A rd, g : rd \in Usable => Encodable(La(rd, g))
  /\ \A op, rs, rt, to : {rs, rt} \subseteq Usable => Encodable(B(op, rs, rt, to))
  /\ \A op, rs, to : rs \in Usable => Encodable(Z(op, rs, to))
  /\ \A to : Encodable(J(to)) /\ Encodable(At(to))
  /\ \A f : Encodable(CallTo(f))
  /\ Encodable(Ret) /\ Encodable(TheEnd)
<1>1. "x0" \in Usable
  BY DEF Usable
<1>. QED BY <1>1, PlainLine DEF R, U, La, B, Z, J, At, CallTo, Ret, TheEnd

\* A line names registers.
LEMMA LineNames ==
  ASSUME NEW x, Encodable(x)
  PROVE  x.rd \in Usable /\ x.rs \in Usable /\ x.rt \in Usable
BY DEF Encodable, Usable

-------------------------------------------------------------------------------
(***************************************************************************)
(* The peephole pass.  A window takes a line at least, and leaves lines    *)
(* that can be assembled if those it takes can.                            *)
(***************************************************************************)
Good(w) == w.length \in Nat \ {0} /\ IsText(w.lines)
AllGood(ws) == IsList(ws) /\ \A k \in 1..Len(ws) : Good(ws[k])

\* A window that is left out, and one.
LEMMA OneWindow ==
  /\ AllGood(<< >>)
  /\ \A n \in Nat \ {0} : \A s : IsText(s) => AllGood(<< Window(n, s) >>)
<1>1. AllGood(<< >>)
  <2>1. << >> \in Seq({}) /\ Len(<< >>) = 0
    OBVIOUS
  <2>2. IsList(<< >>)
    BY <2>1, ListOf
  <2>. QED BY <2>1, <2>2 DEF AllGood
<1>2. ASSUME NEW n \in Nat \ {0}, NEW s, IsText(s) PROVE AllGood(<< Window(n, s) >>)
  <2>1. << Window(n, s) >> \in Seq({Window(n, s)})
    OBVIOUS
  <2>2. IsList(<< Window(n, s) >>)
    BY <2>1, ListOf
  <2>3. Good(Window(n, s))
    BY <1>2 DEF Good, Window
  <2>. QED BY <2>2, <2>3 DEF AllGood
<1>. QED BY <1>1, <1>2

\* Windows are put together.
LEMMA GoodConcat ==
  ASSUME NEW s, NEW t, AllGood(s), AllGood(t)
  PROVE  AllGood(s \o t)
<1>1. IsList(s) /\ IsList(t)
  BY DEF AllGood
<1>2. /\ IsList(s \o t) /\ Len(s \o t) = Len(s) + Len(t)
      /\ \A k \in 1..Len(s \o t) : (s \o t)[k] = IF k <= Len(s) THEN s[k] ELSE t[k - Len(s)]
  BY <1>1, ListConcat
<1>3. Len(s) \in Nat /\ Len(t) \in Nat
  BY <1>1, ListShape
<1>4. ASSUME NEW k \in 1..Len(s \o t) PROVE Good((s \o t)[k])
  <2>1. CASE k <= Len(s)
    BY <1>2, <1>3, <2>1 DEF AllGood
  <2>2. CASE ~ (k <= Len(s))
    <3>1. k - Len(s) \in 1..Len(t)
      BY <1>2, <1>3, <2>2
    <3>. QED BY <1>2, <2>2, <3>1 DEF AllGood
  <2>. QED BY <2>1, <2>2
<1>. QED BY <1>2, <1>4 DEF AllGood

\* The lines that a window looks at.
LEMMA LinesBehind ==
  ASSUME NEW lines, IsText(lines), NEW k \in Nat
  PROVE  Encodable(Behind(lines, k))
<1>1. Len(lines) \in Nat
  BY ListShape DEF IsText
<1>2. CASE k < Len(lines)
  <2>1. k + 1 \in 1..Len(lines)
    BY <1>1, <1>2
  <2>. QED BY <1>2, <2>1 DEF IsText, Behind
<1>3. CASE ~ (k < Len(lines))
  BY <1>3, PlainLines DEF Behind
<1>. QED BY <1>2, <1>3

\* A jump to the next line, a load of what was just stored, a move to where the
\* value is: what replaces them names the same registers.
LEMMA IdleWindowsGood ==
  ASSUME NEW lines, IsText(lines), Len(lines) # 0
  PROVE  AllGood(IdleWindows(lines))
<1> DEFINE first == lines[1]
           second == Behind(lines, 1)
           jump == IF first.op = "j" /\ second = At(first.to) THEN << Window(1, << >>) >> ELSE << >>
           store == IF first.op = "sw" /\ second = Lw(first.rt, first.rs, first.imm)
                    THEN << Window(2, << first >>) >> ELSE << >>
           move == IF first.rd = first.rs /\ (first.op = "mv" \/ (first.op \in {"addi", "xori"} /\ first.imm = 0))
                   THEN << Window(1, << >>) >> ELSE << >>
<1>1. Encodable(first)
  <2>1. Len(lines) \in Nat
    BY ListShape DEF IsText
  <2>. QED BY <2>1 DEF IsText
<1>2. AllGood(jump) /\ AllGood(move)
  BY OneWindow, ShortTexts
<1>3. AllGood(store)
  BY <1>1, OneWindow, ShortTexts
<1>4. IdleWindows(lines) = jump \o store \o move
  BY DEF IdleWindows
<1>. HIDE DEF jump, store, move
<1>. QED BY <1>2, <1>3, <1>4, GoodConcat

\* A comparison and the branch on it become one branch on registers.
LEMMA CompareWindowsGood ==
  ASSUME NEW lines, IsText(lines), Len(lines) # 0
  PROVE  AllGood(CompareWindows(lines))
<1> DEFINE first == lines[1]
           rd == first.rd
           second == Behind(lines, 1)
           third == Behind(lines, 2)
           Less(line) == IF line.op = "bnez" THEN "blt" ELSE "bge"
           NotLess(line) == IF line.op = "bnez" THEN "bge" ELSE "blt"
           Equal(line) == IF (line.op = "bnez") = (second.op = "seqz") THEN "beq" ELSE "bne"
           less == IF first.op = "slt" /\ Tests(second, rd)
                   THEN << Window(2, << B(Less(second), first.rs, first.rt, second.to) >>) >> ELSE << >>
           equal == IF first.op = "sub" /\ (InPlace(second, "seqz", rd) \/ InPlace(second, "snez", rd)) /\ Tests(third, rd)
                    THEN << Window(3, << B(Equal(third), first.rs, first.rt, third.to) >>) >> ELSE << >>
           notless == IF first.op = "slt" /\ InPlace(second, "xori", rd) /\ Tests(third, rd)
                      THEN << Window(3, << B(NotLess(third), first.rs, first.rt, third.to) >>) >> ELSE << >>
<1>1. first.rs \in Usable /\ first.rt \in Usable
  <2>1. Len(lines) \in Nat
    BY ListShape DEF IsText
  <2>. QED BY <2>1, LineNames DEF IsText
<1>2. \A op, to : IsText(<< B(op, first.rs, first.rt, to) >>)
  BY <1>1, PlainLines, ShortTexts
<1>3. \A n \in 1..4 : \A op, to : AllGood(<< Window(n, << B(op, first.rs, first.rt, to) >>) >>)
  BY <1>2, OneWindow
<1>4. AllGood(less) /\ AllGood(equal) /\ AllGood(notless)
  BY <1>3, OneWindow
<1>5. CompareWindows(lines) = less \o equal \o notless
  BY DEF CompareWindows
<1>. HIDE DEF less, equal, notless
<1>. QED BY <1>4, <1>5, GoodConcat

\* Constants are compared with by addi; what is added fits.
LEMMA ConstantWindowsGood ==
  ASSUME NEW lines, IsText(lines), Len(lines) # 0
  PROVE  AllGood(ConstantWindows(lines))
<1> DEFINE first == lines[1]
           second == Behind(lines, 1)
           third == Behind(lines, 2)
           fourth == Behind(lines, 3)
           NonZero == (third.op = "seqz") = (fourth.op = "beqz")
           OnDifference(r, v, op, to) == << I("addi", r, second.rs, -v), Z(op, r, to) >>
           Zero == IF NonZero THEN "bnez" ELSE "beqz"
           Sign(line) == IF first.imm = 1 THEN (IF line.op = "beqz" THEN "bgtz" ELSE "blez")
                         ELSE (IF line.op = "beqz" THEN "bgez" ELSE "bltz")
           difference ==
             IF /\ first.op = "li" /\ first.rd = "t1" /\ first.imm \in (1 - ImmHalf)..ImmHalf
                /\ second.op = "sub" /\ second.rt = "t1"
                /\ InPlace(third, "seqz", second.rd) \/ InPlace(third, "snez", second.rd)
                /\ Tests(fourth, second.rd)
             THEN << Window(4, IF first.imm = 0 THEN << Z(Zero, second.rs, fourth.to) >>
                               ELSE OnDifference(second.rd, first.imm, Zero, fourth.to)) >>
             ELSE << >>
           notless ==
             IF /\ first.op = "slti" /\ third # TheEnd /\ first.imm # -ImmHalf
                /\ InPlace(second, "xori", first.rd) /\ Tests(third, first.rd)
             THEN << Window(3, << I("addi", first.rd, first.rs, -first.imm),
                                  Z(IF third.op = "beqz" THEN "bltz" ELSE "bgez", first.rd, third.to) >>) >>
             ELSE << >>
           sign ==
             IF first.op = "slti" /\ third # TheEnd /\ first.imm \in {0, 1} /\ Tests(second, first.rd)
             THEN << Window(2, << Z(Sign(second), first.rs, second.to) >>) >> ELSE << >>
<1>1. /\ Encodable(first)
      /\ first.rs \in Usable /\ first.rd \in Usable /\ second.rs \in Usable /\ second.rd \in Usable
  <2>1. Len(lines) \in Nat
    BY ListShape DEF IsText
  <2>2. Encodable(first) /\ Encodable(second)
    BY <2>1, LinesBehind DEF IsText
  <2>. QED BY <2>2, LineNames
<1>2. "x0" \in Usable
  BY DEF Usable
<1>3. ASSUME NEW v \in (1 - ImmHalf)..ImmHalf PROVE fitsSigned12(-v)
  BY SmallNumbers DEF fitsSigned12
<1>4. \A r \in Usable : \A op, to : IsText(<< Z(op, r, to) >>)
  BY PlainLines, ShortTexts
<1>5. \A r, b \in Usable, v \in (1 - ImmHalf)..ImmHalf : \A op, to : IsText(<< I("addi", r, b, -v), Z(op, r, to) >>)
  <2>1. SUFFICES ASSUME NEW r \in Usable, NEW b \in Usable, NEW v \in (1 - ImmHalf)..ImmHalf, NEW op, NEW to
                 PROVE IsText(<< I("addi", r, b, -v), Z(op, r, to) >>)
    OBVIOUS
  <2>2. Encodable(I("addi", r, b, -v))
    BY <1>2, <1>3, SmallLine DEF I
  <2>3. Encodable(Z(op, r, to))
    BY PlainLines
  <2>. QED BY <2>2, <2>3, ShortTexts
<1>6. /\ \A n \in 1..4, r \in Usable : \A op, to : AllGood(<< Window(n, << Z(op, r, to) >>) >>)
      /\ \A n \in 1..4, r, b \in Usable, v \in (1 - ImmHalf)..ImmHalf : \A op, to :
           AllGood(<< Window(n, << I("addi", r, b, -v), Z(op, r, to) >>) >>)
  <2>1. 1..4 \subseteq Nat \ {0}
    OBVIOUS
  <2>2. \A n \in 1..4, r \in Usable : \A op, to : AllGood(<< Window(n, << Z(op, r, to) >>) >>)
    BY <1>4, <2>1, OneWindow
  <2>3. \A n \in 1..4, r, b \in Usable, v \in (1 - ImmHalf)..ImmHalf : \A op, to :
          AllGood(<< Window(n, << I("addi", r, b, -v), Z(op, r, to) >>) >>)
    BY <1>5, <2>1, OneWindow
  <2>. QED BY <2>2, <2>3
<1>7. AllGood(difference)
  <2>1. CASE difference = << >>
    BY <2>1, OneWindow
  <2>2. CASE difference # << >>
    <3>1. first.imm \in (1 - ImmHalf)..ImmHalf
      BY <2>2
    <3>2. CASE first.imm = 0
      <4>1. difference = << Window(4, << Z(Zero, second.rs, fourth.to) >>) >>
        BY <2>2, <3>2
      <4>2. AllGood(<< Window(4, << Z(Zero, second.rs, fourth.to) >>) >>)
        <5>. HIDE DEF Zero, second, fourth
        <5>. QED BY <1>1, <1>6
      <4>. QED BY <4>1, <4>2
    <3>3. CASE first.imm # 0
      <4>1. difference = << Window(4, << I("addi", second.rd, second.rs, -first.imm), Z(Zero, second.rd, fourth.to) >>) >>
        BY <2>2, <3>3
      <4>. QED BY <1>1, <1>6, <3>1, <4>1
    <3>. QED BY <3>2, <3>3
  <2>. QED BY <2>1, <2>2
<1>8. AllGood(notless)
  <2>1. first.op = "slti" /\ first.imm # -ImmHalf => first.imm \in (1 - ImmHalf)..ImmHalf
    BY SMTT(60), <1>1, SmallNumbers DEF Encodable, fitsSigned12
  <2>. QED BY <1>1, <1>6, <2>1, OneWindow
<1>9. AllGood(sign)
  <2>1. CASE sign = << >>
    BY <2>1, OneWindow
  <2>2. CASE sign # << >>
    <3>1. sign = << Window(2, << Z(Sign(second), first.rs, second.to) >>) >>
      BY <2>2
    <3>2. AllGood(<< Window(2, << Z(Sign(second), first.rs, second.to) >>) >>)
      <4>. HIDE DEF Sign, first, second
      <4>. QED BY <1>1, <1>6
    <3>. QED BY <3>1, <3>2
  <2>. QED BY <2>1, <2>2
<1>10. ConstantWindows(lines) = difference \o notless \o sign
  BY DEF ConstantWindows
<1>. HIDE DEF difference, notless, sign
<1>. QED BY <1>7, <1>8, <1>9, <1>10, GoodConcat

\* The window at a line.
LEMMA WindowGood ==
  ASSUME NEW lines, IsText(lines), Len(lines) # 0
  PROVE  Good(WindowAt(lines))
<1> DEFINE one == << Window(1, << Head(lines) >>) >>
           known == IdleWindows(lines) \o CompareWindows(lines) \o ConstantWindows(lines)
<1>1. IsText(<< Head(lines) >>)
  <2>1. Len(lines) \in Nat /\ IsList(lines)
    BY ListShape DEF IsText
  <2>2. Head(lines) = lines[1] /\ Encodable(lines[1])
    BY <2>1 DEF IsText, IsList
  <2>. QED BY <2>2, ShortTexts
<1>2. AllGood(one) /\ Len(one) = 1
  BY <1>1, OneWindow
<1>3. AllGood(known)
  BY IdleWindowsGood, CompareWindowsGood, ConstantWindowsGood, GoodConcat
<1>4. WindowAt(lines) = Head(known \o one)
  BY DEF WindowAt
<1>. HIDE DEF one, known
<1>5. AllGood(known \o one) /\ Len(known \o one) >= 1
  <2>1. IsList(known) /\ IsList(one)
    BY <1>2, <1>3 DEF AllGood
  <2>2. Len(known) \in Nat /\ Len(known \o one) = Len(known) + Len(one)
    BY <2>1, ListShape, ListConcat
  <2>. QED BY <1>2, <1>3, <2>2, GoodConcat
<1>6. Head(known \o one) = (known \o one)[1] /\ Len(known \o one) \in Nat
  <2>1. IsList(known \o one)
    BY <1>5 DEF AllGood
  <2>. HIDE DEF AllGood
  <2> DEFINE all == known \o one
  <2>2. all \in Seq(Range(all))
    BY <2>1 DEF IsList
  <2>3. all # << >>
    BY <1>5
  <2>. HIDE DEF all
  <2>4. Head(all) = all[1] /\ Len(all) \in Nat
    BY <2>2, <2>3
  <2>. QED BY <2>4 DEF all
<1>. QED BY <1>4, <1>5, <1>6 DEF AllGood

(***************************************************************************)
(* The pass makes text of text.                                            *)
(***************************************************************************)
LEMMA PeepholeText ==
  ASSUME NEW lines, IsText(lines)
  PROVE  IsText(applyPeephole(lines))
<1> DEFINE W(k) == WindowAt(SubSeq(lines, k, Len(lines)))
           stop == {k \in Nat : k \notin 1..Len(lines)}
           last == [k \in Nat |-> << >>]
           piece == [k \in Nat |-> W(k).lines]
           next == [k \in Nat |-> IF k \in stop THEN k + 1 ELSE k + W(k).length]
           Fits(g) == g = [k \in Nat |-> IF k \notin 1..Len(lines) THEN << >> ELSE W(k).lines \o g[k + W(k).length]]
<1>1. Len(lines) \in Nat /\ IsList(lines)
  BY ListShape DEF IsText
<1>2. ASSUME NEW k \in Nat \ stop PROVE Good(W(k))
  <2>1. k \in 1..Len(lines)
    BY <1>1
  <2>2. SubSeq(lines, k, Len(lines)) \in Seq(Range(lines)) /\ Len(SubSeq(lines, k, Len(lines))) = Len(lines) - k + 1
    BY <1>1, <2>1 DEF IsList
  <2>3. IsText(SubSeq(lines, k, Len(lines)))
    <3>1. \A j \in 1..(Len(lines) - k + 1) : SubSeq(lines, k, Len(lines))[j] = lines[k + j - 1] /\ k + j - 1 \in 1..Len(lines)
      BY <1>1, <2>1 DEF IsList
    <3>. QED BY <2>2, <3>1, ListOf DEF IsText
  <2>4. Len(SubSeq(lines, k, Len(lines))) # 0
    BY <1>1, <2>1, <2>2
  <2>. QED BY <2>3, <2>4, WindowGood
<1>3. applyPeephole(lines) = (CHOOSE g : Fits(g))[1]
  BY DEF applyPeephole
<1>4. \A g : Fits(g) <=> Pieced(stop, last, piece, next, g)
  <2>1. ASSUME NEW g
        PROVE  [k \in Nat |-> IF k \notin 1..Len(lines) THEN << >> ELSE W(k).lines \o g[k + W(k).length]]
                 = [k \in Nat |-> IF k \in stop THEN last[k] ELSE piece[k] \o g[next[k]]]
    OBVIOUS
  <2>. QED BY <2>1 DEF Pieced
<1>5. next \in [Nat -> Nat] /\ \A k \in Nat : next[k] > k
  BY <1>2 DEF Good
<1>6. \A k \in Nat : k > Len(lines) => k \in stop
  BY <1>1
<1>7. \A k \in Nat : (k \in stop => IsText(last[k])) /\ (k \notin stop => IsText(piece[k]))
  BY <1>2, ShortTexts DEF Good
<1>. HIDE DEF stop, last, piece, next, Fits
<1>8. \E g : Fits(g)
  BY <1>1, <1>4, <1>5, <1>6, PiecedExists
<1> DEFINE from == CHOOSE g : Fits(g)
<1>9. Pieced(stop, last, piece, next, from)
  BY <1>4, <1>8
<1>. HIDE DEF from
<1>. HIDE DEF W
<1>10. \A k \in Nat : IsText(from[k])
  <2>1. Len(lines) \in Nat /\ next \in [Nat -> Nat]
    BY Zenon, <1>1, <1>5
  <2>2. \A k \in Nat : next[k] > k
    BY Zenon, <1>5
  <2>3. \A k \in Nat : k \in stop => IsText(last[k])
    BY Zenon, <1>7
  <2>4. \A k \in Nat : k \notin stop => IsText(piece[k])
    BY Zenon, <1>7
  <2>. HIDE DEF from
  <2>. QED BY Zenon, <1>6, <1>9, <2>1, <2>2, <2>3, <2>4, PiecedText
<1>. QED BY <1>3, <1>10 DEF from

-------------------------------------------------------------------------------
(***************************************************************************)
(* A frame gives registers of the machine.                                 *)
(***************************************************************************)
IsLayout(fr) ==
  /\ \A n \in DOMAIN fr.locals : fr.locals[n] \in Registers
  /\ \A n \in DOMAIN fr.globals : fr.globals[n] \in Registers
  /\ \A v \in DOMAIN fr.constants : fr.constants[v] \in Registers

\* The registers that the selection names itself are the machine's.
LEMMA NamedRegisters ==
  /\ {"t0", "t1", "t2", "t3", "sp", "s0", "ra", "x0"} \subseteq Usable
  /\ \A k \in 1..Len(ArgRegs) : ArgRegs[k] \in Usable
  /\ \A k \in 1..Len(SavedRegs) : SavedRegs[k] \in Usable
<1>1. /\ TempRegs \in Seq(STRING) /\ TempRegs # << >> /\ ArgRegs \in Seq(STRING) /\ SavedRegs \in Seq(STRING)
      /\ TempRegs[1] = "t3"
  BY Zenon, RegistersApart, RegistersReach
<1>2. "t3" \in ToSet(TempRegs)
  BY <1>1 DEF ToSet
<1>3. /\ \A k \in 1..Len(ArgRegs) : ArgRegs[k] \in ToSet(ArgRegs)
      /\ \A k \in 1..Len(SavedRegs) : SavedRegs[k] \in ToSet(SavedRegs)
  BY <1>1 DEF ToSet
<1>. QED BY <1>2, <1>3 DEF Usable, Registers, Destroyed, Scratch

\* So are those that it finds in the frame.
LEMMA LayoutRegisters ==
  ASSUME NEW fr, IsLayout(fr)
  PROVE  /\ \A o : RegOf(fr, o) # NoReg => RegOf(fr, o) \in Usable
         /\ \A o : DestReg(fr, o) \in Usable
         /\ \A v : ConstReg(fr, v) # NoReg => ConstReg(fr, v) \in Usable
         /\ \A o : ConstRegOf(fr, o) # NoReg => ConstRegOf(fr, o) \in Usable
         /\ \A v, r : r \in Usable => Holding(fr, v, r) \in Usable
         /\ \A o, r : r \in Usable => LeftReg(fr, o, r) \in Usable
         /\ \A o, r : RightReg(fr, o, r) \in Usable
<1>1. \A o : RegOf(fr, o) # NoReg => RegOf(fr, o) \in Usable
  BY DEF RegOf, IsLayout, Usable
<1>2. \A v : ConstReg(fr, v) # NoReg => ConstReg(fr, v) \in Usable
  BY DEF ConstReg, IsLayout, Usable
<1>3. \A o : ConstRegOf(fr, o) # NoReg => ConstRegOf(fr, o) \in Usable
  BY <1>2 DEF ConstRegOf
<1>4. \A o : DestReg(fr, o) \in Usable
  BY <1>1, NamedRegisters DEF DestReg
<1>5. \A v, r : r \in Usable => Holding(fr, v, r) \in Usable
  BY <1>2 DEF Holding
<1>6. \A o, r : r \in Usable => LeftReg(fr, o, r) \in Usable
  BY <1>1, <1>3 DEF LeftReg
<1>7. \A o, r : RightReg(fr, o, r) \in Usable
  BY <1>1, <1>3, NamedRegisters DEF RightReg
<1>. QED BY <1>1, <1>2, <1>3, <1>4, <1>5, <1>6, <1>7

(***************************************************************************)
(* Loads and stores.                                                       *)
(***************************************************************************)
LEMMA AccessText ==
  ASSUME NEW r \in Usable, NEW base \in Usable, NEW offset
  PROVE  IsText(LoadFromAddress(r, base, offset)) /\ IsText(StoreToAddress(r, base, offset))
<1> DEFINE scratch == IF r = "t2" THEN "t1" ELSE "t2"
<1>1. "x0" \in Usable /\ scratch \in Usable
  BY NamedRegisters
<1>2. /\ Encodable(Li(scratch, offset)) /\ Encodable(R("add", scratch, base, scratch))
      /\ Encodable(Lw(r, scratch, 0)) /\ Encodable(Sw(r, scratch, 0))
  BY <1>1, LiLine, PlainLine DEF R, Lw, I, Sw
<1>3. fitsSigned12(offset) => Encodable(Lw(r, base, offset)) /\ Encodable(Sw(r, base, offset))
  BY <1>1, SmallLine DEF Lw, I, Sw
<1>4. LoadFromAddress(r, base, offset) =
        IF fitsSigned12(offset) THEN << Lw(r, base, offset) >>
        ELSE << Li(scratch, offset), R("add", scratch, base, scratch), Lw(r, scratch, 0) >>
  BY DEF LoadFromAddress, Reaching
<1>5. StoreToAddress(r, base, offset) =
        IF fitsSigned12(offset) THEN << Sw(r, base, offset) >>
        ELSE << Li(scratch, offset), R("add", scratch, base, scratch), Sw(r, scratch, 0) >>
  BY DEF StoreToAddress, Reaching
<1>. HIDE DEF scratch
<1>. QED BY <1>2, <1>3, <1>4, <1>5, ShortTexts

\* A move, or nothing.
LEMMA MoveText ==
  ASSUME NEW rd \in Usable, NEW rs \in Usable
  PROVE  IsText(Move(rd, rs))
<1>1. Encodable(U("mv", rd, rs))
  BY PlainLines
<1>. QED BY <1>1, ShortTexts DEF Move

\* A constant that has no register is loaded into r.
LEMMA ProvidingText ==
  ASSUME NEW fr, NEW v, NEW r \in Usable
  PROVE  IsText(Providing(fr, v, r))
BY LiLine, ShortTexts DEF Providing

\* An operand in r: from its register, its slot or its symbol.
LEMMA LoadText ==
  ASSUME NEW fr, IsLayout(fr), NEW o, NEW r \in Usable
  PROVE  IsText(Load(fr, o, r))
<1>1. IsText(LoadImmediate(fr, o.imm, r))
  BY LiLine, ShortTexts, LayoutRegisters, MoveText DEF LoadImmediate
<1>2. RegOf(fr, o) # NoReg => IsText(Move(r, RegOf(fr, o)))
  BY LayoutRegisters, MoveText
<1>3. IsText(LoadFromAddress(r, "s0", LocalOffset(fr, o.name)))
  BY NamedRegisters, AccessText
<1>4. IsText(<< La("t2", o.name), Lw(r, "t2", 0) >>)
  <2>1. Encodable(La("t2", o.name)) /\ Encodable(Lw(r, "t2", 0))
    BY NamedRegisters, PlainLine DEF La, Lw, I
  <2>. QED BY <2>1, ShortTexts
<1>. QED BY <1>1, <1>2, <1>3, <1>4 DEF Load

\* The way back.
LEMMA StoreText ==
  ASSUME NEW fr, IsLayout(fr), NEW o, NEW r \in Usable
  PROVE  IsText(Store(fr, r, o))
<1>1. RegOf(fr, o) # NoReg => IsText(Move(RegOf(fr, o), r))
  BY LayoutRegisters, MoveText
<1>2. IsText(StoreToAddress(r, "s0", LocalOffset(fr, o.name)))
  BY NamedRegisters, AccessText
<1>3. IsText(<< La("t2", o.name), Sw(r, "t2", 0) >>)
  <2>1. Encodable(La("t2", o.name)) /\ Encodable(Sw(r, "t2", 0))
    BY NamedRegisters, PlainLine DEF La, Sw
  <2>. QED BY <2>1, ShortTexts
<1>. QED BY <1>1, <1>2, <1>3 DEF Store

\* What is left in t0 is stored.
LEMMA FinishText ==
  ASSUME NEW fr, IsLayout(fr), NEW o
  PROVE  IsText(Finish(fr, o))
BY NamedRegisters, StoreText, ShortTexts DEF Finish

\* Both operands.
LEMMA LoadSourcesText ==
  ASSUME NEW fr, IsLayout(fr), NEW inst, NEW rd \in Usable
  PROVE  IsText(LoadSources(fr, inst, rd))
<1>1. IsText(Load(fr, inst.src2, "t1")) /\ IsText(Load(fr, inst.src1, rd)) /\ IsText(<< >>)
  BY NamedRegisters, LoadText, ShortTexts
<1>. QED BY <1>1, TextConcat DEF LoadSources

(***************************************************************************)
(* Arithmetic with constants.  Every shift is by less than a word has      *)
(* bits.                                                                   *)
(***************************************************************************)
LEMMA LogFits ==
  ASSUME NEW v, IsPowerOfTwo(v)
  PROVE  /\ Log2(v) \in 0..(WordBits - 2) /\ v = 2^Log2(v) /\ v >= 1 /\ v \in Int
         /\ v # 1 => Log2(v) # 0
<1>1. Log2(v) \in 0..(WordBits - 2) /\ v = 2^Log2(v)
  BY DEF Log2, IsPowerOfTwo
<1>2. Log2(v) \in 0..30
  BY <1>1, SmallNumbers
<1>3. 2^0 = 1
  OBVIOUS
<1>4. 2^Log2(v) \in Nat \ {0}
  BY <1>2, PowersDouble
<1>5. v >= 1 /\ v \in Int
  BY <1>1, <1>4
<1>. QED BY <1>1, <1>3, <1>5

-------------------------------------------------------------------------------
(***************************************************************************)
(* The multiplier and the shift of a division by a constant.  What is      *)
(* computed round by round, from a first state on, is there for any number *)
(* of rounds.                                                              *)
(***************************************************************************)
LEMMA RoundsExist ==
  ASSUME NEW S, NEW base \in S, NEW step \in [S -> S]
  PROVE  \E g \in [Nat -> S] : g = [k \in Nat |-> IF k = 0 THEN base ELSE step[g[k - 1]]]
<1> DEFINE Up(n, g) == g \in [Nat -> S] /\ g[0] = base /\ \A k \in 1..n : g[k] = step[g[k - 1]]
           Short == {n \in Nat : ~ \E g : Up(n, g)}
<1>1. ASSUME NEW n \in Nat PROVE \E g : Up(n, g)
  <2>1. SUFFICES ASSUME Short # {} PROVE FALSE
    BY DEF Short
  <2>2. PICK m \in Short : \A j \in Short : m <= j
    <3>1. Short \in SUBSET Nat
      OBVIOUS
    <3>. HIDE DEF Short
    <3>. QED BY <2>1, <3>1, LeastIndex
  <2>3. m # 0
    <3>1. Up(0, [k \in Nat |-> base])
      OBVIOUS
    <3>2. \E g : Up(0, g)
      <4>. HIDE DEF Up
      <4>. QED BY <3>1
    <3>. QED BY <3>2
  <2>4. m - 1 \in Nat /\ m - 1 < m
    BY <2>3
  <2>5. PICK g : Up(m - 1, g)
    <3>1. m - 1 \notin Short
      BY <2>2, <2>4
    <3>. QED BY <2>4, <3>1
  <2> DEFINE h == [k \in Nat |-> IF k = m THEN step[g[m - 1]] ELSE g[k]]
  <2>6. Up(m, h)
    <3>1. h \in [Nat -> S] /\ h[0] = base
      BY <2>3, <2>4, <2>5
    <3>2. ASSUME NEW k \in 1..m PROVE h[k] = step[h[k - 1]]
      <4>1. k - 1 \in Nat /\ k - 1 # m /\ k \in Nat
        OBVIOUS
      <4>2. h[k - 1] = g[k - 1]
        BY <4>1
      <4>3. CASE k = m
        BY <4>2, <4>3
      <4>4. CASE k # m
        <5>1. k \in 1..(m - 1)
          BY <4>4
        <5>. QED BY <2>5, <4>1, <4>2, <4>4, <5>1
      <4>. QED BY <4>3, <4>4
    <3>. QED BY <3>1, <3>2
  <2>. HIDE DEF Up, h
  <2>. QED BY <2>2, <2>6
<1>2. ASSUME NEW m \in Nat, NEW n \in Nat, m <= n, NEW g, NEW h, Up(m, g), Up(n, h) PROVE g[m] = h[m]
  <2> DEFINE Differ == {k \in Nat : k <= m /\ g[k] # h[k]}
  <2>1. SUFFICES ASSUME Differ # {} PROVE FALSE
    OBVIOUS
  <2>2. PICK k \in Differ : \A j \in Differ : k <= j
    <3>1. Differ \in SUBSET Nat
      OBVIOUS
    <3>. HIDE DEF Differ
    <3>. QED BY <2>1, <3>1, LeastIndex
  <2>3. k # 0
    BY <1>2
  <2>4. k - 1 \in Nat /\ k - 1 <= m /\ k - 1 < k
    BY <1>2, <2>3
  <2>5. g[k - 1] = h[k - 1]
    <3>1. k - 1 \notin Differ
      BY <2>2, <2>4
    <3>. QED BY <2>4, <3>1
  <2>6. k \in 1..m /\ k \in 1..n
    BY <1>2, <2>3
  <2>. QED BY <1>2, <2>5, <2>6
<1> DEFINE Run(n) == CHOOSE g : Up(n, g)
<1>3. \A n \in Nat : Up(n, Run(n))
  <2>. HIDE DEF Up
  <2>. QED BY <1>1
<1> DEFINE f == [n \in Nat |-> Run(n)[n]]
<1>4. f \in [Nat -> S] /\ f[0] = base
  <2>. HIDE DEF Run
  <2>. QED BY <1>3
<1>5. ASSUME NEW k \in Nat, k # 0 PROVE f[k] = step[f[k - 1]]
  <2>1. k - 1 \in Nat /\ k - 1 <= k /\ k \in 1..k
    BY <1>5
  <2>2. Run(k - 1)[k - 1] = Run(k)[k - 1]
    <3>. HIDE DEF Up, Run
    <3>. QED BY <1>2, <1>3, <2>1
  <2>3. Run(k)[k] = step[Run(k)[k - 1]]
    <3>. HIDE DEF Run
    <3>. QED BY <1>3, <2>1
  <2>. HIDE DEF Run
  <2>. QED BY <2>1, <2>2, <2>3
<1>6. f = [k \in Nat |-> IF k = 0 THEN base ELSE step[f[k - 1]]]
  <2>1. f = [k \in Nat |-> f[k]]
    BY <1>4
  <2>. HIDE DEF f
  <2>2. [k \in Nat |-> f[k]] = [k \in Nat |-> IF k = 0 THEN base ELSE step[f[k - 1]]]
    BY <1>4, <1>5
  <2>. QED BY <2>1, <2>2
<1>. HIDE DEF f
<1>. QED BY <1>4, <1>6

\* What Magic(d) computes with: the largest dividend that matters, the first
\* round, the next ones, and which of them are not precise enough.
Largest(d) == Half - 1 - (Half % d)
FirstRound(d) ==
  [q1 |-> Half \div Largest(d), r1 |-> Half % Largest(d), q2 |-> Half \div d, r2 |-> Half % d]
NextRound(d, s) ==
  LET over1 == Truth(2 * s.r1 >= Largest(d))
      over2 == Truth(2 * s.r2 >= d)
  IN [q1 |-> 2 * s.q1 + over1, r1 |-> 2 * s.r1 - over1 * Largest(d),
      q2 |-> (2 * s.q2 + over2) % (2 * Half), r2 |-> 2 * s.r2 - over2 * d]
TooCoarse(d, s) == s.q1 < d - s.r2 \/ (s.q1 = d - s.r2 /\ s.r1 = 0)
RoundsOf(d) == [q1 : Nat, r1 : Int, q2 : Int, r2 : 0..(d - 1)]

\* The rounds for a divisor that is no power of two end before every bit of a
\* word has been used: what they double is as large as a word by then.  The
\* multiplier and the shift are those of the first round that is precise.
LEMMA MagicRounds ==
  ASSUME NEW d \in 2..(Half - 1)
  PROVE  \E round \in [Nat -> RoundsOf(d)] : \E k \in 1..(WordBits - 1) :
           /\ round[0] = FirstRound(d)
           /\ \A j \in Nat : j # 0 => round[j] = NextRound(d, round[j - 1])
           /\ ~ TooCoarse(d, round[k]) /\ \A j \in 1..(k - 1) : TooCoarse(d, round[j])
           /\ Magic(d).multiplier = Wrap(round[k].q2 + 1) /\ Magic(d).shift = k - 1
<1> DEFINE anc == Half - 1 - (Half % d)
           S == [q1 : Nat, r1 : Int, q2 : Int, r2 : 0..(d - 1)]
           base == [q1 |-> Half \div anc, r1 |-> Half % anc, q2 |-> Half \div d, r2 |-> Half % d]
           Next1(s) == LET over1 == Truth(2 * s.r1 >= anc)
                           over2 == Truth(2 * s.r2 >= d)
                       IN [q1 |-> 2 * s.q1 + over1, r1 |-> 2 * s.r1 - over1 * anc,
                           q2 |-> (2 * s.q2 + over2) % (2 * Half), r2 |-> 2 * s.r2 - over2 * d]
           step == [s \in S |-> Next1(s)]
           Fits(g) == g = [k \in Nat |-> IF k = 0 THEN base ELSE Next1(g[k - 1])]
           Coarse(s) == s.q1 < d - s.r2 \/ (s.q1 = d - s.r2 /\ s.r1 = 0)
           round == CHOOSE g : Fits(g)
           Enough(k) == ~ Coarse(round[k]) /\ \A j \in 1..(k - 1) : Coarse(round[j])
           last == CHOOSE k \in 1..(2 * WordBits) : Enough(k)
<1>1. Half \in Nat /\ d \in Nat /\ d >= 2 /\ Half >= d + 1 /\ Half % d \in 0..(d - 1)
  BY TruthsAreWords
<1>2. anc \in Nat /\ anc >= 1 /\ anc <= Half
  BY <1>1
<1>3. base \in S /\ base.q1 >= 1
  <2>1. Half \div d \in Int /\ Half % anc \in Int
    <3>. HIDE DEF anc
    <3>. QED BY <1>1, <1>2
  <2>2. Half \div anc \in Nat /\ Half \div anc >= 1
    <3>. HIDE DEF anc
    <3>. QED BY <1>1, <1>2
  <2>. HIDE DEF anc
  <2>. QED BY <1>1, <2>1, <2>2
<1>4. ASSUME NEW s \in S PROVE Next1(s) \in S /\ Next1(s).q1 >= 2 * s.q1
  <2> DEFINE over1 == Truth(2 * s.r1 >= anc)
             over2 == Truth(2 * s.r2 >= d)
  <2>1. over1 \in {0, 1} /\ s.q1 \in Nat /\ s.r1 \in Int /\ s.q2 \in Int /\ s.r2 \in 0..(d - 1)
    BY DEF Truth
  <2>2. over2 \in Int /\ 2 * s.r2 - over2 * d \in 0..(d - 1)
    BY <1>1, <2>1 DEF Truth
  <2>3. (2 * s.q2 + over2) % (2 * Half) \in Int
    <3>1. 2 * s.q2 + over2 \in Int /\ 2 * Half \in Nat \ {0}
      BY <1>1, <2>1, <2>2
    <3>. HIDE DEF over2
    <3>. QED BY <3>1
  <2>4. over1 * anc \in Int
    BY <1>2, <2>1
  <2>5. Next1(s) = [q1 |-> 2 * s.q1 + over1, r1 |-> 2 * s.r1 - over1 * anc,
                    q2 |-> (2 * s.q2 + over2) % (2 * Half), r2 |-> 2 * s.r2 - over2 * d]
    OBVIOUS
  <2>. HIDE DEF over1, over2, Next1, anc
  <2>6. 2 * s.q1 + over1 \in Nat /\ 2 * s.q1 + over1 >= 2 * s.q1 /\ 2 * s.r1 - over1 * anc \in Int
    BY <2>1, <2>4, <1>2
  <2>. QED BY <2>2, <2>3, <2>5, <2>6
<1>5. round \in [Nat -> S] /\ round[0] = base /\ \A k \in Nat : k # 0 => round[k] = Next1(round[k - 1])
  <2>1. step \in [S -> S]
    <3>. HIDE DEF Next1, S
    <3>. QED BY <1>4
  <2>2. PICK g \in [Nat -> S] : g = [k \in Nat |-> IF k = 0 THEN base ELSE step[g[k - 1]]]
    <3>. HIDE DEF base, step, S
    <3>. QED BY <1>3, <2>1, RoundsExist
  <2>3. Fits(g)
    <3>1. \A k \in Nat : k # 0 => g[k - 1] \in S
      <4>. HIDE DEF S, base, step
      <4>. QED OBVIOUS
    <3>2. \A k \in Nat : k # 0 => step[g[k - 1]] = Next1(g[k - 1])
      <4>. HIDE DEF Next1, S
      <4>. QED BY <3>1
    <3>. HIDE DEF Next1, step, base, S
    <3>. QED BY <2>2, <3>2
  <2>4. Fits(round)
    <3>. HIDE DEF Fits
    <3>. QED BY <2>3
  <2>. HIDE DEF round, base, Next1, S
  <2>5. round[0] = base /\ \A k \in Nat : k # 0 => round[k] = Next1(round[k - 1])
    BY <2>4
  <2>6. round = [k \in Nat |-> round[k]]
    BY <2>4
  <2> DEFINE Odd == {k \in Nat : round[k] \notin S}
  <2>7. Odd = {}
    <3>1. SUFFICES ASSUME Odd # {} PROVE FALSE
      OBVIOUS
    <3>2. PICK k \in Odd : \A j \in Odd : k <= j
      <4>1. Odd \in SUBSET Nat
        OBVIOUS
      <4>. HIDE DEF Odd
      <4>. QED BY <3>1, <4>1, LeastIndex
    <3>3. k # 0
      BY <1>3, <2>5
    <3>4. k - 1 \in Nat /\ k - 1 < k
      BY <3>3
    <3>5. round[k - 1] \in S
      BY <3>2, <3>4
    <3>. QED BY <1>4, <2>5, <3>2, <3>3, <3>5
  <2>8. \A k \in Nat : round[k] \in S
    BY <2>7
  <2>. QED BY <2>5, <2>6, <2>8
<1>6. \A k \in 0..31 : round[k].q1 >= 2^k
  <2>. HIDE DEF round, base, Next1
  <2> DEFINE Low == {k \in 0..31 : ~ (round[k].q1 >= 2^k)}
  <2>1. SUFFICES ASSUME Low # {} PROVE FALSE
    OBVIOUS
  <2>2. PICK k \in Low : \A j \in Low : k <= j
    <3>1. Low \in SUBSET Nat
      OBVIOUS
    <3>. HIDE DEF Low
    <3>. QED BY <2>1, <3>1, LeastIndex
  <2>3. k # 0
    <3>1. 2^0 = 1
      OBVIOUS
    <3>. QED BY <1>3, <1>5, <3>1
  <2>4. k - 1 \in 0..30 /\ k - 1 < k /\ (k - 1) + 1 = k /\ k \in Nat
    BY <2>3
  <2>5. round[k - 1].q1 >= 2^(k - 1)
    <3>1. k - 1 \notin Low
      BY <2>2, <2>4
    <3>. QED BY <2>4, <3>1
  <2>6. 2^(k - 1) \in Nat /\ 2^k = 2 * 2^(k - 1)
    BY <2>4, PowersDouble
  <2>7. round[k - 1] \in S /\ round[k].q1 >= 2 * round[k - 1].q1 /\ round[k] \in S
    BY <1>4, <1>5, <2>3, <2>4
  <2>. QED BY <2>2, <2>5, <2>6, <2>7
<1>7. WordBits - 1 \in 1..31 /\ WordBits \in Nat /\ ~ Coarse(round[WordBits - 1])
  <2>1. WordBits \in 6..32 /\ 2^(WordBits - 1) = Half
    BY SmallNumbers
  <2>2. WordBits - 1 \in 0..31
    BY <2>1
  <2>. HIDE DEF round
  <2>3. round[WordBits - 1] \in S /\ round[WordBits - 1].q1 >= Half
    <3>1. WordBits - 1 \in Nat
      BY <2>1
    <3>2. round[WordBits - 1] \in S
      <4>. HIDE DEF S, base, Next1
      <4>. QED BY <1>5, <3>1
    <3>3. round[WordBits - 1].q1 >= 2^(WordBits - 1)
      <4>. HIDE DEF S, base, Next1
      <4>. QED BY <1>6, <2>2
    <3>. QED BY <2>1, <3>2, <3>3
  <2>4. round[WordBits - 1].r2 \in 0..(d - 1) /\ round[WordBits - 1].q1 \in Nat
    BY <2>3
  <2>. QED BY <1>1, <2>1, <2>3, <2>4
<1>8. last \in 1..(WordBits - 1) /\ Enough(last)
  <2>. HIDE DEF round, Coarse
  <2> DEFINE Fine == {k \in Nat : k >= 1 /\ ~ Coarse(round[k])}
  <2>1. PICK k \in Fine : \A j \in Fine : k <= j
    <3>1. Fine \in SUBSET Nat /\ WordBits - 1 \in Fine
      BY <1>7
    <3>. HIDE DEF Fine
    <3>. QED BY <3>1, LeastIndex
  <2>2. k <= WordBits - 1
    <3>1. WordBits - 1 \in Fine
      BY <1>7
    <3>. QED BY <2>1, <3>1
  <2>3. k \in 1..(2 * WordBits)
    BY <1>7, <2>2
  <2>4. Enough(k)
    <3>1. SUFFICES ASSUME NEW j \in 1..(k - 1), ~ Coarse(round[j]) PROVE FALSE
      OBVIOUS
    <3>2. j \in Fine /\ j < k
      BY <3>1
    <3>. QED BY <2>1, <3>2
  <2>5. last \in 1..(2 * WordBits) /\ Enough(last)
    <3>. HIDE DEF Enough
    <3>. QED BY <2>3, <2>4
  <2>. HIDE DEF last
  <2>6. ~ (last > WordBits - 1)
    <3>1. SUFFICES ASSUME last > WordBits - 1 PROVE FALSE
      OBVIOUS
    <3>2. WordBits - 1 \in 1..(last - 1)
      BY <1>7, <2>5, <3>1
    <3>. QED BY <1>7, <2>5, <3>2
  <2>. QED BY <1>7, <2>5, <2>6
<1>9. Magic(d) = [multiplier |-> Wrap(round[last].q2 + 1), shift |-> last - 1]
  BY DEF Magic
<1>10. /\ S = RoundsOf(d) /\ base = FirstRound(d) /\ \A s : Next1(s) = NextRound(d, s)
       /\ \A s : Coarse(s) = TooCoarse(d, s)
  BY DEF RoundsOf, FirstRound, NextRound, TooCoarse, Largest
<1>11. round \in [Nat -> RoundsOf(d)] /\ round[0] = FirstRound(d)
       /\ \A j \in Nat : j # 0 => round[j] = NextRound(d, round[j - 1])
  <2>. HIDE DEF round, base, Next1, S
  <2>. QED BY <1>5, <1>10
<1>12. ~ TooCoarse(d, round[last]) /\ \A j \in 1..(last - 1) : TooCoarse(d, round[j])
  <2>. HIDE DEF round, Coarse, last
  <2>. QED BY <1>8, <1>10
<1>13. Magic(d).multiplier = Wrap(round[last].q2 + 1) /\ Magic(d).shift = last - 1
  <2>. HIDE DEF round, last
  <2>. QED BY <1>9
<1>. HIDE DEF round, last
<1>. QED BY <1>8, <1>11, <1>12, <1>13

\* So every shift is an immediate.
LEMMA MagicShift ==
  ASSUME NEW d \in 2..(Half - 1)
  PROVE  Magic(d).shift \in 0..(WordBits - 1)
<1>1. \E k \in 1..(WordBits - 1) : Magic(d).shift = k - 1
  BY MagicRounds
<1>2. WordBits \in Nat
  BY SmallNumbers
<1>. QED BY <1>1, <1>2

\* The quotient by a magic multiplier, with its shift and the sign of the
\* dividend.
LEMMA QuotientText ==
  ASSUME NEW fr, IsLayout(fr), NEW imm \in Word, MagicFor(imm), NEW rs \in Usable, NEW nonNegative
  PROVE  IsText(Quotient(fr, imm, rs, nonNegative))
<1> DEFINE m == Magic(Magnitude(imm))
           factor == Holding(fr, m.multiplier, "t1")
           sign == << I("srai", "t0", rs, WordBits - 1), R("sub", "t2", "t2", "t0") >>
<1>1. {"t0", "t1", "t2", "x0"} \subseteq Usable
  BY NamedRegisters
<1>2. m.shift \in 0..(WordBits - 1)
  <2>1. Magnitude(imm) \in 2..(Half - 1)
    BY TruthsAreWords DEF MagicFor, HasMagic, Magnitude, Word
  <2>. QED BY <2>1, MagicShift
<1>3. WordBits - 1 \in 0..(WordBits - 1)
  BY SmallNumbers
<1>. HIDE DEF m
<1>4. IsText(Providing(fr, m.multiplier, "t1"))
  BY <1>1, ProvidingText
<1>5. factor \in Usable
  BY <1>1, LayoutRegisters
<1>6. IsText(<< R("mulh", "t2", rs, factor) >>)
  <2>. HIDE DEF factor
  <2>. QED BY <1>1, <1>5, PlainLines, ShortTexts
<1>7. IsText(<< R("add", "t2", "t2", rs) >>) /\ IsText(<< R("sub", "t2", "x0", "t2") >>) /\ IsText(<< >>)
  BY <1>1, PlainLines, ShortTexts
<1>8. IsText(<< I("srai", "t2", "t2", m.shift) >>)
  <2>1. Encodable(I("srai", "t2", "t2", m.shift))
    BY <1>1, <1>2, ShiftLine
  <2>. QED BY <2>1, ShortTexts
<1>9. IsText(sign)
  <2>1. Encodable(I("srai", "t0", rs, WordBits - 1)) /\ Encodable(R("sub", "t2", "t2", "t0"))
    BY <1>1, <1>3, ShiftLine, PlainLines
  <2>. QED BY <2>1, ShortTexts
<1>10. Quotient(fr, imm, rs, nonNegative) =
         Providing(fr, m.multiplier, "t1")
           \o << R("mulh", "t2", rs, factor) >>
           \o (IF m.multiplier < 0 THEN << R("add", "t2", "t2", rs) >> ELSE << >>)
           \o (IF m.shift > 0 THEN << I("srai", "t2", "t2", m.shift) >> ELSE << >>)
           \o (IF nonNegative THEN << >> ELSE sign)
           \o (IF imm < 0 THEN << R("sub", "t2", "x0", "t2") >> ELSE << >>)
  BY DEF Quotient, m
<1>. HIDE DEF factor, sign
<1>. QED BY <1>4, <1>6, <1>7, <1>8, <1>9, <1>10, TextConcat

\* Division and remainder by a magic multiplier.
LEMMA MagicText ==
  ASSUME NEW fr, IsLayout(fr), NEW imm \in Word, MagicFor(imm), NEW rs \in Usable, NEW rd \in Usable,
         NEW nonNegative
  PROVE  IsText(MagicDiv(fr, imm, rs, rd, nonNegative)) /\ IsText(MagicMod(fr, imm, rs, rd, nonNegative))
<1> DEFINE kept == IF rs = "t0" THEN "t3" ELSE rs
           factor == Holding(fr, imm, "t1")
<1>1. {"t0", "t1", "t2", "t3"} \subseteq Usable /\ kept \in Usable
  BY NamedRegisters
<1>2. IsText(Quotient(fr, imm, rs, nonNegative))
  BY QuotientText
<1>3. IsText(<< U("mv", rd, "t2") >>) /\ IsText(<< U("mv", "t3", "t0") >>) /\ IsText(<< >>)
  BY <1>1, PlainLines, ShortTexts
<1>4. IsText(Providing(fr, imm, "t1")) /\ factor \in Usable
  BY <1>1, ProvidingText, LayoutRegisters
<1>5. IsText(<< R("mul", "t2", "t2", factor), R("sub", rd, kept, "t2") >>)
  <2>. HIDE DEF factor, kept
  <2>1. Encodable(R("mul", "t2", "t2", factor)) /\ Encodable(R("sub", rd, kept, "t2"))
    BY <1>1, <1>4, PlainLines
  <2>. QED BY <2>1, ShortTexts
<1>6. IsText(MagicDiv(fr, imm, rs, rd, nonNegative))
  BY <1>2, <1>3, TextConcat DEF MagicDiv
<1>7. MagicMod(fr, imm, rs, rd, nonNegative) =
        (IF rs = "t0" THEN << U("mv", "t3", "t0") >> ELSE << >>)
          \o Quotient(fr, imm, rs, nonNegative)
          \o Providing(fr, imm, "t1")
          \o << R("mul", "t2", "t2", factor), R("sub", rd, kept, "t2") >>
  BY DEF MagicMod
<1>. HIDE DEF factor, kept
<1>. QED BY <1>2, <1>3, <1>4, <1>5, <1>6, <1>7, TextConcat

\* The text that a power of two other than 1 needs: it shifts by what is left
\* of a word.
LEMMA RoundedText ==
  ASSUME NEW rs \in Usable, NEW n \in 1..(WordBits - 1)
  PROVE  IsText(Rounded(rs, n))
<1>1. "t1" \in Usable
  BY NamedRegisters
<1>2. WordBits - 1 \in 0..(WordBits - 1) /\ WordBits - n \in 0..(WordBits - 1)
  BY SmallNumbers
<1>3. /\ Encodable(I("srai", "t1", rs, WordBits - 1)) /\ Encodable(I("srli", "t1", "t1", WordBits - n))
      /\ Encodable(R("add", "t1", rs, "t1"))
  BY <1>1, <1>2, ShiftLine, PlainLines
<1>. QED BY <1>3, ShortTexts DEF Rounded

\* Any constant, from a register.
LEMMA ByRegisterText ==
  ASSUME NEW fr, IsLayout(fr), NEW op, NEW imm, NEW rd \in Usable, NEW rs \in Usable
  PROVE  IsText(ByRegister(fr, op, imm, rd, rs))
<1> DEFINE factor == Holding(fr, imm, "t1")
<1>1. IsText(Providing(fr, imm, "t1")) /\ factor \in Usable
  BY NamedRegisters, ProvidingText, LayoutRegisters
<1>2. IsText(<< R(Opcode[op], rd, rs, factor) >>)
  <2>. HIDE DEF factor
  <2>. QED BY <1>1, PlainLines, ShortTexts
<1>. QED BY <1>1, <1>2, TextConcat DEF ByRegister

\* A shift to the left by a power of two, and what may follow it.
LEMMA MulText ==
  ASSUME NEW fr, IsLayout(fr), NEW imm \in Int, NEW rd \in Usable, NEW rs \in Usable
  PROVE  IsText(MulByConstant(fr, imm, rd, rs))
<1>1. {"t1", "x0"} \subseteq Usable
  BY NamedRegisters
<1>2. ASSUME NEW v, IsPowerOfTwo(v), NEW r \in Usable PROVE Encodable(I("slli", r, rs, Log2(v)))
  <2>1. Log2(v) \in 0..(WordBits - 1)
    BY <1>2, LogFits, SmallNumbers
  <2>. QED BY <2>1, ShiftLine
<1>3. IsPowerOfTwo(2) /\ IsPowerOfTwo(4) /\ IsPowerOfTwo(8) /\ IsPowerOfTwo(16)
  <2>1. 2^1 = 2 /\ 2^2 = 4 /\ 2^3 = 8 /\ 2^4 = 16
    OBVIOUS
  <2>2. {1, 2, 3, 4} \subseteq 0..(WordBits - 2)
    BY SmallNumbers
  <2>3. \E n \in 0..(WordBits - 2) : 2 = 2^n
    BY <2>1, <2>2
  <2>4. \E n \in 0..(WordBits - 2) : 4 = 2^n
    BY <2>1, <2>2
  <2>5. \E n \in 0..(WordBits - 2) : 8 = 2^n
    BY <2>1, <2>2
  <2>6. \E n \in 0..(WordBits - 2) : 16 = 2^n
    BY <2>1, <2>2
  <2>. QED BY <2>3, <2>4, <2>5, <2>6 DEF IsPowerOfTwo
<1>4. IsPowerOfTwo(imm) => IsText(<< I("slli", rd, rs, Log2(imm)) >>)
  BY <1>2, ShortTexts
<1>5. imm \in {3, 5, 9} => IsText(<< I("slli", "t1", rs, Log2(imm - 1)), R("add", rd, "t1", rs) >>)
  <2>1. imm \in {3, 5, 9} => IsPowerOfTwo(imm - 1)
    BY <1>3
  <2>2. Encodable(R("add", rd, "t1", rs))
    BY <1>1, PlainLines
  <2>. QED BY <1>1, <1>2, <2>1, <2>2, ShortTexts
<1>6. imm \in {7, 15} => IsText(<< I("slli", "t1", rs, Log2(imm + 1)), R("sub", rd, "t1", rs) >>)
  <2>1. imm \in {7, 15} => IsPowerOfTwo(imm + 1)
    BY <1>3
  <2>2. Encodable(R("sub", rd, "t1", rs))
    BY <1>1, PlainLines
  <2>. QED BY <1>1, <1>2, <2>1, <2>2, ShortTexts
<1>7. IsText(<< R("sub", rd, "x0", rs) >>)
  BY <1>1, PlainLines, ShortTexts
<1>8. IsPowerOfTwo(-imm) => IsText(<< I("slli", rd, rs, Log2(-imm)), R("sub", rd, "x0", rd) >>)
  BY <1>1, <1>2, PlainLines, ShortTexts
<1>9. IsText(ByRegister(fr, "MUL", imm, rd, rs))
  BY ByRegisterText
<1>. QED BY <1>4, <1>5, <1>6, <1>7, <1>8, <1>9 DEF MulByConstant

\* DIV: by a shift, a negation, a multiplier or a register.  By 1, the text
\* would shift by the width of a word.
LEMMA DivText ==
  ASSUME NEW fr, IsLayout(fr), NEW imm \in Word, imm # 1, NEW rd \in Usable, NEW rs \in Usable,
         NEW localNonNegative, NEW nonNegative
  PROVE  IsText(DivByConstant(fr, imm, rd, rs, localNonNegative, nonNegative))
<1>1. {"t1", "x0"} \subseteq Usable
  BY NamedRegisters
<1>2. ASSUME IsPowerOfTwo(imm)
      PROVE  IsText(<< I("srai", rd, rs, Log2(imm)) >>) /\ IsText(Rounded(rs, Log2(imm)))
             /\ IsText(<< I("srai", rd, "t1", Log2(imm)) >>)
  <2>1. Log2(imm) \in 0..(WordBits - 1) /\ Log2(imm) \in 1..(WordBits - 1)
    BY <1>2, LogFits, SmallNumbers
  <2>2. Encodable(I("srai", rd, rs, Log2(imm))) /\ Encodable(I("srai", rd, "t1", Log2(imm)))
    BY <1>1, <2>1, ShiftLine
  <2>. QED BY <2>1, <2>2, RoundedText, ShortTexts
<1>3. IsText(<< R("sub", rd, "x0", rs) >>)
  BY <1>1, PlainLines, ShortTexts
<1>4. MagicFor(imm) => IsText(MagicDiv(fr, imm, rs, rd, nonNegative))
  BY MagicText
<1>5. IsText(ByRegister(fr, "DIV", imm, rd, rs))
  BY ByRegisterText
<1>. QED BY <1>2, <1>3, <1>4, <1>5, TextConcat DEF DivByConstant

\* MOD, in the same way.
LEMMA ModText ==
  ASSUME NEW fr, IsLayout(fr), NEW imm \in Word, fitsSigned12(imm), imm # 1, NEW rd \in Usable, NEW rs \in Usable,
         NEW localNonNegative, NEW nonNegative
  PROVE  IsText(ModByConstant(fr, imm, rd, rs, localNonNegative, nonNegative))
<1>1. {"t1", "x0"} \subseteq Usable
  BY NamedRegisters
<1>2. ASSUME IsPowerOfTwo(imm)
      PROVE  /\ IsText(<< I("andi", rd, rs, imm - 1) >>) /\ IsText(Rounded(rs, Log2(imm)))
             /\ IsText(<< I("srai", "t1", "t1", Log2(imm)), I("slli", "t1", "t1", Log2(imm)), R("sub", rd, rs, "t1") >>)
  <2>1. Log2(imm) \in 0..(WordBits - 1) /\ Log2(imm) \in 1..(WordBits - 1) /\ imm >= 1
    BY <1>2, LogFits, SmallNumbers
  <2>2. fitsSigned12(imm - 1)
    BY <2>1, SmallNumbers DEF fitsSigned12
  <2>3. Encodable(I("andi", rd, rs, imm - 1))
    BY <1>1, <2>2, SmallLine DEF I
  <2>4. /\ Encodable(I("srai", "t1", "t1", Log2(imm))) /\ Encodable(I("slli", "t1", "t1", Log2(imm)))
        /\ Encodable(R("sub", rd, rs, "t1"))
    BY <1>1, <2>1, ShiftLine, PlainLines
  <2>. QED BY <2>1, <2>3, <2>4, RoundedText, ShortTexts
<1>3. IsText(<< Li(rd, 0) >>)
  BY LiLine, ShortTexts
<1>4. MagicFor(imm) => IsText(MagicMod(fr, imm, rs, rd, nonNegative))
  BY MagicText
<1>5. IsText(ByRegister(fr, "MOD", imm, rd, rs))
  BY ByRegisterText
<1>. QED BY <1>2, <1>3, <1>4, <1>5, TextConcat DEF ModByConstant

-------------------------------------------------------------------------------
(***************************************************************************)
(* What becomes of an instruction that is translatable.                    *)
(***************************************************************************)
LEMMA ArithmeticText ==
  ASSUME NEW fr, IsLayout(fr), NEW inst, Translatable(inst), NEW rd \in Usable, NEW rs \in Usable,
         NEW localNonNegative
  PROVE  IsText(Arithmetic(fr, inst, rd, rs, localNonNegative))
<1> DEFINE imm == inst.src2.imm
           rt == RightReg(fr, inst.src2, rd)
           nonNegative == SourceNonNegative(inst.src1, localNonNegative)
<1>1. "x0" \in Usable /\ rt \in Usable
  BY NamedRegisters, LayoutRegisters
<1>2. IsImm(inst.src2) => imm \in Word
  BY DEF Translatable
<1>3. ASSUME IsSmall(inst.src2)
      PROVE  IsImm(inst.src2) /\ fitsSigned12(imm) /\ imm \in Int /\ imm \in Word
  BY <1>2, <1>3, TruthsAreWords DEF IsSmall, Word
<1>4. IsSmall(inst.src2) => IsText(<< I("addi", rd, rs, imm) >>)
  <2>1. IsSmall(inst.src2) => Encodable(I("addi", rd, rs, imm))
    BY <1>1, <1>3, SmallLine DEF I
  <2>. QED BY <2>1, ShortTexts
<1>5. IsSmall(inst.src2) /\ inst.op = "SUB" => IsText(<< I("addi", rd, rs, -imm) >>)
  <2>1. IsSmall(inst.src2) /\ inst.op = "SUB" => fitsSigned12(-imm)
    BY <1>3, SmallNumbers DEF Translatable, fitsSigned12
  <2>2. IsSmall(inst.src2) /\ inst.op = "SUB" => Encodable(I("addi", rd, rs, -imm))
    BY <1>1, <2>1, SmallLine DEF I
  <2>. QED BY <2>2, ShortTexts
<1>6. IsSmall(inst.src2) => IsText(MulByConstant(fr, imm, rd, rs))
  BY <1>3, MulText
<1>7. IsSmall(inst.src2) /\ inst.op = "DIV" => IsText(DivByConstant(fr, imm, rd, rs, localNonNegative, nonNegative))
  BY <1>3, DivText DEF Translatable
<1>8. IsSmall(inst.src2) /\ inst.op = "MOD" => IsText(ModByConstant(fr, imm, rd, rs, localNonNegative, nonNegative))
  BY <1>3, ModText DEF Translatable
<1>9. IsImm(inst.src2) /\ MagicFor(imm) =>
        IsText(MagicDiv(fr, imm, rs, rd, nonNegative)) /\ IsText(MagicMod(fr, imm, rs, rd, nonNegative))
  BY <1>2, MagicText
<1>10. IsText(<< R(Opcode[inst.op], rd, rs, rt) >>)
  <2>. HIDE DEF rt
  <2>. QED BY <1>1, PlainLines, ShortTexts
<1>. QED BY <1>4, <1>5, <1>6, <1>7, <1>8, <1>9, <1>10 DEF Arithmetic

\* The whole of an operation: operands, lines, result.
LEMMA BinaryText ==
  ASSUME NEW p, NEW f, NEW fr, IsLayout(fr), NEW inst, Translatable(inst), NEW i
  PROVE  IsText(Binary(p, f, fr, inst, i))
<1> DEFINE rd == DestReg(fr, inst.dest)
           lhs == RegOf(fr, inst.src1)
           rhs == RegOf(fr, inst.src2)
           c == inst.src1.imm
           scratch == Holding(fr, c, IF rd = "t0" THEN "t2" ELSE "t0")
           inPlace == inst.op = "SUB" /\ IsImm(inst.src1) /\ rhs # NoReg /\ rhs = rd
           known == LocalNonNegative(p, f, i, inst.src1)
           left == LeftReg(fr, inst.src1, rd)
           lines ==
             CASE inst.op = "NOT" -> Load(fr, inst.src1, rd) \o << I("sltiu", rd, rd, 1) >>
               [] inPlace /\ c = 0 -> << R("sub", rd, "x0", rhs) >>
               [] inPlace /\ c # 0 -> Providing(fr, c, scratch) \o << R("sub", rd, scratch, rhs) >>
               [] lhs # NoReg /\ rhs # NoReg -> << R(Opcode[inst.op], rd, lhs, rhs) >>
               [] OTHER -> LoadSources(fr, inst, rd) \o Arithmetic(fr, inst, rd, left, known)
<1>1. {"t0", "t1", "t2", "x0"} \subseteq Usable /\ rd \in Usable /\ left \in Usable /\ scratch \in Usable
  BY NamedRegisters, LayoutRegisters
<1>2. (lhs # NoReg => lhs \in Usable) /\ (rhs # NoReg => rhs \in Usable)
  BY LayoutRegisters
<1>. HIDE DEF rd, left, scratch, lhs, rhs, known
<1>3. IsText(Load(fr, inst.src1, rd)) /\ IsText(Providing(fr, c, scratch)) /\ IsText(LoadSources(fr, inst, rd))
  BY <1>1, LoadText, ProvidingText, LoadSourcesText
<1>4. IsText(<< I("sltiu", rd, rd, 1) >>)
  <2>1. fitsSigned12(1)
    BY SmallNumbers
  <2>2. Encodable(I("sltiu", rd, rd, 1))
    BY <1>1, <2>1, SmallLine DEF I
  <2>. QED BY <2>2, ShortTexts
<1>5. rhs # NoReg => IsText(<< R("sub", rd, "x0", rhs) >>) /\ IsText(<< R("sub", rd, scratch, rhs) >>)
  BY <1>1, <1>2, PlainLines, ShortTexts
<1>6. lhs # NoReg /\ rhs # NoReg => IsText(<< R(Opcode[inst.op], rd, lhs, rhs) >>)
  BY <1>1, <1>2, PlainLines, ShortTexts
<1>7. IsText(Arithmetic(fr, inst, rd, left, known))
  BY <1>1, ArithmeticText
<1>8. IsText(lines)
  BY <1>3, <1>4, <1>5, <1>6, <1>7, TextConcat
<1>9. Binary(p, f, fr, inst, i) = lines \o Finish(fr, inst.dest)
  BY DEF Binary, rd, left, scratch, lhs, rhs, known
<1>. HIDE DEF lines
<1>. QED BY <1>8, <1>9, FinishText, TextConcat

\* A comparison into rd: the immediate of LE is one more than the constant.
LEMMA CompareText ==
  ASSUME NEW fr, IsLayout(fr), NEW inst, Translatable(inst), NEW rd \in Usable
  PROVE  IsText(CompareInto(fr, inst, rd))
<1> DEFINE rs == LeftReg(fr, inst.src1, rd)
           imm == inst.src2.imm
           small == IsSmall(inst.src2)
           given == inst.op \in {"GT", "EQ", "NE"}
           rt == IF small THEN Holding(fr, imm, "t1") ELSE RightReg(fr, inst.src2, rd)
           negated == << I("xori", rd, rd, 1) >>
           lines == CASE inst.op = "LT" /\ small -> << I("slti", rd, rs, imm) >>
                      [] inst.op = "LE" /\ small -> << I("slti", rd, rs, imm + 1) >>
                      [] inst.op = "GE" /\ small -> << I("slti", rd, rs, imm) >> \o negated
                      [] inst.op = "LT" /\ ~ small -> << R("slt", rd, rs, rt) >>
                      [] inst.op = "LE" /\ ~ small -> << R("slt", rd, rt, rs) >> \o negated
                      [] inst.op = "GE" /\ ~ small -> << R("slt", rd, rs, rt) >> \o negated
                      [] inst.op = "GT" -> << R("slt", rd, rt, rs) >>
                      [] inst.op = "EQ" -> << R("sub", rd, rs, rt), U("seqz", rd, rd) >>
                      [] OTHER          -> << R("sub", rd, rs, rt), U("snez", rd, rd) >>
<1>1. {"t1", "x0"} \subseteq Usable /\ rs \in Usable /\ rt \in Usable
  BY NamedRegisters, LayoutRegisters
<1>. HIDE DEF rs, rt
<1>2. IsText(negated)
  <2>1. fitsSigned12(1)
    BY SmallNumbers
  <2>2. Encodable(I("xori", rd, rd, 1))
    BY <1>1, <2>1, SmallLine DEF I
  <2>. QED BY <2>2, ShortTexts
<1>3. small => IsText(<< I("slti", rd, rs, imm) >>)
  <2>1. small => Encodable(I("slti", rd, rs, imm))
    BY <1>1, SmallLine DEF I, IsSmall
  <2>. QED BY <2>1, ShortTexts
<1>4. small /\ inst.op = "LE" => IsText(<< I("slti", rd, rs, imm + 1) >>)
  <2>1. small /\ inst.op = "LE" => fitsSigned12(imm + 1)
    BY SmallNumbers DEF IsSmall, Translatable, fitsSigned12
  <2>2. small /\ inst.op = "LE" => Encodable(I("slti", rd, rs, imm + 1))
    BY <1>1, <2>1, SmallLine DEF I
  <2>. QED BY <2>2, ShortTexts
<1>5. /\ IsText(<< R("slt", rd, rs, rt) >>) /\ IsText(<< R("slt", rd, rt, rs) >>)
      /\ IsText(<< R("sub", rd, rs, rt), U("seqz", rd, rd) >>)
      /\ IsText(<< R("sub", rd, rs, rt), U("snez", rd, rd) >>)
  BY <1>1, PlainLines, ShortTexts
<1>6. IsText(lines)
  <2>. HIDE DEF small, negated
  <2>. QED BY <1>2, <1>3, <1>4, <1>5, TextConcat
<1>7. IsText(LoadSources(fr, inst, rd)) /\ IsText(Providing(fr, imm, "t1")) /\ IsText(<< >>)
  BY <1>1, LoadSourcesText, ProvidingText, ShortTexts
<1>8. CompareInto(fr, inst, rd) =
        LoadSources(fr, inst, rd) \o (IF small /\ given THEN Providing(fr, imm, "t1") ELSE << >>) \o lines
  BY DEF CompareInto, rs, rt
<1>. HIDE DEF lines
<1>. QED BY <1>6, <1>7, <1>8, TextConcat

\* A mask clears less than a word.
LEMMA MaskedText ==
  ASSUME NEW fr, IsLayout(fr), NEW c, IsPowerOfTwo(c.modulus), c.modulus # 1
  PROVE  IsText(Masked(fr, c))
<1> DEFINE rd == DestReg(fr, c.dest)
           clear == WordBits - Log2(c.modulus)
<1>1. rd \in Usable /\ clear \in 0..(WordBits - 1)
  BY LayoutRegisters, LogFits, SmallNumbers
<1>2. Masked(fr, c) =
        Load(fr, c.source, rd) \o << I("slli", rd, rd, clear), I("srli", rd, rd, clear) >> \o Finish(fr, c.dest)
  BY DEF Masked
<1>. HIDE DEF rd, clear
<1>3. IsText(<< I("slli", rd, rd, clear), I("srli", rd, rd, clear) >>)
  <2>1. Encodable(I("slli", rd, rd, clear)) /\ Encodable(I("srli", rd, rd, clear))
    BY <1>1, ShiftLine
  <2>. QED BY <2>1, ShortTexts
<1>. QED BY <1>1, <1>2, <1>3, LoadText, FinishText, TextConcat

\* A branch on a value.
LEMMA BranchText ==
  ASSUME NEW fr, IsLayout(fr), NEW inst
  PROVE  IsText(Branch(fr, inst))
<1> DEFINE r == DestReg(fr, inst.src1)
           branch == << Z(BranchOn[inst.op], r, LabelOf(inst.dest)) >>
<1>1. r \in Usable
  BY LayoutRegisters
<1>2. Branch(fr, inst) = Load(fr, inst.src1, r) \o branch
  BY DEF Branch
<1>. HIDE DEF r
<1>3. IsText(branch)
  BY <1>1, PlainLines, ShortTexts
<1>. HIDE DEF branch
<1>. QED BY <1>1, <1>2, <1>3, LoadText, TextConcat

\* An argument comes in a register, or in a slot.
LEMMA ArgumentText ==
  ASSUME NEW fr, IsLayout(fr), NEW o, NEW k \in Nat
  PROVE  IsText(Incoming(fr, o, k)) /\ IsText(Outgoing(fr, o, k))
<1> DEFINE r == DestReg(fr, o)
           above == WordBytes * (k - Len(ArgRegs))
<1>1. {"t0", "s0", "sp"} \subseteq Usable /\ r \in Usable
  BY NamedRegisters, LayoutRegisters
<1>2. k < Len(ArgRegs) => ArgRegs[k + 1] \in Usable
  <2>1. Len(ArgRegs) \in Nat
    BY RegistersApart
  <2>2. k < Len(ArgRegs) => k + 1 \in 1..Len(ArgRegs)
    BY <2>1
  <2>. QED BY <2>2, NamedRegisters
<1>3. Incoming(fr, o, k) =
        (IF k < Len(ArgRegs) THEN Move(r, ArgRegs[k + 1]) ELSE LoadFromAddress(r, "s0", above)) \o Finish(fr, o)
  BY DEF Incoming
<1>4. Outgoing(fr, o, k) = IF k < Len(ArgRegs) THEN Load(fr, o, ArgRegs[k + 1])
                           ELSE Load(fr, o, "t0") \o StoreToAddress("t0", "sp", above)
  BY DEF Outgoing
<1>. HIDE DEF r, above
<1>5. IsText(Incoming(fr, o, k))
  <2>1. k < Len(ArgRegs) => IsText(Move(r, ArgRegs[k + 1]))
    BY <1>1, <1>2, MoveText
  <2>2. IsText(LoadFromAddress(r, "s0", above))
    BY <1>1, AccessText
  <2>. QED BY <1>3, <2>1, <2>2, FinishText, TextConcat
<1>6. IsText(Outgoing(fr, o, k))
  <2>1. k < Len(ArgRegs) => IsText(Load(fr, o, ArgRegs[k + 1]))
    BY <1>2, LoadText
  <2>2. IsText(Load(fr, o, "t0")) /\ IsText(StoreToAddress("t0", "sp", above))
    BY <1>1, LoadText, AccessText
  <2>. QED BY <1>4, <2>1, <2>2, TextConcat
<1>. QED BY <1>5, <1>6

\* The text of one instruction.
LEMMA SingleText ==
  ASSUME NEW p \in Programs, NEW f \in FunctionsOf(p), NEW fr, IsLayout(fr), NEW inst, Translatable(inst), NEW i
  PROVE  IsText(Single(p, f, fr, inst, i))
<1> DEFINE rd == DestReg(fr, inst.dest)
<1>1. rd \in Usable /\ ArgRegs[1] \in Usable
  <2>1. 1 \in 1..Len(ArgRegs)
    BY RegistersApart
  <2>. QED BY <2>1, LayoutRegisters, NamedRegisters
<1>2. FormalsBefore(p, f, i) \in Nat
  <2> DEFINE before == {j \in Code(p, f) : j < i /\ IsParamDecl(p[j])}
  <2>1. Code(p, f) \subseteq 1..Len(p) /\ Len(p) \in Nat
    BY FunctionInside
  <2>2. IsFiniteSet(1..Len(p))
    BY <2>1, FS_Interval
  <2>3. IsFiniteSet(before)
    BY <2>1, <2>2, FS_Subset
  <2>4. Cardinality(before) \in Nat
    BY <2>3, FS_CardinalityType
  <2>. QED BY <2>4 DEF FormalsBefore
<1>3. IsText(Incoming(fr, inst.dest, FormalsBefore(p, f, i)))
  BY <1>2, ArgumentText
<1>4. IsText(Load(fr, inst.src1, rd) \o Finish(fr, inst.dest))
  BY <1>1, LoadText, FinishText, TextConcat
<1>5. IsText(Binary(p, f, fr, inst, i))
  BY BinaryText
<1>6. IsText(CompareInto(fr, inst, rd) \o Finish(fr, inst.dest))
  BY <1>1, CompareText, FinishText, TextConcat
<1>7. inst.op = "PARAM" => IsText(Outgoing(fr, inst.dest, inst.src1.imm))
  BY ArgumentText DEF Translatable
<1>8. IsText(<< CallTo(inst.src1.name) >> \o (IF IsVariable(inst.dest) THEN Store(fr, ArgRegs[1], inst.dest) ELSE << >>))
  <2>1. IsText(<< CallTo(inst.src1.name) >>) /\ IsText(<< >>)
    BY PlainLines, ShortTexts
  <2>. QED BY <1>1, <2>1, StoreText, TextConcat
<1>9. IsText((IF IsNone(inst.dest) THEN << >> ELSE Load(fr, inst.dest, ArgRegs[1])) \o << J(Exit(f)) >>)
  <2>1. IsText(<< J(Exit(f)) >>) /\ IsText(<< >>)
    BY PlainLines, ShortTexts
  <2>. QED BY <1>1, <2>1, LoadText, TextConcat
<1>10. IsText(<< At(LabelOf(inst.dest)) >>) /\ IsText(<< J(LabelOf(inst.dest)) >>) /\ IsText(<< >>)
  BY PlainLines, ShortTexts
<1>11. IsText(Branch(fr, inst))
  BY BranchText
<1>. QED BY <1>3, <1>4, <1>5, <1>6, <1>7, <1>8, <1>9, <1>10, <1>11 DEF Single

\* A chain stands for three instructions at least.  Its modulus is a constant
\* of the code, and not 1.
LEMMA ChainShape ==
  ASSUME NEW p \in Programs, NEW f \in FunctionsOf(p), AllTranslatable(p), NEW i \in Code(p, f),
         NEW c \in NormalizedRemainders(p, f, i)
  PROVE  /\ c.length \in Nat \ {0}
         /\ c.modulus \in Word /\ c.modulus # 1
         /\ Translatable(RemainderOf(c))
<1>1. i \in 1..Len(p) /\ Len(p) \in Nat
  BY FunctionInside
<1>2. ASSUME NEW k \in Int, NEW r \in RawRemainders(p, f, k)
      PROVE  /\ r.length \in {1, 3} /\ r.source = p[k].src1 /\ r.modulus = p[k].src2.imm
             /\ IsImm(p[k].src2) /\ p[k].src2.imm > 1 /\ ~ IsImm(r.dest)
  <2>1. PICK j \in {k, k + 2} :
          /\ r = [source |-> p[k].src1, dest |-> p[j].dest, modulus |-> p[k].src2.imm, length |-> j - k + 1]
          /\ IsImm(p[k].src2) /\ p[k].src2.imm > 1 /\ IsVariable(p[j].dest)
    BY <1>2 DEF RawRemainders
  <2>2. j - k + 1 \in {1, 3}
    OBVIOUS
  <2>3. ~ IsImm(p[j].dest)
    BY <2>1 DEF IsVariable, IsLocal, IsGlobal, IsImm
  <2>. QED BY <2>1, <2>2, <2>3
<1>3. PICK first \in RawRemainders(p, f, i) :
        \E second \in RawRemainders(p, f, i + first.length + 1) :
          c = [source |-> first.source, dest |-> second.dest, middle |-> first.dest,
               modulus |-> first.modulus, length |-> first.length + 1 + second.length]
  BY DEF NormalizedRemainders
<1>4. first.length \in {1, 3} /\ first.source = p[i].src1 /\ first.modulus = p[i].src2.imm
      /\ IsImm(p[i].src2) /\ p[i].src2.imm > 1
  BY <1>1, <1>2
<1>5. PICK second \in RawRemainders(p, f, i + first.length + 1) :
          c = [source |-> first.source, dest |-> second.dest, middle |-> first.dest,
               modulus |-> first.modulus, length |-> first.length + 1 + second.length]
  BY <1>3
<1>6. i + first.length + 1 \in Int
  BY <1>1, <1>4
<1>7. second.length \in {1, 3} /\ ~ IsImm(second.dest)
  BY <1>2, <1>6
<1>8. c.length \in Nat \ {0} /\ c.modulus = p[i].src2.imm /\ c.source = p[i].src1 /\ ~ IsImm(c.dest)
  BY <1>4, <1>5, <1>7
<1>9. Translatable(p[i])
  BY <1>1 DEF AllTranslatable
<1>10. c.modulus \in Word /\ c.modulus # 1
  BY <1>4, <1>8, <1>9 DEF Translatable, Word
<1>11. Translatable(RemainderOf(c))
  <2>1. RemainderOf(c) = [op |-> "MOD", dest |-> c.dest, src1 |-> c.source, src2 |-> Imm(c.modulus)]
    BY DEF RemainderOf, Inst
  <2>2. Imm(c.modulus).imm = c.modulus
    BY DEF Imm, Operand
  <2>3. IsImm(c.source) => c.source.imm \in Word
    BY <1>8, <1>9 DEF Translatable
  <2>. QED BY <1>8, <1>10, <2>1, <2>2, <2>3 DEF Translatable
<1>. QED BY <1>8, <1>10, <1>11

\* What the instruction at an index becomes, alone or with those behind it.
LEMMA SelectedText ==
  ASSUME NEW p \in Programs, NEW f \in FunctionsOf(p), AllTranslatable(p), NEW fr, IsLayout(fr), NEW i \in Code(p, f)
  PROVE  Selected(p, f, fr, i).length \in Nat \ {0} /\ IsText(Selected(p, f, fr, i).lines)
<1> DEFINE chains == FusedChains(p, f, i)
           inst == IF chains = {} THEN p[i] ELSE RemainderOf(Only(chains))
           branch == << Z(BranchOn[p[i + 1].op], "t0", LabelOf(p[i + 1].dest)) >>
<1>1. Translatable(p[i])
  BY FunctionInside DEF AllTranslatable
<1>2. ASSUME chains # {}
      PROVE  /\ Only(chains) \in chains /\ Only(chains).length \in Nat \ {0} /\ Only(chains).modulus # 1
             /\ Translatable(RemainderOf(Only(chains)))
  <2>1. chains \subseteq NormalizedRemainders(p, f, i)
    BY DEF FusedChains
  <2>. HIDE DEF chains
  <2>2. Only(chains) \in chains
    BY <1>2 DEF Only
  <2>. QED BY <2>1, <2>2, ChainShape
<1>3. Selected(p, f, fr, i) =
        CASE chains # {} /\ \A c \in chains : IsPowerOfTwo(c.modulus) ->
               [lines |-> Masked(fr, Only(chains)), length |-> Only(chains).length]
          [] chains = {} /\ Fuses(p, f, i) ->
               [lines |-> CompareInto(fr, p[i], "t0") \o branch, length |-> 2]
          [] OTHER ->
               [lines |-> Single(p, f, fr, inst, i), length |-> IF chains = {} THEN 1 ELSE Only(chains).length]
  BY DEF Selected, SelectedFor
<1>4. IsText(CompareInto(fr, p[i], "t0") \o branch)
  <2>1. "t0" \in Usable
    BY NamedRegisters
  <2>2. IsText(branch)
    BY <2>1, PlainLines, ShortTexts
  <2>. HIDE DEF branch
  <2>. QED BY <1>1, <2>1, <2>2, CompareText, TextConcat
<1>. HIDE DEF chains, branch
<1>5. Translatable(inst)
  BY <1>1, <1>2
<1>. HIDE DEF inst
<1>6. IsText(Single(p, f, fr, inst, i))
  BY <1>5, SingleText
<1>7. chains # {} /\ (\A c \in chains : IsPowerOfTwo(c.modulus)) => IsText(Masked(fr, Only(chains)))
  BY <1>2, MaskedText
<1>8. CASE chains # {} /\ \A c \in chains : IsPowerOfTwo(c.modulus)
  BY <1>2, <1>3, <1>7, <1>8
<1>9. CASE chains = {} /\ Fuses(p, f, i)
  <2>1. Selected(p, f, fr, i) = [lines |-> CompareInto(fr, p[i], "t0") \o branch, length |-> 2]
    BY <1>3, <1>9
  <2>. QED BY <1>4, <2>1
<1>10. CASE /\ ~ (chains # {} /\ \A c \in chains : IsPowerOfTwo(c.modulus))
            /\ ~ (chains = {} /\ Fuses(p, f, i))
  <2>1. Selected(p, f, fr, i) =
          [lines |-> Single(p, f, fr, inst, i), length |-> IF chains = {} THEN 1 ELSE Only(chains).length]
    BY <1>3, <1>10
  <2>. QED BY <1>2, <1>6, <2>1
<1>. QED BY <1>8, <1>9, <1>10

-------------------------------------------------------------------------------
(***************************************************************************)
(* Registers that are picked from a list, one after the other: the k-th is *)
(* the one before which k - 1 have been picked.                            *)
(***************************************************************************)
LEMMA RankExists ==
  ASSUME NEW n \in Nat, NEW S \in SUBSET (1..n), NEW k \in 1..Cardinality(S)
  PROVE  \E j \in S : Cardinality({i \in S : i <= j}) = k
<1> DEFINE Rank(j) == Cardinality({i \in S : i <= j})
           Far == {j \in S : Rank(j) >= k}
<1>1. IsFiniteSet(S) /\ Cardinality(S) \in Nat /\ S \in SUBSET Nat
  <2>1. IsFiniteSet(1..n)
    <3>1. 1 \in Int /\ n \in Int
      OBVIOUS
    <3>. QED BY <3>1, FS_Interval
  <2>2. IsFiniteSet(S)
    BY <2>1, FS_Subset
  <2>3. Cardinality(S) \in Nat
    BY <2>2, FS_CardinalityType
  <2>. QED BY <2>2, <2>3
<1>2. ASSUME NEW m \in Nat PROVE IsFiniteSet({i \in S : i <= m}) /\ Rank(m) \in Nat
  <2>1. {i \in S : i <= m} \in SUBSET S
    OBVIOUS
  <2>. QED BY <1>1, <2>1, FS_Subset, FS_CardinalityType
<1>3. PICK j \in Far : \A i \in Far : j <= i
  <2>1. S # {}
    <3>1. Cardinality(S) # 0
      BY <1>1
    <3>. QED BY <3>1, FS_EmptySet
  <2>2. PICK m \in S : \A i \in S : i <= m
    <3>1. \A i \in S : i \in Nat /\ i <= n
      OBVIOUS
    <3>2. Max(S) \in S /\ \A i \in S : i <= Max(S)
      BY <2>1, <3>1, GreatestIndex
    <3>. QED BY <3>2
  <2>3. {i \in S : i <= m} = S
    BY <2>2
  <2>4. Far \in SUBSET Nat /\ Far # {}
    <3>1. Rank(m) = Cardinality(S)
      BY <2>3
    <3>2. m \in Far
      BY <1>1, <3>1
    <3>. QED BY <1>1, <3>2
  <2>. HIDE DEF Far
  <2>. QED BY <2>4, LeastIndex
<1> DEFINE below == {i \in S : i < j}
<1>4. below = {i \in S : i <= j} \ {j} /\ j \in {i \in S : i <= j} /\ j \in Nat
  <2>1. j \in S /\ j \in Nat /\ \A i \in S : i \in Nat
    BY <1>1
  <2>2. \A i \in S : i < j <=> i <= j /\ i # j
    BY <2>1
  <2>3. below = {i \in S : i <= j} \ {j}
    BY <2>2
  <2>4. j \in {i \in S : i <= j}
    BY <2>1
  <2>. QED BY <2>1, <2>3, <2>4
<1>5. Cardinality(below) = Rank(j) - 1 /\ IsFiniteSet(below) /\ Rank(j) \in Nat
  <2>. HIDE DEF below
  <2>. QED BY <1>2, <1>4, FS_RemoveElement
<1>6. CASE below = {}
  <2>1. Rank(j) = 1
    <3>1. Cardinality(below) = 0
      BY <1>6, FS_EmptySet
    <3>. QED BY <1>5, <3>1
  <2>2. Rank(j) >= k /\ k \in Nat /\ k >= 1
    BY <1>1, <1>3
  <2>3. Rank(j) = k
    BY <2>1, <2>2
  <2>. QED BY <1>3, <2>3
<1>7. CASE below # {}
  <2>1. PICK m \in below : \A i \in below : i <= m
    <3>1. \A i \in below : i \in Nat /\ i <= n
      BY <1>1
    <3>2. Max(below) \in below /\ \A i \in below : i <= Max(below)
      <4>. HIDE DEF below
      <4>. QED BY <1>7, <3>1, GreatestIndex
    <3>. QED BY <3>2
  <2>2. m \in S /\ m < j /\ m \in Nat
    BY <1>1
  <2>3. {i \in S : i <= m} = below
    <3>1. \A i \in S : i \in Nat
      BY <1>1
    <3>2. ASSUME NEW i \in S, i <= m PROVE i < j
      BY <1>4, <2>2, <3>1, <3>2
    <3>. QED BY <2>1, <3>2
  <2>4. Rank(m) = Rank(j) - 1 /\ Rank(m) \in Nat
    BY <1>2, <1>5, <2>2, <2>3
  <2>5. ~ (Rank(m) >= k)
    <3>1. m \notin Far
      BY <1>3, <1>4, <2>2
    <3>. QED BY <2>2, <3>1
  <2>6. Rank(j) >= k /\ k \in Nat
    BY <1>1, <1>3
  <2>7. Rank(j) = k
    <3>. HIDE DEF Rank
    <3>. QED BY <1>5, <2>4, <2>5, <2>6
  <2>. QED BY <1>3, <2>7
<1>. QED BY <1>6, <1>7

\* What is wanted of a list of registers is a list of registers, and no longer.
LEMMA InOrderList ==
  ASSUME NEW T, NEW regs \in Seq(T), NEW wanted
  PROVE  /\ IsList(InOrder(regs, wanted)) /\ Len(InOrder(regs, wanted)) <= Len(regs)
         /\ DOMAIN InOrder(regs, wanted) = 1..Len(InOrder(regs, wanted))
         /\ \A k \in 1..Len(InOrder(regs, wanted)) : \E j \in 1..Len(regs) : InOrder(regs, wanted)[k] = regs[j]
<1> DEFINE at == {j \in DOMAIN regs : regs[j] \in wanted}
           Rank(j) == Cardinality({i \in at : i <= j})
           pick(k) == CHOOSE j \in at : Rank(j) = k
           list == [k \in 1..Cardinality(at) |-> regs[pick(k)]]
<1>1. InOrder(regs, wanted) = list
  BY DEF InOrder
<1>2. Len(regs) \in Nat /\ DOMAIN regs = 1..Len(regs) /\ at \in SUBSET (1..Len(regs))
  OBVIOUS
<1>3. Cardinality(at) \in Nat /\ Cardinality(at) <= Len(regs)
  <2> DEFINE n == Len(regs)
  <2>1. IsFiniteSet(1..n) /\ Cardinality(1..n) = n
    <3>1. 1 \in Int /\ n \in Int /\ n \in Nat
      BY <1>2
    <3>. HIDE DEF n
    <3>2. IsFiniteSet(1..n) /\ Cardinality(1..n) = IF 1 > n THEN 0 ELSE n - 1 + 1
      BY <3>1, FS_Interval
    <3>. QED BY <3>1, <3>2
  <2>2. at \in SUBSET (1..n)
    BY <1>2
  <2>. HIDE DEF at, n
  <2>3. IsFiniteSet(at) /\ Cardinality(at) <= Cardinality(1..n)
    BY <2>1, <2>2, FS_Subset
  <2>4. Cardinality(at) \in Nat
    BY <2>3, FS_CardinalityType
  <2>. QED BY <2>1, <2>3, <2>4 DEF n
<1>4. \A k \in 1..Cardinality(at) : pick(k) \in 1..Len(regs)
  <2>1. SUFFICES ASSUME NEW k \in 1..Cardinality(at) PROVE \E j \in at : Rank(j) = k
    BY <1>2
  <2>. HIDE DEF at
  <2>. QED BY <1>2, RankExists
<1>5. list \in Seq(Range(regs)) /\ Len(list) = Cardinality(at)
  <2>. HIDE DEF at, pick
  <2>1. \A k \in 1..Cardinality(at) : regs[pick(k)] \in Range(regs)
    BY <1>2, <1>4 DEF Range
  <2>. QED BY <1>3, <2>1
<1>. HIDE DEF at, pick
<1>6. DOMAIN list = 1..Len(list) /\ \A k \in 1..Len(list) : list[k] = regs[pick(k)]
  BY <1>5
<1>. HIDE DEF list
<1>. QED BY <1>1, <1>3, <1>4, <1>5, <1>6, ListOf

(***************************************************************************)
(* Texts that are put together from the front, like those for the globals. *)
(***************************************************************************)
LEMMA FlatText ==
  ASSUME NEW n \in Nat, NEW t, t = [k \in 1..n |-> t[k]], \A k \in 1..n : IsText(t[k])
  PROVE  IsText(FlattenSeq(t))
<1>1. t \in Seq({t[k] : k \in 1..n}) /\ Len(t) = n
  OBVIOUS
<1>2. CASE n = 0
  <2>1. FlattenSeq(t) = t
    BY <1>1, <1>2 DEF FlattenSeq
  <2>2. IsList(t)
    <3> DEFINE T == {t[k] : k \in 1..n}
    <3>1. t \in Seq(T)
      BY <1>1
    <3>. HIDE DEF T
    <3>. QED BY <3>1, ListOf
  <2>3. 1..Len(t) = {}
    BY <1>1, <1>2
  <2>. QED BY <2>1, <2>2, <2>3 DEF IsText
<1>3. CASE n # 0
  <2> DEFINE After(i, g) == IF i = 1 THEN t[i] ELSE g[i - 1] \o t[i]
             Fits(g) == g = [i \in 1..Len(t) |-> After(i, g)]
             Up(m, g) == g = [i \in 1..n |-> g[i]] /\ \A i \in 1..m : g[i] = After(i, g)
             Short == {m \in 0..n : ~ \E g : Up(m, g)}
  <2>1. \E g : Up(n, g)
    <3>1. SUFFICES ASSUME ~ \E g : Up(n, g) PROVE FALSE
      OBVIOUS
    <3>2. PICK m \in Short : \A j \in Short : m <= j
      <4>. n \in Short
        <5>. HIDE DEF Up
        <5>. QED BY <3>1
      <4>1. Short \in SUBSET Nat
        OBVIOUS
      <4>. HIDE DEF Short
      <4>. QED BY <4>1, LeastIndex
    <3>3. m # 0
      <4>1. Up(0, [i \in 1..n |-> t[i]])
        OBVIOUS
      <4>2. \E g : Up(0, g)
        <5>. HIDE DEF Up
        <5>. QED BY <4>1
      <4>. QED BY <4>2
    <3>4. m - 1 \in 0..n /\ m - 1 < m /\ m \in 1..n
      BY <3>3
    <3>5. PICK g : Up(m - 1, g)
      <4>1. m - 1 \notin Short
        <5>. HIDE DEF Short
        <5>. QED BY <3>2, <3>4
      <4>. QED BY <3>4, <4>1
    <3> DEFINE h == [i \in 1..n |-> IF i = m THEN After(m, g) ELSE g[i]]
    <3>6. ASSUME NEW i \in 1..m PROVE h[i] = After(i, h)
      <4>1. i \in 1..n
        BY <3>4
      <4>2. After(i, h) = After(i, g)
        <5>1. CASE i = 1
          BY <5>1
        <5>2. CASE i # 1
          <6>1. i - 1 \in 1..n /\ i - 1 # m
            BY <3>4, <5>2
          <6>. QED BY <5>2, <6>1
        <5>. QED BY <5>1, <5>2
      <4>3. CASE i = m
        BY <4>1, <4>2, <4>3
      <4>4. CASE i # m
        <5>1. i \in 1..(m - 1)
          BY <3>4, <4>4
        <5>2. g[i] = After(i, g)
          BY <3>5, <5>1
        <5>. HIDE DEF After
        <5>. QED BY <4>1, <4>2, <4>4, <5>2
      <4>. QED BY <4>3, <4>4
    <3>7. Up(m, h)
      <4>1. h = [i \in 1..n |-> h[i]]
        <5>. HIDE DEF After
        <5>. QED OBVIOUS
      <4>. HIDE DEF After, h
      <4>. QED BY <3>6, <4>1
    <3>. HIDE DEF Up, h
    <3>. QED BY <3>2, <3>7
  <2>2. PICK g : Up(n, g)
    BY <2>1
  <2>3. Fits(g)
    <3>1. g = [i \in 1..n |-> g[i]] /\ \A i \in 1..n : g[i] = After(i, g)
      BY <2>2
    <3>. HIDE DEF After
    <3>. QED BY <1>1, <3>1
  <2> DEFINE flatten == CHOOSE h : Fits(h)
  <2>4. Fits(flatten)
    <3>. HIDE DEF Fits
    <3>. QED BY <2>3
  <2>5. FlattenSeq(t) = flatten[n]
    BY <1>1, <1>3 DEF FlattenSeq
  <2>. HIDE DEF flatten
  <2>6. \A i \in 1..n : flatten[i] = After(i, flatten)
    <3>. HIDE DEF After
    <3>. QED BY <1>1, <2>4
  <2> DEFINE Wrong == {i \in 1..n : ~ IsText(flatten[i])}
  <2>7. Wrong = {}
    <3>1. SUFFICES ASSUME Wrong # {} PROVE FALSE
      OBVIOUS
    <3>2. PICK i \in Wrong : \A j \in Wrong : i <= j
      <4>1. Wrong \in SUBSET Nat
        OBVIOUS
      <4>. HIDE DEF Wrong
      <4>. QED BY <3>1, <4>1, LeastIndex
    <3>3. i # 1
      BY <2>6
    <3>4. i - 1 \in 1..n /\ i - 1 < i
      BY <3>3
    <3>5. IsText(flatten[i - 1])
      BY <3>2, <3>4
    <3>6. flatten[i] = flatten[i - 1] \o t[i]
      BY <2>6, <3>3
    <3>. QED BY <3>5, <3>6, TextConcat
  <2>8. n \in 1..n
    BY <1>3
  <2>. QED BY <2>5, <2>7, <2>8
<1>. QED BY <1>2, <1>3

-------------------------------------------------------------------------------
(***************************************************************************)
(* A function.  There is room for every register that its frame saves.     *)
(***************************************************************************)
HasRoom(fr) ==
  /\ IsList(fr.saved) /\ Len(fr.saved) <= Len(SavedRegs) /\ DOMAIN fr.saved = 1..Len(fr.saved)
  /\ \A k \in 1..Len(fr.saved) : fr.saved[k] \in Usable

\* The stack pointer by any amount: one that is no immediate goes by t2.
LEMMA AdjustText ==
  ASSUME NEW amount
  PROVE  IsText(AdjustStackPointer(amount))
<1>1. {"t2", "sp", "x0"} \subseteq Usable
  BY NamedRegisters
<1>2. fitsSigned12(amount) => Encodable(I("addi", "sp", "sp", amount))
  BY <1>1, SmallLine DEF I
<1>3. Encodable(Li("t2", amount)) /\ Encodable(R("add", "sp", "sp", "t2"))
  BY <1>1, LiLine, PlainLines
<1>. QED BY <1>2, <1>3, ShortTexts DEF AdjustStackPointer

\* Registers are saved and restored near the top of the frame.
LEMMA SavesText ==
  ASSUME NEW fr, HasRoom(fr)
  PROVE  IsText(Saves(fr)) /\ IsText(Restores(fr))
<1> DEFINE n == Len(fr.saved)
<1>1. n \in Nat /\ Len(SavedRegs) \in Nat /\ n <= Len(SavedRegs)
  <2>1. n \in Nat
    BY ListShape DEF HasRoom
  <2>. QED BY <2>1, RegistersApart DEF HasRoom
<1>2. ASSUME NEW k \in 1..n PROVE fitsSigned12(SavedAt(k))
  <2>1. ImmHalf \in Nat /\ 4 * (2 + Len(SavedRegs)) <= ImmHalf
    BY RegistersReach DEF WordBytes
  <2>2. SavedAt(k) = -(4 * (2 + k))
    BY DEF SavedAt, WordBytes
  <2>. QED BY <1>1, <2>1, <2>2 DEF fitsSigned12
<1>3. ASSUME NEW k \in 1..n
      PROVE  Encodable(Sw(fr.saved[k], "s0", SavedAt(k))) /\ Encodable(Lw(fr.saved[k], "s0", SavedAt(k)))
  <2>1. fr.saved[k] \in Usable /\ {"s0", "x0"} \subseteq Usable
    BY NamedRegisters DEF HasRoom
  <2>. QED BY <1>2, <2>1, SmallLine DEF Sw, Lw, I
<1>4. ASSUME NEW t, t = [k \in 1..n |-> t[k]], \A k \in 1..n : Encodable(t[k]) PROVE IsText(t)
  <2> DEFINE T == {t[k] : k \in 1..n}
  <2>1. t \in Seq(T) /\ Len(t) = n
    BY <1>1, <1>4
  <2>2. IsList(t)
    <3>. HIDE DEF T
    <3>. QED BY <2>1, ListOf
  <2>. QED BY <1>4, <2>1, <2>2 DEF IsText
<1>5. Saves(fr) = [k \in 1..n |-> Sw(fr.saved[k], "s0", SavedAt(k))]
  BY DEF Saves, HasRoom
<1>6. Restores(fr) = [k \in 1..n |-> Lw(fr.saved[k], "s0", SavedAt(k))]
  BY DEF Restores, HasRoom
<1>. HIDE DEF n
<1>7. IsText([k \in 1..n |-> Sw(fr.saved[k], "s0", SavedAt(k))])
  BY <1>3, <1>4
<1>8. IsText([k \in 1..n |-> Lw(fr.saved[k], "s0", SavedAt(k))])
  BY <1>3, <1>4
<1>. QED BY <1>5, <1>6, <1>7, <1>8

\* The prologue of a frame of any size.
LEMMA PrologueText ==
  ASSUME NEW fr, HasRoom(fr)
  PROVE  IsText(Prologue(fr))
<1> DEFINE size == FrameSize(fr)
           keepRa == IF leaf THEN << >> ELSE StoreToAddress("ra", "sp", size - 4)
           base == IF fitsSigned12(size) THEN << I("addi", "s0", "sp", size) >>
                   ELSE << Li("t2", size), R("add", "s0", "sp", "t2") >>
<1>1. {"t2", "sp", "s0", "ra", "x0"} \subseteq Usable
  BY NamedRegisters
<1>2. Prologue(fr) = IF ~ NeedsFrame(fr) THEN << >>
                     ELSE AdjustStackPointer(-size) \o keepRa \o StoreToAddress("s0", "sp", size - 8) \o base \o Saves(fr)
  BY DEF Prologue
<1>. HIDE DEF size
<1>3. IsText(keepRa) /\ IsText(StoreToAddress("s0", "sp", size - 8)) /\ IsText(<< >>)
  BY <1>1, AccessText, ShortTexts
<1>4. IsText(base)
  <2>1. fitsSigned12(size) => Encodable(I("addi", "s0", "sp", size))
    BY <1>1, SmallLine DEF I
  <2>2. Encodable(Li("t2", size)) /\ Encodable(R("add", "s0", "sp", "t2"))
    BY <1>1, LiLine, PlainLines
  <2>. QED BY <2>1, <2>2, ShortTexts
<1>. HIDE DEF keepRa, base
<1>. QED BY <1>2, <1>3, <1>4, AdjustText, SavesText, TextConcat

\* What a function ends with: a return, or a jump.
LEMMA LeaveText ==
  ASSUME NEW fr, HasRoom(fr)
  PROVE  /\ \A withRa \in BOOLEAN : IsText(Leave(fr, withRa))
         /\ IsText(Epilogue(fr))
         /\ \A g : IsText(TailCall(fr, g))
<1>1. {"s0", "ra", "x0"} \subseteq Usable
  BY NamedRegisters
<1>2. IsText(<< Lw("ra", "s0", -4) >>) /\ IsText(<< Lw("s0", "s0", -8) >>) /\ IsText(<< >>)
  <2>1. fitsSigned12(-4) /\ fitsSigned12(-8)
    BY SmallNumbers
  <2>2. Encodable(Lw("ra", "s0", -4)) /\ Encodable(Lw("s0", "s0", -8))
    BY <1>1, <2>1, SmallLine DEF Lw, I
  <2>. QED BY <2>2, ShortTexts
<1>3. ASSUME NEW withRa \in BOOLEAN PROVE IsText(Leave(fr, withRa))
  <2>1. IsText(AdjustStackPointer(FrameSize(fr))) /\ IsText(Restores(fr))
    BY AdjustText, SavesText
  <2>2. IsText(IF withRa THEN << Lw("ra", "s0", -4) >> ELSE << >>)
    BY <1>2
  <2>. QED BY <1>2, <2>1, <2>2, TextConcat DEF Leave
<1>4. IsText(Epilogue(fr))
  <2>1. IsText(<< Ret >>)
    BY PlainLines, ShortTexts
  <2>2. IsText(Leave(fr, ~ leaf))
    BY <1>3
  <2>. QED BY <1>2, <2>1, <2>2, TextConcat DEF Epilogue
<1>5. ASSUME NEW g PROVE IsText(TailCall(fr, g))
  <2>1. IsText(<< J(Body(current)) >>) /\ IsText(<< J(<<"function", g>>) >>)
    BY PlainLines, ShortTexts
  <2>2. IsText(Leave(fr, TRUE))
    BY <1>3
  <2>. QED BY <2>1, <2>2, TextConcat DEF TailCall
<1>. QED BY <1>3, <1>4, <1>5

\* The lines of the instructions.
LEMMA LinesText ==
  ASSUME ir \in Programs, AllTranslatable(ir), current \in FunctionsOf(ir), NEW fr, IsLayout(fr), HasRoom(fr)
  PROVE  IsText(Lines(fr))
<1> DEFINE code == Code(ir, current)
           S(i) == Selected(ir, current, fr, i)
           T(i) == TailCall(fr, ir[i].src1.name)
           stop == {i \in Nat : i \notin code \/ IsTailCall(i)}
           last == [i \in Nat |-> IF i \notin code THEN << >> ELSE T(i)]
           piece == [i \in Nat |-> S(i).lines]
           next == [i \in Nat |-> IF i \in stop THEN i + 1 ELSE i + S(i).length]
           Fits(g) == g = [i \in Nat |-> IF i \notin code THEN << >>
                                         ELSE IF IsTailCall(i) THEN T(i)
                                         ELSE S(i).lines \o g[i + S(i).length]]
<1>1. code \subseteq 1..Len(ir) /\ Len(ir) \in Nat /\ BeginOf(ir, current) + 1 \in Nat
  <2>1. BeginOf(ir, current) \in 1..Len(ir) /\ Code(ir, current) \subseteq 1..Len(ir) /\ Len(ir) \in Nat
    BY FunctionInside
  <2>. QED BY <2>1
<1>2. ASSUME NEW i \in Nat \ stop PROVE S(i).length \in Nat \ {0} /\ IsText(S(i).lines)
  <2>1. i \in Code(ir, current)
    OBVIOUS
  <2>. QED BY <2>1, SelectedText
<1>3. Lines(fr) = (CHOOSE g : Fits(g))[BeginOf(ir, current) + 1]
  BY DEF Lines
<1>4. \A g : Fits(g) <=> Pieced(stop, last, piece, next, g)
  <2>. HIDE DEF S, T, code
  <2>1. ASSUME NEW g
        PROVE  [i \in Nat |-> IF i \notin code THEN << >>
                              ELSE IF IsTailCall(i) THEN T(i) ELSE S(i).lines \o g[i + S(i).length]]
                 = [i \in Nat |-> IF i \in stop THEN last[i] ELSE piece[i] \o g[next[i]]]
    OBVIOUS
  <2>. QED BY <2>1 DEF Pieced
<1>5. next \in [Nat -> Nat] /\ \A i \in Nat : next[i] > i
  <2>. HIDE DEF S, stop
  <2>. QED BY <1>2
<1>6. \A i \in Nat : i > Len(ir) => i \in stop
  <2>. HIDE DEF code
  <2>. QED BY <1>1
<1>7. \A i \in Nat : (i \in stop => IsText(last[i])) /\ (i \notin stop => IsText(piece[i]))
  <2>1. \A i \in Nat : IsText(last[i])
    <3>. HIDE DEF code
    <3>. QED BY LeaveText, ShortTexts
  <2>2. \A i \in Nat : i \notin stop => IsText(piece[i])
    <3>. HIDE DEF S, stop
    <3>. QED BY <1>2
  <2>. QED BY <2>1, <2>2
<1>. HIDE DEF stop, last, piece, next, Fits
<1>8. \E g : Fits(g)
  BY <1>1, <1>4, <1>5, <1>6, PiecedExists
<1> DEFINE from == CHOOSE g : Fits(g)
<1>9. Pieced(stop, last, piece, next, from)
  BY <1>4, <1>8
<1>. HIDE DEF from
<1>10. \A i \in Nat : IsText(from[i])
  <2>1. /\ \A i \in Nat : i \in stop => IsText(last[i])
        /\ \A i \in Nat : i \notin stop => IsText(piece[i])
    BY <1>7
  <2>. QED BY <1>1, <1>5, <1>6, <1>9, <2>1, PiecedText
<1>. QED BY <1>1, <1>3, <1>10 DEF from

\* What loads the constants that have registers.
LEMMA ConstantsText ==
  IsText(ForConstants)
<1> DEFINE S == ToSet(ArgRegs) \union ToSet(SavedRegs) \union ToSet(TempRegs)
           all == ArgRegs \o SavedRegs \o TempRegs
           order == InOrder(all, Range(frame.constants))
           value(r) == CHOOSE c \in DOMAIN frame.constants : frame.constants[c] = r
           t == [k \in 1..Len(order) |-> Li(order[k], value(order[k]))]
<1>1. all \in Seq(S)
  <2>1. ArgRegs \in Seq(STRING) /\ SavedRegs \in Seq(STRING) /\ TempRegs \in Seq(STRING)
    BY Zenon, RegistersApart
  <2>2. ArgRegs \in Seq(S) /\ SavedRegs \in Seq(S) /\ TempRegs \in Seq(S)
    BY <2>1 DEF ToSet
  <2>. HIDE DEF S
  <2>. QED BY <2>2
<1>2. S \subseteq Usable
  BY DEF Usable, Registers, Destroyed
<1>. HIDE DEF S, all
<1>3. /\ IsList(order) /\ DOMAIN order = 1..Len(order)
      /\ \A k \in 1..Len(order) : \E j \in 1..Len(all) : order[k] = all[j]
  BY <1>1, InOrderList
<1>4. Len(order) \in Nat /\ \A k \in 1..Len(order) : order[k] \in Usable
  <2>1. \A j \in 1..Len(all) : all[j] \in S
    BY <1>1
  <2>. HIDE DEF order
  <2>. QED BY <1>2, <1>3, <2>1, ListShape
<1>5. ForConstants = t
  BY <1>3 DEF ForConstants, all
<1>. HIDE DEF order, value
<1>6. \A k \in 1..Len(order) : Encodable(t[k])
  BY <1>4, LiLine
<1>7. IsList(t) /\ Len(t) = Len(order)
  <2> DEFINE T == {t[k] : k \in 1..Len(order)}
  <2>1. t \in Seq(T) /\ Len(t) = Len(order)
    BY <1>4
  <2>. HIDE DEF T, t
  <2>. QED BY <2>1, ListOf
<1>. HIDE DEF t
<1>. QED BY <1>5, <1>6, <1>7 DEF IsText

\* What loads and stores the globals that have registers.
LEMMA GlobalsText ==
  ASSUME IsLayout(frame), IsFiniteSet(DOMAIN frame.globals)
  PROVE  IsText(ForGlobals(LoadGlobal)) /\ IsText(ForGlobals(StoreGlobal))
<1> DEFINE D == DOMAIN frame.globals
           n == Cardinality(D)
           order == SetToSeq(D)
           loads == [k \in 1..n |-> LoadGlobal(order[k])]
           stores == [k \in 1..n |-> StoreGlobal(order[k])]
<1>1. n \in Nat /\ order \in [1..n -> D]
  <2>1. n \in Nat /\ ExistsBijection(1..n, D)
    BY FS_CardinalityType
  <2>. HIDE DEF D, n
  <2>2. \E g \in [1..n -> D] : IsInjective(g)
    BY <2>1 DEF ExistsBijection, Bijection, Injection
  <2>. QED BY <2>1, <2>2 DEF SetToSeq, n
<1>2. ASSUME NEW g \in D PROVE IsText(LoadGlobal(g)) /\ IsText(StoreGlobal(g))
  <2>1. frame.globals[g] \in Usable /\ {"t2", "x0"} \subseteq Usable
    BY NamedRegisters DEF IsLayout, Usable
  <2>2. Encodable(La("t2", g)) /\ Encodable(Lw(frame.globals[g], "t2", 0)) /\ Encodable(Sw(frame.globals[g], "t2", 0))
    BY <2>1, PlainLine DEF La, Lw, Sw, I
  <2>. QED BY <2>2, ShortTexts DEF LoadGlobal, StoreGlobal
<1>3. ForGlobals(LoadGlobal) = FlattenSeq(loads) /\ ForGlobals(StoreGlobal) = FlattenSeq(stores)
  <2>1. DOMAIN order = 1..n
    <3>. HIDE DEF D, n, order
    <3>. QED BY <1>1
  <2>. QED BY <2>1 DEF ForGlobals
<1>. HIDE DEF D, n, order
<1>4. \A k \in 1..n : IsText(loads[k]) /\ IsText(stores[k])
  BY <1>1, <1>2
<1>5. loads = [k \in 1..n |-> loads[k]] /\ stores = [k \in 1..n |-> stores[k]]
  OBVIOUS
<1>. HIDE DEF loads, stores
<1>6. IsText(FlattenSeq(loads)) /\ IsText(FlattenSeq(stores))
  BY <1>1, <1>4, <1>5, FlatText
<1>. QED BY <1>3, <1>6

\* The text of the function at hand, before and after the peephole pass.
LEMMA FunctionText ==
  ASSUME ir \in Programs, AllTranslatable(ir), current \in FunctionsOf(ir),
         IsLayout(frame), HasRoom(frame), IsFiniteSet(DOMAIN frame.globals)
  PROVE  IsText(applyPeephole(Text))
<1>1. IsText(<< At(<<"function", current>>) >>) /\ IsText(<< At(Body(current)) >>) /\ IsText(<< At(Exit(current)) >>)
  BY PlainLines, ShortTexts
<1>2. IsText(Prologue(frame)) /\ IsText(ForConstants) /\ IsText(Epilogue(frame))
  BY PrologueText, ConstantsText, LeaveText
<1>3. IsText(ForGlobals(LoadGlobal)) /\ IsText(ForGlobals(StoreGlobal)) /\ IsText(Lines(frame))
  BY GlobalsText, LinesText
<1>4. IsText(Text)
  BY <1>1, <1>2, <1>3, TextConcat DEF Text
<1>. QED BY <1>4, PeepholeText


-------------------------------------------------------------------------------
(***************************************************************************)
(* The text so far can be assembled, and the frame names registers.        *)
(***************************************************************************)
EncodingInv ==
  /\ AllTranslatable(ir)
  /\ IsText(asm)
  /\ IsFiniteSet(DOMAIN frame.globals)
  /\ \A c \in DOMAIN frame.constants : frame.constants[c] \in Registers
  /\ HasRoom(frame)

\* What a function begins with has room: nothing is saved.
LEMMA NewFrameHasRoom ==
  /\ IsFiniteSet(DOMAIN NewFrame.globals) /\ DOMAIN NewFrame.constants = {}
  /\ HasRoom(NewFrame)
<1>1. /\ NewFrame.saved = << >> /\ DOMAIN NewFrame.globals = {} /\ DOMAIN NewFrame.constants = {}
  BY DEF NewFrame
<1>2. IsFiniteSet({})
  BY FS_EmptySet
<1>3. SavedRegs \in Seq(STRING)
  BY Zenon, RegistersApart
<1>4. IsList(<< >>) /\ Len(<< >>) = 0 /\ DOMAIN << >> = 1..0 /\ Len(<< >>) <= Len(SavedRegs)
  BY <1>3 DEF IsList
<1>. QED BY <1>1, <1>2, <1>4 DEF HasRoom

\* At first nothing is written.
LEMMA EncodingInit == Init /\ AllTranslatable(ir) => EncodingInv
<1>1. IsText(<< >>)
  BY ShortTexts
<1>. QED BY <1>1, NewFrameHasRoom DEF Init, EncodingInv

\* Whatever is decided about registers, they are registers of the machine.
LEMMA LayoutAtHand ==
  ASSUME Inductive, EncodingInv
  PROVE  IsLayout(frame)
<1>1. \A n \in DOMAIN frame.locals : frame.locals[n] \in Registers
  BY RegistersOf DEF Inductive, TempsInv, GraphInv, Coloured
<1>2. \A g \in DOMAIN frame.globals : frame.globals[g] \in Registers
  BY RegistersOf DEF Inductive, GlobalsInv
<1>. QED BY <1>1, <1>2 DEF EncodingInv, IsLayout

\* Steps that write nothing, and leave what is given to globals and constants
\* and what is saved.
LEMMA EncodingKept ==
  ASSUME EncodingInv, UNCHANGED <<ir, asm>>,
         frame'.globals = frame.globals, frame'.constants = frame.constants, frame'.saved = frame.saved
  PROVE  EncodingInv'
BY DEF EncodingInv, HasRoom

\* A temporary or a variable gets a register.
LEMMA TakenKeeps ==
  ASSUME EncodingInv, IsFrame(frame), UNCHANGED <<ir, asm>>, NEW a, NEW b,
         frame' = frame \/ frame' = [frame EXCEPT !.locals = a] \/ frame' = [[frame EXCEPT !.locals = a] EXCEPT !.temps = b]
  PROVE  EncodingInv'
<1> DEFINE one == [frame EXCEPT !.locals = a]
           two == [one EXCEPT !.temps = b]
<1>1. one = [temps |-> frame.temps, locals |-> a, globals |-> frame.globals,
             constants |-> frame.constants, spilled |-> frame.spilled, saved |-> frame.saved]
  BY DEF IsFrame
<1>. HIDE DEF one
<1>2. two = [temps |-> b, locals |-> a, globals |-> frame.globals,
             constants |-> frame.constants, spilled |-> frame.spilled, saved |-> frame.saved]
  BY <1>1
<1>. HIDE DEF two
<1>3. frame' \in {frame, one, two}
  BY DEF one, two
<1>4. frame'.globals = frame.globals /\ frame'.constants = frame.constants /\ frame'.saved = frame.saved
  BY <1>1, <1>2, <1>3
<1>. QED BY <1>4, EncodingKept

\* A temporary gets a register, or none.
LEMMA PlaceTempEncodes ==
  ASSUME Inductive, EncodingInv, PlaceTemp
  PROVE  EncodingInv'
<1>1. PICK n \in queue :
        frame' \in IF FreeTemp(n) = {} THEN {frame}
                   ELSE {[Taken(r, n) EXCEPT !.temps = Joined(@, InReg(n, r))] : r \in FreeTemp(n)}
  BY Zenon DEF PlaceTemp
<1>2. UNCHANGED <<ir, asm>>
  BY DEF PlaceTemp
<1>3. IsFrame(frame)
  BY DEF Inductive, FunctionAtHand
<1>4. CASE frame' = frame
  BY <1>2, <1>4, EncodingKept
<1>5. CASE frame' # frame
  <2>1. PICK r \in FreeTemp(n) : frame' = [Taken(r, n) EXCEPT !.temps = Joined(@, InReg(n, r))]
    BY <1>1, <1>5
  <2>2. PICK a, b : frame' = [[frame EXCEPT !.locals = a] EXCEPT !.temps = b]
    BY <2>1 DEF Taken
  <2>. QED BY <1>2, <1>3, <2>2, TakenKeeps
<1>. QED BY <1>4, <1>5

\* Formals stay where they come.
LEMMA BuildGraphEncodes ==
  ASSUME Inductive, EncodingInv, BuildGraph
  PROVE  EncodingInv'
<1>1. UNCHANGED <<ir, asm>> /\ frame' = [frame EXCEPT !.locals = Joined(frame.locals, FormalsInPlace)]
  BY DEF BuildGraph
<1>2. IsFrame(frame)
  BY DEF Inductive, FunctionAtHand
<1>. QED BY <1>1, <1>2, TakenKeeps

\* A variable gets a register, or none.
LEMMA ColourEncodes ==
  ASSUME Inductive, EncodingInv, Colour
  PROVE  EncodingInv'
<1>1. PICK n \in queue :
        frame' \in IF Colours(n) = {} THEN {frame} ELSE {Taken(r, n) : r \in Colours(n)}
  BY Zenon DEF Colour
<1>2. UNCHANGED <<ir, asm>> /\ IsFrame(frame)
  BY DEF Colour, Inductive, FunctionAtHand
<1>3. PICK a : frame' = frame \/ frame' = [frame EXCEPT !.locals = a]
  BY <1>1 DEF Taken
<1>. QED BY <1>2, <1>3, TakenKeeps

\* One more global gets a register.
LEMMA PlaceGlobalEncodes ==
  ASSUME Inductive, EncodingInv, PlaceGlobal
  PROVE  EncodingInv'
<1>1. PICK g \in queue :
        frame' \in IF FreeForGlobal = {} THEN {frame}
                   ELSE {[frame EXCEPT !.globals = Joined(@, InReg(g, r))] : r \in FreeForGlobal}
  BY DEF PlaceGlobal
<1>2. UNCHANGED <<ir, asm>> /\ IsFrame(frame)
  BY DEF PlaceGlobal, Inductive, FunctionAtHand
<1>3. CASE frame' = frame
  BY <1>2, <1>3, EncodingKept
<1>4. CASE frame' # frame
  <2>1. PICK r \in FreeForGlobal : frame' = [frame EXCEPT !.globals = Joined(frame.globals, InReg(g, r))]
    BY <1>1, <1>4
  <2>2. /\ frame'.globals = Joined(frame.globals, InReg(g, r))
        /\ frame'.constants = frame.constants /\ frame'.saved = frame.saved
    BY <1>2, <2>1 DEF IsFrame
  <2>3. DOMAIN frame'.globals = DOMAIN frame.globals \union {g}
    BY <2>2 DEF Joined, InReg
  <2>4. IsFiniteSet(DOMAIN frame'.globals)
    BY <2>3, FS_AddElement DEF EncodingInv
  <2>. QED BY <1>2, <2>2, <2>4 DEF EncodingInv, HasRoom
<1>. QED BY <1>3, <1>4

\* A spare register is one of the machine's.
LEMMA SpareIsRegister ==
  ASSUME NEW r, Spare(r)
  PROVE  r \in Registers
<1>1. t3 \in Registers /\ ToSet(SavedRegs) \subseteq Registers /\ ToSet(ArgRegs) \subseteq Registers
  BY RegistersOf DEF Permanent
<1>2. \A k \in DOMAIN ArgRegs : ArgRegs[k] \in ToSet(ArgRegs)
  BY DEF ToSet
<1>. QED BY <1>1, <1>2 DEF Spare

\* Constants get spare registers; and of the registers to be saved, each is
\* saved at most once.
LEMMA SettleEncodes ==
  ASSUME EncodingInv, IsFrame(frame), Settle
  PROVE  EncodingInv'
<1>1. UNCHANGED <<ir, asm>>
  BY DEF Settle
<1>2. PICK fr \in {[frame EXCEPT !.constants = Hoisted(HotIn(ir, current)),
                               !.spilled = SelectSeq(VarOrder(ir, current), LAMBDA n : n \notin DOMAIN frame.locals)]} :
        frame' = [fr EXCEPT !.saved = scanUsedSRegisters(applyPeephole(Lines(fr)))]
  BY DEF Settle
<1> DEFINE constants == Hoisted(HotIn(ir, current))
           spilled == SelectSeq(VarOrder(ir, current), LAMBDA n : n \notin DOMAIN frame.locals)
           lines == applyPeephole(Lines(fr))
<1> DEFINE saved == scanUsedSRegisters(lines)
<1>3. frame'.globals = frame.globals /\ frame'.constants = constants /\ frame'.saved = saved
  <2>1. fr = [frame EXCEPT !.constants = constants, !.spilled = spilled]
    BY <1>2
  <2>2. frame' = [fr EXCEPT !.saved = saved]
    BY <1>2
  <2>. HIDE DEF constants, spilled, saved
  <2> DEFINE given == [frame EXCEPT !.constants = constants]
  <2>3. given = [temps |-> frame.temps, locals |-> frame.locals, globals |-> frame.globals,
                 constants |-> constants, spilled |-> frame.spilled, saved |-> frame.saved]
    BY DEF IsFrame
  <2>4. fr = [given EXCEPT !.spilled = spilled]
    BY <2>1
  <2>. HIDE DEF given
  <2>5. fr = [temps |-> frame.temps, locals |-> frame.locals, globals |-> frame.globals,
              constants |-> constants, spilled |-> spilled, saved |-> frame.saved]
    BY <2>3, <2>4
  <2>6. frame' = [temps |-> frame.temps, locals |-> frame.locals, globals |-> frame.globals,
                  constants |-> constants, spilled |-> spilled, saved |-> saved]
    BY <2>2, <2>5
  <2>. QED BY <2>6
<1>4. \A c \in DOMAIN constants : constants[c] \in Registers
  BY HoistedAreSpare, SpareIsRegister
<1>5. /\ IsList(saved) /\ Len(saved) <= Len(SavedRegs) /\ DOMAIN saved = 1..Len(saved)
      /\ \A k \in 1..Len(saved) : saved[k] \in Usable
  <2>1. SavedRegs \in Seq(STRING)
    BY Zenon, RegistersApart
  <2> DEFINE wanted == UNION {{line.rd, line.rs, line.rt} : line \in ToSet(lines)}
  <2>2. saved = InOrder(SavedRegs, wanted)
    BY DEF scanUsedSRegisters
  <2>. HIDE DEF wanted, saved
  <2>3. /\ IsList(saved) /\ Len(saved) <= Len(SavedRegs) /\ DOMAIN saved = 1..Len(saved)
        /\ \A k \in 1..Len(saved) : \E j \in 1..Len(SavedRegs) : saved[k] = SavedRegs[j]
    BY <2>1, <2>2, InOrderList
  <2>. QED BY <2>3, NamedRegisters
<1>. HIDE DEF constants, saved
<1>. QED BY <1>1, <1>3, <1>4, <1>5 DEF EncodingInv, HasRoom

\* The text of the function at hand is added.
LEMMA EmitEncodes ==
  ASSUME Inductive, EncodingInv, Emit
  PROVE  EncodingInv'
<1>1. functions # {} /\ asm' = asm \o applyPeephole(Text) /\ frame' = NewFrame /\ UNCHANGED ir
  BY DEF Emit, At1
<1>2. ir \in Programs /\ current \in FunctionsOf(ir)
  BY <1>1, AtHand DEF Inductive
<1>3. IsLayout(frame)
  BY LayoutAtHand
<1>4. IsText(applyPeephole(Text))
  BY <1>2, <1>3, FunctionText DEF EncodingInv
<1>5. IsText(asm')
  BY <1>1, <1>4, TextConcat DEF EncodingInv
<1>. QED BY <1>1, <1>5, NewFrameHasRoom DEF EncodingInv

\* Every step keeps the invariant.
LEMMA EncodingStep ==
  ASSUME Inductive, EncodingInv, [Next]_vars
  PROVE  EncodingInv'
<1>1. IsFrame(frame)
  BY DEF Inductive, FunctionAtHand
<1>2. CASE PlaceTemp
  BY <1>2, PlaceTempEncodes
<1>3. CASE FindLive
  BY <1>3, EncodingKept DEF FindLive
<1>4. CASE BuildGraph
  BY <1>4, BuildGraphEncodes
<1>5. CASE Colour
  BY <1>5, ColourEncodes
<1>6. CASE OrderGlobals
  BY <1>6, EncodingKept DEF OrderGlobals
<1>7. CASE PlaceGlobal
  BY <1>7, PlaceGlobalEncodes
<1>8. CASE Settle
  BY <1>1, <1>8, SettleEncodes
<1>9. CASE Emit
  BY <1>9, EmitEncodes
<1>10. CASE UNCHANGED vars
  BY <1>10, EncodingKept DEF vars
<1>. QED BY <1>2, <1>3, <1>4, <1>5, <1>6, <1>7, <1>8, <1>9, <1>10 DEF Next

-------------------------------------------------------------------------------
(***************************************************************************)
(* Whatever the code, the registers, the width of words and of immediates: *)
(* every line that is emitted names registers, and every immediate fits    *)
(* its instruction.  It holds of the selected lines, of what the peephole  *)
(* pass makes of them, of the magic multipliers and shifts of divisions,   *)
(* and of a frame that is larger than an immediate can say.                *)
(***************************************************************************)
THEOREM TextEncodable == Spec /\ AllTranslatable(ir) => []AllEncodable
<1>1. ASSUME EncodingInv PROVE AllEncodable
  <2>1. IsList(asm) /\ \A k \in 1..Len(asm) : Encodable(asm[k])
    BY <1>1 DEF EncodingInv, IsText
  <2>2. \A line \in ToSet(asm) : \E k \in 1..Len(asm) : line = asm[k]
    BY <2>1, ListShape DEF ToSet
  <2>. QED BY <2>1, <2>2 DEF AllEncodable
<1>2. Spec /\ AllTranslatable(ir) => []EncodingInv
  BY EncodingInit, EncodingStep, SpecInductive, PTL DEF Spec
<1>. QED BY <1>1, <1>2, PTL
===============================================================================
