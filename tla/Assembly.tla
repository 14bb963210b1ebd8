------------------------------- MODULE Assembly -------------------------------
(***************************************************************************)
(* The lines that code_generator.cpp emits, what they do to the machine,   *)
(* and the pass that shortens them.  A line is one instruction, pseudo-    *)
(* instruction or label of RV32IM.                                         *)
(***************************************************************************)
EXTENDS IRMachine

CONSTANTS ArgRegs,   \* a0 ..
          SavedRegs, \* s2 ..
          TempRegs,  \* t3 ..
          ImmHalf    \* immediates are -ImmHalf .. ImmHalf - 1 (2^11)

WordBits == CHOOSE n \in 1..32 : 2^(n - 1) = Half
WordBytes == 4

Scratch == {"t0", "t1", "t2"}
Destroyed == Scratch \union ToSet(TempRegs) \union ToSet(ArgRegs)
Registers == Destroyed \union ToSet(SavedRegs) \union {"sp", "s0", "ra"}

\* The registers of a list that are wanted, in the order of the list.
InOrder(regs, wanted) ==
  LET at == {j \in DOMAIN regs : regs[j] \in wanted}
      Rank(j) == Cardinality({i \in at : i <= j})
  IN [k \in 1..Cardinality(at) |-> regs[CHOOSE j \in at : Rank(j) = k]]

fitsSigned12(v) == v \in (-ImmHalf)..(ImmHalf - 1)

-------------------------------------------------------------------------------
Line(op, rd, rs, rt, imm, to) ==
  [op |-> op, rd |-> rd, rs |-> rs, rt |-> rt, imm |-> imm, to |-> to]
Nowhere == <<"", NoName>>

R(op, rd, rs, rt)    == Line(op, rd, rs, rt, 0, Nowhere)
I(op, rd, rs, imm)   == Line(op, rd, rs, "x0", imm, Nowhere)
U(op, rd, rs)        == R(op, rd, rs, "x0")                 \* mv, seqz, snez
Li(rd, v)            == I("li", rd, "x0", v)
La(rd, g)            == Line("la", rd, "x0", "x0", 0, <<"global", g>>)
Lw(rd, base, offset) == I("lw", rd, base, offset)
Sw(rt, base, offset) == Line("sw", "x0", base, rt, offset, Nowhere)
B(op, rs, rt, to)    == Line(op, "x0", rs, rt, 0, to)       \* beq, bne, blt, bge
Z(op, rs, to)        == B(op, rs, "x0", to)                 \* beqz, bgtz, ..
J(to)                == Z("j", "x0", to)
At(to)               == Z("label", "x0", to)
CallTo(f)            == Z("call", "x0", <<"function", f>>)
Ret                  == J(Nowhere)

\* What the assembler accepts.
Encodable(line) ==
  /\ {line.rd, line.rs, line.rt} \subseteq Registers \union {"x0"}
  /\ line.op \in {"addi", "slti", "sltiu", "xori", "andi", "lw", "sw"} => fitsSigned12(line.imm)
  /\ line.op \in {"slli", "srli", "srai"} => line.imm \in 0..(WordBits - 1)

-------------------------------------------------------------------------------
\* What a line does that is no jump.  Registers hold words, Undefined when
\* nothing sensible is in them; memory is a function of word addresses.
Shifted(op, a, k) ==
  CASE op = "slli" -> Wrap(a * 2^k)
    [] op = "srli" -> Wrap((a % (2 * Half)) \div 2^k)
    [] OTHER       -> a \div 2^k

\* b is the second register or the immediate.
ALU(op, a, b) ==
  CASE op \in {"add", "addi"} -> Wrap(a + b)
    [] op = "sub"  -> Wrap(a - b)
    [] op = "mul"  -> Wrap(a * b)
    [] op = "mulh" -> (a * b) \div (2 * Half)
    [] op = "div"  -> IF b = 0 THEN -1 ELSE Wrap(TDiv(a, b))
    [] op = "rem"  -> IF b = 0 THEN a ELSE TMod(a, b)
    [] op \in {"slt", "slti"} -> Truth(a < b)
    [] op = "seqz" -> Truth(a = 0)
    [] op = "snez" -> Truth(a # 0)
    [] op = "sltiu" -> Truth(a = 0)                         \* b = 1
    [] op = "xori" -> IF a % 2 = 0 THEN a + b ELSE a - b    \* b = 1
    [] op = "andi" -> a % (b + 1)                           \* b = 2^n - 1
    [] OTHER       -> Shifted(op, a, b)

Registered == {"add", "sub", "mul", "mulh", "div", "rem", "slt", "seqz", "snez"}
Immediate  == {"addi", "slti", "sltiu", "xori", "andi", "slli", "srli", "srai"}
StraightOps == Registered \union Immediate \union {"li", "mv", "la", "lw", "sw", "label"}

\* Where the n-th global is.
GlobalAt(ir, g) == Half - WordBytes * (CHOOSE i \in DOMAIN ir : ir[i].op = "GLOBAL_VAR_DECL" /\ ir[i].dest.name = g)

In(m, r) == IF r = "x0" THEN 0 ELSE m.regs[r]
Put(m, r, v) == [m EXCEPT !.regs[r] = v, !.pc = @ + 1]
Fault(m) == [m EXCEPT !.status = "fault"]

Access(m, line, address) ==
  IF address = Undefined \/ address + line.imm \notin DOMAIN m.mem THEN Fault(m)
  ELSE IF line.op = "lw" THEN Put(m, line.rd, m.mem[address + line.imm])
  ELSE [m EXCEPT !.mem[address + line.imm] = In(m, line.rt), !.pc = @ + 1]

Calculated(line, a, b) == IF a = Undefined \/ b = Undefined THEN Undefined ELSE ALU(line.op, a, b)

Worked(ir, m, line) ==
  LET a == In(m, line.rs)
      b == In(m, line.rt)
  IN CASE line.op \in Registered -> Put(m, line.rd, Calculated(line, a, b))
       [] line.op \in Immediate -> Put(m, line.rd, Calculated(line, a, line.imm))
       [] line.op = "li" -> Put(m, line.rd, line.imm)
       [] line.op = "mv" -> Put(m, line.rd, a)
       [] line.op = "la" -> Put(m, line.rd, GlobalAt(ir, line.to[2]))
       [] line.op \in {"lw", "sw"} -> Access(m, line, a)
       [] OTHER -> [m EXCEPT !.pc = @ + 1]      \* label

-------------------------------------------------------------------------------
\* CodeGenerator::applyPeephole: one pass over the lines of a function that
\* replaces short windows by shorter ones.

\* A window: how many lines it takes, and what it leaves of them.
Window(length, lines) == [length |-> length, lines |-> lines]

TheEnd == Z("end", "x0", Nowhere)
Behind(lines, k) == IF k < Len(lines) THEN lines[k + 1] ELSE TheEnd
Tests(line, rd) == line.op \in {"beqz", "bnez"} /\ line.rs = rd
InPlace(line, op, rd) == line.op = op /\ line.rd = rd /\ line.rs = rd

\* A comparison and the branch that tests its result, on the registers
\* themselves (patterns 1 to 8).  The result is not computed any more.
CompareWindows(lines) ==
  LET first == lines[1]
      rd == first.rd
      second == Behind(lines, 1)
      third == Behind(lines, 2)
      Less(line) == IF line.op = "bnez" THEN "blt" ELSE "bge"
      NotLess(line) == IF line.op = "bnez" THEN "bge" ELSE "blt"
      Equal(line) == IF (line.op = "bnez") = (second.op = "seqz") THEN "beq" ELSE "bne"
  IN (IF first.op = "slt" /\ Tests(second, rd)
      THEN << Window(2, << B(Less(second), first.rs, first.rt, second.to) >>) >> ELSE << >>)
     \o (IF first.op = "sub" /\ (InPlace(second, "seqz", rd) \/ InPlace(second, "snez", rd)) /\ Tests(third, rd)
         THEN << Window(3, << B(Equal(third), first.rs, first.rt, third.to) >>) >> ELSE << >>)
     \o (IF first.op = "slt" /\ InPlace(second, "xori", rd) /\ Tests(third, rd)
         THEN << Window(3, << B(NotLess(third), first.rs, first.rt, third.to) >>) >> ELSE << >>)

\* Comparisons with a constant: li t1; sub; seqz or snez; branch (pattern 9),
\* slti; xori; branch (pattern 10), slti with 0 or 1; branch (pattern 11).
ConstantWindows(lines) ==
  LET first == lines[1]
      second == Behind(lines, 1)
      third == Behind(lines, 2)
      fourth == Behind(lines, 3)
      NonZero == (third.op = "seqz") = (fourth.op = "beqz")
      OnDifference(r, v, op, to) == << I("addi", r, second.rs, -v), Z(op, r, to) >>
      Zero == IF NonZero THEN "bnez" ELSE "beqz"
      Sign(line) == IF first.imm = 1 THEN (IF line.op = "beqz" THEN "bgtz" ELSE "blez")
                    ELSE (IF line.op = "beqz" THEN "bgez" ELSE "bltz")
  IN (IF /\ first.op = "li" /\ first.rd = "t1" /\ first.imm \in (1 - ImmHalf)..ImmHalf
         /\ second.op = "sub" /\ second.rt = "t1"
         /\ InPlace(third, "seqz", second.rd) \/ InPlace(third, "snez", second.rd)
         /\ Tests(fourth, second.rd)
      THEN << Window(4, IF first.imm = 0 THEN << Z(Zero, second.rs, fourth.to) >>
                        ELSE OnDifference(second.rd, first.imm, Zero, fourth.to)) >>
      ELSE << >>)
     \o (IF /\ first.op = "slti" /\ third # TheEnd /\ first.imm # -ImmHalf
            /\ InPlace(second, "xori", first.rd) /\ Tests(third, first.rd)
         THEN << Window(3, << I("addi", first.rd, first.rs, -first.imm),
                              Z(IF third.op = "beqz" THEN "bltz" ELSE "bgez", first.rd, third.to) >>) >>
         ELSE << >>)
     \o (IF first.op = "slti" /\ third # TheEnd /\ first.imm \in {0, 1} /\ Tests(second, first.rd)
         THEN << Window(2, << Z(Sign(second), first.rs, second.to) >>) >> ELSE << >>)

\* Jumps to the next line, loads of what was just stored (pattern 12), moves
\* to the same place (pattern 0).
IdleWindows(lines) ==
  LET first == lines[1]
      second == Behind(lines, 1)
  IN (IF first.op = "j" /\ second = At(first.to) THEN << Window(1, << >>) >> ELSE << >>)
     \o (IF first.op = "sw" /\ second = Lw(first.rt, first.rs, first.imm)
         THEN << Window(2, << first >>) >> ELSE << >>)
     \o (IF first.rd = first.rs /\ (first.op = "mv" \/ (first.op \in {"addi", "xori"} /\ first.imm = 0))
         THEN << Window(1, << >>) >> ELSE << >>)

\* The first pattern that fits.
WindowAt(lines) ==
  Head(IdleWindows(lines) \o CompareWindows(lines) \o ConstantWindows(lines)
         \o << Window(1, << Head(lines) >>) >>)

applyPeephole(lines) ==
  LET From[k \in Nat] ==
        IF k \notin 1..Len(lines) THEN << >>
        ELSE LET w == WindowAt(SubSeq(lines, k, Len(lines))) IN w.lines \o From[k + w.length]
  IN From[1]
===============================================================================
