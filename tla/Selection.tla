------------------------------- MODULE Selection ------------------------------
(***************************************************************************)
(* CodeGenerator::generateInstruction: the lines that an IR instruction    *)
(* becomes, once its function has a frame.                                 *)
(*                                                                         *)
(* frame.locals, frame.globals and frame.constants give registers to some  *)
(* variables and constants (regForVar, globalRegAlloc, regForConstant);    *)
(* frame.spilled are the other local variables, in the order of their      *)
(* slots; frame.saved are the registers that the prologue saves.           *)
(***************************************************************************)
EXTENDS FrameAnalysis

NoReg == ""

RegOf(frame, o) ==
  IF IsLocal(o) /\ o.name \in DOMAIN frame.locals THEN frame.locals[o.name]
  ELSE IF IsGlobal(o) /\ o.name \in DOMAIN frame.globals THEN frame.globals[o.name]
  ELSE NoReg

ConstReg(frame, v) == IF v \in DOMAIN frame.constants THEN frame.constants[v] ELSE NoReg
ConstRegOf(frame, o) == IF IsImm(o) THEN ConstReg(frame, o.imm) ELSE NoReg

\* reservedWords and localOffset.
ReservedWords(frame) == 2 + Len(frame.saved)
LocalOffset(frame, n) ==
  -(WordBytes * (ReservedWords(frame) + (CHOOSE k \in DOMAIN frame.spilled : frame.spilled[k] = n)))

-------------------------------------------------------------------------------
Move(rd, rs) == IF rd = rs THEN << >> ELSE << U("mv", rd, rs) >>

LoadImmediate(frame, v, r) ==
  IF ConstReg(frame, v) = NoReg THEN << Li(r, v) >> ELSE Move(r, ConstReg(frame, v))

\* An offset that does not fit is added in a scratch register.
Reaching(r, base, offset, access(_, _)) ==
  LET scratch == IF r = "t2" THEN "t1" ELSE "t2"
  IN IF fitsSigned12(offset) THEN << access(base, offset) >>
     ELSE << Li(scratch, offset), R("add", scratch, base, scratch), access(scratch, 0) >>

LoadFromAddress(r, base, offset) == Reaching(r, base, offset, LAMBDA b, o : Lw(r, b, o))
StoreToAddress(r, base, offset)  == Reaching(r, base, offset, LAMBDA b, o : Sw(r, b, o))

\* loadOperand and storeOperand.
Load(frame, o, r) ==
  CASE IsImm(o) -> LoadImmediate(frame, o.imm, r)
    [] RegOf(frame, o) # NoReg -> Move(r, RegOf(frame, o))
    [] RegOf(frame, o) = NoReg /\ IsLocal(o) -> LoadFromAddress(r, "s0", LocalOffset(frame, o.name))
    [] OTHER -> << La("t2", o.name), Lw(r, "t2", 0) >>

Store(frame, r, o) ==
  CASE RegOf(frame, o) # NoReg -> Move(RegOf(frame, o), r)
    [] RegOf(frame, o) = NoReg /\ IsLocal(o) -> StoreToAddress(r, "s0", LocalOffset(frame, o.name))
    [] OTHER -> << La("t2", o.name), Sw(r, "t2", 0) >>

\* destRegOrT0, and the store behind it when the dest is in no register.
DestReg(frame, o) == IF RegOf(frame, o) = NoReg THEN "t0" ELSE RegOf(frame, o)
Finish(frame, o) == IF RegOf(frame, o) = NoReg THEN Store(frame, "t0", o) ELSE << >>

\* The register that holds a constant, loaded into r unless it has one.
Holding(frame, v, r) == IF ConstReg(frame, v) = NoReg THEN r ELSE ConstReg(frame, v)
Providing(frame, v, r) == IF ConstReg(frame, v) = NoReg THEN << Li(r, v) >> ELSE << >>

-------------------------------------------------------------------------------
\* Division by a constant.  The quotient, in t2 (emitMagicDiv, emitMagicMod).
\* Mutant of Quotient: a multiplier that wraps is not made up for.
QuotientOfProduct(frame, imm, rs, nonNegative) ==
  LET m == Magic(Magnitude(imm))
  IN Providing(frame, m.multiplier, "t1")
       \o << R("mulh", "t2", rs, Holding(frame, m.multiplier, "t1")) >>
       \o (IF m.shift > 0 THEN << I("srai", "t2", "t2", m.shift) >> ELSE << >>)
       \o (IF nonNegative THEN << >>
           ELSE << I("srai", "t0", rs, WordBits - 1), R("sub", "t2", "t2", "t0") >>)
       \o (IF imm < 0 THEN << R("sub", "t2", "x0", "t2") >> ELSE << >>)
Quotient(frame, imm, rs, nonNegative) ==
  LET m == Magic(Magnitude(imm))
  IN Providing(frame, m.multiplier, "t1")
       \o << R("mulh", "t2", rs, Holding(frame, m.multiplier, "t1")) >>
       \o (IF m.multiplier < 0 THEN << R("add", "t2", "t2", rs) >> ELSE << >>)
       \o (IF m.shift > 0 THEN << I("srai", "t2", "t2", m.shift) >> ELSE << >>)
       \o (IF nonNegative THEN << >>
           ELSE << I("srai", "t0", rs, WordBits - 1), R("sub", "t2", "t2", "t0") >>)
       \o (IF imm < 0 THEN << R("sub", "t2", "x0", "t2") >> ELSE << >>)

MagicDiv(frame, imm, rs, rd, nonNegative) ==
  Quotient(frame, imm, rs, nonNegative) \o << U("mv", rd, "t2") >>

\* The dividend is kept in t3 when it is in t0.
MagicMod(frame, imm, rs, rd, nonNegative) ==
  (IF rs = "t0" THEN << U("mv", "t3", "t0") >> ELSE << >>)
    \o Quotient(frame, imm, rs, nonNegative)
    \o Providing(frame, imm, "t1")
    \o << R("mul", "t2", "t2", Holding(frame, imm, "t1")),
          R("sub", rd, IF rs = "t0" THEN "t3" ELSE rs, "t2") >>

\* x / 2^n towards zero: a negative x is made larger first.
Rounded(rs, n) ==
  << I("srai", "t1", rs, WordBits - 1), I("srli", "t1", "t1", WordBits - n),
     R("add", "t1", rs, "t1") >>

Opcode == [ADD |-> "add", SUB |-> "sub", MUL |-> "mul", DIV |-> "div", MOD |-> "rem"]

ByRegister(frame, op, imm, rd, rs) ==
  Providing(frame, imm, "t1") \o << R(Opcode[op], rd, rs, Holding(frame, imm, "t1")) >>

MulByConstant(frame, imm, rd, rs) ==
  CASE IsPowerOfTwo(imm) -> << I("slli", rd, rs, Log2(imm)) >>
    [] imm \in {3, 5, 9} -> << I("slli", "t1", rs, Log2(imm - 1)), R("add", rd, "t1", rs) >>
    [] imm \in {7, 15} -> << I("slli", "t1", rs, Log2(imm + 1)), R("sub", rd, "t1", rs) >>
    [] imm = -1 -> << R("sub", rd, "x0", rs) >>
    [] imm # -1 /\ IsPowerOfTwo(-imm) -> << I("slli", rd, rs, Log2(-imm)), R("sub", rd, "x0", rd) >>
    [] OTHER -> ByRegister(frame, "MUL", imm, rd, rs)

\* A constant dividend does not count when the divisor is a power of two.
DivByConstant(frame, imm, rd, rs, localNonNegative, nonNegative) ==
  CASE IsPowerOfTwo(imm) ->
         IF localNonNegative THEN << I("srai", rd, rs, Log2(imm)) >>
         ELSE Rounded(rs, Log2(imm)) \o << I("srai", rd, "t1", Log2(imm)) >>
    [] imm = -1 -> << R("sub", rd, "x0", rs) >>
    [] MagicFor(imm) -> MagicDiv(frame, imm, rs, rd, nonNegative)
    [] OTHER -> ByRegister(frame, "DIV", imm, rd, rs)

ModByConstant(frame, imm, rd, rs, localNonNegative, nonNegative) ==
  CASE IsPowerOfTwo(imm) ->
         IF localNonNegative THEN << I("andi", rd, rs, imm - 1) >>
         ELSE Rounded(rs, Log2(imm))
                \o << I("srai", "t1", "t1", Log2(imm)), I("slli", "t1", "t1", Log2(imm)),
                      R("sub", rd, rs, "t1") >>
    [] imm = -1 -> << Li(rd, 0) >>
    [] MagicFor(imm) -> MagicMod(frame, imm, rs, rd, nonNegative)
    [] OTHER -> ByRegister(frame, "MOD", imm, rd, rs)

-------------------------------------------------------------------------------
\* emitBinaryOp and emitCompareInto first bring their sources into registers:
\* the right one, unless it is a small constant, then the left one, into rd.

\* Mutant of IsSmall: every constant counts as one.
IsAnyConstant(o) == IsImm(o)
IsSmall(o) == IsImm(o) /\ fitsSigned12(o.imm)

RightReg(frame, o, rd) ==
  CASE IsVariable(o) /\ RegOf(frame, o) \notin {NoReg, rd} -> RegOf(frame, o)
    [] ConstRegOf(frame, o) \notin {NoReg, rd} -> ConstRegOf(frame, o)
    [] OTHER -> "t1"
LeftReg(frame, o, rd) ==
  CASE RegOf(frame, o) # NoReg -> RegOf(frame, o)
    [] ConstRegOf(frame, o) # NoReg -> ConstRegOf(frame, o)
    [] OTHER -> rd

LoadSources(frame, inst, rd) ==
  (IF ~ IsSmall(inst.src2) /\ RightReg(frame, inst.src2, rd) = "t1"
   THEN Load(frame, inst.src2, "t1") ELSE << >>)
    \o (IF LeftReg(frame, inst.src1, rd) = rd THEN Load(frame, inst.src1, rd) ELSE << >>)

\* The value of the first source is not negative, as far as index i knows.
LocalNonNegative(ir, f, i, o) == IsLocal(o) /\ IsNonNegative(ir, f, o.name, i)
SourceNonNegative(o, localNonNegative) == localNonNegative \/ (IsImm(o) /\ o.imm >= 0)

Arithmetic(frame, inst, rd, rs, localNonNegative) ==
  LET op == inst.op
      imm == inst.src2.imm
      rt == RightReg(frame, inst.src2, rd)
      nonNegative == SourceNonNegative(inst.src1, localNonNegative)
      large == IsImm(inst.src2) /\ ~ IsSmall(inst.src2)
  IN CASE IsSmall(inst.src2) /\ op = "ADD" -> << I("addi", rd, rs, imm) >>
       [] IsSmall(inst.src2) /\ op = "SUB" -> << I("addi", rd, rs, -imm) >>
       [] IsSmall(inst.src2) /\ op = "MUL" -> MulByConstant(frame, imm, rd, rs)
       [] IsSmall(inst.src2) /\ op = "DIV" ->
            DivByConstant(frame, imm, rd, rs, localNonNegative, nonNegative)
       [] IsSmall(inst.src2) /\ op = "MOD" ->
            ModByConstant(frame, imm, rd, rs, localNonNegative, nonNegative)
       [] large /\ op = "DIV" /\ MagicFor(imm) -> MagicDiv(frame, imm, rs, rd, nonNegative)
       [] large /\ op = "MOD" /\ MagicFor(imm) -> MagicMod(frame, imm, rs, rd, nonNegative)
       [] OTHER -> << R(Opcode[op], rd, rs, rt) >>

\* emitBinaryOp, for the instruction at index i or what replaces it.
Binary(ir, f, frame, inst, i) ==
  LET rd == DestReg(frame, inst.dest)
      lhs == RegOf(frame, inst.src1)
      rhs == RegOf(frame, inst.src2)
      c == inst.src1.imm
      scratch == Holding(frame, c, IF rd = "t0" THEN "t2" ELSE "t0")
      inPlace == inst.op = "SUB" /\ IsImm(inst.src1) /\ rhs # NoReg /\ rhs = rd
      lines ==
        CASE inst.op = "NOT" -> Load(frame, inst.src1, rd) \o << I("sltiu", rd, rd, 1) >>
          [] inPlace /\ c = 0 -> << R("sub", rd, "x0", rhs) >>
          [] inPlace /\ c # 0 -> Providing(frame, c, scratch) \o << R("sub", rd, scratch, rhs) >>
          [] inst.op # "NOT" /\ lhs # NoReg /\ rhs # NoReg -> << R(Opcode[inst.op], rd, lhs, rhs) >>
          [] OTHER ->
               LoadSources(frame, inst, rd)
                 \o Arithmetic(frame, inst, rd, LeftReg(frame, inst.src1, rd),
                               LocalNonNegative(ir, f, i, inst.src1))
  IN lines \o Finish(frame, inst.dest)

\* emitCompareInto.
CompareInto(frame, inst, rd) ==
  LET rs == LeftReg(frame, inst.src1, rd)
      imm == inst.src2.imm
      small == IsSmall(inst.src2)
      given == inst.op \in {"GT", "EQ", "NE"}      \* needs the constant in a register
      rt == IF small THEN Holding(frame, imm, "t1") ELSE RightReg(frame, inst.src2, rd)
      Negated == << I("xori", rd, rd, 1) >>
  IN LoadSources(frame, inst, rd)
       \o (IF small /\ given THEN Providing(frame, imm, "t1") ELSE << >>)
       \o (CASE inst.op = "LT" /\ small -> << I("slti", rd, rs, imm) >>
             [] inst.op = "LE" /\ small -> << I("slti", rd, rs, imm + 1) >>
             [] inst.op = "GE" /\ small -> << I("slti", rd, rs, imm) >> \o Negated
             [] inst.op = "LT" /\ ~ small -> << R("slt", rd, rs, rt) >>
             [] inst.op = "LE" /\ ~ small -> << R("slt", rd, rt, rs) >> \o Negated
             [] inst.op = "GE" /\ ~ small -> << R("slt", rd, rs, rt) >> \o Negated
             [] inst.op = "GT" -> << R("slt", rd, rt, rs) >>
             [] inst.op = "EQ" -> << R("sub", rd, rs, rt), U("seqz", rd, rd) >>
             [] OTHER          -> << R("sub", rd, rs, rt), U("snez", rd, rd) >>)

-------------------------------------------------------------------------------
\* A chain is computed at once when nothing reads its middle value later on in
\* the text, and either it is a mask or its source is not negative.
MiddleRead(ir, f, from, n) ==
  \E k \in Code(ir, f) :
    /\ k >= from /\ Uses(ir[k], n)
    /\ \A j \in from..(k - 1) : ~ Names(ir[j].dest, n)

FusedChains(ir, f, i) ==
  {c \in NormalizedRemainders(ir, f, i) :
     /\ c.middle = c.dest \/ ~ IsLocal(c.middle) \/ ~ MiddleRead(ir, f, i + c.length, c.middle.name)
     /\ IsPowerOfTwo(c.modulus) \/ SourceNonNegative(c.source, LocalNonNegative(ir, f, i, c.source))}

Only(chains) == CHOOSE c \in chains : TRUE
RemainderOf(c) == Inst("MOD", c.dest, c.source, Imm(c.modulus))

Masked(frame, c) ==
  LET rd == DestReg(frame, c.dest)
      clear == WordBits - Log2(c.modulus)
  IN Load(frame, c.source, rd) \o << I("slli", rd, rd, clear), I("srli", rd, rd, clear) >>
       \o Finish(frame, c.dest)

\* A comparison whose result only the next branch reads goes into t0.
ReadCount(ir, f, n) ==
  MapThenSumSet(LAMBDA i : Cardinality({k \in 1..3 : Names(Operands(ir[i])[k], n) /\ (k = 3 => ReadsDest(ir[i]))}),
                Code(ir, f))

Fuses(ir, f, i) ==
  /\ ir[i].op \in RelationOps
  /\ i + 1 \in Code(ir, f) /\ ir[i + 1].op \in {"BEQZ", "BNEZ"}
  /\ IsLocal(ir[i].dest) /\ ir[i + 1].src1 = ir[i].dest
  /\ ReadCount(ir, f, ir[i].dest.name) = 1

LabelOf(o) == <<"label", o.name>>
Exit(f) == <<"exit", f>>
Body(f) == <<"body", f>>
BranchOn == [BEQZ |-> "beqz", BNEZ |-> "bnez"]

Branch(frame, inst) ==
  LET r == DestReg(frame, inst.src1)
  IN Load(frame, inst.src1, r) \o << Z(BranchOn[inst.op], r, LabelOf(inst.dest)) >>

\* The k-th formal comes in a register, or above the frame.
Incoming(frame, o, k) ==
  LET r == DestReg(frame, o)
  IN (IF k < Len(ArgRegs) THEN Move(r, ArgRegs[k + 1])
      ELSE LoadFromAddress(r, "s0", WordBytes * (k - Len(ArgRegs)))) \o Finish(frame, o)

Outgoing(frame, o, k) ==
  IF k < Len(ArgRegs) THEN Load(frame, o, ArgRegs[k + 1])
  ELSE Load(frame, o, "t0") \o StoreToAddress("t0", "sp", WordBytes * (k - Len(ArgRegs)))

FormalsBefore(ir, f, i) == Cardinality({j \in Code(ir, f) : j < i /\ IsParamDecl(ir[j])})

Single(ir, f, frame, inst, i) ==
     CASE IsParamDecl(inst) -> Incoming(frame, inst.dest, FormalsBefore(ir, f, i))
       [] Declares(inst) \/ inst.op \in {"FUNC_BEGIN", "FUNC_END"} -> << >>
       [] inst.op \in {"ASSIGN", "LOCAL_VAR_DECL"} /\ ~ Declares(inst) /\ ~ IsParamDecl(inst) ->
            Load(frame, inst.src1, DestReg(frame, inst.dest)) \o Finish(frame, inst.dest)
       [] inst.op \in ArithmeticOps \union {"NOT"} -> Binary(ir, f, frame, inst, i)
       [] inst.op \in RelationOps ->
            CompareInto(frame, inst, DestReg(frame, inst.dest)) \o Finish(frame, inst.dest)
       [] inst.op = "PARAM" -> Outgoing(frame, inst.dest, inst.src1.imm)
       [] inst.op = "CALL" ->
            << CallTo(inst.src1.name) >>
              \o (IF IsVariable(inst.dest) THEN Store(frame, ArgRegs[1], inst.dest) ELSE << >>)
       [] inst.op = "RETURN" ->
            (IF IsNone(inst.dest) THEN << >> ELSE Load(frame, inst.dest, ArgRegs[1])) \o << J(Exit(f)) >>
       [] inst.op = "LABEL" -> << At(LabelOf(inst.dest)) >>
       [] inst.op = "BRANCH" -> << J(LabelOf(inst.dest)) >>
       [] OTHER -> Branch(frame, inst)

\* The lines for index i, and how many instructions they stand for.
SelectedFor(ir, f, frame, i, chains) ==
  CASE chains # {} /\ \A c \in chains : IsPowerOfTwo(c.modulus) ->
         [lines |-> Masked(frame, Only(chains)), length |-> Only(chains).length]
    [] chains = {} /\ Fuses(ir, f, i) ->
         [lines |-> CompareInto(frame, ir[i], "t0")
                      \o << Z(BranchOn[ir[i + 1].op], "t0", LabelOf(ir[i + 1].dest)) >>,
          length |-> 2]
    [] OTHER ->
         [lines |-> Single(ir, f, frame,
                           IF chains = {} THEN ir[i] ELSE RemainderOf(Only(chains)), i),
          length |-> IF chains = {} THEN 1 ELSE Only(chains).length]

Selected(ir, f, frame, i) == SelectedFor(ir, f, frame, i, FusedChains(ir, f, i))
===============================================================================
