-------------------------------- MODULE Algebra -------------------------------
(***************************************************************************)
(* The algebraic identities that genExpr and Pass 0c both apply, each in   *)
(* its own copy of the code, and the passes that rewrite one instruction   *)
(* at a time.  None stands for "nothing is known".                         *)
(***************************************************************************)
EXTENDS IR

Move(d, s) == Inst("ASSIGN", d, s, None)

Is(o, v) == IsImm(o) /\ o.imm = v

\* x op x for the same variable.
Zeroes == {"SUB", "MOD", "LT", "GT", "NE"}
Ones   == {"DIV", "LE", "GE", "EQ"}

\* Neutral and absorbing elements.  Whoever divides by x says that x # 0.
Neutral(op, a, b) ==
  CASE SameVariable(a, b) /\ op \in Zeroes -> Imm(0)
    [] SameVariable(a, b) /\ op \in Ones -> Imm(1)
    [] op \in {"ADD", "SUB"} /\ Is(b, 0) -> a
    [] op = "ADD" /\ Is(a, 0) /\ ~ Is(b, 0) -> b
    [] op = "MUL" /\ (Is(a, 0) \/ Is(b, 0)) -> Imm(0)
    [] op = "MUL" /\ Is(b, 1) /\ ~ Is(a, 0) -> a
    [] op = "MUL" /\ Is(a, 1) /\ ~ Is(b, 0) /\ ~ Is(b, 1) -> b
    [] op = "DIV" /\ Is(b, 1) -> a
    [] op = "DIV" /\ Is(a, 0) /\ ~ Is(b, 1) -> Imm(0)
    [] op = "MOD" /\ (Is(b, 1) \/ Is(b, -1) \/ Is(a, 0)) -> Imm(0)
    [] OTHER -> None

\* x * -1 and -1 * x become 0 - x.
Computation(op, d, a, b) ==
  CASE op = "MUL" /\ Is(b, -1) -> Inst("SUB", d, Imm(0), a)
    [] op = "MUL" /\ Is(a, -1) /\ ~ Is(b, -1) -> Inst("SUB", d, Imm(0), b)
    [] OTHER -> Inst(op, d, a, b)

-------------------------------------------------------------------------------
MapCode(ir, F(_)) == [i \in 1..Len(ir) |-> F(ir[i])]

\* Pass 0b.
Folded(inst) ==
  CASE inst.op = "NOT" /\ IsImm(inst.src1) -> Move(inst.dest, Imm(Truth(inst.src1.imm = 0)))
    [] inst.op \in BinaryOps /\ IsImm(inst.src1) /\ IsImm(inst.src2)
         /\ Computable(inst.op, inst.src2.imm) ->
         Move(inst.dest, Imm(Compute(inst.op, inst.src1.imm, inst.src2.imm)))
    [] OTHER -> inst

\* Pass 0c.
Algebraic(inst) ==
  IF inst.op \notin BinaryOps THEN inst
  ELSE LET known == Neutral(inst.op, inst.src1, inst.src2)
       IN IF IsNone(known) THEN Computation(inst.op, inst.dest, inst.src1, inst.src2)
          ELSE Move(inst.dest, known)
===============================================================================
