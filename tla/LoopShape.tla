------------------------------- MODULE LoopShape ------------------------------
(***************************************************************************)
(* What several passes ask of a loop: the inverted form that Pass 3 leaves *)
(* (BRANCH c; LABEL b; body; LABEL c; condition; BNEZ b), the value that a *)
(* variable has on entry, and the variable that counts.                    *)
(***************************************************************************)
EXTENDS Algebra, SequencesExt

\* A variable has at most one constant value: such sets stand for optionals.
MaxWord == Half - 1
MinWord == -Half

Comparisons == {"LT", "LE", "GT", "GE"}

\* The relation with its sides exchanged.
Mirrored(op) ==
  CASE op = "LT" -> "GT" [] op = "LE" -> "GE" [] op = "GT" -> "LT" [] op = "GE" -> "LE" [] OTHER -> op

\* The loop whose first jump is at i: where its condition and its back edge
\* are.  Both are looked for in what follows, not in the function alone.
InvertedLoop(ir, i) ==
  LET tests == {c \in (i + 2)..Len(ir) : ir[c].op = "LABEL" /\ ir[c].dest = ir[i].dest}
      backs == {k \in (Min(tests) + 1)..Len(ir) : ir[k].op = "BNEZ" /\ ir[k].dest = ir[i + 1].dest}
  IN IF /\ i < Len(ir) /\ ir[i].op = "BRANCH" /\ ir[i + 1].op = "LABEL"
        /\ tests # {} /\ backs # {}
     THEN {[test |-> Min(tests), back |-> Min(backs)]} ELSE {}

\* The local variables that the instructions from a to b write.
WrittenBetween(ir, a, b) == {ir[k].dest : k \in {j \in a..b : WritesLocal(ir[j])}}

\* findEntryConstant, nearbyConstant: the constant that an operand has before
\* instruction at, from its last definition in the same straight run.
RunStarters == {"LABEL", "BRANCH", "BEQZ", "BNEZ", "CALL", "FUNC_BEGIN"}

EntryConstant(ir, at, o) ==
  LET stops == {p \in 1..(at - 1) : ir[p].op \in RunStarters \/ ir[p].dest = o}
      last == ir[Max(stops)]
  IN CASE IsImm(o) -> {o.imm}
       [] IsLocal(o) /\ stops # {} /\ last.dest = o /\ last.op \in {"ASSIGN", "LOCAL_VAR_DECL"}
            /\ IsImm(last.src1) -> {last.src1.imm}
       [] OTHER -> {}

\* The condition, read as counter against bound: its second operand counts if
\* only that one is written in the loop.
Oriented(condition, written) ==
  IF condition.src1 \notin written /\ condition.src2 \in written
  THEN [rel |-> Mirrored(condition.op), counter |-> condition.src2, bound |-> condition.src1]
  ELSE [rel |-> condition.op, counter |-> condition.src1, bound |-> condition.src2]

\* A value that a branch tests is the one that the comparison just computed.
Decides(comparison, branch) ==
  IsLocal(comparison.dest) /\ IsLocal(branch.src1) /\ branch.src1 = comparison.dest

\* The local variable is read behind place at, in the text of its function.
UsedBehind(ir, at, n) ==
  \E k \in (at + 1)..Len(ir) :
    /\ Uses(ir[k], n)
    /\ \A j \in (at + 1)..k : ir[j].op \notin {"FUNC_BEGIN", "FUNC_END"}
===============================================================================
