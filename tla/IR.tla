---------------------------------- MODULE IR ----------------------------------
(***************************************************************************)
(* The three-address code of ir.h.  A program is one flat sequence of      *)
(* instructions: GLOBAL_VAR_DECLs, and functions between FUNC_BEGIN and    *)
(* FUNC_END.                                                               *)
(*                                                                         *)
(* A name stands for a C++ string.  It is a pair <<prefix, number>>, so    *)
(* that newTemp's "t3" is <<"t", 3>>, declareVar's "x.3" is <<"x.", 3>>,   *)
(* and a global called t3 is spelled <<"t", 3>> as well.                   *)
(***************************************************************************)
EXTENDS Words, Sequences

NoName == <<"", 0>>

Operand(type, name, imm) == [type |-> type, name |-> name, imm |-> imm]
Imm(v)    == Operand("imm", NoName, v)
Local(n)  == Operand("local", n, 0)
Global(n) == Operand("global", n, 0)
Label(l)  == Operand("label", l, 0)
Func(f)   == Operand("func", f, 0)
Param(n)  == Operand("param", n, 0)
None      == Operand("none", NoName, 0)

IsImm(o)    == o.type = "imm"
IsLocal(o)  == o.type = "local"
IsGlobal(o) == o.type = "global"
IsLabel(o)  == o.type = "label"
IsFunc(o)   == o.type = "func"
IsParam(o)  == o.type = "param"
IsNone(o)   == o.type = "none"

\* The operand is the local variable of that name.
Names(o, n) == IsLocal(o) /\ o.name = n

Inst(op, dest, src1, src2) == [op |-> op, dest |-> dest, src1 |-> src1, src2 |-> src2]

BranchOps == {"BRANCH", "BEQZ", "BNEZ"}

\* isCombinableOp: the dest is computed from the sources alone.
CombinableOps == BinaryOps \union {"NOT"}

\* The dest of these is a value they read (countUses).
ReadsDest(inst) == inst.op \in {"RETURN", "PARAM"}

\* isTempName, for a name of a local variable.
TempPrefix == "t"
IsTempName(n) == n[1] = TempPrefix

\* The instruction writes the local variable (or the global) it names.
Writes(inst) == ~ ReadsDest(inst) /\ (IsLocal(inst.dest) \/ IsGlobal(inst.dest))
WritesLocal(inst) == ~ ReadsDest(inst) /\ IsLocal(inst.dest)

\* The instruction reads the local variable n.
Uses(inst, n) ==
  \/ Names(inst.src1, n)
  \/ Names(inst.src2, n)
  \/ ReadsDest(inst) /\ Names(inst.dest, n)

\* x op x, for a variable x.
SameVariable(a, b) == a.type = b.type /\ a.name = b.name /\ (IsLocal(a) \/ IsGlobal(a))

-------------------------------------------------------------------------------
\* The control flow graph that the passes build from the flat code.

\* Blocks.  A block is identified by its first instruction, its exit state
\* is kept at its last.
BlockEnders == {"BRANCH", "BEQZ", "BNEZ", "RETURN", "FUNC_END"}

Starts(ir, i) ==
  \/ i = 1
  \/ ir[i - 1].op \in BlockEnders
  \/ ir[i].op \in {"LABEL", "FUNC_BEGIN"}

Ends(ir, i) == i = Len(ir) \/ Starts(ir, i + 1)

FallsThrough(ir, i) ==
  /\ ir[i].op \notin {"BRANCH", "RETURN", "FUNC_END"}
  /\ i < Len(ir) /\ ir[i + 1].op # "FUNC_BEGIN"

JumpsTo(ir, i, j) ==
  /\ ir[i].op \in BranchOps /\ IsLabel(ir[i].dest)
  /\ ir[j].op = "LABEL" /\ ir[j].dest.name = ir[i].dest.name

Flows(ir, i, j) ==
  \/ FallsThrough(ir, i) /\ j = i + 1
  \/ JumpsTo(ir, i, j)

Preds(ir, j) == {i \in 1..Len(ir) : Ends(ir, i) /\ Flows(ir, i, j)}

\* labelReferences and labelPositions: the places that jump to the label l,
\* and where it is, a set of at most one place.
References(ir, l) == {i \in 1..Len(ir) : ir[i].op \in BranchOps /\ ir[i].dest = l}
PlaceOf(ir, l) == {i \in 1..Len(ir) : ir[i].op = "LABEL" /\ ir[i].dest = l}

\* The code without the instructions at some places.
Places(ir) == [i \in 1..Len(ir) |-> i]
Without(ir, gone) ==
  LET Stays(i) == i \notin gone
      kept == SelectSeq(Places(ir), Stays)
  IN [k \in 1..Len(kept) |-> ir[kept[k]]]

-------------------------------------------------------------------------------
\* The local variables of a program, and its functions.
LocalsOf(ir) ==
  UNION {{o.name : o \in {x \in {ir[i].dest, ir[i].src1, ir[i].src2} : IsLocal(x)}} :
           i \in 1..Len(ir)}

GlobalsOf(ir) == {ir[i].dest.name : i \in {j \in 1..Len(ir) : ir[j].op = "GLOBAL_VAR_DECL"}}

FunctionsOf(ir) == {ir[i].dest.name : i \in {j \in 1..Len(ir) : ir[j].op = "FUNC_BEGIN"}}
BeginOf(ir, f) == CHOOSE i \in 1..Len(ir) : ir[i].op = "FUNC_BEGIN" /\ ir[i].dest.name = f
EndOf(ir, f) ==
  CHOOSE j \in BeginOf(ir, f)..Len(ir) :
    /\ ir[j].op = "FUNC_END"
    /\ \A k \in BeginOf(ir, f)..(j - 1) : ir[k].op # "FUNC_END"
FunctionAt(ir, i) == CHOOSE f \in FunctionsOf(ir) : i \in BeginOf(ir, f)..EndOf(ir, f)

IsParamDecl(inst) == inst.op = "LOCAL_VAR_DECL" /\ IsParam(inst.src1)
Formals(ir, f) == SelectSeq(SubSeq(ir, BeginOf(ir, f), EndOf(ir, f)), IsParamDecl)
===============================================================================
