------------------------------ MODULE Propagation -----------------------------
(***************************************************************************)
(* The rules of Pass 0: the lattice, what an instruction does to a State,  *)
(* and what it is rewritten to.  A State is a function of the names that    *)
(* occur in the code.                                                      *)
(***************************************************************************)
EXTENDS IR, FiniteSets

AllGlobals(ir) == {ir[i].dest.name : i \in {j \in 1..Len(ir) : IsGlobal(ir[j].dest)}}
Declares(inst, g) == inst.op = "GLOBAL_VAR_DECL" /\ IsGlobal(inst.dest) /\ inst.dest.name = g
ReadOnly(ir, g) ==
  /\ \E i \in 1..Len(ir) : Declares(ir[i], g)
  /\ \A i \in 1..Len(ir) : IsGlobal(ir[i].dest) /\ ir[i].dest.name = g => Declares(ir[i], g)
InitialValue(ir, g) == ir[CHOOSE i \in 1..Len(ir) : Declares(ir[i], g)].src1.imm

-------------------------------------------------------------------------------
\* The lattice.  A name that is missing from a State of the source is Bottom.
Bottom   == [kind |-> "bottom", val |-> 0]
Top      == [kind |-> "top", val |-> 0]
Const(v) == [kind |-> "const", val |-> v]
Lattice  == {Bottom, Top} \union {Const(v) : v \in Word}
IsConst(x) == x.kind = "const"

NothingKnown(names) == [n \in names |-> Bottom]

\* meetLattice over all of a set, in whatever order.
MeetAll(L) ==
  IF L \subseteq {Bottom} THEN Bottom
  ELSE IF \E x \in L : L \subseteq {Bottom, x} /\ x # Bottom
  THEN CHOOSE x \in L : L \subseteq {Bottom, x} /\ x # Bottom
  ELSE Top

\* resolveConst: what is known of an operand, Top when it is no constant.
KnownOf(s, o) ==
  IF IsImm(o) THEN Const(o.imm)
  ELSE IF IsLocal(o) /\ IsConst(s[o.name]) THEN s[o.name]
  ELSE Top

\* Mutant: a sum of constants is not wrapped to a word.
AssignedOverflowing(s, inst) ==
  LET a == KnownOf(s, inst.src1)
      b == KnownOf(s, inst.src2)
  IN CASE inst.op = "ASSIGN" -> a
       [] inst.op = "ADD" /\ IsConst(a) /\ IsConst(b) -> Const(a.val + b.val)
       [] OTHER -> Top

\* The value an instruction gives its dest.
Assigned(s, inst) ==
  LET a == KnownOf(s, inst.src1)
      b == KnownOf(s, inst.src2)
  IN CASE inst.op \in {"ASSIGN", "LOCAL_VAR_DECL", "STORE"} -> a
       [] inst.op = "GLOBAL_VAR_DECL" -> Const(inst.src1.imm)
       [] inst.op = "NOT" -> IF IsConst(a) THEN Const(Truth(a.val = 0)) ELSE Top
       [] inst.op \in BinaryOps ->
            IF IsConst(a) /\ IsConst(b) /\ Computable(inst.op, b.val)
            THEN Const(Compute(inst.op, a.val, b.val)) ELSE Top
       [] OTHER -> Top

AssigningOps ==
  CombinableOps \union
    {"ASSIGN", "LOCAL_VAR_DECL", "GLOBAL_VAR_DECL", "CALL", "LOAD", "STORE"}

Assigns(inst) ==
  /\ inst.op \in AssigningOps
  /\ ~ (inst.op = "LOCAL_VAR_DECL" /\ IsNone(inst.src1))

\* transferInst.  The State is keyed by the bare name, whether the dest is a
\* local or a global variable.
Transfer(s, inst, allGlobals) ==
  [n \in DOMAIN s |->
     IF ~ Assigns(inst) THEN s[n]
     ELSE IF inst.op \in {"CALL", "LOAD"} /\ n \in allGlobals THEN Top
     ELSE IF (IsLocal(inst.dest) \/ IsGlobal(inst.dest)) /\ n = inst.dest.name
     THEN Assigned(s, inst)
     ELSE s[n]]

-------------------------------------------------------------------------------
\* Rewriting.  The loop constants called k... stay in their registers.
NoCopies(names) == [n \in names |-> n]
StaysInRegister(n) == n[1] \in {"k", "k."}

\* resolveOperand follows at most four copies.
Original(c, n) == c[c[c[c[n]]]]

RewrittenOperand(s, c, o, ir) ==
  IF IsLocal(o) /\ IsConst(s[o.name])
  THEN IF StaysInRegister(o.name) THEN o ELSE Imm(s[o.name].val)
  ELSE IF IsLocal(o) THEN Local(Original(c, o.name))
  ELSE IF IsGlobal(o) /\ ReadOnly(ir, o.name) THEN Imm(InitialValue(ir, o.name))
  ELSE o

\* The condition of a branch is left alone.
Rewritten(s, c, inst, ir) ==
  LET New(o) == RewrittenOperand(s, c, o, ir)
      keep == inst.op \in {"BEQZ", "BNEZ"}
  IN [op   |-> inst.op,
      dest |-> IF ReadsDest(inst) THEN New(inst.dest) ELSE inst.dest,
      src1 |-> IF keep THEN inst.src1 ELSE New(inst.src1),
      src2 |-> IF keep THEN inst.src2 ELSE New(inst.src2)]

\* Mutant: a copy survives an assignment to its origin.
CopiesAfterKeepingOrigin(c, inst, allGlobals) ==
  [n \in DOMAIN c |->
     IF inst.op = "ASSIGN" /\ IsLocal(inst.dest) /\ IsLocal(inst.src1) /\ n = inst.dest.name
     THEN inst.src1.name
     ELSE IF n = inst.dest.name THEN n
     ELSE c[n]]

\* invalidateCopies, the effect of a call, and the copy an ASSIGN makes.
CopiesAfter(c, inst, allGlobals) ==
  [n \in DOMAIN c |->
     IF inst.op = "ASSIGN" /\ IsLocal(inst.dest) /\ IsLocal(inst.src1) /\ n = inst.dest.name
     THEN inst.src1.name
     ELSE IF \/ n = inst.dest.name \/ c[n] = inst.dest.name
             \/ inst.op = "CALL" /\ c[n] \in allGlobals
     THEN n
     ELSE c[n]]

-------------------------------------------------------------------------------
\* The state at the entry of the block that starts with instruction j.
EntryState(ir, out, j) ==
  LET preds == Preds(ir, j) IN [n \in DOMAIN out[j] |-> MeetAll({out[i][n] : i \in preds})]
===============================================================================
