-------------------------- MODULE PropagationTheorems -------------------------
(***************************************************************************)
(* Pass 0 keeps what every instruction reads, for every program: proofs    *)
(* about ConstantPropagation.  The argument is in the invariant Inductive. *)
(* While the sweeps go on, the States before the instructions follow from  *)
(* each other (Follows), and as long as a sweep has changed nothing the    *)
(* entries of its blocks are the meets of final exits (Joined); so when    *)
(* the sweeps stop the States are a fixpoint.  The rewriting then follows  *)
(* the same path a second time over rewritten instructions (Rewrote).      *)
(* Along a run, the State at the current instruction is true of the locals *)
(* and so are the copies; therefore an operand is replaced by its value.   *)
(***************************************************************************)
EXTENDS ConstantPropagation, SequenceTheorems, TLAPS

\* The lattice of Pass 0 (Lattice) has the two ends and one constant per
\* word, and no other value.
LEMMA LatticeOf ==
  /\ Bottom \in Lattice /\ Top \in Lattice
  /\ \A v \in Word : Const(v) \in Lattice
  /\ \A x \in Lattice : x.kind \in {"bottom", "top", "const"}
  /\ \A x \in Lattice : IsConst(x) => x.val \in Word /\ x = Const(x.val)
<1>1. Bottom \in Lattice /\ Top \in Lattice /\ \A v \in Word : Const(v) \in Lattice
  BY DEF Lattice
<1>2. ASSUME NEW x \in Lattice
      PROVE  /\ x.kind \in {"bottom", "top", "const"}
             /\ IsConst(x) => x.val \in Word /\ x = Const(x.val)
  <2>1. CASE x \in {Bottom, Top}
    BY <2>1 DEF Bottom, Top, IsConst
  <2>2. CASE x \notin {Bottom, Top}
    <3>1. PICK v \in Word : x = Const(v)
      BY <2>2 DEF Lattice
    <3>2. x.kind = "const" /\ x.val = v
      BY <3>1 DEF Const
    <3>. QED BY <3>1, <3>2 DEF IsConst
  <2>. QED BY <2>1, <2>2
<1>. QED BY <1>1, <1>2

\* What a State says of an operand (resolveConst) is in the lattice.
LEMMA KnownOfLattice ==
  ASSUME NEW s \in States, NEW o \in Operands
  PROVE  KnownOf(s, o) \in Lattice
BY LatticeOf DEF KnownOf, States, Operands

\* What an instruction assigns under a State (transferInst) is in the lattice.
LEMMA AssignedLattice ==
  ASSUME NEW s \in States, NEW inst \in Instructions
  PROVE  Assigned(s, inst) \in Lattice
<1> DEFINE a == KnownOf(s, inst.src1)
           b == KnownOf(s, inst.src2)
<1>1. a \in Lattice /\ b \in Lattice /\ inst.src1.imm \in Word
  BY KnownOfLattice DEF Instructions, Operands
<1>2. IsConst(a) => Truth(a.val = 0) \in Word
  BY TruthsAreWords DEF Truth, Word
<1>3. IsConst(a) /\ IsConst(b) /\ Computable(inst.op, b.val)
        => Compute(inst.op, a.val, b.val) \in Word
  BY <1>1, LatticeOf, ComputeIsWord
<1>. QED BY <1>1, <1>2, <1>3, LatticeOf DEF Assigned

\* The State behind an instruction is a State.
LEMMA TransferTyped ==
  ASSUME NEW s \in States, NEW inst \in Instructions, NEW G
  PROVE  Transfer(s, inst, G) \in States
BY AssignedLattice, LatticeOf DEF Transfer, States

\* The meet of values of the lattice is in the lattice.
LEMMA MeetAllLattice ==
  ASSUME NEW L \in SUBSET Lattice
  PROVE  MeetAll(L) \in Lattice
BY LatticeOf DEF MeetAll

\* The State at the entry of a block, met from its predecessors, is a State.
LEMMA EntryTyped ==
  ASSUME NEW ir, NEW o \in [1..Len(ir) -> States], NEW j \in 1..Len(ir)
  PROVE  EntryState(ir, o, j) \in States
<1> DEFINE preds == Preds(ir, j)
<1>1. preds \subseteq 1..Len(ir)
  BY DEF Preds
<1>2. \A n \in Name : {o[i][n] : i \in preds} \in SUBSET Lattice
  BY <1>1 DEF States
<1>3. DOMAIN o[j] = Name
  BY DEF States
<1>. QED BY <1>2, <1>3, MeetAllLattice DEF EntryState, States

\* The code given to the pass is a sequence of well-formed instructions, and
\* the globals it declares are names.
LEMMA CodeTyped ==
  ASSUME code \in Programs
  PROVE  /\ code \in Seq(Instructions) /\ Len(code) \in Nat
         /\ \A i \in Positions : code[i] \in Instructions
         /\ \A i \in Positions : OperandsOf(code[i]) \subseteq Operands
         /\ AllGlobals(code) \subseteq Name
<1>1. code \in Seq(Instructions) /\ Len(code) \in Nat
  BY ProgramsAreCode
<1>2. \A i \in Positions : code[i] \in Instructions
  BY <1>1 DEF Positions
<1>3. \A i \in Positions : OperandsOf(code[i]) \subseteq Operands
  BY <1>2 DEF Instructions, OperandsOf
<1>4. AllGlobals(code) \subseteq Name
  BY <1>2 DEF AllGlobals, Positions, Instructions, Operands
<1>. QED BY <1>1, <1>2, <1>3, <1>4

\* The initial value of a read-only global (readOnlyGlobals) is a word.
LEMMA InitialValueIsWord ==
  ASSUME code \in Programs, NEW g, ReadOnly(code, g)
  PROVE  InitialValue(code, g) \in Word
<1>1. PICK i \in Positions : i = CHOOSE k \in 1..Len(code) : Declares(code[k], g)
  BY DEF ReadOnly, Positions
<1>2. code[i].src1.imm \in Word
  BY CodeTyped DEF Instructions, Operands
<1>. QED BY <1>1, <1>2 DEF InitialValue

\* An operand, and an instruction, are rewritten to well-formed ones.
LEMMA RewrittenTyped ==
  ASSUME code \in Programs, NEW s \in States, NEW c \in [Name -> Name]
  PROVE  /\ \A o \in Operands : RewrittenOperand(s, c, o, code) \in Operands
         /\ \A inst \in Instructions : Rewritten(s, c, inst, code) \in Instructions
<1>1. ASSUME NEW o \in Operands PROVE RewrittenOperand(s, c, o, code) \in Operands
  <2>1. \A v \in Word : Imm(v) \in Operands
    BY HasNoName DEF Imm, Operand, Operands, OperandTypes
  <2>2. \A n \in Name : Local(n) \in Operands
    BY TruthsAreWords DEF Local, Operand, Operands, OperandTypes, Word
  <2>3. o.name \in Name /\ Original(c, o.name) \in Name
    BY DEF Operands, Original
  <2>4. s[o.name] \in Lattice
    BY <2>3 DEF States
  <2>. QED BY <2>1, <2>2, <2>3, <2>4, LatticeOf, InitialValueIsWord DEF RewrittenOperand
<1>. QED BY <1>1 DEF Rewritten, Instructions

\* The map of copies behind an instruction maps names to names.
LEMMA CopiesTyped ==
  ASSUME NEW c \in [Name -> Name], NEW inst \in Instructions, NEW G
  PROVE  CopiesAfter(c, inst, G) \in [Name -> Name]
BY DEF CopiesAfter, Instructions, Operands

\* An operand of the code has a word as its value, or none.
LEMMA ValueTyped ==
  ASSUME code \in Programs, TypeOK, NEW i \in Positions, NEW o \in OperandsOf(code[i])
  PROVE  Value(o) \in Word \union {Undefined}
<1>1. o \in Operands /\ (IsGlobal(o) => o.name \in AllGlobals(code))
  BY CodeTyped, ProgramsAreCode DEF GlobalsDeclared, Positions
<1>. QED BY <1>1 DEF Value, TypeOK, Operands

\* What an instruction of the code computes is a word, or no value.
LEMMA ResultsTyped ==
  ASSUME code \in Programs, TypeOK, NEW i \in Positions,
         IsLocal(code[i].dest) \/ IsGlobal(code[i].dest),
         code[i].op \in {"DIV", "MOD"} => Value(code[i].src2) # 0,
         NEW v \in Results(code[i])
  PROVE  v \in Word \union {Undefined}
<1> DEFINE a == Value(code[i].src1)
           b == Value(code[i].src2)
<1>1. a \in Word \union {Undefined} /\ b \in Word \union {Undefined}
  BY ValueTyped DEF OperandsOf
<1>2. code[i].dest.name \in Name
  BY CodeTyped DEF Instructions, Operands
<1>3. locals[code[i].dest.name] \in Word \union {Undefined}
  BY <1>2 DEF TypeOK
<1>4. Truth(a = 0) \in Word
  BY TruthsAreWords DEF Truth, Word
<1>5. a # Undefined /\ b # Undefined => Compute(code[i].op, a, b) \in Word
  BY <1>1, ComputeIsWord DEF Computable
<1>. QED BY <1>1, <1>3, <1>4, <1>5 DEF Results

TypeInv == code \in Programs /\ TypeOK
RunsInside == phase = "run" => pos \in Positions

\* The pass starts well-typed.
LEMMA TypeInit ==
  Init => TypeInv
<1> SUFFICES ASSUME Init PROVE TypeInv
  OBVIOUS
<1>1. code \in Programs /\ code \in Seq(Instructions) /\ Len(code) \in Nat
  BY ProgramsAreCode DEF Init
<1>2. NothingKnown(Name) \in States /\ NoCopies(Name) \in [Name -> Name]
  BY LatticeOf DEF NothingKnown, NoCopies, States
<1>3. before \in [Positions -> States] /\ out \in [Positions -> States]
  BY <1>2 DEF Init, Positions
<1>4. known \in [Positions -> [state : States, copies : [Name -> Name]]]
  BY <1>2 DEF Init, Positions
<1>5. rewritten \in Seq(Instructions)
  BY DEF Init
<1>6. locals \in [Name -> Word \union {Undefined}]
  BY DEF Init
<1>7. globals \in [AllGlobals(code) -> Word \union {Undefined}]
  BY DEF Init
<1>8. /\ phase = "sweep" /\ pos = 1
      /\ state \in States /\ converged = TRUE /\ copies \in [Name -> Name]
  BY <1>2 DEF Init
<1>. QED BY <1>1, <1>3, <1>4, <1>5, <1>6, <1>7, <1>8 DEF TypeInv, TypeOK

\* An instruction swept keeps the types: State, in[k] and out[k].
LEMMA TypeSweep ==
  ASSUME TypeInv, Sweep
  PROVE  TypeInv'
<1> DEFINE entry == IF Starts(code, pos) THEN EntryState(code, out, pos) ELSE state
           exit  == Transfer(entry, code[pos], AllGlobals(code))
<1>1. pos \in Positions /\ code[pos] \in Instructions
  BY CodeTyped DEF Sweep, TypeInv, TypeOK, Positions
<1>2. entry \in States
  BY <1>1, EntryTyped DEF TypeInv, TypeOK, Positions
<1>3. exit \in States
  BY <1>1, <1>2, TransferTyped
<1>4. /\ state' = exit
      /\ before' = [before EXCEPT ![pos] = entry]
      /\ out' \in {out, [out EXCEPT ![pos] = exit]}
      /\ converged' \in BOOLEAN
      /\ pos' = pos + 1
      /\ UNCHANGED <<code, phase, copies, known, rewritten, locals, globals>>
  BY DEF Sweep
<1>5. before' \in [Positions -> States] /\ out' \in [Positions -> States]
  BY <1>1, <1>2, <1>3, <1>4 DEF TypeInv, TypeOK
<1>6. pos' \in 1..(Len(code) + 1)
  BY <1>1, <1>4, CodeTyped DEF Positions, TypeInv
<1>. HIDE DEF entry, exit
<1>. QED BY <1>3, <1>4, <1>5, <1>6 DEF TypeInv, TypeOK, Positions

\* An instruction rewritten keeps the types.
LEMMA TypeRewrite ==
  ASSUME TypeInv, Rewrite
  PROVE  TypeInv'
<1> DEFINE s == IF Starts(code, pos) THEN before[pos] ELSE state
           c == IF Starts(code, pos) THEN NoCopies(Name) ELSE copies
           new == Rewritten(s, c, code[pos], code)
<1>1. pos \in Positions /\ code[pos] \in Instructions /\ Len(code) \in Nat
  BY CodeTyped DEF Rewrite, TypeInv, TypeOK, Positions
<1>2. s \in States /\ c \in [Name -> Name]
  BY <1>1 DEF TypeInv, TypeOK, NoCopies
<1>3. new \in Instructions
  <2>. HIDE DEF s, c
  <2>. QED BY <1>1, <1>2, RewrittenTyped DEF TypeInv
<1>4. /\ rewritten' = Append(rewritten, new)
      /\ known' = [known EXCEPT ![pos] = [state |-> s, copies |-> c]]
      /\ state' = Transfer(s, new, AllGlobals(code))
      /\ copies' = CopiesAfter(c, new, AllGlobals(code))
      /\ pos' = pos + 1
      /\ UNCHANGED <<code, phase, before, out, converged, locals, globals>>
  BY DEF Rewrite
<1>. HIDE DEF s, c, new
<1>5. state' \in States /\ copies' \in [Name -> Name]
  BY <1>2, <1>3, <1>4, TransferTyped, CopiesTyped
<1>6. known' \in [Positions -> [state : States, copies : [Name -> Name]]]
  BY <1>1, <1>2, <1>4 DEF TypeInv, TypeOK
<1>7. rewritten' \in Seq(Instructions)
  BY <1>3, <1>4 DEF TypeInv, TypeOK
<1>8. pos' \in 1..(Len(code) + 1)
  BY <1>1, <1>4 DEF Positions
<1>. QED BY <1>4, <1>5, <1>6, <1>7, <1>8 DEF TypeInv, TypeOK, Positions

\* Code that falls through ends in an instruction of the code.
LEMMA FallsInside ==
  ASSUME code \in Programs, NEW i \in Positions, FallsThrough(code, i)
  PROVE  i + 1 \in Positions
BY CodeTyped DEF FallsThrough, Positions

\* An assignment run keeps the types: its result is a word or no value, its
\* destination a declared name.
LEMMA TypeRunAssignment ==
  ASSUME TypeInv, RunsInside, RunAssignment
  PROVE  TypeInv'
<1>1. pos \in Positions /\ pos' = pos + 1 /\ pos' \in Positions
  BY FallsInside DEF RunAssignment, Running, TypeInv, RunsInside
<1>2. PICK v \in Results(code[pos]) :
        \/ /\ IsLocal(code[pos].dest)
           /\ locals' = [locals EXCEPT ![code[pos].dest.name] = v]
           /\ UNCHANGED globals
        \/ /\ IsGlobal(code[pos].dest)
           /\ globals' = [globals EXCEPT ![code[pos].dest.name] = v]
           /\ UNCHANGED locals
  BY DEF RunAssignment
<1>3. v \in Word \union {Undefined}
  BY <1>1, <1>2, ResultsTyped DEF RunAssignment, TypeInv
<1>4. locals' \in [Name -> Word \union {Undefined}]
  BY <1>2, <1>3 DEF TypeInv, TypeOK
<1>5. globals' \in [AllGlobals(code) -> Word \union {Undefined}]
  BY <1>2, <1>3 DEF TypeInv, TypeOK
<1>6. UNCHANGED <<code, phase, state, before, out, converged, copies, known, rewritten>>
  BY DEF RunAssignment
<1>7. pos' \in 1..(Len(code) + 1)
  BY <1>1, CodeTyped DEF Positions, TypeInv
<1>. QED BY <1>4, <1>5, <1>6, <1>7 DEF TypeInv, TypeOK, Positions

\* A call run keeps the types.
LEMMA TypeRunCall ==
  ASSUME TypeInv, RunsInside, RunCall
  PROVE  TypeInv'
<1>1. pos \in Positions /\ pos' = pos + 1 /\ pos' \in Positions
  BY FallsInside DEF RunCall, Running, TypeInv, RunsInside
<1>2. locals' \in [Name -> Word \union {Undefined}]
  BY DEF RunCall, TypeInv, TypeOK
<1>3. globals' \in [AllGlobals(code) -> Word \union {Undefined}]
  BY DEF RunCall, AnyGlobals
<1>4. UNCHANGED <<code, phase, state, before, out, converged, copies, known, rewritten>>
  BY DEF RunCall
<1>5. pos' \in 1..(Len(code) + 1)
  BY <1>1, CodeTyped DEF Positions, TypeInv
<1>. QED BY <1>2, <1>3, <1>4, <1>5 DEF TypeInv, TypeOK, Positions

\* Every step keeps the types, and the running function inside the code.
LEMMA TypeStep ==
  ASSUME TypeInv, RunsInside, [Next]_vars
  PROVE  TypeInv' /\ RunsInside'
<1> USE DEF TypeInv, RunsInside
<1>0. Len(code) \in Nat
  BY CodeTyped
<1>1. CASE Sweep
  BY <1>1, TypeSweep DEF Sweep
<1>2. CASE SweepAgain
  <2>1. converged' \in BOOLEAN
    BY <1>2 DEF SweepAgain
  <2>. QED BY <1>0, <1>2, <2>1 DEF SweepAgain, TypeOK, Positions
<1>3. CASE StopSweeping
  BY <1>0, <1>3 DEF StopSweeping, TypeOK, Positions
<1>4. CASE Rewrite
  BY <1>4, TypeRewrite DEF Rewrite
<1>5. CASE Call
  <2>1. globals' \in [AllGlobals(code) -> Word \union {Undefined}]
    BY <1>5 DEF Call, AnyGlobals
  <2>. QED BY <1>0, <1>5, <2>1 DEF Call, TypeOK, Positions
<1>6. CASE RunAssignment
  <2>1. pos' \in Positions /\ UNCHANGED code
    BY <1>0, <1>6, FallsInside DEF RunAssignment, Running
  <2>. QED BY <1>6, <2>1, TypeRunAssignment DEF Positions
<1>7. CASE RunCall
  <2>1. pos' \in Positions /\ UNCHANGED code
    BY <1>0, <1>7, FallsInside DEF RunCall, Running
  <2>. QED BY <1>7, <2>1, TypeRunCall DEF Positions
<1>8. CASE RunJump
  <2>1. pos' \in Positions
    BY <1>8 DEF RunJump, Positions
  <2>. QED BY <1>0, <1>8, <2>1 DEF RunJump, TypeOK, Positions
<1>9. CASE RunOther
  <2>1. pos' \in Positions
    BY <1>0, <1>9, FallsInside DEF RunOther, Running
  <2>. QED BY <1>0, <1>9, <2>1 DEF RunOther, TypeOK, Positions
<1>10. CASE UNCHANGED vars
  BY <1>0, <1>10 DEF vars, passVars, TypeOK, Positions
<1>. QED BY <1>1, <1>2, <1>3, <1>4, <1>5, <1>6, <1>7, <1>8, <1>9, <1>10 DEF Next, Pass

\* Pass 0 keeps its tables typed on every program: States map names to the
\* lattice, copies map names to names, and what it emits is well-formed IR.
THEOREM TypeCorrect ==
  Spec => []TypeOK
<1>1. Init => TypeInv /\ RunsInside
  BY TypeInit DEF Init, RunsInside
<1>2. TypeInv /\ RunsInside /\ [Next]_vars => TypeInv' /\ RunsInside'
  BY TypeStep
<1>3. TypeInv => TypeOK
  BY DEF TypeInv
<1>. QED BY <1>1, <1>2, <1>3, PTL DEF Spec

-------------------------------------------------------------------------------
\* What a State and a map of copies say about the values of the locals.
Holds(l, v) ==
  /\ l.kind = "bottom" => v = Undefined
  /\ l.kind = "const" => v \in {l.val, Undefined}

LocalNames == Name \ AllGlobals(code)

Sound(s, env) == \A n \in LocalNames : Holds(s[n], env[n])

CopiesTrue(c, env) ==
  \A n \in LocalNames : c[n] \in LocalNames /\ (env[n] # Undefined => env[c[n]] = env[n])

GlobalsKept ==
  \A g \in AllGlobals(code) : ReadOnly(code, g) => globals[g] = InitialValue(code, g)

\* What the sweeps have reached: up to instruction k the States before the
\* instructions follow from each other, and from those at the ends of blocks.
Follows(k) ==
  \A i \in 1..k :
    /\ ~ Starts(code, i) => before[i] = Transfer(before[i - 1], code[i - 1], AllGlobals(code))
    /\ Ends(code, i) => out[i] = Transfer(before[i], code[i], AllGlobals(code))
Joined(k) == \A i \in 1..k : Starts(code, i) => before[i] = EntryState(code, out, i)

\* What the rewriting has left.
Rewrote(k) ==
  \A i \in 1..k :
    /\ rewritten[i] = Rewritten(known[i].state, known[i].copies, code[i], code)
    /\ Starts(code, i) =>
         known[i].state = before[i] /\ known[i].copies = NoCopies(Name)
    /\ ~ Starts(code, i) =>
         /\ known[i].state = Transfer(known[i - 1].state, rewritten[i - 1], AllGlobals(code))
         /\ known[i].copies = CopiesAfter(known[i - 1].copies, rewritten[i - 1], AllGlobals(code))

SweepInv ==
  phase = "sweep" =>
    /\ Follows(pos - 1)
    /\ converged => Joined(pos - 1)
    /\ pos > 1 => state = Transfer(before[pos - 1], code[pos - 1], AllGlobals(code))
    /\ Len(rewritten) = 0

FixpointInv == phase # "sweep" => Follows(Len(code)) /\ Joined(Len(code))

RewriteInv ==
  phase = "rewrite" =>
    /\ Len(rewritten) = pos - 1
    /\ Rewrote(pos - 1)
    /\ pos > 1 =>
         /\ state = Transfer(known[pos - 1].state, rewritten[pos - 1], AllGlobals(code))
         /\ copies = CopiesAfter(known[pos - 1].copies, rewritten[pos - 1], AllGlobals(code))

IdleInv == phase # "run" => locals = [n \in Name |-> Undefined]

RunInv ==
  phase = "run" =>
    /\ pos \in Positions
    /\ Rewrote(Len(code))
    /\ Sound(before[pos], locals)
    /\ Sound(known[pos].state, locals)
    /\ CopiesTrue(known[pos].copies, locals)
    /\ GlobalsKept

-------------------------------------------------------------------------------
\* What holds of a value holds of it after a meet with other values: the join
\* of two predecessors forgets and never invents a constant.
LEMMA MeetSound ==
  ASSUME NEW L \in SUBSET Lattice, NEW x \in L, NEW v, Holds(x, v)
  PROVE  Holds(MeetAll(L), v)
<1>1. CASE L \subseteq {Bottom}
  BY <1>1 DEF MeetAll
<1>2. CASE ~ (L \subseteq {Bottom}) /\ \E y \in L : L \subseteq {Bottom, y} /\ y # Bottom
  <2>1. PICK y \in L : L \subseteq {Bottom, y} /\ y = MeetAll(L) /\ y # Bottom
    BY <1>2 DEF MeetAll
  <2>2. CASE x = y
    BY <2>1, <2>2
  <2>3. CASE x = Bottom
    <3>1. v = Undefined
      BY <2>3 DEF Holds, Bottom
    <3>2. y.kind = "bottom" => y = Bottom
      BY <2>1 DEF Lattice, Top, Const
    <3>. QED BY <2>1, <3>1 DEF Holds
  <2>. QED BY <2>1, <2>2, <2>3
<1>3. CASE ~ (L \subseteq {Bottom}) /\ ~ (\E y \in L : L \subseteq {Bottom, y} /\ y # Bottom)
  BY <1>3 DEF MeetAll, Holds, Top
<1>. QED BY <1>1, <1>2, <1>3

\* If a block's exit State is true of the locals, so is the entry State of the
\* block that control reaches from there.
LEMMA EntrySound ==
  ASSUME code \in Programs, NEW o \in [Positions -> States],
         NEW i \in Positions, NEW j \in Positions,
         Ends(code, i), Flows(code, i, j), NEW env, Sound(o[i], env)
  PROVE  Sound(EntryState(code, o, j), env)
<1> DEFINE preds == Preds(code, j)
<1>1. i \in preds /\ preds \subseteq Positions
  BY DEF Preds, Positions
<1>2. ASSUME NEW n \in LocalNames PROVE Holds(EntryState(code, o, j)[n], env[n])
  <2>1. n \in Name /\ Holds(o[i][n], env[n])
    BY DEF Sound, LocalNames
  <2> DEFINE L == {o[k][n] : k \in preds}
  <2>2. L \in SUBSET Lattice /\ o[i][n] \in L
    BY <1>1, <2>1 DEF States
  <2>3. EntryState(code, o, j)[n] = MeetAll(L)
    BY <2>1 DEF EntryState, States
  <2>. HIDE DEF L
  <2>. QED BY <2>1, <2>2, <2>3, MeetSound
<1>. QED BY <1>2 DEF Sound

\* A constant operand, or one the State knows, has that value.
LEMMA KnownSound ==
  ASSUME NEW s \in States, NEW o \in Operands, IsLocal(o) => o.name \in LocalNames, Sound(s, locals)
  PROVE  Holds(KnownOf(s, o), Value(o))
<1>1. CASE IsImm(o)
  BY <1>1 DEF KnownOf, Value, Holds, Const
<1>2. CASE IsLocal(o) /\ IsConst(s[o.name])
  BY <1>2 DEF KnownOf, Value, Sound, IsLocal, IsImm
<1>3. CASE ~ IsImm(o) /\ ~ (IsLocal(o) /\ IsConst(s[o.name]))
  BY <1>3 DEF KnownOf, Holds, Top
<1>. QED BY <1>1, <1>2, <1>3

\* The origin of a copy (copyMap) is a local with the copy's value.
LEMMA OriginalTrue ==
  ASSUME code \in Programs, NEW c \in [Name -> Name], CopiesTrue(c, locals), NEW n \in LocalNames
  PROVE  /\ Original(c, n) \in LocalNames
         /\ locals[n] # Undefined => locals[Original(c, n)] = locals[n]
BY DEF CopiesTrue, Original

\* What an operand is rewritten to - the constant known of it, the origin of
\* the copy, the initial value of a read-only global, or itself - has the
\* operand's value, if it has one.
LEMMA OperandKept ==
  ASSUME code \in Programs, NEW s \in States, NEW c \in [Name -> Name],
         Sound(s, locals), CopiesTrue(c, locals), GlobalsKept,
         NEW o \in Operands, IsLocal(o) => o.name \in LocalNames,
         IsGlobal(o) => o.name \in AllGlobals(code)
  PROVE  LET new == RewrittenOperand(s, c, o, code) IN
         /\ SameValue(o, new)
         /\ IsLocal(new) => new.name \in LocalNames
         /\ IsParam(new) <=> IsParam(o)
         /\ IsNone(new) <=> IsNone(o)
<1> DEFINE new == RewrittenOperand(s, c, o, code)
<1> USE DEF IsImm, IsLocal, IsGlobal, IsParam, IsNone, Operand
<1>1. CASE IsLocal(o) /\ IsConst(s[o.name]) /\ ~ StaysInRegister(o.name)
  <2>1. new = Imm(s[o.name].val)
    BY <1>1 DEF RewrittenOperand
  <2>2. Value(o) = locals[o.name] /\ Value(new) = s[o.name].val
    BY <1>1, <2>1 DEF Value, Imm
  <2>3. Holds(s[o.name], locals[o.name])
    BY <1>1 DEF Sound
  <2>. QED BY <1>1, <2>1, <2>2, <2>3 DEF SameValue, Holds, IsConst, Imm
<1>2. CASE IsLocal(o) /\ IsConst(s[o.name]) /\ StaysInRegister(o.name)
  BY <1>2 DEF RewrittenOperand, SameValue
<1>3. CASE IsLocal(o) /\ ~ IsConst(s[o.name])
  <2>1. new = Local(Original(c, o.name))
    BY <1>3 DEF RewrittenOperand
  <2>2. Value(o) = locals[o.name] /\ Value(new) = locals[Original(c, o.name)]
    BY <1>3, <2>1 DEF Value, Local
  <2>. QED BY <1>3, <2>1, <2>2, OriginalTrue DEF SameValue, Local
<1>4. CASE IsGlobal(o) /\ ReadOnly(code, o.name)
  <2>1. new = Imm(InitialValue(code, o.name))
    BY <1>4 DEF RewrittenOperand
  <2>2. Value(o) = globals[o.name] /\ Value(new) = InitialValue(code, o.name)
    BY <1>4, <2>1 DEF Value, Imm
  <2>. QED BY <1>4, <2>1, <2>2 DEF SameValue, GlobalsKept, Imm
<1>5. CASE ~ IsLocal(o) /\ ~ (IsGlobal(o) /\ ReadOnly(code, o.name))
  BY <1>5 DEF RewrittenOperand, SameValue
<1>. QED BY <1>1, <1>2, <1>3, <1>4, <1>5

\* inst stands for the original: the same operation, on operands that have
\* the same values.
StandsFor(inst, orig) ==
  /\ inst \in Instructions
  /\ inst.op = orig.op
  /\ ReadsDest(orig) \/ inst.dest = orig.dest
  /\ SameValue(orig.src1, inst.src1) /\ SameValue(orig.src2, inst.src2)
  /\ IsLocal(inst.src1) => inst.src1.name \in LocalNames
  /\ IsLocal(inst.src2) => inst.src2.name \in LocalNames
  /\ IsParam(inst.src1) <=> IsParam(orig.src1)
  /\ IsNone(inst.src1) <=> IsNone(orig.src1)

\* An operand of the code is a local that no global is spelled like, a declared
\* global, or neither.
LEMMA OperandFacts ==
  ASSUME code \in Programs, SpeltApart(code), NEW i \in Positions, NEW o \in OperandsOf(code[i])
  PROVE  /\ o \in Operands
         /\ IsLocal(o) => o.name \in LocalNames
         /\ IsGlobal(o) => o.name \in AllGlobals(code)
<1>1. o \in Operands /\ o.name \in Name
  BY CodeTyped DEF Operands
<1>. QED BY <1>1, ProgramsAreCode DEF SpeltApart, GlobalsDeclared, LocalNames, Positions

\* An instruction of the code stands for itself.
LEMMA StandsForItself ==
  ASSUME code \in Programs, SpeltApart(code), NEW i \in Positions
  PROVE  StandsFor(code[i], code[i])
BY CodeTyped, OperandFacts DEF StandsFor, SameValue, OperandsOf

\* An instruction rewritten under a State and copies that are true of the locals
\* stands for the original.
LEMMA RewrittenStandsFor ==
  ASSUME code \in Programs, SpeltApart(code), NEW i \in Positions,
         NEW s \in States, NEW c \in [Name -> Name],
         Sound(s, locals), CopiesTrue(c, locals), GlobalsKept
  PROVE  LET new == Rewritten(s, c, code[i], code) IN
         /\ StandsFor(new, code[i])
         /\ ReadsDest(code[i]) => SameValue(code[i].dest, new.dest)
         /\ ~ ReadsDest(code[i]) => new.dest = code[i].dest
<1> DEFINE new == Rewritten(s, c, code[i], code)
<1>1. code[i] \in Instructions /\ new \in Instructions
  BY CodeTyped, RewrittenTyped
<1>2. /\ new.op = code[i].op
      /\ new.dest = IF ReadsDest(code[i]) THEN RewrittenOperand(s, c, code[i].dest, code)
                    ELSE code[i].dest
      /\ new.src1 \in {code[i].src1, RewrittenOperand(s, c, code[i].src1, code)}
      /\ new.src2 \in {code[i].src2, RewrittenOperand(s, c, code[i].src2, code)}
  BY DEF Rewritten
<1>3. ASSUME NEW o \in OperandsOf(code[i]), NEW p \in {o, RewrittenOperand(s, c, o, code)}
      PROVE  /\ SameValue(o, p)
             /\ IsLocal(p) => p.name \in LocalNames
             /\ IsParam(p) <=> IsParam(o)
             /\ IsNone(p) <=> IsNone(o)
  <2>1. CASE p = o
    BY <2>1, OperandFacts DEF SameValue
  <2>2. CASE p = RewrittenOperand(s, c, o, code)
    BY <2>2, OperandFacts, OperandKept
  <2>. QED BY <2>1, <2>2
<1>4. {code[i].dest, code[i].src1, code[i].src2} \subseteq OperandsOf(code[i])
  BY DEF OperandsOf
<1>. HIDE DEF new
<1>5. StandsFor(new, code[i])
  BY <1>1, <1>2, <1>3, <1>4 DEF StandsFor
<1>6. ReadsDest(code[i]) => SameValue(code[i].dest, new.dest)
  BY <1>2, <1>3, <1>4
<1>. QED BY <1>2, <1>5, <1>6 DEF new

\* What the transfer function computes of the result of an instruction is true
\* of every result the instruction can have: foldConst agrees with the run.
LEMMA AssignedSound ==
  ASSUME code \in Programs, SpeltApart(code), NEW i \in Positions,
         NEW s \in States, Sound(s, locals),
         NEW inst, StandsFor(inst, code[i]), Assigns(inst),
         code[i].op \in CombinableOps \union {"ASSIGN", "LOCAL_VAR_DECL"},
         NEW v \in Results(code[i])
  PROVE  Holds(Assigned(s, inst), v)
<1> DEFINE ka == KnownOf(s, inst.src1)
           kb == KnownOf(s, inst.src2)
           a == Value(code[i].src1)
           b == Value(code[i].src2)
<1>1. inst.src1 \in Operands /\ inst.src2 \in Operands /\ inst.op = code[i].op
  BY DEF StandsFor, Instructions
<1>2. ka \in Lattice /\ kb \in Lattice /\ ka.kind # "bottom" /\ kb.kind # "bottom"
  <2>1. \A o \in Operands : KnownOf(s, o).kind # "bottom"
    BY DEF KnownOf, IsConst, Const, Top
  <2>. QED BY <1>1, <2>1, KnownOfLattice
<1>3. Holds(ka, Value(inst.src1)) /\ Holds(kb, Value(inst.src2))
  BY <1>1, KnownSound DEF StandsFor
<1>4. Holds(ka, a) /\ Holds(kb, b)
  BY <1>2, <1>3 DEF Holds, StandsFor, SameValue
<1>5. /\ IsConst(ka) => a \in {ka.val, Undefined}
      /\ IsConst(kb) => b \in {kb.val, Undefined}
  BY <1>4 DEF Holds, IsConst
<1>6. ASSUME NEW w, NEW u \in {w, Undefined} PROVE Holds(Const(w), u) /\ Holds(Top, u)
  BY DEF Holds, Const, Top
<1>7. CASE inst.op = "ASSIGN"
  <2>1. Results(code[i]) = {a} /\ Assigned(s, inst) = ka
    BY <1>1, <1>7 DEF Results, Assigned, BinaryOps, ArithmeticOps, RelationOps
  <2>. QED BY <1>4, <2>1
<1>8. CASE inst.op = "LOCAL_VAR_DECL"
  <2>1. ~ IsNone(inst.src1) /\ ~ IsNone(code[i].src1)
    BY <1>8 DEF Assigns, StandsFor
  <2>2. CASE IsParam(inst.src1)
    <3>1. ka = Top
      BY <2>2 DEF KnownOf, IsParam, IsImm, IsLocal
    <3>2. Assigned(s, inst) = Top
      BY <1>8, <3>1 DEF Assigned, BinaryOps, ArithmeticOps, RelationOps
    <3>. QED BY <3>2 DEF Holds, Top
  <2>3. CASE ~ IsParam(inst.src1)
    <3>1. ~ IsParam(code[i].src1)
      BY <2>3 DEF StandsFor
    <3>2. Results(code[i]) = {a} /\ Assigned(s, inst) = ka
      BY <1>1, <1>8, <2>1, <3>1 DEF Results, Assigned, BinaryOps, ArithmeticOps, RelationOps
    <3>. QED BY <1>4, <3>2
  <2>. QED BY <2>2, <2>3
<1>9. CASE inst.op = "NOT"
  <2>1. v = IF a = Undefined THEN Undefined ELSE Truth(a = 0)
    BY <1>1, <1>9 DEF Results, BinaryOps, ArithmeticOps, RelationOps
  <2>2. Assigned(s, inst) = IF IsConst(ka) THEN Const(Truth(ka.val = 0)) ELSE Top
    BY <1>9 DEF Assigned, BinaryOps, ArithmeticOps, RelationOps
  <2>3. IsConst(ka) => v \in {Truth(ka.val = 0), Undefined}
    BY <1>5, <2>1
  <2>. QED BY <1>6, <2>2, <2>3
<1>10. CASE inst.op \in BinaryOps
  <2>1. v = IF a = Undefined \/ b = Undefined THEN Undefined ELSE Compute(inst.op, a, b)
    BY <1>1, <1>10 DEF Results, BinaryOps, ArithmeticOps, RelationOps
  <2>2. Assigned(s, inst) = IF IsConst(ka) /\ IsConst(kb) /\ Computable(inst.op, kb.val)
                            THEN Const(Compute(inst.op, ka.val, kb.val)) ELSE Top
    BY <1>10 DEF Assigned, BinaryOps, ArithmeticOps, RelationOps
  <2>3. IsConst(ka) /\ IsConst(kb) => v \in {Compute(inst.op, ka.val, kb.val), Undefined}
    BY <1>5, <2>1
  <2>. QED BY <1>6, <2>2, <2>3
<1>. QED BY <1>1, <1>7, <1>8, <1>9, <1>10 DEF CombinableOps

\* A State true before an assignment is true after it, behind the transfer
\* function of the original or the rewritten instruction.
LEMMA AssignmentSound ==
  ASSUME TypeInv, SpeltApart(code), pos \in Positions, RunAssignment,
         NEW s \in States, Sound(s, locals), NEW inst, StandsFor(inst, code[pos])
  PROVE  Sound(Transfer(s, inst, AllGlobals(code)), locals')
<1> DEFINE d == code[pos].dest
<1>1. PICK v \in Results(code[pos]) :
        \/ /\ IsLocal(d)
           /\ locals' = [locals EXCEPT ![d.name] = v]
        \/ /\ IsGlobal(d)
           /\ locals' = locals
  BY DEF RunAssignment
<1>2. code[pos].op \in CombinableOps \union {"ASSIGN", "LOCAL_VAR_DECL"} /\ inst.op = code[pos].op
  BY DEF RunAssignment, Running, StandsFor
<1>3. ~ ReadsDest(code[pos]) /\ inst.dest = d
  BY <1>2 DEF StandsFor, ReadsDest, CombinableOps, BinaryOps, ArithmeticOps, RelationOps
<1>4. d.name \in Name
  BY CodeTyped DEF TypeInv, Instructions, Operands
<1>5. Assigns(inst) => Holds(Assigned(s, inst), v)
  BY <1>2, AssignedSound DEF TypeInv
<1>6. inst.op \notin {"CALL", "LOAD"}
  BY <1>2 DEF CombinableOps, BinaryOps, ArithmeticOps, RelationOps
<1>7. ASSUME NEW n \in LocalNames
      PROVE  Holds(Transfer(s, inst, AllGlobals(code))[n], locals'[n])
  <2>1. n \in Name /\ n \in DOMAIN s /\ n \in DOMAIN locals /\ Holds(s[n], locals[n])
    BY DEF LocalNames, States, Sound, TypeInv, TypeOK
  <2>2. Transfer(s, inst, AllGlobals(code))[n] =
          IF ~ Assigns(inst) THEN s[n]
          ELSE IF (IsLocal(d) \/ IsGlobal(d)) /\ n = d.name THEN Assigned(s, inst) ELSE s[n]
    BY <1>3, <1>6, <2>1 DEF Transfer
  <2>3. CASE IsGlobal(d)
    <3>1. d.name \in AllGlobals(code)
      BY <2>3 DEF AllGlobals, Positions
    <3>. QED BY <1>1, <2>1, <2>2, <2>3, <3>1 DEF LocalNames, IsLocal, IsGlobal
  <2>4. CASE IsLocal(d) /\ n # d.name
    BY <1>1, <2>1, <2>2, <2>4 DEF IsLocal, IsGlobal
  <2>5. CASE IsLocal(d) /\ n = d.name
    <3>1. locals'[n] = v
      BY <1>1, <2>1, <2>5 DEF IsLocal, IsGlobal
    <3>2. CASE Assigns(inst)
      BY <1>5, <2>2, <2>5, <3>1, <3>2
    <3>3. CASE ~ Assigns(inst)
      <4>1. inst.op = "LOCAL_VAR_DECL" /\ IsNone(code[pos].src1) /\ ~ IsParam(code[pos].src1)
        BY <1>2, <3>3 DEF Assigns, AssigningOps, StandsFor, IsNone, IsParam
      <4>2. v \in {Undefined, locals[n]}
        BY <1>1, <1>2, <2>5, <4>1 DEF Results, BinaryOps, ArithmeticOps, RelationOps
      <4>3. Holds(s[n], v)
        BY <2>1, <4>2 DEF Holds
      <4>. QED BY <2>2, <3>1, <3>3, <4>3
    <3>. QED BY <3>2, <3>3
  <2>. QED BY <1>1, <2>3, <2>4, <2>5
<1>. QED BY <1>7 DEF Sound

\* Copies true before an assignment are true after it: the copies of and to the
\* destination are forgotten (invalidateCopies), the new one is recorded.
LEMMA AssignmentCopies ==
  ASSUME TypeInv, SpeltApart(code), pos \in Positions, RunAssignment,
         NEW c \in [Name -> Name], CopiesTrue(c, locals), NEW inst, StandsFor(inst, code[pos])
  PROVE  CopiesTrue(CopiesAfter(c, inst, AllGlobals(code)), locals')
<1> DEFINE d == code[pos].dest
           G == AllGlobals(code)
           after == CopiesAfter(c, inst, G)
<1>1. PICK v \in Results(code[pos]) :
        \/ /\ IsLocal(d)
           /\ locals' = [locals EXCEPT ![d.name] = v]
        \/ /\ IsGlobal(d)
           /\ locals' = locals
  BY DEF RunAssignment
<1>2. inst.op = code[pos].op /\ inst.op # "CALL" /\ inst.dest = d
  BY DEF RunAssignment, Running, StandsFor, ReadsDest,
         CombinableOps, BinaryOps, ArithmeticOps, RelationOps
<1>3. ASSUME NEW n \in LocalNames
      PROVE  after[n] \in LocalNames /\ (locals'[n] # Undefined => locals'[after[n]] = locals'[n])
  <2>1. n \in Name /\ n \in DOMAIN c /\ DOMAIN locals = Name
    BY DEF LocalNames, TypeInv, TypeOK
  <2> DEFINE copied == /\ inst.op = "ASSIGN" /\ IsLocal(inst.dest) /\ IsLocal(inst.src1)
                       /\ n = inst.dest.name
  <2>2. after[n] = IF copied THEN inst.src1.name
                   ELSE IF n = d.name \/ c[n] = d.name THEN n ELSE c[n]
    BY <1>2, <2>1 DEF CopiesAfter
  <2>3. c[n] \in LocalNames /\ (locals[n] # Undefined => locals[c[n]] = locals[n])
    BY DEF CopiesTrue
  <2>4. CASE copied
    <3>1. after[n] = inst.src1.name /\ after[n] \in LocalNames
      BY <2>2, <2>4 DEF StandsFor
    <3>2. locals' = [locals EXCEPT ![n] = v] /\ v = Value(code[pos].src1)
      BY <1>1, <1>2, <2>4 DEF IsLocal, IsGlobal, Results, BinaryOps, ArithmeticOps, RelationOps
    <3>3. Value(inst.src1) = locals[inst.src1.name]
      BY <2>4 DEF Value, IsLocal, IsImm
    <3>4. v # Undefined => locals[inst.src1.name] = v
      BY <3>2, <3>3 DEF StandsFor, SameValue
    <3>5. locals'[n] = v /\ locals'[after[n]] = IF after[n] = n THEN v ELSE locals[after[n]]
      BY <2>1, <3>1, <3>2 DEF LocalNames
    <3>. QED BY <3>1, <3>4, <3>5
  <2>5. CASE ~ copied /\ (n = d.name \/ c[n] = d.name)
    BY <2>2, <2>5
  <2>6. CASE ~ copied /\ n # d.name /\ c[n] # d.name
    <3>1. locals'[n] = locals[n] /\ locals'[c[n]] = locals[c[n]]
      BY <1>1, <2>1, <2>3, <2>6 DEF LocalNames
    <3>. QED BY <2>2, <2>3, <2>6, <3>1
  <2>. QED BY <2>4, <2>5, <2>6
<1>. QED BY <1>3 DEF CopiesTrue

\* A State true before a call is true after it: its destination is forgotten,
\* and no local can change behind the back of the function.
LEMMA CallSound ==
  ASSUME TypeInv, SpeltApart(code), pos \in Positions, RunCall,
         NEW s \in States, Sound(s, locals), NEW inst, StandsFor(inst, code[pos])
  PROVE  Sound(Transfer(s, inst, AllGlobals(code)), locals')
<1> DEFINE d == code[pos].dest
<1>1. inst.op = "CALL" /\ inst.dest = d /\ Assigned(s, inst) = Top
  BY DEF RunCall, Running, StandsFor, ReadsDest, Assigned, BinaryOps, ArithmeticOps, RelationOps
<1>2. \/ IsLocal(d) /\ \E v : locals' = [locals EXCEPT ![d.name] = v]
      \/ IsNone(d) /\ locals' = locals
  BY DEF RunCall
<1>3. ASSUME NEW n \in LocalNames
      PROVE  Holds(Transfer(s, inst, AllGlobals(code))[n], locals'[n])
  <2>1. n \in Name /\ n \notin AllGlobals(code) /\ n \in DOMAIN s /\ n \in DOMAIN locals
    BY DEF LocalNames, States, TypeInv, TypeOK
  <2>2. Holds(s[n], locals[n]) /\ \A v : Holds(Top, v)
    BY DEF Sound, Holds, Top
  <2>3. Transfer(s, inst, AllGlobals(code))[n] =
          IF ~ Assigns(inst) THEN s[n]
          ELSE IF (IsLocal(d) \/ IsGlobal(d)) /\ n = d.name THEN Top ELSE s[n]
    BY <1>1, <2>1 DEF Transfer
  <2>4. Assigns(inst)
    BY <1>1 DEF Assigns, AssigningOps
  <2>5. CASE IsLocal(d) /\ n = d.name
    BY <2>2, <2>3, <2>4, <2>5
  <2>6. CASE ~ (IsLocal(d) /\ n = d.name)
    <3>1. locals'[n] = locals[n] /\ ~ (IsGlobal(d) /\ n = d.name)
      BY <1>2, <2>1, <2>6 DEF IsLocal, IsGlobal, IsNone
    <3>. QED BY <2>2, <2>3, <2>6, <3>1
  <2>. QED BY <2>5, <2>6
<1>. QED BY <1>3 DEF Sound

\* Copies true before a call are true after it.
LEMMA CallCopies ==
  ASSUME TypeInv, SpeltApart(code), pos \in Positions, RunCall,
         NEW c \in [Name -> Name], CopiesTrue(c, locals), NEW inst, StandsFor(inst, code[pos])
  PROVE  CopiesTrue(CopiesAfter(c, inst, AllGlobals(code)), locals')
<1> DEFINE d == code[pos].dest
           after == CopiesAfter(c, inst, AllGlobals(code))
<1>1. inst.op = "CALL" /\ inst.dest = d
  BY DEF RunCall, Running, StandsFor, ReadsDest
<1>2. \/ IsLocal(d) /\ \E v : locals' = [locals EXCEPT ![d.name] = v]
      \/ IsNone(d) /\ locals' = locals
  BY DEF RunCall
<1>3. ASSUME NEW n \in LocalNames
      PROVE  after[n] \in LocalNames /\ (locals'[n] # Undefined => locals'[after[n]] = locals'[n])
  <2>1. n \in Name /\ n \in DOMAIN c /\ DOMAIN locals = Name
    BY DEF LocalNames, TypeInv, TypeOK
  <2>2. after[n] \in {n, c[n]} /\ (n = d.name \/ c[n] = d.name => after[n] = n)
    BY <1>1, <2>1 DEF CopiesAfter
  <2>3. c[n] \in LocalNames /\ (locals[n] # Undefined => locals[c[n]] = locals[n])
    BY DEF CopiesTrue
  <2>4. CASE n # d.name /\ c[n] # d.name
    <3>1. locals'[n] = locals[n] /\ locals'[c[n]] = locals[c[n]]
      BY <1>2, <2>1, <2>3, <2>4 DEF LocalNames
    <3>. QED BY <2>2, <2>3, <3>1
  <2>. QED BY <2>2, <2>4
<1>. QED BY <1>3 DEF CopiesTrue

\* An instruction that assigns nothing leaves the State as it is.
LEMMA QuietSound ==
  ASSUME NEW s \in States, NEW G, NEW inst,
         inst.op \in BranchOps \union {"FUNC_BEGIN", "LABEL", "PARAM"}
  PROVE  Transfer(s, inst, G) = s
<1>1. ~ Assigns(inst)
  BY DEF Assigns, AssigningOps, BranchOps, CombinableOps, BinaryOps, ArithmeticOps, RelationOps
<1>. QED BY <1>1 DEF Transfer, States

\* An instruction that assigns nothing may drop copies and adds none.
LEMMA QuietCopies ==
  ASSUME NEW c \in [Name -> Name], NEW G, NEW inst,
         inst.op \in BranchOps \union {"FUNC_BEGIN", "LABEL", "PARAM"}, NEW env, CopiesTrue(c, env)
  PROVE  CopiesTrue(CopiesAfter(c, inst, G), env)
<1>1. inst.op \notin {"ASSIGN", "CALL"}
  BY DEF BranchOps
<1>2. \A n \in LocalNames : CopiesAfter(c, inst, G)[n] \in {n, c[n]}
  BY <1>1 DEF CopiesAfter, LocalNames
<1>. QED BY <1>2 DEF CopiesTrue

\* What holds behind an instruction holds before the next one of the path:
\* inside a block by the sweep and the rewriting, across an edge because the
\* sweeps have reached a fixpoint.
LEMMA Arrives ==
  ASSUME TypeInv, Follows(Len(code)), Joined(Len(code)), Rewrote(Len(code)),
         NEW i \in Positions, NEW j \in Positions, Flows(code, i, j), NEW env,
         Sound(Transfer(before[i], code[i], AllGlobals(code)), env),
         Sound(Transfer(known[i].state, rewritten[i], AllGlobals(code)), env),
         CopiesTrue(CopiesAfter(known[i].copies, rewritten[i], AllGlobals(code)), env)
  PROVE  /\ Sound(before[j], env)
         /\ Sound(known[j].state, env)
         /\ CopiesTrue(known[j].copies, env)
<1>1. Len(code) \in Nat /\ i \in 1..Len(code) /\ j \in 1..Len(code)
  BY CodeTyped DEF TypeInv, Positions
<1>2. CASE Starts(code, j)
  <2>1. Ends(code, i)
    BY <1>1, <1>2 DEF Flows, Ends, Starts, FallsThrough, JumpsTo, BranchOps, BlockEnders
  <2>2. Sound(out[i], env)
    BY <1>1, <2>1 DEF Follows
  <2>3. Sound(EntryState(code, out, j), env)
    BY <2>1, <2>2, EntrySound DEF TypeInv, TypeOK
  <2>4. /\ before[j] = EntryState(code, out, j)
        /\ known[j].state = before[j] /\ known[j].copies = NoCopies(Name)
    BY <1>1, <1>2 DEF Joined, Rewrote
  <2>5. CopiesTrue(NoCopies(Name), env)
    BY DEF CopiesTrue, NoCopies, LocalNames
  <2>. QED BY <2>3, <2>4, <2>5
<1>3. CASE ~ Starts(code, j)
  <2>1. j = i + 1 /\ i = j - 1
    BY <1>1, <1>3 DEF Flows, JumpsTo, Starts
  <2>2. before[j] = Transfer(before[i], code[i], AllGlobals(code))
    BY <1>1, <1>3, <2>1 DEF Follows
  <2>3. /\ known[j].state = Transfer(known[i].state, rewritten[i], AllGlobals(code))
        /\ known[j].copies = CopiesAfter(known[i].copies, rewritten[i], AllGlobals(code))
    BY <1>1, <1>3, <2>1 DEF Rewrote
  <2>. QED BY <2>2, <2>3
<1>. QED BY <1>2, <1>3

Inductive ==
  /\ TypeInv /\ SpeltApart(code)
  /\ SweepInv /\ FixpointInv /\ RewriteInv /\ IdleInv /\ RunInv

\* The pass starts in a state of the invariant.
LEMMA InductiveInit ==
  ASSUME \A ir \in Programs : SpeltApart(ir), Init
  PROVE  Inductive
<1>1. TypeInv /\ SpeltApart(code)
  BY TypeInit DEF TypeInv
<1>2. phase = "sweep" /\ pos = 1 /\ locals = [n \in Name |-> Undefined] /\ rewritten = << >>
  BY DEF Init
<1>. QED BY <1>1, <1>2 DEF Inductive, SweepInv, FixpointInv, RewriteInv, IdleInv, RunInv,
                           Follows, Joined

\* A swept instruction follows from the one before it, and as long as the sweep
\* changes nothing its entry State is the meet of exit States that are final.
LEMMA SweepKeeps ==
  ASSUME Inductive, Sweep
  PROVE  SweepInv'
<1> DEFINE G == AllGlobals(code)
           entry == IF Starts(code, pos) THEN EntryState(code, out, pos) ELSE state
           exit == Transfer(entry, code[pos], G)
<1>1. /\ phase = "sweep" /\ pos \in Positions /\ pos \in Nat /\ pos >= 1 /\ Len(code) \in Nat
      /\ before \in [Positions -> States] /\ out \in [Positions -> States]
  BY CodeTyped DEF Inductive, TypeInv, TypeOK, Sweep, Positions
<1>2. /\ state' = exit
      /\ before' = [before EXCEPT ![pos] = entry]
      /\ out' = IF Ends(code, pos) THEN [out EXCEPT ![pos] = exit] ELSE out
      /\ converged' <=> /\ converged
                        /\ Starts(code, pos) => entry = before[pos]
                        /\ Ends(code, pos) => exit = out[pos]
      /\ pos' = pos + 1 /\ code' = code
  BY DEF Sweep
<1>3. /\ Follows(pos - 1)
      /\ converged => Joined(pos - 1)
      /\ pos > 1 => state = Transfer(before[pos - 1], code[pos - 1], G)
  BY <1>1 DEF Inductive, SweepInv
<1>. HIDE DEF exit
<1>4. /\ before'[pos] = entry
      /\ \A i \in Positions \ {pos} : before'[i] = before[i] /\ out'[i] = out[i]
      /\ Ends(code, pos) => out'[pos] = exit
  BY <1>1, <1>2
<1>5. Follows(pos - 1)'
  <2>1. ASSUME NEW i \in 1..pos
        PROVE  /\ ~ Starts(code, i) => before'[i] = Transfer(before'[i - 1], code[i - 1], G)
               /\ Ends(code, i) => out'[i] = Transfer(before'[i], code[i], G)
    <3>1. CASE i = pos
      <4>1. ~ Starts(code, pos) => pos > 1 /\ pos - 1 \in Positions \ {pos}
        BY <1>1 DEF Starts, Positions
      <4>. QED BY <1>3, <1>4, <3>1, <4>1 DEF exit
    <3>2. CASE i # pos
      <4>1. i \in 1..(pos - 1) /\ i \in Positions \ {pos}
        BY <1>1, <3>2 DEF Positions
      <4>2. ~ Starts(code, i) => i - 1 \in Positions \ {pos}
        BY <1>1, <4>1 DEF Starts, Positions
      <4>. QED BY <1>3, <1>4, <4>1, <4>2 DEF Follows
    <3>. QED BY <3>1, <3>2
  <2>2. 1..(pos' - 1) = 1..pos
    BY <1>1, <1>2
  <2>. QED BY <1>2, <2>1, <2>2 DEF Follows
<1>6. converged' => Joined(pos - 1)'
  <2>1. ASSUME converged' PROVE out' = out
    BY <1>1, <1>2, <2>1
  <2>2. ASSUME converged', NEW i \in 1..pos, Starts(code, i)
        PROVE  before'[i] = EntryState(code, out, i)
    <3>1. CASE i = pos
      BY <1>4, <2>2, <3>1
    <3>2. CASE i # pos
      <4>1. i \in 1..(pos - 1) /\ i \in Positions \ {pos}
        BY <1>1, <3>2 DEF Positions
      <4>. QED BY <1>2, <1>3, <1>4, <2>2, <4>1 DEF Joined
    <3>. QED BY <3>1, <3>2
  <2>3. 1..(pos' - 1) = 1..pos
    BY <1>1, <1>2
  <2>. QED BY <1>2, <2>1, <2>2, <2>3 DEF Joined
<1>7. state' = Transfer(before'[pos], code[pos], G)
  BY <1>2, <1>4 DEF exit
<1>8. pos' - 1 = pos
  BY <1>1, <1>2
<1>9. Len(rewritten') = 0
  BY <1>1 DEF Inductive, SweepInv, Sweep
<1>. QED BY <1>2, <1>5, <1>6, <1>7, <1>8, <1>9 DEF SweepInv

\* A rewritten instruction is rewritten under what holds behind the one before.
LEMMA RewriteKeeps ==
  ASSUME Inductive, Rewrite
  PROVE  RewriteInv'
<1> DEFINE G == AllGlobals(code)
           s == IF Starts(code, pos) THEN before[pos] ELSE state
           c == IF Starts(code, pos) THEN NoCopies(Name) ELSE copies
           new == Rewritten(s, c, code[pos], code)
<1>1. /\ phase = "rewrite" /\ pos \in Positions /\ pos \in Nat /\ pos >= 1 /\ Len(code) \in Nat
      /\ known \in [Positions -> [state : States, copies : [Name -> Name]]]
      /\ rewritten \in Seq(Instructions)
  BY CodeTyped DEF Inductive, TypeInv, TypeOK, Rewrite, Positions
<1>2. /\ rewritten' = Append(rewritten, new)
      /\ known' = [known EXCEPT ![pos] = [state |-> s, copies |-> c]]
      /\ state' = Transfer(s, new, G)
      /\ copies' = CopiesAfter(c, new, G)
      /\ pos' = pos + 1 /\ code' = code /\ before' = before
  BY DEF Rewrite
<1>3. /\ Len(rewritten) = pos - 1
      /\ Rewrote(pos - 1)
      /\ pos > 1 =>
           /\ state = Transfer(known[pos - 1].state, rewritten[pos - 1], G)
           /\ copies = CopiesAfter(known[pos - 1].copies, rewritten[pos - 1], G)
  BY <1>1 DEF Inductive, RewriteInv
<1>. HIDE DEF new
<1>4. /\ Len(rewritten') = pos /\ rewritten'[pos] = new
      /\ \A i \in 1..(pos - 1) : rewritten'[i] = rewritten[i]
  BY <1>1, <1>2, <1>3
<1>5. /\ known'[pos].state = s /\ known'[pos].copies = c
      /\ \A i \in Positions \ {pos} : known'[i] = known[i]
  BY <1>1, <1>2
<1>6. Rewrote(pos - 1)'
  <2>1. ASSUME NEW i \in 1..pos
        PROVE  /\ rewritten'[i] = Rewritten(known'[i].state, known'[i].copies, code[i], code)
               /\ Starts(code, i) =>
                    known'[i].state = before[i] /\ known'[i].copies = NoCopies(Name)
               /\ ~ Starts(code, i) =>
                    /\ known'[i].state = Transfer(known'[i - 1].state, rewritten'[i - 1], G)
                    /\ known'[i].copies = CopiesAfter(known'[i - 1].copies, rewritten'[i - 1], G)
    <3>1. ~ Starts(code, i) => i > 1
      BY DEF Starts
    <3>2. CASE i = pos
      <4>1. ~ Starts(code, pos) =>
              pos - 1 \in 1..(pos - 1) /\ pos - 1 \in Positions \ {pos} /\ pos > 1
        BY <1>1, <3>1, <3>2 DEF Positions
      <4>. QED BY <1>3, <1>4, <1>5, <3>2, <4>1 DEF new
    <3>3. CASE i # pos
      <4>1. i \in 1..(pos - 1) /\ i \in Positions \ {pos}
        BY <1>1, <3>3 DEF Positions
      <4>2. ~ Starts(code, i) => i - 1 \in 1..(pos - 1) /\ i - 1 \in Positions \ {pos}
        BY <1>1, <3>1, <4>1 DEF Positions
      <4>. QED BY <1>3, <1>4, <1>5, <4>1, <4>2 DEF Rewrote
    <3>. QED BY <3>2, <3>3
  <2>2. 1..(pos' - 1) = 1..pos
    BY <1>1, <1>2
  <2>. QED BY <1>2, <2>1, <2>2 DEF Rewrote
<1>7. pos' - 1 = pos
  BY <1>1, <1>2
<1>. QED BY <1>2, <1>4, <1>5, <1>6, <1>7 DEF RewriteInv

\* A function starts with no local assigned, of which every State is true, and
\* with read-only globals at their initial values.
LEMMA CallKeeps ==
  ASSUME Inductive, Call
  PROVE  RunInv'
<1>1. /\ phase = "rewrite" /\ pos = Len(code) + 1 /\ Len(code) \in Nat
      /\ pos' \in Positions /\ code[pos'].op = "FUNC_BEGIN"
      /\ UNCHANGED <<code, before, known, rewritten, locals>>
  <2>1. Len(code) \in Nat /\ pos \in 1..(Len(code) + 1)
    BY CodeTyped DEF Inductive, TypeInv, TypeOK
  <2>2. phase = "rewrite" /\ pos > Len(code) /\ UNCHANGED <<code, before, known, rewritten, locals>>
    BY DEF Call
  <2>3. pos' \in Positions /\ code[pos'].op = "FUNC_BEGIN"
    BY DEF Call, Positions
  <2>. QED BY <2>1, <2>2, <2>3
<1>2. Rewrote(Len(code)) /\ locals = [n \in Name |-> Undefined]
  BY <1>1 DEF Inductive, RewriteInv, IdleInv
<1>3. \A s : Sound(s, locals)
  BY <1>2 DEF Sound, Holds, LocalNames
<1>4. known[pos'].copies = NoCopies(Name)
  BY <1>1, <1>2 DEF Rewrote, Starts, Positions
<1>5. CopiesTrue(known[pos'].copies, locals)
  BY <1>4 DEF CopiesTrue, NoCopies, LocalNames
<1>6. GlobalsKept'
  BY <1>1 DEF Call, AnyGlobals, GlobalsKept
<1>. QED BY <1>1, <1>2, <1>3, <1>5, <1>6
         DEF RunInv, Rewrote, Sound, CopiesTrue, LocalNames, Positions

\* While a function runs, the rewritten instruction stands for the original.
LEMMA WhenRunning ==
  ASSUME Inductive, phase = "run"
  PROVE  /\ pos \in Positions
         /\ Follows(Len(code)) /\ Joined(Len(code)) /\ Rewrote(Len(code))
         /\ before[pos] \in States /\ known[pos].state \in States
         /\ known[pos].copies \in [Name -> Name]
         /\ StandsFor(code[pos], code[pos]) /\ StandsFor(rewritten[pos], code[pos])
         /\ ReadsDest(code[pos]) => SameValue(code[pos].dest, rewritten[pos].dest)
         /\ ~ ReadsDest(code[pos]) => rewritten[pos].dest = code[pos].dest
<1>1. /\ pos \in Positions /\ Rewrote(Len(code)) /\ Follows(Len(code)) /\ Joined(Len(code))
      /\ Sound(known[pos].state, locals) /\ CopiesTrue(known[pos].copies, locals) /\ GlobalsKept
  BY DEF Inductive, RunInv, FixpointInv
<1>2. before[pos] \in States /\ known[pos].state \in States /\ known[pos].copies \in [Name -> Name]
  BY <1>1 DEF Inductive, TypeInv, TypeOK
<1>3. rewritten[pos] = Rewritten(known[pos].state, known[pos].copies, code[pos], code)
  BY <1>1 DEF Rewrote, Positions
<1>. QED BY <1>1, <1>2, <1>3, StandsForItself, RewrittenStandsFor DEF Inductive, TypeInv

\* A step of the run along an edge keeps the invariant if the States and copies
\* behind the instruction are true of the locals after it.
LEMMA RunArrives ==
  ASSUME Inductive, phase = "run", pos' \in Positions, Flows(code, pos, pos'),
         UNCHANGED <<code, phase, before, out, known, rewritten>>,
         Sound(Transfer(before[pos], code[pos], AllGlobals(code)), locals'),
         Sound(Transfer(known[pos].state, rewritten[pos], AllGlobals(code)), locals'),
         CopiesTrue(CopiesAfter(known[pos].copies, rewritten[pos], AllGlobals(code)), locals'),
         GlobalsKept'
  PROVE  RunInv'
<1>1. /\ Sound(before[pos'], locals')
      /\ Sound(known[pos'].state, locals')
      /\ CopiesTrue(known[pos'].copies, locals')
  BY WhenRunning, Arrives DEF Inductive
<1>2. Rewrote(Len(code))
  BY WhenRunning
<1>. QED BY <1>1, <1>2 DEF RunInv, Rewrote, Sound, CopiesTrue, LocalNames, Positions

\* An assignment run keeps the invariant.
LEMMA AssignmentKeeps ==
  ASSUME Inductive, RunAssignment
  PROVE  RunInv'
<1>1. /\ phase = "run" /\ pos' = pos + 1 /\ FallsThrough(code, pos)
      /\ UNCHANGED <<code, phase, before, out, known, rewritten>>
  BY DEF RunAssignment, Running
<1>2. pos \in Positions /\ TypeInv /\ SpeltApart(code)
  BY <1>1, WhenRunning DEF Inductive
<1>3. pos' \in Positions /\ Flows(code, pos, pos')
  BY <1>1, <1>2, FallsInside DEF Flows, TypeInv
<1>4. /\ Sound(before[pos], locals) /\ Sound(known[pos].state, locals)
      /\ CopiesTrue(known[pos].copies, locals)
  BY <1>1 DEF Inductive, RunInv
<1>5. /\ Sound(Transfer(before[pos], code[pos], AllGlobals(code)), locals')
      /\ Sound(Transfer(known[pos].state, rewritten[pos], AllGlobals(code)), locals')
      /\ CopiesTrue(CopiesAfter(known[pos].copies, rewritten[pos], AllGlobals(code)), locals')
  BY <1>1, <1>2, <1>4, WhenRunning, AssignmentSound, AssignmentCopies
<1>6. ASSUME NEW g \in AllGlobals(code), ReadOnly(code, g)
      PROVE  globals'[g] = InitialValue(code, g)
  <2>1. globals[g] = InitialValue(code, g) /\ g \in DOMAIN globals
    BY <1>1, <1>2, <1>6 DEF Inductive, RunInv, GlobalsKept, TypeInv, TypeOK
  <2>2. code[pos].op # "GLOBAL_VAR_DECL"
    BY DEF RunAssignment, Running, CombinableOps, BinaryOps, ArithmeticOps, RelationOps
  <2>3. ~ (IsGlobal(code[pos].dest) /\ code[pos].dest.name = g)
    BY <1>2, <1>6, <2>2 DEF ReadOnly, Declares, Positions
  <2>4. globals'[g] = globals[g]
    BY <2>1, <2>3 DEF RunAssignment
  <2>. QED BY <2>1, <2>4
<1>7. GlobalsKept'
  BY <1>1, <1>6 DEF GlobalsKept
<1>. QED BY <1>1, <1>3, <1>5, <1>7, RunArrives

\* A call run keeps the invariant.
LEMMA CallStatementKeeps ==
  ASSUME Inductive, RunCall
  PROVE  RunInv'
<1>1. /\ phase = "run" /\ pos' = pos + 1 /\ FallsThrough(code, pos)
      /\ UNCHANGED <<code, phase, before, out, known, rewritten>>
  BY DEF RunCall, Running
<1>2. pos \in Positions /\ TypeInv /\ SpeltApart(code)
  BY <1>1, WhenRunning DEF Inductive
<1>3. pos' \in Positions /\ Flows(code, pos, pos')
  BY <1>1, <1>2, FallsInside DEF Flows, TypeInv
<1>4. /\ Sound(before[pos], locals) /\ Sound(known[pos].state, locals)
      /\ CopiesTrue(known[pos].copies, locals)
  BY <1>1 DEF Inductive, RunInv
<1>5. /\ Sound(Transfer(before[pos], code[pos], AllGlobals(code)), locals')
      /\ Sound(Transfer(known[pos].state, rewritten[pos], AllGlobals(code)), locals')
      /\ CopiesTrue(CopiesAfter(known[pos].copies, rewritten[pos], AllGlobals(code)), locals')
  BY <1>1, <1>2, <1>4, WhenRunning, CallSound, CallCopies
<1>6. GlobalsKept'
  BY <1>1 DEF GlobalsKept, RunCall, AnyGlobals
<1>. QED BY <1>1, <1>3, <1>5, <1>6, RunArrives

\* A branch, a label or an argument run keeps the invariant.
LEMMA QuietKeeps ==
  ASSUME Inductive, RunJump \/ RunOther
  PROVE  RunInv'
<1>1. /\ phase = "run" /\ UNCHANGED <<code, phase, before, out, known, rewritten, locals, globals>>
      /\ code[pos].op \in BranchOps \union {"FUNC_BEGIN", "LABEL", "PARAM"}
  BY DEF RunJump, RunOther, Running
<1>2. pos \in Positions /\ rewritten[pos].op = code[pos].op
  BY <1>1, WhenRunning DEF StandsFor
<1>3. pos' \in Positions /\ Flows(code, pos, pos')
  <2>1. CASE RunJump
    BY <2>1 DEF RunJump, Flows, Positions
  <2>2. CASE RunOther
    BY <1>2, <2>2, FallsInside DEF RunOther, Flows, Inductive, TypeInv
  <2>. QED BY <2>1, <2>2
<1>4. /\ Sound(before[pos], locals) /\ Sound(known[pos].state, locals)
      /\ CopiesTrue(known[pos].copies, locals)
  BY <1>1 DEF Inductive, RunInv
<1>5. /\ Sound(Transfer(before[pos], code[pos], AllGlobals(code)), locals')
      /\ Sound(Transfer(known[pos].state, rewritten[pos], AllGlobals(code)), locals')
      /\ CopiesTrue(CopiesAfter(known[pos].copies, rewritten[pos], AllGlobals(code)), locals')
  BY <1>1, <1>2, <1>4, WhenRunning, QuietSound, QuietCopies
<1>6. GlobalsKept'
  BY <1>1 DEF Inductive, RunInv, GlobalsKept
<1>. QED BY <1>1, <1>3, <1>5, <1>6, RunArrives

\* Every step keeps the invariant.
LEMMA InductiveStep ==
  ASSUME Inductive, [Next]_vars
  PROVE  Inductive'
<1>1. TypeInv'
  BY TypeStep DEF Inductive, RunInv, RunsInside
<1>2. SpeltApart(code)'
  <2>1. code' = code
    BY DEF Next, Pass, Sweep, SweepAgain, StopSweeping, Rewrite, Call,
           RunAssignment, RunCall, RunJump, RunOther, vars, passVars
  <2>. QED BY <2>1 DEF Inductive, SpeltApart
<1>3. Len(code) \in Nat /\ pos \in 1..(Len(code) + 1)
  BY CodeTyped DEF Inductive, TypeInv, TypeOK
<1>4. CASE Sweep
  <2>1. phase = "sweep" /\ phase' = "sweep" /\ locals' = locals
    BY <1>4 DEF Sweep
  <2>2. SweepInv'
    BY <1>4, SweepKeeps
  <2>3. FixpointInv' /\ RewriteInv' /\ IdleInv' /\ RunInv'
    BY <2>1 DEF Inductive, FixpointInv, RewriteInv, IdleInv, RunInv
  <2>. QED BY <1>1, <1>2, <2>2, <2>3 DEF Inductive
<1>5. CASE SweepAgain
  <2>1. phase = "sweep" /\ phase' = "sweep" /\ locals' = locals /\ pos' = 1
    BY <1>5 DEF SweepAgain
  <2>2. SweepInv'
    BY <1>5, <2>1 DEF SweepAgain, Inductive, SweepInv, Follows, Joined
  <2>3. FixpointInv' /\ RewriteInv' /\ IdleInv' /\ RunInv'
    BY <2>1 DEF Inductive, FixpointInv, RewriteInv, IdleInv, RunInv
  <2>. QED BY <1>1, <1>2, <2>2, <2>3 DEF Inductive
<1>6. CASE StopSweeping
  <2>1. /\ phase = "sweep" /\ phase' = "rewrite" /\ pos' = 1 /\ converged /\ pos - 1 = Len(code)
        /\ UNCHANGED <<code, before, out, rewritten, locals>>
    BY <1>3, <1>6 DEF StopSweeping
  <2>2. FixpointInv'
    BY <2>1 DEF Inductive, SweepInv, FixpointInv, Follows, Joined
  <2>3. RewriteInv'
    <3>1. Len(rewritten) = 0
      BY <2>1 DEF Inductive, SweepInv
    <3>. QED BY <2>1, <3>1 DEF RewriteInv, Rewrote
  <2>4. SweepInv' /\ IdleInv' /\ RunInv'
    BY <2>1 DEF Inductive, SweepInv, IdleInv, RunInv
  <2>. QED BY <1>1, <1>2, <2>2, <2>3, <2>4 DEF Inductive
<1>7. CASE Rewrite
  <2>1. phase = "rewrite" /\ UNCHANGED <<code, phase, before, out, locals>>
    BY <1>7 DEF Rewrite
  <2>2. RewriteInv'
    BY <1>7, RewriteKeeps
  <2>3. SweepInv' /\ FixpointInv' /\ IdleInv' /\ RunInv'
    BY <2>1 DEF Inductive, SweepInv, FixpointInv, IdleInv, RunInv, Follows, Joined
  <2>. QED BY <1>1, <1>2, <2>2, <2>3 DEF Inductive
<1>8. CASE Call
  <2>1. phase = "rewrite" /\ phase' = "run" /\ UNCHANGED <<code, before, out>>
    BY <1>8 DEF Call
  <2>2. RunInv'
    BY <1>8, CallKeeps
  <2>3. SweepInv' /\ FixpointInv' /\ RewriteInv' /\ IdleInv'
    BY <2>1 DEF Inductive, SweepInv, FixpointInv, RewriteInv, IdleInv, Follows, Joined
  <2>. QED BY <1>1, <1>2, <2>2, <2>3 DEF Inductive
<1>9. CASE RunAssignment \/ RunCall \/ RunJump \/ RunOther
  <2>1. phase = "run" /\ UNCHANGED <<code, phase, before, out>>
    BY <1>9 DEF RunAssignment, RunCall, RunJump, RunOther, Running
  <2>2. RunInv'
    BY <1>9, AssignmentKeeps, CallStatementKeeps, QuietKeeps
  <2>3. SweepInv' /\ FixpointInv' /\ RewriteInv' /\ IdleInv'
    BY <2>1 DEF Inductive, SweepInv, FixpointInv, RewriteInv, IdleInv, Follows, Joined
  <2>. QED BY <1>1, <1>2, <2>2, <2>3 DEF Inductive
<1>10. CASE UNCHANGED vars
  <2>1. UNCHANGED <<code, phase, pos, state, before, out, converged, copies, known, rewritten,
                    locals, globals>>
    BY <1>10 DEF vars, passVars
  <2>. QED BY <1>1, <1>2, <2>1
           DEF Inductive, SweepInv, FixpointInv, RewriteInv, IdleInv, RunInv, Follows, Joined,
               Rewrote, Sound, CopiesTrue, LocalNames, GlobalsKept, Positions
<1>. QED BY <1>4, <1>5, <1>6, <1>7, <1>8, <1>9, <1>10 DEF Next, Pass

\* Pass 0 never changes what an instruction reads, on any path and whatever the
\* calls do, in any program whose locals are not spelled like its globals: the
\* pass keys its State and copies by the bare name of an operand, and a program
\* that spells a temporary like a global is changed by it (SpellingPrograms).
THEOREM OperandsKept ==
  (\A ir \in Programs : SpeltApart(ir)) => (Spec => []OperandsPreserved)
<1> SUFFICES ASSUME \A ir \in Programs : SpeltApart(ir) PROVE Spec => []OperandsPreserved
  OBVIOUS
<1>1. Init => Inductive
  BY InductiveInit
<1>2. Inductive /\ [Next]_vars => Inductive'
  BY InductiveStep
<1>3. Inductive => OperandsPreserved
  <2> SUFFICES ASSUME Inductive, phase = "run" PROVE OperandsPreserved
    BY DEF OperandsPreserved
  <2>. QED BY WhenRunning DEF OperandsPreserved, StandsFor
<1>. QED BY <1>1, <1>2, <1>3, PTL DEF Spec
===============================================================================
