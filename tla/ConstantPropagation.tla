-------------------------- MODULE ConstantPropagation -------------------------
(***************************************************************************)
(* Pass 0 of IRGenerator::optimizePass: propagation of constants over the  *)
(* whole control flow graph, and of copies inside a basic block.           *)
(*                                                                         *)
(* First the blocks are swept, in the order of the code, until a sweep     *)
(* changes the entry and exit state of no block; then every instruction is *)
(* rewritten under the state that holds before it.  A step of the module   *)
(* handles one instruction, as an iteration of the source's inner loops.   *)
(*                                                                         *)
(* To say what the result is worth, the module then runs a function of the *)
(* original code, with any arguments, any values of the written globals    *)
(* and anything for what its calls return and store, and keeps the         *)
(* rewritten instruction next to the original one.                         *)
(***************************************************************************)
EXTENDS Propagation

CONSTANTS Name,      \* the spellings of variables, labels and functions
          Programs,  \* the IR that the pass may be given
          Undefined  \* the value of a variable never assigned

ASSUME UndefinedIsNoWord == Undefined \notin Word
ASSUME HasNoName == NoName \in Name

States == [Name -> Lattice]
OperandTypes == {"imm", "local", "global", "label", "func", "param", "none"}
Operands == [type : OperandTypes, name : Name, imm : Word]
Instructions == [op : STRING, dest : Operands, src1 : Operands, src2 : Operands]

\* What the tree walk emits declares its globals.  Names are only told apart
\* by their spelling, so it matters whether a local is spelled like a global.
OperandsOf(inst) == {inst.dest, inst.src1, inst.src2}
GlobalsDeclared(ir) ==
  \A i \in 1..Len(ir) : \A o \in OperandsOf(ir[i]) : IsGlobal(o) => o.name \in AllGlobals(ir)
SpeltApart(ir) ==
  \A i \in 1..Len(ir) : \A o \in OperandsOf(ir[i]) : IsLocal(o) => o.name \notin AllGlobals(ir)

ASSUME ProgramsAreCode == \A ir \in Programs : ir \in Seq(Instructions) /\ GlobalsDeclared(ir)

VARIABLES
  code,       \* the IR before the pass
  phase,      \* "sweep", "rewrite", or "run" when the pass is over
  pos,        \* the instruction to handle next
  state,      \* the running State of the block: newOut, then st
  before,     \* history: the State before each instruction; in[k] of the
              \* source is before[the first instruction of block k]
  out,        \* out[k], at the last instruction of block k
  converged,  \* this sweep has changed nothing so far
  copies,     \* copyMap; a name that is no copy is mapped to itself
  known,      \* history: state and copies when each instruction was rewritten
  rewritten,  \* the instructions rewritten so far
  locals,     \* the running function: its variables
  globals     \* and the program's

passVars == <<code, phase, pos, state, before, out, converged, copies, known, rewritten>>
vars == <<passVars, locals, globals>>

-------------------------------------------------------------------------------
\* Values the globals may have when the function starts or a call returns:
\* only those that some instruction writes ever change.
AnyGlobals ==
  {g \in [AllGlobals(code) -> Word] :
     \A n \in AllGlobals(code) : ReadOnly(code, n) => g[n] = InitialValue(code, n)}

Init ==
  /\ code \in Programs
  /\ phase = "sweep" /\ pos = 1
  /\ state = NothingKnown(Name)
  /\ before = [i \in 1..Len(code) |-> NothingKnown(Name)]
  /\ out = [i \in 1..Len(code) |-> NothingKnown(Name)]
  /\ converged = TRUE
  /\ copies = NoCopies(Name)
  /\ known = [i \in 1..Len(code) |-> [state |-> NothingKnown(Name), copies |-> NoCopies(Name)]]
  /\ rewritten = << >>
  /\ locals = [n \in Name |-> Undefined]
  /\ globals = [n \in AllGlobals(code) |-> Undefined]

\* One instruction of a sweep; the first of a block computes the meet of the
\* exit states of its predecessors, the last one stores the exit state.
Sweep ==
  /\ phase = "sweep" /\ pos <= Len(code)
  /\ LET entry == IF Starts(code, pos) THEN EntryState(code, out, pos) ELSE state
         exit  == Transfer(entry, code[pos], AllGlobals(code))
     IN /\ state' = exit
        /\ before' = [before EXCEPT ![pos] = entry]
        /\ out' = IF Ends(code, pos) THEN [out EXCEPT ![pos] = exit] ELSE out
        /\ converged' = /\ converged
                        /\ Starts(code, pos) => entry = before[pos]
                        /\ Ends(code, pos) => exit = out[pos]
  /\ pos' = pos + 1
  /\ UNCHANGED <<code, phase, copies, known, rewritten, locals, globals>>

\* Mutant: the flag is not set again for the next sweep.
SweepAgainUnset ==
  /\ phase = "sweep" /\ pos > Len(code) /\ ~ converged
  /\ pos' = 1
  /\ UNCHANGED <<code, phase, state, before, out, converged, copies, known, rewritten,
                 locals, globals>>

SweepAgain ==
  /\ phase = "sweep" /\ pos > Len(code) /\ ~ converged
  /\ pos' = 1 /\ converged' = TRUE
  /\ UNCHANGED <<code, phase, state, before, out, copies, known, rewritten, locals, globals>>

StopSweeping ==
  /\ phase = "sweep" /\ pos > Len(code) /\ converged
  /\ phase' = "rewrite" /\ pos' = 1
  /\ UNCHANGED <<code, state, before, out, converged, copies, known, rewritten, locals, globals>>

Rewrite ==
  /\ phase = "rewrite" /\ pos <= Len(code)
  /\ LET s == IF Starts(code, pos) THEN before[pos] ELSE state
         c == IF Starts(code, pos) THEN NoCopies(Name) ELSE copies
         new == Rewritten(s, c, code[pos], code)
     IN /\ rewritten' = Append(rewritten, new)
        /\ known' = [known EXCEPT ![pos] = [state |-> s, copies |-> c]]
        /\ state' = Transfer(s, new, AllGlobals(code))
        /\ copies' = CopiesAfter(c, new, AllGlobals(code))
  /\ pos' = pos + 1
  /\ UNCHANGED <<code, phase, before, out, converged, locals, globals>>

\* The pass is over; a function is called.
Call ==
  /\ phase = "rewrite" /\ pos > Len(code)
  /\ phase' = "run"
  /\ pos' \in {i \in 1..Len(code) : code[i].op = "FUNC_BEGIN"}
  /\ globals' \in AnyGlobals
  /\ UNCHANGED <<code, state, before, out, converged, copies, known, rewritten, locals>>

-------------------------------------------------------------------------------
\* What the instructions mean (docs/middle-end-api.md, "3.3").  A result
\* computed from an undefined value is undefined.
Value(o) ==
  IF IsImm(o) THEN o.imm
  ELSE IF IsLocal(o) THEN locals[o.name]
  ELSE IF IsGlobal(o) THEN globals[o.name]
  ELSE Undefined

Results(inst) ==
  LET a == Value(inst.src1)
      b == Value(inst.src2)
  IN CASE inst.op = "ASSIGN" -> {a}
       [] inst.op = "LOCAL_VAR_DECL" ->
            IF IsParam(inst.src1) THEN Word
            ELSE IF IsNone(inst.src1) THEN {Undefined, locals[inst.dest.name]}
            ELSE {a}
       [] inst.op = "NOT" -> {IF a = Undefined THEN Undefined ELSE Truth(a = 0)}
       [] inst.op \in BinaryOps ->
            {IF a = Undefined \/ b = Undefined THEN Undefined ELSE Compute(inst.op, a, b)}
       [] OTHER -> Word

Running(ops) == phase = "run" /\ code[pos].op \in ops

\* An instruction that computes or moves a value; dividing by zero has no
\* meaning and ends the run.
RunAssignment ==
  /\ Running(CombinableOps \union {"ASSIGN", "LOCAL_VAR_DECL"})
  /\ FallsThrough(code, pos)
  /\ code[pos].op \in {"DIV", "MOD"} => Value(code[pos].src2) # 0
  /\ \E v \in Results(code[pos]) :
       \/ /\ IsLocal(code[pos].dest)
          /\ locals' = [locals EXCEPT ![code[pos].dest.name] = v]
          /\ UNCHANGED globals
       \/ /\ IsGlobal(code[pos].dest)
          /\ globals' = [globals EXCEPT ![code[pos].dest.name] = v]
          /\ UNCHANGED locals
  /\ pos' = pos + 1
  /\ UNCHANGED <<code, phase, state, before, out, converged, copies, known, rewritten>>

RunCall ==
  /\ Running({"CALL"})
  /\ FallsThrough(code, pos)
  /\ globals' \in AnyGlobals
  /\ \/ IsLocal(code[pos].dest) /\ \E v \in Word : locals' = [locals EXCEPT ![code[pos].dest.name] = v]
     \/ IsNone(code[pos].dest) /\ UNCHANGED locals
  /\ pos' = pos + 1
  /\ UNCHANGED <<code, phase, state, before, out, converged, copies, known, rewritten>>

\* A branch on an undefined value has no meaning and ends the run.
Taken(inst) ==
  \/ inst.op = "BRANCH"
  \/ inst.op = "BEQZ" /\ Value(inst.src1) = 0
  \/ inst.op = "BNEZ" /\ Value(inst.src1) \notin {0, Undefined}

NotTaken(inst) ==
  \/ inst.op = "BNEZ" /\ Value(inst.src1) = 0
  \/ inst.op = "BEQZ" /\ Value(inst.src1) \notin {0, Undefined}

RunJump ==
  /\ Running(BranchOps)
  /\ \E j \in 1..Len(code) :
       /\ \/ Taken(code[pos]) /\ JumpsTo(code, pos, j)
          \/ NotTaken(code[pos]) /\ FallsThrough(code, pos) /\ j = pos + 1
       /\ pos' = j
  /\ UNCHANGED <<code, phase, state, before, out, converged, copies, known, rewritten,
                 locals, globals>>

\* Markers, and arguments on their way to a call.
RunOther ==
  /\ Running({"FUNC_BEGIN", "LABEL", "PARAM"})
  /\ FallsThrough(code, pos)
  /\ pos' = pos + 1
  /\ UNCHANGED <<code, phase, state, before, out, converged, copies, known, rewritten,
                 locals, globals>>

Pass == Sweep \/ SweepAgain \/ StopSweeping \/ Rewrite \/ Call
Next == Pass \/ RunAssignment \/ RunCall \/ RunJump \/ RunOther

Spec == Init /\ [][Next]_vars

\* The compiler is a sequential program: the pass goes on as long as it can.
FairSpec == Spec /\ WF_vars(Pass)

-------------------------------------------------------------------------------
Positions == 1..Len(code)

TypeOK ==
  /\ code \in Seq(Instructions)
  /\ phase \in {"sweep", "rewrite", "run"}
  /\ pos \in 1..(Len(code) + 1)
  /\ state \in States
  /\ before \in [Positions -> States]
  /\ out \in [Positions -> States]
  /\ converged \in BOOLEAN
  /\ copies \in [Name -> Name]
  /\ known \in [Positions -> [state : States, copies : [Name -> Name]]]
  /\ rewritten \in Seq(Instructions)
  /\ locals \in [Name -> Word \union {Undefined}]
  /\ globals \in [AllGlobals(code) -> Word \union {Undefined}]

\* A variable that holds a value when the original instruction reads it has
\* the same value in what the rewritten instruction reads in its place.
SameValue(o, p) == Value(o) # Undefined => Value(p) = Value(o)

\* Replacing operands by constants (in[k], foldConst), by the origin of a
\* copy (copyMap) and by the initial value of a global nobody writes
\* (readOnlyGlobals) never changes what an instruction reads, on any path
\* through the function and whatever its calls do.
OperandsPreserved ==
  phase = "run" =>
    /\ rewritten[pos].op = code[pos].op
    /\ SameValue(code[pos].src1, rewritten[pos].src1)
    /\ SameValue(code[pos].src2, rewritten[pos].src2)
    /\ IF ReadsDest(code[pos]) THEN SameValue(code[pos].dest, rewritten[pos].dest)
       ELSE rewritten[pos].dest = code[pos].dest

\* The sweeps reach a fixpoint: "while (!converged)" has no other exit.
Converges == <>(phase # "sweep")
===============================================================================
