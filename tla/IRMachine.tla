------------------------------- MODULE IRMachine ------------------------------
(***************************************************************************)
(* What a function of an IR program computes (docs/middle-end-api.md,      *)
(* "3.3"): the value it returns and the globals it leaves.                 *)
(*                                                                         *)
(* A variable never assigned holds Undefined, and so does every result     *)
(* computed from it.  Dividing by zero and branching on Undefined have no  *)
(* meaning: the run ends as "meaningless".                                 *)
(***************************************************************************)
EXTENDS IR, TLC, SequencesExt

CONSTANT Undefined

ASSUME UndefinedIsNoValue == Undefined \notin Word

-------------------------------------------------------------------------------
\* A machine: the running function and its callers.
Start(ir, f, actuals, globals) ==
  [pc |-> BeginOf(ir, f), locals |-> [n \in LocalsOf(ir) |-> Undefined],
   actuals |-> actuals, pending |-> << >>, callers |-> << >>,
   globals |-> globals, status |-> "running", value |-> Undefined]

ValueIn(m, o) ==
  CASE IsImm(o)    -> o.imm
    [] IsLocal(o)  -> m.locals[o.name]
    [] IsGlobal(o) -> m.globals[o.name]
    [] OTHER       -> Undefined

Stored(m, o, v) ==
  CASE IsLocal(o)  -> [m EXCEPT !.locals[o.name] = v]
    [] IsGlobal(o) -> [m EXCEPT !.globals[o.name] = v]
    [] OTHER       -> m

Advanced(m) == [m EXCEPT !.pc = @ + 1]
Meaningless(m) == [m EXCEPT !.status = "meaningless"]

Result(op, a, b) ==
  IF a = Undefined \/ (op # "NOT" /\ b = Undefined) THEN Undefined
  ELSE IF op = "NOT" THEN Truth(a = 0)
  ELSE Compute(op, a, b)

Jumped(ir, m, inst, taken) ==
  IF ~ taken THEN Advanced(m)
  ELSE [m EXCEPT !.pc = CHOOSE j \in DOMAIN ir : ir[j].op = "LABEL" /\ ir[j].dest = inst.dest]

Entered(ir, m, inst) ==
  [m EXCEPT !.pc = BeginOf(ir, inst.src1.name),
            !.callers = Append(@, [pc |-> m.pc, locals |-> m.locals, actuals |-> m.actuals]),
            !.locals = [n \in DOMAIN @ |-> Undefined],
            !.actuals = m.pending, !.pending = << >>]

Returned(ir, m, v) ==
  IF m.callers = << >> THEN [m EXCEPT !.status = "returned", !.value = v]
  ELSE LET caller == Last(m.callers) IN
       Advanced(Stored([m EXCEPT !.pc = caller.pc, !.locals = caller.locals,
                                 !.actuals = caller.actuals, !.callers = Front(@)],
                       ir[caller.pc].dest, v))

\* A declaration without initialiser leaves a variable without a value when it
\* is the source's (fresh); compiled code does nothing for it.
Declared(m, inst, fresh) ==
  CASE IsParam(inst.src1) -> [Stored(m, inst.dest, Head(m.actuals)) EXCEPT !.actuals = Tail(@)]
    [] IsNone(inst.src1) -> IF fresh THEN Stored(m, inst.dest, Undefined) ELSE m
    [] OTHER -> Stored(m, inst.dest, ValueIn(m, inst.src1))

Step(ir, m, fresh) ==
  LET inst == ir[m.pc]
      a == ValueIn(m, inst.src1)
      b == ValueIn(m, inst.src2)
  IN CASE inst.op \in CombinableOps ->
            IF inst.op \in {"DIV", "MOD"} /\ b \in {0, Undefined} THEN Meaningless(m)
            ELSE Advanced(Stored(m, inst.dest, Result(inst.op, a, b)))
       [] inst.op = "ASSIGN" -> Advanced(Stored(m, inst.dest, a))
       [] inst.op = "LOCAL_VAR_DECL" -> Advanced(Declared(m, inst, fresh))
       [] inst.op \in {"LABEL", "FUNC_BEGIN"} -> Advanced(m)
       [] inst.op = "BRANCH" -> Jumped(ir, m, inst, TRUE)
       [] inst.op \in {"BEQZ", "BNEZ"} ->
            IF a = Undefined THEN Meaningless(m)
            ELSE Jumped(ir, m, inst, (inst.op = "BEQZ") <=> (a = 0))
       [] inst.op = "PARAM" ->
            Advanced([m EXCEPT !.pending = Append(@, ValueIn(m, inst.dest))])
       [] inst.op = "CALL" -> Entered(ir, m, inst)
       [] inst.op = "RETURN" -> Returned(ir, m, ValueIn(m, inst.dest))
       [] OTHER -> [m EXCEPT !.status = "fell through"]

\* Where the source returns, so does the code, with the value and the globals
\* that the source defines.
Implements(compiled, source) ==
  source.status = "returned" =>
    /\ compiled.status = "returned"
    /\ source.value \in {Undefined, compiled.value}
    /\ \A g \in DOMAIN source.globals : source.globals[g] \in {Undefined, compiled.globals[g]}
===============================================================================
