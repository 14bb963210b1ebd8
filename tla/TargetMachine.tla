----------------------------- MODULE TargetMachine -----------------------------
(***************************************************************************)
(* What the text computes: the part of RV32IM that code_generator.cpp      *)
(* emits, its calls and its jumps.  Functions that return leave nothing in *)
(* the registers that the convention lets them destroy.                    *)
(***************************************************************************)
EXTENDS CodeGenerator, Execution

CONSTANTS Inputs,     \* values that the checks give to arguments and globals
          StackBytes, \* bound: the stack has this many bytes
          Fuel        \* bound: a run of the IR has 2^Fuel steps, of the text four times as many

Holds(op, a, b) ==
  CASE op \in {"beq", "beqz"} -> a = b
    [] op \in {"bne", "bnez"} -> a # b
    [] op \in {"blt", "bltz"} -> a < b
    [] op \in {"bge", "bgez"} -> a >= b
    [] op = "bgtz" -> a > b
    [] op = "blez" -> a <= b
    [] OTHER       -> TRUE      \* j

-------------------------------------------------------------------------------
\* A branch on Undefined has no meaning.
Transfer(m, line, a, b) ==
  IF line.op # "j" /\ (a = Undefined \/ b = Undefined) THEN Fault(m)
  ELSE IF ~ Holds(line.op, a, b) THEN [m EXCEPT !.pc = @ + 1]
  ELSE IF line = Ret THEN
    IF In(m, "ra") = 0 THEN [m EXCEPT !.status = "returned"]
    ELSE [m EXCEPT !.pc = In(m, "ra"),
                   !.regs = [r \in DOMAIN @ |-> IF r \in Destroyed \ {ArgRegs[1]} THEN Undefined ELSE @[r]]]
  ELSE [m EXCEPT !.pc = CHOOSE i \in DOMAIN asm : asm[i] = At(line.to)]

Perform(m) ==
  LET line == asm[m.pc]
  IN CASE line.op \in StraightOps -> Worked(ir, m, line)
       [] line.op = "call" ->
            [m EXCEPT !.regs["ra"] = m.pc + 1, !.pc = CHOOSE i \in DOMAIN asm : asm[i] = At(line.to)]
       [] OTHER -> Transfer(m, line, In(m, line.rs), In(m, line.rt))

\* At most 2^fuel lines.
RECURSIVE Operate(_, _)
Operate(m, fuel) ==
  IF m.status # "running" THEN m
  ELSE IF fuel = 0 THEN Perform(m)
  ELSE Operate(Operate(m, fuel - 1), fuel - 1)

-------------------------------------------------------------------------------
\* The caller's stack pointer, and what it has in the registers it relies on.
StackTop == 0

Caller ==
  [r \in ToSet(SavedRegs) \union {"s0"} |->
     IF r = "s0" THEN 5 ELSE 7 + (CHOOSE k \in DOMAIN SavedRegs : SavedRegs[k] = r)]

Entry(f, actuals, globals) ==
  [pc |-> CHOOSE i \in DOMAIN asm : asm[i] = At(<<"function", f>>),
   regs |-> [r \in Registers |->
               IF r \in DOMAIN Caller THEN Caller[r]
               ELSE IF r = "sp" THEN StackTop ELSE IF r = "ra" THEN 0
               ELSE IF \E k \in DOMAIN actuals : k <= Len(ArgRegs) /\ ArgRegs[k] = r
                    THEN actuals[CHOOSE k \in DOMAIN ArgRegs : ArgRegs[k] = r]
               ELSE Undefined],
   mem |-> [w \in {WordBytes * k : k \in (StackTop - StackBytes) \div WordBytes..Half \div WordBytes - 1} |->
              IF \E g \in GlobalsOf(ir) : w = GlobalAt(ir, g)
              THEN globals[CHOOSE g \in GlobalsOf(ir) : w = GlobalAt(ir, g)]
              ELSE IF w >= StackTop /\ Len(ArgRegs) + 1 + w \div WordBytes \in DOMAIN actuals
                   THEN actuals[Len(ArgRegs) + 1 + w \div WordBytes]
              ELSE Undefined],
   status |-> "running"]

\* What a call of f does for its caller.
CallOutcome(f, actuals, globals, fuel) ==
  LET m == Operate(Entry(f, actuals, globals), fuel)
  IN [status |-> m.status, value |-> In(m, ArgRegs[1]),
      globals |-> [g \in GlobalsOf(ir) |-> m.mem[GlobalAt(ir, g)]],
      restored |-> m.regs["sp"] = StackTop /\ \A r \in DOMAIN Caller : m.regs[r] = Caller[r]]

-------------------------------------------------------------------------------
\* Every function with every argument, and every value of the globals.
CallsOf ==
  UNION {{[func |-> g, actuals |-> xs, globals |-> gs] :
            xs \in [1..Len(Formals(ir, g)) -> Inputs], gs \in [GlobalsOf(ir) -> Inputs]} :
         g \in FunctionsOf(ir)}

\* What the IR computes, so does the text: the same value, the same globals,
\* and the caller's registers as it left them.
TextImplements ==
  Done =>
    \A c \in CallsOf :
      LET source == Outcome(ir, c.func, c.actuals, c.globals, FALSE, Fuel) IN
      source.status = "returned" =>
        \E text \in {CallOutcome(c.func, c.actuals, c.globals, Fuel + 2)} :
          Implements(text, source) /\ text.restored
===============================================================================
