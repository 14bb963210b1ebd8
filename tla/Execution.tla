------------------------------- MODULE Execution ------------------------------
(***************************************************************************)
(* A run of a function of an IR program, and its outcome.                  *)
(***************************************************************************)
EXTENDS IRMachine

\* At most 2^fuel steps.
RECURSIVE Execute(_, _, _, _)
Execute(ir, m, fresh, fuel) ==
  IF m.status # "running" THEN m
  ELSE IF fuel = 0 THEN Step(ir, m, fresh)
  ELSE LET half == Execute(ir, m, fresh, fuel - 1)
       IN Execute(ir, half, fresh, fuel - 1)

Outcome(ir, f, actuals, globals, fresh, fuel) ==
  LET m == Execute(ir, Start(ir, f, actuals, globals), fresh, fuel)
  IN [status |-> m.status, value |-> m.value, globals |-> m.globals]
===============================================================================
