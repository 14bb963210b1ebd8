-------------------------------- MODULE FrontEnd -------------------------------
(***************************************************************************)
(* compileSource (main.cpp) from the tree to the code, one global          *)
(* declaration at a time: analyze collects the functions and then walks    *)
(* every declaration; without errors generate lowers the annotated tree.   *)
(* What comes out is compared with what the tree means.                    *)
(***************************************************************************)
EXTENDS TreeMeaning

CONSTANTS Programs,  \* syntax trees
          Inputs,    \* values for arguments and globals
          TreeFuel,  \* rounds and calls that the meaning of a tree goes through
          Fuel       \* the code runs at most 2^Fuel instructions

VARIABLES unit,   \* the tree of the parser
          stage,  \* "collect", "analyze", "generate", "done" or "refused"
          next,   \* the declaration that comes next
          table,  \* symTable
          errors,
          tree,   \* the declarations annotated so far
          gen     \* the generator

vars == <<unit, stage, next, table, errors, tree, gen>>

Init ==
  /\ unit \in Programs
  /\ stage = "collect" /\ next = 1
  /\ table = NewTable /\ errors = {}
  /\ tree = << >> /\ gen = Fresh

-------------------------------------------------------------------------------
InUnit == next <= Len(unit)

\* collectGlobals, for one declaration: functions are known before their
\* definitions, variables are not.
CollectGlobal ==
  /\ stage = "collect" /\ InUnit
  /\ LET d == unit[next] IN
     IF d.node # "funcdef" THEN UNCHANGED <<table, errors>>
     ELSE IF LookUpFunction(table, d.name[1]) # NoSymbol
     THEN errors' = errors \cup {"function defined twice"} /\ UNCHANGED table
     ELSE table' = BindTop(table, d.name[1], FunctionSymbol(d)) /\ UNCHANGED errors
  /\ next' = next + 1
  /\ UNCHANGED <<unit, stage, tree, gen>>

SecondPass ==
  /\ stage = "collect" /\ ~ InUnit
  /\ stage' = "analyze" /\ next' = 1
  /\ UNCHANGED <<unit, table, errors, tree, gen>>

AnalyzeGlobal ==
  /\ stage = "analyze" /\ InUnit
  /\ LET w == AnalyzeGlobalDecl(table, unit[next]) IN
     /\ table' = w.table
     /\ tree' = Append(tree, w.stmt)
     /\ errors' = errors \cup w.errors
  /\ next' = next + 1
  /\ UNCHANGED <<unit, stage, gen>>

Refuse ==
  /\ stage = "analyze" /\ ~ InUnit /\ errors # {}
  /\ stage' = "refused"
  /\ UNCHANGED <<unit, next, table, errors, tree, gen>>

Accept ==
  /\ stage = "analyze" /\ ~ InUnit /\ errors = {}
  /\ stage' = "generate" /\ next' = 1
  /\ UNCHANGED <<unit, table, errors, tree, gen>>

\* genGlobalDecl; a constant has become Nothing.
GenerateGlobal ==
  /\ stage = "generate" /\ InUnit
  /\ gen' = IF tree[next] = Nothing THEN gen ELSE GenGlobal(gen, tree[next])
  /\ next' = next + 1
  /\ UNCHANGED <<unit, stage, table, errors, tree>>

Finish ==
  /\ stage = "generate" /\ ~ InUnit
  /\ stage' = "done"
  /\ UNCHANGED <<unit, next, table, errors, tree, gen>>

Next == CollectGlobal \/ SecondPass \/ AnalyzeGlobal \/ Refuse \/ Accept \/ GenerateGlobal \/ Finish

Spec == Init /\ [][Next]_vars

-------------------------------------------------------------------------------
\* The code of an accepted program.
Code == gen.code
FunctionDefs == {k \in DOMAIN unit : unit[k].node = "funcdef"}
VariableDefs == Variables(unit, Len(unit))
CellsWith(v) == [i \in 1..Cardinality(VariableDefs) |-> v]

\* The globals of the code that hold what the cells hold.
InCode(cells) ==
  [n \in GlobalsOf(Code) |-> cells[CellOf(unit, CHOOSE i \in VariableDefs : <<unit[i].name, 0>> = n)]]

Calls ==
  {[f |-> k, actuals |-> v, cells |-> c] :
     k \in FunctionDefs, v \in UNION {[1..n -> Inputs] : n \in 0..2},
     c \in [1..Cardinality(VariableDefs) -> Inputs]}
Sensible(call) == Len(call.actuals) = Len(unit[call.f].params)

Allows(t, o) ==
  t.fate = "fine" =>
    /\ o.status = "returned"
    /\ t.value \in {Undefined, o.value}
    /\ \A i \in VariableDefs :
         t.cells[CellOf(unit, i)] \in {Undefined, o.globals[<<unit[i].name, 0>>]}

\* The tables, the tree and the generator keep their shape: outside a
\* function only the global scope is open, in both walks, and no loop is.
TypeOK ==
  /\ stage \in {"collect", "analyze", "generate", "done", "refused"}
  /\ next \in 1..(Len(unit) + 1)
  /\ Len(table) = 1
  /\ Len(tree) = (CASE stage = "collect" -> 0 [] stage = "analyze" -> next - 1 [] OTHER -> Len(unit))
  /\ gen.scopes = << >> /\ gen.loops = << >>
  /\ gen.code # << >> => stage \in {"generate", "done"} /\ errors = {}

\* A program without an error never comes, in any order of evaluation and for
\* any arguments, to a name that stands for nothing, to a value that is none,
\* to a constant on the left of =, to a call with too few arguments: what the
\* checks of analyzeExpr, analyzeStmt and analyzeDecl are for.
AcceptedDoesNotGoWrong ==
  stage = "done" =>
    \A c \in {d \in Calls : Sensible(d)} :
      \A t \in TreeOutcomes(unit, c.f, c.actuals, c.cells, TreeFuel) : t.fate # "wrong"

\* The code of genFuncDef returns what the tree may return and leaves what the
\* tree may leave, for one order of evaluation; and globals start with the
\* values of their initialisers (genDecl).
TreeImplemented ==
  stage = "done" =>
    /\ \A c \in {d \in Calls : Sensible(d)} :
         LET o == Outcome(Code, unit[c.f].name, c.actuals, InCode(c.cells), TRUE, Fuel)
         IN \E t \in TreeOutcomes(unit, c.f, c.actuals, c.cells, TreeFuel) : Allows(t, o)
    /\ \A i \in VariableDefs : \E k \in DOMAIN Code :
         Code[k] = Inst("GLOBAL_VAR_DECL", Global(<<unit[i].name, 0>>), Imm(Initial(unit, i)), None)
===============================================================================
