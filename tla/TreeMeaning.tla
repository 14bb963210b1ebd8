------------------------------- MODULE TreeMeaning ------------------------------
(***************************************************************************)
(* What a program means as a syntax tree, as C has it for this subset: the *)
(* specification that analysis and IR generation are to implement.  It     *)
(* keeps no table and emits no code: an environment says what each visible *)
(* name stands for, a store what each variable holds.                      *)
(*                                                                         *)
(* The operands of an operator and the arguments of a call may be computed *)
(* in any order, so an expression has a set of results.  A result is       *)
(* "fine"; "anything" if C leaves it open what happens (a division by      *)
(* zero, a branch on a variable that has no value, a run beyond the bound  *)
(* on loops and calls); or "wrong" if the program should not have been     *)
(* accepted: a name that stands for nothing, a constant assigned to, a     *)
(* value that is none, a wrong number of arguments.                        *)
(***************************************************************************)
EXTENDS SemanticAnalysis, Execution

CONSTANT NoValue  \* what a void call returns

Stand(kind, at) == [kind |-> kind, at |-> at]
NoEnv == [n \in Identifiers |-> Stand("nothing", 0)]
Binds(env, n, kind, at) == [env EXCEPT ![n] = Stand(kind, at)]

\* A store: the cells of the globals, then those of the locals.
Fine(cells, fuel) == [cells |-> cells, fuel |-> fuel, fate |-> "fine"]
Result1(v, s)   == [val |-> v, store |-> s]
Fated(fate, s)  == {Result1(NoValue, [s EXCEPT !.fate = fate])}
NewCell(s, v)   == [s EXCEPT !.cells = Append(@, v)]
Wrote(s, at, v) == [s EXCEPT !.cells[at] = v]

\* Go on with each result, unless its fate is sealed.
Each(results, F(_)) ==
  UNION {IF r.store.fate = "fine" THEN F(r) ELSE {r} : r \in results}

\* Only results that are values.
Valued(results) ==
  Each(results, LAMBDA r : IF r.val = NoValue THEN Fated("wrong", r.store) ELSE {r})

\* A condition must have a value.
Decided(results) ==
  Each(Valued(results), LAMBDA r : IF r.val = Undefined THEN Fated("anything", r.store) ELSE {r})

Function(unit, f) == {i \in DOMAIN unit : unit[i].node = "funcdef" /\ unit[i].name = f}

RECURSIVE Eval(_, _, _, _), AllOf(_, _, _, _, _, _), Exec(_, _, _, _), GlobalEnv(_, _)

Operation(op, u, v, s) ==
  IF op \in {"DIV", "MOD"} /\ v \in {0, Undefined} THEN Fated("anything", s)
  ELSE {Result1(Result(op, u, v), s)}

\* The values of the expressions es, computed in any order.
AllOf(unit, env, s, es, left, got) ==
  IF left = {} THEN {Result1(got, s)}
  ELSE UNION {Each(Valued(Eval(unit, env, s, es[i])),
                   LAMBDA r : AllOf(unit, env, r.store, es, left \ {i}, [got EXCEPT ![i] = r.val])) :
              i \in left}

Values(unit, env, s, es) == AllOf(unit, env, s, es, DOMAIN es, [i \in DOMAIN es |-> 0])

\* The body sees the globals declared in front of it and its arguments; its
\* variables are gone when it returns.
CallFunction(unit, k, actuals, s) ==
  LET f == unit[k]
      Env[i \in 0..Len(f.params)] ==
        IF i = 0 THEN GlobalEnv(unit, k - 1)
        ELSE Binds(Env[i - 1], f.params[i], "variable", Len(s.cells) + i)
      ends == Exec(unit, Env[Len(f.params)],
                   [s EXCEPT !.cells = @ \o actuals, !.fuel = @ - 1], f.body)
  IN IF s.fuel = 0 THEN Fated("anything", s)
     ELSE {Result1(CASE f.void -> NoValue [] e.how = "return" -> e.val [] OTHER -> Undefined,
                   [e.store EXCEPT !.cells = SubSeq(@, 1, Len(s.cells)), !.fuel = s.fuel,
                                   !.fate = IF e.how \in {"break", "continue"} THEN "wrong" ELSE @]) :
           e \in ends}

Eval(unit, env, s, e) ==
  CASE e.node = "num" -> {Result1(e.val, s)}
    [] e.node = "var" ->
         CASE env[e.name].kind = "variable" -> {Result1(s.cells[env[e.name].at], s)}
           [] env[e.name].kind = "constant" -> {Result1(env[e.name].at, s)}
           [] OTHER -> Fated("wrong", s)
    [] e.node = "bin" ->
         Each(Values(unit, env, s, << e.lhs, e.rhs >>),
              LAMBDA r : Operation(e.op, r.val[1], r.val[2], r.store))
    [] e.node \in {"and", "or"} ->
         Each(Decided(Eval(unit, env, s, e.lhs)),
              LAMBDA l : IF (l.val = 0) <=> (e.node = "and") THEN {Result1(Truth(l.val # 0), l.store)}
                         ELSE Each(Decided(Eval(unit, env, l.store, e.rhs)),
                                   LAMBDA r : {Result1(Truth(r.val # 0), r.store)}))
    [] e.node = "assign" ->
         IF e.lhs.node # "var" THEN Fated("wrong", s)
         ELSE IF env[e.lhs.name].kind # "variable" THEN Fated("wrong", s)
         ELSE Each(Valued(Eval(unit, env, s, e.rhs)),
                   LAMBDA r : {Result1(r.val, Wrote(r.store, env[e.lhs.name].at, r.val))})
    [] e.node \in {"pos", "neg", "not"} ->
         Each(Valued(Eval(unit, env, s, e.arg)),
              LAMBDA r : CASE e.node = "pos" -> {r}
                           [] e.node = "neg" -> Operation("SUB", 0, r.val, r.store)
                           [] e.node = "not" -> Operation("NOT", r.val, 0, r.store))
    [] e.node = "call" ->
         IF Function(unit, e.func) = {} THEN Fated("wrong", s)
         ELSE LET k == CHOOSE i \in Function(unit, e.func) : TRUE IN
              IF Len(unit[k].params) # Len(e.args) THEN Fated("wrong", s)
              ELSE Each(Values(unit, env, s, e.args),
                        LAMBDA r : CallFunction(unit, k, r.val, r.store))

-------------------------------------------------------------------------------
\* How a statement ends: "next", "break", "continue" or "return".
Ended(how, v, s, env) == [how |-> how, val |-> v, store |-> s, env |-> env]

\* A declaration is visible behind its initialiser.
Declare(unit, env, s, d) ==
  LET inits == IF d.init.node = "none" THEN {Result1(Undefined, s)}
               ELSE Valued(Eval(unit, env, s, d.init))
  IN {IF r.store.fate # "fine" THEN Ended("next", 0, r.store, env)
      ELSE IF d.const THEN Ended("next", 0, r.store, Binds(env, d.name, "constant", r.val))
      ELSE Ended("next", 0, NewCell(r.store, r.val),
                 Binds(env, d.name, "variable", Len(r.store.cells) + 1)) : r \in inits}

\* A block ends in the environment in which it began.
Leaving(ends, env) == {[e EXCEPT !.env = env] : e \in ends}

Loop(unit, env, s, w) ==
  IF s.fuel = 0 THEN {Ended("next", 0, r.store, env) : r \in Fated("anything", s)}
  ELSE UNION {
    IF c.store.fate # "fine" \/ c.val = 0 THEN {Ended("next", 0, c.store, env)}
    ELSE UNION {
      CASE b.store.fate # "fine" -> {Ended("next", 0, b.store, env)}
        [] b.how = "break" -> {Ended("next", 0, b.store, env)}
        [] b.how = "return" -> {[b EXCEPT !.env = env]}
        [] OTHER -> Exec(unit, env, [b.store EXCEPT !.fuel = @ - 1], << w >>) :
      b \in Exec(unit, env, c.store, << w.body >>)} :
    c \in Decided(Eval(unit, env, s, w.cond))}

One(unit, env, s, t) ==
  CASE t.node = "block" -> Leaving(Exec(unit, env, s, t.stmts), env)
    [] t.node = "expr" -> {Ended("next", 0, r.store, env) : r \in Eval(unit, env, s, t.expr)}
    [] t.node = "vardecl" -> Declare(unit, env, s, t)
    [] t.node \in {"if", "ifelse"} ->
         UNION {IF c.store.fate # "fine" THEN {Ended("next", 0, c.store, env)}
                ELSE IF c.val # 0 THEN Leaving(Exec(unit, env, c.store, << t.then >>), env)
                ELSE IF t.node = "ifelse" THEN Leaving(Exec(unit, env, c.store, << t.else >>), env)
                ELSE {Ended("next", 0, c.store, env)} :
                c \in Decided(Eval(unit, env, s, t.cond))}
    [] t.node = "while" -> Loop(unit, env, s, t)
    [] t.node \in {"break", "continue"} -> {Ended(t.node, 0, s, env)}
    [] t.node = "return" ->
         IF t.value.node = "none" THEN {Ended("return", NoValue, s, env)}
         ELSE {Ended("return", r.val, r.store, env) : r \in Valued(Eval(unit, env, s, t.value))}

Exec(unit, env, s, ss) ==
  IF ss = << >> THEN {Ended("next", 0, s, env)}
  ELSE UNION {IF e.how # "next" \/ e.store.fate # "fine" THEN {e}
              ELSE Exec(unit, e.env, e.store, Tail(ss)) : e \in One(unit, env, s, Head(ss))}

-------------------------------------------------------------------------------
\* The variables among the first k declarations; variable i of the program is
\* cell i.
Variables(unit, k) == {i \in 1..k : unit[i].node = "vardecl" /\ ~ unit[i].const}
CellOf(unit, i) == Cardinality(Variables(unit, i))

\* The value of a constant expression, outside functions.
Initial(unit, k) ==
  IF unit[k].init.node = "none" THEN 0
  ELSE (CHOOSE r \in Eval(unit, GlobalEnv(unit, k - 1), Fine(<< >>, 0), unit[k].init) : TRUE).val

GlobalEnv(unit, k) ==
  IF k = 0 THEN NoEnv
  ELSE LET d == unit[k]
           env == GlobalEnv(unit, k - 1)
       IN CASE d.node = "funcdef" -> env
            [] d.const -> Binds(env, d.name, "constant", Initial(unit, k))
            [] OTHER   -> Binds(env, d.name, "variable", CellOf(unit, k))

\* What a call of the k-th declaration may come to.
TreeOutcomes(unit, k, actuals, cells, fuel) ==
  {[fate |-> r.store.fate, value |-> IF r.val = NoValue THEN Undefined ELSE r.val,
    cells |-> r.store.cells] : r \in CallFunction(unit, k, actuals, Fine(cells, fuel))}
===============================================================================
