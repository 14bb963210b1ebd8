------------------------------- MODULE MCFrontEnd ------------------------------
(***************************************************************************)
(* Analysis and generation on small programs: a constant c, a global g, a  *)
(* function f that changes g, a void function v, a difference m, and a     *)
(* function h.                                                             *)
(***************************************************************************)
EXTENDS FrontEnd

MCIdentifiers == {"c", "g", "f", "v", "m", "h", "p", "x", "k"}

c == Var("c")
g == Var("g")
p == Var("p")
x == Var("x")
k == Var("k")
F(e) == CallOf(<<"f", 0>>, << e >>)
V == CallOf(<<"v", 0>>, << >>)
M(l, r) == CallOf(<<"m", 0>>, << l, r >>)
Plus(l, r) == Bin("ADD", l, r)
IntVar(n, e) == VarDecl("int", n, e)
Set(l, r) == Expr(Assign(l, r))

Unit(body) ==
  << ConstDecl("c", Neg(Bin("SUB", Num(1), Num(3)))),
     IntVar("g", Bin("SUB", c, Num(5))),
     FuncDef(<<"f", 0>>, << "x" >>, << Set(g, Plus(g, x)), If(Bin("LT", g, c), Return(g)), Return(c) >>),
     VoidDef(<<"v", 0>>, << >>, << If(g, Return(NoExpr)), Set(g, c) >>),
     FuncDef(<<"m", 0>>, << "x", "p" >>, << Return(Bin("SUB", x, p)) >>),
     FuncDef(<<"h", 0>>, << "p" >>, body) >>

\* What an expression is made of; every operator of every two of them.
Atoms == { Num(0), c, p, g, F(p), Neg(g), Pos(c), Not(p), And(g, F(p)), Or(F(c), p) }
Changing == Assign(p, F(g))
Expressions ==
  {Bin(op, l, r) : op \in {"ADD", "SUB", "MUL", "DIV", "MOD", "LT", "GE", "EQ"},
                   l \in Atoms, r \in Atoms \cup {Changing}}
    \cup {M(l, r) : l \in Atoms, r \in Atoms \cup {Changing}}
    \cup UNION {{And(l, r), Or(l, r)} : l \in Atoms \cup {Changing}, r \in Atoms \cup {Changing}}

\* Declarations that hide, blocks, loops, early exits, calls in conditions.
Statements ==
  { IntVar("k", Plus(x, Num(1))),
    Block(<< IntVar("x", p), Set(x, Plus(x, Num(1))), Set(g, x) >>),
    Block(<< ConstDecl("x", Plus(c, Num(1))), Set(p, x), Block(<< IntVar("k", F(x)), Set(g, k) >>) >>),
    While(Bin("LT", x, Num(3)),
          Block(<< Set(x, Plus(x, Num(1))), If(Bin("EQ", x, p), Continue), Set(g, Plus(g, x)) >>)),
    While(F(Num(1)), Block(<< If(Bin("LT", g, Num(0)), Return(g)), Break >>)),
    IfElse(Bin("LT", p, x), Block(<< Expr(V) >>), Set(x, Assign(g, F(p)))),
    If(Or(x, Assign(p, c)), Block(<< IntVar("k", x), Set(x, k) >>)),
    Expr(F(M(p, F(x)))) }

Ending == Return(Plus(x, Bin("MUL", g, p)))
StatementBodies ==
  {<< IntVar("x", c), s, t, Ending >> : s \in Statements, t \in Statements \ {IntVar("k", Plus(x, Num(1)))}}
    \cup {<< IntVar("x", c), IntVar("k", Num(0)),
             While(Bin("LT", k, Num(2)), Block(<< Set(k, Plus(k, Num(1))), Block(<< s, t >>) >>)), Ending >> :
          s \in Statements, t \in Statements \ {IntVar("k", Plus(x, Num(1)))}}

\* One error each, at a place where the walk must not have lost its way.
Errors ==
  { Expr(k), Expr(CallOf(<<"x", 0>>, << >>)), Expr(CallOf(<<"f", 0>>, << >>)), Expr(CallOf(<<"k", 0>>, << k >>)),
    Set(c, p), Set(Num(1), p), Expr(Neg(V)), Expr(Plus(V, p)), Expr(And(p, V)), IntVar("k", V), Return(V),
    Return(NoExpr), Break, Continue, IntVar("x", p), ConstDecl("k", p), ConstDecl("k", Bin("DIV", c, Num(0))),
    Block(<< IntVar("k", p), IntVar("k", p) >>) }
ErrorBodies == {<< IntVar("x", c), s, e, Return(x) >> : s \in Statements \ {IntVar("k", Plus(x, Num(1)))}, e \in Errors}

ErrorUnits ==
  { << IntVar("g", Num(1)), IntVar("g", Num(2)) >>,
    << IntVar("g", Num(1)), ConstDecl("c", g) >>,
    << IntVar("g", Var("k")), IntVar("k", Num(1)) >>,
    << FuncDef(<<"f", 0>>, << "x", "x" >>, << >>) >>,
    << FuncDef(<<"f", 0>>, << >>, << >>), FuncDef(<<"f", 0>>, << >>, << >>) >>,
    << IntVar("f", Num(1)), FuncDef(<<"f", 0>>, << >>, << >>) >>,
    << VoidDef(<<"v", 0>>, << >>, << Return(Num(1)) >>) >> }

MCPrograms ==
  {Unit(<< Return(e) >>) : e \in Expressions} \cup {Unit(b) : b \in StatementBodies \cup ErrorBodies} \cup ErrorUnits

MCInputs == {-3, 2}

-------------------------------------------------------------------------------
\* A value that is none is assigned to a variable.
VoidValue == {Unit(<< IntVar("x", Num(0)), Set(x, V), Return(x) >>)}

\* ... is an argument, or a condition.
VoidArgument  == {Unit(<< Return(F(V)) >>)}
VoidCondition == {Unit(<< If(V, Return(Num(1))), Return(p) >>)}

\* A function is an operand.
FunctionName == {Unit(<< Return(Plus(Var("f"), p)) >>)}

\* A declaration that is a branch by itself is visible behind it.
BareBranch == {Unit(<< If(p, IntVar("x", Num(1))), Return(x) >>)}

\* A variable that is initialised with one that it hides.
OwnInitialiser ==
  {Unit(<< IntVar("x", Num(1)), Block(<< IntVar("x", Plus(x, Num(1))), Set(g, x) >>), Return(x) >>)}

\* The value of an assignment, read after a call that changes the variable.
AssignedThenCalled == {Unit(<< Return(Plus(Assign(g, p), F(Num(1)))) >>)}
===============================================================================
