------------------------------ MODULE MCOptimizer -----------------------------
(***************************************************************************)
(* The optimiser on the code generated for small programs: a function f    *)
(* with a parameter and a function h that calls it, over a global that     *)
(* they read and write.                                                    *)
(***************************************************************************)
EXTENDS Optimizer, Lowering

a == LocalVar("a")
b == LocalVar("b")
p == LocalVar("p")
x == LocalVar("x")
g == GlobalVar(<<"g", 0>>)

Plus(u, v) == Bin("ADD", u, v)
Set(v, e) == Expr(Assign(v, e))
F(e) == CallOf(<<"f", 0>>, << e >>)

Unit(callee, caller) ==
  << GlobalDecl(<<"g", 0>>, 0),
     FuncDef(<<"f", 0>>, << "x" >>, callee),
     FuncDef(<<"h", 0>>, << "p" >>, caller) >>

\* What f does before it returns: repeated and long computations, remainders,
\* an effect, a second exit, a loop with two exits, a branch on a constant.
Inside ==
  { Set(b, Plus(x, Num(1))),
    Set(x, Bin("MOD", x, Num(3))),
    Set(g, Plus(Plus(g, Num(1)), Num(1))),
    If(x, Return(g)),
    While(Bin("LT", x, Num(1)), Block(<< Set(x, Plus(x, Num(1))), If(Bin("EQ", x, g), Break) >>)),
    IfElse(Num(1), Set(b, Plus(x, b)), Set(x, b)) }

CalleeBodies ==
  { << Decl("b", Num(1)), s, t, Return(Bin("SUB", b, Plus(x, Num(1)))) >> : s \in Inside, t \in Inside }

\* What h does: it uses results in expressions, conditions and a loop, as an
\* argument, and not at all.
Callers ==
  { << Decl("a", F(p)), Set(a, Plus(a, p)), Set(g, p), Return(Plus(a, g)) >>,
    << Return(Bin("SUB", F(p), F(Plus(p, Num(1))))) >>,
    << While(Bin("LT", p, Num(1)), Block(<< Set(p, Plus(p, Num(1))), Set(g, F(p)) >>)), Return(g) >>,
    << Decl("a", And(p, F(p))), Return(Or(a, g)) >>,
    << Expr(F(Num(2))), Return(Bin("SUB", g, p)) >>,
    << Return(F(F(p))) >> }

\* Bodies that grow small only when they are optimised, called twice.
LateUnits ==
  {Unit(<< Decl("b", Num(1)), s, t, Return(Bin("SUB", b, Plus(x, Num(1)))) >>, u) :
     s \in Inside \ {If(x, Return(g))}, t \in Inside \ {If(x, Return(g))},
     u \in { << Decl("a", F(p)), Set(a, Plus(a, F(a))), Return(Plus(a, g)) >>,
            << While(Bin("LT", p, Num(1)), Block(<< Set(p, Plus(p, Num(1))), Set(g, F(F(p))) >>)), Return(g) >> }}

\* A result that is stored in the global and used afterwards.
StoredResult ==
  {Generated(Unit(<< Return(Plus(x, Num(1))) >>, << Decl("a", F(p)), Set(g, a), Return(Plus(a, p)) >>))}

\* An argument that the callee overwrites.
GlobalArgument ==
  {Generated(Unit(<< Set(g, Num(2)), Return(x) >>, << Return(F(g)) >>))}

\* Two exits, the second of which is the last that pruning leaves.
PrunedReturn ==
  {Generated(Unit(<< IfElse(Num(1), Set(g, x), Set(g, Plus(x, x))), If(Bin("EQ", x, Num(2)), Return(g)), Return(Num(1)) >>,
                  << Return(F(F(p))) >>))}

\* A first call is expanded at once, the others when f has become smaller.
SharedLocal ==
  {Generated(Unit(<< Decl("b", Plus(x, g)), Set(b, Bin("SUB", Plus(b, b), x)), Return(b) >>,
                  << Set(g, p), Decl("a", F(Num(1))), Set(a, F(a)), Return(F(a)) >>))}

MCInputs == {-1, 2}

MCSources == {Generated(Unit(s, t)) : s \in CalleeBodies, t \in Callers}
===============================================================================
