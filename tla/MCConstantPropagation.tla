------------------------- MODULE MCConstantPropagation ------------------------
(***************************************************************************)
(* Pass 0 on the code that the IR generator produces for small programs: a *)
(* function with a parameter, two variables, a loop of two statements and  *)
(* two statements after it, over a global that somebody writes and one that *)
(* nobody does.  Every statement is drawn from a set that makes constants, *)
(* copies, uses of both, joins and calls.                                  *)
(***************************************************************************)
EXTENDS ConstantPropagation, Lowering

a == LocalVar("a")
b == LocalVar("b")
p == LocalVar("p")
g == GlobalVar(<<"g", 0>>)
c == GlobalVar(<<"c", 0>>)
f == <<"f", 0>>

Statements ==
  { Expr(Assign(a, b)),
    Expr(Assign(b, a)),
    Expr(Assign(a, Num(1))),
    Expr(Assign(b, Bin("ADD", a, c))),
    Expr(Assign(g, b)),
    Expr(Assign(a, g)),
    IfElse(a, Expr(Assign(b, Num(0))), Expr(Assign(b, a))),
    Expr(Assign(a, CallOf(f, << b >>))) }

Endings ==
  { Expr(Assign(g, b)),
    Expr(Assign(b, a)),
    IfElse(a, Expr(Assign(b, Num(0))), Expr(Assign(b, a))) }

Unit(first, body, after) ==
  << GlobalDecl(<<"g", 0>>, 0), GlobalDecl(<<"c", 0>>, 1),
     FuncDef(f, << "p" >>,
       << first, Decl("b", Num(1)),
          While(Bin("LT", p, Num(1)), Block(body \o << Expr(Assign(p, Bin("ADD", p, Num(1)))) >>)),
          after, Expr(Assign(a, p)),
          Return(Bin("ADD", a, b)) >>) >>

MCPrograms ==
  { Lower(Unit(Decl("a", Num(0)), << s, t >>, u)) :
      s \in Statements, t \in Statements, u \in Endings }

\* The hypothesis of PropagationTheorems!OperandsKept, for these programs: no
\* local is spelled like a global.
ASSUME MCProgramsSpeltApart == \A ir \in MCPrograms : SpeltApart(ir)

MCName ==
  {NoName, f, <<"g", 0>>, <<"c", 0>>, <<"p", 0>>, <<"p.", 0>>, <<"a.", 1>>, <<"b.", 2>>}
    \union ({"t", "L"} \X (0..9))

\* Two variables that one branch makes equal and the other swaps, one of them
\* not initialised before the loop.
SwapInLoop ==
  << FuncDef(f, << "p" >>,
       << Decl("a", Num(1)), Decl("b", NoExpr),
          While(Bin("LT", p, Num(1)), Block(<<
            IfElse(Bin("EQ", p, Num(0)),
              Block(<< Expr(Assign(a, Num(1))), Expr(Assign(b, Num(1))) >>),
              Block(<< Decl("s", a), Expr(Assign(a, b)), Expr(Assign(b, LocalVar("s"))) >>)),
            Expr(Assign(p, Bin("ADD", p, Num(1)))) >>)),
          Return(a) >>) >>

\* A global called t0, written while the temporary t0 holds p + 1.
GlobalLikeTemp ==
  LET t0 == GlobalVar(<<"t", 0>>) IN
  << GlobalDecl(<<"t", 0>>, 0),
     FuncDef(f, << "p" >>,
       << Return(Bin("ADD", Bin("ADD", p, Num(1)), Assign(t0, Num(1)))) >>) >>

DivergingPrograms == { Lower(SwapInLoop) }
SpellingPrograms == { Lower(GlobalLikeTemp) }
DivergingName == MCName \union {<<"s.", 3>>}
===============================================================================
