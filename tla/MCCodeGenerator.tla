---------------------------- MODULE MCCodeGenerator ----------------------------
(***************************************************************************)
(* The code generator on optimised code of small programs, shaped as       *)
(* --emit-ir prints it: a leaf f with two parameters, a leaf h with three, *)
(* the third of which comes on the stack, and a function r that calls them *)
(* and itself, over a global.                                              *)
(***************************************************************************)
EXTENDS TargetMachine

Var(name) == Local(<<name, 0>>)
Temp(k) == Local(<<"t", k>>)
g == Global(<<"g", 0>>)
F == <<"f", 0>>
H == <<"h", 0>>
Rec == <<"r", 0>>

a == Var("a.")
b == Var("b.")
c == Var("c.")
i == Var("i.")
s == Var("s.")
y == Var("y.")

Do(op, dest, x, z) == Inst(op, dest, x, z)
Set(dest, x) == Inst("ASSIGN", dest, x, None)
Declare(x) == Inst("LOCAL_VAR_DECL", x, None, None)
Back(x) == Inst("RETURN", x, None, None)
Go(k) == Inst("BRANCH", Label(<<"L", k>>), None, None)
Unless(x, k) == Inst("BEQZ", Label(<<"L", k>>), x, None)
When(x, k) == Inst("BNEZ", Label(<<"L", k>>), x, None)
Here(k) == Inst("LABEL", Label(<<"L", k>>), None, None)
Pass(x, k) == Inst("PARAM", x, Imm(k), None)
Calling(dest, func) == Inst("CALL", dest, Func(func), None)

Function(func, formals, body) ==
  << Inst("FUNC_BEGIN", Func(func), None, None) >>
    \o [k \in DOMAIN formals |-> Inst("LOCAL_VAR_DECL", formals[k], Param(formals[k].name), None)]
    \o body
    \o << Back(Imm(0)), Inst("FUNC_END", Func(func), None, None) >>

Unit(functionTexts) == << Inst("GLOBAL_VAR_DECL", g, Imm(1), None) >> \o FlattenSeq(functionTexts)

\* while (i < limit) { body; i = i + 1; }, with labels from k on.
Loop(k, limit, body) ==
  << Declare(i), Set(i, Imm(0)), Go(k), Here(k + 1) >> \o body
    \o << Do("ADD", i, i, Imm(1)), Here(k), Do("LT", Temp(k), i, limit), When(Temp(k), k + 1), Here(k + 2) >>

\* if (a < b) return b;
Guarded(k) == << Do("LT", Temp(k), a, b), Unless(Temp(k), k), Back(b), Here(k) >>

-------------------------------------------------------------------------------
\* What f does to s, which it returns, and to the global.  k numbers labels
\* and temporaries.
Pieces(k) ==
  { << Do("ADD", g, g, a), Do("MUL", Temp(k), g, Imm(6)), Do("ADD", s, s, Temp(k)) >>,
    << Do("GE", Temp(k), b, Imm(2)), Unless(Temp(k), k), Do("SUB", g, g, b), Here(k) >>,
    << Do("DIV", Temp(k), s, Imm(3)), Do("MUL", Temp(k), Temp(k), Imm(3)), Do("SUB", s, s, Temp(k)) >>,
    << Set(y, s), Do("EQ", Temp(k), y, a), Unless(Temp(k), k), Do("ADD", y, y, Imm(1)), Here(k), Set(s, y) >>,
    << Set(y, s), Unless(a, k), Do("NE", s, s, b), Here(k), Do("SUB", s, y, s) >>,
    Loop(k, b, << Do("MUL", Temp(k + 1), s, Imm(11)), Do("MOD", s, Temp(k + 1), Imm(40)) >>),
    Loop(k, Imm(2), << Do("MOD", s, i, Imm(5)), Do("ADD", s, s, Imm(5)), Do("MOD", s, s, Imm(5)),
                       Do("ADD", Temp(k + 1), i, Imm(3)), Do("DIV", Temp(k + 1), Temp(k + 1), Imm(4)),
                       Do("ADD", s, s, Temp(k + 1)) >>) }

LeafBodies ==
  {Guarded(1) \o << Declare(y), Declare(s), Set(s, b) >> \o p \o q \o << Do("SUB", Temp(9), s, a), Back(Temp(9)) >> :
     p \in Pieces(10), q \in Pieces(20)}

StackParameter ==
  Function(H, << a, b, c >>, Guarded(4) \o << Do("SUB", Temp(5), a, b), Do("ADD", Temp(5), Temp(5), c), Back(Temp(5)) >>)

\* if (a < 1) return b; and then: a call of each in a loop, calls with values
\* that live across them, tail calls.
Callers ==
  {<< Do("LT", Temp(30), a, Imm(1)), Unless(Temp(30), 30), Back(b), Here(30) >> \o p :
     p \in
       { << Do("SUB", Temp(31), a, Imm(1)), Pass(Temp(31), 0), Pass(g, 1), Calling(Temp(32), Rec), Back(Temp(32)) >>,
         << Do("SUB", Temp(31), a, Imm(1)), Pass(Temp(31), 0), Pass(b, 1), Calling(Temp(32), Rec),
            Pass(Temp(32), 0), Pass(a, 1), Pass(Imm(40), 2), Calling(Temp(33), H),
            Do("ADD", Temp(32), Temp(32), Temp(33)), Do("SUB", Temp(32), Temp(32), b), Back(Temp(32)) >>,
         << Declare(s), Set(s, Imm(0)) >>
           \o Loop(34, a, << Pass(i, 0), Pass(s, 1), Pass(b, 2), Calling(Temp(38), H),
                             Do("MUL", Temp(38), Temp(38), Imm(40)), Do("ADD", s, s, Temp(38)) >>)
           \o << Do("SUB", Temp(39), s, b), Back(Temp(39)) >> }}

\* The text of a function depends on no other function: every leaf has a caller
\* that jumps to it, and the other callers share one leaf.
Whole(p, q) == Unit(<< Function(F, << a, b >>, p), StackParameter, Function(Rec, << a, b >>, q) >>)
MCPrograms ==
  {Whole(p, << Pass(b, 0), Pass(a, 1), Calling(Temp(32), F), Back(Temp(32)) >>) : p \in LeafBodies}
    \union {Whole(Guarded(1) \o << Back(a) >>, q) : q \in Callers}

-------------------------------------------------------------------------------
\* A function that combines its argument or the global with a constant, for a
\* value or a branch.  Left out are the constants that the optimiser
\* removes, and what the runs below are about.
Trivial(op, v) ==
  \/ op \in {"MUL", "DIV", "MOD"} /\ v \in {0, 1}
  \/ op \in {"ADD", "SUB"} /\ v = 0
OutOfRange(op, v) == (op = "SUB" /\ v = -ImmHalf) \/ (op = "LE" /\ v = ImmHalf - 1)
Constants(op) == {v \in Word : ~ Trivial(op, v) /\ ~ OutOfRange(op, v)}

Branching(op, x, v) == << Do(op, Temp(1), x, Imm(v)), Unless(Temp(1), 1), Back(Imm(3)), Here(1), Back(x) >>

OfArgument ==
  UNION {{<< Do(op, Temp(1), a, Imm(v)), Back(Temp(1)) >> : v \in Constants(op)} : op \in BinaryOps}
    \union UNION {{<< Do(op, Temp(1), Imm(v), a), Back(Temp(1)) >> : v \in Word \ {0}} : op \in {"SUB", "LT", "EQ"}}
    \union UNION {{Branching(op, a, v) : v \in Constants(op)} : op \in RelationOps \ {"GE"}}

OfGlobal == UNION {{<< Do(op, g, g, Imm(v)) >> : v \in Constants(op)} : op \in ArithmeticOps}

ConstantPrograms ==
  {Function(F, << a >>, p) : p \in OfArgument} \union {Unit(<< Function(F, << >>, p) >>) : p \in OfGlobal}

-------------------------------------------------------------------------------
\* g = g + b; return g;  b is read once.
EntryLoad ==
  {Unit(<< Function(F, << a, b >>, << Do("ADD", g, g, b), Back(g) >>) >>)}

\* s = a == b; if (s) { h(a); return s; } return 9;
UsedComparison ==
  {Unit(<< Function(F, << a, b >>,
             << Declare(s), Do("EQ", s, a, b), Unless(s, 1), Pass(a, 0), Calling(Temp(2), H), Back(s),
                Here(1), Back(Imm(9)) >>),
           Function(H, << a >>, << Back(a) >>) >>)}

\* if (a >= 5) return 1; return 0;
FarBelow ==
  {Unit(<< Function(F, << a >>, << Do("GE", Temp(1), a, Imm(5)), Unless(Temp(1), 1), Back(Imm(1)), Here(1), Back(Imm(0)) >>) >>)}

\* return a <= 2047;
LargestImmediate ==
  {Unit(<< Function(F, << a >>, << Do("LE", Temp(1), a, Imm(ImmHalf - 1)), Back(Temp(1)) >>) >>)}

\* Loops.  s adds up (i + 2147483647) / 4; b, which is b = i % 8, b = b + 8,
\* y = b % 8; and ((y % 4096) + 4096) % 4096, with a call.
Sum(body) ==
  {Unit(<< Function(F, << a >>,
             << Declare(s), Set(s, Imm(0)), Declare(b), Set(b, Imm(0)) >> \o Loop(1, a, body) \o << Back(s) >>),
           Function(H, << a >>, << Back(a) >>) >>)}

SumThatWraps ==
  Sum(<< Do("ADD", Temp(5), i, Imm(Half - 1)), Do("DIV", y, Temp(5), Imm(4)), Do("ADD", s, s, y) >>)

MiddleReadAbove ==
  Sum(<< Do("ADD", s, s, b), Do("MOD", b, i, Imm(8)), Do("ADD", b, b, Imm(8)), Do("MOD", y, b, Imm(8)),
         Do("ADD", s, s, y) >>)

IdleConstant ==
  Sum(<< Pass(i, 0), Calling(Temp(5), H), Do("MOD", Temp(5), Temp(5), Imm(ImmHalf)),
         Do("ADD", Temp(5), Temp(5), Imm(ImmHalf)), Do("MOD", Temp(5), Temp(5), Imm(ImmHalf)),
         Do("ADD", s, s, Temp(5)) >>)

\* n is not negative; y = n + a; s = ((n % 5) + 5) % 5, as Pass 0d writes it;
\* s = s + y.  With one argument register and no saved ones n and s have slots.
ChainOverT3 ==
  LET n == Var("n.")
      Remainder(x, z) ==
        << Do("DIV", Temp(5), z, Imm(5)), Do("MUL", Temp(6), Temp(5), Imm(5)), Do("SUB", x, z, Temp(6)) >>
  IN {Unit(<< Function(F, << a >>,
                << Declare(n), Set(n, Imm(7)), Declare(s), Set(s, Imm(0)), Unless(a, 1), Set(n, Imm(8)), Here(1),
                   Do("ADD", Temp(7), n, a) >>
                  \o Remainder(s, n) \o << Do("ADD", s, s, Imm(5)) >> \o Remainder(s, s)
                  \o << Do("ADD", s, s, Temp(7)), Go(2), Here(2), Do("SUB", s, s, a), Back(s) >>) >>)}

-------------------------------------------------------------------------------
\* What EncodingTheorems asks of code, the programs of every run have.
ASSUME ProgramsAreTranslatable == \A p \in Programs : AllTranslatable(p)

MCInputs == {-1, 2}
Extremes == {-Half, 2}
Three == {3}
MCArgRegs == << "a0", "a1" >>
MCSavedRegs == << "s2", "s3" >>
MCTempRegs == << "t3", "t4" >>
ManySavedRegs == << "s2", "s3", "s4", "s5", "s6", "s7" >>
OneArgReg == << "a0" >>
NoRegs == << >>
===============================================================================
