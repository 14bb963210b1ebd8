-------------------------------- MODULE MCLoops -------------------------------
(***************************************************************************)
(* The optimiser on loops: a function f(x) with a loop that counts, up or  *)
(* down, to a constant or to x, and functions that it calls.               *)
(***************************************************************************)
EXTENDS MCOptimizer

i == LocalVar("i")
j == LocalVar("j")
s == LocalVar("s")
n == LocalVar("n")

Up(bound, body) ==
  << Decl("i", Num(0)), While(Bin("LT", i, bound), Block(body \o << Set(i, Plus(i, Num(1))) >>)) >>
UpTo(bound, body) ==
  << Decl("i", Num(0)), While(Bin("GE", bound, i), Block(body \o << Set(i, Plus(Num(1), i)) >>)) >>
Down(from, body) ==
  << Decl("i", from), While(Bin("GT", i, Num(0)), Block(<< Set(i, Bin("SUB", i, Num(1))) >> \o body)) >>
By2(bound, body) ==
  << Decl("i", Num(1)), While(Bin("LT", i, bound), Block(body \o << Set(i, Plus(i, Num(2))) >>)) >>
By1From(from, bound, body) ==
  << Decl("i", from), While(Bin("LE", i, bound), Block(body \o << Set(i, Plus(i, Num(1))) >>)) >>

Loops(body) == {Up(x, body), Up(Num(3), body), UpTo(Num(2), body), Down(x, body), By2(Num(4), body)}

\* What an iteration does: it computes what does not change, what nobody
\* reads, or what the next iteration reads; it leaves early, skips a part,
\* has a loop of its own.
Inner(body) == << Decl("j", Num(0)), While(Bin("LT", j, i), Block(body \o << Set(j, Plus(j, Num(1))) >>)) >>

Openings ==
  { << If(Bin("GE", i, Num(1)), Break) >>,
    << If(And(x, Bin("GT", i, s)), Set(s, Plus(s, x))) >>,
    << Set(s, Plus(Bin("MUL", x, x), s)) >> }

Endings ==
  { << Set(s, Plus(s, Bin("MUL", x, Num(2)))) >>,
    << Set(s, Bin("SUB", Num(5), s)), If(Bin("GT", s, Num(5)), Set(s, Bin("SUB", s, Num(3)))) >>,
    << Decl("a", Bin("SUB", x, s)), If(Bin("GE", i, x), Set(a, i)) >>,
    << Set(g, Plus(g, s)), If(Bin("EQ", i, Num(1)), Return(s)), Set(s, x) >>,
    << Set(s, Plus(s, i)) >>,
    << If(Bin("LT", s, Num(0)), Set(s, Num(2))) >> }

Simple == Openings \union Endings
Mixed  == {first \o second : first \in Openings, second \in Endings}
Nested == {Inner(<< Set(s, Bin("SUB", s, j)) >>) \o body : body \in Openings}
            \union {Inner(<< Decl("a", j) >>) \o body : body \in Openings}

\* r(n) calls itself, so it is never expanded and never known to halt.
Recursive ==
  FuncDef(<<"r", 0>>, << "n" >>,
          << If(Bin("GT", n, Num(1)), Return(Plus(CallOf(<<"r", 0>>, << Bin("SUB", n, Num(1)) >>), n))), Return(n) >>)
R(e) == CallOf(<<"r", 0>>, << e >>)

LoopUnit(before, f, h) == << GlobalDecl(<<"g", 0>>, 0) >> \o before \o << f, h >>
Loop(loop) == FuncDef(<<"f", 0>>, << "x" >>, << Decl("s", Num(1)) >> \o loop \o << Return(s) >>)
Using(statements) == FuncDef(<<"h", 0>>, << "p" >>, statements)

\* Callers that ask for the same result in every iteration, or for results
\* that nobody reads: the callee has a loop, a call of its own, an effect.
Before == << Decl("s", Num(1)), Decl("a", Num(0)) >>
Ask(arg) == << Set(a, R(arg)), Set(s, Plus(s, a)) >>
CallerLoops == {Up(Num(3), Ask(p)), Up(Num(3), Ask(i)), Up(p, Ask(p)), Down(Num(2), Ask(p))}

Ignoring == << Expr(F(p)), Decl("a", F(Plus(p, g))), Return(p) >>
Ignored == {Up(x, << Set(s, Bin("SUB", Num(5), s)) >>), Up(x, << Set(g, Plus(g, s)) >>),
            Up(Num(2), << Set(s, Plus(s, R(x))) >>), By2(x, << Set(s, Bin("MUL", s, x)) >>),
            Up(x, Inner(<< Set(s, Bin("SUB", s, x)), If(Bin("GT", s, i), Break) >>)),
            Up(x, << If(Bin("EQ", s, x), Return(g)), Set(s, Plus(s, i)) >>),
            Up(x, << Set(i, Bin("LT", x, i)) >>)}

LoopUnits ==
  {LoopUnit(<< >>, Loop(l), Using(<< Return(p) >>)) :
     l \in UNION {Loops(body) : body \in Simple} \union {Up(x, body) : body \in Mixed \union Nested}
             \union {Up(Num(3), body) : body \in Nested}}

CallUnits ==
  {LoopUnit(<< Recursive >>, Loop(<< >>), Using(Before \o l \o << Return(s) >>)) : l \in CallerLoops}
    \union {LoopUnit(<< Recursive >>, Loop(l), Using(Ignoring)) : l \in Ignored}

\* Sums in a loop of their own, whose start or step comes from the loop around
\* it; and sums that are constants, behind a condition of two operators.
InnerSum(bound, body) ==
  << Decl("j", Num(0)), While(Bin("LE", j, bound), Block(body \o << Set(j, Plus(j, Num(1))) >>)) >>
Sums == {<< Set(s, Bin("SUB", s, i)) >>, << Set(s, Plus(Plus(s, x), j)) >>,
         << Set(s, Bin("SUB", s, Plus(i, i))), Set(g, s) >>,
         << Decl("a", Plus(s, Bin("MUL", j, Num(3)))), Set(s, Bin("SUB", a, x)) >>}
Summed == {Up(x, InnerSum(Num(2), body) \o << Set(s, Plus(s, j)) >>) : body \in Sums}
            \union {<< Decl("n", Num(1)) >> \o Up(x, InnerSum(n, body)) : body \in Sums}

Negated(body) ==
  << Decl("i", Num(0)), While(Bin("SUB", Num(0), Bin("LT", i, Num(3))), Block(body \o << Set(i, Plus(i, Num(1))) >>)) >>
Constants == {Negated(<< Set(s, Plus(s, i)) >>) \o << Set(s, Bin("SUB", s, Num(7))) >>,
              Negated(<< Set(s, Bin("SUB", s, Bin("MUL", i, Num(2)))) >>) \o << Set(s, Plus(Plus(s, i), x)) >>}

\* Loops that count to a remainder of the counter around them, and sums of
\* polynomials.
ToRemainder(from, bound, body) ==
  << Decl("a", bound), Decl("j", Num(from)),
     While(Bin("LT", j, a), Block(body \o << Set(j, Plus(j, Num(1))) >>)) >>
Remainder == Bin("MOD", i, Num(3))
OddSum == << Set(s, Bin("SUB", s, Plus(Bin("MUL", j, Num(2)), Num(1)))) >>

Remainders == {Up(Num(4), ToRemainder(0, Remainder, << Set(s, Plus(s, Num(1))) >>) \o << Set(s, Plus(s, j)) >>),
               By1From(Num(1), Num(3), ToRemainder(0, Remainder, OddSum)),
               By1From(Num(-2), Num(2), ToRemainder(0, Remainder, OddSum)),
               Up(Num(4), ToRemainder(1, Remainder, OddSum))}

Square(e) == Bin("MUL", e, e)
Polynomials == {Up(Num(4), << Set(s, Bin("SUB", s, Bin("MUL", Square(i), i))) >>),
                By1From(Num(-2), Num(2), << Decl("a", Plus(i, Num(1))), Set(s, Plus(s, Bin("MUL", Square(a), i))) >>)}

\* Sums of quotients and of what repeats with remainders.
Half0(e) == Bin("DIV", e, Num(2))
Odd(e) == Bin("MOD", e, Num(2))
Third(e) == Bin("MOD", e, Num(3))
Quotients == {Up(Num(6), << Set(s, Plus(s, Half0(i))) >>),
              Up(Num(5), << Set(s, Bin("SUB", s, Bin("MUL", Bin("DIV", Plus(i, Num(2)), Num(3)), Num(3)))) >>),
              By1From(Num(1), Num(5), << Decl("a", Bin("DIV", i, Num(-2))), Set(s, Plus(Plus(a, s), Num(1))) >>)}
Periods == {Up(Num(7), << Set(s, Plus(s, Odd(i))) >>),
            By1From(Num(1), Num(6), << Set(s, Bin("SUB", s, Bin("MUL", Odd(i), Third(Plus(i, Num(1)))))) >>),
            Up(Num(5), << Set(s, Plus(s, Bin("EQ", Third(i), Num(1)))), Set(g, Plus(g, Num(2))) >>)}

\* Sums of remainders of the counter and a number that is not negative.
OffsetIs(base, loop) == << Decl("b", base) >> \o loop
Offsets == {OffsetIs(Bin("LT", x, Num(2)), Up(Num(3), << Set(s, Plus(s, Third(Plus(i, b)))) >>)),
            OffsetIs(Bin("NE", x, Num(2)), Up(Num(2), << Set(s, Plus(s, Third(Plus(b, i)))) >>)),
            OffsetIs(Bin("EQ", x, Num(2)),
                     By1From(Num(1), Num(2), << Decl("a", Third(Plus(i, b))), If(x, Set(s, Plus(s, a))) >>))}

SumUnits ==
  {LoopUnit(<< >>, Loop(l), Using(<< Return(p) >>)) :
     l \in Summed \union Constants \union Remainders \union Polynomials
             \union Quotients \union Periods \union Offsets}

LoopCode(before, f, h) == Generated(LoopUnit(before, f, h))

MCLoopSources == {Generated(u) : u \in LateUnits \union LoopUnits \union CallUnits \union SumUnits}

\* A variable that only the loop assigns, though it may run no iteration.
HoistedAssignment ==
  {LoopCode(<< >>, Loop(Up(x, << Set(s, Plus(x, Num(5))) >>)), Using(<< Return(p) >>))}

\* What an inner loop leaves is read in front of it, a round later.
InnerResult ==
  {LoopCode(<< >>,
            FuncDef(<<"f", 0>>, << "x" >>,
                    << Decl("s", Num(0)), Decl("a", Num(0)), Decl("j", Num(0)),
                       While(Bin("LT", j, x),
                             Block(<< Set(a, s), Set(s, Num(0)) >> \o Up(Num(2), << Set(s, Plus(s, Num(3))) >>)
                                     \o << Set(j, Plus(j, Num(1))) >>)),
                       Return(a) >>),
            Using(<< Return(p) >>))}

\* The last definition of the bound in the text is a remainder; another one,
\* which is negative, reaches the loop as well.
OtherBound ==
  {LoopCode(<< >>,
            Loop(Up(Num(4), << Decl("a", Num(-1)), If(Bin("EQ", x, i), Set(a, Remainder)), Decl("j", Num(0)),
                               While(Bin("LT", j, a),
                                     Block(<< Set(s, Plus(s, Num(1))), Set(j, Plus(j, Num(1))) >>)) >>)),
            Using(<< Return(p) >>))}

\* A second sum of the inner loop, read in front of it a round later.
SumInFront ==
  {LoopCode(<< >>,
            Loop(<< Decl("n", Num(0)) >>
                   \o Up(Num(4), << Set(x, Plus(x, n)) >>
                                   \o ToRemainder(0, Remainder, << Set(s, Plus(s, Num(1))), Set(n, Plus(n, Num(1))) >>))
                   \o << Set(s, Plus(s, x)) >>),
            Using(<< Return(p) >>))}

\* An argument from before a join, when another temporary has been read.
JoinedArgument ==
  {LoopCode(<< FuncDef(<<"r", 0>>, << "n", "x" >>,
                       << If(Bin("GT", x, Num(2)), Return(CallOf(<<"r", 0>>, << n, Bin("SUB", x, Num(1)) >>))),
                          Return(Plus(n, x)) >>) >>,
            FuncDef(<<"f", 0>>, << "x", "s" >>,
                    << Return(CallOf(<<"r", 0>>, << And(x, s), Bin("SUB", Plus(x, s), Bin("MUL", x, s)) >>)) >>),
            Using(<< Return(p) >>))}

\* A continue that jumps over the step of the counter.
SkippedStep ==
  {LoopCode(<< >>, Loop(Up(x, << If(Bin("EQ", x, Num(2)), Continue) >>)), Using(<< Return(p) >>))}

\* The counter steps in front of the remainder that is summed.
StepFirst ==
  {LoopCode(<< >>,
            Loop(<< Decl("b", Bin("LT", x, Num(2))), Decl("i", Num(0)),
                    While(Bin("LT", i, Num(2)),
                          Block(<< Set(i, Plus(i, Num(1))), Set(s, Plus(s, Third(Plus(b, i)))) >>)) >>),
            Using(<< Return(p) >>))}
===============================================================================
