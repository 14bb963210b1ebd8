------------------------------ MODULE MCSummaries -----------------------------
(***************************************************************************)
(* The optimiser on loops that Passes 5.566 to 5.7 compute: the            *)
(* thresholds of the code are scaled down, so that a run of the source is  *)
(* short, and the words are wide enough for what the passes ask of them.   *)
(***************************************************************************)
EXTENDS MCLoops

Minus(u, v) == Bin("SUB", u, v)
Times(u, v) == Bin("MUL", u, v)
Fifth(e) == Bin("MOD", e, Num(5))
Fourth(e) == Bin("MOD", e, Num(4))
Add(v, e) == Set(v, Plus(v, e))

\* Remainders of arithmetic progressions, with steps and starts that are
\* truths about x: from a table, or by Euclid's loop.
Progression(loop) ==
  << Decl("b", Bin("LT", x, Num(2))), Decl("n", Bin("NE", x, Num(2))) >> \o loop

Floors ==
  {Progression(Up(Num(4), body)) :
     body \in {<< Add(s, Third(Times(i, b))) >>,
               << Add(s, Plus(Times(Third(Times(Times(n, i), Num(2))), Num(2)), Plus(i, b))) >>,
               << Decl("a", Fifth(Plus(Times(Times(i, n), Num(2)), b))), Set(s, Minus(s, a)) >>,
               << Add(s, Minus(Fifth(Plus(Times(i, Num(3)), Plus(n, n))), Times(i, x))) >>}}
    \union {Progression(By1From(Num(1), Num(4), << Add(g, Third(Plus(Times(i, b), n))) >>) \o << Add(s, g) >>)}

\* acc = ((acc + p(i)) % 5 - i) % 5, from a number that is not positive.
Recurrence(start, from, upto, p_i) ==
  << Set(s, start) >>
    \o By1From(Num(from), Num(upto), << Set(s, Fifth(Minus(Fifth(Plus(s, p_i)), i))) >>)
Recurrences ==
  {Recurrence(Num(start), 2, 6, p_i) : start \in {-3, 0}, p_i \in {Third(i), Times(Odd(i), Third(Plus(i, Num(1))))}}
    \union {Recurrence(Num(4), 0, 5, Times(Num(2), Third(i)))}

\* Work for the one iteration that x selects.
Selecting(work, use) == work \o << If(Bin("EQ", i, x), use) >>
Sparse ==
  {Up(Num(4), Selecting(<< Decl("a", Times(i, Num(3))) >>, Add(s, a))),
   By1From(Num(-1), Num(2), Selecting(<< Decl("a", Plus(i, x)), If(Bin("GT", a, Num(1)), Set(a, i)) >>, Set(s, Minus(a, s)))),
   << Decl("a", x) >> \o Up(Num(3), Selecting(<< If(Bin("LT", i, Num(2)), Set(a, i)) >>, Add(s, a)))}

\* A state that comes again, and what it adds.
From(v, loop) == << Decl("n", Num(v)) >> \o loop
Turning ==
  {From(1, Up(Num(8), << Set(n, Third(Plus(Plus(n, n), Num(2)))), Add(s, n) >>)),
   From(7, Up(Num(9), << Set(n, Third(Minus(n, Num(2)))), Set(s, Minus(s, Bin("EQ", n, Num(-1)))) >>) \o << Add(s, n) >>),
   From(0, By1From(Num(1), Num(8), << Add(s, Times(Num(2), n)), Set(n, Odd(Plus(n, Num(1)))), Decl("a", n), Set(a, x) >>))}

\* States that decide branches, one of which grows.
Steering ==
  {<< Set(s, Num(0)) >> \o Up(Num(8), << IfElse(Odd(s), Add(s, Num(3)), Add(s, Num(1))) >>),
   << Set(s, Num(1)) >> \o From(0, Up(Num(7), << IfElse(n, Set(n, Num(0)), Set(n, Bin("GT", s, Num(0)))), If(n, Add(s, Num(0))) >>)),
   << Set(s, Num(0)) >>
     \o Up(Num(7), << IfElse(Fourth(s), Add(s, Num(4)), Add(s, Num(2))), If(Odd(s), Add(s, Num(1))) >>),
   << Set(s, Num(1)) >>
     \o From(1, Up(Num(9), << If(Odd(s), Set(n, Minus(Num(0), n))), IfElse(Bin("GT", n, Num(0)), Add(s, Num(3)), Add(s, Num(1))) >>))
     \o << Set(s, Minus(s, n)) >>}

\* Variables that depend on each other.
Coupled ==
  {From(2, Up(Num(6), << Decl("a", Plus(s, n)), Set(s, n), Set(n, a) >>) \o << Add(s, n) >>),
   << Decl("n", x), Decl("i", Num(7)),
      While(Bin("LT", Num(-1), i),
            Block(<< Set(n, Minus(Times(Num(2), s), n)), Set(i, Minus(i, Num(2))), Add(s, Plus(n, i)) >>)),
      Set(s, Plus(Minus(s, n), i)) >>,
   From(3, << Set(s, Num(2)) >>
             \o Up(Num(6), << Decl("a", Fifth(Plus(n, s))), Set(n, Fifth(Plus(Times(s, Num(2)), a))), Set(s, a) >>)
             \o << Add(s, n) >>),
   << Set(g, Num(2)) >> \o Up(Num(5), << Set(g, Minus(Times(Num(3), g), s)), Add(s, g) >>),
   << Set(g, Num(-1)), While(Bin("LE", g, Num(3)), Block(<< Set(s, Plus(Plus(s, s), g)), Set(g, Plus(g, Num(1))) >>)) >>}

\* Two bodies, by a test of the counter that repeats or that turns at a bound.
Forked ==
  {From(2, By1From(Num(1), Num(6), << IfElse(Odd(i), Add(s, n), Block(<< Add(n, Num(3)), Add(s, s) >>)) >>)
             \o << Add(s, n) >>),
   From(1, Up(Num(6), << IfElse(Bin("GT", Third(i), Odd(i)), Set(s, Minus(n, s)), Add(n, x)), Add(s, i) >>) \o << Add(s, n) >>),
   From(1, By1From(Num(2), Num(6), << IfElse(Bin("LT", Plus(i, i), Num(9)), Set(n, Plus(n, s)), Set(s, Minus(x, n))) >>)
             \o << Add(s, Plus(n, i)) >>),
   Up(Num(5), << IfElse(Bin("EQ", Minus(Num(7), i), Num(4)), Add(s, x), Set(s, Minus(Num(0), s))) >>),
   Up(Num(5), << IfElse(Plus(Minus(i, Num(3)), Num(0)), Add(s, x), Set(s, Minus(s, i))) >>)}

SummaryUnits ==
  {LoopUnit(<< >>, Loop(l), Using(<< Return(p) >>)) :
     l \in Floors \union Recurrences \union Sparse \union Turning \union Steering \union Coupled \union Forked}

MCSummarySources == {Generated(u) : u \in SummaryUnits}

\* A comparison under a name that was a multiple of the counter before.
StaleComparison ==
  {LoopCode(<< >>,
            Loop(Up(Num(4), << IfElse(Bin("EQ", Bin("LT", Times(Num(2), i), Num(3)), Num(0)), Add(s, Num(1)), Add(s, Num(3))) >>)),
            Using(<< Return(p) >>))}
===============================================================================
