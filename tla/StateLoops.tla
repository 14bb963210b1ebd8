------------------------------- MODULE StateLoops ------------------------------
(***************************************************************************)
(* Loops driven by a small state that comes again long before they end:    *)
(* Pass 5.57 (one variable that is reduced by a constant) and Pass 5.575   *)
(* (variables that decide branches).  Both follow the states until one     *)
(* comes again, and multiply.                                              *)
(***************************************************************************)
EXTENDS SignedRecurrences

CONSTANTS StateTrips,   \* the fewest iterations for Pass 5.57, 1000
          ControlTrips  \* ... and for Pass 5.575, 16

\* Where a path that came back to its state k is after so many steps: at
\* place at, with rounds of the cycle left out.
Landing(path, k, trips) ==
  LET cycle == Len(path) - k
  IN [at |-> k + ((trips - k + 1) % cycle), rounds |-> (trips - k + 1) \div cycle]

-------------------------------------------------------------------------------
\* Pass 5.57.  The constant that a variable is reduced by, which the body
\* writes once: at the end of a path of definitions, or by MOD.
MostModulus == 16384
MostSums == 8

BodyDefinition(ir, loop, before, o) ==
  LET found == {k \in (loop.at + 2)..(before - 1) : ir[k].dest = o /\ ~ EmptyDecl(ir[k])}
  IN IF found = {} THEN {} ELSE {Max(found)}

ReducedBy(ir, loop, k) ==
  CASE ir[k].op = "MOD" -> {m \in {ir[k].src2.imm} : IsImm(ir[k].src2)}
    [] ir[k].op = "SUB" ->
         UNION {{f[2].imm : f \in {h \in Factors(ir[p]) :
                   /\ ir[p].op = "MUL" /\ IsLocal(h[1]) /\ IsImm(h[2])
                   /\ \E q \in BodyDefinition(ir, loop, p, h[1]) :
                        ir[q].op = "DIV" /\ ir[q].src1 = ir[k].src1 /\ ir[q].src2 = h[2]}} :
                  p \in BodyDefinition(ir, loop, k, ir[k].src2)}
    [] OTHER -> {}

WritesOf(ir, loop, o) == {k \in (loop.at + 2)..(loop.test - 1) : ir[k].dest = o /\ ~ EmptyDecl(ir[k])}
StateModulus(ir, loop, o) ==
  UNION {{m \in ReducedBy(ir, loop, k) : 1 < m /\ m <= MostModulus} :
           k \in {w \in WritesOf(ir, loop, o) : WritesOf(ir, loop, o) = {w}}}

\* Moves and computations of local variables, in front of the step.
ComputesLocals(body) ==
  \A k \in 1..Len(body) : IsLocal(body[k].dest) /\ (IsMove(body[k]) \/ body[k].op \in CombinableOps)

\* What an iteration does with a state that is known, to sums and a counter
\* that are not.
StateOf(ir, loop, values, o) ==
  CASE IsImm(o) -> {ConstantExpr(o.imm, DOMAIN values[loop.counter].coeffs)}
    [] ~ IsLocal(o) -> {}
    [] o \in DOMAIN values -> {values[o]}
    [] OTHER -> {ConstantExpr(v, DOMAIN values[loop.counter].coeffs) : v \in UniqueConstant(ir, loop.at, o)}

StateResult(ir, loop, values, inst) ==
  LET Same(v) == ConstantExpr(v, DOMAIN values[loop.counter].coeffs)
      Fixed(e) == IsConstantExpr(e)
      left == StateOf(ir, loop, values, inst.src1)
      both == left \X StateOf(ir, loop, values, inst.src2)
  IN CASE IsMove(inst) -> left
       [] inst.op = "NOT" -> {Same(Truth(e.constant = 0)) : e \in {d \in left : Fixed(d)}}
       [] inst.op = "ADD" -> {Combined(p[1], p[2], 1) : p \in both}
       [] inst.op = "SUB" -> {Combined(p[1], p[2], -1) : p \in both}
       [] inst.op = "MUL" -> {IF Fixed(p[1]) THEN Combined(Same(0), p[2], p[1].constant)
                              ELSE Combined(Same(0), p[1], p[2].constant) :
                                p \in {q \in both : Fixed(q[1]) \/ Fixed(q[2])}}
       [] OTHER -> UNION {{Same(v) : v \in Evaluated(inst.op, p[1].constant, p[2].constant)} :
                            p \in {q \in both : Fixed(q[1]) /\ Fixed(q[2])}}

StateAfter(ir, loop, values, inst) ==
  CASE EmptyDecl(inst) -> {[o \in DOMAIN values \ {inst.dest} |-> values[o]]}
    [] inst.dest = loop.counter -> {values}
    [] OTHER -> {(inst.dest :> WrappedExpr(e)) @@ values : e \in StateResult(ir, loop, values, inst)}

\* The next state and what the sums grow by, if that is all that happens.
Transition(ir, s, v) ==
  LET names == s.sums \union {s.loop.counter}
      Further(known, inst) == UNION {StateAfter(ir, s.loop, values, inst) : values \in known}
      start == (s.state :> ConstantExpr(v, names)) @@ [n \in names |-> VariableExpr(n, names)]
      OnlyGrows(e, n) == e.coeffs = VariableExpr(n, names).coeffs
  IN {[state |-> w[s.state].constant, growth |-> [n \in s.sums |-> w[n].constant]] :
        w \in {x \in FoldLeft(Further, {start}, LoopBody(ir, s.at, s.loop)) :
                 /\ {s.state} \union s.sums \subseteq DOMAIN x /\ IsConstantExpr(x[s.state])
                 /\ Magnitude(x[s.state].constant) < s.modulus
                 /\ \A n \in s.sums : OnlyGrows(x[n], n)}}

\* The states and the sums from the start on, until a state comes again.
Earlier(path, Same(_, _)) == {k \in 1..(Len(path) - 1) : Same(path[k], Last(path))}

RECURSIVE StatePath(_, _, _)
StatePath(ir, s, path) ==
  LET Same(a, b) == a.state = b.state
      Reached(t) == [state |-> t.state, total |-> [n \in s.sums |-> Wrap(Last(path).total[n] + t.growth[n])]]
  IN IF Earlier(path, Same) # {} THEN {[steps |-> path, from |-> Min(Earlier(path, Same))]}
     ELSE UNION {StatePath(ir, s, Append(path, Reached(t))) : t \in Transition(ir, s, Last(path).state)}

\* More iterations than states: one of them comes again.
StatesOf(ir, loop) ==
  LET written == {o \in {ir[k].dest : k \in (loop.at + 2)..(loop.test - 1)} : WritesOf(ir, loop, o) # {}}
      own == {o \in written \ {loop.counter} : ~ IsTempName(o.name)}
      read == {o \in written : UsedBehind(ir, loop.back, o.name)}
      Found(o, m, v) == [loop |-> loop, at |-> loop.at, state |-> o, modulus |-> m, initial |-> v,
                         sums |-> (read \cap own) \ {o}]
  IN UNION {{s \in {Found(o, m, v) : m \in StateModulus(ir, loop, o), v \in EntryConstant(ir, loop.at, o)} :
               loop.count.trips > 2 * s.modulus + 1 /\ Cardinality(s.sums) <= MostSums} :
              o \in {n \in own : \A r \in read : ~ IsTempName(r.name)}}

StateLoopsOf(ir) ==
  UNION {UNION {{[s |-> s, at |-> s.at, path |-> p] :
                   p \in StatePath(ir, s, << [state |-> s.initial, total |-> [n \in s.sums |-> 0]] >>)} :
                  s \in StatesOf(ir, l)} :
           l \in {m \in LoopsWithBounds(ir) :
                    /\ m.count.trips >= StateTrips
                    /\ WritesOf(ir, m, ir[m.test + 1].src2) = {}
                    /\ \E body \in BodyBeforeStep(ir, m) : ComputesLocals(body)}}

StateWritten(ir, f) ==
  LET s == f.s
      path == f.path.steps
      k == f.path.from
      landing == Landing(path, k, s.loop.count.trips)
      total == [n \in s.sums |->
                  Wrap(path[landing.at].total[n]
                         + Wrap((Last(path).total[n] - path[k].total[n]) * landing.rounds))]
      sums == SetToSeq({n \in s.sums : total[n] # 0})
  IN (IF UsedBehind(ir, s.loop.back, s.state.name)
      THEN << Move(s.state, Imm(path[landing.at].state)) >> ELSE << >>)
       \o [j \in 1..Len(sums) |-> Inst("ADD", sums[j], sums[j], Imm(total[sums[j]]))]
       \o CounterSet(ir, s.loop, Imm(LastCount(s.loop)))

StateRound(ir, k) ==
  LET Gone(f) == Replaced(ir, f.s.loop, StateWritten(ir, f)) IN OnLast(ir, StateLoopsOf(ir), Gone)
StatesFollowed(ir) == FoldLeft(StateRound, ir, [k \in 1..ClosedFormRounds |-> k])

-------------------------------------------------------------------------------
\* Pass 5.575.  The variables of the program that the body keeps from one
\* iteration to the next, but for the counter.
MostControls == 8
MostControlStates == 65536

Steered(ir, loop) == (loop.at + 2)..(loop.test - 1)
Steps(ir, loop) == {k \in Steered(ir, loop) : ir[k].dest = loop.counter /\ ~ EmptyDecl(ir[k])}
ControlStates(ir, loop) ==
  {o \in LoopWrites(ir, loop) \ OwnVariables(ir, loop) :
     o # loop.counter /\ (IsGlobal(o) \/ ~ IsTempName(o.name))}

\* Arithmetic, and jumps forward inside the body.
SteersForward(ir, loop) ==
  /\ Cardinality(Steps(ir, loop)) = 1
  /\ \A k \in Steps(ir, loop) : ir[k] = Inst("ADD", loop.counter, loop.counter, Imm(1))
  /\ \A k \in Steered(ir, loop) :
       /\ ir[k].op \notin {"CALL", "PARAM", "RETURN", "DIV"}
       /\ ir[k].op = "MOD" => IsImm(ir[k].src2) /\ ir[k].src2.imm > 1
       /\ ir[k].op \in BranchOps => \E p \in PlaceOf(ir, ir[k].dest) : k < p /\ p < loop.test

\* What a value depends on: the remainder of a state by some modulus, or all
\* of it, which is 0.
CommonModulus(m, n) ==
  LET l == m * (n \div Gcd[m, n]) IN IF m = 0 \/ n = 0 \/ l > MaxWord THEN 0 ELSE l
\* Mutant: the later of two moduli counts.
LaterModuli(d, e) == e @@ d

BothModuli(d, e) ==
  [o \in DOMAIN d \union DOMAIN e |->
     CASE o \notin DOMAIN e -> d[o]
       [] o \notin DOMAIN d -> e[o]
       [] OTHER -> CommonModulus(d[o], e[o])]
Reduced(d, m) == [o \in DOMAIN d |-> IF d[o] = 0 THEN m ELSE CommonModulus(d[o], m)]

\* ... in the order of the text, whatever jumps over it.
Dependences(ir, loop) ==
  LET states == ControlStates(ir, loop)
      Of(known, o) == IF o \in DOMAIN known.of THEN known.of[o] ELSE << >>
      Further(known, k) ==
        LET inst == ir[k]
            both == BothModuli(Of(known, inst.src1), Of(known, inst.src2))
        IN CASE inst.op \in {"BEQZ", "BNEZ"} -> [known EXCEPT !.control = BothModuli(@, Of(known, inst.src1))]
             [] inst.op \in {"LABEL", "BRANCH"} \/ EmptyDecl(inst) -> known
             [] inst.op = "MOD" -> [known EXCEPT !.of = (inst.dest :> Reduced(both, inst.src2.imm)) @@ @]
             [] OTHER -> [known EXCEPT !.of = (inst.dest :> both) @@ @]
  IN FoldLeft(Further, [of |-> [o \in states |-> (o :> 0)], control |-> << >>],
              [j \in 1..(loop.test - loop.at - 2) |-> loop.at + 1 + j])

\* An iteration with numbers; nothing is computed that does not fit.
Exact(op, l, r) ==
  {v \in Evaluated(op, l, r) :
     CASE op = "ADD" -> v = l + r [] op = "SUB" -> v = l - r [] op = "MUL" -> v = l * r [] OTHER -> TRUE}

NumberOf(ir, loop, values, o) ==
  IF o \in DOMAIN values THEN {values[o]} ELSE TextConstant(ir, loop.at, o)

NumberResult(ir, loop, values, inst) ==
  LET left == NumberOf(ir, loop, values, inst.src1)
      both == left \X NumberOf(ir, loop, values, inst.src2)
  IN CASE IsMove(inst) -> left
       [] inst.op = "NOT" -> {Truth(v = 0) : v \in left}
       [] OTHER -> UNION {Exact(inst.op, p[1], p[2]) : p \in both}

RECURSIVE Steered1(_, _, _, _)
Steered1(ir, loop, k, values) ==
  LET inst == ir[k]
      To == CHOOSE p \in PlaceOf(ir, inst.dest) : TRUE
      taken == CASE inst.op = "BRANCH" -> {TRUE}
                 [] inst.op = "BEQZ" -> {v = 0 : v \in NumberOf(ir, loop, values, inst.src1)}
                 [] OTHER -> {v # 0 : v \in NumberOf(ir, loop, values, inst.src1)}
  IN CASE k = loop.test -> {values}
       [] inst.op = "LABEL" -> Steered1(ir, loop, k + 1, values)
       [] inst.op \in BranchOps -> UNION {Steered1(ir, loop, IF t THEN To ELSE k + 1, values) : t \in taken}
       [] EmptyDecl(inst) -> Steered1(ir, loop, k + 1, [o \in DOMAIN values \ {inst.dest} |-> values[o]])
       [] OTHER -> UNION {Steered1(ir, loop, k + 1, (inst.dest :> v) @@ values) :
                            v \in NumberResult(ir, loop, values, inst)}

\* The part of the states that the branches look at; the counter is none.
ControlKey(moduli, values) ==
  [o \in DOMAIN moduli |-> IF moduli[o] = 0 THEN values[o] ELSE TMod(values[o], moduli[o])]

RECURSIVE ControlPath(_, _, _, _)
ControlPath(ir, loop, moduli, path) ==
  LET Same(a, b) == ControlKey(moduli, a) = ControlKey(moduli, b)
      done == Len(path) - 1
      now == (loop.counter :> (loop.count.initial + done)) @@ Last(path)
  IN CASE Earlier(path, Same) # {} ->
            {p \in {[steps |-> path, from |-> Min(Earlier(path, Same))]} : done < loop.count.trips}
       [] done = loop.count.trips \/ done = MostControlStates -> {}
       [] OTHER -> UNION {ControlPath(ir, loop, moduli, Append(path, [o \in DOMAIN moduli |-> next[o]])) :
                            next \in {v \in Steered1(ir, loop, loop.at + 2, now) : DOMAIN moduli \subseteq DOMAIN v}}

\* What a cycle adds does not show in the branches.
Repeatable(f) ==
  \A o \in DOMAIN f.moduli :
    /\ f.moduli[o] = 0 => f.growth[o] = 0
    /\ f.moduli[o] # 0 => f.growth[o] % f.moduli[o] = 0
    /\ f.final[o] \in Word

ControlsOf(ir, loop) ==
  LET moduli == Dependences(ir, loop).control
      FirstValues(o) == TextConstant(ir, loop.at, o)
      Found(path) ==
        LET landing == Landing(path.steps, path.from, loop.count.trips)
            growth == [o \in DOMAIN moduli |-> Last(path.steps)[o] - path.steps[path.from][o]]
        IN [loop |-> loop, at |-> loop.at, moduli |-> moduli, growth |-> growth,
            final |-> [o \in DOMAIN moduli |-> path.steps[landing.at][o] + growth[o] * landing.rounds]]
  IN IF DOMAIN moduli = ControlStates(ir, loop) /\ \A o \in DOMAIN moduli : FirstValues(o) # {}
     THEN {f \in {Found(p) : p \in ControlPath(ir, loop, moduli,
                                << [o \in DOMAIN moduli |-> CHOOSE v \in FirstValues(o) : TRUE] >>)} : Repeatable(f)}
     ELSE {}

ControlLoops(ir) ==
  UNION {ControlsOf(ir, l) :
           l \in {m \in TextLoops(ir) : /\ m.count.trips >= ControlTrips /\ SteersForward(ir, m)
                                         /\ Cardinality(ControlStates(ir, m)) \in 1..MostControls}}

ControlWritten(ir, f) ==
  LET counted == (f.loop.counter :> LastCount(f.loop)) @@ f.final
      read == SetToSeq({o \in DOMAIN counted : SeenBehind(ir, f.loop.back, o)})
  IN [k \in 1..Len(read) |-> Move(read[k], Imm(counted[read[k]]))]

ControlRound(ir, k) ==
  LET Gone(f) == Replaced(ir, f.loop, ControlWritten(ir, f)) IN OnLast(ir, ControlLoops(ir), Gone)
ControlsFollowed(ir) == FoldLeft(ControlRound, ir, [k \in 1..ClosedFormRounds |-> k])
===============================================================================
