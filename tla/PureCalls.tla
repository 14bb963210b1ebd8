------------------------------- MODULE PureCalls ------------------------------
(***************************************************************************)
(* Pass 2.75: calls of functions that only compute and that halt go when   *)
(* nobody reads their result.  Pass 2.76: the call of a function that only *)
(* computes moves in front of a loop that gives it the same arguments.     *)
(***************************************************************************)
EXTENDS LoopShape, Inliner

-------------------------------------------------------------------------------
\* Functions that halt: every jump backwards closes a loop that counts towards
\* a bound by one.
UnitStep(inst, rel) ==
  /\ inst.op = IF rel \in {"LT", "LE"} THEN "ADD" ELSE "SUB"
  /\ inst.src1 = inst.dest /\ Is(inst.src2, 1)

\* The condition of the loop with the back edge at i and the body label at b
\* starts at the last label in between.
ConditionLabels(ir, b, i) == {k \in (b + 1)..(i - 1) : ir[k].op = "LABEL"}

\* The last place in the body from which a jump stays in the loop; only the
\* counting behind it is on every path.
LastControl(ir, b, c) ==
  Max({b} \union {p \in (b + 1)..(c - 1) :
                    ir[p].op \in BranchOps /\ \E t \in PlaceOf(ir, ir[p].dest) : t <= c})

CounterWrites(ir, b, c, counter) ==
  {k \in (b + 1)..(c - 1) : WritesLocal(ir[k]) /\ ir[k].dest = counter}

\* Mutant: an earlier assignment of the counter is not looked at.
CountsAtEnd(ir, b, c, loop) ==
  \E k \in CounterWrites(ir, b, c, loop.counter) :
    UnitStep(ir[k], loop.rel) /\ k > LastControl(ir, b, c)

\* The one assignment of the counter is a step behind the last such jump.
CountsOnce(ir, b, c, loop) ==
  \E k \in CounterWrites(ir, b, c, loop.counter) :
    /\ CounterWrites(ir, b, c, loop.counter) = {k}
    /\ UnitStep(ir[k], loop.rel) /\ k > LastControl(ir, b, c)

RECURSIVE ProvenBackEdge(_, _)
ProvenBackEdge(ir, i) ==
  \E b \in PlaceOf(ir, ir[i].dest) :
    LET c == Max(ConditionLabels(ir, b, i))
        written == WrittenBetween(ir, b + 1, c - 1)
        loop == Oriented(ir[i - 1], written)
    IN /\ b < i /\ ir[i].op = "BNEZ" /\ ir[i - 1].op \in Comparisons
       /\ Decides(ir[i - 1], ir[i]) /\ ConditionLabels(ir, b, i) # {}
       /\ loop.counter \in written
       /\ loop.rel = "LE" => IsImm(loop.bound) /\ loop.bound.imm # MaxWord
       /\ loop.rel = "GE" => IsImm(loop.bound) /\ loop.bound.imm # MinWord
       /\ IsLocal(loop.bound) => \A k \in (b + 1)..(c - 1) : ir[k].dest # loop.bound
       /\ CountsOnce(ir, b, c, loop)
       /\ \A p \in (b + 1)..(c - 1) :
            (\E t \in 1..p : JumpsTo(ir, p, t)) => ProvenBackEdge(ir, p)

\* locallyPureAndTerminatingShape.
HaltsBut(ir, f) ==
  \A i \in InBody(ir, f) :
    /\ ~ (IsGlobal(ir[i].dest) /\ ~ ReadsDest(ir[i]))
    /\ (\E t \in 1..i : JumpsTo(ir, i, t)) => ProvenBackEdge(ir, i)

Callees(ir, f) == {ir[i].src1.name : i \in {k \in InBody(ir, f) : IsCall(ir[k])}}

\* pureTerminating: in the order of the call graph, so recursion is out.
RECURSIVE PureTerminatingFrom(_, _)
PureTerminatingFrom(ir, proven) ==
  LET more == proven \union {f \in FunctionsOf(ir) : HaltsBut(ir, f) /\ Callees(ir, f) \subseteq proven}
  IN IF more = proven THEN proven ELSE PureTerminatingFrom(ir, more)
PureTerminating(ir) == PureTerminatingFrom(ir, {})

\* The PARAMs of a call are the last instructions kept so far.
EndsWithArguments(kept, n) ==
  /\ n <= Len(kept)
  /\ \A k \in 1..n : LET inst == kept[Len(kept) - n + k] IN inst.op = "PARAM" /\ Is(inst.src1, k - 1)

ResultUnused(ir, at) ==
  \/ IsNone(ir[at].dest)
  \/ IsLocal(ir[at].dest)
       /\ \A k \in InBody(ir, FunctionAt(ir, at)) : ~ Uses(ir[k], ir[at].dest.name)

RECURSIVE CallsDroppedFrom(_, _, _, _)
CallsDroppedFrom(ir, halting, i, kept) ==
  IF i > Len(ir) THEN kept
  ELSE LET count == Len(Formals(ir, ir[i].src1.name)) IN
       IF /\ IsCall(ir[i]) /\ ir[i].src1.name \in halting
          /\ ResultUnused(ir, i) /\ EndsWithArguments(kept, count)
       THEN CallsDroppedFrom(ir, halting, i + 1, SubSeq(kept, 1, Len(kept) - count))
       ELSE CallsDroppedFrom(ir, halting, i + 1, Append(kept, ir[i]))

IdleCallsGone(ir) == CallsDroppedFrom(ir, PureTerminating(ir), 1, << >>)

-------------------------------------------------------------------------------
\* Functions that neither read nor write a global; they may recur, or loop.
TouchesGlobal(inst) == IsGlobal(inst.dest) \/ IsGlobal(inst.src1) \/ IsGlobal(inst.src2)

RECURSIVE ClosedUnderCalls(_, _)
ClosedUnderCalls(ir, fs) ==
  LET less == {f \in fs : Callees(ir, f) \subseteq fs}
  IN IF less = fs THEN fs ELSE ClosedUnderCalls(ir, less)

PureFunctions(ir) ==
  ClosedUnderCalls(ir, {f \in FunctionsOf(ir) : \A i \in InBody(ir, f) : ~ TouchesGlobal(ir[i])})

\* isPureCondInst.
PureCondition(inst) ==
  /\ inst.op \in CombinableOps \union {"ASSIGN"}
  /\ IsLocal(inst.dest) /\ IsTempName(inst.dest.name)

\* The branch behind the condition that starts at a label.
BranchBehind(ir, c) == Min({j \in (c + 1)..(Len(ir) + 1) : j > Len(ir) \/ ~ PureCondition(ir[j])})

\* The first test of the loop is known to succeed.
EntersLoop(ir, c, j) ==
  \E l \in EntryConstant(ir, c, ir[j - 1].src1), r \in EntryConstant(ir, c, ir[j - 1].src2) :
    Compute(ir[j - 1].op, l, r) = 1

\* The loop that has its condition at label c and its branch out of it at j
\* ends at its last jump back to c: a set of at most one place.
JumpsBackTo(ir, c, j) ==
  LET ends == {e \in PlaceOf(ir, ir[j].dest) : e > j + 1}
      backs == {k \in (j + 1)..(Min(ends) - 1) : ir[k].op = "BRANCH" /\ ir[k].dest = ir[c].dest}
  IN IF /\ ir[c].op = "LABEL" /\ j \in (c + 2)..Len(ir) /\ ir[j].op = "BEQZ"
        /\ ir[j - 1].op \in RelationOps /\ Decides(ir[j - 1], ir[j])
        /\ ends # {} /\ backs # {} /\ Max(backs) > j + 1 /\ EntersLoop(ir, c, j)
     THEN {Max(backs)} ELSE {}

\* The call is the first thing that an iteration does, with what no iteration
\* changes, and nothing else writes its result.
InvariantCall(ir, pure, c, j, back, q) ==
  LET p == Min({s \in (j + 1)..q : \A k \in s..(q - 1) : ir[k].op = "PARAM"})
  IN /\ IsCall(ir[q]) /\ ir[q].src1.name \in pure /\ IsLocal(ir[q].dest)
     /\ p = IF j + 1 < p /\ ir[j + 1].op = "LABEL" THEN j + 2 ELSE j + 1
     /\ \A k \in p..(q - 1) :
          \/ IsImm(ir[k].dest)
          \/ IsLocal(ir[k].dest) /\ ir[k].dest \notin WrittenBetween(ir, c + 1, back - 1)
     /\ {k \in (j + 1)..(back - 1) : WritesLocal(ir[k]) /\ ir[k].dest = ir[q].dest} = {q}

\* The calls that can move: the condition label, the first PARAM, the CALL.
MovableCalls(ir, pure) ==
  UNION {LET j == BranchBehind(ir, c) IN
         UNION {{[to |-> c, call |-> q,
                  from |-> Min({s \in (j + 1)..q : \A k \in s..(q - 1) : ir[k].op = "PARAM"})] :
                   q \in {q \in (j + 1)..(back - 1) : InvariantCall(ir, pure, c, j, back, q)}} :
                  back \in JumpsBackTo(ir, c, j)} :
           c \in {c \in 1..(Len(ir) - 2) : ir[c].op = "LABEL"}}

\* Mutant: the call moves without its PARAMs.
MovedAlone(ir, m) ==
  SubSeq(ir, 1, m.to - 1) \o << ir[m.call] >>
    \o SubSeq(ir, m.to, m.call - 1) \o SubSeq(ir, m.call + 1, Len(ir))

Moved(ir, m) ==
  SubSeq(ir, 1, m.to - 1) \o SubSeq(ir, m.from, m.call)
    \o SubSeq(ir, m.to, m.from - 1) \o SubSeq(ir, m.call + 1, Len(ir))

\* The first call of the first such loop, at most eight times.
RECURSIVE CallsHoistedIn(_, _, _)
CallsHoistedIn(ir, pure, rounds) ==
  LET movable == MovableCalls(ir, pure)
      First(m) == \A n \in movable : m.to < n.to \/ (m.to = n.to /\ m.call <= n.call)
  IN IF rounds = 0 \/ movable = {} THEN ir
     ELSE CallsHoistedIn(Moved(ir, CHOOSE m \in movable : First(m)), pure, rounds - 1)

CallsHoisted(ir) == CallsHoistedIn(ir, PureFunctions(ir), 8)
===============================================================================
