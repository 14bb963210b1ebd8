-------------------------------- MODULE Inliner -------------------------------
(***************************************************************************)
(* One round of inlinePass.  All calls are judged on the code as it is at  *)
(* the start of the round; then each accepted call, with its PARAMs, is    *)
(* replaced by a copy of the callee's body.                                *)
(***************************************************************************)
EXTENDS Algebra, SequencesExt

CONSTANTS InlineLimit,     \* kInlineLimit, 24 instructions
          BaseLoopLimit,   \* kBaseLoopInlineLimit, 96
          LoopLimit,       \* kLoopInlineLimit, 160
          SpecialLimit     \* kSingleCallInlineLimit, kConstantCallInlineLimit, 2048

Body(ir, f) == SubSeq(ir, BeginOf(ir, f) + 1, EndOf(ir, f) - 1)
InBody(ir, f) == (BeginOf(ir, f) + 1)..(EndOf(ir, f) - 1)

IsCall(inst) == inst.op = "CALL" /\ IsFunc(inst.src1)
CallsTo(ir, f) == {i \in 1..Len(ir) : IsCall(ir[i]) /\ ir[i].src1.name = f}

\* The functions that f calls, directly or not.
RECURSIVE ReachedFunctions(_, _)
ReachedFunctions(ir, fs) ==
  LET more == fs \union {g \in FunctionsOf(ir) : \E f \in fs : CallsTo(ir, g) \cap InBody(ir, f) # {}}
  IN IF more = fs THEN fs ELSE ReachedFunctions(ir, more)
Reach(ir, f) ==
  ReachedFunctions(ir, {g \in FunctionsOf(ir) : CallsTo(ir, g) \cap InBody(ir, f) # {}})

\* A jump backwards closes a loop, from its target to itself.
BackEdge(ir, i, j) == j < i /\ JumpsTo(ir, i, j)
InLoop(ir, at) == \E i \in at..Len(ir), j \in 1..at : BackEdge(ir, i, j)
LoopsUnconditionally(ir, f) ==
  \E i \in InBody(ir, f) : ir[i].op = "BRANCH" /\ \E j \in 1..Len(ir) : BackEdge(ir, i, j)

\* bodySize.
Counts(inst) ==
  /\ inst.op # "LABEL"
  /\ ~ (inst.op = "LOCAL_VAR_DECL" /\ (IsParam(inst.src1) \/ IsNone(inst.src1)))
BodySize(ir, f) == Len(SelectSeq(Body(ir, f), Counts))

\* A parameter that the body assigns.
WrittenIn(ir, f, n) ==
  \E i \in InBody(ir, f) :
    ~ IsParamDecl(ir[i]) /\ WritesLocal(ir[i]) /\ ir[i].dest.name = n

\* The value of variable n is read behind instruction i, before it is
\* overwritten; following (chase) the variables it is copied to.
RECURSIVE ReadBehind(_, _, _, _)
ReadBehind(ir, i, n, chase) ==
  LET next == ir[i + 1] IN
  /\ i < Len(ir) /\ next.op # "FUNC_END"
  /\ IF Uses(next, n)
     THEN \/ ~ (chase /\ next.op = "ASSIGN" /\ IsLocal(next.dest))
          \/ ReadBehind(ir, i + 1, next.dest.name, chase)
     ELSE ~ (WritesLocal(next) /\ next.dest.name = n) /\ ReadBehind(ir, i + 1, n, chase)

\* The first of the PARAMs right before a call.
ArgumentStart(ir, at) ==
  CHOOSE p \in 1..at :
    /\ \A k \in p..(at - 1) : ir[k].op = "PARAM"
    /\ p = 1 \/ ir[p - 1].op # "PARAM"
Actuals(ir, at) ==
  [k \in 1..(at - ArgumentStart(ir, at)) |-> ir[ArgumentStart(ir, at) + k - 1].dest]
ActualsInOrder(ir, at) ==
  \A k \in ArgumentStart(ir, at)..(at - 1) : Is(ir[k].src1, k - ArgumentStart(ir, at))

-------------------------------------------------------------------------------
Largest(a, b) == IF a < b THEN b ELSE a

\* Whether the call at that place is expanded.
Accepted(ir, at) ==
  LET f == ir[at].src1.name
      caller == FunctionAt(ir, at)
      actuals == Actuals(ir, at)
      hot == InLoop(ir, at)
      single == Cardinality(CallsTo(ir, f)) = 1
      constant == /\ Len(actuals) = Len(Formals(ir, f))
                  /\ \A k \in 1..Len(actuals) : IsImm(actuals[k])
      size == BodySize(ir, f)
      expanded == size > InlineLimit /\ (single \/ constant \/ hot)
      limit == IF single \/ constant THEN SpecialLimit
               ELSE IF hot THEN Largest(InlineLimit, LoopLimit) ELSE InlineLimit
      copy == ir[at + 1]
  IN /\ IsCall(ir[at]) /\ f \in FunctionsOf(ir)
     /\ Reach(ir, f) \cap {f, caller} = {}
     /\ ~ (expanded /\ LoopsUnconditionally(ir, f))
     /\ expanded /\ IsLocal(ir[at].dest) => ReadBehind(ir, at, ir[at].dest.name, TRUE)
     /\ size <= limit
     /\ hot /\ size > BaseLoopLimit /\ IsLocal(ir[at].dest) /\ at < Len(ir)
          /\ copy.op = "ASSIGN" /\ IsLocal(copy.dest) /\ copy.src1 = ir[at].dest
        => ReadBehind(ir, at + 1, copy.dest.name, FALSE)
     /\ ActualsInOrder(ir, at) /\ Len(actuals) = Len(Formals(ir, f))

-------------------------------------------------------------------------------
\* The expansion.  temps and labels are the generator's counters.
PositionIn(seq, x) == CHOOSE k \in 1..Len(seq) : seq[k] = x

\* The names of a sequence of operands are numbered in order of occurrence.
NamesIn(operands) == {operands[k].name : k \in 1..Len(operands)}
NumberIn(operands, n) ==
  LET Has(o) == o.name = n IN Cardinality(NamesIn(SubSeq(operands, 1, SelectInSeq(operands, Has))))

MaterialPrefix == "p"

\* A parameter that the callee writes is copied to a new p...; one that it
\* only reads stands for the argument operand itself.
WrittenFormals(ir, f) ==
  LET Written(inst) == WrittenIn(ir, f, inst.dest.name) IN SelectSeq(Formals(ir, f), Written)

\* A jump right before its label goes, then every label no jump names.
RECURSIVE JumpsTidied(_)
JumpsTidied(code) ==
  IF Len(code) < 2 THEN code
  ELSE IF code[1].op = "BRANCH" /\ code[2].op = "LABEL" /\ code[2].dest = code[1].dest
  THEN JumpsTidied(Tail(code))
  ELSE << code[1] >> \o JumpsTidied(Tail(code))

Tidied(code) ==
  LET jumps == JumpsTidied(code)
      Stays(inst) == inst.op # "LABEL" \/ \E i \in 1..Len(jumps) :
                                            jumps[i].op \in BranchOps /\ jumps[i].dest = inst.dest
  IN SelectSeq(jumps, Stays)

\* Mutant: the labels of a body keep their names.
LabelKept(own, l, labels) == l

\* mapLabel: the label of the copy, behind the one of its end.
LabelOfCopy(own, l, labels) == <<"L", labels + NumberIn(own, l)>>

\* Of the RETURNs, all but the last of the body jump to its end; the last one
\* is dropped when one before it does.
Expansion(ir, at, temps, labels) ==
  LET f == ir[at].src1.name
      body == Body(ir, f)
      formals == Formals(ir, f)
      written == WrittenFormals(ir, f)
      returns == ~ IsNone(ir[at].dest)
      ret == Local(<<TempPrefix, temps + Len(written)>>)
      end == Label(<<"L", labels>>)
      RenamesTemp(o) == IsLocal(o) /\ IsTempName(o.name)
      own == SelectSeq(FlattenSeq([k \in 1..Len(body) |->
                         << body[k].dest, body[k].src1, body[k].src2 >>]), RenamesTemp)
      ownLabels == SelectSeq([k \in 1..Len(body) |-> body[k].dest], IsLabel)
      firstTemp == temps + Len(written) + Truth(returns)
      Binding(k) ==
        IF WrittenIn(ir, f, formals[k].dest.name)
        THEN Local(<<MaterialPrefix, temps + PositionIn(written, formals[k]) - 1>>)
        ELSE Actuals(ir, at)[k]
      New(o) ==
        IF RenamesTemp(o) THEN Local(<<TempPrefix, firstTemp + NumberIn(own, o.name) - 1>>)
        ELSE IF IsLabel(o) THEN Label(LabelOfCopy(ownLabels, o.name, labels))
        ELSE IF IsLocal(o) /\ \E k \in 1..Len(formals) : formals[k].dest = o
        THEN Binding(CHOOSE k \in 1..Len(formals) : formals[k].dest = o)
        ELSE o
      returnedBefore(k) == \E j \in 1..(k - 1) : body[j].op = "RETURN"
      ReturnCode(k) ==
        LET result == IF IsNone(body[k].dest) THEN Imm(0) ELSE New(body[k].dest)
            value == IF returns THEN << Move(ret, result) >> ELSE << >>
        IN IF k < Len(body) THEN Append(value, Inst("BRANCH", end, None, None))
           ELSE IF returnedBefore(k) THEN << >> ELSE value
      CodeOf(k) ==
        CASE IsParamDecl(body[k]) -> << >>
          [] body[k].op = "RETURN" -> ReturnCode(k)
          [] OTHER -> << Inst(body[k].op, New(body[k].dest), New(body[k].src1), New(body[k].src2)) >>
      entry == [k \in 1..Len(written) |->
                  Move(Local(<<MaterialPrefix, temps + k - 1>>),
                       Actuals(ir, at)[PositionIn(formals, written[k])])]
      exit == << Inst("LABEL", end, None, None) >>
                \o (IF returns THEN << Move(ir[at].dest, ret) >> ELSE << >>)
  IN [code   |-> Tidied(entry \o FlattenSeq([k \in 1..Len(body) |-> CodeOf(k)]) \o exit),
      temps  |-> firstTemp + Cardinality(NamesIn(own)),
      labels |-> labels + 1 + Cardinality(NamesIn(ownLabels))]

\* The expansions of the calls at these sites, one after the other.
RECURSIVE Expansions(_, _, _, _), ExpansionsFrom(_, _, _)
Expansions(ir, sites, temps, labels) ==
  IF sites = << >> THEN << >>
  ELSE ExpansionsFrom(ir, sites, Expansion(ir, Head(sites), temps, labels))
ExpansionsFrom(ir, sites, first) ==
  << first >> \o Expansions(ir, Tail(sites), first.temps, first.labels)

\* The code with the expansions in the place of the calls and their PARAMs.
Spliced(ir, sites, done) ==
  LET Replacement(i) ==
        IF \E k \in 1..Len(sites) : sites[k] = i THEN done[PositionIn(sites, i)].code
        ELSE IF \E k \in 1..Len(sites) : i \in ArgumentStart(ir, sites[k])..sites[k] THEN << >>
        ELSE << ir[i] >>
  IN FlattenSeq([i \in 1..Len(ir) |-> Replacement(i)])

Sites(ir) == LET Expanded(i) == Accepted(ir, i) IN SelectSeq([i \in 1..Len(ir) |-> i], Expanded)

Round(ir, sites, done, temps, labels) ==
  IF sites = << >> THEN [code |-> ir, temps |-> temps, labels |-> labels]
  ELSE [code |-> Spliced(ir, sites, done), temps |-> Last(done).temps, labels |-> Last(done).labels]

\* The code, and the counters, behind the round.
InlineRound(ir, temps, labels) ==
  LET sites == Sites(ir)
  IN Round(ir, sites, Expansions(ir, sites, temps, labels), temps, labels)
===============================================================================
