------------------------------- MODULE Lowering -------------------------------
(***************************************************************************)
(* IRGenerator's walk over the annotated syntax tree: genFuncDef, genDecl, *)
(* genStmt, genExpr and genShortCircuit, with the folding and the          *)
(* simplifications that genExpr does on the way.  Every operator takes the *)
(* generator's state g and returns it extended.                            *)
(*                                                                         *)
(* A use of a variable is a LocalVar or a GlobalVar node, as the semantic  *)
(* analysis annotated it; uses of constants are Num nodes, and +e is e.    *)
(* The IR name of a global is its source name, so the tree has it in the   *)
(* form that IR wants.                                                     *)
(***************************************************************************)
EXTENDS Algebra, TLC

\* Expressions.
Num(v)          == [node |-> "num", val |-> v]
LocalVar(n)     == [node |-> "local", name |-> n]
GlobalVar(n)    == [node |-> "global", irName |-> n]
Bin(op, l, r)   == [node |-> "bin", op |-> op, lhs |-> l, rhs |-> r]
And(l, r)       == [node |-> "and", lhs |-> l, rhs |-> r]
Or(l, r)        == [node |-> "or", lhs |-> l, rhs |-> r]
Assign(x, e)    == [node |-> "assign", lhs |-> x, rhs |-> e]
Neg(e)          == [node |-> "neg", arg |-> e]
Not(e)          == [node |-> "not", arg |-> e]
CallOf(f, args) == [node |-> "call", func |-> f, args |-> args]
VoidCall(f, args) == [node |-> "voidcall", func |-> f, args |-> args]
NoExpr          == [node |-> "none"]

\* Statements and global declarations.
Expr(e)          == [node |-> "expr", expr |-> e]
Decl(n, e)       == [node |-> "decl", name |-> n, init |-> e]
If(c, t)         == [node |-> "if", cond |-> c, then |-> t]
IfElse(c, t, e)  == [node |-> "ifelse", cond |-> c, then |-> t, else |-> e]
While(c, b)      == [node |-> "while", cond |-> c, body |-> b]
Block(ss)        == [node |-> "block", stmts |-> ss]
Break            == [node |-> "break"]
Continue         == [node |-> "continue"]
Return(e)        == [node |-> "return", value |-> e]
GlobalDecl(n, v) == [node |-> "globaldecl", name |-> n, val |-> v]
FuncDef(f, params, body) ==
  [node |-> "funcdef", name |-> f, void |-> FALSE, params |-> params, body |-> body]
VoidDef(f, params, body) == [FuncDef(f, params, body) EXCEPT !.void = TRUE]

-------------------------------------------------------------------------------
\* The generator: the code so far, its counters, varScopeStack_ and the loops.
Fresh == [code |-> << >>, temps |-> 0, labels |-> 0, vars |-> 0, scopes |-> << >>,
          loops |-> << >>]

TempName(k)  == <<TempPrefix, k>>
LabelName(k) == <<"L", k>>
VarName(n, k) == <<n \o ".", k>>

Emit(g, inst)     == [g EXCEPT !.code = Append(@, inst)]
EmitAll(g, insts) == [g EXCEPT !.code = @ \o insts]
NewTemps(g, k)    == [g EXCEPT !.temps = @ + k]
NewLabels(g, k)   == [g EXCEPT !.labels = @ + k]
EnterScope(g)     == [g EXCEPT !.scopes = Append(@, << >>)]
ExitScope(g)      == [g EXCEPT !.scopes = SubSeq(@, 1, Len(@) - 1)]

DeclareVar(g, n) ==
  [g EXCEPT !.vars = @ + 1, !.scopes[Len(g.scopes)] = (n :> VarName(n, g.vars)) @@ @]

ResolveVar(g, n) ==
  LET at == CHOOSE i \in 1..Len(g.scopes) :
              /\ n \in DOMAIN g.scopes[i]
              /\ \A j \in (i + 1)..Len(g.scopes) : n \notin DOMAIN g.scopes[j]
  IN g.scopes[at][n]

LabelInst(k)         == Inst("LABEL", Label(LabelName(k)), None, None)
BranchTo(k)          == Inst("BRANCH", Label(LabelName(k)), None, None)
BranchIf(op, k, c)   == Inst(op, Label(LabelName(k)), c, None)

\* What genExpr knows about a op b without emitting anything.
Simplified(op, a, b) ==
  IF IsImm(a) /\ IsImm(b) /\ Computable(op, b.imm) THEN Imm(Compute(op, a.imm, b.imm))
  ELSE Neutral(op, a, b)

\* An operand and the generator that has computed it.
Got(g, o) == [gen |-> g, val |-> o]

IntoTemp(g, op, a, b) ==
  LET t == Local(TempName(g.temps)) IN
  Got(Emit(NewTemps(g, 1), Computation(op, t, a, b)), t)

RECURSIVE GenExpr(_, _), GenArgs(_, _)

\* The left operand is computed first; a variable is not copied, its value
\* is read by the instruction that uses the operand.
GenBinary(g, e) ==
  LET l == GenExpr(g, e.lhs)
      r == GenExpr(l.gen, e.rhs)
      known == Simplified(e.op, l.val, r.val)
  IN IF IsNone(known) THEN IntoTemp(r.gen, e.op, l.val, r.val) ELSE Got(r.gen, known)

GenAssign(g, e) ==
  LET r == GenExpr(g, e.rhs)
      x == GenExpr(g, e.lhs).val
  IN Got(IF IsLocal(x) /\ Names(r.val, x.name) THEN r.gen ELSE Emit(r.gen, Move(x, r.val)), x)

\* Of the three labels (true, false, end) an AND uses the last two, an OR the
\* first and the last.
GenShortCircuit(g, e) ==
  LET isAnd  == e.node = "and"
      result == Local(TempName(g.temps))
      short  == IF isAnd THEN g.labels + 1 ELSE g.labels
      end    == g.labels + 2
      branch == IF isAnd THEN "BEQZ" ELSE "BNEZ"
      l == GenExpr(NewLabels(NewTemps(g, 1), 3), e.lhs)
      r == GenExpr(Emit(l.gen, BranchIf(branch, short, l.val)), e.rhs)
  IN Got(EmitAll(r.gen,
           << BranchIf(branch, short, r.val),
              Move(result, Imm(Truth(isAnd))), BranchTo(end),
              LabelInst(short), Move(result, Imm(Truth(~ isAnd))), LabelInst(end) >>),
         result)

GenUnary(g, e) ==
  LET a == GenExpr(g, e.arg)
      t == Local(TempName(a.gen.temps))
      neg == e.node = "neg"
      inst == IF neg THEN Inst("SUB", t, Imm(0), a.val) ELSE Inst("NOT", t, a.val, None)
  IN IF IsImm(a.val)
     THEN Got(a.gen, Imm(IF neg THEN Wrap(-a.val.imm) ELSE Truth(a.val.imm = 0)))
     ELSE Got(Emit(NewTemps(a.gen, 1), inst), t)

\* All arguments are computed before the first PARAM.
GenArgs(g, args) ==
  IF args = << >> THEN [gen |-> g, vals |-> << >>]
  ELSE LET a == GenExpr(g, Head(args))
           rest == GenArgs(a.gen, Tail(args))
       IN [gen |-> rest.gen, vals |-> << a.val >> \o rest.vals]

GenCall(g, e) ==
  LET a == GenArgs(g, e.args)
      params == [i \in 1..Len(a.vals) |-> Inst("PARAM", a.vals[i], Imm(i - 1), None)]
      void == e.node = "voidcall"
      t == IF void THEN None ELSE Local(TempName(a.gen.temps))
  IN Got(EmitAll(NewTemps(a.gen, Truth(~ void)), Append(params, Inst("CALL", t, Func(e.func), None))), t)

GenExpr(g, e) ==
  CASE e.node = "num"    -> Got(g, Imm(e.val))
    [] e.node = "local"  -> Got(g, Local(ResolveVar(g, e.name)))
    [] e.node = "global" -> Got(g, Global(e.irName))
    [] e.node = "bin"    -> GenBinary(g, e)
    [] e.node = "assign" -> GenAssign(g, e)
    [] e.node \in {"and", "or"}  -> GenShortCircuit(g, e)
    [] e.node \in {"neg", "not"} -> GenUnary(g, e)
    [] e.node \in {"call", "voidcall"} -> GenCall(g, e)

-------------------------------------------------------------------------------
RECURSIVE GenStmt(_, _), GenStmts(_, _)

GenStmts(g, ss) == IF ss = << >> THEN g ELSE GenStmts(GenStmt(g, Head(ss)), Tail(ss))

GenDecl(g, s) ==
  LET d == DeclareVar(g, s.name)
      x == Local(VarName(s.name, g.vars))
      declared == Emit(d, Inst("LOCAL_VAR_DECL", x, None, None))
      init == GenExpr(declared, s.init)
  IN IF s.init.node = "none" THEN declared ELSE Emit(init.gen, Move(x, init.val))

\* Mutant: without the jump over the else branch.
ThenFallsThrough(g, s) ==
  LET c == GenExpr(NewLabels(g, 2), s.cond)
      t == GenStmt(Emit(c.gen, BranchIf("BEQZ", g.labels, c.val)), s.then)
      e == Emit(t, LabelInst(g.labels))
  IN IF s.node = "if" THEN e ELSE Emit(GenStmt(e, s.else), LabelInst(g.labels + 1))

GenIf(g, s) ==
  LET elseLabel == g.labels
      endLabel  == g.labels + 1
      c == GenExpr(NewLabels(g, 2), s.cond)
      t == GenStmt(Emit(c.gen, BranchIf("BEQZ", elseLabel, c.val)), s.then)
  IN IF s.node = "if" THEN Emit(t, LabelInst(elseLabel))
     ELSE Emit(GenStmt(EmitAll(t, << BranchTo(endLabel), LabelInst(elseLabel) >>), s.else),
               LabelInst(endLabel))

GenWhile(g, s) ==
  LET condLabel == g.labels
      bodyLabel == g.labels + 1
      endLabel  == g.labels + 2
      inLoop == [NewLabels(g, 3) EXCEPT !.loops = Append(@, [brk |-> endLabel, cont |-> condLabel])]
      c == GenExpr(Emit(inLoop, LabelInst(condLabel)), s.cond)
      b == GenStmt(EmitAll(c.gen, << BranchIf("BEQZ", endLabel, c.val), LabelInst(bodyLabel) >>),
                   s.body)
  IN [EmitAll(b, << BranchTo(condLabel), LabelInst(endLabel) >>) EXCEPT
        !.loops = SubSeq(@, 1, Len(@) - 1)]

GenReturn(g, s) ==
  IF s.value.node = "none" THEN Emit(g, Inst("RETURN", None, None, None))
  ELSE LET v == GenExpr(g, s.value) IN Emit(v.gen, Inst("RETURN", v.val, None, None))

GenStmt(g, s) ==
  CASE s.node = "block"    -> ExitScope(GenStmts(EnterScope(g), s.stmts))
    [] s.node = "expr"     -> GenExpr(g, s.expr).gen
    [] s.node = "decl"     -> GenDecl(g, s)
    [] s.node \in {"if", "ifelse"} -> GenIf(g, s)
    [] s.node = "while"    -> GenWhile(g, s)
    [] s.node = "break"    -> Emit(g, BranchTo(g.loops[Len(g.loops)].brk))
    [] s.node = "continue" -> Emit(g, BranchTo(g.loops[Len(g.loops)].cont))
    [] s.node = "return"   -> GenReturn(g, s)

-------------------------------------------------------------------------------
RECURSIVE GenParams(_, _)

GenParams(g, ps) ==
  IF ps = << >> THEN g
  ELSE GenParams(
         Emit(DeclareVar(g, Head(ps)),
              Inst("LOCAL_VAR_DECL", Local(VarName(Head(ps), g.vars)), Param(<<Head(ps), 0>>), None)),
         Tail(ps))

\* A function that reaches its end returns, an int function 0.
GenFuncDef(g, f) ==
  LET begin == EnterScope(Emit(g, Inst("FUNC_BEGIN", Func(f.name), None, None)))
      body  == GenStmts(GenParams(begin, f.params), f.body)
      default == Inst("RETURN", IF f.void THEN None ELSE Imm(0), None, None)
  IN ExitScope(EmitAll(body, << default, Inst("FUNC_END", Func(f.name), None, None) >>))

GenGlobal(g, d) ==
  IF d.node = "funcdef" THEN GenFuncDef(g, d)
  ELSE Emit(g, Inst("GLOBAL_VAR_DECL", Global(d.name), Imm(d.val), None))

RECURSIVE GenGlobals(_, _)
GenGlobals(g, ds) == IF ds = << >> THEN g ELSE GenGlobals(GenGlobal(g, Head(ds)), Tail(ds))

\* generate, up to the first inlinePass: the code, and the counters.
CodeOf(g) == [code |-> g.code, temps |-> g.temps, labels |-> g.labels]
Generated(unit) == CodeOf(GenGlobals(Fresh, unit))
Lower(unit) == Generated(unit).code
===============================================================================
