---------------------------- MODULE SemanticAnalysis ---------------------------
(***************************************************************************)
(* SemanticAnalyzer's walk over the syntax tree: analyzeFuncDef,           *)
(* analyzeStmt, analyzeDecl, analyzeExpr and tryConstFold.  It looks names *)
(* up in the symbol table, collects errors and annotates the tree; the     *)
(* annotated tree is the one that Lowering walks, with a constant for      *)
(* every use of one.                                                       *)
(*                                                                         *)
(* The tree of the parser has the nodes of Lowering, and in addition uses  *)
(* of names that nothing has been found out about (Var), +e (Pos) and      *)
(* declarations with a type and a const (VarDecl).  An error is the kind   *)
(* of its message.                                                         *)
(***************************************************************************)
EXTENDS Lowering, ScopeStack

CONSTANT Identifiers  \* the names that occur in a program

Var(n) == [node |-> "var", name |-> n]
Pos(e) == [node |-> "pos", arg |-> e]
VarDecl(type, n, e)  == [node |-> "vardecl", type |-> type, name |-> n, const |-> FALSE, init |-> e]
ConstDecl(n, e) == [VarDecl("int", n, e) EXCEPT !.const = TRUE]

\* A statement that nothing is generated for.
Nothing == Block(<< >>)

-------------------------------------------------------------------------------
\* The symbol table: a ScopeStack of symbols.
Symbol(type, const, global, val) ==
  [type |-> type, isConst |-> const, isFunction |-> FALSE, isGlobal |-> global,
   constValue |-> val, arity |-> 0]
FunctionSymbol(f) ==
  [Symbol(IF f.void THEN "void" ELSE "int", FALSE, TRUE, 0) EXCEPT
     !.isFunction = TRUE, !.arity = Len(f.params)]
NoSymbol == Symbol("none", FALSE, FALSE, 0)

EmptyScope == [n \in Identifiers |-> NoSymbol]
NewTable   == << EmptyScope >>
LookUp(table, n)  == Find(table, n, NoSymbol)
Declares(table, n) == TopOf(table)[n] # NoSymbol
\* Mutant: whether it is a function is not asked.
AnyNamed(table, f) == LookUp(table, f)
LookUpFunction(table, f) == IF table[1][f].isFunction THEN table[1][f] ELSE NoSymbol
IsGlobalScope(table) == Len(table) = 1

\* tryConstFold: the value of a constant expression, as a set of at most one.
RECURSIVE ConstFold(_, _)
ConstFold(table, e) ==
  CASE e.node = "num" -> {e.val}
    [] e.node = "var" -> {s.constValue : s \in {t \in {LookUp(table, e.name)} : t.isConst}}
    [] e.node \in {"bin", "and", "or"} ->
         LET Op(u, v) == CASE e.node = "bin" -> Compute(e.op, u, v)
                           [] e.node = "and" -> Truth(u # 0 /\ v # 0)
                           [] e.node = "or"  -> Truth(u # 0 \/ v # 0)
         IN UNION {{Op(u, v) : v \in {w \in ConstFold(table, e.rhs) :
                                       e.node = "bin" => Computable(e.op, w)}} :
                   u \in ConstFold(table, e.lhs)}
    [] e.node = "pos" -> ConstFold(table, e.arg)
    [] e.node = "neg" -> {Wrap(-v) : v \in ConstFold(table, e.arg)}
    [] e.node = "not" -> {Truth(v = 0) : v \in ConstFold(table, e.arg)}
    [] OTHER -> {}

-------------------------------------------------------------------------------
\* What analyzeExpr returns, writes into the tree, and reports.
Typed(type, e, errors) == [type |-> type, expr |-> e, errors |-> errors]
ErrorIf(c, kind) == IF c THEN {kind} ELSE {}

\* How the generator will read a use of the symbol.
Annotated(s, n) ==
  CASE s.isConst  -> Num(s.constValue)
    [] s.isGlobal -> GlobalVar(<<n, 0>>)
    [] OTHER      -> LocalVar(n)

RECURSIVE AnalyzeExpr(_, _)

AnalyzeVar(table, e) ==
  LET s == LookUp(table, e.name) IN
  IF s = NoSymbol THEN Typed("int", LocalVar(e.name), {"undefined variable"})
  ELSE Typed(s.type, Annotated(s, e.name), {})

AnalyzeBinary(table, e) ==
  LET l == AnalyzeExpr(table, e.lhs)
      r == AnalyzeExpr(table, e.rhs)
  IN Typed("int", [e EXCEPT !.lhs = l.expr, !.rhs = r.expr],
           l.errors \cup r.errors \cup ErrorIf("void" \in {l.type, r.type}, "void operand"))

\* The type of the right side is not looked at.
AnalyzeAssign(table, e) ==
  LET l == AnalyzeExpr(table, e.lhs)
      r == AnalyzeExpr(table, e.rhs)
      isVar == e.lhs.node = "var"
  IN Typed(l.type, [e EXCEPT !.lhs = l.expr, !.rhs = r.expr],
           l.errors \cup r.errors
             \cup ErrorIf(~ isVar, "not a variable")
             \cup ErrorIf(isVar /\ LookUp(table, e.lhs.name).isConst, "assignment to const"))

AnalyzeUnary(table, e) ==
  LET v == AnalyzeExpr(table, e.arg) IN
  Typed("int", IF e.node = "pos" THEN v.expr ELSE [e EXCEPT !.arg = v.expr],
        v.errors \cup ErrorIf(v.type = "void", "void operand"))

\* The types of the arguments are not looked at; without a function the
\* arguments are not even walked.
AnalyzeCall(table, e) ==
  LET f == LookUpFunction(table, e.func[1])
      v == [i \in DOMAIN e.args |-> AnalyzeExpr(table, e.args[i])]
  IN IF f = NoSymbol THEN Typed("int", e, {"undefined function"})
     ELSE Typed(f.type,
                [e EXCEPT !.node = IF f.type = "void" THEN "voidcall" ELSE "call",
                          !.args = [i \in DOMAIN v |-> v[i].expr]],
                UNION {v[i].errors : i \in DOMAIN v}
                  \cup ErrorIf(Len(e.args) # f.arity, "number of arguments"))

AnalyzeExpr(table, e) ==
  CASE e.node \in {"num", "none"}       -> Typed("int", e, {})
    [] e.node = "var"                   -> AnalyzeVar(table, e)
    [] e.node \in {"bin", "and", "or"}  -> AnalyzeBinary(table, e)
    [] e.node = "assign"                -> AnalyzeAssign(table, e)
    [] e.node \in {"pos", "neg", "not"} -> AnalyzeUnary(table, e)
    [] e.node = "call"                  -> AnalyzeCall(table, e)

-------------------------------------------------------------------------------
\* The table after a declaration or a statement, what stands for it in the
\* tree, and its errors.
Walked(table, s, errors) == [table |-> table, stmt |-> s, errors |-> errors]

\* Mutant: the value goes to the declaration and not into the symbol.
SymbolWithoutValue(d, global, val) == Symbol(d.type, d.const, global, 0)
SymbolOf(d, global, val) == Symbol(d.type, d.const, global, IF d.const THEN val ELSE 0)

\* What genDecl makes of a declaration: nothing of a constant.
DeclNode(d, global, init, val) ==
  CASE d.const -> Nothing
    [] global  -> GlobalDecl(<<d.name, 0>>, val)
    [] OTHER   -> Decl(d.name, init)

AnalyzeDecl(table, d) ==
  LET init   == AnalyzeExpr(table, d.init)
      global == IsGlobalScope(table)
      folded == IF d.init.node = "none" THEN {0}
                ELSE IF d.const \/ global THEN ConstFold(table, d.init) ELSE {0}
      val    == IF folded = {} THEN 0 ELSE CHOOSE v \in folded : TRUE
  IN IF Declares(table, d.name) THEN Walked(table, Nothing, {"declared twice"})
     ELSE Walked(BindTop(table, d.name, SymbolOf(d, global, val)),
                 DeclNode(d, global, init.expr, val),
                 init.errors \cup ErrorIf(init.type = "void", "void initialiser")
                   \cup ErrorIf(folded = {}, "not a constant"))

\* In a function: whether it is void, and whileDepth.
Inside(void, depth) == [void |-> void, depth |-> depth]
Deeper(in) == [in EXCEPT !.depth = @ + 1]

RECURSIVE AnalyzeStmt(_, _, _), AnalyzeStmts(_, _, _)

AnalyzeStmts(table, ss, in) ==
  IF ss = << >> THEN [table |-> table, stmts |-> << >>, errors |-> {}]
  ELSE LET first == AnalyzeStmt(table, Head(ss), in)
           rest  == AnalyzeStmts(first.table, Tail(ss), in)
       IN [table |-> rest.table, stmts |-> << first.stmt >> \o rest.stmts,
           errors |-> first.errors \cup rest.errors]

\* Mutant: without exitScope.
BlockLeftOpen(table, s, in) ==
  LET b == AnalyzeStmts(Push(table, EmptyScope), s.stmts, in)
  IN Walked(b.table, [s EXCEPT !.stmts = b.stmts], b.errors)

AnalyzeBlock(table, s, in) ==
  LET b == AnalyzeStmts(Push(table, EmptyScope), s.stmts, in)
  IN Walked(Pop(b.table), [s EXCEPT !.stmts = b.stmts], b.errors)

AnalyzeIf(table, s, in) ==
  LET c == AnalyzeExpr(table, s.cond)
      t == AnalyzeStmt(table, s.then, in)
      e == AnalyzeStmt(t.table, s.else, in)
  IN IF s.node = "if"
     THEN Walked(t.table, If(c.expr, t.stmt), c.errors \cup t.errors)
     ELSE Walked(e.table, IfElse(c.expr, t.stmt, e.stmt), c.errors \cup t.errors \cup e.errors)

AnalyzeWhile(table, s, in) ==
  LET c == AnalyzeExpr(table, s.cond)
      b == AnalyzeStmt(table, s.body, Deeper(in))
  IN Walked(b.table, While(c.expr, b.stmt), c.errors \cup b.errors)

AnalyzeReturn(table, s, in) ==
  LET v == AnalyzeExpr(table, s.value)
      bare == s.value.node = "none"
  IN Walked(table, Return(v.expr),
            v.errors \cup ErrorIf(v.type = "void", "void value")
              \cup ErrorIf(in.void /\ ~ bare, "value in void function")
              \cup ErrorIf(~ in.void /\ bare, "no value"))

AnalyzeStmt(table, s, in) ==
  CASE s.node = "block"            -> AnalyzeBlock(table, s, in)
    [] s.node = "expr"             -> LET v == AnalyzeExpr(table, s.expr)
                                      IN Walked(table, Expr(v.expr), v.errors)
    [] s.node = "vardecl"          -> AnalyzeDecl(table, s)
    [] s.node \in {"if", "ifelse"} -> AnalyzeIf(table, s, in)
    [] s.node = "while"            -> AnalyzeWhile(table, s, in)
    [] s.node \in {"break", "continue"} ->
         Walked(table, s, ErrorIf(in.depth = 0, "not in a loop"))
    [] s.node = "return"           -> AnalyzeReturn(table, s, in)

\* A parameter that is declared already keeps the first symbol.
RECURSIVE AddParams(_, _)
AddParams(table, ps) ==
  IF ps = << >> THEN Walked(table, Nothing, {})
  ELSE LET twice == Declares(table, Head(ps))
           added == IF twice THEN table
                    ELSE BindTop(table, Head(ps), Symbol("int", FALSE, FALSE, 0))
           rest  == AddParams(added, Tail(ps))
       IN [rest EXCEPT !.errors = @ \cup ErrorIf(twice, "parameter declared twice")]

AnalyzeFuncDef(table, f) ==
  LET params == AddParams(Push(table, EmptyScope), f.params)
      body   == AnalyzeStmts(params.table, f.body, Inside(f.void, 0))
  IN Walked(Pop(body.table), [f EXCEPT !.body = body.stmts], params.errors \cup body.errors)

AnalyzeGlobalDecl(table, d) ==
  IF d.node = "funcdef" THEN AnalyzeFuncDef(table, d) ELSE AnalyzeDecl(table, d)
===============================================================================
