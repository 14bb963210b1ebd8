------------------------------- MODULE Scoping --------------------------------
(***************************************************************************)
(* Name resolution happens twice in this compiler.  SemanticAnalyzer walks *)
(* the syntax tree with a SymbolTable and annotates every VarExpr with     *)
(* isConst, constValue and isGlobal; IRGenerator walks the same tree again *)
(* with its own stack varScopeStack_, and resolves the names that were not *)
(* annotated as constant or global to unique IR names.  Nothing but the    *)
(* shape of the two walks keeps the two tables in agreement.               *)
(*                                                                         *)
(* The module runs the two walks side by side over one tree, an action per *)
(* construct.  The real second walk starts when the first has ended without*)
(* an error; since the second reads nothing of the first but annotations   *)
(* of nodes already visited, the joint walk reaches the same pairs of      *)
(* tables.  The first semantic error ends it (accepted = FALSE), because   *)
(* main.cpp generates no IR then.                                          *)
(***************************************************************************)
EXTENDS ScopeStack

CONSTANTS Name,       \* identifiers of the program, main excluded
          NoName,     \* not an identifier
          MaxNesting, \* bound: open functions, blocks and loops
          MaxDecls,   \* bound: declarations of one program
          MaxLabels   \* bound: labels of one program

ASSUME NoNameIsNoName == NoName \notin Name
ASSUME BoundsAreNaturals ==
  MaxNesting \in Nat /\ MaxDecls \in Nat /\ MaxLabels \in Nat

VARIABLES
  accepted,    \* no semantic error so far
  scopes,      \* SymbolTable::scopes, the global scope first
  whileDepth,  \* SemanticAnalyzer::whileDepth
  varScopes,   \* IRGenerator::varScopeStack_
  varCounter,  \* IRGenerator::varCounter_
  labelCounter,\* IRGenerator::labelCounter
  loopStack,   \* IRGenerator::loopStack, innermost last
  nest,        \* the constructs open in the tree walk, outermost first
  pending,     \* the declaration whose initialiser is being walked, if any
  irNameOf     \* history: the IR name of every declaration met, in order

semaVars == <<accepted, scopes, whileDepth>>
genVars  == <<varScopes, varCounter, labelCounter, loopStack>>
walkVars == <<nest, pending, irNameOf>>
vars == <<semaVars, genVars, walkVars>>

\* A symbol is identified by the number of its declaration, its place in
\* irNameOf; the functions, known from the start, have number 0.  The kind
\* stands for the flags isConst, isGlobal and isFunction.
SymbolKinds == {"function", "global", "globalConst", "local", "localConst"}
Symbol == [decl : Nat, kind : SymbolKinds]
NoSymbol == [decl |-> -1, kind |-> "none"]

IsConst(sym)    == sym.kind \in {"globalConst", "localConst"}
IsGlobal(sym)   == sym.kind \in {"function", "global", "globalConst"}
IsFunction(sym) == sym.kind = "function"

FunctionSymbol == [decl |-> 0, kind |-> "function"]

\* An IR name is the source name with a number ("x.3"); resolveVar falls
\* back to the bare source name when no scope binds it.
IrName(n, k) == [base |-> n, number |-> k]
BareName(n)  == [base |-> n, number |-> -1]
NoIrName     == [base |-> NoName, number |-> -2]

NoPending == [name |-> NoName, decl |-> -1]

EmptySymbols  == [n \in Name |-> NoSymbol]
EmptyVarScope == [n \in Name |-> NoIrName]

\* SymbolTable::lookup, lookupCurrent and lookupFunction.
Lookup(n)         == Find(scopes, n, NoSymbol)
Redeclared(n)     == TopOf(scopes)[n] # NoSymbol
IsFunctionName(n) == IsFunction(scopes[1][n])

\* Mutant: the symbol goes to the global scope.
AddSymbolInGlobalScope(n, sym) == scopes' = [scopes EXCEPT ![1][n] = sym]

\* SymbolTable::addSymbol keeps the first symbol of a name.
AddSymbol(n, sym) ==
  scopes' = IF TopOf(scopes)[n] # NoSymbol THEN scopes ELSE BindTop(scopes, n, sym)

\* IRGenerator::resolveVar.
ResolveVar(n) ==
  LET e == Find(varScopes, n, NoIrName) IN IF e = NoIrName THEN BareName(n) ELSE e

\* Mutant: the number of the variable is not used up.
DeclareVarSameNumber(n) ==
  /\ varScopes' = BindTop(varScopes, n, IrName(n, varCounter))
  /\ varCounter' = varCounter
  /\ irNameOf' = Append(irNameOf, IrName(n, varCounter))

\* IRGenerator::declareVar.
DeclareVar(n) ==
  /\ varScopes' = BindTop(varScopes, n, IrName(n, varCounter))
  /\ varCounter' = varCounter + 1
  /\ irNameOf' = Append(irNameOf, IrName(n, varCounter))

\* A declaration that gets no IR name.
NoVar == irNameOf' = Append(irNameOf, NoIrName)

-------------------------------------------------------------------------------
Walking == accepted /\ pending = NoPending
AtTopLevel == Walking /\ nest = << >>
InBody == Walking /\ nest # << >> /\ TopOf(nest).kind # "params"
\* Expressions occur everywhere but among the parameters.
Evaluating == accepted /\ (nest # << >> => TopOf(nest).kind # "params")
CanDeclare == Len(irNameOf) < MaxDecls
ThisDecl == Len(irNameOf) + 1
CanNest == Len(nest) < MaxNesting

\* A construct of the tree: how many scopes are open inside it and how many
\* loops it is inside of, itself included, which is what the walks ought to
\* have in their tables; and, for a loop, its labels.
Level == IF nest = << >> THEN 1 ELSE TopOf(nest).level
LoopsAround == IF nest = << >> THEN 0 ELSE TopOf(nest).loops

Function == [kind |-> "params", level |-> Level + 1, loops |-> 0, brk |-> -1, cont |-> -1]
Block == [kind |-> "block", level |-> Level + 1, loops |-> LoopsAround, brk |-> -1, cont |-> -1]
Loop(b, c) == [kind |-> "loop", level |-> Level, loops |-> LoopsAround + 1, brk |-> b, cont |-> c]

\* An error is reported: the program is refused and no IR is generated.
Refuse ==
  /\ accepted' = FALSE
  /\ UNCHANGED <<scopes, whileDepth, genVars, walkVars>>

\* collectGlobals has registered the functions fs before either walk.
Init ==
  /\ accepted = TRUE
  /\ \E fs \in SUBSET Name :
       scopes = << [n \in Name |-> IF n \in fs THEN FunctionSymbol ELSE NoSymbol] >>
  /\ whileDepth = 0
  /\ varScopes = << >>
  /\ varCounter = 0
  /\ labelCounter = 0
  /\ loopStack = << >>
  /\ nest = << >>
  /\ pending = NoPending
  /\ irNameOf = << >>

\* A global variable or constant: only the symbol table records it, the IR
\* keeps its source name.
DeclareGlobal(n, kind) ==
  /\ AtTopLevel /\ CanDeclare
  /\ ~ Redeclared(n)
  /\ AddSymbol(n, [decl |-> ThisDecl, kind |-> kind])
  /\ NoVar
  /\ UNCHANGED <<accepted, whileDepth, genVars, nest, pending>>

EnterFunction ==
  /\ AtTopLevel /\ CanNest
  /\ scopes' = Push(scopes, EmptySymbols)
  /\ whileDepth' = 0
  /\ varScopes' = Push(varScopes, EmptyVarScope)
  /\ nest' = Append(nest, Function)
  /\ UNCHANGED <<accepted, varCounter, labelCounter, loopStack, pending, irNameOf>>

DeclareParam(n) ==
  /\ Walking /\ CanDeclare
  /\ nest # << >> /\ TopOf(nest).kind = "params"
  /\ ~ Redeclared(n)
  /\ AddSymbol(n, [decl |-> ThisDecl, kind |-> "local"])
  /\ DeclareVar(n)
  /\ UNCHANGED <<accepted, whileDepth, labelCounter, loopStack, nest, pending>>

\* The parameters are done; the body is analysed in the same scope.
EnterBody ==
  /\ Walking
  /\ nest # << >> /\ TopOf(nest).kind = "params"
  /\ nest' = [nest EXCEPT ![Len(nest)].kind = "body"]
  /\ UNCHANGED <<semaVars, genVars, pending, irNameOf>>

\* Mutant: the IR generator does not leave the scope.
LeaveOneScope ==
  /\ scopes' = IF Len(scopes) > 1 THEN Pop(scopes) ELSE scopes
  /\ UNCHANGED varScopes

\* SymbolTable::exitScope never pops the global scope, exitVarScope never
\* pops an empty stack.
LeaveScopes ==
  /\ scopes' = IF Len(scopes) > 1 THEN Pop(scopes) ELSE scopes
  /\ varScopes' = IF varScopes # << >> THEN Pop(varScopes) ELSE varScopes

\* Mutant: the body is left as a block of its own, and nothing keeps the
\* global scope.
ExitFunctionTwice ==
  /\ InBody /\ TopOf(nest).kind = "body"
  /\ scopes' = Pop(Pop(scopes))
  /\ varScopes' = Pop(Pop(varScopes))
  /\ nest' = Pop(nest)
  /\ UNCHANGED <<accepted, whileDepth, varCounter, labelCounter, loopStack, pending,
                 irNameOf>>

ExitFunction ==
  /\ InBody /\ TopOf(nest).kind = "body"
  /\ LeaveScopes
  /\ nest' = Pop(nest)
  /\ UNCHANGED <<accepted, whileDepth, varCounter, labelCounter, loopStack, pending,
                 irNameOf>>

EnterBlock ==
  /\ InBody /\ CanNest
  /\ scopes' = Push(scopes, EmptySymbols)
  /\ varScopes' = Push(varScopes, EmptyVarScope)
  /\ nest' = Append(nest, Block)
  /\ UNCHANGED <<accepted, whileDepth, varCounter, labelCounter, loopStack, pending,
                 irNameOf>>

ExitBlock ==
  /\ InBody /\ TopOf(nest).kind = "block"
  /\ LeaveScopes
  /\ nest' = Pop(nest)
  /\ UNCHANGED <<accepted, whileDepth, varCounter, labelCounter, loopStack, pending,
                 irNameOf>>

\* A while statement opens no scope of its own: a declaration that is its
\* whole body lands in the enclosing scope, in both walks.  The three labels
\* are those of the condition, the body and the end.
EnterLoop ==
  /\ InBody /\ CanNest /\ labelCounter + 3 <= MaxLabels
  /\ whileDepth' = whileDepth + 1
  /\ loopStack' = Append(loopStack, [brk |-> labelCounter + 2, cont |-> labelCounter])
  /\ nest' = Append(nest, Loop(labelCounter + 2, labelCounter))
  /\ labelCounter' = labelCounter + 3
  /\ UNCHANGED <<accepted, scopes, varScopes, varCounter, pending, irNameOf>>

\* Mutant: the labels of the loop stay on the stack.
ExitLoopKeepingLabels ==
  /\ InBody /\ TopOf(nest).kind = "loop"
  /\ whileDepth' = whileDepth - 1
  /\ nest' = Pop(nest)
  /\ UNCHANGED <<accepted, scopes, varScopes, varCounter, labelCounter, loopStack, pending,
                 irNameOf>>

ExitLoop ==
  /\ InBody /\ TopOf(nest).kind = "loop"
  /\ whileDepth' = whileDepth - 1
  /\ loopStack' = Pop(loopStack)
  /\ nest' = Pop(nest)
  /\ UNCHANGED <<accepted, scopes, varScopes, varCounter, labelCounter, pending,
                 irNameOf>>

\* A constant is folded during analysis: genDecl returns at once.
DeclareConst(n) ==
  /\ InBody /\ CanDeclare
  /\ ~ Redeclared(n)
  /\ AddSymbol(n, [decl |-> ThisDecl, kind |-> "localConst"])
  /\ NoVar
  /\ UNCHANGED <<accepted, whileDepth, genVars, nest, pending>>

\* A local variable without initialiser.
DeclareLocal(n) ==
  /\ InBody /\ CanDeclare
  /\ ~ Redeclared(n)
  /\ AddSymbol(n, [decl |-> ThisDecl, kind |-> "local"])
  /\ DeclareVar(n)
  /\ UNCHANGED <<accepted, whileDepth, labelCounter, loopStack, nest, pending>>

\* A local variable with an initialiser: genDecl declares the variable, then
\* walks the initialiser; analyzeDecl walks the initialiser, then adds the
\* symbol.
BeginInitialiser(n) ==
  /\ InBody /\ CanDeclare
  /\ ~ Redeclared(n)
  /\ DeclareVar(n)
  /\ pending' = [name |-> n, decl |-> ThisDecl]
  /\ UNCHANGED <<semaVars, labelCounter, loopStack, nest>>

EndInitialiser ==
  /\ accepted /\ pending # NoPending
  /\ AddSymbol(pending.name, [decl |-> pending.decl, kind |-> "local"])
  /\ pending' = NoPending
  /\ UNCHANGED <<accepted, whileDepth, genVars, nest, irNameOf>>

\* The errors that concern names and loops.
RefuseRedeclaration(n) == Walking /\ Redeclared(n) /\ Refuse
RefuseUnknown(n) == Evaluating /\ Lookup(n) = NoSymbol /\ Refuse
RefuseAssignment(n) == Evaluating /\ IsConst(Lookup(n)) /\ Refuse
RefuseCall(n) == Evaluating /\ ~ IsFunctionName(n) /\ Refuse
RefuseBreak == InBody /\ whileDepth = 0 /\ Refuse

Next ==
  \/ EnterFunction \/ EnterBody \/ ExitFunction
  \/ EnterBlock \/ ExitBlock
  \/ EnterLoop \/ ExitLoop
  \/ EndInitialiser
  \/ RefuseBreak
  \/ \E n \in Name :
       \/ DeclareGlobal(n, "global") \/ DeclareGlobal(n, "globalConst")
       \/ DeclareParam(n) \/ DeclareConst(n)
       \/ DeclareLocal(n) \/ BeginInitialiser(n)
       \/ RefuseRedeclaration(n) \/ RefuseUnknown(n)
       \/ RefuseAssignment(n) \/ RefuseCall(n)

Spec == Init /\ [][Next]_vars

-------------------------------------------------------------------------------
IrNames == [base : Name, number : Nat]
LoopLabels == [brk : Nat, cont : Nat]
Construct == [kind : {"params", "body", "block", "loop"}, level : Nat, loops : Nat,
              brk : Nat \union {-1}, cont : Nat \union {-1}]

TablesTyped ==
  /\ accepted \in BOOLEAN
  /\ scopes \in Seq([Name -> Symbol \union {NoSymbol}]) /\ scopes # << >>
  /\ varScopes \in Seq([Name -> IrNames \union {NoIrName}])
  /\ varCounter \in Nat
  /\ pending \in {NoPending} \union [name : Name, decl : Nat]
  /\ irNameOf \in Seq(IrNames \union {NoIrName})

NestTyped ==
  /\ whileDepth \in Int
  /\ labelCounter \in Nat
  /\ loopStack \in Seq(LoopLabels)
  /\ nest \in Seq(Construct)

TypeOK == TablesTyped /\ NestTyped

\* What genExpr makes of a use of n, following the annotations that the
\* semantic analysis left on it.
OperandOf(n) ==
  LET sym == Lookup(n) IN
  CASE IsConst(sym) -> [class |-> "const", of |-> sym.decl]
    [] ~ IsConst(sym) /\ IsGlobal(sym) -> [class |-> "global", of |-> n]
    [] OTHER -> [class |-> "local", of |-> ResolveVar(n)]

\* The storage that the declaration found by the semantic analysis owns.
StorageOf(n) ==
  LET sym == Lookup(n) IN
  CASE IsConst(sym) -> [class |-> "const", of |-> sym.decl]
    [] ~ IsConst(sym) /\ IsGlobal(sym) -> [class |-> "global", of |-> n]
    [] OTHER -> [class |-> "local", of |-> irNameOf[sym.decl]]

AgreeOn(n) == Lookup(n) # NoSymbol => OperandOf(n) = StorageOf(n)

\* Wherever a name may be used outside its own initialiser, the IR generator
\* names the storage of exactly the declaration that the semantic analysis
\* resolved (resolveVar against SymbolTable::lookup).  In `int x = x;` it does
\* not: analyzeDecl adds the symbol after the initialiser, genDecl before.
Agreement == accepted => \A n \in Name : n # pending.name => AgreeOn(n)

\* No two declarations of one program, shadowing or in different functions,
\* share an IR name (declareVar: "unique IR names avoid shadowing conflicts").
IrNamesUnique ==
  \A d, e \in 1..Len(irNameOf) :
    irNameOf[d] = irNameOf[e] /\ irNameOf[d] # NoIrName => d = e

\* A break or continue that analysis accepts is inside a loop of the same
\* function, and branches to the labels of the innermost such loop.
BreakBindsInnermost ==
  accepted =>
    /\ whileDepth = LoopsAround
    /\ Len(loopStack) = LoopsAround
    /\ \A i \in 1..Len(nest) :
         nest[i].kind = "loop" =>
           loopStack[nest[i].loops] = [brk |-> nest[i].brk, cont |-> nest[i].cont]

-------------------------------------------------------------------------------
(***************************************************************************)
(* The inductive strengthening of Agreement, IrNamesUnique and             *)
(* BreakBindsInnermost.                                                    *)
(***************************************************************************)

\* Below the global scope the two stacks have the same levels; at each level
\* the IR generator binds exactly the variables that the symbol table binds,
\* to their own IR names, but for the one whose initialiser is being walked.
TablesMatch ==
  /\ Len(varScopes) = Len(scopes) - 1
  /\ \A n \in Name : scopes[1][n] # NoSymbol => IsGlobal(scopes[1][n])
  /\ \A i \in 1..Len(varScopes), n \in Name :
       LET sym == scopes[i + 1][n] IN
       /\ ~ IsGlobal(sym)
       /\ sym # NoSymbol /\ ~ IsConst(sym) =>
            /\ sym.decl \in 1..Len(irNameOf)
            /\ varScopes[i][n] = irNameOf[sym.decl]
            /\ varScopes[i][n] # NoIrName
       /\ sym = NoSymbol /\ ~ (i = Len(varScopes) /\ n = pending.name) =>
            varScopes[i][n] = NoIrName

PendingIsBound ==
  pending # NoPending =>
    /\ pending.name \in Name
    /\ pending.decl \in 1..Len(irNameOf)
    /\ varScopes # << >>
    /\ TopOf(scopes)[pending.name] = NoSymbol
    /\ TopOf(varScopes)[pending.name] = irNameOf[pending.decl]
    /\ irNameOf[pending.decl] # NoIrName

NumbersUsed ==
  \A d \in 1..Len(irNameOf) :
    irNameOf[d] # NoIrName => irNameOf[d].number < varCounter

\* What the stack of open constructs looks like.
NestShape ==
  /\ \A i \in 1..Len(nest) :
       /\ nest[i].kind \in {"params", "body"} <=> i = 1
       /\ i = 1 => nest[i].level = 2 /\ nest[i].loops = 0
       /\ i > 1 /\ nest[i].kind = "block" =>
            nest[i].level = nest[i - 1].level + 1 /\ nest[i].loops = nest[i - 1].loops
       /\ nest[i].kind = "loop" =>
            nest[i].level = nest[i - 1].level /\ nest[i].loops = nest[i - 1].loops + 1
  /\ \A i, j \in 1..Len(nest) :
       i <= j => nest[i].level <= nest[j].level /\ nest[i].loops <= nest[j].loops

TablesInv ==
  /\ TablesTyped
  /\ IrNamesUnique
  /\ NumbersUsed
  /\ accepted => TablesMatch /\ PendingIsBound

NestInv ==
  /\ NestTyped
  /\ accepted => NestShape /\ Level = Len(scopes) /\ BreakBindsInnermost

Inductive == TablesInv /\ NestInv

-------------------------------------------------------------------------------
\* The symbol table implements static scoping.
VisibleIn(stack, k) == [n \in Name |-> Find(Prefix(stack, k), n, NoSymbol)]
OwnIn(stack, k) == {n \in Name : stack[k][n] # NoSymbol}
SavedIn(stack) ==
  [k \in 1..(Len(stack) - 1) |-> [visible |-> VisibleIn(stack, k), own |-> OwnIn(stack, k)]]

Env == INSTANCE LexicalEnv
  WITH Decl <- Symbol, NoDecl <- NoSymbol,
       visible <- VisibleIn(scopes, Len(scopes)),
       own <- OwnIn(scopes, Len(scopes)),
       saved <- SavedIn(scopes)

\* Every step of the symbol table is a step of static scoping: entering,
\* leaving a block or declaring a name that the block does not declare yet
\* (SymbolTable::enterScope, exitScope, addSymbol, lookup).
StaticScoping == Env!EnvSpec
===============================================================================
