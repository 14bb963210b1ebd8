---------------------------- MODULE ScopingTheorems ---------------------------
(***************************************************************************)
(* Name resolution agrees for every program: for any set of names, any     *)
(* nesting and any number of declarations, Scoping's two tables name the   *)
(* same declarations.  The argument is the invariant Inductive of Scoping. *)
(***************************************************************************)
EXTENDS Scoping, WellFoundedInduction, TLAPS

-------------------------------------------------------------------------------
(***************************************************************************)
(* What Find returns, and what it depends on, for stacks of any height.    *)
(***************************************************************************)
(***************************************************************************)
(* A nonempty set of levels has a largest element, and Max picks it: the   *)
(* search from the back of SymbolTable::lookup ends at a definite scope.   *)
(***************************************************************************)
LEMMA MaxOfLevels ==
  ASSUME NEW len \in Nat, NEW S \in SUBSET (1..len), S # {}
  PROVE  Max(S) \in S /\ \A i \in S : i <= Max(S)
<1> DEFINE Less == {ss \in Nat \X Nat : ss[1] < ss[2]}
<1> DEFINE Down == {k \in Nat : k < len /\ len - k \in S}
<1>1. Down # {} /\ Down \subseteq Nat
  <2>1. PICK i \in S : TRUE
    OBVIOUS
  <2>2. len - i \in Nat /\ len - i < len /\ len - (len - i) = i
    BY <2>1
  <2>. QED BY <2>1, <2>2
<1>2. PICK k \in Down : \A j \in Down : <<j, k>> \notin Less
  <2>1. IsWellFoundedOn(Less, Nat)
    BY NatLessThanWellFounded DEF OpToRel
  <2>. HIDE DEF Less, Down
  <2>. QED BY <1>1, <2>1, WFMin
<1>3. ASSUME NEW j \in Down PROVE k <= j
  <2>1. j \in Nat /\ k \in Nat
    OBVIOUS
  <2>2. ~ (j < k)
    <3>1. SUFFICES ASSUME j < k PROVE <<j, k>> \in Less
      BY <1>2
    <3>. QED BY <2>1, <3>1
  <2>. QED BY <2>1, <2>2
<1>4. len - k \in S /\ \A i \in S : i <= len - k
  <2>1. ASSUME NEW i \in S PROVE i <= len - k
    <3>1. len - i \in Down
      <4>1. i \in 1..len
        OBVIOUS
      <4>. QED BY <4>1
    <3>. QED BY <1>3, <3>1
  <2>. QED BY <2>1
<1>. QED BY <1>4 DEF Max

(***************************************************************************)
(* Find returns the entry at the innermost level that binds the name, and  *)
(* "none" when no level does.                                              *)
(***************************************************************************)
LEMMA FindCharacterised ==
  ASSUME NEW stack, Len(stack) \in Nat, NEW n, NEW none
  PROVE  \/ /\ Levels(stack, n, none) = {}
            /\ Find(stack, n, none) = none
         \/ \E i \in 1..Len(stack) :
              /\ stack[i][n] # none
              /\ \A j \in 1..Len(stack) : j > i => stack[j][n] = none
              /\ Find(stack, n, none) = stack[i][n]
<1> DEFINE L == Levels(stack, n, none)
<1>1. CASE L = {}
  BY <1>1 DEF Find
<1>2. CASE L # {}
  <2>1. L \in SUBSET (1..Len(stack)) /\ Len(stack) \in Nat
    BY DEF Levels
  <2>2. Max(L) \in L /\ \A i \in L : i <= Max(L)
    BY <1>2, <2>1, MaxOfLevels
  <2>3. stack[Max(L)][n] # none /\ Max(L) \in 1..Len(stack)
    BY <2>2 DEF Levels
  <2>4. \A j \in 1..Len(stack) : j > Max(L) => stack[j][n] = none
    BY <2>2, <2>3 DEF Levels
  <2>5. Find(stack, n, none) = stack[Max(L)][n]
    BY <1>2 DEF Find
  <2>. QED BY <2>3, <2>4, <2>5
<1>. QED BY <1>1, <1>2

LEMMA FindNone ==
  ASSUME NEW stack, Len(stack) \in Nat, NEW n, NEW none,
         \A j \in 1..Len(stack) : stack[j][n] = none
  PROVE  Find(stack, n, none) = none
BY DEF Find, Levels

(***************************************************************************)
(* Two stacks that agree on a name up to the shorter one's height, the     *)
(* longer binding nothing above it, give the same answer: entering a scope *)
(* hides nothing, and a lookup reads nothing but the name asked for.       *)
(***************************************************************************)
LEMMA FindSame ==
  ASSUME NEW n, NEW none, NEW s, Len(s) \in Nat, NEW t, Len(t) \in Nat,
         Len(s) <= Len(t),
         \A j \in 1..Len(s) : s[j][n] = t[j][n],
         \A j \in 1..Len(t) : j > Len(s) => t[j][n] = none
  PROVE  Find(t, n, none) = Find(s, n, none)
<1>1. CASE \E i \in 1..Len(s) :
             /\ s[i][n] # none
             /\ \A j \in 1..Len(s) : j > i => s[j][n] = none
             /\ Find(s, n, none) = s[i][n]
  <2>1. PICK i \in 1..Len(s) :
             /\ s[i][n] # none
             /\ \A j \in 1..Len(s) : j > i => s[j][n] = none
             /\ Find(s, n, none) = s[i][n]
    BY <1>1
  <2>2. i \in 1..Len(t) /\ t[i][n] # none
    BY <2>1
  <2>3. \A j \in 1..Len(t) : j > i => t[j][n] = none
    BY <2>1
  <2>4. Find(t, n, none) = t[i][n]
    <3>1. Levels(t, n, none) # {}
      BY <2>2 DEF Levels
    <3>2. PICK k \in 1..Len(t) :
            /\ t[k][n] # none
            /\ \A j \in 1..Len(t) : j > k => t[j][n] = none
            /\ Find(t, n, none) = t[k][n]
      BY <3>1, FindCharacterised
    <3>3. k = i
      BY <2>2, <2>3, <3>2
    <3>. QED BY <3>2, <3>3
  <2>. QED BY <2>1, <2>4
<1>2. CASE Levels(s, n, none) = {} /\ Find(s, n, none) = none
  <2>1. \A j \in 1..Len(s) : s[j][n] = none
    BY <1>2 DEF Levels
  <2>2. \A j \in 1..Len(t) : t[j][n] = none
    BY <2>1
  <2>3. Find(t, n, none) = none
    BY <2>2, FindNone
  <2>. QED BY <1>2, <2>3
<1>. QED BY <1>1, <1>2, FindCharacterised

(***************************************************************************)
(* The shape of Push, Pop and Prefix.                                      *)
(***************************************************************************)
LEMMA PushShape ==
  ASSUME NEW S, NEW s \in Seq(S), NEW e \in S
  PROVE  /\ Push(s, e) \in Seq(S)
         /\ Len(Push(s, e)) = Len(s) + 1
         /\ \A j \in 1..Len(s) : Push(s, e)[j] = s[j]
         /\ Push(s, e)[Len(s) + 1] = e
BY DEF Push

LEMMA PrefixShape ==
  ASSUME NEW S, NEW s \in Seq(S), NEW k \in 0..Len(s)
  PROVE  /\ Prefix(s, k) \in Seq(S)
         /\ Len(Prefix(s, k)) = k
         /\ \A j \in 1..k : Prefix(s, k)[j] = s[j]
BY DEF Prefix

LEMMA PopShape ==
  ASSUME NEW S, NEW s \in Seq(S), s # << >>
  PROVE  /\ Pop(s) \in Seq(S)
         /\ Len(Pop(s)) = Len(s) - 1
         /\ \A j \in 1..(Len(s) - 1) : Pop(s)[j] = s[j]
<1>1. Len(s) \in Nat /\ Len(s) # 0
  OBVIOUS
<1>2. Len(s) - 1 \in 0..Len(s)
  BY <1>1
<1>3. Pop(s) = Prefix(s, Len(s) - 1)
  BY DEF Pop, Prefix
<1>. QED BY <1>2, <1>3, PrefixShape

-------------------------------------------------------------------------------
(***************************************************************************)
(* The entries of the two tables.                                          *)
(***************************************************************************)

SymbolMap == [Name -> Symbol \union {NoSymbol}]
IrMap == [Name -> IrNames \union {NoIrName}]

LEMMA OneOrMore == \A k \in Nat : k >= 1 => k = 1 \/ k > 1
OBVIOUS

LEMMA Predecessor == \A a, b : b \in Nat /\ a = b + 1 => a - 1 = b /\ a # 0 /\ a \in Nat
OBVIOUS

LEMMA SymbolFacts ==
  /\ NoSymbol \notin Symbol
  /\ \A d \in Nat, k \in SymbolKinds :
       /\ [decl |-> d, kind |-> k] \in Symbol
       /\ [decl |-> d, kind |-> k] # NoSymbol
  /\ ~ IsGlobal(NoSymbol) /\ ~ IsConst(NoSymbol)
BY DEF Symbol, NoSymbol, SymbolKinds, IsGlobal, IsConst

LEMMA IrNameFacts ==
  /\ NoIrName \notin IrNames
  /\ \A n \in Name, k \in Nat :
       /\ IrName(n, k) \in IrNames
       /\ IrName(n, k) # NoIrName
       /\ IrName(n, k).number = k
BY DEF IrNames, NoIrName, IrName

LEMMA PendingFacts ==
  ASSUME TablesTyped
  PROVE  /\ pending # NoPending => pending.name \in Name /\ pending.decl \in Nat
         /\ NoPending.name \notin Name
BY NoNameIsNoName DEF TablesTyped, NoPending

(***************************************************************************)
(* A name appended to the history: the names stay distinct because its     *)
(* number is the counter, which then moves on.                             *)
(***************************************************************************)
LEMMA NewIrName ==
  ASSUME TablesTyped, IrNamesUnique, NumbersUsed, NEW n \in Name,
         varCounter' = varCounter + 1,
         irNameOf' = Append(irNameOf, IrName(n, varCounter))
  PROVE  /\ irNameOf' \in Seq(IrNames \union {NoIrName}) /\ varCounter' \in Nat
         /\ IrNamesUnique' /\ NumbersUsed'
         /\ Len(irNameOf') = Len(irNameOf) + 1
         /\ \A d \in 1..Len(irNameOf) : irNameOf'[d] = irNameOf[d]
         /\ irNameOf'[ThisDecl] = IrName(n, varCounter)
         /\ ThisDecl \in 1..Len(irNameOf')
<1>1. varCounter \in Nat /\ IrName(n, varCounter) \in IrNames
      /\ IrName(n, varCounter) # NoIrName /\ IrName(n, varCounter).number = varCounter
  BY IrNameFacts DEF TablesTyped
<1>2. irNameOf \in Seq(IrNames \union {NoIrName})
  BY DEF TablesTyped
<1>3. irNameOf' \in Seq(IrNames \union {NoIrName}) /\ varCounter' \in Nat
  BY <1>1, <1>2
<1>4. /\ Len(irNameOf') = Len(irNameOf) + 1
      /\ \A d \in 1..Len(irNameOf) : irNameOf'[d] = irNameOf[d]
      /\ irNameOf'[Len(irNameOf) + 1] = IrName(n, varCounter)
  BY <1>1, <1>2
<1>5. \A d \in 1..Len(irNameOf) : irNameOf[d] # NoIrName => irNameOf[d].number \in Nat
  BY <1>2 DEF IrNames
<1>6. NumbersUsed'
  BY <1>1, <1>2, <1>4, <1>5 DEF NumbersUsed
<1>7. \A d \in 1..Len(irNameOf) : irNameOf[d] # IrName(n, varCounter)
  BY <1>1, <1>5 DEF NumbersUsed
<1>8. IrNamesUnique'
  BY <1>2, <1>4, <1>7 DEF IrNamesUnique
<1>. QED BY <1>2, <1>3, <1>4, <1>6, <1>8 DEF ThisDecl

LEMMA NoNewIrName ==
  ASSUME TablesTyped, IrNamesUnique, NumbersUsed, NoVar, UNCHANGED varCounter
  PROVE  /\ irNameOf' \in Seq(IrNames \union {NoIrName})
         /\ IrNamesUnique' /\ NumbersUsed'
         /\ Len(irNameOf') = Len(irNameOf) + 1
         /\ \A d \in 1..Len(irNameOf) : irNameOf'[d] = irNameOf[d]
<1>1. irNameOf \in Seq(IrNames \union {NoIrName})
  BY DEF TablesTyped
<1>2. /\ irNameOf' \in Seq(IrNames \union {NoIrName})
      /\ Len(irNameOf') = Len(irNameOf) + 1
      /\ \A d \in 1..Len(irNameOf) : irNameOf'[d] = irNameOf[d]
      /\ irNameOf'[Len(irNameOf) + 1] = NoIrName
  BY <1>1 DEF NoVar
<1>3. IrNamesUnique' /\ NumbersUsed'
  BY <1>1, <1>2 DEF IrNamesUnique, NumbersUsed
<1>. QED BY <1>2, <1>3

(***************************************************************************)
(* Adding a symbol that the innermost scope does not have yet.             *)
(***************************************************************************)
LEMMA SymbolAdded ==
  ASSUME TablesTyped, NEW n \in Name, NEW sym \in Symbol,
         ~ Redeclared(n), AddSymbol(n, sym)
  PROVE  /\ scopes' \in Seq(SymbolMap) /\ scopes' # << >>
         /\ Len(scopes') = Len(scopes)
         /\ \A j \in 1..Len(scopes), m \in Name :
              scopes'[j][m] = IF j = Len(scopes) /\ m = n THEN sym ELSE scopes[j][m]
<1>1. scopes \in Seq(SymbolMap) /\ scopes # << >>
  BY DEF TablesTyped, SymbolMap
<1>2. sym # NoSymbol
  BY SymbolFacts
<1>3. scopes' = BindTop(scopes, n, sym)
  BY DEF AddSymbol, Redeclared
<1>4. /\ BindTop(scopes, n, sym) \in Seq(SymbolMap)
      /\ Len(BindTop(scopes, n, sym)) = Len(scopes)
      /\ \A j \in 1..Len(scopes), m \in Name :
           BindTop(scopes, n, sym)[j][m] = IF j = Len(scopes) /\ m = n THEN sym ELSE scopes[j][m]
  <2>1. Len(scopes) \in 1..Len(scopes)
    BY <1>1
  <2>. QED BY <1>1, <1>2, <2>1 DEF BindTop, SymbolMap
<1>5. Len(scopes) \in Nat /\ Len(scopes) > 0
  BY <1>1
<1>. QED BY <1>3, <1>4, <1>5

LEMMA VarDeclared ==
  ASSUME TablesTyped, IrNamesUnique, NumbersUsed,
         NEW n \in Name, varScopes # << >>, DeclareVar(n)
  PROVE  /\ varScopes' \in Seq(IrMap) /\ varScopes' # << >>
         /\ Len(varScopes') = Len(varScopes)
         /\ \A j \in 1..Len(varScopes), m \in Name :
              varScopes'[j][m] = IF j = Len(varScopes) /\ m = n
                                 THEN irNameOf'[ThisDecl] ELSE varScopes[j][m]
         /\ irNameOf'[ThisDecl] # NoIrName
<1>1. varScopes \in Seq(IrMap)
  BY DEF TablesTyped, IrMap
<1>2. /\ varCounter \in Nat
      /\ IrName(n, varCounter) \in IrNames
      /\ IrName(n, varCounter) # NoIrName
  BY IrNameFacts DEF TablesTyped
<1>3. irNameOf'[ThisDecl] = IrName(n, varCounter)
  BY NewIrName DEF DeclareVar
<1>4. varScopes' = BindTop(varScopes, n, IrName(n, varCounter))
  BY DEF DeclareVar
<1>5. /\ BindTop(varScopes, n, IrName(n, varCounter)) \in Seq(IrMap)
      /\ Len(BindTop(varScopes, n, IrName(n, varCounter))) = Len(varScopes)
      /\ \A j \in 1..Len(varScopes), m \in Name :
           BindTop(varScopes, n, IrName(n, varCounter))[j][m]
             = IF j = Len(varScopes) /\ m = n THEN IrName(n, varCounter) ELSE varScopes[j][m]
  <2>1. Len(varScopes) \in 1..Len(varScopes)
    BY <1>1
  <2>. QED BY <1>1, <1>2, <2>1 DEF BindTop, IrMap
<1>6. Len(varScopes) \in Nat /\ Len(varScopes) > 0
  BY <1>1
<1>. QED BY <1>2, <1>3, <1>4, <1>5, <1>6

(***************************************************************************)
(* A local variable or parameter without initialiser enters both tables.   *)
(***************************************************************************)
LEMMA DeclareBoth ==
  ASSUME TablesInv, accepted, accepted', NEW n \in Name,
         varScopes # << >>, pending = NoPending, pending' = NoPending, ~ Redeclared(n),
         AddSymbol(n, [decl |-> ThisDecl, kind |-> "local"]), DeclareVar(n)
  PROVE  TablesInv' /\ Len(scopes') = Len(scopes)
<1> DEFINE sym == [decl |-> ThisDecl, kind |-> "local"]
<1>1. TablesTyped /\ IrNamesUnique /\ NumbersUsed /\ TablesMatch
  BY DEF TablesInv
<1>2. Len(irNameOf) \in Nat /\ ThisDecl \in Nat
  BY <1>1 DEF TablesTyped, ThisDecl
<1>3. sym \in Symbol /\ sym # NoSymbol /\ ~ IsConst(sym) /\ ~ IsGlobal(sym) /\ sym.decl = ThisDecl
  BY <1>2, SymbolFacts DEF IsConst, IsGlobal, SymbolKinds
<1>. HIDE DEF sym
<1>4. /\ scopes' \in Seq(SymbolMap) /\ scopes' # << >>
      /\ Len(scopes') = Len(scopes)
      /\ \A j \in 1..Len(scopes), m \in Name :
           scopes'[j][m] = IF j = Len(scopes) /\ m = n THEN sym ELSE scopes[j][m]
  BY <1>1, <1>3, SymbolAdded DEF sym
<1>5. /\ varScopes' \in Seq(IrMap) /\ varScopes' # << >>
      /\ Len(varScopes') = Len(varScopes)
      /\ \A j \in 1..Len(varScopes), m \in Name :
           varScopes'[j][m] = IF j = Len(varScopes) /\ m = n
                              THEN irNameOf'[ThisDecl] ELSE varScopes[j][m]
      /\ irNameOf'[ThisDecl] # NoIrName
  BY <1>1, VarDeclared
<1>6. /\ irNameOf' \in Seq(IrNames \union {NoIrName}) /\ varCounter' \in Nat
      /\ IrNamesUnique' /\ NumbersUsed'
      /\ Len(irNameOf') = Len(irNameOf) + 1
      /\ \A d \in 1..Len(irNameOf) : irNameOf'[d] = irNameOf[d]
      /\ ThisDecl \in 1..Len(irNameOf')
  BY <1>1, NewIrName DEF DeclareVar
<1>7. TablesTyped'
  BY <1>4, <1>5, <1>6 DEF TablesTyped, SymbolMap, IrMap
<1>8. Len(scopes) \in Nat /\ Len(varScopes) \in Nat /\ Len(varScopes) > 0
      /\ Len(varScopes) = Len(scopes) - 1
  BY <1>1 DEF TablesTyped, TablesMatch
<1>9. TablesMatch'
  <2>1. Len(varScopes') = Len(scopes') - 1
    BY <1>4, <1>5, <1>8
  <2>2. \A m \in Name : scopes'[1][m] # NoSymbol => IsGlobal(scopes'[1][m])
    BY <1>1, <1>4, <1>8 DEF TablesMatch
  <2>3. ASSUME NEW i \in 1..Len(varScopes'), NEW m \in Name
        PROVE  LET s == scopes'[i + 1][m] IN
               /\ ~ IsGlobal(s)
               /\ s # NoSymbol /\ ~ IsConst(s) =>
                    /\ s.decl \in 1..Len(irNameOf')
                    /\ varScopes'[i][m] = irNameOf'[s.decl]
                    /\ varScopes'[i][m] # NoIrName
               /\ s = NoSymbol /\ ~ (i = Len(varScopes') /\ m = pending'.name) =>
                    varScopes'[i][m] = NoIrName
    <3>0. i \in 1..Len(varScopes) /\ i + 1 \in 1..Len(scopes)
      BY <1>5, <1>8
    <3>1. CASE i = Len(varScopes) /\ m = n
      <4>1. scopes'[i + 1][m] = sym /\ varScopes'[i][m] = irNameOf'[ThisDecl]
        BY <1>4, <1>5, <1>8, <3>0, <3>1
      <4>. QED BY <1>3, <1>5, <1>6, <4>1
    <3>2. CASE ~ (i = Len(varScopes) /\ m = n)
      <4>1. scopes'[i + 1][m] = scopes[i + 1][m] /\ varScopes'[i][m] = varScopes[i][m]
        BY <1>4, <1>5, <1>8, <3>0, <3>2
      <4>2. m # NoPending.name
        BY <1>1, PendingFacts
      <4>. QED BY <1>1, <1>2, <1>6, <3>0, <4>1, <4>2 DEF TablesMatch
    <3>. QED BY <3>1, <3>2
  <2>. QED BY <2>1, <2>2, <2>3 DEF TablesMatch
<1>10. PendingIsBound'
  BY DEF PendingIsBound
<1>. QED BY <1>4, <1>6, <1>7, <1>9, <1>10 DEF TablesInv

(***************************************************************************)
(* A constant, or a global variable, enters the symbol table only.         *)
(***************************************************************************)
LEMMA DeclareInSymbolTable ==
  ASSUME TablesInv, accepted, accepted', NEW n \in Name,
         NEW kind \in {"global", "globalConst", "localConst"},
         kind = "localConst" <=> varScopes # << >>,
         pending = NoPending, pending' = NoPending, ~ Redeclared(n),
         AddSymbol(n, [decl |-> ThisDecl, kind |-> kind]),
         NoVar, UNCHANGED <<varScopes, varCounter>>
  PROVE  TablesInv' /\ Len(scopes') = Len(scopes)
<1> DEFINE sym == [decl |-> ThisDecl, kind |-> kind]
<1>1. TablesTyped /\ IrNamesUnique /\ NumbersUsed /\ TablesMatch
  BY DEF TablesInv
<1>2. Len(irNameOf) \in Nat /\ ThisDecl \in Nat
  BY <1>1 DEF TablesTyped, ThisDecl
<1>3. /\ sym \in Symbol /\ sym # NoSymbol
      /\ varScopes = << >> => IsGlobal(sym)
      /\ varScopes # << >> => IsConst(sym) /\ ~ IsGlobal(sym)
  BY <1>2, SymbolFacts DEF IsConst, IsGlobal, SymbolKinds
<1>. HIDE DEF sym
<1>4. /\ scopes' \in Seq(SymbolMap) /\ scopes' # << >>
      /\ Len(scopes') = Len(scopes)
      /\ \A j \in 1..Len(scopes), m \in Name :
           scopes'[j][m] = IF j = Len(scopes) /\ m = n THEN sym ELSE scopes[j][m]
  BY <1>1, <1>3, SymbolAdded DEF sym
<1>5. /\ irNameOf' \in Seq(IrNames \union {NoIrName})
      /\ IrNamesUnique' /\ NumbersUsed'
      /\ Len(irNameOf') = Len(irNameOf) + 1
      /\ \A d \in 1..Len(irNameOf) : irNameOf'[d] = irNameOf[d]
  BY <1>1, NoNewIrName
<1>6. TablesTyped'
  BY <1>1, <1>4, <1>5 DEF TablesTyped, SymbolMap
<1>7. Len(scopes) \in Nat /\ Len(varScopes) \in Nat
      /\ Len(varScopes) = Len(scopes) - 1 /\ (varScopes = << >> <=> Len(varScopes) = 0)
  BY <1>1 DEF TablesTyped, TablesMatch
<1>8. TablesMatch'
  <2>1. Len(varScopes') = Len(scopes') - 1
    BY <1>4, <1>7
  <2>2. \A m \in Name : scopes'[1][m] # NoSymbol => IsGlobal(scopes'[1][m])
    BY <1>1, <1>3, <1>4, <1>7 DEF TablesMatch
  <2>3. ASSUME NEW i \in 1..Len(varScopes'), NEW m \in Name
        PROVE  LET s == scopes'[i + 1][m] IN
               /\ ~ IsGlobal(s)
               /\ s # NoSymbol /\ ~ IsConst(s) =>
                    /\ s.decl \in 1..Len(irNameOf')
                    /\ varScopes'[i][m] = irNameOf'[s.decl]
                    /\ varScopes'[i][m] # NoIrName
               /\ s = NoSymbol /\ ~ (i = Len(varScopes') /\ m = pending'.name) =>
                    varScopes'[i][m] = NoIrName
    <3>0. i \in 1..Len(varScopes) /\ i + 1 \in 1..Len(scopes) /\ varScopes # << >>
      BY <1>7
    <3>1. CASE i = Len(varScopes) /\ m = n
      <4>1. scopes'[i + 1][m] = sym
        BY <1>4, <1>7, <3>0, <3>1
      <4>. QED BY <1>3, <3>0, <4>1
    <3>2. CASE ~ (i = Len(varScopes) /\ m = n)
      <4>1. scopes'[i + 1][m] = scopes[i + 1][m] /\ varScopes'[i][m] = varScopes[i][m]
        BY <1>4, <1>7, <3>0, <3>2
      <4>2. m # NoPending.name
        BY <1>1, PendingFacts
      <4>. QED BY <1>1, <1>2, <1>5, <3>0, <4>1, <4>2 DEF TablesMatch
    <3>. QED BY <3>1, <3>2
  <2>. QED BY <2>1, <2>2, <2>3 DEF TablesMatch
<1>9. PendingIsBound'
  BY DEF PendingIsBound
<1>. QED BY <1>4, <1>5, <1>6, <1>8, <1>9 DEF TablesInv

(***************************************************************************)
(* A scope is entered in both walks, or left in both.                      *)
(***************************************************************************)
LEMMA EnterBoth ==
  ASSUME TablesInv, accepted, accepted', pending = NoPending,
         scopes' = Push(scopes, EmptySymbols), varScopes' = Push(varScopes, EmptyVarScope),
         UNCHANGED <<varCounter, pending, irNameOf>>
  PROVE  TablesInv' /\ Len(scopes') = Len(scopes) + 1
<1>1. TablesTyped /\ IrNamesUnique /\ NumbersUsed /\ TablesMatch
  BY DEF TablesInv
<1>2. /\ scopes \in Seq(SymbolMap) /\ EmptySymbols \in SymbolMap
      /\ varScopes \in Seq(IrMap) /\ EmptyVarScope \in IrMap
  BY <1>1 DEF TablesTyped, SymbolMap, IrMap, EmptySymbols, EmptyVarScope
<1>3. /\ scopes' \in Seq(SymbolMap) /\ scopes' # << >>
      /\ Len(scopes') = Len(scopes) + 1
      /\ \A j \in 1..Len(scopes) : scopes'[j] = scopes[j]
      /\ scopes'[Len(scopes) + 1] = EmptySymbols
  BY <1>2 DEF Push
<1>4. /\ varScopes' \in Seq(IrMap)
      /\ Len(varScopes') = Len(varScopes) + 1
      /\ \A j \in 1..Len(varScopes) : varScopes'[j] = varScopes[j]
      /\ varScopes'[Len(varScopes) + 1] = EmptyVarScope
  BY <1>2 DEF Push
<1>5. TablesTyped' /\ IrNamesUnique' /\ NumbersUsed'
  BY <1>1, <1>3, <1>4 DEF TablesTyped, SymbolMap, IrMap, IrNamesUnique, NumbersUsed
<1>6. Len(scopes) \in Nat \ {0} /\ Len(varScopes) \in Nat /\ Len(varScopes) = Len(scopes) - 1
  BY <1>1 DEF TablesTyped, TablesMatch
<1>7. TablesMatch'
  <2>1. Len(varScopes') = Len(scopes') - 1
    BY <1>3, <1>4, <1>6
  <2>2. \A m \in Name : scopes'[1][m] # NoSymbol => IsGlobal(scopes'[1][m])
    BY <1>1, <1>3, <1>6 DEF TablesMatch
  <2>3. ASSUME NEW i \in 1..Len(varScopes'), NEW m \in Name
        PROVE  LET s == scopes'[i + 1][m] IN
               /\ ~ IsGlobal(s)
               /\ s # NoSymbol /\ ~ IsConst(s) =>
                    /\ s.decl \in 1..Len(irNameOf')
                    /\ varScopes'[i][m] = irNameOf'[s.decl]
                    /\ varScopes'[i][m] # NoIrName
               /\ s = NoSymbol /\ ~ (i = Len(varScopes') /\ m = pending'.name) =>
                    varScopes'[i][m] = NoIrName
    <3>1. CASE i = Len(varScopes) + 1
      <4>1. scopes'[i + 1][m] = NoSymbol /\ varScopes'[i][m] = NoIrName
        BY <1>3, <1>4, <1>6, <3>1 DEF EmptySymbols, EmptyVarScope
      <4>. QED BY <4>1, SymbolFacts
    <3>2. CASE i # Len(varScopes) + 1
      <4>1. i \in 1..Len(varScopes) /\ i + 1 \in 1..Len(scopes)
        BY <1>4, <1>6, <3>2
      <4>2. scopes'[i + 1][m] = scopes[i + 1][m] /\ varScopes'[i][m] = varScopes[i][m]
        BY <1>3, <1>4, <4>1
      <4>3. m # NoPending.name
        BY <1>1, PendingFacts
      <4>. QED BY <1>1, <4>1, <4>2, <4>3 DEF TablesMatch
    <3>. QED BY <3>1, <3>2
  <2>. QED BY <2>1, <2>2, <2>3 DEF TablesMatch
<1>8. PendingIsBound'
  BY DEF PendingIsBound
<1>. QED BY <1>3, <1>5, <1>7, <1>8 DEF TablesInv

LEMMA LeaveBoth ==
  ASSUME TablesInv, accepted, accepted', pending = NoPending, Len(scopes) > 1, LeaveScopes,
         UNCHANGED <<varCounter, pending, irNameOf>>
  PROVE  TablesInv' /\ Len(scopes') = Len(scopes) - 1
<1>1. TablesTyped /\ IrNamesUnique /\ NumbersUsed /\ TablesMatch
  BY DEF TablesInv
<1>2. scopes \in Seq(SymbolMap) /\ varScopes \in Seq(IrMap)
  BY <1>1 DEF TablesTyped, SymbolMap, IrMap
<1>3. Len(scopes) \in Nat /\ Len(varScopes) \in Nat /\ Len(varScopes) = Len(scopes) - 1
      /\ varScopes # << >>
  BY <1>1, <1>2 DEF TablesMatch
<1>4. scopes' = Pop(scopes) /\ varScopes' = Pop(varScopes)
  BY <1>3 DEF LeaveScopes
<1>5. /\ scopes' \in Seq(SymbolMap)
      /\ Len(scopes') = Len(scopes) - 1
      /\ \A j \in 1..(Len(scopes) - 1) : scopes'[j] = scopes[j]
  BY <1>2, <1>3, <1>4, PopShape
<1>6. /\ varScopes' \in Seq(IrMap)
      /\ Len(varScopes') = Len(varScopes) - 1
      /\ \A j \in 1..(Len(varScopes) - 1) : varScopes'[j] = varScopes[j]
  BY <1>2, <1>3, <1>4, PopShape
<1>7. scopes' # << >>
  BY <1>3, <1>5
<1>8. TablesTyped' /\ IrNamesUnique' /\ NumbersUsed'
  BY <1>1, <1>5, <1>6, <1>7 DEF TablesTyped, SymbolMap, IrMap, IrNamesUnique, NumbersUsed
<1>9. TablesMatch'
  <2>1. \A m \in Name : scopes'[1][m] # NoSymbol => IsGlobal(scopes'[1][m])
    BY <1>1, <1>3, <1>5 DEF TablesMatch
  <2>2. ASSUME NEW i \in 1..Len(varScopes'), NEW m \in Name
        PROVE  LET s == scopes'[i + 1][m] IN
               /\ ~ IsGlobal(s)
               /\ s # NoSymbol /\ ~ IsConst(s) =>
                    /\ s.decl \in 1..Len(irNameOf')
                    /\ varScopes'[i][m] = irNameOf'[s.decl]
                    /\ varScopes'[i][m] # NoIrName
               /\ s = NoSymbol /\ ~ (i = Len(varScopes') /\ m = pending'.name) =>
                    varScopes'[i][m] = NoIrName
    <3>1. i \in 1..Len(varScopes) /\ i \in 1..(Len(varScopes) - 1) /\ i + 1 \in 1..(Len(scopes) - 1)
      BY <1>3, <1>6
    <3>2. scopes'[i + 1] = scopes[i + 1] /\ varScopes'[i] = varScopes[i]
      BY <1>5, <1>6, <3>1
    <3>3. m # NoPending.name
      BY <1>1, PendingFacts
    <3>. QED BY <1>1, <3>1, <3>2, <3>3 DEF TablesMatch
  <2>. QED BY <1>3, <1>5, <1>6, <2>1, <2>2 DEF TablesMatch
<1>10. PendingIsBound'
  BY DEF PendingIsBound
<1>. QED BY <1>5, <1>8, <1>9, <1>10 DEF TablesInv

(***************************************************************************)
(* An initialiser: the variable is in the IR generator's table from the    *)
(* beginning, in the symbol table from the end.                            *)
(***************************************************************************)
LEMMA InitialiserBegins ==
  ASSUME TablesInv, accepted, accepted', NEW n \in Name,
         varScopes # << >>, pending = NoPending, ~ Redeclared(n), DeclareVar(n),
         pending' = [name |-> n, decl |-> ThisDecl], UNCHANGED scopes
  PROVE  TablesInv'
<1>1. TablesTyped /\ IrNamesUnique /\ NumbersUsed /\ TablesMatch
  BY DEF TablesInv
<1>2. Len(irNameOf) \in Nat /\ ThisDecl \in Nat /\ pending'.name = n /\ pending'.decl = ThisDecl
  BY <1>1 DEF TablesTyped, ThisDecl
<1>3. /\ varScopes' \in Seq(IrMap) /\ varScopes' # << >>
      /\ Len(varScopes') = Len(varScopes)
      /\ \A j \in 1..Len(varScopes), m \in Name :
           varScopes'[j][m] = IF j = Len(varScopes) /\ m = n
                              THEN irNameOf'[ThisDecl] ELSE varScopes[j][m]
      /\ irNameOf'[ThisDecl] # NoIrName
  BY <1>1, VarDeclared
<1>4. /\ irNameOf' \in Seq(IrNames \union {NoIrName}) /\ varCounter' \in Nat
      /\ IrNamesUnique' /\ NumbersUsed'
      /\ Len(irNameOf') = Len(irNameOf) + 1
      /\ \A d \in 1..Len(irNameOf) : irNameOf'[d] = irNameOf[d]
      /\ ThisDecl \in 1..Len(irNameOf')
  BY <1>1, NewIrName DEF DeclareVar
<1>5. TablesTyped'
  BY <1>1, <1>2, <1>3, <1>4 DEF TablesTyped, IrMap
<1>6. Len(scopes) \in Nat /\ Len(varScopes) \in Nat /\ Len(varScopes) > 0
      /\ Len(varScopes) = Len(scopes) - 1
  BY <1>1 DEF TablesTyped, TablesMatch
<1>7. scopes[Len(scopes)][n] = NoSymbol
  BY DEF Redeclared, TopOf
<1>8. TablesMatch'
  <2>1. ASSUME NEW i \in 1..Len(varScopes'), NEW m \in Name
        PROVE  LET s == scopes'[i + 1][m] IN
               /\ ~ IsGlobal(s)
               /\ s # NoSymbol /\ ~ IsConst(s) =>
                    /\ s.decl \in 1..Len(irNameOf')
                    /\ varScopes'[i][m] = irNameOf'[s.decl]
                    /\ varScopes'[i][m] # NoIrName
               /\ s = NoSymbol /\ ~ (i = Len(varScopes') /\ m = pending'.name) =>
                    varScopes'[i][m] = NoIrName
    <3>0. i \in 1..Len(varScopes) /\ i + 1 \in 1..Len(scopes)
      BY <1>3, <1>6
    <3>1. CASE i = Len(varScopes) /\ m = n
      <4>1. scopes'[i + 1][m] = NoSymbol
        BY <1>6, <1>7, <3>1
      <4>. QED BY <1>2, <1>3, <3>1, <4>1, SymbolFacts
    <3>2. CASE ~ (i = Len(varScopes) /\ m = n)
      <4>1. varScopes'[i][m] = varScopes[i][m]
        BY <1>3, <3>0, <3>2
      <4>2. m # NoPending.name
        BY <1>1, PendingFacts
      <4>3. /\ ~ IsGlobal(scopes[i + 1][m])
            /\ scopes[i + 1][m] # NoSymbol /\ ~ IsConst(scopes[i + 1][m]) =>
                 /\ scopes[i + 1][m].decl \in 1..Len(irNameOf)
                 /\ varScopes[i][m] = irNameOf[scopes[i + 1][m].decl]
                 /\ varScopes[i][m] # NoIrName
            /\ scopes[i + 1][m] = NoSymbol => varScopes[i][m] = NoIrName
        BY <1>1, <3>0, <4>2 DEF TablesMatch
      <4>. QED BY <1>2, <1>4, <4>1, <4>3
    <3>. QED BY <3>1, <3>2
  <2>. QED BY <1>1, <1>3, <1>6, <2>1 DEF TablesMatch
<1>9. PendingIsBound'
  BY <1>2, <1>3, <1>4, <1>6, <1>7 DEF PendingIsBound, TopOf
<1>. QED BY <1>4, <1>5, <1>8, <1>9 DEF TablesInv

LEMMA InitialiserEnds ==
  ASSUME TablesInv, accepted, accepted', pending # NoPending, pending' = NoPending,
         AddSymbol(pending.name, [decl |-> pending.decl, kind |-> "local"]),
         UNCHANGED <<varScopes, varCounter, irNameOf>>
  PROVE  TablesInv' /\ Len(scopes') = Len(scopes)
<1> DEFINE sym == [decl |-> pending.decl, kind |-> "local"]
<1>1. TablesTyped /\ IrNamesUnique /\ NumbersUsed /\ TablesMatch /\ PendingIsBound
  BY DEF TablesInv
<1>2. pending.name \in Name /\ pending.decl \in Nat
  BY <1>1, PendingFacts
<1>3. sym \in Symbol /\ sym # NoSymbol /\ ~ IsConst(sym) /\ ~ IsGlobal(sym) /\ sym.decl = pending.decl
  BY <1>2, SymbolFacts DEF IsConst, IsGlobal, SymbolKinds
<1>. HIDE DEF sym
<1>4. /\ pending.decl \in 1..Len(irNameOf)
      /\ varScopes # << >>
      /\ ~ Redeclared(pending.name)
      /\ varScopes[Len(varScopes)][pending.name] = irNameOf[pending.decl]
      /\ irNameOf[pending.decl] # NoIrName
  BY <1>1 DEF PendingIsBound, Redeclared, TopOf
<1>5. /\ scopes' \in Seq(SymbolMap) /\ scopes' # << >>
      /\ Len(scopes') = Len(scopes)
      /\ \A j \in 1..Len(scopes), m \in Name :
           scopes'[j][m] = IF j = Len(scopes) /\ m = pending.name THEN sym ELSE scopes[j][m]
  BY <1>1, <1>2, <1>3, <1>4, SymbolAdded DEF sym
<1>6. TablesTyped' /\ IrNamesUnique' /\ NumbersUsed'
  BY <1>1, <1>5 DEF TablesTyped, SymbolMap, IrNamesUnique, NumbersUsed
<1>7. Len(scopes) \in Nat /\ Len(varScopes) \in Nat /\ Len(varScopes) > 0
      /\ Len(varScopes) = Len(scopes) - 1
  BY <1>1, <1>4 DEF TablesTyped, TablesMatch
<1>8. TablesMatch'
  <2>1. \A m \in Name : scopes'[1][m] # NoSymbol => IsGlobal(scopes'[1][m])
    BY <1>1, <1>5, <1>7 DEF TablesMatch
  <2>2. ASSUME NEW i \in 1..Len(varScopes'), NEW m \in Name
        PROVE  LET s == scopes'[i + 1][m] IN
               /\ ~ IsGlobal(s)
               /\ s # NoSymbol /\ ~ IsConst(s) =>
                    /\ s.decl \in 1..Len(irNameOf')
                    /\ varScopes'[i][m] = irNameOf'[s.decl]
                    /\ varScopes'[i][m] # NoIrName
               /\ s = NoSymbol /\ ~ (i = Len(varScopes') /\ m = pending'.name) =>
                    varScopes'[i][m] = NoIrName
    <3>0. i \in 1..Len(varScopes) /\ i + 1 \in 1..Len(scopes)
      BY <1>7
    <3>1. CASE i = Len(varScopes) /\ m = pending.name
      <4>1. scopes'[i + 1][m] = sym
        BY <1>5, <1>7, <3>0, <3>1
      <4>. QED BY <1>3, <1>4, <3>1, <4>1
    <3>2. CASE ~ (i = Len(varScopes) /\ m = pending.name)
      <4>1. scopes'[i + 1][m] = scopes[i + 1][m]
        BY <1>5, <1>7, <3>0, <3>2
      <4>. QED BY <1>1, <3>0, <3>2, <4>1 DEF TablesMatch
    <3>. QED BY <3>1, <3>2
  <2>. QED BY <1>5, <1>7, <2>1, <2>2 DEF TablesMatch
<1>9. PendingIsBound'
  BY DEF PendingIsBound
<1>. QED BY <1>5, <1>6, <1>8, <1>9 DEF TablesInv

(***************************************************************************)
(* The open constructs.  Inside a function at least two scopes are open,   *)
(* so that leaving one never meets the guards of exitScope.                *)
(***************************************************************************)
LEMMA NestFacts ==
  ASSUME NestInv, accepted
  PROVE  /\ Len(nest) \in Nat /\ (nest = << >> <=> Len(nest) = 0)
         /\ nest # << >> => /\ TopOf(nest) = nest[Len(nest)]
                            /\ TopOf(nest) \in Construct
                            /\ Level = nest[Len(nest)].level
                            /\ LoopsAround = nest[Len(nest)].loops
                            /\ Level >= 2
         /\ nest = << >> => Level = 1 /\ LoopsAround = 0
         /\ Level \in Nat /\ LoopsAround \in Nat
         /\ Level = Len(scopes)
<1>1. nest \in Seq(Construct) /\ NestShape /\ Level = Len(scopes)
  BY DEF NestInv, NestTyped
<1>2. Len(nest) \in Nat /\ (nest = << >> <=> Len(nest) = 0)
  BY <1>1
<1>3. CASE nest = << >>
  BY <1>1, <1>2, <1>3 DEF Level, LoopsAround
<1>4. CASE nest # << >>
  <2>1. Len(nest) \in 1..Len(nest) /\ 1 \in 1..Len(nest) /\ 1 <= Len(nest)
    BY <1>2, <1>4
  <2>2. nest[Len(nest)] \in Construct /\ nest[1] \in Construct
    BY <1>1, <2>1
  <2>3. nest[1].level = 2 /\ nest[1].level <= nest[Len(nest)].level
    BY <1>1, <2>1 DEF NestShape
  <2>. QED BY <1>1, <1>2, <1>4, <2>2, <2>3 DEF TopOf, Level, LoopsAround, Construct
<1>. QED BY <1>3, <1>4

LEMMA NestBelow ==
  ASSUME NestInv, accepted
  PROVE  \A i \in 1..Len(nest) :
           /\ nest[i].level \in Nat /\ nest[i].level <= Level
           /\ nest[i].loops \in Nat /\ nest[i].loops <= LoopsAround
<1> SUFFICES ASSUME NEW i \in 1..Len(nest)
             PROVE  /\ nest[i].level \in Nat /\ nest[i].level <= Level
                    /\ nest[i].loops \in Nat /\ nest[i].loops <= LoopsAround
  OBVIOUS
<1>1. nest \in Seq(Construct) /\ NestShape
  BY DEF NestInv, NestTyped
<1>2. Len(nest) \in 1..Len(nest) /\ i <= Len(nest) /\ nest # << >>
  BY <1>1
<1>3. nest[i] \in Construct
  BY <1>1
<1>4. nest[i].level <= nest[Len(nest)].level /\ nest[i].loops <= nest[Len(nest)].loops
  BY <1>1, <1>2 DEF NestShape
<1>. QED BY <1>2, <1>3, <1>4, NestFacts DEF Construct

LEMMA LoopsPositive ==
  ASSUME NestInv, accepted, NEW i \in 1..Len(nest), nest[i].kind = "loop"
  PROVE  nest[i].loops \in Nat /\ nest[i].loops >= 1
<1>1. NestShape /\ Len(nest) \in Nat
  BY DEF NestInv, NestTyped
<1>2. i # 1
  BY <1>1 DEF NestShape
<1>3. i - 1 \in 1..Len(nest)
  BY <1>1, <1>2
<1>4. nest[i].loops = nest[i - 1].loops + 1 /\ nest[i - 1].loops \in Nat
  BY <1>1, <1>3, NestBelow DEF NestShape
<1>. QED BY <1>4

LEMMA FunctionEntered ==
  ASSUME NestInv, accepted, accepted', nest = << >>, whileDepth' = 0,
         Len(scopes') = Len(scopes) + 1, nest' = Append(nest, Function),
         UNCHANGED <<labelCounter, loopStack>>
  PROVE  NestInv'
<1>1. NestTyped /\ BreakBindsInnermost
  BY DEF NestInv
<1>2. Len(scopes) = 1 /\ Level = 1 /\ LoopsAround = 0
  BY NestFacts
<1>3. Function \in Construct /\ Function.kind = "params"
      /\ Function.level = 2 /\ Function.loops = 0
  BY <1>2 DEF Function, Construct
<1>4. nest' \in Seq(Construct) /\ Len(nest') = 1 /\ nest'[1] = Function /\ nest' # << >>
  BY <1>3
<1>5. NestTyped'
  BY <1>1, <1>4 DEF NestTyped
<1>6. NestShape'
  BY <1>3, <1>4 DEF NestShape
<1>7. Level' = Len(scopes')
  BY <1>2, <1>3, <1>4 DEF Level, TopOf
<1>8. BreakBindsInnermost'
  <2>1. LoopsAround' = 0
    BY <1>3, <1>4 DEF LoopsAround, TopOf
  <2>2. Len(loopStack') = 0
    BY <1>1, <1>2 DEF BreakBindsInnermost
  <2>. QED BY <1>3, <1>4, <2>1, <2>2 DEF BreakBindsInnermost
<1>. QED BY <1>5, <1>6, <1>7, <1>8 DEF NestInv

LEMMA BodyEntered ==
  ASSUME NestInv, accepted, accepted', nest # << >>, TopOf(nest).kind = "params",
         nest' = [nest EXCEPT ![Len(nest)].kind = "body"],
         UNCHANGED <<scopes, whileDepth, labelCounter, loopStack>>
  PROVE  NestInv'
<1>1. NestTyped /\ NestShape /\ Level = Len(scopes) /\ BreakBindsInnermost
  BY DEF NestInv
<1>2. /\ nest \in Seq(Construct) /\ Len(nest) \in Nat /\ Len(nest) \in 1..Len(nest)
      /\ nest[Len(nest)].kind = "params"
  BY <1>1, NestFacts DEF NestTyped, TopOf
<1>3. Len(nest) = 1
  BY <1>1, <1>2 DEF NestShape
<1>4. /\ nest' \in Seq(Construct) /\ Len(nest') = 1 /\ nest' # << >>
      /\ nest'[1].kind = "body" /\ nest'[1].level = nest[1].level /\ nest'[1].loops = nest[1].loops
  <2>1. PICK c \in Construct : c = nest[1]
    BY <1>2, <1>3
  <2>2. /\ [c EXCEPT !.kind = "body"] \in Construct
        /\ [c EXCEPT !.kind = "body"].kind = "body"
        /\ [c EXCEPT !.kind = "body"].level = c.level
        /\ [c EXCEPT !.kind = "body"].loops = c.loops
    BY DEF Construct
  <2>3. nest' = [nest EXCEPT ![1] = [c EXCEPT !.kind = "body"]]
    BY <1>3, <2>1
  <2>. QED BY <1>2, <1>3, <2>1, <2>2, <2>3
<1>5. nest[1].level = 2 /\ nest[1].loops = 0
  BY <1>1, <1>3 DEF NestShape
<1>6. NestTyped'
  BY <1>1, <1>4 DEF NestTyped
<1>7. NestShape'
  <2>1. \A i \in 1..Len(nest') : i = 1 /\ nest'[i] \in Construct
    BY <1>4
  <2>. QED BY <1>4, <1>5, <2>1 DEF NestShape, Construct
<1>8. Level' = Level /\ LoopsAround' = LoopsAround
  BY <1>2, <1>3, <1>4 DEF Level, LoopsAround, TopOf
<1>9. BreakBindsInnermost'
  BY <1>1, <1>4, <1>8 DEF BreakBindsInnermost
<1>. QED BY <1>1, <1>6, <1>7, <1>8, <1>9 DEF NestInv

LEMMA BlockEntered ==
  ASSUME NestInv, accepted, accepted', nest # << >>,
         Len(scopes') = Len(scopes) + 1, nest' = Append(nest, Block),
         UNCHANGED <<whileDepth, labelCounter, loopStack>>
  PROVE  NestInv'
<1>1. NestTyped /\ NestShape /\ Level = Len(scopes) /\ BreakBindsInnermost
  BY DEF NestInv
<1>2. /\ nest \in Seq(Construct) /\ Len(nest) \in Nat /\ Len(nest) \in 1..Len(nest)
      /\ Level = nest[Len(nest)].level /\ LoopsAround = nest[Len(nest)].loops
      /\ Level \in Nat /\ LoopsAround \in Nat
  BY <1>1, NestFacts DEF NestTyped
<1>3. Block \in Construct /\ Block.kind = "block"
      /\ Block.level = Level + 1 /\ Block.loops = LoopsAround
  BY <1>2 DEF Block, Construct
<1>4. /\ nest' \in Seq(Construct) /\ Len(nest') = Len(nest) + 1 /\ nest' # << >>
      /\ \A i \in 1..Len(nest) : nest'[i] = nest[i]
      /\ nest'[Len(nest) + 1] = Block
  BY <1>2, <1>3
<1>5. NestTyped'
  BY <1>1, <1>4 DEF NestTyped
<1>6. \A i \in 1..Len(nest) :
        /\ nest[i].level \in Nat /\ nest[i].level <= Level
        /\ nest[i].loops \in Nat /\ nest[i].loops <= LoopsAround
  BY NestBelow
<1>7. NestShape'
  <2>1. ASSUME NEW i \in 1..Len(nest')
        PROVE  /\ nest'[i].kind \in {"params", "body"} <=> i = 1
               /\ i = 1 => nest'[i].level = 2 /\ nest'[i].loops = 0
               /\ i > 1 /\ nest'[i].kind = "block" =>
                    nest'[i].level = nest'[i - 1].level + 1 /\ nest'[i].loops = nest'[i - 1].loops
               /\ nest'[i].kind = "loop" =>
                    nest'[i].level = nest'[i - 1].level /\ nest'[i].loops = nest'[i - 1].loops + 1
    <3>1. CASE i = Len(nest) + 1
      BY <1>2, <1>3, <1>4, <3>1
    <3>2. CASE i \in 1..Len(nest)
      <4>1. i > 1 => i - 1 \in 1..Len(nest)
        BY <1>2, <3>2
      <4>. QED BY <1>1, <1>4, <3>2, <4>1 DEF NestShape
    <3>. QED BY <1>2, <1>4, <3>1, <3>2
  <2>2. \A i, j \in 1..Len(nest') :
          i <= j => nest'[i].level <= nest'[j].level /\ nest'[i].loops <= nest'[j].loops
    BY <1>1, <1>2, <1>3, <1>4, <1>6 DEF NestShape
  <2>. QED BY <2>1, <2>2 DEF NestShape
<1>8. Level' = Level + 1 /\ LoopsAround' = LoopsAround
  BY <1>2, <1>3, <1>4 DEF Level, LoopsAround, TopOf
<1>9. BreakBindsInnermost'
  BY <1>1, <1>2, <1>3, <1>4, <1>8 DEF BreakBindsInnermost
<1>. QED BY <1>1, <1>5, <1>7, <1>8, <1>9 DEF NestInv

LEMMA LoopEntered ==
  ASSUME NestInv, accepted, accepted', nest # << >>,
         whileDepth' = whileDepth + 1, labelCounter' = labelCounter + 3,
         loopStack' = Append(loopStack, [brk |-> labelCounter + 2, cont |-> labelCounter]),
         nest' = Append(nest, Loop(labelCounter + 2, labelCounter)), UNCHANGED scopes
  PROVE  NestInv'
<1> DEFINE loop == Loop(labelCounter + 2, labelCounter)
<1> DEFINE labels == [brk |-> labelCounter + 2, cont |-> labelCounter]
<1>1. NestTyped /\ NestShape /\ Level = Len(scopes) /\ BreakBindsInnermost
  BY DEF NestInv
<1>2. /\ nest \in Seq(Construct) /\ Len(nest) \in Nat /\ Len(nest) \in 1..Len(nest)
      /\ Level = nest[Len(nest)].level /\ LoopsAround = nest[Len(nest)].loops
      /\ Level \in Nat /\ LoopsAround \in Nat
  BY <1>1, NestFacts DEF NestTyped
<1>3. /\ loop \in Construct /\ loop.kind = "loop"
      /\ loop.level = Level /\ loop.loops = LoopsAround + 1
      /\ loop.brk = labelCounter + 2 /\ loop.cont = labelCounter
      /\ labels \in LoopLabels
  BY <1>1, <1>2 DEF Loop, Construct, NestTyped, LoopLabels
<1>. HIDE DEF loop
<1>4. /\ nest' \in Seq(Construct) /\ Len(nest') = Len(nest) + 1 /\ nest' # << >>
      /\ \A i \in 1..Len(nest) : nest'[i] = nest[i]
      /\ nest'[Len(nest) + 1] = loop
  BY <1>2, <1>3 DEF loop
<1>5. /\ loopStack \in Seq(LoopLabels) /\ Len(loopStack) = LoopsAround
      /\ whileDepth = LoopsAround
  BY <1>1 DEF NestTyped, BreakBindsInnermost
<1>. HIDE DEF labels
<1>6. /\ loopStack' \in Seq(LoopLabels) /\ Len(loopStack') = LoopsAround + 1
      /\ \A k \in 1..LoopsAround : loopStack'[k] = loopStack[k]
      /\ loopStack'[LoopsAround + 1] = labels
  BY <1>3, <1>5 DEF labels
<1>7. NestTyped'
  BY <1>1, <1>4, <1>6 DEF NestTyped
<1>8. \A i \in 1..Len(nest) :
        /\ nest[i].level \in Nat /\ nest[i].level <= Level
        /\ nest[i].loops \in Nat /\ nest[i].loops <= LoopsAround
  BY NestBelow
<1>9. NestShape'
  <2>1. ASSUME NEW i \in 1..Len(nest')
        PROVE  /\ nest'[i].kind \in {"params", "body"} <=> i = 1
               /\ i = 1 => nest'[i].level = 2 /\ nest'[i].loops = 0
               /\ i > 1 /\ nest'[i].kind = "block" =>
                    nest'[i].level = nest'[i - 1].level + 1 /\ nest'[i].loops = nest'[i - 1].loops
               /\ nest'[i].kind = "loop" =>
                    nest'[i].level = nest'[i - 1].level /\ nest'[i].loops = nest'[i - 1].loops + 1
    <3>1. CASE i = Len(nest) + 1
      BY <1>2, <1>3, <1>4, <3>1
    <3>2. CASE i \in 1..Len(nest)
      <4>1. i > 1 => i - 1 \in 1..Len(nest)
        BY <1>2, <3>2
      <4>2. nest[i].kind = "loop" => i # 1
        BY <1>1, <3>2 DEF NestShape
      <4>. QED BY <1>1, <1>4, <3>2, <4>1, <4>2 DEF NestShape
    <3>. QED BY SMTT(30), <1>2, <1>4, <3>1, <3>2
  <2>2. \A i, j \in 1..Len(nest') :
          i <= j => nest'[i].level <= nest'[j].level /\ nest'[i].loops <= nest'[j].loops
    BY SMTT(30), <1>1, <1>2, <1>3, <1>4, <1>8 DEF NestShape
  <2>. QED BY <2>1, <2>2 DEF NestShape
<1>10. Level' = Level /\ LoopsAround' = LoopsAround + 1
  BY <1>2, <1>3, <1>4 DEF Level, LoopsAround, TopOf
<1>11. BreakBindsInnermost'
  <2>1. ASSUME NEW i \in 1..Len(nest'), nest'[i].kind = "loop"
        PROVE  loopStack'[nest'[i].loops] = [brk |-> nest'[i].brk, cont |-> nest'[i].cont]
    <3>1. CASE i = Len(nest) + 1
      BY <1>3, <1>4, <1>6, <3>1 DEF labels
    <3>2. CASE i \in 1..Len(nest)
      <4>1. nest'[i] = nest[i] /\ nest[i].kind = "loop"
        BY <1>4, <2>1, <3>2
      <4>2. nest[i].loops \in 1..LoopsAround
        BY <1>8, <3>2, <4>1, LoopsPositive
      <4>. QED BY <1>1, <1>6, <3>2, <4>1, <4>2 DEF BreakBindsInnermost
    <3>3. i = Len(nest) + 1 \/ i \in 1..Len(nest)
      BY <1>2, <1>4
    <3>. QED BY <3>1, <3>2, <3>3
  <2>. QED BY <1>2, <1>5, <1>6, <1>10, <2>1 DEF BreakBindsInnermost
<1>. QED BY <1>1, <1>7, <1>9, <1>10, <1>11 DEF NestInv

(***************************************************************************)
(* Leaving the innermost construct.                                        *)
(***************************************************************************)
LEMMA NestPopped ==
  ASSUME NestInv, accepted, nest # << >>, nest' = Pop(nest)
  PROVE  /\ nest' \in Seq(Construct) /\ NestShape'
         /\ Len(nest') = Len(nest) - 1
         /\ \A i \in 1..Len(nest') : i \in 1..Len(nest) /\ nest'[i] = nest[i]
         /\ Len(nest) = 1 => Level' = 1 /\ LoopsAround' = 0
         /\ Len(nest) > 1 => /\ Level' = nest[Len(nest) - 1].level
                             /\ LoopsAround' = nest[Len(nest) - 1].loops
<1>1. NestShape /\ nest \in Seq(Construct) /\ Len(nest) \in Nat /\ Len(nest) > 0
  BY DEF NestInv, NestTyped
<1>2. /\ nest' \in Seq(Construct) /\ Len(nest') = Len(nest) - 1
      /\ \A i \in 1..(Len(nest) - 1) : nest'[i] = nest[i]
  BY <1>1, PopShape
<1>3. \A i \in 1..Len(nest') : i \in 1..Len(nest) /\ nest'[i] = nest[i]
  BY <1>1, <1>2
<1>4. \A i \in 1..Len(nest') : i > 1 => i - 1 \in 1..Len(nest')
  BY <1>1, <1>2
<1>5. NestShape'
  <2>1. \A i \in 1..Len(nest') : nest'[i].kind = "loop" => i # 1
    BY <1>1, <1>3 DEF NestShape
  <2>2. ASSUME NEW i \in 1..Len(nest')
        PROVE  /\ nest'[i].kind \in {"params", "body"} <=> i = 1
               /\ i = 1 => nest'[i].level = 2 /\ nest'[i].loops = 0
               /\ i > 1 /\ nest'[i].kind = "block" =>
                    nest'[i].level = nest'[i - 1].level + 1 /\ nest'[i].loops = nest'[i - 1].loops
               /\ nest'[i].kind = "loop" =>
                    nest'[i].level = nest'[i - 1].level /\ nest'[i].loops = nest'[i - 1].loops + 1
    <3>1. nest'[i] = nest[i] /\ i \in 1..Len(nest) /\ (i > 1 => nest'[i - 1] = nest[i - 1])
      BY <1>3, <1>4
    <3>2. i = 1 \/ i > 1
      BY <1>1, <1>2
    <3>. QED BY <1>1, <2>1, <3>1, <3>2 DEF NestShape
  <2>3. \A i, j \in 1..Len(nest') :
          i <= j => nest'[i].level <= nest'[j].level /\ nest'[i].loops <= nest'[j].loops
    BY <1>1, <1>3 DEF NestShape
  <2>. QED BY <2>2, <2>3 DEF NestShape
<1>6. Len(nest) = 1 => nest' = << >>
  BY <1>2
<1>7. Len(nest) > 1 => nest' # << >> /\ nest'[Len(nest')] = nest[Len(nest) - 1]
  BY <1>1, <1>2
<1>. QED BY <1>2, <1>3, <1>5, <1>6, <1>7 DEF Level, LoopsAround, TopOf

LEMMA ScopeLeft ==
  ASSUME NestInv, accepted, accepted', nest # << >>, nest' = Pop(nest),
         TopOf(nest).kind \in {"body", "block"}, Len(scopes') = Len(scopes) - 1,
         UNCHANGED <<whileDepth, labelCounter, loopStack>>
  PROVE  NestInv'
<1>1. NestTyped /\ NestShape /\ Level = Len(scopes) /\ BreakBindsInnermost
  BY DEF NestInv
<1>2. /\ Len(nest) \in Nat /\ Len(nest) \in 1..Len(nest)
      /\ Level = nest[Len(nest)].level /\ LoopsAround = nest[Len(nest)].loops
      /\ nest[Len(nest)].kind \in {"body", "block"}
  BY NestFacts DEF TopOf
<1>3. /\ nest' \in Seq(Construct) /\ NestShape'
      /\ \A i \in 1..Len(nest') : i \in 1..Len(nest) /\ nest'[i] = nest[i]
      /\ Len(nest) = 1 => Level' = 1 /\ LoopsAround' = 0
      /\ Len(nest) > 1 => /\ Level' = nest[Len(nest) - 1].level
                          /\ LoopsAround' = nest[Len(nest) - 1].loops
  BY NestPopped
<1>4. Level' = Level - 1 /\ LoopsAround' = LoopsAround
  <2>1. CASE Len(nest) = 1
    BY <1>1, <1>2, <1>3, <2>1 DEF NestShape
  <2>2. CASE Len(nest) > 1
    <3>1. nest[Len(nest)].kind = "block"
      BY <1>1, <1>2, <2>2 DEF NestShape
    <3>2. nest[Len(nest) - 1].level \in Nat /\ nest[Len(nest) - 1].loops \in Nat
      BY <1>2, <2>2, NestBelow
    <3>. QED BY <1>1, <1>2, <1>3, <2>2, <3>1, <3>2 DEF NestShape
  <2>3. Len(nest) = 1 \/ Len(nest) > 1
    <3>1. Len(nest) \in Nat /\ Len(nest) >= 1
      BY <1>2
    <3>. QED BY <3>1, OneOrMore
  <2>. QED BY <2>1, <2>2, <2>3
<1>5. NestTyped' /\ Level' = Len(scopes')
  BY <1>1, <1>3, <1>4 DEF NestTyped
<1>6. BreakBindsInnermost'
  BY <1>1, <1>3, <1>4 DEF BreakBindsInnermost
<1>. QED BY <1>3, <1>5, <1>6 DEF NestInv

LEMMA LoopLeft ==
  ASSUME NestInv, accepted, accepted', nest # << >>, nest' = Pop(nest),
         TopOf(nest).kind = "loop", whileDepth' = whileDepth - 1, loopStack' = Pop(loopStack),
         UNCHANGED <<scopes, labelCounter>>
  PROVE  NestInv'
<1>1. NestTyped /\ NestShape /\ Level = Len(scopes) /\ BreakBindsInnermost
  BY DEF NestInv
<1>2. /\ Len(nest) \in Nat /\ Len(nest) \in 1..Len(nest)
      /\ Level = nest[Len(nest)].level /\ LoopsAround = nest[Len(nest)].loops
      /\ nest[Len(nest)].kind = "loop"
  BY NestFacts DEF TopOf
<1>3. /\ nest' \in Seq(Construct) /\ NestShape'
      /\ Len(nest') = Len(nest) - 1
      /\ \A i \in 1..Len(nest') : i \in 1..Len(nest) /\ nest'[i] = nest[i]
      /\ Len(nest) > 1 => /\ Level' = nest[Len(nest) - 1].level
                          /\ LoopsAround' = nest[Len(nest) - 1].loops
  BY NestPopped
<1>4. Len(nest) > 1 /\ Len(nest) - 1 \in 1..Len(nest)
  BY <1>1, <1>2 DEF NestShape
<1>5. nest[Len(nest) - 1].level \in Nat /\ nest[Len(nest) - 1].loops \in Nat
  BY <1>4, NestBelow
<1>6. Level' = Level /\ LoopsAround = LoopsAround' + 1 /\ LoopsAround' \in Nat
  BY <1>1, <1>2, <1>3, <1>4, <1>5 DEF NestShape
<1>7. /\ loopStack \in Seq(LoopLabels) /\ Len(loopStack) = LoopsAround
      /\ whileDepth = LoopsAround
  BY <1>1 DEF NestTyped, BreakBindsInnermost
<1>8. /\ loopStack' \in Seq(LoopLabels) /\ Len(loopStack') = LoopsAround'
      /\ \A k \in 1..LoopsAround' : loopStack'[k] = loopStack[k]
  <2>1. loopStack # << >> /\ Len(loopStack) - 1 = LoopsAround'
    <3>1. /\ LoopsAround = LoopsAround' + 1 /\ LoopsAround' \in Nat
          /\ Len(loopStack) = LoopsAround /\ loopStack \in Seq(LoopLabels)
      BY <1>6, <1>7
    <3>2. LoopsAround - 1 = LoopsAround' /\ LoopsAround # 0
      BY <3>1, Predecessor
    <3>. QED BY <3>1, <3>2
  <2>2. /\ Pop(loopStack) \in Seq(LoopLabels)
        /\ Len(Pop(loopStack)) = Len(loopStack) - 1
        /\ \A k \in 1..(Len(loopStack) - 1) : Pop(loopStack)[k] = loopStack[k]
    BY <1>7, <2>1, PopShape
  <2>. QED BY <2>1, <2>2
<1>9. NestTyped'
  BY <1>1, <1>3, <1>6, <1>7, <1>8 DEF NestTyped
<1>10. BreakBindsInnermost'
  <2>1. ASSUME NEW i \in 1..Len(nest'), nest'[i].kind = "loop"
        PROVE  loopStack'[nest'[i].loops] = [brk |-> nest'[i].brk, cont |-> nest'[i].cont]
    <3>0. i \in 1..Len(nest) /\ nest'[i] = nest[i]
      BY <1>3
    <3>1. nest[i].kind = "loop" /\ i <= Len(nest) - 1
      BY <1>2, <1>3, <2>1, <3>0
    <3>2. nest[i].loops <= nest[Len(nest) - 1].loops
      BY <1>1, <1>4, <3>0, <3>1 DEF NestShape
    <3>3. nest[i].loops \in 1..LoopsAround'
      BY <1>3, <1>4, <1>6, <3>0, <3>1, <3>2, LoopsPositive
    <3>. QED BY <1>1, <1>8, <3>0, <3>1, <3>3 DEF BreakBindsInnermost
  <2>2. whileDepth' = LoopsAround' /\ Len(loopStack') = LoopsAround'
    <3>1. LoopsAround - 1 = LoopsAround'
      BY <1>6, Predecessor
    <3>. QED BY <1>7, <1>8, <3>1
  <2>. QED BY <2>1, <2>2 DEF BreakBindsInnermost
<1>. QED BY <1>1, <1>3, <1>6, <1>9, <1>10 DEF NestInv

(***************************************************************************)
(* The invariant holds initially and every step keeps it.                  *)
(***************************************************************************)
LEMMA InductiveInit == Init => Inductive
<1> SUFFICES ASSUME Init PROVE Inductive
  OBVIOUS
<1>1. PICK fs \in SUBSET Name :
        scopes = << [n \in Name |-> IF n \in fs THEN FunctionSymbol ELSE NoSymbol] >>
  BY DEF Init
<1>2. FunctionSymbol \in Symbol /\ IsGlobal(FunctionSymbol)
  BY DEF FunctionSymbol, Symbol, SymbolKinds, IsGlobal
<1>3. /\ scopes \in Seq(SymbolMap) /\ Len(scopes) = 1 /\ scopes # << >>
      /\ \A n \in Name : scopes[1][n] # NoSymbol => IsGlobal(scopes[1][n])
  BY <1>1, <1>2 DEF SymbolMap
<1>4. /\ varScopes = << >> /\ irNameOf = << >> /\ loopStack = << >> /\ nest = << >>
      /\ varCounter = 0 /\ labelCounter = 0 /\ whileDepth = 0
      /\ pending = NoPending /\ accepted = TRUE
  BY DEF Init
<1>5. TablesTyped /\ NestTyped
  BY <1>3, <1>4 DEF TablesTyped, NestTyped, SymbolMap
<1>6. IrNamesUnique /\ NumbersUsed /\ TablesMatch /\ PendingIsBound
  BY <1>3, <1>4 DEF IrNamesUnique, NumbersUsed, TablesMatch, PendingIsBound
<1>7. NestShape /\ Level = Len(scopes) /\ BreakBindsInnermost
  BY <1>3, <1>4 DEF NestShape, Level, LoopsAround, BreakBindsInnermost
<1>. QED BY <1>5, <1>6, <1>7 DEF Inductive, TablesInv, NestInv

\* An error leaves the tables as they are, and nothing follows it.
LEMMA RefusalKeepsTypes ==
  ASSUME Inductive, Refuse
  PROVE  Inductive'
BY DEF Inductive, Refuse, TablesInv, NestInv, TablesTyped, NestTyped, IrNamesUnique,
       NumbersUsed, genVars, walkVars

\* A step that leaves the open constructs and the loops alone.
LEMMA NestKept ==
  ASSUME NestInv, Len(scopes') = Len(scopes), accepted,
         UNCHANGED <<nest, whileDepth, labelCounter, loopStack>>
  PROVE  NestInv'
BY DEF NestInv, NestTyped, NestShape, Level, LoopsAround, BreakBindsInnermost, TopOf

LEMMA TablesKept ==
  ASSUME TablesInv, UNCHANGED <<accepted, scopes, varScopes, varCounter, pending, irNameOf>>
  PROVE  TablesInv'
BY DEF TablesInv, TablesTyped, IrNamesUnique, NumbersUsed, TablesMatch, PendingIsBound, TopOf

LEMMA ScopesInFunction ==
  ASSUME Inductive, accepted
  PROVE  nest # << >> => Len(scopes) > 1 /\ varScopes # << >>
<1>1. NestInv /\ TablesTyped /\ TablesMatch
  BY DEF Inductive, TablesInv
<1>2. ASSUME nest # << >> PROVE Len(scopes) >= 2
  BY <1>1, <1>2, NestFacts
<1>. QED BY <1>1, <1>2 DEF TablesTyped, TablesMatch

LEMMA TopLevelScopes ==
  ASSUME Inductive, accepted, nest = << >>
  PROVE  varScopes = << >>
<1>1. NestInv /\ TablesTyped /\ TablesMatch
  BY DEF Inductive, TablesInv
<1>2. Len(scopes) = 1
  BY <1>1, NestFacts
<1>3. varScopes \in Seq(IrMap) /\ Len(varScopes) = 0
  BY <1>1, <1>2 DEF TablesTyped, TablesMatch, IrMap
<1>. QED BY <1>3

LEMMA InductiveStep ==
  ASSUME Inductive, [Next]_vars
  PROVE  Inductive'
<1>. USE DEF Inductive
<1>1. CASE EnterFunction
  <2>1. TablesInv' /\ Len(scopes') = Len(scopes) + 1
    BY <1>1, EnterBoth DEF EnterFunction, AtTopLevel, Walking
  <2>2. NestInv'
    BY <1>1, <2>1, FunctionEntered DEF EnterFunction, AtTopLevel, Walking
  <2>. QED BY <2>1, <2>2
<1>2. CASE EnterBody
  <2>1. UNCHANGED <<accepted, scopes, varScopes, varCounter, pending, irNameOf>>
    BY <1>2 DEF EnterBody, semaVars, genVars
  <2>2. NestInv'
    BY <1>2, BodyEntered DEF EnterBody, Walking, semaVars, genVars
  <2>. QED BY <2>1, <2>2, TablesKept
<1>3. CASE ExitFunction \/ ExitBlock
  <2>1. /\ accepted /\ accepted' /\ pending = NoPending /\ nest # << >>
        /\ TopOf(nest).kind \in {"body", "block"}
        /\ LeaveScopes /\ nest' = Pop(nest)
        /\ UNCHANGED <<varCounter, pending, irNameOf>>
        /\ UNCHANGED <<whileDepth, labelCounter, loopStack>>
    BY <1>3 DEF ExitFunction, ExitBlock, InBody, Walking
  <2>2. Len(scopes) > 1
    BY <2>1, ScopesInFunction
  <2>3. TablesInv' /\ Len(scopes') = Len(scopes) - 1
    BY <2>1, <2>2, LeaveBoth
  <2>4. NestInv'
    BY <2>1, <2>3, ScopeLeft
  <2>. QED BY <2>3, <2>4
<1>4. CASE EnterBlock
  <2>1. TablesInv' /\ Len(scopes') = Len(scopes) + 1
    BY <1>4, EnterBoth DEF EnterBlock, InBody, Walking
  <2>2. NestInv'
    BY <1>4, <2>1, BlockEntered DEF EnterBlock, InBody, Walking
  <2>. QED BY <2>1, <2>2
<1>5. CASE EnterLoop
  <2>1. UNCHANGED <<accepted, scopes, varScopes, varCounter, pending, irNameOf>>
    BY <1>5 DEF EnterLoop
  <2>2. NestInv'
    BY <1>5, LoopEntered DEF EnterLoop, InBody, Walking
  <2>. QED BY <2>1, <2>2, TablesKept
<1>6. CASE ExitLoop
  <2>1. UNCHANGED <<accepted, scopes, varScopes, varCounter, pending, irNameOf>>
    BY <1>6 DEF ExitLoop
  <2>2. NestInv'
    BY <1>6, LoopLeft DEF ExitLoop, InBody, Walking
  <2>. QED BY <2>1, <2>2, TablesKept
<1>7. CASE EndInitialiser
  <2>1. TablesInv' /\ Len(scopes') = Len(scopes)
    BY <1>7, InitialiserEnds DEF EndInitialiser, genVars
  <2>2. NestInv'
    BY <1>7, <2>1, NestKept DEF EndInitialiser, genVars
  <2>. QED BY <2>1, <2>2
<1>8. ASSUME NEW n \in Name, NEW kind \in {"global", "globalConst"}, DeclareGlobal(n, kind)
      PROVE  Inductive'
  <2>1. varScopes = << >>
    BY <1>8, TopLevelScopes DEF DeclareGlobal, AtTopLevel, Walking
  <2>2. TablesInv' /\ Len(scopes') = Len(scopes)
    BY <1>8, <2>1, DeclareInSymbolTable DEF DeclareGlobal, AtTopLevel, Walking, genVars
  <2>3. NestInv'
    BY <1>8, <2>2, NestKept DEF DeclareGlobal, AtTopLevel, Walking, genVars
  <2>. QED BY <2>2, <2>3
<1>9. ASSUME NEW n \in Name, DeclareParam(n) \/ DeclareLocal(n)
      PROVE  Inductive'
  <2>1. /\ accepted /\ accepted' /\ pending = NoPending /\ pending' = NoPending
        /\ nest # << >> /\ ~ Redeclared(n)
        /\ AddSymbol(n, [decl |-> ThisDecl, kind |-> "local"]) /\ DeclareVar(n)
        /\ UNCHANGED <<nest, whileDepth, labelCounter, loopStack>>
    BY <1>9 DEF DeclareParam, DeclareLocal, InBody, Walking
  <2>2. TablesInv' /\ Len(scopes') = Len(scopes)
    BY <2>1, ScopesInFunction, DeclareBoth
  <2>3. NestInv'
    BY <2>1, <2>2, NestKept
  <2>. QED BY <2>2, <2>3
<1>10. ASSUME NEW n \in Name, DeclareConst(n) PROVE Inductive'
  <2>1. varScopes # << >>
    BY <1>10, ScopesInFunction DEF DeclareConst, InBody, Walking
  <2>2. TablesInv' /\ Len(scopes') = Len(scopes)
    BY <1>10, <2>1, DeclareInSymbolTable DEF DeclareConst, InBody, Walking, genVars
  <2>3. NestInv'
    BY <1>10, <2>2, NestKept DEF DeclareConst, InBody, Walking, genVars
  <2>. QED BY <2>2, <2>3
<1>11. ASSUME NEW n \in Name, BeginInitialiser(n) PROVE Inductive'
  <2>1. varScopes # << >>
    BY <1>11, ScopesInFunction DEF BeginInitialiser, InBody, Walking
  <2>2. TablesInv'
    BY <1>11, <2>1, InitialiserBegins DEF BeginInitialiser, InBody, Walking, semaVars
  <2>3. NestInv'
    BY <1>11, NestKept DEF BeginInitialiser, InBody, Walking, semaVars
  <2>. QED BY <2>2, <2>3
<1>12. CASE \/ RefuseBreak
            \/ \E n \in Name : \/ RefuseRedeclaration(n) \/ RefuseUnknown(n)
                               \/ RefuseAssignment(n) \/ RefuseCall(n)
  <2>1. Refuse
    BY <1>12 DEF RefuseBreak, RefuseRedeclaration, RefuseUnknown, RefuseAssignment, RefuseCall
  <2>. QED BY <2>1, RefusalKeepsTypes
<1>13. CASE UNCHANGED vars
  <2>1. /\ UNCHANGED <<accepted, scopes, varScopes, varCounter, pending, irNameOf>>
        /\ UNCHANGED <<nest, whileDepth, labelCounter, loopStack>>
    BY <1>13 DEF vars, semaVars, genVars, walkVars
  <2>2. NestInv'
    BY <2>1 DEF NestInv, NestTyped, NestShape, Level, LoopsAround, BreakBindsInnermost, TopOf
  <2>. QED BY <2>1, <2>2, TablesKept
<1>. QED
  BY <1>1, <1>2, <1>3, <1>4, <1>5, <1>6, <1>7, <1>8, <1>9, <1>10, <1>11, <1>12, <1>13 DEF Next

(***************************************************************************)
(* What the invariant is for: at a name other than the pending one, the    *)
(* innermost binding of one table is the innermost binding of the other.   *)
(***************************************************************************)
LEMMA InductiveAgreement ==
  ASSUME Inductive
  PROVE  Agreement
<1> SUFFICES ASSUME accepted, NEW n \in Name, n # pending.name, Lookup(n) # NoSymbol
             PROVE  OperandOf(n) = StorageOf(n)
  BY DEF Agreement, AgreeOn
<1>1. TablesTyped /\ TablesMatch
  BY DEF Inductive, TablesInv
<1>2. /\ Len(scopes) \in Nat /\ Len(varScopes) \in Nat
      /\ Len(varScopes) = Len(scopes) - 1
  BY <1>1 DEF TablesTyped, TablesMatch
<1>3. PICK i \in 1..Len(scopes) :
        /\ scopes[i][n] # NoSymbol
        /\ \A j \in 1..Len(scopes) : j > i => scopes[j][n] = NoSymbol
        /\ Lookup(n) = scopes[i][n]
  BY <1>2, FindCharacterised DEF Lookup
<1>4. CASE IsConst(Lookup(n)) \/ IsGlobal(Lookup(n))
  BY <1>4 DEF OperandOf, StorageOf
<1>5. CASE ~ IsConst(Lookup(n)) /\ ~ IsGlobal(Lookup(n))
  <2>1. i # 1
    BY <1>1, <1>3, <1>5 DEF TablesMatch
  <2>2. i - 1 \in 1..Len(varScopes) /\ (i - 1) + 1 = i
    BY <1>2, <1>3, <2>1
  <2>3. /\ varScopes[i - 1][n] = irNameOf[Lookup(n).decl]
        /\ varScopes[i - 1][n] # NoIrName
    BY <1>1, <1>3, <1>5, <2>2 DEF TablesMatch
  <2>4. ASSUME NEW j \in 1..Len(varScopes), j > i - 1 PROVE varScopes[j][n] = NoIrName
    <3>1. j + 1 \in 1..Len(scopes) /\ j + 1 > i
      BY <1>2, <1>3, <2>4
    <3>. QED BY <1>1, <1>3, <3>1 DEF TablesMatch
  <2>5. Levels(varScopes, n, NoIrName) # {}
    BY <2>2, <2>3 DEF Levels
  <2>6. PICK k \in 1..Len(varScopes) :
          /\ varScopes[k][n] # NoIrName
          /\ \A j \in 1..Len(varScopes) : j > k => varScopes[j][n] = NoIrName
          /\ Find(varScopes, n, NoIrName) = varScopes[k][n]
    BY <1>2, <2>5, FindCharacterised
  <2>7. k = i - 1
    BY <1>2, <1>3, <2>2, <2>3, <2>4, <2>6
  <2>8. ResolveVar(n) = irNameOf[Lookup(n).decl]
    BY <2>3, <2>6, <2>7 DEF ResolveVar
  <2>. QED BY <1>5, <2>8 DEF OperandOf, StorageOf
<1>. QED BY <1>4, <1>5

LEMMA SpecInductive == Spec => []Inductive
<1>1. Init => Inductive
  BY InductiveInit
<1>2. Inductive /\ [Next]_vars => Inductive'
  BY InductiveStep
<1>. QED BY <1>1, <1>2, PTL DEF Spec

(***************************************************************************)
(* The variables of the two walks keep their types.                        *)
(***************************************************************************)
THEOREM TypeCorrect == Spec => []TypeOK
<1>1. Inductive => TypeOK
  BY DEF Inductive, TablesInv, NestInv, TypeOK
<1>. QED BY <1>1, SpecInductive, PTL

(***************************************************************************)
(* For every program, however deep and with however many declarations: the *)
(* operand that genExpr emits for a name is the storage of the declaration *)
(* that the semantic analysis resolved the name to.                        *)
(***************************************************************************)
THEOREM ResolutionAgrees == Spec => []Agreement
<1>1. Inductive => Agreement
  BY InductiveAgreement
<1>. QED BY <1>1, SpecInductive, PTL

(***************************************************************************)
(* declareVar never hands out the same IR name twice.                      *)
(***************************************************************************)
THEOREM UniqueNames == Spec => []IrNamesUnique
<1>1. Inductive => IrNamesUnique
  BY DEF Inductive, TablesInv
<1>. QED BY <1>1, SpecInductive, PTL

(***************************************************************************)
(* whileDepth and loopStack follow the loops of the tree, so that every    *)
(* break and continue branches to its innermost loop.                      *)
(***************************************************************************)
THEOREM BreaksBind == Spec => []BreakBindsInnermost
<1>1. Inductive => BreakBindsInnermost
  BY DEF Inductive, NestInv, BreakBindsInnermost
<1>. QED BY <1>1, SpecInductive, PTL

(***************************************************************************)
(* The refinement.  What is visible k scopes deep depends on those k       *)
(* scopes only, so entering and leaving the next one changes none of it.   *)
(***************************************************************************)
LEMMA VisibleStable ==
  ASSUME NEW s \in Seq(SymbolMap), NEW t \in Seq(SymbolMap),
         NEW k \in Nat, k <= Len(s), k <= Len(t),
         \A j \in 1..k, m \in Name : t[j][m] = s[j][m]
  PROVE  VisibleIn(t, k) = VisibleIn(s, k) /\ (k >= 1 => OwnIn(t, k) = OwnIn(s, k))
<1>1. /\ Len(Prefix(s, k)) = k /\ \A j \in 1..k : Prefix(s, k)[j] = s[j]
      /\ Len(Prefix(t, k)) = k /\ \A j \in 1..k : Prefix(t, k)[j] = t[j]
  BY PrefixShape
<1>2. ASSUME NEW m \in Name
      PROVE  Find(Prefix(t, k), m, NoSymbol) = Find(Prefix(s, k), m, NoSymbol)
  <2> DEFINE p == Prefix(s, k)
  <2> DEFINE q == Prefix(t, k)
  <2>1. /\ Len(p) \in Nat /\ Len(q) \in Nat /\ Len(p) <= Len(q)
        /\ \A j \in 1..Len(p) : p[j][m] = q[j][m]
        /\ \A j \in 1..Len(q) : j > Len(p) => q[j][m] = NoSymbol
    BY <1>1
  <2>. HIDE DEF p, q
  <2>2. Find(q, m, NoSymbol) = Find(p, m, NoSymbol)
    BY <2>1, FindSame
  <2>. QED BY <2>2 DEF p, q
<1>3. k >= 1 => OwnIn(t, k) = OwnIn(s, k)
  BY DEF OwnIn
<1>. QED BY <1>2, <1>3 DEF VisibleIn

\* At full height the prefix is the stack itself.
LEMMA VisibleOnTop ==
  ASSUME NEW s \in Seq(SymbolMap)
  PROVE  VisibleIn(s, Len(s)) = [n \in Name |-> Find(s, n, NoSymbol)]
<1>1. Prefix(s, Len(s)) = s
  BY DEF Prefix
<1>. QED BY <1>1 DEF VisibleIn

\* The stack of saved environments, entry by entry.
LEMMA SavedShape ==
  ASSUME NEW s \in Seq(SymbolMap), s # << >>
  PROVE  /\ Len(SavedIn(s)) = Len(s) - 1 /\ Len(s) - 1 \in Nat
         /\ SavedIn(s) \in Seq(Range(SavedIn(s)))
         /\ \A k \in 1..(Len(s) - 1) :
              SavedIn(s)[k] = [visible |-> VisibleIn(s, k), own |-> OwnIn(s, k)]
<1>1. Len(s) \in Nat /\ Len(s) > 0
  OBVIOUS
<1>2. Len(s) - 1 \in Nat
  BY <1>1
<1>. QED BY <1>2 DEF SavedIn, Range

LEMMA EnterRefines ==
  ASSUME NEW s \in Seq(SymbolMap), s # << >>, NEW t, t = Push(s, EmptySymbols)
  PROVE  /\ VisibleIn(t, Len(t)) = VisibleIn(s, Len(s))
         /\ OwnIn(t, Len(t)) = {}
         /\ SavedIn(t) = Append(SavedIn(s), [visible |-> VisibleIn(s, Len(s)),
                                             own |-> OwnIn(s, Len(s))])
<1>1. EmptySymbols \in SymbolMap /\ Len(s) \in Nat /\ Len(s) > 0
  BY DEF SymbolMap, EmptySymbols
<1>2. /\ t \in Seq(SymbolMap) /\ Len(t) = Len(s) + 1
      /\ \A j \in 1..Len(s) : t[j] = s[j]
      /\ t[Len(s) + 1] = EmptySymbols
  BY <1>1 DEF Push
<1>3. \A m \in Name : EmptySymbols[m] = NoSymbol
  BY DEF EmptySymbols
<1>4. VisibleIn(t, Len(t)) = VisibleIn(s, Len(s))
  <2>1. ASSUME NEW m \in Name PROVE Find(t, m, NoSymbol) = Find(s, m, NoSymbol)
    <3>1. /\ Len(s) \in Nat /\ Len(t) \in Nat /\ Len(s) <= Len(t)
          /\ \A j \in 1..Len(s) : s[j][m] = t[j][m]
          /\ \A j \in 1..Len(t) : j > Len(s) => t[j][m] = NoSymbol
      BY <1>1, <1>2, <1>3
    <3>. QED BY <3>1, FindSame
  <2>. QED BY <1>2, <2>1, VisibleOnTop
<1>5. OwnIn(t, Len(t)) = {}
  BY <1>2, <1>3 DEF OwnIn
<1>6. ASSUME NEW k \in 1..Len(s)
      PROVE  VisibleIn(t, k) = VisibleIn(s, k) /\ OwnIn(t, k) = OwnIn(s, k)
  <2>1. k \in Nat /\ k >= 1 /\ k <= Len(s) /\ k <= Len(t)
        /\ \A j \in 1..k, m \in Name : t[j][m] = s[j][m]
    BY <1>1, <1>2
  <2>. QED BY <1>2, <2>1, VisibleStable
<1>7. SavedIn(t) = Append(SavedIn(s), [visible |-> VisibleIn(s, Len(s)), own |-> OwnIn(s, Len(s))])
  <2>1. Len(t) - 1 = Len(s)
    BY <1>1, <1>2
  <2>2. SavedIn(t) = [k \in 1..Len(s) |-> [visible |-> VisibleIn(s, k), own |-> OwnIn(s, k)]]
    BY <1>6, <2>1 DEF SavedIn
  <2>3. Len(SavedIn(s)) = Len(s) - 1
        /\ \A k \in 1..(Len(s) - 1) :
             SavedIn(s)[k] = [visible |-> VisibleIn(s, k), own |-> OwnIn(s, k)]
    BY SavedShape
  <2>. QED BY <1>1, <2>2, <2>3, SavedShape
<1>. QED BY <1>4, <1>5, <1>7

LEMMA LeaveRefines ==
  ASSUME NEW s \in Seq(SymbolMap), Len(s) > 1, NEW t, t = Pop(s)
  PROVE  LET top == SavedIn(s)[Len(SavedIn(s))] IN
         /\ SavedIn(s) # << >>
         /\ VisibleIn(t, Len(t)) = top.visible
         /\ OwnIn(t, Len(t)) = top.own
         /\ SavedIn(t) = SubSeq(SavedIn(s), 1, Len(SavedIn(s)) - 1)
<1>1. Len(s) \in Nat /\ s # << >>
  OBVIOUS
<1>2. /\ t \in Seq(SymbolMap) /\ Len(t) = Len(s) - 1
      /\ \A j \in 1..(Len(s) - 1) : t[j] = s[j]
  BY <1>1, PopShape
<1>3. PICK h \in Nat : h = Len(s) - 1 /\ h >= 1
  BY <1>1
<1>4. Len(t) = h /\ t # << >>
  BY <1>2, <1>3
<1>5. ASSUME NEW k \in 1..h
      PROVE  VisibleIn(t, k) = VisibleIn(s, k) /\ OwnIn(t, k) = OwnIn(s, k)
  <2>1. k \in Nat /\ k >= 1 /\ k <= Len(s) /\ k <= Len(t)
        /\ \A j \in 1..k, m \in Name : t[j][m] = s[j][m]
    BY <1>1, <1>2, <1>3, <1>4
  <2>. QED BY <1>2, <2>1, VisibleStable
<1>6. /\ SavedIn(s) = [k \in 1..h |-> [visible |-> VisibleIn(s, k), own |-> OwnIn(s, k)]]
      /\ SavedIn(t) = [k \in 1..(h - 1) |-> [visible |-> VisibleIn(t, k), own |-> OwnIn(t, k)]]
  BY <1>3, <1>4 DEF SavedIn
<1>7. Len(SavedIn(s)) = h /\ h \in 1..h
  BY <1>1, <1>3, SavedShape
<1>8. SavedIn(t) = [k \in 1..(h - 1) |-> SavedIn(s)[k]]
  <2>1. \A k \in 1..(h - 1) : k \in 1..h
    BY <1>3
  <2>. QED BY <1>5, <1>6, <2>1
<1>9. SavedIn(t) = SubSeq(SavedIn(s), 1, h - 1)
  BY <1>3, <1>7, <1>8
<1>10. SavedIn(s) # << >>
  BY <1>3, <1>7
<1>. QED BY <1>4, <1>5, <1>6, <1>7, <1>9, <1>10

LEMMA DeclareRefines ==
  ASSUME NEW s \in Seq(SymbolMap), s # << >>, NEW t \in Seq(SymbolMap), Len(t) = Len(s),
         NEW n \in Name, s[Len(s)][n] = NoSymbol, NEW e \in Symbol,
         \A j \in 1..Len(s), m \in Name :
           t[j][m] = IF j = Len(s) /\ m = n THEN e ELSE s[j][m]
  PROVE  /\ n \notin OwnIn(s, Len(s))
         /\ VisibleIn(t, Len(t))[n] \in Symbol
         /\ VisibleIn(t, Len(t)) = [VisibleIn(s, Len(s)) EXCEPT ![n] = VisibleIn(t, Len(t))[n]]
         /\ OwnIn(t, Len(t)) = OwnIn(s, Len(s)) \union {n}
         /\ SavedIn(t) = SavedIn(s)
<1>1. Len(s) \in Nat /\ Len(s) > 0 /\ Len(s) \in 1..Len(s) /\ e # NoSymbol
  BY SymbolFacts
<1>2. ASSUME NEW m \in Name
      PROVE  Find(t, m, NoSymbol) = IF m = n THEN e ELSE Find(s, m, NoSymbol)
  <2>1. CASE m # n
    <3>1. /\ Len(s) \in Nat /\ Len(t) \in Nat /\ Len(s) <= Len(t)
          /\ \A j \in 1..Len(s) : s[j][m] = t[j][m]
          /\ \A j \in 1..Len(t) : j > Len(s) => t[j][m] = NoSymbol
      BY <1>1, <2>1
    <3>2. Find(t, m, NoSymbol) = Find(s, m, NoSymbol)
      BY <3>1, FindSame
    <3>. QED BY <2>1, <3>2
  <2>2. CASE m = n
    <3>1. t[Len(t)][m] = e /\ Len(t) \in 1..Len(t) /\ Len(t) \in Nat
      BY <1>1, <2>2
    <3>2. Levels(t, m, NoSymbol) # {}
      BY <1>1, <3>1 DEF Levels
    <3>3. PICK i \in 1..Len(t) :
            /\ t[i][m] # NoSymbol
            /\ \A j \in 1..Len(t) : j > i => t[j][m] = NoSymbol
            /\ Find(t, m, NoSymbol) = t[i][m]
      BY <3>1, <3>2, FindCharacterised
    <3>4. i = Len(t)
      BY <1>1, <3>1, <3>3
    <3>. QED BY <2>2, <3>1, <3>3, <3>4
  <2>. QED BY <2>1, <2>2
<1>3. /\ VisibleIn(s, Len(s)) = [m \in Name |-> Find(s, m, NoSymbol)]
      /\ VisibleIn(t, Len(t)) = [m \in Name |-> Find(t, m, NoSymbol)]
  BY VisibleOnTop
<1>4. VisibleIn(t, Len(t)) = [VisibleIn(s, Len(s)) EXCEPT ![n] = e]
  BY <1>2, <1>3
<1>5. VisibleIn(t, Len(t))[n] = e
  BY <1>2, <1>3
<1>6. OwnIn(t, Len(t)) = OwnIn(s, Len(s)) \union {n}
  BY <1>1 DEF OwnIn
<1>7. ASSUME NEW k \in 1..(Len(s) - 1)
      PROVE  VisibleIn(t, k) = VisibleIn(s, k) /\ OwnIn(t, k) = OwnIn(s, k)
  <2>1. k \in Nat /\ k >= 1 /\ k <= Len(s) /\ k <= Len(t)
        /\ \A j \in 1..k, m \in Name : t[j][m] = s[j][m]
    BY <1>1
  <2>. QED BY <2>1, VisibleStable
<1>8. SavedIn(t) = SavedIn(s)
  BY <1>7 DEF SavedIn
<1>. QED BY <1>4, <1>5, <1>6, <1>8 DEF OwnIn

\* Before the first step only the functions are visible.
LEMMA InitRefines == Init => Env!EnvInit
<1> SUFFICES ASSUME Init PROVE Env!EnvInit
  OBVIOUS
<1>1. Inductive
  BY InductiveInit
<1>2. scopes \in Seq(SymbolMap) /\ Len(scopes) = 1
  BY <1>1 DEF Init, Inductive, TablesInv, TablesTyped, SymbolMap
<1>3. VisibleIn(scopes, Len(scopes)) = [m \in Name |-> Find(scopes, m, NoSymbol)]
  BY <1>2, VisibleOnTop
<1>4. ASSUME NEW m \in Name PROVE Find(scopes, m, NoSymbol) = scopes[1][m]
  BY <1>2, FindCharacterised DEF Levels
<1>5. \A m \in Name : scopes[1][m] \in Symbol \union {NoSymbol}
  BY <1>2 DEF SymbolMap
<1>6. SavedIn(scopes) = << >>
  BY <1>2 DEF SavedIn
<1>. QED BY <1>2, <1>3, <1>4, <1>5, <1>6 DEF Env!EnvInit, OwnIn

LEMMA StepRefines ==
  ASSUME Inductive, [Next]_vars
  PROVE  [Env!EnvNext]_(Env!envVars)
<1>1. /\ scopes \in Seq(SymbolMap) /\ scopes # << >>
      /\ TablesTyped
  BY DEF Inductive, TablesInv, TablesTyped, SymbolMap
<1>2. CASE scopes' = Push(scopes, EmptySymbols)
  <2>1. Env!Enter
    BY <1>1, <1>2, EnterRefines DEF Env!Enter
  <2>. QED BY <2>1 DEF Env!EnvNext
<1>3. CASE Len(scopes) > 1 /\ scopes' = Pop(scopes)
  <2>1. Env!Leave
    BY <1>1, <1>3, LeaveRefines DEF Env!Leave
  <2>. QED BY <2>1 DEF Env!EnvNext
<1>4. ASSUME NEW n \in Name, NEW e \in Symbol, ~ Redeclared(n), AddSymbol(n, e)
      PROVE  Env!EnvNext
  <2>1. /\ scopes' \in Seq(SymbolMap) /\ Len(scopes') = Len(scopes)
        /\ \A j \in 1..Len(scopes), m \in Name :
             scopes'[j][m] = IF j = Len(scopes) /\ m = n THEN e ELSE scopes[j][m]
    BY <1>1, <1>4, SymbolAdded
  <2>2. scopes[Len(scopes)][n] = NoSymbol
    BY <1>4 DEF Redeclared, TopOf
  <2>3. Env!Declare(n)
    BY <1>1, <2>1, <2>2, DeclareRefines DEF Env!Declare
  <2>. QED BY <2>3 DEF Env!EnvNext
<1>5. CASE UNCHANGED scopes
  BY <1>5 DEF Env!envVars
<1>6. CASE ExitFunction \/ ExitBlock
  <2>1. accepted /\ nest # << >> /\ LeaveScopes
    BY <1>6 DEF ExitFunction, ExitBlock, InBody, Walking
  <2>2. Len(scopes) > 1
    BY <2>1, ScopesInFunction
  <2>. QED BY <1>3, <2>1, <2>2 DEF LeaveScopes
<1>7. CASE EnterFunction \/ EnterBlock
  BY <1>2, <1>7 DEF EnterFunction, EnterBlock
<1>8. CASE EndInitialiser
  <2>1. pending # NoPending /\ PendingIsBound /\ pending.decl \in Nat
    BY <1>1, <1>8, PendingFacts DEF EndInitialiser, Inductive, TablesInv
  <2>2. ~ Redeclared(pending.name)
    BY <2>1 DEF PendingIsBound, Redeclared
  <2>3. [decl |-> pending.decl, kind |-> "local"] \in Symbol /\ pending.name \in Name
    BY <2>1 DEF PendingIsBound, Symbol, SymbolKinds
  <2>. QED BY <1>4, <1>8, <2>2, <2>3 DEF EndInitialiser
<1>9. ThisDecl \in Nat
  BY <1>1 DEF TablesTyped, ThisDecl
<1>10. ASSUME NEW n \in Name, NEW kind \in {"global", "globalConst"}, DeclareGlobal(n, kind)
       PROVE  Env!EnvNext
  <2>1. [decl |-> ThisDecl, kind |-> kind] \in Symbol
    BY <1>9 DEF Symbol, SymbolKinds
  <2>. QED BY <1>4, <1>10, <2>1 DEF DeclareGlobal
<1>11. ASSUME NEW n \in Name, DeclareParam(n) \/ DeclareLocal(n) \/ DeclareConst(n)
       PROVE  Env!EnvNext
  <2>1. /\ [decl |-> ThisDecl, kind |-> "local"] \in Symbol
        /\ [decl |-> ThisDecl, kind |-> "localConst"] \in Symbol
    BY <1>9 DEF Symbol, SymbolKinds
  <2>. QED BY <1>4, <1>11, <2>1 DEF DeclareParam, DeclareLocal, DeclareConst
<1>12. ASSUME NEW n \in Name, BeginInitialiser(n) PROVE UNCHANGED scopes
  BY <1>12 DEF BeginInitialiser, semaVars
<1>13. CASE EnterBody \/ EnterLoop \/ ExitLoop \/ UNCHANGED vars
  BY <1>5, <1>13 DEF EnterBody, EnterLoop, ExitLoop, vars, semaVars
<1>14. CASE \/ RefuseBreak
            \/ \E n \in Name : \/ RefuseRedeclaration(n) \/ RefuseUnknown(n)
                               \/ RefuseAssignment(n) \/ RefuseCall(n)
  BY <1>5, <1>14 DEF RefuseBreak, RefuseRedeclaration, RefuseUnknown, RefuseAssignment,
                     RefuseCall, Refuse
<1>. QED
  BY <1>5, <1>6, <1>7, <1>8, <1>10, <1>11, <1>12, <1>13, <1>14 DEF Next

(***************************************************************************)
(* SymbolTable implements static scoping: every step of the two walks is,  *)
(* on the symbol table, entering a block, leaving one, a declaration of a  *)
(* name that its block does not declare yet, or no step at all.            *)
(***************************************************************************)
THEOREM ImplementsStaticScoping == Spec => StaticScoping
<1>1. Init => Env!EnvInit
  BY InitRefines
<1>2. Inductive /\ [Next]_vars => [Env!EnvNext]_(Env!envVars)
  BY StepRefines
<1>. QED BY <1>1, <1>2, SpecInductive, PTL DEF Spec, StaticScoping, Env!EnvSpec
===============================================================================
