------------------------------ MODULE ScopeStack ------------------------------
(***************************************************************************)
(* The data structure behind both name tables of the compiler: a stack of  *)
(* maps from source names to entries, searched from the innermost map      *)
(* outwards.  SymbolTable (symbol_table.h) keeps the symbols of semantic   *)
(* analysis in one, IRGenerator keeps varScopeStack_ in another.           *)
(*                                                                         *)
(* A map is a function on all names; a name it does not bind is mapped to  *)
(* an entry "none" that the caller chooses.                                *)
(***************************************************************************)
EXTENDS Integers, Sequences, FiniteSetsExt

Push(stack, scope) == Append(stack, scope)
Pop(stack)   == SubSeq(stack, 1, Len(stack) - 1)
TopOf(stack) == stack[Len(stack)]

\* Bind (or rebind) n in the innermost scope.
BindTop(stack, n, e) == [stack EXCEPT ![Len(stack)] = [@ EXCEPT ![n] = e]]

\* The levels that bind n; the search from the back stops at the largest.
Levels(stack, n, none) == {i \in 1..Len(stack) : stack[i][n] # none}

Find(stack, n, none) ==
  IF Levels(stack, n, none) = {} THEN none
  ELSE stack[Max(Levels(stack, n, none))][n]

\* The stack as it was when only its first k scopes were open.
Prefix(stack, k) == SubSeq(stack, 1, k)
===============================================================================
