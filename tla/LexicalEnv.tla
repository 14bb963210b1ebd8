------------------------------ MODULE LexicalEnv ------------------------------
(***************************************************************************)
(* What static scoping promises, independently of any search structure: at *)
(* every point each name denotes at most one declaration (visible), a      *)
(* declaration takes effect until the end of its block, leaving a block    *)
(* restores exactly what was visible when it was entered, and one block    *)
(* never declares the same name twice (own).                               *)
(*                                                                         *)
(* SymbolTable (symbol_table.h) implements this with a stack of maps and a *)
(* reverse search; Scoping states the refinement.                          *)
(***************************************************************************)
EXTENDS Integers, Sequences

CONSTANTS Name,   \* source identifiers
          Decl,   \* declarations
          NoDecl  \* "this name denotes nothing here"

VARIABLES visible,  \* what each name denotes now
          own,      \* the names declared in the innermost open block
          saved     \* what to restore, outermost block first

envVars == <<visible, own, saved>>

\* Some names (the functions) are known from the start.
EnvInit ==
  /\ visible \in [Name -> Decl \union {NoDecl}]
  /\ own = {n \in Name : visible[n] # NoDecl}
  /\ saved = << >>

Enter ==
  /\ saved' = Append(saved, [visible |-> visible, own |-> own])
  /\ own' = {}
  /\ UNCHANGED visible

Leave ==
  /\ saved # << >>
  /\ visible' = saved[Len(saved)].visible
  /\ own' = saved[Len(saved)].own
  /\ saved' = SubSeq(saved, 1, Len(saved) - 1)

\* The name n gets some declaration; every other name keeps its own.
Declare(n) ==
  /\ n \notin own
  /\ visible'[n] \in Decl
  /\ visible' = [visible EXCEPT ![n] = visible'[n]]
  /\ own' = own \union {n}
  /\ UNCHANGED saved

EnvNext == Enter \/ Leave \/ \E n \in Name : Declare(n)

EnvSpec == EnvInit /\ [][EnvNext]_envVars
===============================================================================
