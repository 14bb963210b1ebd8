------------------------------ MODULE MCScoping -------------------------------
(* Scoping with finite values: two interchangeable names are enough for     *)
(* shadowing, for a function name reused as a variable and for a name that  *)
(* a declaration must leave alone.                                          *)
EXTENDS Scoping, TLC

NameSymmetry == Permutations(Name)
===============================================================================
