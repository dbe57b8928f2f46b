-------------------------- MODULE MCOperatorStreak --------------------------
(***************************************************************************)
(* Model checking of OperatorStreak.                                       *)
(***************************************************************************)
EXTENDS OperatorStreak, TLC

Symmetry == Permutations(Requests) \cup Permutations(Operators)
===========================================================================
