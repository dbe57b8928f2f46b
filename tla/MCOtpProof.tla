----------------------------- MODULE MCOtpProof -----------------------------
(***************************************************************************)
(* Model checking of OtpProof.                                             *)
(***************************************************************************)
EXTENDS OtpProof, TLC

Symmetry == Permutations(Pages) \cup Permutations(Targets)
=============================================================================
