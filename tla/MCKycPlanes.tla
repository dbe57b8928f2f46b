---------------------------- MODULE MCKycPlanes ----------------------------
(* Two wizard tabs of one institution, one required document. *)
EXTENDS KycPlanes, TLC

CONSTANTS t1, t2, letter

TabSymmetry == Permutations(Tabs)
=============================================================================
