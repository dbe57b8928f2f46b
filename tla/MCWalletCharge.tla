-------------------------- MODULE MCWalletCharge --------------------------
(***************************************************************************)
(* Model checking of WalletCharge: two requests of the same or of different*)
(* operators overlap with an admin at work and a credit arriving.          *)
(***************************************************************************)
EXTENDS WalletCharge, TLC

CONSTANTS o1

MCOrgOf == [u \in Users |-> o1]
===========================================================================
