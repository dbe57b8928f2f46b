--------------------------- MODULE MCWalletTopUp ---------------------------
(***************************************************************************)
(* Model checking of WalletTopUp.                                          *)
(***************************************************************************)
EXTENDS WalletTopUp, TLC

CONSTANTS o1, o2, a1, a2, k1

(* Admin a2 belongs to another organisation than a1.                       *)
MCAdminOrg == [u \in Users |-> IF u = a2 THEN o2 ELSE o1]
MCOrderAdmin == [k \in Orders |-> IF k = k1 THEN a1 ELSE a2]
MCOrderAmount == [k \in Orders |-> IF k = k1 THEN 1 ELSE 2]

Symmetry == Permutations(Tx) \cup Permutations(Payments)
===========================================================================
