---------------------------- MODULE MCMagicLink ----------------------------
(***************************************************************************)
(* Model checking of MagicLink: one account with an invitation and a reset *)
(* link.                                                                   *)
(***************************************************************************)
EXTENDS MagicLink

CONSTANTS invitation, reset, user

MCUserOf == [l \in Links |-> user]
============================================================================
