-------------------------- MODULE MCPortalSession --------------------------
(***************************************************************************)
(* Model checking of PortalSession.                                        *)
(***************************************************************************)
EXTENDS PortalSession
============================================================================
