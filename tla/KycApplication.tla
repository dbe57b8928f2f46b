-------------------------- MODULE KycApplication --------------------------
(***************************************************************************)
(* What the registration promises an institution, without drafts, tabs,    *)
(* desks or calls between machines: one application is filed, it is under  *)
(* review until it is rejected or approved, a rejection can be reopened    *)
(* and an approval cannot; the login opens the application that was filed, *)
(* and the portal is unlocked for it only after the approval, for good.    *)
(* KycPlanes implements this.                                              *)
(***************************************************************************)

CONSTANTS
  Apps,      \* applications that may be filed
  NoApp      \* nothing was filed

VARIABLES
  filed,     \* the application before the reviewers
  ruling,    \* what they have said of it
  opened,    \* the applications a login opens
  unlocked   \* the applications whose institution may use the portal

vars == <<filed, ruling, opened, unlocked>>

Init ==
  /\ filed = NoApp /\ ruling = "none"
  /\ opened = {} /\ unlocked = {}

File(app) ==
  /\ ruling = "none"
  /\ filed' = app /\ ruling' = "pending"
  /\ UNCHANGED <<opened, unlocked>>

Rule(verdict) ==
  /\ ruling = "pending"
  /\ ruling' = verdict
  /\ UNCHANGED <<filed, opened, unlocked>>

(* A reviewer takes the rejection back, or the applicant files again.      *)
Reopen ==
  /\ ruling = "rejected"
  /\ ruling' = "pending"
  /\ UNCHANGED <<filed, opened, unlocked>>

OpenLogin ==
  /\ ruling # "none" /\ opened = {}
  /\ opened' = {filed}
  /\ UNCHANGED <<filed, ruling, unlocked>>

(* The login is opened at the latest when its portal is.                   *)
Unlock ==
  /\ ruling = "approved" /\ unlocked = {}
  /\ unlocked' = {filed} /\ opened' = {filed}
  /\ UNCHANGED <<filed, ruling>>

Next ==
  \/ \E app \in Apps : File(app)
  \/ \E verdict \in {"approved", "rejected"} : Rule(verdict)
  \/ Reopen \/ OpenLogin \/ Unlock

Spec == Init /\ [][Next]_vars
===========================================================================
