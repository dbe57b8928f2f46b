----------------------------- MODULE MagicLink -----------------------------
(***************************************************************************)
(* One-time links that set a password: the landing page (SetPassword.jsx), *)
(* its two requests (onboarding_setpassword_handlers.go) and the store of  *)
(* links (magiclink.go).  A request runs against PostgreSQL at READ        *)
(* COMMITTED: its reads see what is committed, its UPDATE takes the row's  *)
(* lock, waits for a holder and then looks at the row again.               *)
(*                                                                         *)
(* A password is named by the attempt, <<tab, n>>, that typed it.          *)
(***************************************************************************)
EXTENDS Naturals, FiniteSets

CONSTANTS
  Links,      \* rows of magic_links
  Users,      \* accounts
  UserOf,     \* the account a link is for
  ResetLinks, \* links made by "forgot password"; the others are invitations
  Tabs,       \* landing pages
  MaxTries,   \* bound: submissions of a tab
  MaxFaults   \* bound: lost answers, database errors and restarts

ASSUME LinkAssumption ==
  /\ UserOf \in [Links -> Users] /\ ResetLinks \subseteq Links
  /\ MaxTries \in Nat /\ MaxFaults \in Nat

VARIABLES
  link,      \* the row of each link
  password,  \* the password of each account
  tab,       \* the landing page of each tab
  requests,  \* POST requests in progress on the server
  faults,    \* faults so far
  set        \* history: <<link, attempt>> of each committed password

rowVars == <<link, password, set>>
vars == <<rowVars, tab, requests, faults>>

Attempts == Tabs \X (1..MaxTries)
NoPassword == <<>>
Closed == "closed"
Purposes == {"reset", "invitation"}
PurposeOf(l) == IF l \in ResetLinks THEN "reset" ELSE "invitation"

(* Where a request stands: before the purpose is detected, before Consume, *)
(* after its SELECT, holding the row after its UPDATE, answered.           *)
Stages == {"sent", "detected", "selected", "marked", "ok", "refused", "failed"}
Over == {"ok", "refused", "failed"}
Request == [link: Links, attempt: Attempts, purpose: Purposes, at: Stages, heard: BOOLEAN]

LinkTypeOK ==
  /\ link \in [Links -> {"unmade", "fresh", "expired", "used", "used and expired"}]
  /\ password \in [Users -> Attempts \cup {NoPassword}]
  /\ tab \in [Tabs -> [phase: {Closed, "checking", "invalid", "ready", "submitting", "done"},
                       link: Links, tries: 0..MaxTries]]
  /\ requests \subseteq Request
  /\ faults \in 0..MaxFaults
  /\ set \subseteq Links \X Attempts
  /\ \A l \in Links : Cardinality({r \in requests : r.link = l /\ r.at = "marked"}) <= 1

Init ==
  /\ link = [l \in Links |-> "unmade"]
  /\ password = [u \in Users |-> NoPassword]
  /\ tab \in [Tabs -> [phase: {Closed}, link: Links, tries: {0}]]
  /\ requests = {} /\ faults = 0 /\ set = {}

Used(l) == link[l] \in {"used", "used and expired"}
Usable(l) == link[l] = "fresh"

-----------------------------------------------------------------------------
(* The landing page.                                                       *)

Show(t, phase) == tab' = [tab EXCEPT ![t].phase = phase]

(* Forgot password, or an approval: a new link; older ones stay valid.     *)
Generate(l) ==
  /\ link[l] = "unmade"
  /\ link' = [link EXCEPT ![l] = "fresh"]
  /\ UNCHANGED <<password, set, tab, requests, faults>>

Open(t) ==
  /\ tab[t].phase = Closed /\ link[tab[t].link] # "unmade"
  /\ Show(t, "checking")
  /\ UNCHANGED <<rowVars, requests, faults>>

(* verifyMagicLink: either purpose will do.                                *)
VerifyMagicLink(t) ==
  /\ tab[t].phase = "checking"
  /\ Show(t, IF Usable(tab[t].link) THEN "ready" ELSE "invalid")
  /\ UNCHANGED <<rowVars, requests, faults>>

Submit(t) ==
  /\ tab[t].phase = "ready" /\ tab[t].tries < MaxTries
  /\ tab' = [tab EXCEPT ![t].phase = "submitting", ![t].tries = @ + 1]
  /\ requests' = requests \cup
       {[link |-> tab[t].link, attempt |-> <<t, tab[t].tries + 1>>,
         purpose |-> "reset", at |-> "sent", heard |-> TRUE]}
  /\ UNCHANGED <<rowVars, faults>>

(* The answer, if the page still waits for it.                             *)
AnsweredMutant(r) ==
  /\ r.at \in Over
  /\ requests' = requests \ {r}
  /\ Show(r.attempt[1], IF r.at = "ok" THEN "done" ELSE "ready")
  /\ UNCHANGED <<rowVars, faults>>

Answered(r) ==
  /\ r.at \in Over
  /\ requests' = requests \ {r}
  /\ IF r.heard THEN Show(r.attempt[1], IF r.at = "ok" THEN "done" ELSE "ready")
     ELSE UNCHANGED tab
  /\ UNCHANGED <<rowVars, faults>>

-----------------------------------------------------------------------------
(* The handler.                                                            *)

Becomes(r, s) == requests' = (requests \ {r}) \cup {s}
Goes(r, stage) == Becomes(r, [r EXCEPT !.at = stage])

(* setPassword asks Verify whether the token is a reset token and takes it *)
(* for an invitation otherwise, a reset link used or expired included.     *)
DetectPurpose(r) ==
  /\ r.at = "sent"
  /\ Becomes(r, [r EXCEPT !.at = "detected",
                          !.purpose = IF Usable(r.link) /\ r.link \in ResetLinks
                                      THEN "reset" ELSE "invitation"])
  /\ UNCHANGED <<rowVars, tab, faults>>

(* Consume.                                                                *)
Select(r) ==
  /\ r.at = "detected"
  /\ Goes(r, IF Usable(r.link) /\ PurposeOf(r.link) = r.purpose
             THEN "selected" ELSE "refused")
  /\ UNCHANGED <<rowVars, tab, faults>>

HeldMutant(l) == FALSE
Held(l) == \E r \in requests : r.link = l /\ r.at = "marked"

MarkMutant(r) ==
  /\ r.at = "selected" /\ ~ Held(r.link)
  /\ Goes(r, "marked")
  /\ UNCHANGED <<rowVars, tab, faults>>

Mark(r) ==
  /\ r.at = "selected" /\ ~ Held(r.link)
  /\ Goes(r, IF Used(r.link) THEN "refused" ELSE "marked")
  /\ UNCHANGED <<rowVars, tab, faults>>

(* fn writes the password, and both rows are committed together.           *)
Commit(r) ==
  /\ r.at = "marked"
  /\ link' = [link EXCEPT ![r.link] = IF @ = "expired" THEN "used and expired" ELSE "used"]
  /\ password' = [password EXCEPT ![UserOf[r.link]] = r.attempt]
  /\ set' = set \cup {<<r.link, r.attempt>>}
  /\ Goes(r, "ok")
  /\ UNCHANGED <<tab, faults>>

-----------------------------------------------------------------------------
(* Time and faults.                                                        *)

Fault == faults < MaxFaults /\ faults' = faults + 1

Expire(l) ==
  /\ link[l] \in {"fresh", "used"}
  /\ link' = [link EXCEPT ![l] = IF @ = "fresh" THEN "expired" ELSE "used and expired"]
  /\ UNCHANGED <<password, set, tab, requests, faults>>

(* Any statement, or the commit, may fail: the transaction rolls back and  *)
(* the link stays usable.                                                  *)
RollBack(r) ==
  /\ Fault /\ r.at \in {"detected", "selected", "marked"}
  /\ Goes(r, "failed")
  /\ UNCHANGED <<rowVars, tab>>

(* An error while the purpose is detected leaves "reset", which no         *)
(* invitation is: the request is refused as if the link were spent.        *)
DetectFails(r) ==
  /\ Fault /\ r.at = "sent"
  /\ Goes(r, "detected")
  /\ UNCHANGED <<rowVars, tab>>

(* The page gives up on a request (a broken connection) which the server   *)
(* may or may not go on with.                                              *)
LoseAnswerMutant(r) ==
  /\ Fault /\ r.heard
  /\ Becomes(r, [r EXCEPT !.heard = FALSE])
  /\ UNCHANGED <<rowVars, tab>>

LoseAnswer(r) ==
  /\ Fault /\ r.heard
  /\ Becomes(r, [r EXCEPT !.heard = FALSE])
  /\ Show(r.attempt[1], "ready")
  /\ UNCHANGED rowVars

(* A database error while the page checks its link counts as invalid.      *)
CheckFails(t) ==
  /\ Fault /\ tab[t].phase = "checking"
  /\ Show(t, "invalid")
  /\ UNCHANGED <<rowVars, requests>>

(* A restart rolls every open transaction back and breaks the connections. *)
Restart ==
  /\ Fault
  /\ requests' = {}
  /\ tab' = [t \in Tabs |->
       [tab[t] EXCEPT !.phase = CASE @ = "checking"   -> "invalid"
                                  [] @ = "submitting" -> "ready"
                                  [] OTHER            -> @]]
  /\ UNCHANGED rowVars

Handle(r) == DetectPurpose(r) \/ Select(r) \/ Mark(r) \/ Commit(r) \/ Answered(r)

Next ==
  \/ \E l \in Links : Generate(l) \/ Expire(l)
  \/ \E t \in Tabs : Open(t) \/ VerifyMagicLink(t) \/ Submit(t) \/ CheckFails(t)
  \/ \E r \in requests : Handle(r) \/ RollBack(r) \/ DetectFails(r) \/ LoseAnswer(r)
  \/ Restart

(* Requests in flight and open transactions are served; nobody has to type *)
(* a password, and nothing has to fail.                                    *)
Fairness ==
  /\ \A t \in Tabs : WF_vars(VerifyMagicLink(t))
  /\ \A l \in Links, a \in Attempts :
       WF_vars(\E r \in requests : r.link = l /\ r.attempt = a /\ Handle(r))

Spec == Init /\ [][Next]_vars /\ Fairness

-----------------------------------------------------------------------------
(* Properties.                                                             *)

PasswordsOf(l) == {a \in Attempts : <<l, a>> \in set}

(* A link sets one password, once, in the transaction that marks it used,  *)
(* whatever races, retries, rollbacks and restarts it goes through; and an *)
(* account's password is one that a link of its own set.                   *)
OncePerLink ==
  /\ \A l \in Links : Cardinality(PasswordsOf(l)) = IF Used(l) THEN 1 ELSE 0
  /\ \A u \in Users : password[u] # NoPassword =>
       \E l \in Links : UserOf[l] = u /\ password[u] \in PasswordsOf(l)

(* A link seen from outside.                                               *)
LinkStates ==
  [l \in Links |-> IF Used(l) THEN "used" ELSE IF link[l] = "unmade" THEN "unmade" ELSE "made"]

OneTime == INSTANCE OneTimeLink WITH
  state <- LinkStates, Passwords <- Attempts

(* Whatever pages and requests race, whatever is rolled back, expires or is*)
(* cut off by a restart: a password changes only together with the first   *)
(* and only use of a link that was made for its account.                   *)
ImplementsOneTimeLink == OneTime!Spec

(* A page that says the password was updated has set the one it shows:     *)
(* its last attempt, by its link, and not one an earlier attempt left.     *)
DoneMeansSet ==
  \A t \in Tabs : tab[t].phase = "done" =>
    PasswordsOf(tab[t].link) = {<<t, tab[t].tries>>}

(* A page that checks or submits gets its answer.                          *)
PageSettles ==
  \A t \in Tabs : tab[t].phase \in {"checking", "submitting"} ~>
                  tab[t].phase \in {"ready", "invalid", "done"}
=============================================================================
