-------------------------- MODULE MagicLink_proofs --------------------------
(***************************************************************************)
(* Proofs about MagicLink, for any number of links, accounts, pages and    *)
(* attempts: a link sets one password, and a page that says so is right.   *)
(***************************************************************************)
EXTENDS MagicLink, FiniteSetTheorems, TLAPS

USE DEF rowVars, vars

-----------------------------------------------------------------------------
(* The inductive invariant.                                                *)

Rows == {"unmade", "fresh", "expired", "used", "used and expired"}
Page == [phase: {Closed, "checking", "invalid", "ready", "submitting", "done"},
         link: Links, tries: 0..MaxTries]

Types ==
  /\ link \in [Links -> Rows]
  /\ password \in [Users -> Attempts \cup {NoPassword}]
  /\ tab \in [Tabs -> Page]
  /\ requests \subseteq Request
  /\ faults \in 0..MaxFaults
  /\ set \subseteq Links \X Attempts

(* A request is of its page's link, and no attempt is sent twice.  While   *)
(* it is heard, its page waits for it; while it holds the row, the link is *)
(* not used up; when it is "ok", the password it carries was set.          *)
RequestOK(r) ==
  /\ r.link = tab[r.attempt[1]].link
  /\ r.attempt[2] <= tab[r.attempt[1]].tries
  /\ r.heard => tab[r.attempt[1]].phase = "submitting"
                /\ r.attempt[2] = tab[r.attempt[1]].tries
  /\ r.at = "marked" => ~ Used(r.link)
  /\ r.at = "ok" => <<r.link, r.attempt>> \in set

Apart ==
  \A r, s \in requests :
    \/ r.attempt = s.attempt
    \/ r.link = s.link /\ r.at = "marked" /\ s.at = "marked"
    => r = s

SetOK ==
  /\ \A l \in Links : Used(l) <=> \E a \in Attempts : <<l, a>> \in set
  /\ \A l \in Links, a, b \in Attempts : <<l, a>> \in set /\ <<l, b>> \in set => a = b
  /\ \A u \in Users : password[u] # NoPassword =>
       \E l \in Links : UserOf[l] = u /\ <<l, password[u]>> \in set

DoneOK ==
  \A t \in Tabs : tab[t].phase = "done" => <<tab[t].link, <<t, tab[t].tries>>>> \in set

LinkInv == Types /\ (\A r \in requests : RequestOK(r)) /\ Apart /\ SetOK /\ DoneOK

LEMMA InitLink == Init => LinkInv
<1> SUFFICES ASSUME Init PROVE LinkInv
  OBVIOUS
<1>1. Types
  BY LinkAssumption DEF Init, Types, Rows, Page
<1>2. SetOK /\ DoneOK
  BY <1>1 DEF Init, SetOK, DoneOK, Used, Closed, Types, Page
<1>3. QED
  BY <1>1, <1>2 DEF Init, LinkInv, Apart

-----------------------------------------------------------------------------
(* The pages.                                                              *)

(* A page that waits for nothing moves, and no request is touched.         *)
LEMMA PageMoves ==
  ASSUME LinkInv, NEW t \in Tabs,
         NEW q \in {"checking", "invalid", "ready"}, Show(t, q),
         tab[t].phase # "submitting", tab[t].phase # "done",
         UNCHANGED <<rowVars, requests>>, faults' \in 0..MaxFaults
  PROVE  LinkInv'
<1> DEFINE p == [tab[t] EXCEPT !.phase = q]
<1>1. tab' = [tab EXCEPT ![t] = p] /\ p \in Page /\ p.link = tab[t].link /\ p.tries = tab[t].tries /\ p.phase = q
  BY DEF Show, LinkInv, Types, Page
<1> HIDE DEF p
<1>2. tab' \in [Tabs -> Page] /\ tab'[t] = p /\ \A u \in Tabs \ {t} : tab'[u] = tab[u]
  BY <1>1 DEF LinkInv, Types
<1>3. Types'
  BY <1>2 DEF LinkInv, Types
<1>4. \A r \in requests' : RequestOK(r)'
  <2> SUFFICES ASSUME NEW r \in requests PROVE RequestOK(r)'
    OBVIOUS
  <2>1. RequestOK(r) /\ r.attempt[1] \in Tabs
    BY DEF LinkInv, Types, Request, Attempts
  <2>2. QED
    BY <1>1, <1>2, <2>1 DEF RequestOK, Used
<1>5. Apart' /\ SetOK'
  BY DEF LinkInv, Apart, SetOK, Used
<1>6. DoneOK'
  BY <1>1, <1>2 DEF LinkInv, DoneOK
<1>7. QED
  BY <1>3, <1>4, <1>5, <1>6 DEF LinkInv

LEMMA SubmitKeeps ==
  ASSUME LinkInv, NEW t \in Tabs, Submit(t)
  PROVE  LinkInv'
<1> DEFINE p == [tab[t] EXCEPT !.phase = "submitting", !.tries = tab[t].tries + 1]
<1>1. tab[t] \in Page /\ tab[t].tries + 1 \in 1..MaxTries /\ tab[t].phase = "ready"
  BY LinkAssumption DEF Submit, LinkInv, Types, Page
<1>2. /\ tab' = [tab EXCEPT ![t] = p] /\ p \in Page /\ p.link = tab[t].link
      /\ p.tries = tab[t].tries + 1 /\ p.phase = "submitting"
  BY <1>1 DEF Submit, LinkInv, Types, Page
<1>3. PICK n \in Request :
        /\ requests' = requests \cup {n}
        /\ n.link = tab[t].link /\ n.attempt = <<t, tab[t].tries + 1>> /\ n.at = "sent"
  <2> DEFINE m == [link |-> tab[t].link, attempt |-> <<t, tab[t].tries + 1>>,
                   purpose |-> "reset", at |-> "sent", heard |-> TRUE]
  <2>1. m \in Request /\ requests' = requests \cup {m}
    BY <1>1 DEF Submit, Request, Attempts, Purposes, Stages, Page
  <2>2. QED
    BY <2>1
<1> HIDE DEF p
<1>4. tab' \in [Tabs -> Page] /\ tab'[t] = p /\ \A u \in Tabs \ {t} : tab'[u] = tab[u]
  BY <1>2 DEF LinkInv, Types
<1>5. Types'
  BY <1>3, <1>4 DEF LinkInv, Types, Submit
<1>6. ASSUME NEW r \in requests
      PROVE  RequestOK(r)' /\ r.attempt # n.attempt
  <2>1. RequestOK(r) /\ r.attempt[1] \in Tabs /\ r.attempt[2] \in Nat
    BY DEF LinkInv, Types, Request, Attempts
  <2>2. link' = link /\ set' = set
    BY DEF Submit
  <2>3. CASE r.attempt[1] = t
    <3>1. tab[t].tries \in Nat /\ ~ r.heard
      BY <1>1, <2>1, <2>3, LinkAssumption DEF RequestOK, Page
    <3>2. r.attempt # n.attempt
      BY <1>3, <2>1, <2>3, <3>1 DEF RequestOK
    <3>3. tab'[r.attempt[1]].link = tab[t].link /\ tab'[r.attempt[1]].tries = tab[t].tries + 1
      BY <1>2, <1>4, <2>3
    <3>4. r.link = tab[t].link /\ r.attempt[2] <= tab[t].tries
      BY <2>1, <2>3 DEF RequestOK
    <3>5. r.attempt[2] <= tab[t].tries + 1
      BY <2>1, <3>1, <3>4
    <3>6. /\ r.at = "marked" => ~ Used(r.link)'
          /\ r.at = "ok" => <<r.link, r.attempt>> \in set'
      BY <2>1, <2>2 DEF RequestOK, Used
    <3>7. QED
      BY <3>1, <3>2, <3>3, <3>4, <3>5, <3>6 DEF RequestOK
  <2>4. CASE r.attempt[1] # t
    <3>1. tab'[r.attempt[1]] = tab[r.attempt[1]]
      BY <1>4, <2>1, <2>4
    <3>2. r.attempt # n.attempt
      BY <1>3, <2>4
    <3>3. QED
      BY <2>1, <2>2, <3>1, <3>2 DEF RequestOK, Used
  <2>5. QED
    BY <2>3, <2>4
<1>7. RequestOK(n)'
  <2>1. n.attempt[1] = t /\ n.attempt[2] = tab[t].tries + 1 /\ tab[t].tries \in Nat
    BY <1>1, <1>3, LinkAssumption DEF Page
  <2>2. QED
    BY <1>2, <1>3, <1>4, <2>1 DEF RequestOK
<1>8. Apart'
  BY <1>3, <1>6 DEF LinkInv, Apart
<1>9. SetOK' /\ DoneOK'
  BY <1>2, <1>4 DEF LinkInv, SetOK, DoneOK, Used, Submit
<1>10. QED
  BY <1>3, <1>5, <1>6, <1>7, <1>8, <1>9 DEF LinkInv

(* An answer that its page hears settles the page; another one, nothing.   *)
LEMMA HeardKeeps ==
  ASSUME LinkInv, NEW r \in requests, r.heard,
         NEW q \in {"ready", "done"}, Show(r.attempt[1], q),
         q = "done" => r.at = "ok",
         UNCHANGED rowVars, faults' \in 0..MaxFaults,
         NEW s \in Request, s.link = r.link, s.attempt = r.attempt, s.at = r.at, ~ s.heard,
         requests' = requests \ {r} \/ requests' = (requests \ {r}) \cup {s}
  PROVE  LinkInv'
<1> DEFINE t == r.attempt[1]
           p == [tab[t] EXCEPT !.phase = q]
<1>1. r \in Request /\ RequestOK(r) /\ t \in Tabs /\ r.attempt = <<t, r.attempt[2]>>
  BY DEF LinkInv, Types, Request, Attempts
<1>2. /\ tab' = [tab EXCEPT ![t] = p] /\ p \in Page /\ p.link = tab[t].link
      /\ p.tries = tab[t].tries /\ p.phase = q
  BY <1>1 DEF Show, LinkInv, Types, Page
<1> HIDE DEF p
<1>3. tab' \in [Tabs -> Page] /\ tab'[t] = p /\ \A u \in Tabs \ {t} : tab'[u] = tab[u]
  BY <1>1, <1>2 DEF LinkInv, Types
<1>4. Types'
  BY <1>3 DEF LinkInv, Types
<1>5. \A d \in Request : tab'[d.attempt[1]].link = tab[d.attempt[1]].link
                         /\ tab'[d.attempt[1]].tries = tab[d.attempt[1]].tries
  BY <1>2, <1>3 DEF Request, Attempts
<1>6. ASSUME NEW d \in requests, d # r PROVE RequestOK(d)'
  <2>1. RequestOK(d) /\ d \in Request /\ d.attempt[1] \in Tabs
        /\ d.attempt = <<d.attempt[1], d.attempt[2]>>
    BY DEF LinkInv, Types, Request, Attempts
  <2>2. d.heard => d.attempt[1] # t
    BY <1>1, <1>6, <2>1 DEF LinkInv, Apart, RequestOK
  <2>3. d.heard => tab'[d.attempt[1]] = tab[d.attempt[1]]
    BY <1>3, <2>1, <2>2
  <2>4. QED
    BY <1>5, <2>1, <2>3 DEF RequestOK, Used
<1>7. RequestOK(s)'
  BY <1>1, <1>5 DEF RequestOK, Used
<1>8. Apart'
  BY <1>1 DEF LinkInv, Apart
<1>9. SetOK'
  BY DEF LinkInv, SetOK, Used
<1>10. DoneOK'
  <2>1. q = "done" => <<tab[t].link, <<t, tab[t].tries>>>> \in set
    BY <1>1 DEF RequestOK
  <2>2. QED
    BY <1>2, <1>3, <2>1 DEF LinkInv, DoneOK
<1>11. QED
  BY <1>4, <1>6, <1>7, <1>8, <1>9, <1>10 DEF LinkInv

-----------------------------------------------------------------------------
(* The handler.                                                            *)

(* A request moves on without a password, and its page does not notice.    *)
LEMMA RequestMoves ==
  ASSUME LinkInv, NEW r \in requests, NEW s \in Request,
         Becomes(r, s), s.link = r.link, s.attempt = r.attempt, s.heard = r.heard,
         s.at \in {"detected", "selected", "marked", "refused", "failed"},
         s.at = "marked" => ~ Held(r.link) /\ ~ Used(r.link),
         UNCHANGED <<rowVars, tab>>, faults' \in 0..MaxFaults
  PROVE  LinkInv'
<1>1. Types'
  BY DEF LinkInv, Types, Becomes
<1>2. \A d \in requests : RequestOK(d)'
  BY DEF LinkInv, RequestOK, Used
<1>3. RequestOK(s)'
  BY DEF LinkInv, RequestOK, Used
<1>4. Apart'
  BY DEF LinkInv, Apart, Becomes, Held
<1>5. SetOK' /\ DoneOK'
  BY DEF LinkInv, SetOK, DoneOK, Used
<1>6. QED
  BY <1>1, <1>2, <1>3, <1>4, <1>5 DEF LinkInv, Becomes

LEMMA CommitKeeps ==
  ASSUME LinkInv, NEW r \in requests, Commit(r)
  PROVE  LinkInv'
<1> DEFINE l == r.link
<1>1. /\ r \in Request /\ RequestOK(r) /\ l \in Links /\ r.attempt \in Attempts
      /\ ~ Used(l) /\ r.at = "marked"
  BY DEF LinkInv, Types, Request, RequestOK, Commit
<1>2. PICK s \in Request :
        /\ requests' = (requests \ {r}) \cup {s}
        /\ s.link = l /\ s.attempt = r.attempt /\ s.at = "ok" /\ s.heard = r.heard
  <2> DEFINE m == [r EXCEPT !.at = "ok"]
  <2>1. m \in Request /\ m.link = l /\ m.attempt = r.attempt /\ m.at = "ok" /\ m.heard = r.heard
    BY <1>1 DEF Request, Stages
  <2>2. QED
    BY <2>1 DEF Commit, Goes, Becomes
<1>3. /\ link' \in [Links -> Rows] /\ Used(l)'
      /\ \A k \in Links \ {l} : link'[k] = link[k]
  BY <1>1 DEF Commit, LinkInv, Types, Rows, Used
<1>4. set' = set \cup {<<l, r.attempt>>} /\ UNCHANGED <<tab, faults>>
  BY DEF Commit
<1>5. UserOf[l] \in Users /\ password' = [password EXCEPT ![UserOf[l]] = r.attempt]
  BY <1>1, LinkAssumption DEF Commit
<1>6. Types'
  BY <1>1, <1>2, <1>3, <1>4, <1>5 DEF LinkInv, Types
<1>7. \A d \in requests \ {r} : RequestOK(d)'
  <2> SUFFICES ASSUME NEW d \in requests \ {r} PROVE RequestOK(d)'
    OBVIOUS
  <2>1. RequestOK(d) /\ d.link \in Links
    BY DEF LinkInv, Types, Request
  <2>2. d.at = "marked" => d.link # l
    BY <1>1 DEF LinkInv, Apart
  <2>3. d.at = "marked" => ~ Used(d.link)'
    BY <1>3, <2>1, <2>2 DEF RequestOK, Used
  <2>4. QED
    BY <1>4, <2>1, <2>3 DEF RequestOK
<1>8. RequestOK(s)'
  BY <1>1, <1>2, <1>4 DEF RequestOK
<1>9. Apart'
  BY <1>2 DEF LinkInv, Apart
<1>10. SetOK'
  <2>1. \A a \in Attempts : <<l, a>> \notin set
    BY <1>1 DEF LinkInv, SetOK
  <2>2. \A k \in Links : Used(k)' <=> \E a \in Attempts : <<k, a>> \in set'
    BY <1>1, <1>3, <1>4 DEF LinkInv, SetOK, Used
  <2>3. \A k \in Links, a, b \in Attempts : <<k, a>> \in set' /\ <<k, b>> \in set' => a = b
    BY <1>4, <2>1 DEF LinkInv, SetOK
  <2>4. \A u \in Users : password'[u] # NoPassword =>
          \E k \in Links : UserOf[k] = u /\ <<k, password'[u]>> \in set'
    BY <1>1, <1>4, <1>5 DEF LinkInv, SetOK, Types
  <2>5. QED
    BY <2>2, <2>3, <2>4 DEF SetOK
<1>11. DoneOK'
  BY <1>4 DEF LinkInv, DoneOK
<1>12. QED
  BY <1>2, <1>6, <1>7, <1>8, <1>9, <1>10, <1>11 DEF LinkInv

LEMMA HandleKeeps ==
  ASSUME LinkInv, NEW r \in requests,
         Handle(r) \/ RollBack(r) \/ DetectFails(r) \/ LoseAnswer(r)
  PROVE  LinkInv'
<1>1. r \in Request /\ RequestOK(r) /\ faults \in 0..MaxFaults
  BY DEF LinkInv, Types
<1>2. ASSUME NEW at \in Stages
      PROVE  /\ [r EXCEPT !.at = at] \in Request /\ [r EXCEPT !.at = at].at = at
             /\ [r EXCEPT !.at = at].link = r.link /\ [r EXCEPT !.at = at].heard = r.heard
             /\ [r EXCEPT !.at = at].attempt = r.attempt
  BY <1>1 DEF Request
<1>3. CASE DetectPurpose(r)
  <2>1. PICK purpose \in Purposes : Becomes(r, [r EXCEPT !.at = "detected", !.purpose = purpose])
    BY <1>3 DEF DetectPurpose, Purposes
  <2> DEFINE s == [r EXCEPT !.at = "detected", !.purpose = purpose]
  <2>2. /\ s \in Request /\ s.at = "detected"
        /\ s.link = r.link /\ s.heard = r.heard /\ s.attempt = r.attempt
    BY <1>1 DEF Request, Stages
  <2>3. QED
    BY <1>1, <1>3, <2>1, <2>2, RequestMoves DEF DetectPurpose
<1>4. CASE Select(r)
  <2>1. PICK at \in {"selected", "refused"} : Goes(r, at)
    BY <1>4 DEF Select
  <2>2. QED
    BY <1>1, <1>2, <1>4, <2>1, RequestMoves DEF Select, Goes, Stages
<1>5. CASE Mark(r)
  <2>1. PICK at \in {"marked", "refused"} :
          Goes(r, at) /\ (at = "marked" => ~ Used(r.link) /\ ~ Held(r.link))
    BY <1>5 DEF Mark
  <2>2. QED
    BY <1>1, <1>2, <1>5, <2>1, RequestMoves DEF Mark, Goes, Stages
<1>6. CASE RollBack(r) \/ DetectFails(r)
  <2>1. faults' \in 0..MaxFaults
    BY <1>1, <1>6, LinkAssumption DEF RollBack, DetectFails, Fault
  <2>2. QED
    BY <1>2, <1>6, <2>1, RequestMoves DEF RollBack, DetectFails, Goes, Stages
<1>7. [r EXCEPT !.heard = FALSE] \in Request /\ ~ [r EXCEPT !.heard = FALSE].heard
      /\ [r EXCEPT !.heard = FALSE].link = r.link /\ [r EXCEPT !.heard = FALSE].at = r.at
      /\ [r EXCEPT !.heard = FALSE].attempt = r.attempt
  BY <1>1 DEF Request
<1>8. CASE LoseAnswer(r)
  <2>1. faults' \in 0..MaxFaults
    BY <1>1, <1>8, LinkAssumption DEF LoseAnswer, Fault
  <2>2. QED
    BY <1>7, <1>8, <2>1, HeardKeeps DEF LoseAnswer, Becomes
<1>9. CASE Answered(r) /\ r.heard
  <2>1. PICK q \in {"ready", "done"} : Show(r.attempt[1], q) /\ (q = "done" => r.at = "ok")
    BY <1>9 DEF Answered
  <2>2. QED
    BY <1>1, <1>7, <1>9, <2>1, HeardKeeps DEF Answered
<1>10. CASE Answered(r) /\ ~ r.heard
  <2>1. UNCHANGED <<rowVars, tab, faults>> /\ requests' = requests \ {r}
    BY <1>10 DEF Answered
  <2>2. Types' /\ Apart' /\ SetOK' /\ DoneOK'
    <3>1. Types' /\ Apart'
      BY <2>1 DEF LinkInv, Types, Apart
    <3>2. SetOK' /\ DoneOK'
      BY <2>1 DEF LinkInv, SetOK, DoneOK, Used
    <3>3. QED
      BY <3>1, <3>2
  <2>3. \A d \in requests' : RequestOK(d)'
    BY <2>1 DEF LinkInv, RequestOK, Used
  <2>4. QED
    BY <2>2, <2>3 DEF LinkInv
<1>11. QED
  BY <1>3, <1>4, <1>5, <1>6, <1>8, <1>9, <1>10, CommitKeeps DEF Handle

LEMMA LinksKeep ==
  ASSUME LinkInv, NEW l \in Links, Generate(l) \/ Expire(l)
  PROVE  LinkInv'
<1>1. link' \in [Links -> Rows] /\ \A k \in Links : Used(k)' <=> Used(k)
  BY DEF Generate, Expire, LinkInv, Types, Rows, Used
<1>2. UNCHANGED <<password, set, tab, requests, faults>>
  BY DEF Generate, Expire
<1>3. Types'
  BY <1>1, <1>2 DEF LinkInv, Types
<1>4. \A r \in requests' : RequestOK(r)'
  <2>1. \A r \in requests : RequestOK(r) /\ r.link \in Links
    BY DEF LinkInv, Types, Request
  <2>2. QED
    BY <1>1, <1>2, <2>1 DEF RequestOK
<1>5. SetOK'
  BY <1>1, <1>2 DEF LinkInv, SetOK
<1>6. Apart' /\ DoneOK'
  BY <1>2 DEF LinkInv, Apart, DoneOK
<1>7. QED
  BY <1>3, <1>4, <1>5, <1>6 DEF LinkInv

LEMMA RestartKeeps == LinkInv /\ Restart => LinkInv'
<1> SUFFICES ASSUME LinkInv, Restart PROVE LinkInv'
  OBVIOUS
<1>1. requests' = {} /\ UNCHANGED rowVars /\ faults' \in 0..MaxFaults
  BY LinkAssumption DEF Restart, Fault, LinkInv, Types
<1>2. ASSUME NEW t \in Tabs
      PROVE  /\ tab'[t] \in Page /\ tab'[t].link = tab[t].link /\ tab'[t].tries = tab[t].tries
             /\ tab'[t].phase = "done" => tab[t].phase = "done"
  <2> DEFINE q == CASE tab[t].phase = "checking"   -> "invalid"
                    [] tab[t].phase = "submitting" -> "ready"
                    [] OTHER                       -> tab[t].phase
  <2>1. tab[t] \in Page /\ tab'[t] = [tab[t] EXCEPT !.phase = q]
    BY DEF Restart, LinkInv, Types
  <2>2. CASE tab[t].phase = "checking"
    BY <2>1, <2>2 DEF Page
  <2>3. CASE tab[t].phase = "submitting"
    BY <2>1, <2>3 DEF Page
  <2>4. CASE tab[t].phase \notin {"checking", "submitting"}
    BY <2>1, <2>4 DEF Page
  <2>5. QED
    BY <2>2, <2>3, <2>4
<1>3. tab' = [t \in Tabs |-> tab'[t]]
  BY DEF Restart
<1>4. Types'
  BY <1>1, <1>2, <1>3 DEF LinkInv, Types
<1>5. Apart' /\ SetOK'
  BY <1>1 DEF LinkInv, Apart, SetOK, Used
<1>6. DoneOK'
  BY <1>1, <1>2 DEF LinkInv, DoneOK
<1>7. QED
  BY <1>1, <1>4, <1>5, <1>6 DEF LinkInv

LEMMA NextLink == LinkInv /\ [Next]_vars => LinkInv'
<1> SUFFICES ASSUME LinkInv, [Next]_vars PROVE LinkInv'
  OBVIOUS
<1>1. ASSUME NEW t \in Tabs, Open(t) \/ VerifyMagicLink(t) \/ CheckFails(t) PROVE LinkInv'
  <2>1. faults' \in 0..MaxFaults
    BY <1>1, LinkAssumption DEF Open, VerifyMagicLink, CheckFails, Fault, LinkInv, Types
  <2>2. PICK q \in {"checking", "invalid", "ready"} : Show(t, q)
    BY <1>1 DEF Open, VerifyMagicLink, CheckFails
  <2>3. QED
    BY <1>1, <2>1, <2>2, PageMoves DEF Open, VerifyMagicLink, CheckFails, Closed
<1>2. CASE UNCHANGED vars
  BY <1>2 DEF LinkInv, Types, Apart, SetOK, DoneOK, RequestOK, Used
<1>3. QED
  BY <1>1, <1>2, SubmitKeeps, HandleKeeps, LinksKeep, RestartKeeps DEF Next

LEMMA LinkInvHolds == Spec => []LinkInv
  BY InitLink, NextLink, PTL DEF Spec

-----------------------------------------------------------------------------
(* The theorems.                                                           *)

LEMMA OnePassword ==
  ASSUME LinkInv, NEW l \in Links, NEW a \in Attempts, <<l, a>> \in set
  PROVE  PasswordsOf(l) = {a}
  BY DEF LinkInv, SetOK, PasswordsOf

(* The variables keep their types, and at most one transaction holds a row.*)
THEOREM LinkTypes == Spec => []LinkTypeOK
<1>1. LinkInv => LinkTypeOK
  <2> SUFFICES ASSUME LinkInv, NEW l \in Links
               PROVE  Cardinality({r \in requests : r.link = l /\ r.at = "marked"}) <= 1
    BY DEF LinkInv, Types, LinkTypeOK, Rows, Page
  <2> DEFINE M == {r \in requests : r.link = l /\ r.at = "marked"}
  <2>1. CASE M = {}
    BY <2>1, FS_EmptySet
  <2>2. CASE M # {}
    <3>1. PICK r : r \in M
      BY <2>2
    <3>2. M = {r}
      BY <3>1 DEF LinkInv, Apart
    <3>3. Cardinality({r}) = 1
      BY FS_Singleton
    <3> HIDE DEF M
    <3>4. Cardinality(M) <= 1
      BY <3>2, <3>3
    <3>5. QED
      BY <3>4 DEF M
  <2>3. QED
    BY <2>1, <2>2
<1>2. QED
  BY <1>1, LinkInvHolds, PTL

(* A link sets one password at most, exactly when it is marked used, and   *)
(* an account's password is one that a link of its own set.                *)
THEOREM LinkOnce == Spec => []OncePerLink
<1>1. LinkInv => OncePerLink
  <2> SUFFICES ASSUME LinkInv PROVE OncePerLink
    OBVIOUS
  <2>1. ASSUME NEW l \in Links
        PROVE  Cardinality(PasswordsOf(l)) = IF Used(l) THEN 1 ELSE 0
    <3>1. CASE Used(l)
      <4>1. PICK a \in Attempts : <<l, a>> \in set
        BY <3>1 DEF LinkInv, SetOK
      <4>2. PasswordsOf(l) = {a}
        BY <4>1, OnePassword
      <4>3. QED
        BY <3>1, <4>2, FS_Singleton
    <3>2. CASE ~ Used(l)
      <4>1. PasswordsOf(l) = {}
        BY <3>2 DEF LinkInv, SetOK, PasswordsOf
      <4>2. QED
        BY <3>2, <4>1, FS_EmptySet
    <3>3. QED
      BY <3>1, <3>2
  <2>2. \A u \in Users : password[u] # NoPassword =>
          \E l \in Links : UserOf[l] = u /\ password[u] \in PasswordsOf(l)
    BY DEF LinkInv, Types, SetOK, PasswordsOf
  <2>3. QED
    BY <2>1, <2>2 DEF OncePerLink
<1>2. QED
  BY <1>1, LinkInvHolds, PTL

(* A page that says the password was updated: its last attempt was set.    *)
THEOREM LinkDone == Spec => []DoneMeansSet
<1>1. LinkInv => DoneMeansSet
  <2> SUFFICES ASSUME LinkInv, NEW t \in Tabs, tab[t].phase = "done"
               PROVE  PasswordsOf(tab[t].link) = {<<t, tab[t].tries>>}
    BY DEF DoneMeansSet
  <2>1. <<tab[t].link, <<t, tab[t].tries>>>> \in set
    BY DEF LinkInv, DoneOK
  <2>2. tab[t].link \in Links /\ <<t, tab[t].tries>> \in Attempts
    BY <2>1 DEF LinkInv, Types
  <2>3. QED
    BY <2>1, <2>2, OnePassword
<1>2. QED
  BY <1>1, LinkInvHolds, PTL

-----------------------------------------------------------------------------
(* The refinement: what goes on about a link is one use of it at most.     *)

(* Pages and requests are about links that were made.                      *)
Made ==
  /\ \A t \in Tabs : tab[t].phase # Closed => link[tab[t].link] # "unmade"
  /\ \A r \in requests : link[r.link] # "unmade"

(* Rows may have moved on, pages may have, for links they were about       *)
(* already, and a request stands for one there was or for an open page.    *)
LEMMA MadeStays ==
  ASSUME Made,
         \A l \in Links : link[l] # "unmade" => link'[l] # "unmade",
         \A t \in Tabs : /\ tab[t].link \in Links /\ tab'[t].link = tab[t].link
                         /\ tab'[t].phase # Closed => link[tab[t].link] # "unmade",
         \A r \in requests' : r.link \in Links /\ link[r.link] # "unmade"
  PROVE  Made'
  BY DEF Made

LEMMA NextMade == LinkInv /\ Made /\ [Next]_vars => Made'
<1> SUFFICES ASSUME LinkInv, Made, [Next]_vars PROVE Made'
  OBVIOUS
<1>1. /\ \A t \in Tabs : tab[t].link \in Links
      /\ \A r \in requests : /\ r.link \in Links /\ r.attempt[1] \in Tabs
                             /\ r.link = tab[r.attempt[1]].link
                             /\ link[r.link] # "unmade"
      /\ tab \in [Tabs -> Page] /\ link \in [Links -> Rows]
  BY DEF LinkInv, Types, Page, Request, Attempts, RequestOK, Made
<1>2. ASSUME NEW t \in Tabs, NEW phase, Show(t, phase), link' = link, link[tab[t].link] # "unmade",
             \A r \in requests' : r.link \in Links /\ link[r.link] # "unmade"
      PROVE  Made'
  <2>1. \A u \in Tabs : /\ tab'[u].link = tab[u].link
                        /\ u # t => tab'[u] = tab[u]
    BY <1>1, <1>2 DEF Show, Page
  <2>2. QED
    BY <1>1, <1>2, <2>1, MadeStays DEF Made
<1>3. ASSUME NEW l \in Links, Generate(l) \/ Expire(l) PROVE Made'
  <2>1. \A k \in Links : link[k] # "unmade" => link'[k] # "unmade"
    BY <1>1, <1>3 DEF Generate, Expire
  <2>2. UNCHANGED <<tab, requests>>
    BY <1>3 DEF Generate, Expire
  <2>3. QED
    BY <1>1, <2>1, <2>2, MadeStays DEF Made
<1>4. ASSUME NEW t \in Tabs, Open(t) \/ VerifyMagicLink(t) \/ CheckFails(t) PROVE Made'
  <2>1. PICK phase : Show(t, phase)
    BY <1>4 DEF Open, VerifyMagicLink, CheckFails
  <2>2. link' = link /\ requests' = requests /\ link[tab[t].link] # "unmade"
    BY <1>4 DEF Open, VerifyMagicLink, CheckFails, Made, Closed
  <2>3. QED
    BY <1>1, <1>2, <2>1, <2>2
<1>5. ASSUME NEW t \in Tabs, Submit(t) PROVE Made'
  <2>1. link' = link /\ tab[t].phase = "ready" /\ link[tab[t].link] # "unmade"
    BY <1>5 DEF Submit, Made, Closed
  <2>2. \A u \in Tabs : tab'[u].link = tab[u].link /\ (u # t => tab'[u] = tab[u])
    BY <1>1, <1>5 DEF Submit, Page
  <2>3. \A r \in requests' : r.link \in Links /\ link[r.link] # "unmade"
    BY <1>1, <1>5, <2>1 DEF Submit
  <2>4. QED
    BY <1>1, <2>1, <2>2, <2>3, MadeStays DEF Made
<1>6. ASSUME NEW r \in requests,
             Handle(r) \/ RollBack(r) \/ DetectFails(r) \/ LoseAnswer(r)
      PROVE  Made'
  <2>1. \A s \in requests' : s \in requests \/ s.link = r.link
    <3>1. r \in Request
      BY DEF LinkInv, Types
    <3>2. CASE Answered(r)
      BY <3>2 DEF Answered
    <3>3. CASE DetectPurpose(r)
      <4>1. PICK purpose : Becomes(r, [r EXCEPT !.at = "detected", !.purpose = purpose])
        BY <3>3 DEF DetectPurpose
      <4>2. [r EXCEPT !.at = "detected", !.purpose = purpose].link = r.link
        BY <3>1 DEF Request
      <4>3. QED
        BY <4>1, <4>2 DEF Becomes
    <3>4. CASE Select(r) \/ Mark(r) \/ Commit(r) \/ RollBack(r) \/ DetectFails(r)
      <4>1. PICK at : Goes(r, at)
        BY <3>4 DEF Select, Mark, Commit, RollBack, DetectFails
      <4>2. [r EXCEPT !.at = at].link = r.link
        BY <3>1 DEF Request
      <4>3. QED
        BY <4>1, <4>2 DEF Goes, Becomes
    <3>5. CASE LoseAnswer(r)
      <4>1. [r EXCEPT !.heard = FALSE].link = r.link
        BY <3>1 DEF Request
      <4>2. QED
        BY <3>5, <4>1 DEF LoseAnswer, Becomes
    <3>6. QED
      BY <1>6, <3>2, <3>3, <3>4, <3>5 DEF Handle
  <2>2. \A s \in requests' : s.link \in Links /\ link[s.link] # "unmade"
    BY <1>1, <2>1
  <2>3. CASE LoseAnswer(r) \/ (Answered(r) /\ r.heard)
    <3>1. PICK phase : Show(r.attempt[1], phase)
      BY <2>3 DEF LoseAnswer, Answered
    <3>2. link' = link
      BY <2>3 DEF LoseAnswer, Answered
    <3>3. QED
      BY <1>1, <1>2, <2>2, <3>1, <3>2
  <2>4. CASE ~ LoseAnswer(r) /\ ~ (Answered(r) /\ r.heard)
    <3>1. tab' = tab
      BY <1>6, <2>4 DEF Handle, DetectPurpose, Select, Mark, Commit, Answered, RollBack, DetectFails
    <3>2. \A k \in Links : link[k] # "unmade" => link'[k] # "unmade"
      BY <1>1, <1>6, <2>4 DEF Handle, DetectPurpose, Select, Mark, Commit, Answered, RollBack,
                              DetectFails
    <3>3. QED
      BY <1>1, <2>2, <3>1, <3>2, MadeStays DEF Made
  <2>5. QED
    BY <2>3, <2>4
<1>7. CASE Restart
  <2>1. link' = link /\ requests' = {}
    BY <1>7 DEF Restart
  <2>2. \A t \in Tabs : tab'[t].link = tab[t].link /\ (tab'[t].phase # Closed => tab[t].phase # Closed)
    <3> SUFFICES ASSUME NEW t \in Tabs
                 PROVE  /\ tab'[t].link = tab[t].link
                        /\ tab'[t].phase # Closed => tab[t].phase # Closed
      OBVIOUS
    <3> DEFINE q == CASE tab[t].phase = "checking"   -> "invalid"
                      [] tab[t].phase = "submitting" -> "ready"
                      [] OTHER                       -> tab[t].phase
    <3>1. tab[t] \in Page /\ tab'[t] = [tab[t] EXCEPT !.phase = q]
      BY <1>1, <1>7 DEF Restart
    <3>2. tab[t].phase = Closed => q = Closed
      BY DEF Closed
    <3> HIDE DEF q
    <3>3. QED
      BY <3>1, <3>2 DEF Page
  <2>3. QED
    BY <1>1, <2>1, <2>2, MadeStays DEF Made
<1>8. CASE UNCHANGED vars
  BY <1>8 DEF Made
<1>9. QED
  BY <1>3, <1>4, <1>5, <1>6, <1>7, <1>8 DEF Next

LEMMA InitMade == Init => Made /\ OneTime!Init
<1> SUFFICES ASSUME Init PROVE Made /\ OneTime!Init
  OBVIOUS
<1>1. \A t \in Tabs : tab[t].phase = Closed
  BY DEF Init
<1>2. LinkStates = [l \in Links |-> "unmade"]
  BY DEF Init, LinkStates, Used
<1>3. QED
  BY <1>1, <1>2 DEF Init, Made, OneTime!Init

(* Only a commit changes an account, and it uses its link up.              *)
LEMMA CommitUses ==
  ASSUME LinkInv, Made, NEW r \in requests, Commit(r)
  PROVE  OneTime!Next
<1> DEFINE l == r.link
<1>1. /\ l \in Links /\ r.attempt \in Attempts /\ ~ Used(l) /\ link[l] # "unmade"
      /\ link \in [Links -> Rows]
  BY DEF Commit, LinkInv, Types, Request, RequestOK, Made
<1>2. LinkStates[l] = "made"
  BY <1>1 DEF LinkStates
<1>3. Used(l)' /\ \A k \in Links \ {l} : link'[k] = link[k]
  BY <1>1 DEF Commit, Used
<1>4. \A k \in Links : LinkStates'[k] = IF k = l THEN "used" ELSE LinkStates[k]
  BY <1>3 DEF LinkStates, Used
<1>5. LinkStates' = [LinkStates EXCEPT ![l] = "used"]
  BY <1>4 DEF LinkStates
<1>6. OneTime!Use(l, r.attempt)
  BY <1>2, <1>5 DEF Commit, OneTime!Use
<1>7. QED
  BY <1>1, <1>6 DEF OneTime!Next

LEMMA GenerateMakes ==
  ASSUME LinkInv, NEW l \in Links, Generate(l) \/ Expire(l)
  PROVE  [OneTime!Next]_OneTime!vars
<1>1. link \in [Links -> Rows] /\ password' = password
  BY DEF Generate, Expire, LinkInv, Types
<1>2. CASE Generate(l)
  <2>1. \A k \in Links : LinkStates'[k] = IF k = l THEN "made" ELSE LinkStates[k]
    BY <1>1, <1>2 DEF Generate, LinkStates, Used
  <2>2. LinkStates' = [LinkStates EXCEPT ![l] = "made"] /\ LinkStates[l] = "unmade"
    BY <1>2, <2>1 DEF LinkStates, Generate, Used
  <2>3. QED
    BY <1>1, <2>2 DEF OneTime!Make, OneTime!Next
<1>3. CASE Expire(l)
  <2>1. \A k \in Links : LinkStates'[k] = LinkStates[k]
    BY <1>1, <1>3 DEF Expire, LinkStates, Used
  <2>2. LinkStates' = LinkStates
    BY <2>1 DEF LinkStates
  <2>3. QED
    BY <1>1, <2>2 DEF OneTime!vars
<1>4. QED
  BY <1>2, <1>3

LEMMA LinkMaps == LinkInv /\ Made /\ [Next]_vars => [OneTime!Next]_OneTime!vars
<1> SUFFICES ASSUME LinkInv, Made, [Next]_vars PROVE [OneTime!Next]_OneTime!vars
  OBVIOUS
<1>1. UNCHANGED <<link, password>> => UNCHANGED OneTime!vars
  BY DEF LinkStates, Used, OneTime!vars
<1>2. ASSUME NEW t \in Tabs, Open(t) \/ VerifyMagicLink(t) \/ Submit(t) \/ CheckFails(t)
      PROVE  UNCHANGED <<link, password>>
  BY <1>2 DEF Open, VerifyMagicLink, Submit, CheckFails
<1>3. ASSUME NEW r \in requests, ~ Commit(r),
             Handle(r) \/ RollBack(r) \/ DetectFails(r) \/ LoseAnswer(r)
      PROVE  UNCHANGED <<link, password>>
  BY <1>3 DEF Handle, DetectPurpose, Select, Mark, Answered, RollBack, DetectFails, LoseAnswer
<1>4. Restart \/ UNCHANGED vars => UNCHANGED <<link, password>>
  BY DEF Restart
<1>5. QED
  BY <1>1, <1>2, <1>3, <1>4, CommitUses, GenerateMakes DEF Next

(* Whatever races, expires or fails in between, a password changes only    *)
(* with the first and only use of a link made for its account.             *)
THEOREM LinkRefinement == Spec => ImplementsOneTimeLink
<1>1. LinkInv /\ Made /\ [Next]_vars => (LinkInv /\ Made)'
  BY NextLink, NextMade
<1>2. QED
  BY <1>1, InitLink, InitMade, LinkMaps,
     PTL DEF Spec, ImplementsOneTimeLink, OneTime!Spec
=============================================================================
