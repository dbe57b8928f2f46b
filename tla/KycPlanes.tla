----------------------------- MODULE KycPlanes -----------------------------
(***************************************************************************)
(* The application of one institution for an account, on three machines:   *)
(* wizard tabs in the applicant's browser (Register.jsx), the data plane   *)
(* that stores drafts and owns the login, and the control plane whose      *)
(* reviewers decide.  The planes talk over HTTP.  Every handler commits on *)
(* its own plane and then makes a best-effort call to the other, which may *)
(* be late or lost: a call is a member of `wire` until it is served.       *)
(*                                                                         *)
(* All drafts carry the institution's own AISHE code, PAN, email and       *)
(* mobile: that is what registerInit and the control plane's unique        *)
(* indexes compare.                                                        *)
(***************************************************************************)
EXTENDS Naturals, FiniteSets

CONSTANTS
  Tabs,          \* wizard tabs
  Required,      \* document kinds the application needs
  Optional,      \* document kinds it may carry
  ClientModes,   \* the kyc_review_mode settings the client may have
  MaxDrafts,     \* bound: rows registerInit inserts
  MaxDecisions,  \* bound: fan-outs and resubmissions
  MaxLost        \* bound: calls lost

ASSUME KycAssumption ==
  /\ MaxDrafts \in Nat /\ MaxDecisions \in Nat /\ MaxLost \in Nat
  /\ Required \cap Optional = {}
  /\ ClientModes \subseteq {"admin", "client", "both"}

VARIABLES
  tabs,      \* the wizard of each tab
  dp,        \* data plane: status of each institution_applications row
  docs,      \* data plane: document kinds stored for each row
  org,       \* data plane: the organisation with its admin login
  edits,     \* data plane: what document requests past their check may do
  cp,        \* control plane: the row of the institution
  mode,      \* control plane: the client's kyc_review_mode
  wire,      \* calls between the planes that are under way
  listed,    \* the slices an open page of each desk may still show the row in
  drafts,    \* rows inserted so far
  decisions, \* calls numbered so far
  vouched,   \* history: the superadmin let the row pass since it was filed
  lost,      \* history: calls between the planes that were lost
  crossed,   \* history: a call or a new draft while a call was under way
  undercut   \* history: a required document was deleted between a
             \* resubmission's two reads of the documents

dpVars == <<dp, docs, org, drafts>>
cpVars == <<cp, mode, vouched>>
vars == <<tabs, dpVars, cpVars, wire, listed, decisions, lost, crossed, edits, undercut>>

Apps == 1..MaxDrafts
Kinds == Required \cup Optional
DeskNames == {"admin", "client"}

FreshTab == [step |-> "documents", files |-> {}, at |-> "idle", app |-> 0, todo |-> {}]

TabStates ==
  [step: {"documents", "review", "done"}, files: SUBSET Kinds,
   at: {"idle", "init", "upload", "submit"}, app: 0..MaxDrafts, todo: SUBSET Kinds]

(* A call between the planes.  approve (/internal/orgs/create with the row *)
(* to be marked), reject and revoke go to the data plane; submit and       *)
(* resubmit are the data plane's handlers and their call to the control    *)
(* plane.                                                                  *)
Calls ==
  [kind: {"approve", "reject", "revoke"}, app: Apps, n: 1..MaxDecisions]
  \cup [kind: {"resubmit"}, app: Apps, n: 1..MaxDecisions, docs: SUBSET Kinds,
        stage: {"asked", "checked", "updated", "sent"}]
  \cup [kind: {"submit"}, app: Apps, tab: Tabs, docs: SUBSET Kinds,
        stage: {"row", "docs", "filed", "replied", "reconcile"}]

Edits == [op: {"delete", "upload"}, doc: Kinds]

Init ==
  /\ tabs = [t \in Tabs |-> FreshTab]
  /\ dp = [d \in Apps |-> "none"]
  /\ docs = [d \in Apps |-> {}]
  /\ org = [exists |-> FALSE, app |-> 0]
  /\ cp = [app |-> 0, status |-> "none", desk |-> "none", docs |-> {}]
  /\ mode \in ClientModes
  /\ wire = {}
  /\ listed = [k \in DeskNames |-> {}]
  /\ drafts = 0 /\ decisions = 0
  /\ vouched = FALSE /\ lost = 0 /\ crossed = FALSE
  /\ edits = {} /\ undercut = FALSE

---------------------------------------------------------------------------
(* Calls                                                                   *)

(* A handler's best-effort call to the other plane. *)
Fire(kind, app) ==
  /\ decisions < MaxDecisions
  /\ decisions' = decisions + 1
  /\ wire' = wire \cup {[kind |-> kind, app |-> app, n |-> decisions + 1]}
  /\ crossed' = (crossed \/ wire # {})
  /\ UNCHANGED lost

OneMoreLost == lost < MaxLost /\ lost' = lost + 1

Served(call) ==
  /\ wire' = wire \ {call}
  /\ UNCHANGED <<decisions, lost, crossed>>

Moved(call, stage) == wire' = (wire \ {call}) \cup {[call EXCEPT !.stage = stage]}

---------------------------------------------------------------------------
(* The wizard (Register.jsx)                                               *)

InTab(t, new) ==
  /\ tabs' = [tabs EXCEPT ![t] = new]
  /\ UNCHANGED <<cpVars, listed, undercut>>

InBrowser(t, new) ==
  /\ InTab(t, new)
  /\ UNCHANGED <<dpVars, wire, decisions, lost, crossed>>

(* goToReview.  Here the wizard is opened at its documents; the steps      *)
(* before them are OtpProof's.                                             *)
GoToReview(t) ==
  /\ tabs[t].step = "documents" /\ Required \subseteq tabs[t].files
  /\ InBrowser(t, [tabs[t] EXCEPT !.step = "review"])

(* The review page's Edit links stay enabled while a submission runs, but  *)
(* nothing reads what they lead to before it has ended: editing comes then.*)
Edit(t) ==
  /\ tabs[t].step = "review" /\ tabs[t].at = "idle"
  /\ InBrowser(t, [tabs[t] EXCEPT !.step = "documents"])

HandleFile(t, kind) ==
  /\ tabs[t].step = "documents" /\ kind \notin tabs[t].files
  /\ InBrowser(t, [tabs[t] EXCEPT !.files = @ \cup {kind}])

RemoveDoc(t, kind) ==
  /\ tabs[t].step = "documents" /\ kind \in tabs[t].files
  /\ InBrowser(t, [tabs[t] EXCEPT !.files = @ \ {kind}])

(* Mutant: the documents are not counted again before the submission. *)
FinalizeMutant(t) ==
  /\ tabs[t].at = "idle"
  /\ InBrowser(t, [tabs[t] EXCEPT !.at = "init", !.todo = tabs[t].files])

(* The submission works with the files the tab held when it was clicked.   *)
Finalize(t) ==
  LET tab == tabs[t] IN
  /\ tab.step = "review" /\ tab.at = "idle" /\ Required \subseteq tab.files
  /\ InBrowser(t, [tab EXCEPT !.at = "init", !.todo = tab.files])

StartOver(t) == tabs[t].step = "done" /\ InBrowser(t, FreshTab)

(* The id of a failed attempt stays on the page, but nothing reads it.     *)
Fail(tab) == [tab EXCEPT !.at = "idle", !.todo = {}, !.app = 0]

(* The browser loses an answer or gives up on it; what the request has set *)
(* in motion goes on.  A reload of the page is this and the files taken    *)
(* out again: the wizard keeps nothing.                                    *)
RequestFails(t) == tabs[t].at # "idle" /\ InBrowser(t, Fail(tabs[t]))

---------------------------------------------------------------------------
(* The data plane serves the wizard                                        *)

(* Mutant: an email that already signs in is no reason to refuse. *)
TakenMutant == \E d \in Apps : dp[d] \in {"pending", "approved"}

(* The head's email belongs to a user, or a row is under review or decided *)
(* for good.                                                               *)
Taken == org.exists \/ \E d \in Apps : dp[d] \in {"pending", "approved"}

(* registerInit replaces what is left of an earlier attempt: drafts and    *)
(* rejected rows go, with their documents, and an organisation that        *)
(* pointed to one points nowhere.                                          *)
RegisterInit(t) ==
  /\ tabs[t].at = "init" /\ ~Taken /\ drafts < MaxDrafts
  /\ LET new == drafts + 1
         old == {d \in Apps : dp[d] \in {"draft", "rejected"}}
     IN /\ drafts' = new
        /\ dp' = [d \in Apps |-> IF d = new THEN "draft"
                                 ELSE IF d \in old THEN "gone" ELSE dp[d]]
        /\ docs' = [d \in Apps |-> IF d \in old THEN {} ELSE docs[d]]
        /\ org' = [org EXCEPT !.app = IF @ \in old THEN 0 ELSE @]
        /\ InTab(t, [tabs[t] EXCEPT !.at = "upload", !.app = new])
  /\ crossed' = (crossed \/ wire # {})
  /\ UNCHANGED <<wire, decisions, lost>>

InitRefused(t) ==
  /\ tabs[t].at = "init" /\ Taken
  /\ InBrowser(t, Fail(tabs[t]))

UploadRefused(t) ==
  LET tab == tabs[t] IN
  /\ tab.at = "upload" /\ tab.todo # {} /\ dp[tab.app] # "draft"
  /\ InBrowser(t, Fail(tab))

RegisterUploadDoc(t, kind) ==
  LET tab == tabs[t] IN
  /\ tab.at = "upload" /\ kind \in tab.todo /\ dp[tab.app] = "draft"
  /\ docs' = [docs EXCEPT ![tab.app] = @ \cup {kind}]
  /\ InTab(t, [tab EXCEPT !.todo = @ \ {kind}])
  /\ UNCHANGED <<dp, org, drafts, wire, decisions, lost, crossed>>

(* proxyRegisterSubmit and the first read of hydrateDraftPayload. *)
Submit(t) ==
  LET tab == tabs[t] IN
  /\ tab.at = "upload" /\ tab.todo = {}
  /\ IF dp[tab.app] = "gone"
       THEN InBrowser(t, Fail(tab))
       ELSE /\ InTab(t, [tab EXCEPT !.at = "submit"])
            /\ wire' = wire \cup {[kind |-> "submit", app |-> tab.app, tab |-> t,
                                   docs |-> {}, stage |-> "row"]}
            /\ crossed' = (crossed \/ wire # {})
            /\ UNCHANGED <<dpVars, decisions, lost>>

(* The second read is another statement: the row may be gone by then.      *)
HydrateDocs(call) ==
  /\ call.kind = "submit" /\ call.stage = "row"
  /\ wire' = (wire \ {call}) \cup {[call EXCEPT !.docs = docs[call.app], !.stage = "docs"]}
  /\ UNCHANGED <<tabs, dpVars, cpVars, listed, decisions, lost, crossed, undercut>>

---------------------------------------------------------------------------
(* The control plane takes an application                                  *)

AtCP == UNCHANGED <<dpVars, mode>>

(* What a page of the desk loaded now shows: KycInbox lists what is in the *)
(* client's queue and what the client rejected, ApplicationDetail offers   *)
(* what its snapshot of the row allows.                                    *)
Shown(row, k) ==
  (IF row.status = "pending" /\ row.desk = k THEN {"pending"} ELSE {})
  \cup (IF row.status = "rejected" /\ (k = "admin" \/ row.desk = k) THEN {"rejected"} ELSE {})

(* A page stays open as long as somebody likes: a desk may always have one *)
(* that shows what the row once was.                                       *)
Put(row) ==
  /\ cp' = row
  /\ listed' = [k \in DeskNames |-> listed[k] \cup Shown(row, k)]


(* Mutant: the setting is taken for the queue. *)
FirstDeskMutant == mode

FirstDesk == IF mode = "client" THEN "client" ELSE "admin"

(* cpRegisterSubmit up to its commit.  The wizard never submits a row      *)
(* twice, so the idempotent answer is left out.                            *)
CpSubmit(call) ==
  /\ call.kind = "submit" /\ call.stage = "docs" /\ cp.status = "none"
  /\ Put([app |-> call.app, status |-> "pending", desk |-> FirstDesk, docs |-> call.docs])
  /\ vouched' = FALSE
  /\ Moved(call, "filed")
  /\ AtCP /\ UNCHANGED <<tabs, decisions, lost, crossed, undercut>>

Waiting(call) == tabs[call.tab].at = "submit" /\ tabs[call.tab].app = call.app
Answer(call, new) ==
  tabs' = IF Waiting(call) THEN [tabs EXCEPT ![call.tab] = new] ELSE tabs

(* The unique indexes: the institution is on file already. *)
SubmitRefused(call) ==
  /\ call.kind = "submit" /\ call.stage = "docs" /\ cp.status # "none"
  /\ Answer(call, Fail(tabs[call.tab]))
  /\ Served(call)
  /\ AtCP /\ UNCHANGED <<cp, vouched, listed, undercut>>

(* internalOrgsCreate: the organisation and its admin, once per            *)
(* institution.  The row it links must still be there.                     *)
OrgCreated(app) ==
  IF ~org.exists /\ dp[app] # "gone" THEN [exists |-> TRUE, app |-> app] ELSE org

(* The fan-out at submission: the login, but not yet the approval. *)
Provision(call) ==
  /\ call.kind = "submit" /\ call.stage = "filed"
  /\ org' = OrgCreated(call.app)
  /\ Moved(call, "replied")
  /\ UNCHANGED <<tabs, dp, docs, drafts, cpVars, listed, decisions, lost, crossed, undercut>>

(* The data plane passes the answer on before it updates its own row.      *)
SubmitAnswered(call) ==
  /\ call.kind = "submit" /\ call.stage = "replied"
  /\ Answer(call, [FreshTab EXCEPT !.step = "done", !.app = call.app])
  /\ Moved(call, "reconcile")
  /\ AtCP /\ UNCHANGED <<cp, vouched, listed, decisions, lost, crossed, undercut>>

Reconcile(call) ==
  /\ call.kind = "submit" /\ call.stage = "reconcile"
  /\ dp' = [dp EXCEPT ![call.app] = IF @ = "draft" THEN "pending" ELSE @]
  /\ Served(call)
  /\ UNCHANGED <<tabs, docs, org, drafts, cpVars, listed, undercut>>

(* A call that never arrives, a plane that stops in between, or an answer  *)
(* nobody waits for any more: whatever is left of the call is not done,    *)
(* and a wizard that still waits shows an error.                           *)
Lose(call) ==
  /\ wire' = wire \ {call}
  /\ OneMoreLost
  /\ IF call.kind = "submit" THEN Answer(call, Fail(tabs[call.tab])) ELSE UNCHANGED tabs
  /\ UNCHANGED <<dpVars, cpVars, listed, decisions, crossed, undercut>>

---------------------------------------------------------------------------
(* The desks                                                               *)

(* A click on a page that shows the row in that slice; the row may have    *)
(* moved on since the page was loaded.                                     *)
AtDesk(k, slice) ==
  /\ slice \in listed[k] /\ cp.status = slice
  /\ UNCHANGED <<tabs, dpVars, mode, undercut>>

Decide(status, desk) == Put([cp EXCEPT !.status = status, !.desk = desk])

(* superadminApplicationApprove looks at the queue; in mode both it hands  *)
(* the row to the client's desk.                                           *)
AdminApprove ==
  /\ AtDesk("admin", "pending") /\ cp.desk = "admin"
  /\ vouched' = TRUE
  /\ IF mode = "both"
       THEN Decide("pending", "client") /\ UNCHANGED <<wire, decisions, lost, crossed>>
       ELSE Decide("approved", "admin") /\ Fire("approve", cp.app)

(* cpReviewerApprove does not look at the queue. *)
ClientApprove ==
  /\ AtDesk("client", "pending")
  /\ Decide("approved", "client") /\ Fire("approve", cp.app)
  /\ UNCHANGED vouched

(* Neither do the two rejections. *)
Reject(k) ==
  /\ AtDesk(k, "pending")
  /\ Decide("rejected", k) /\ Fire("reject", cp.app)
  /\ UNCHANGED vouched

(* The client's desk keeps the row it revokes, the superadmin's sends it   *)
(* where a new one would go.                                               *)
Revoke(k) ==
  /\ AtDesk(k, "rejected")
  /\ Decide("pending", IF k = "client" THEN "client" ELSE FirstDesk)
  /\ Fire("revoke", cp.app)
  /\ vouched' = (vouched /\ k = "client")

---------------------------------------------------------------------------
(* The data plane mirrors a decision                                       *)

FromCP(call, app) ==
  /\ call.kind # "submit" /\ call.kind # "resubmit"
  /\ Served(call)
  /\ UNCHANGED <<tabs, docs, drafts, cpVars, listed, undercut>>

(* internalOrgsCreate with MarkApproved: backfillDPApplication. *)
MirrorApprove(call) ==
  /\ call.kind = "approve" /\ FromCP(call, call.app)
  /\ org' = OrgCreated(call.app)
  /\ dp' = [dp EXCEPT ![call.app] =
             IF @ \in {"draft", "pending"} /\ org'.exists THEN "approved" ELSE @]

(* Mutant: the mirror does not look at what the row says. *)
MirrorRejectMutant(call) ==
  /\ call.kind = "reject" /\ FromCP(call, call.app)
  /\ dp' = [dp EXCEPT ![call.app] = IF @ = "gone" THEN @ ELSE "rejected"]
  /\ UNCHANGED org

MirrorReject(call) ==
  /\ call.kind = "reject" /\ FromCP(call, call.app)
  /\ dp' = [dp EXCEPT ![call.app] = IF @ \in {"draft", "pending"} THEN "rejected" ELSE @]
  /\ UNCHANGED org

(* Mutant: the mirror of a revocation is left out. *)
MirrorRevokeMutant(call) ==
  call.kind = "revoke" /\ FromCP(call, call.app) /\ UNCHANGED <<dp, org>>

MirrorRevoke(call) ==
  /\ call.kind = "revoke" /\ FromCP(call, call.app)
  /\ dp' = [dp EXCEPT ![call.app] = IF @ = "rejected" THEN "pending" ELSE @]
  /\ UNCHANGED org

---------------------------------------------------------------------------
(* The applicant mends a rejected application (KycResubmit.jsx).  Each of  *)
(* the handlers checks the status first and works with what it finds later.*)

Mine == org.exists /\ org.app # 0 /\ dp[org.app] = "rejected"
AtLogin == UNCHANGED <<tabs, org, drafts, cpVars, listed>>
Direct == UNCHANGED <<dp, wire, decisions, lost, crossed>>

(* A document request may be held up between its check and its statement   *)
(* as long as somebody likes: what such requests may still do grows while  *)
(* the application is rejected.  A DELETE names a document, not a kind: it *)
(* does nothing to the one that replaced it.                               *)
Admit ==
  edits' = {edit \in Edits : /\ edit \in edits \/ Mine'
                             /\ edit.op = "delete" => edit.doc \in docs'[org'.app]}

BetweenReads(call) == call.kind = "resubmit" /\ call.stage \in {"checked", "updated"}

(* Replacing a document deletes the old one first: two requests.           *)
AdminDeleteDoc(kind) ==
  /\ [op |-> "delete", doc |-> kind] \in edits
  /\ docs' = [docs EXCEPT ![org.app] = @ \ {kind}]
  /\ undercut' = (undercut \/ (kind \in Required /\ \E call \in wire : BetweenReads(call)))
  /\ AtLogin /\ Direct

AdminUploadDoc(kind) ==
  /\ [op |-> "upload", doc |-> kind] \in edits /\ kind \notin docs[org.app]
  /\ docs' = [docs EXCEPT ![org.app] = @ \cup {kind}]
  /\ AtLogin /\ Direct /\ UNCHANGED undercut

(* adminResubmitMyKYCApplication: the status ...                           *)
AdminResubmit ==
  /\ Mine /\ decisions < MaxDecisions
  /\ decisions' = decisions + 1
  /\ wire' = wire \cup {[kind |-> "resubmit", app |-> org.app, n |-> decisions + 1,
                         docs |-> {}, stage |-> "asked"]}
  /\ crossed' = (crossed \/ wire # {})
  /\ AtLogin /\ UNCHANGED <<dp, docs, lost, undercut>>

(* ... the required documents ...                                          *)
CheckRequired(call) ==
  /\ call.kind = "resubmit" /\ call.stage = "asked"
  /\ IF Required \subseteq docs[call.app] THEN Moved(call, "checked") ELSE wire' = wire \ {call}
  /\ AtLogin /\ UNCHANGED <<dp, docs, decisions, lost, crossed, undercut>>

(* ... the row, if it still says rejected ...                              *)
BackToPending(call) ==
  /\ call.kind = "resubmit" /\ call.stage = "checked"
  /\ dp' = [dp EXCEPT ![call.app] = IF @ = "rejected" THEN "pending" ELSE @]
  /\ Moved(call, "updated")
  /\ AtLogin /\ UNCHANGED <<docs, decisions, lost, crossed, undercut>>

(* ... and, whatever it said, the documents again for the call.            *)
CallCPResubmit(call) ==
  /\ call.kind = "resubmit" /\ call.stage = "updated"
  /\ wire' = (wire \ {call}) \cup {[call EXCEPT !.docs = docs[call.app], !.stage = "sent"]}
  /\ AtLogin /\ UNCHANGED <<dp, docs, decisions, lost, crossed, undercut>>

CpResubmit(call) ==
  /\ call.kind = "resubmit" /\ call.stage = "sent" /\ Served(call)
  /\ IF cp.status = "rejected"
       THEN /\ Put([cp EXCEPT !.status = "pending", !.desk = FirstDesk, !.docs = call.docs])
            /\ vouched' = FALSE
       ELSE UNCHANGED <<cp, vouched, listed>>
  /\ AtCP /\ UNCHANGED <<tabs, undercut>>

---------------------------------------------------------------------------
WizardStep(t) ==
  \/ GoToReview(t) \/ Edit(t)
  \/ \E kind \in Kinds : HandleFile(t, kind) \/ RemoveDoc(t, kind)
  \/ Finalize(t) \/ RequestFails(t) \/ StartOver(t)
  \/ RegisterInit(t) \/ InitRefused(t) \/ UploadRefused(t) \/ Submit(t)
  \/ \E kind \in Kinds : RegisterUploadDoc(t, kind)

CallStep(call) ==
  \/ HydrateDocs(call) \/ CpSubmit(call) \/ SubmitRefused(call)
  \/ Provision(call) \/ SubmitAnswered(call) \/ Reconcile(call)
  \/ MirrorApprove(call) \/ MirrorReject(call) \/ MirrorRevoke(call)
  \/ CheckRequired(call) \/ BackToPending(call) \/ CallCPResubmit(call)
  \/ CpResubmit(call) \/ Lose(call)

DeskStep ==
  \/ \E k \in DeskNames : Reject(k) \/ Revoke(k)
  \/ AdminApprove \/ ClientApprove

LoginStep ==
  \/ \E kind \in Kinds : AdminDeleteDoc(kind) \/ AdminUploadDoc(kind)
  \/ AdminResubmit

Next ==
  /\ \/ \E t \in Tabs : WizardStep(t)
     \/ \E call \in wire : CallStep(call)
     \/ DeskStep
     \/ LoginStep
  /\ Admit

Spec == Init /\ [][Next]_vars

---------------------------------------------------------------------------
(* Every variable keeps to its values: the statuses of the two planes, the *)
(* wizard's steps, the calls between the planes. *)
KycTypeOK ==
  /\ tabs \in [Tabs -> TabStates]
  /\ dp \in [Apps -> {"none", "draft", "pending", "approved", "rejected", "gone"}]
  /\ docs \in [Apps -> SUBSET Kinds]
  /\ org \in [exists: BOOLEAN, app: 0..MaxDrafts]
  /\ cp \in [app: 0..MaxDrafts, status: {"none", "pending", "approved", "rejected"},
             desk: DeskNames \cup {"none"}, docs: SUBSET Kinds]
  /\ mode \in ClientModes
  /\ wire \subseteq Calls
  /\ listed \in [DeskNames -> SUBSET {"pending", "rejected"}]
  /\ drafts \in 0..MaxDrafts /\ decisions \in 0..MaxDecisions
  /\ vouched \in BOOLEAN /\ lost \in 0..MaxLost /\ crossed \in BOOLEAN
  /\ edits \subseteq Edits /\ undercut \in BOOLEAN

(* A wizard that says "submitted" has put its application before the       *)
(* reviewers with every required document, and every resubmission of it    *)
(* brings them again, unless another tab replaced the draft while the      *)
(* submission read it, or a required document was deleted between the two  *)
(* reads of a resubmission. *)
DoneIsFiled ==
  \A t \in Tabs : tabs[t].step = "done" =>
    /\ cp.app = tabs[t].app
    /\ dp[cp.app] # "gone" /\ ~undercut => Required \subseteq cp.docs

(* The login the applicant is given opens the application the reviewers    *)
(* decide, whatever other tabs submit before or after: otherwise the lock  *)
(* screen would never learn of the decision. *)
LoginOpensFiled == org.exists => org.app = cp.app /\ dp[org.app] # "gone"

(* Seen from outside, without tabs, drafts and calls between the planes:   *)
(* one application is filed, ruled on, opened by the login and unlocked.   *)
(* The login opens a row that is still there.                              *)
Opened == {d \in Apps : org.exists /\ org.app = d /\ dp[d] # "gone"}
Unlocked == {d \in Apps : dp[d] = "approved"}

Application == INSTANCE KycApplication WITH
  NoApp <- 0, filed <- cp.app, ruling <- cp.status,
  opened <- Opened, unlocked <- Unlocked

(* Whatever other tabs submit, whichever calls are lost or late, the two   *)
(* planes together handle one application: a login once opened keeps its   *)
(* row, no decision is skipped, and nothing is unlocked but the            *)
(* application the reviewers approved.                                     *)
ImplementsApplication == Application!Spec

(* The data plane unlocks an institution only after a desk has approved    *)
(* it, and an approval is for good on both planes: late mirrors of earlier *)
(* rejections, revocations and resubmissions do not undo it. *)
ApprovalIsFinal ==
  [][ /\ cp.status = "approved" => cp' = cp
      /\ \A d \in Apps : dp[d] = "approved" => dp'[d] = "approved"
      /\ \A d \in Apps : dp'[d] = "approved" => cp.status = "approved" /\ cp.app = d ]_vars

(* When no call was lost and none overlapped another or a new draft, the   *)
(* planes agree whenever nothing is under way, and a filed application has *)
(* its login. *)
AgreeWhenQuiet ==
  wire = {} /\ lost = 0 /\ ~crossed /\ cp.status # "none" =>
    dp[cp.app] = cp.status /\ org.exists

(* "Superadmin approve flips it to pending_reviewer='client' ... Client    *)
(* reviewer's approve finalizes" (backend/internal/db/migrate.go:886-889): *)
(* in mode both nothing is approved that the superadmin has not passed     *)
(* since it was last filed.  The code does not keep to it. *)
SuperadminFirst == mode = "both" /\ cp.status = "approved" => vouched
=============================================================================
