-------------------------- MODULE KycPlanes_proofs --------------------------
(***************************************************************************)
(* Proofs about KycPlanes, for any number of tabs, drafts, calls and       *)
(* losses: the login opens the application on file, an approval is for     *)
(* good, a wizard that says "submitted" speaks of the application on file, *)
(* and in calm histories the planes agree.                                 *)
(***************************************************************************)
EXTENDS KycPlanes, TLAPS

USE DEF dpVars, cpVars, vars, Apps, DeskNames

-----------------------------------------------------------------------------
(* The inductive invariant.                                                *)

Statuses == {"none", "draft", "pending", "approved", "rejected", "gone"}
Row == [app: 0..MaxDrafts, status: {"none", "pending", "approved", "rejected"},
        desk: DeskNames \cup {"none"}, docs: SUBSET Kinds]

(* The types, but for what the applicant's login owns.                     *)
Typed ==
  /\ tabs \in [Tabs -> TabStates]
  /\ dp \in [Apps -> Statuses]
  /\ docs \in [Apps -> SUBSET Kinds]
  /\ org \in [exists: BOOLEAN, app: 0..MaxDrafts]
  /\ cp \in Row
  /\ mode \in ClientModes
  /\ wire \subseteq Calls
  /\ listed \in [DeskNames -> SUBSET {"pending", "rejected"}]
  /\ drafts \in 0..MaxDrafts /\ decisions \in 0..MaxDecisions
  /\ vouched \in BOOLEAN /\ lost \in 0..MaxLost /\ crossed \in BOOLEAN

(* A tab that uploads or submits has a draft.                              *)
TabOK(tab) == tab.at \in {"upload", "submit"} => tab.app \in Apps

(* What is on file, what opens it, and what the data plane takes for       *)
(* approved.                                                               *)
Filing ==
  /\ cp.status # "none" => cp.app \in Apps
  /\ org.exists => cp.status # "none" /\ org.app = cp.app /\ dp[org.app] # "gone"
  /\ ~ org.exists => org.app = 0
  /\ \A d \in Apps : dp[d] = "approved" => cp.status = "approved" /\ cp.app = d

(* A call that creates the organisation is about the row on file; one that *)
(* approves is only under way once that row is approved; and it takes a    *)
(* login to resubmit.                                                      *)
CallOK(call) ==
  /\ call.kind = "approve" => cp.status = "approved" /\ call.app = cp.app
  /\ call.kind = "submit" /\ call.stage \in {"filed", "replied", "reconcile"} =>
       cp.status # "none" /\ call.app = cp.app
  /\ call.kind = "resubmit" => org.exists

KycInv ==
  /\ Typed
  /\ \A t \in Tabs : TabOK(tabs[t])
  /\ Filing
  /\ \A call \in wire : CallOK(call)

(* It takes a login to touch the documents, too.                           *)
LoginInv ==
  /\ edits \subseteq Edits /\ undercut \in BOOLEAN
  /\ edits # {} => org.exists

(* What ApprovalIsFinal asks of a step.                                    *)
Final ==
  /\ cp.status = "approved" => cp' = cp
  /\ \A d \in Apps : dp[d] = "approved" => dp'[d] = "approved"
  /\ \A d \in Apps : dp'[d] = "approved" => cp.status = "approved" /\ cp.app = d

LEMMA InitKyc == Init => KycInv /\ LoginInv
<1> SUFFICES ASSUME Init PROVE KycInv /\ LoginInv
  OBVIOUS
<1>1. Typed
  <2>1. FreshTab \in TabStates
    BY KycAssumption DEF FreshTab, TabStates
  <2>2. org \in [exists: BOOLEAN, app: 0..MaxDrafts] /\ cp \in Row
    BY KycAssumption DEF Init, Row
  <2>3. listed \in [DeskNames -> SUBSET {"pending", "rejected"}] /\ docs \in [Apps -> SUBSET Kinds]
    BY DEF Init
  <2>4. tabs \in [Tabs -> TabStates]
    BY <2>1 DEF Init
  <2>5. dp \in [Apps -> Statuses]
    BY DEF Init, Statuses
  <2>6. /\ drafts \in 0..MaxDrafts /\ decisions \in 0..MaxDecisions /\ lost \in 0..MaxLost
        /\ wire \subseteq Calls
    BY KycAssumption DEF Init
  <2>7. mode \in ClientModes /\ vouched \in BOOLEAN /\ crossed \in BOOLEAN
    BY DEF Init
  <2>8. QED
    BY <2>2, <2>3, <2>4, <2>5, <2>6, <2>7 DEF Typed
<1>2. (\A t \in Tabs : TabOK(tabs[t])) /\ Filing /\ (\A call \in wire : CallOK(call))
  BY DEF Init, FreshTab, TabOK, Filing
<1>3. LoginInv
  BY DEF Init, LoginInv
<1>4. QED
  BY <1>1, <1>2, <1>3 DEF KycInv

-----------------------------------------------------------------------------
(* The wizard.                                                             *)

(* A step that leaves what is on file alone.                               *)
LEMMA FileKept ==
  ASSUME KycInv, Typed', UNCHANGED <<cp, dp, org>>,
         \A t \in Tabs : TabOK(tabs'[t]),
         \A call \in wire' : CallOK(call)
  PROVE  KycInv' /\ Final
<1>1. Filing' /\ Final
  BY DEF KycInv, Filing, Final
<1>2. \A call \in wire' : CallOK(call)'
  BY DEF CallOK
<1>3. \A t \in Tabs : TabOK(tabs[t])'
  BY DEF TabOK
<1>4. QED
  BY <1>1, <1>2, <1>3 DEF KycInv

LEMMA TabTyped ==
  ASSUME KycInv, NEW t \in Tabs
  PROVE  tabs[t] \in TabStates /\ TabOK(tabs[t])
  BY DEF KycInv, Typed

LEMMA InTabTyped ==
  ASSUME KycInv, NEW t \in Tabs, NEW new \in TabStates, TabOK(new), InTab(t, new)
  PROVE  /\ tabs' \in [Tabs -> TabStates] /\ \A u \in Tabs : TabOK(tabs'[u])
         /\ UNCHANGED <<cp, mode, vouched, listed>>
  BY DEF KycInv, Typed, InTab

LEMMA InBrowserKeeps ==
  ASSUME KycInv, NEW t \in Tabs, NEW new \in TabStates, TabOK(new), InBrowser(t, new)
  PROVE  KycInv' /\ Final
<1>1. /\ tabs' \in [Tabs -> TabStates] /\ \A u \in Tabs : TabOK(tabs'[u])
      /\ UNCHANGED <<cp, mode, vouched, listed>>
  BY InTabTyped DEF InBrowser
<1>2. Typed'
  BY <1>1 DEF KycInv, Typed, InBrowser
<1>3. QED
  BY <1>1, <1>2, FileKept DEF KycInv, InBrowser

LEMMA FailTyped ==
  ASSUME NEW tab \in TabStates
  PROVE  Fail(tab) \in TabStates /\ TabOK(Fail(tab))
<1>1. /\ Fail(tab) \in [step: {"documents", "review", "done"}, files: SUBSET Kinds,
                         at: {"idle", "init", "upload", "submit"}, app: 0..MaxDrafts,
                         todo: SUBSET Kinds]
      /\ Fail(tab).at = "idle"
  <2>1. {} \in SUBSET Kinds /\ 0 \in 0..MaxDrafts
    BY KycAssumption
  <2>2. QED
    BY <2>1 DEF Fail, TabStates
<1>2. QED
  BY <1>1 DEF TabOK, TabStates

LEMMA FreshTyped == FreshTab \in TabStates /\ TabOK(FreshTab)
  BY KycAssumption DEF FreshTab, TabStates, TabOK

LEMMA PageKeeps ==
  ASSUME KycInv, NEW t \in Tabs,
         \/ GoToReview(t) \/ Edit(t) \/ Finalize(t) \/ RequestFails(t) \/ StartOver(t)
         \/ InitRefused(t) \/ UploadRefused(t)
         \/ \E kind \in Kinds : HandleFile(t, kind) \/ RemoveDoc(t, kind)
  PROVE  KycInv' /\ Final
<1>1. tabs[t] \in TabStates /\ TabOK(tabs[t])
  BY TabTyped
<1>2. CASE GoToReview(t)
  <2>1. [tabs[t] EXCEPT !.step = "review"] \in TabStates /\ TabOK([tabs[t] EXCEPT !.step = "review"])
    BY <1>1 DEF TabStates, TabOK
  <2>2. QED
    BY <1>2, <2>1, InBrowserKeeps DEF GoToReview
<1>3. CASE Edit(t)
  <2>1. [tabs[t] EXCEPT !.step = "documents"] \in TabStates /\ TabOK([tabs[t] EXCEPT !.step = "documents"])
    BY <1>1 DEF TabStates, TabOK
  <2>2. QED
    BY <1>3, <2>1, InBrowserKeeps DEF Edit
<1>4. CASE Finalize(t)
  <2> DEFINE new == [tabs[t] EXCEPT !.at = "init", !.todo = tabs[t].files]
  <2>1. new \in TabStates /\ TabOK(new)
    BY <1>1 DEF TabStates, TabOK
  <2>2. InBrowser(t, new)
    BY <1>4 DEF Finalize
  <2>3. QED
    BY <2>1, <2>2, InBrowserKeeps
<1>5. CASE RequestFails(t) \/ InitRefused(t) \/ UploadRefused(t)
  <2>1. InBrowser(t, Fail(tabs[t]))
    BY <1>5 DEF RequestFails, InitRefused, UploadRefused
  <2>2. QED
    BY <1>1, <2>1, FailTyped, InBrowserKeeps
<1>6. CASE StartOver(t)
  BY <1>6, FreshTyped, InBrowserKeeps DEF StartOver
<1>7. ASSUME NEW kind \in Kinds, HandleFile(t, kind) \/ RemoveDoc(t, kind)
      PROVE  KycInv' /\ Final
  <2>1. PICK F \in SUBSET Kinds : InBrowser(t, [tabs[t] EXCEPT !.files = F])
    <3>1. tabs[t].files \in SUBSET Kinds
      BY <1>1 DEF TabStates
    <3>2. CASE HandleFile(t, kind)
      BY <3>1, <3>2 DEF HandleFile
    <3>3. CASE RemoveDoc(t, kind)
      BY <3>1, <3>3 DEF RemoveDoc
    <3>4. QED
      BY <1>7, <3>2, <3>3
  <2>2. [tabs[t] EXCEPT !.files = F] \in TabStates /\ TabOK([tabs[t] EXCEPT !.files = F])
    BY <1>1 DEF TabStates, TabOK
  <2>3. QED
    BY <2>1, <2>2, InBrowserKeeps
<1>8. QED
  BY <1>2, <1>3, <1>4, <1>5, <1>6, <1>7

-----------------------------------------------------------------------------
(* The data plane serves the wizard.                                       *)

LEMMA RegisterInitKeeps ==
  ASSUME KycInv, NEW t \in Tabs, RegisterInit(t)
  PROVE  KycInv' /\ Final
<1> DEFINE new == [tabs[t] EXCEPT !.at = "upload", !.app = drafts + 1]
           old == {d \in Apps : dp[d] \in {"draft", "rejected"}}
<1>1. tabs[t] \in TabStates /\ drafts + 1 \in Apps
  BY TabTyped, KycAssumption DEF RegisterInit, KycInv, Typed
<1>2. new \in TabStates /\ TabOK(new)
  <2> DEFINE n == drafts + 1
  <2>1. n \in 0..MaxDrafts /\ n \in Apps
    BY <1>1, KycAssumption
  <2> HIDE DEF n
  <2>2. [tabs[t] EXCEPT !.at = "upload", !.app = n] \in TabStates
    BY <1>1, <2>1 DEF TabStates
  <2>3. TabOK([tabs[t] EXCEPT !.at = "upload", !.app = n])
    BY <1>1, <2>1 DEF TabStates, TabOK
  <2>4. QED
    BY <2>2, <2>3 DEF n
<1>3. /\ InTab(t, new) /\ drafts' = drafts + 1
      /\ dp' = [d \in Apps |-> IF d = drafts + 1 THEN "draft"
                              ELSE IF d \in old THEN "gone" ELSE dp[d]]
      /\ docs' = [d \in Apps |-> IF d \in old THEN {} ELSE docs[d]]
      /\ org' = [org EXCEPT !.app = IF @ \in old THEN 0 ELSE @]
      /\ crossed' = (crossed \/ wire # {}) /\ UNCHANGED <<wire, decisions, lost>>
  BY DEF RegisterInit
<1>4. /\ tabs' \in [Tabs -> TabStates] /\ \A u \in Tabs : TabOK(tabs'[u])
      /\ UNCHANGED <<cp, mode, vouched, listed>>
  BY <1>2, <1>3, InTabTyped
<1>5. /\ dp' \in [Apps -> Statuses] /\ docs' \in [Apps -> SUBSET Kinds]
      /\ drafts' \in 0..MaxDrafts /\ crossed' \in BOOLEAN
  BY <1>1, <1>3 DEF KycInv, Typed, Statuses
<1>6. ~ org.exists /\ (\A d \in Apps : dp[d] \notin {"pending", "approved"}) /\ org.app = 0
  BY DEF RegisterInit, Taken, KycInv, Filing
<1>7. org' = org
  BY <1>3, <1>6 DEF KycInv, Typed
<1>8. Typed'
  BY <1>3, <1>4, <1>5, <1>7 DEF KycInv, Typed, Statuses
<1>9. \A d \in Apps : dp'[d] # "approved"
  BY <1>3, <1>6
<1>10. Filing' /\ Final
  BY <1>4, <1>6, <1>7, <1>9 DEF KycInv, Filing, Final
<1>11. \A call \in wire' : CallOK(call)'
  BY <1>3, <1>4 DEF KycInv, CallOK
<1>12. QED
  BY <1>4, <1>8, <1>10, <1>11 DEF KycInv, TabOK

LEMMA UploadKeeps ==
  ASSUME KycInv, NEW t \in Tabs, NEW kind \in Kinds, RegisterUploadDoc(t, kind)
  PROVE  KycInv' /\ Final
<1> DEFINE new == [tabs[t] EXCEPT !.todo = tabs[t].todo \ {kind}]
<1>1. tabs[t] \in TabStates /\ TabOK(tabs[t]) /\ tabs[t].at = "upload"
  BY TabTyped DEF RegisterUploadDoc
<1>2. new \in TabStates /\ TabOK(new) /\ InTab(t, new)
  BY <1>1 DEF TabStates, TabOK, RegisterUploadDoc
<1>3. /\ tabs' \in [Tabs -> TabStates] /\ \A u \in Tabs : TabOK(tabs'[u])
      /\ UNCHANGED <<cp, mode, vouched, listed>>
  BY <1>2, InTabTyped
<1>4. docs' \in [Apps -> SUBSET Kinds]
  <2>1. docs \in [Apps -> SUBSET Kinds] /\ tabs[t].app \in Apps
    BY <1>1 DEF KycInv, Typed, TabOK
  <2>2. docs' = [docs EXCEPT ![tabs[t].app] = docs[tabs[t].app] \cup {kind}]
    BY DEF RegisterUploadDoc
  <2>3. QED
    BY <2>1, <2>2
<1>5. UNCHANGED <<dp, org, drafts, wire, decisions, lost, crossed>>
  BY DEF RegisterUploadDoc
<1>6. Typed'
  BY <1>3, <1>4, <1>5 DEF KycInv, Typed
<1>7. QED
  BY <1>3, <1>5, <1>6, FileKept DEF KycInv

LEMMA SubmitKeeps ==
  ASSUME KycInv, NEW t \in Tabs, Submit(t)
  PROVE  KycInv' /\ Final
<1>1. tabs[t] \in TabStates /\ TabOK(tabs[t]) /\ tabs[t].at = "upload"
  BY TabTyped DEF Submit
<1>2. CASE dp[tabs[t].app] = "gone"
  <2>1. InBrowser(t, Fail(tabs[t]))
    BY <1>2 DEF Submit
  <2>2. QED
    BY <1>1, <2>1, FailTyped, InBrowserKeeps
<1>3. CASE dp[tabs[t].app] # "gone"
  <2> DEFINE new == [tabs[t] EXCEPT !.at = "submit"]
             c == [kind |-> "submit", app |-> tabs[t].app, tab |-> t, docs |-> {}, stage |-> "row"]
  <2>1. new \in TabStates /\ TabOK(new)
    BY <1>1 DEF TabStates, TabOK
  <2>2. /\ InTab(t, new) /\ wire' = wire \cup {c} /\ crossed' = (crossed \/ wire # {})
        /\ UNCHANGED <<dp, docs, org, drafts, decisions, lost>>
    BY <1>3 DEF Submit
  <2>3. /\ tabs' \in [Tabs -> TabStates] /\ \A u \in Tabs : TabOK(tabs'[u])
        /\ UNCHANGED <<cp, mode, vouched, listed>>
    BY <2>1, <2>2, InTabTyped
  <2>4. c \in Calls /\ CallOK(c)
    <3>1. tabs[t].app \in Apps /\ {} \in SUBSET Kinds
      BY <1>1 DEF TabOK
    <3>2. c \in [kind: {"submit"}, app: Apps, tab: Tabs, docs: SUBSET Kinds,
                stage: {"row", "docs", "filed", "replied", "reconcile"}]
      BY <3>1
    <3>3. QED
      BY <3>2 DEF Calls, CallOK
  <2>5. Typed'
    BY <2>2, <2>3, <2>4 DEF KycInv, Typed
  <2>6. \A call \in wire' : CallOK(call)
    BY <2>2, <2>4 DEF KycInv
  <2>7. QED
    BY <2>2, <2>3, <2>5, <2>6, FileKept
<1>4. QED
  BY <1>2, <1>3

-----------------------------------------------------------------------------
(* Calls between the planes.                                               *)

SubmitCalls == [kind: {"submit"}, app: Apps, tab: Tabs, docs: SUBSET Kinds,
                stage: {"row", "docs", "filed", "replied", "reconcile"}]

LEMMA SubmitTyped ==
  ASSUME KycInv, NEW call \in wire, call.kind = "submit"
  PROVE  call \in SubmitCalls /\ CallOK(call)
  BY DEF KycInv, Typed, Calls, SubmitCalls

LEMMA AppTyped ==
  ASSUME KycInv, NEW call \in wire
  PROVE  call \in Calls /\ CallOK(call) /\ call.app \in Apps
  BY DEF KycInv, Typed, Calls

(* The answer of a submission puts its tab into a state it may be in.      *)
LEMMA AnswerTyped ==
  ASSUME KycInv, NEW call \in SubmitCalls, NEW new \in TabStates, TabOK(new), Answer(call, new)
  PROVE  tabs' \in [Tabs -> TabStates] /\ \A u \in Tabs : TabOK(tabs'[u])
<1>1. call.tab \in Tabs
  BY DEF SubmitCalls
<1>2. QED
  BY <1>1 DEF Answer, KycInv, Typed

(* A call that only changes its stage, or is over.                         *)
LEMMA WireMoves ==
  ASSUME KycInv, NEW call \in wire, NEW next \in Calls, CallOK(next),
         \/ wire' = wire \ {call}
         \/ wire' = (wire \ {call}) \cup {next},
         tabs' \in [Tabs -> TabStates], \A u \in Tabs : TabOK(tabs'[u]),
         lost' \in 0..MaxLost,
         UNCHANGED <<dpVars, cpVars, listed, decisions, crossed>>
  PROVE  KycInv' /\ Final
<1>1. Typed'
  BY DEF KycInv, Typed
<1>2. \A c \in wire' : CallOK(c)
  BY DEF KycInv
<1>3. QED
  BY <1>1, <1>2, FileKept

LEMMA MovedTyped ==
  ASSUME KycInv, NEW call \in SubmitCalls, NEW stage \in {"filed", "replied", "reconcile"}
  PROVE  LET next == [call EXCEPT !.stage = stage] IN
         /\ next \in Calls /\ next.kind = "submit"
         /\ next.app = call.app /\ next.stage = stage
<1> DEFINE next == [call EXCEPT !.stage = stage]
<1>1. next \in SubmitCalls /\ next.kind = "submit" /\ next.app = call.app /\ next.stage = stage
  BY DEF SubmitCalls
<1> HIDE DEF next
<1>2. next \in Calls
  BY <1>1 DEF Calls, SubmitCalls
<1>3. QED
  BY <1>1, <1>2 DEF next

LEMMA LoseKeeps ==
  ASSUME KycInv, NEW call \in wire, Lose(call)
  PROVE  KycInv' /\ Final
<1>1. lost' \in 0..MaxLost
  BY KycAssumption DEF Lose, OneMoreLost, KycInv, Typed
<1>2. tabs' \in [Tabs -> TabStates] /\ \A u \in Tabs : TabOK(tabs'[u])
  <2>1. CASE call.kind = "submit"
    <3>1. call \in SubmitCalls /\ Answer(call, Fail(tabs[call.tab])) /\ call.tab \in Tabs
      BY <2>1, SubmitTyped DEF Lose, SubmitCalls
    <3>2. QED
      BY <3>1, FailTyped, TabTyped, AnswerTyped
  <2>2. CASE call.kind # "submit"
    BY <2>2 DEF Lose, KycInv, Typed
  <2>3. QED
    BY <2>1, <2>2
<1>3. call \in Calls /\ CallOK(call)
  BY AppTyped
<1>4. QED
  BY <1>1, <1>2, <1>3, WireMoves DEF Lose

LEMMA SubmissionKeeps ==
  ASSUME KycInv, NEW call \in wire,
         HydrateDocs(call) \/ SubmitRefused(call) \/ SubmitAnswered(call)
  PROVE  KycInv' /\ Final
<1>1. call \in SubmitCalls /\ CallOK(call) /\ call.kind = "submit" /\ call.tab \in Tabs /\ call.app \in Apps
  <2>1. call.kind = "submit"
    BY DEF HydrateDocs, SubmitRefused, SubmitAnswered
  <2>2. QED
    BY <2>1, SubmitTyped DEF SubmitCalls
<1>2. lost \in 0..MaxLost /\ tabs \in [Tabs -> TabStates] /\ (\A u \in Tabs : TabOK(tabs[u]))
      /\ docs \in [Apps -> SUBSET Kinds]
  BY DEF KycInv, Typed
<1>3. CASE HydrateDocs(call)
  <2> DEFINE next == [call EXCEPT !.docs = docs[call.app], !.stage = "docs"]
  <2>1. docs[call.app] \in SUBSET Kinds
    BY <1>1, <1>2
  <2>2. next \in Calls /\ next.kind = "submit" /\ next.stage = "docs"
    <3>1. next \in SubmitCalls /\ next.kind = "submit" /\ next.stage = "docs"
      BY <1>1, <2>1 DEF SubmitCalls
    <3> HIDE DEF next
    <3>2. QED
      BY <3>1 DEF Calls, SubmitCalls
  <2>3. CallOK(next)
    BY <2>2 DEF CallOK
  <2>4. wire' = (wire \ {call}) \cup {next} /\ UNCHANGED <<tabs, lost, dpVars, cpVars, listed, decisions, crossed>>
    BY <1>3 DEF HydrateDocs
  <2> HIDE DEF next
  <2>5. QED
    BY <1>2, <2>2, <2>3, <2>4, WireMoves
<1>4. CASE SubmitRefused(call)
  <2>1. tabs' \in [Tabs -> TabStates] /\ \A u \in Tabs : TabOK(tabs'[u])
    BY <1>1, <1>4, FailTyped, TabTyped, AnswerTyped DEF SubmitRefused
  <2>2. wire' = wire \ {call} /\ UNCHANGED <<dpVars, cpVars, listed, decisions, lost, crossed>>
    BY <1>4 DEF SubmitRefused, Served, AtCP
  <2>3. call \in Calls
    BY AppTyped
  <2>4. QED
    BY <1>1, <1>2, <2>1, <2>2, <2>3, WireMoves
<1>5. CASE SubmitAnswered(call)
  <2> DEFINE new == [FreshTab EXCEPT !.step = "done", !.app = call.app]
             next == [call EXCEPT !.stage = "reconcile"]
  <2>1. new \in TabStates /\ TabOK(new)
    <3>1. call.app \in 0..MaxDrafts /\ FreshTab \in TabStates /\ FreshTab.at = "idle"
      BY <1>1, FreshTyped, KycAssumption DEF FreshTab
    <3>2. new \in TabStates /\ new.at = "idle"
      BY <3>1 DEF TabStates
    <3>3. QED
      BY <3>2 DEF TabOK
  <2>2. tabs' \in [Tabs -> TabStates] /\ \A u \in Tabs : TabOK(tabs'[u])
    BY <1>1, <1>5, <2>1, AnswerTyped DEF SubmitAnswered
  <2>3. next \in Calls /\ next.kind = "submit" /\ next.stage = "reconcile" /\ next.app = call.app
    BY <1>1, MovedTyped
  <2>4. CallOK(next)
    BY <1>1, <1>5, <2>3 DEF CallOK, SubmitAnswered
  <2>5. wire' = (wire \ {call}) \cup {next} /\ UNCHANGED <<dpVars, cpVars, listed, decisions, lost, crossed>>
    BY <1>5 DEF SubmitAnswered, Moved, AtCP
  <2> HIDE DEF next
  <2>6. QED
    BY <1>2, <2>2, <2>3, <2>4, <2>5, WireMoves
<1>6. QED
  BY <1>3, <1>4, <1>5

(* A row that is filed or decided: what the steps on the control plane     *)
(* have in common.  No row that is on file is replaced by another one.     *)
LEMMA PutKeeps ==
  ASSUME KycInv, NEW row \in Row, Put(row),
         row.app \in Apps, row.status # "none",
         cp.status # "approved", cp.status # "none" => row.app = cp.app,
         vouched' \in BOOLEAN, decisions' \in 0..MaxDecisions, crossed' \in BOOLEAN,
         UNCHANGED <<tabs, dpVars, mode, lost>>,
         wire' \subseteq Calls, \A call \in wire' : call \in wire \/ CallOK(call)'
  PROVE  KycInv' /\ Final
<1>1. cp' = row /\ listed' \in [DeskNames -> SUBSET {"pending", "rejected"}]
  BY DEF Put, Shown, KycInv, Typed
<1>2. Typed'
  BY <1>1 DEF KycInv, Typed, Row
<1>3. (\A d \in Apps : dp[d] # "approved") /\ ~ (org.exists /\ cp.status = "none")
  BY DEF KycInv, Filing
<1>4. Filing' /\ Final
  BY <1>1, <1>3 DEF KycInv, Filing, Final
<1>5. \A call \in wire' : CallOK(call)'
  BY <1>1 DEF KycInv, CallOK
<1>6. QED
  BY <1>2, <1>4, <1>5 DEF KycInv, TabOK

LEMMA FirstDeskTyped == FirstDesk \in DeskNames
  BY DEF FirstDesk

LEMMA CpSubmitKeeps ==
  ASSUME KycInv, NEW call \in wire, CpSubmit(call)
  PROVE  KycInv' /\ Final
<1> DEFINE row == [app |-> call.app, status |-> "pending", desk |-> FirstDesk, docs |-> call.docs]
           next == [call EXCEPT !.stage = "filed"]
<1>1. call \in SubmitCalls /\ call.app \in Apps /\ call.docs \in SUBSET Kinds /\ cp.status = "none"
  BY SubmitTyped DEF CpSubmit, SubmitCalls
<1>2. row \in Row /\ row.app = call.app /\ row.status = "pending" /\ Put(row)
  BY <1>1, FirstDeskTyped, KycAssumption DEF Row, CpSubmit
<1>3. next \in Calls /\ next.kind = "submit" /\ next.app = call.app
  BY <1>1, MovedTyped
<1>4. wire' = (wire \ {call}) \cup {next} /\ UNCHANGED <<tabs, dpVars, mode, lost, decisions, crossed>>
      /\ vouched' = FALSE
  BY DEF CpSubmit, Moved, AtCP
<1>5. wire' \subseteq Calls /\ decisions' \in 0..MaxDecisions /\ crossed' \in BOOLEAN
  BY <1>3, <1>4 DEF KycInv, Typed
<1>6. cp' = row
  BY <1>2 DEF Put
<1> HIDE DEF next, row
<1>7. \A c \in wire' : c \in wire \/ CallOK(c)'
  <2>1. ASSUME NEW c \in wire', c = next PROVE CallOK(c)'
    BY <1>2, <1>3, <1>6, <2>1 DEF CallOK
  <2>2. QED
    BY <1>4, <2>1
<1>8. QED
  BY <1>1, <1>2, <1>4, <1>5, <1>7, PutKeeps

LEMMA CpResubmitKeeps ==
  ASSUME KycInv, NEW call \in wire, CpResubmit(call)
  PROVE  KycInv' /\ Final
<1>1. /\ wire' = wire \ {call} /\ UNCHANGED <<tabs, dpVars, mode, lost, decisions, crossed>>
      /\ call \in Calls /\ CallOK(call) /\ call.kind = "resubmit"
  BY AppTyped DEF CpResubmit, Served, AtCP
<1>2. CASE cp.status = "rejected"
  <2> DEFINE row == [cp EXCEPT !.status = "pending", !.desk = FirstDesk, !.docs = call.docs]
  <2>1. call.docs \in SUBSET Kinds
    BY <1>1 DEF Calls
  <2>2. cp \in Row /\ cp.app \in Apps
    BY <1>2 DEF KycInv, Typed, Filing, Row
  <2>3. row \in Row /\ row.app = cp.app /\ row.status = "pending" /\ Put(row) /\ vouched' = FALSE
    BY <1>2, <2>1, <2>2, FirstDeskTyped DEF Row, CpResubmit
  <2>4. wire' \subseteq Calls /\ decisions' \in 0..MaxDecisions /\ crossed' \in BOOLEAN
    BY <1>1 DEF KycInv, Typed
  <2> HIDE DEF row
  <2>5. QED
    BY <1>1, <1>2, <2>2, <2>3, <2>4, PutKeeps
<1>3. CASE cp.status # "rejected"
  <2>1. UNCHANGED <<dpVars, cpVars, listed, decisions, crossed>>
    BY <1>1, <1>3 DEF CpResubmit
  <2>2. tabs' \in [Tabs -> TabStates] /\ (\A u \in Tabs : TabOK(tabs'[u])) /\ lost' \in 0..MaxLost
    BY <1>1 DEF KycInv, Typed
  <2>3. QED
    BY <1>1, <2>1, <2>2, WireMoves
<1>4. QED
  BY <1>2, <1>3

(* The organisation of the row on file.                                    *)
LEMMA OrgTyped ==
  ASSUME KycInv, cp.status # "none", NEW o, o = OrgCreated(cp.app)
  PROVE  /\ o \in [exists: BOOLEAN, app: 0..MaxDrafts]
         /\ o.exists => o.app = cp.app /\ dp[cp.app] # "gone"
         /\ ~ o.exists => o.app = 0
<1>1. org \in [exists: BOOLEAN, app: 0..MaxDrafts] /\ cp.app \in 0..MaxDrafts
  BY DEF KycInv, Typed, Row
<1>2. CASE ~ org.exists /\ dp[cp.app] # "gone"
  BY <1>1, <1>2 DEF OrgCreated
<1>3. CASE ~ (~ org.exists /\ dp[cp.app] # "gone")
  BY <1>1, <1>3 DEF OrgCreated, KycInv, Filing
<1>4. QED
  BY <1>2, <1>3

LEMMA ProvisionKeeps ==
  ASSUME KycInv, NEW call \in wire, Provision(call)
  PROVE  KycInv' /\ Final
<1> DEFINE next == [call EXCEPT !.stage = "replied"]
<1>1. call \in SubmitCalls /\ CallOK(call) /\ cp.status # "none" /\ call.app = cp.app
  BY SubmitTyped DEF Provision, CallOK
<1>2. next \in Calls /\ next.kind = "submit" /\ next.app = call.app
  BY <1>1, MovedTyped
<1>3. org' = OrgCreated(cp.app) /\ wire' = (wire \ {call}) \cup {next}
      /\ UNCHANGED <<tabs, dp, docs, drafts, cpVars, listed, decisions, lost, crossed>>
  BY <1>1 DEF Provision, Moved
<1>4. /\ org' \in [exists: BOOLEAN, app: 0..MaxDrafts]
      /\ org'.exists => org'.app = cp.app /\ dp[cp.app] # "gone"
      /\ ~ org'.exists => org'.app = 0
  BY <1>1, <1>3, OrgTyped
<1>5. Typed'
  BY <1>2, <1>3, <1>4 DEF KycInv, Typed
<1>6. Filing' /\ Final
  BY <1>1, <1>3, <1>4 DEF KycInv, Filing, Final
<1> HIDE DEF next
<1>7. \A c \in wire' : CallOK(c)'
  <2>1. ASSUME NEW c \in wire PROVE CallOK(c)'
    <3>1. org.exists => org'.exists
      BY <1>3 DEF OrgCreated
    <3>2. QED
      BY <1>3, <3>1 DEF KycInv, CallOK
  <2>2. ASSUME NEW c \in wire', c = next PROVE CallOK(c)'
    BY <1>1, <1>2, <1>3, <2>2 DEF CallOK
  <2>3. QED
    BY <1>3, <2>1, <2>2
<1>8. QED
  BY <1>3, <1>5, <1>6, <1>7 DEF KycInv, TabOK

(* A call that changes the data plane's row of an application, and perhaps *)
(* creates its organisation.                                               *)
LEMMA RowKeeps ==
  ASSUME KycInv, NEW app \in Apps, NEW s \in {"pending", "approved", "rejected"},
         dp' = [dp EXCEPT ![app] = s] \/ dp' = dp,
         dp' # dp => dp[app] \in {"draft", "pending", "rejected"},
         s = "approved" => cp.status = "approved" /\ app = cp.app,
         UNCHANGED <<tabs, docs, drafts, cpVars, listed>>,
         wire' \subseteq Calls, \A c \in wire' : CallOK(c),
         decisions' \in 0..MaxDecisions, lost' \in 0..MaxLost, crossed' \in BOOLEAN,
         org' = org \/ (cp.status # "none" /\ org' = OrgCreated(cp.app))
  PROVE  KycInv' /\ Final
<1>1. /\ dp \in [Apps -> Statuses] /\ dp' \in [Apps -> Statuses]
      /\ \A d \in Apps :
           \/ dp'[d] = dp[d]
           \/ d = app /\ dp'[d] = s /\ dp[d] \in {"draft", "pending", "rejected"}
  BY DEF KycInv, Typed, Statuses
<1>2. /\ org' \in [exists: BOOLEAN, app: 0..MaxDrafts]
      /\ org'.exists => cp.status # "none" /\ org'.app = cp.app /\ dp[cp.app] # "gone"
      /\ ~ org'.exists => org'.app = 0
  <2>1. CASE org' = org
    BY <2>1 DEF KycInv, Typed, Filing
  <2>2. CASE cp.status # "none" /\ org' = OrgCreated(cp.app)
    BY <2>2, OrgTyped
  <2>3. QED
    BY <2>1, <2>2
<1>3. Typed'
  BY <1>1, <1>2 DEF KycInv, Typed, Statuses
<1>4. \A d \in Apps : dp'[d] = "gone" => dp[d] = "gone"
  BY <1>1
<1>5. \A d \in Apps : dp[d] = "approved" => dp'[d] = "approved"
  BY <1>1
<1>6. \A d \in Apps : dp'[d] = "approved" => cp.status = "approved" /\ cp.app = d
  BY <1>1 DEF KycInv, Filing
<1>7. Filing' /\ Final
  BY <1>2, <1>4, <1>5, <1>6 DEF KycInv, Filing, Final
<1>8. \A c \in wire' : CallOK(c)'
  <2>1. org.exists => org'.exists
    BY DEF OrgCreated
  <2>2. QED
    BY <2>1 DEF CallOK
<1>9. QED
  BY <1>3, <1>7, <1>8 DEF KycInv, TabOK

LEMMA MirrorKeeps ==
  ASSUME KycInv, NEW call \in wire,
         Reconcile(call) \/ MirrorApprove(call) \/ MirrorReject(call) \/ MirrorRevoke(call)
  PROVE  KycInv' /\ Final
<1>1. call.app \in Apps /\ CallOK(call) /\ dp \in [Apps -> Statuses]
  BY AppTyped DEF KycInv, Typed, Statuses
<1>2. /\ wire' = wire \ {call} /\ UNCHANGED <<tabs, docs, drafts, cpVars, listed, decisions, lost, crossed>>
  BY DEF Reconcile, MirrorApprove, MirrorReject, MirrorRevoke, FromCP, Served
<1>3. wire' \subseteq Calls /\ (\A c \in wire' : CallOK(c)) /\ decisions' \in 0..MaxDecisions
      /\ lost' \in 0..MaxLost /\ crossed' \in BOOLEAN
  BY <1>2 DEF KycInv, Typed
<1>4. CASE Reconcile(call)
  <2>1. dp' = [dp EXCEPT ![call.app] = "pending"] \/ dp' = dp
    BY <1>1, <1>4 DEF Reconcile
  <2>2. dp' # dp => dp[call.app] = "draft"
    BY <1>1, <1>4 DEF Reconcile
  <2>3. QED
    BY <1>1, <1>2, <1>3, <1>4, <2>1, <2>2, RowKeeps DEF Reconcile
<1>5. CASE MirrorApprove(call)
  <2>1. cp.status = "approved" /\ call.app = cp.app /\ org' = OrgCreated(cp.app)
    BY <1>1, <1>5 DEF MirrorApprove, CallOK
  <2>2. dp' = [dp EXCEPT ![call.app] = "approved"] \/ dp' = dp
    BY <1>1, <1>5 DEF MirrorApprove
  <2>3. dp' # dp => dp[call.app] \in {"draft", "pending"}
    BY <1>1, <1>5 DEF MirrorApprove
  <2>4. QED
    BY <1>1, <1>2, <1>3, <2>1, <2>2, <2>3, RowKeeps
<1>6. CASE MirrorReject(call)
  <2>1. dp' = [dp EXCEPT ![call.app] = "rejected"] \/ dp' = dp
    BY <1>1, <1>6 DEF MirrorReject
  <2>2. dp' # dp => dp[call.app] \in {"draft", "pending"}
    BY <1>1, <1>6 DEF MirrorReject
  <2>3. QED
    BY <1>1, <1>2, <1>3, <1>6, <2>1, <2>2, RowKeeps DEF MirrorReject
<1>7. CASE MirrorRevoke(call)
  <2>1. dp' = [dp EXCEPT ![call.app] = "pending"] \/ dp' = dp
    BY <1>1, <1>7 DEF MirrorRevoke
  <2>2. dp' # dp => dp[call.app] = "rejected"
    BY <1>1, <1>7 DEF MirrorRevoke
  <2>3. QED
    BY <1>1, <1>2, <1>3, <1>7, <2>1, <2>2, RowKeeps DEF MirrorRevoke
<1>8. QED
  BY <1>4, <1>5, <1>6, <1>7

ResubmitCalls == [kind: {"resubmit"}, app: Apps, n: 1..MaxDecisions, docs: SUBSET Kinds,
                  stage: {"asked", "checked", "updated", "sent"}]

(* The statements of a resubmission: what becomes of the call, and of the  *)
(* row.                                                                    *)
LEMMA ResubmitSteps ==
  ASSUME KycInv, NEW call \in wire,
         CheckRequired(call) \/ BackToPending(call) \/ CallCPResubmit(call)
  PROVE  /\ call \in ResubmitCalls /\ CallOK(call)
         /\ \/ wire' = wire \ {call} /\ CheckRequired(call)
            \/ \E next \in ResubmitCalls :
                 /\ wire' = (wire \ {call}) \cup {next} /\ next.app = call.app
                 /\ \/ /\ CheckRequired(call) /\ next.stage = "checked"
                       /\ Required \subseteq docs[call.app]
                    \/ BackToPending(call) /\ next.stage = "updated"
                    \/ /\ CallCPResubmit(call) /\ next.stage = "sent"
                       /\ next.docs = docs[call.app]
         /\ UNCHANGED <<tabs, docs, org, drafts, cpVars, listed, decisions, lost, crossed, undercut>>
         /\ dp' = dp \/ BackToPending(call)
<1>1. call.kind = "resubmit"
  BY DEF CheckRequired, BackToPending, CallCPResubmit
<1>2. call \in ResubmitCalls /\ CallOK(call) /\ call.app \in Apps
  BY <1>1, AppTyped DEF Calls, ResubmitCalls
<1>3. UNCHANGED <<tabs, docs, org, drafts, cpVars, listed, decisions, lost, crossed, undercut>>
  BY DEF CheckRequired, BackToPending, CallCPResubmit, AtLogin
<1>4. CASE CheckRequired(call) /\ ~ Required \subseteq docs[call.app]
  BY <1>2, <1>3, <1>4 DEF CheckRequired
<1>5. CASE CheckRequired(call) /\ Required \subseteq docs[call.app]
  <2> PICK next : next = [call EXCEPT !.stage = "checked"]
    OBVIOUS
  <2>1. next \in ResubmitCalls /\ next.app = call.app /\ next.stage = "checked"
    BY <1>2 DEF ResubmitCalls
  <2>2. wire' = (wire \ {call}) \cup {next} /\ dp' = dp
    BY <1>5 DEF CheckRequired, Moved
  <2>3. QED
    BY <1>2, <1>3, <1>5, <2>1, <2>2
<1>6. CASE BackToPending(call)
  <2> PICK next : next = [call EXCEPT !.stage = "updated"]
    OBVIOUS
  <2>1. next \in ResubmitCalls /\ next.app = call.app /\ next.stage = "updated"
    BY <1>2 DEF ResubmitCalls
  <2>2. wire' = (wire \ {call}) \cup {next}
    BY <1>6 DEF BackToPending, Moved
  <2>3. QED
    BY <1>2, <1>3, <1>6, <2>1, <2>2
<1>7. CASE CallCPResubmit(call)
  <2> PICK next : next = [call EXCEPT !.docs = docs[call.app], !.stage = "sent"]
    OBVIOUS
  <2>1. docs[call.app] \in SUBSET Kinds
    BY <1>2 DEF KycInv, Typed
  <2>2. /\ next \in ResubmitCalls /\ next.app = call.app /\ next.stage = "sent"
        /\ next.docs = docs[call.app]
    BY <1>2, <2>1 DEF ResubmitCalls
  <2>3. wire' = (wire \ {call}) \cup {next} /\ dp' = dp
    BY <1>7 DEF CallCPResubmit
  <2>4. QED
    BY <1>2, <1>3, <1>7, <2>2, <2>3
<1>8. QED
  BY <1>4, <1>5, <1>6, <1>7

LEMMA ResubmitKeeps ==
  ASSUME KycInv, NEW call \in wire,
         CheckRequired(call) \/ BackToPending(call) \/ CallCPResubmit(call)
  PROVE  KycInv' /\ Final
<1>1. /\ call \in ResubmitCalls /\ CallOK(call) /\ call.app \in Apps
      /\ UNCHANGED <<tabs, docs, org, drafts, cpVars, listed, decisions, lost, crossed>>
  BY ResubmitSteps DEF ResubmitCalls
<1>2. /\ wire' \subseteq wire \cup ResubmitCalls
      /\ \A c \in wire' : c \in wire \/ c.kind = "resubmit"
  BY ResubmitSteps DEF ResubmitCalls
<1>3. wire' \subseteq Calls
  <2>1. ResubmitCalls \subseteq Calls
    BY DEF ResubmitCalls, Calls
  <2>2. QED
    BY <1>2, <2>1 DEF KycInv, Typed
<1>4. \A c \in wire' : CallOK(c)
  <2>1. org.exists
    BY <1>1 DEF CallOK, ResubmitCalls
  <2>2. QED
    BY <1>2, <2>1 DEF KycInv, CallOK
<1>5. decisions' \in 0..MaxDecisions /\ lost' \in 0..MaxLost /\ crossed' \in BOOLEAN
  BY <1>1 DEF KycInv, Typed
<1>6. /\ dp' = [dp EXCEPT ![call.app] = "pending"] \/ dp' = dp
      /\ dp' # dp => dp[call.app] = "rejected"
  <2>1. dp \in [Apps -> Statuses]
    BY DEF KycInv, Typed
  <2>2. CASE BackToPending(call)
    BY <1>1, <2>1, <2>2 DEF BackToPending
  <2>3. QED
    BY <2>2, ResubmitSteps
<1>7. QED
  BY <1>1, <1>3, <1>4, <1>5, <1>6, RowKeeps

-----------------------------------------------------------------------------
(* The desks and the login.                                                *)

LEMMA FireTyped ==
  ASSUME KycInv, NEW kind \in {"approve", "reject", "revoke"}, cp.app \in Apps, Fire(kind, cp.app)
  PROVE  /\ wire' \subseteq Calls /\ decisions' \in 0..MaxDecisions /\ crossed' \in BOOLEAN
         /\ \A c \in wire' : c \in wire \/ (c.kind = kind /\ c.app = cp.app)
         /\ UNCHANGED lost
<1> DEFINE c == [kind |-> kind, app |-> cp.app, n |-> decisions + 1]
<1>1. decisions + 1 \in 1..MaxDecisions
  BY KycAssumption DEF Fire, KycInv, Typed
<1>2. c \in Calls
  BY <1>1 DEF Calls
<1>3. wire' = wire \cup {c} /\ decisions' = decisions + 1 /\ crossed' = (crossed \/ wire # {})
      /\ UNCHANGED lost
  BY DEF Fire
<1>4. QED
  BY <1>1, <1>2, <1>3 DEF KycInv, Typed

LEMMA DecideTyped ==
  ASSUME KycInv, cp.status # "none",
         NEW status \in {"pending", "approved", "rejected"}, NEW desk \in DeskNames
  PROVE  LET row == [cp EXCEPT !.status = status, !.desk = desk] IN
         row \in Row /\ row.app = cp.app /\ row.app \in Apps /\ row.status = status
  BY DEF KycInv, Typed, Filing, Row

LEMMA DecisionKeeps ==
  ASSUME KycInv, cp.status \in {"pending", "rejected"},
         NEW status \in {"pending", "approved", "rejected"}, NEW desk \in DeskNames,
         Decide(status, desk), UNCHANGED <<tabs, dpVars, mode>>, vouched' \in BOOLEAN,
         \/ UNCHANGED <<wire, decisions, lost, crossed>>
         \/ Fire("approve", cp.app) /\ status = "approved"
         \/ Fire("reject", cp.app) \/ Fire("revoke", cp.app)
  PROVE  KycInv' /\ Final
<1> DEFINE row == [cp EXCEPT !.status = status, !.desk = desk]
<1>1. row \in Row /\ row.app = cp.app /\ row.app \in Apps /\ row.status = status /\ Put(row)
  BY DecideTyped DEF Decide
<1>2. /\ wire' \subseteq Calls /\ decisions' \in 0..MaxDecisions /\ crossed' \in BOOLEAN
      /\ UNCHANGED lost
      /\ \A c \in wire' :
           \/ c \in wire
           \/ c.kind \in {"reject", "revoke"}
           \/ c.kind = "approve" /\ c.app = cp.app /\ status = "approved"
  <2>1. cp.app \in Apps
    BY DEF KycInv, Filing
  <2> HIDE DEF row
  <2>2. CASE UNCHANGED <<wire, decisions, lost, crossed>>
    <3>1. wire \subseteq Calls /\ decisions \in 0..MaxDecisions /\ crossed \in BOOLEAN
      BY DEF KycInv, Typed
    <3>2. QED
      BY <2>2, <3>1
  <2>3. CASE Fire("approve", cp.app) /\ status = "approved"
    <3>1. \A c \in wire' : c \in wire \/ (c.kind = "approve" /\ c.app = cp.app)
      BY <2>1, <2>3, FireTyped
    <3>2. QED
      BY <2>1, <2>3, <3>1, FireTyped
  <2>4. CASE Fire("reject", cp.app)
    <3>1. \A c \in wire' : c \in wire \/ c.kind = "reject"
      BY <2>1, <2>4, FireTyped
    <3>2. QED
      BY <2>1, <2>4, <3>1, FireTyped
  <2>5. CASE Fire("revoke", cp.app)
    <3>1. \A c \in wire' : c \in wire \/ c.kind = "revoke"
      BY <2>1, <2>5, FireTyped
    <3>2. QED
      BY <2>1, <2>5, <3>1, FireTyped
  <2>6. QED
    BY <2>2, <2>3, <2>4, <2>5
<1>3. cp' = row
  BY <1>1 DEF Put
<1> HIDE DEF row
<1>4. \A c \in wire' : c \in wire \/ CallOK(c)'
  BY <1>1, <1>2, <1>3 DEF CallOK
<1>5. QED
  BY <1>1, <1>2, <1>4, PutKeeps

LEMMA DeskKeeps == KycInv /\ DeskStep => KycInv' /\ Final
<1> SUFFICES ASSUME KycInv, DeskStep PROVE KycInv' /\ Final
  OBVIOUS
<1>1. vouched \in BOOLEAN
  BY DEF KycInv, Typed
<1>2. CASE AdminApprove
  BY <1>1, <1>2, DecisionKeeps DEF AdminApprove, AtDesk
<1>3. CASE ClientApprove
  BY <1>1, <1>3, DecisionKeeps DEF ClientApprove, AtDesk
<1>4. ASSUME NEW k \in DeskNames, Reject(k) PROVE KycInv' /\ Final
  BY <1>1, <1>4, DecisionKeeps DEF Reject, AtDesk
<1>5. ASSUME NEW k \in DeskNames, Revoke(k) PROVE KycInv' /\ Final
  <2>1. PICK desk \in DeskNames : Decide("pending", desk)
    BY <1>5, FirstDeskTyped DEF Revoke
  <2>2. vouched' \in BOOLEAN
    BY <1>1, <1>5 DEF Revoke
  <2>3. QED
    BY <1>5, <2>1, <2>2, DecisionKeeps DEF Revoke, AtDesk
<1>6. QED
  BY <1>2, <1>3, <1>4, <1>5 DEF DeskStep

LEMMA LoginHasRow ==
  ASSUME KycInv, org.exists
  PROVE  cp.status # "none" /\ org.app = cp.app /\ cp.app \in Apps /\ dp[cp.app] # "gone"
  BY DEF KycInv, Filing

(* The login's steps change its row's documents, or call.                  *)
LEMMA LoginSteps ==
  ASSUME KycInv, LoginInv, LoginStep
  PROVE  /\ org.exists /\ UNCHANGED <<tabs, dp, org, drafts, cpVars, listed, lost>>
         /\ \/ /\ UNCHANGED <<wire, decisions, crossed>>
               /\ \E D \in SUBSET Kinds :
                    /\ docs' = [docs EXCEPT ![cp.app] = D]
                    /\ \/ docs[cp.app] \subseteq D /\ undercut' = undercut
                       \/ \E kind \in Kinds :
                            /\ D = docs[cp.app] \ {kind}
                            /\ undercut' = (undercut \/ (kind \in Required
                                             /\ \E call \in wire : BetweenReads(call)))
            \/ AdminResubmit /\ UNCHANGED <<docs, undercut>>
<1>1. org.exists
  BY DEF LoginStep, AdminDeleteDoc, AdminUploadDoc, AdminResubmit, Mine, LoginInv
<1>2. org.app = cp.app /\ docs[cp.app] \in SUBSET Kinds
  BY <1>1, LoginHasRow DEF KycInv, Typed
<1>3. UNCHANGED <<tabs, dp, org, drafts, cpVars, listed, lost>>
  BY DEF LoginStep, AdminDeleteDoc, AdminUploadDoc, AdminResubmit, AtLogin, Direct
<1>4. ASSUME NEW kind \in Kinds, AdminDeleteDoc(kind)
      PROVE  /\ UNCHANGED <<wire, decisions, crossed>>
             /\ docs' = [docs EXCEPT ![cp.app] = docs[cp.app] \ {kind}]
             /\ undercut' = (undercut \/ (kind \in Required /\ \E call \in wire : BetweenReads(call)))
             /\ docs[cp.app] \ {kind} \in SUBSET Kinds
  BY <1>2, <1>4 DEF AdminDeleteDoc, Direct
<1>5. ASSUME NEW kind \in Kinds, AdminUploadDoc(kind)
      PROVE  /\ UNCHANGED <<wire, decisions, crossed, undercut>>
             /\ docs' = [docs EXCEPT ![cp.app] = docs[cp.app] \cup {kind}]
             /\ docs[cp.app] \cup {kind} \in SUBSET Kinds
             /\ docs[cp.app] \subseteq docs[cp.app] \cup {kind}
  BY <1>2, <1>5 DEF AdminUploadDoc, Direct
<1>6. CASE AdminResubmit
  BY <1>1, <1>3, <1>6 DEF AdminResubmit
<1>7. QED
  BY <1>1, <1>3, <1>4, <1>5, <1>6 DEF LoginStep

(* The call a login makes.                                                 *)
LEMMA Resubmitted ==
  ASSUME KycInv, AdminResubmit
  PROVE  \E c \in ResubmitCalls :
           /\ c.app = cp.app /\ c.stage = "asked" /\ CallOK(c) /\ c \in Calls
           /\ wire' = wire \cup {c}
           /\ decisions' \in 0..MaxDecisions /\ crossed' = (crossed \/ wire # {})
           /\ lost' = lost
<1> PICK c : c = [kind |-> "resubmit", app |-> org.app, n |-> decisions + 1,
                  docs |-> {}, stage |-> "asked"]
  OBVIOUS
<1>1. org.exists /\ decisions + 1 \in 1..MaxDecisions /\ decisions + 1 \in 0..MaxDecisions
  BY KycAssumption DEF AdminResubmit, Mine, KycInv, Typed
<1>2. org.app = cp.app /\ cp.app \in Apps
  BY <1>1, LoginHasRow
<1>3. c \in ResubmitCalls
  <2>1. {} \in SUBSET Kinds
    OBVIOUS
  <2>2. QED
    BY <1>1, <1>2, <2>1 DEF ResubmitCalls
<1>4. c \in Calls /\ CallOK(c)
  BY <1>1, <1>3 DEF Calls, ResubmitCalls, CallOK
<1>5. wire' = wire \cup {c} /\ decisions' = decisions + 1 /\ crossed' = (crossed \/ wire # {})
      /\ lost' = lost
  BY DEF AdminResubmit
<1>6. QED
  BY <1>1, <1>2, <1>3, <1>4, <1>5

LEMMA LoginKeeps == KycInv /\ LoginInv /\ LoginStep => KycInv' /\ Final
<1> SUFFICES ASSUME KycInv, LoginInv, LoginStep PROVE KycInv' /\ Final
  OBVIOUS
<1>1. UNCHANGED <<tabs, dp, org, drafts, cpVars, listed, lost>>
  BY LoginSteps
<1>2. CASE UNCHANGED <<wire, decisions, crossed>>
  <2>1. docs' \in [Apps -> SUBSET Kinds]
    BY LoginSteps DEF KycInv, Typed
  <2>2. Typed'
    BY <1>1, <1>2, <2>1 DEF KycInv, Typed
  <2>3. QED
    BY <1>1, <1>2, <2>2, FileKept DEF KycInv
<1>3. CASE AdminResubmit /\ UNCHANGED docs
  <2>1. PICK c \in ResubmitCalls :
          /\ CallOK(c) /\ c \in Calls /\ wire' = wire \cup {c}
          /\ decisions' \in 0..MaxDecisions /\ crossed' = (crossed \/ wire # {})
    BY <1>3, Resubmitted
  <2>2. Typed'
    BY <1>1, <1>3, <2>1 DEF KycInv, Typed
  <2>3. QED
    BY <1>1, <2>1, <2>2, FileKept DEF KycInv
<1>4. QED
  BY <1>2, <1>3, LoginSteps

(* What requests past their check may do.                                  *)
LEMMA LoginInvKeeps == KycInv /\ LoginInv /\ [Next]_vars => LoginInv'
<1> SUFFICES ASSUME KycInv, LoginInv, [Next]_vars PROVE LoginInv'
  OBVIOUS
<1>1. CASE UNCHANGED vars
  BY <1>1 DEF LoginInv
<1>2. CASE Next
  <2>1. edits' \subseteq Edits /\ (edits' # {} => edits # {} \/ Mine')
    BY <1>2 DEF Next, Admit
  <2>2. org.exists => org'.exists
    BY <1>2 DEF Next, WizardStep, GoToReview, Edit, HandleFile, RemoveDoc, Finalize, RequestFails,
                StartOver, RegisterInit, InitRefused, UploadRefused, Submit, RegisterUploadDoc, InBrowser,
                Taken, CallStep, HydrateDocs, CpSubmit, SubmitRefused, Provision, SubmitAnswered,
                Reconcile, MirrorApprove, MirrorReject, MirrorRevoke, CheckRequired, BackToPending,
                CallCPResubmit, CpResubmit, Lose, AtCP, AtLogin, OrgCreated, FromCP,
                DeskStep, Reject, Revoke, AdminApprove, ClientApprove, AtDesk,
                LoginStep, AdminDeleteDoc, AdminUploadDoc, AdminResubmit
  <2>3. undercut' \in BOOLEAN
    BY <1>2 DEF Next, WizardStep, GoToReview, Edit, HandleFile, RemoveDoc, Finalize, RequestFails,
                StartOver, RegisterInit, InitRefused, UploadRefused, Submit, RegisterUploadDoc, InBrowser,
                InTab, CallStep, HydrateDocs, CpSubmit, SubmitRefused, Provision, SubmitAnswered,
                Reconcile, MirrorApprove, MirrorReject, MirrorRevoke, CheckRequired, BackToPending,
                CallCPResubmit, CpResubmit, Lose, FromCP,
                DeskStep, Reject, Revoke, AdminApprove, ClientApprove, AtDesk,
                LoginStep, AdminDeleteDoc, AdminUploadDoc, AdminResubmit, LoginInv
  <2>4. QED
    BY <2>1, <2>2, <2>3 DEF LoginInv, Mine
<1>3. QED
  BY <1>1, <1>2

-----------------------------------------------------------------------------
(* The theorems.                                                           *)

LEMMA NextKyc == KycInv /\ LoginInv /\ [Next]_vars => (KycInv /\ LoginInv)' /\ [Final]_vars
<1> SUFFICES ASSUME KycInv, LoginInv, [Next]_vars PROVE KycInv' /\ [Final]_vars
  BY LoginInvKeeps
<1>1. ASSUME NEW t \in Tabs, WizardStep(t) PROVE KycInv' /\ Final
  BY <1>1, PageKeeps, RegisterInitKeeps, UploadKeeps, SubmitKeeps DEF WizardStep
<1>2. ASSUME NEW call \in wire, CallStep(call) PROVE KycInv' /\ Final
  BY <1>2, SubmissionKeeps, CpSubmitKeeps, ProvisionKeeps, MirrorKeeps, ResubmitKeeps,
     CpResubmitKeeps, LoseKeeps
     DEF CallStep
<1>3. CASE UNCHANGED vars
  <2>1. Typed'
    BY <1>3 DEF KycInv, Typed
  <2>2. QED
    BY <1>3, <2>1, FileKept DEF KycInv
<1>4. QED
  BY <1>1, <1>2, <1>3, DeskKeeps, LoginKeeps DEF Next

LEMMA KycInvHolds == Spec => [](KycInv /\ LoginInv)
<1>1. KycInv /\ LoginInv /\ [Next]_vars => (KycInv /\ LoginInv)'
  BY NextKyc
<1>2. QED
  BY InitKyc, <1>1, PTL DEF Spec

(* Every variable keeps to its values.                                     *)
THEOREM KycTypes == Spec => []KycTypeOK
<1>1. KycInv /\ LoginInv => KycTypeOK
  BY DEF KycInv, LoginInv, Typed, KycTypeOK, Statuses, Row
<1>2. QED
  BY <1>1, KycInvHolds, PTL

(* The login opens the application the reviewers decide.                   *)
THEOREM KycLogin == Spec => []LoginOpensFiled
<1>1. KycInv => LoginOpensFiled
  BY DEF KycInv, Filing, LoginOpensFiled
<1>2. QED
  BY <1>1, KycInvHolds, PTL

(* An approval is for good on both planes, and the data plane takes an     *)
(* application for approved only after a desk has approved it.             *)
THEOREM KycApproval == Spec => ApprovalIsFinal
<1>1. KycInv /\ LoginInv /\ [Next]_vars =>
        [ /\ cp.status = "approved" => cp' = cp
          /\ \A d \in Apps : dp[d] = "approved" => dp'[d] = "approved"
          /\ \A d \in Apps : dp'[d] = "approved" => cp.status = "approved" /\ cp.app = d ]_vars
  BY NextKyc DEF Final
<1>2. QED
  BY <1>1, KycInvHolds, PTL DEF Spec, ApprovalIsFinal

-----------------------------------------------------------------------------
(* What is filed is complete.  An application has one owner: the tab that  *)
(* uploads its documents, then the call that submits it; only after that   *)
(* can it be on file, and only the applicant's login touches it then.      *)

Unfiled(d) == cp.status = "none" \/ cp.app # d

RowsOK ==
  \A d \in Apps :
    /\ dp[d] = "none" <=> d > drafts
    /\ Unfiled(d) => dp[d] \in {"none", "draft", "gone"}

Complete(d, kinds) == dp[d] = "gone" \/ Required \subseteq kinds

TabFull(tab) ==
  /\ tab.step = "done" => tab.at = "idle" /\ cp.status # "none" /\ cp.app = tab.app
  /\ tab.at = "init" => Required \subseteq tab.todo
  /\ tab.at = "upload" => /\ dp[tab.app] # "none" /\ Unfiled(tab.app)
                          /\ Complete(tab.app, tab.todo \cup docs[tab.app])

CallFull(c) ==
  /\ c.kind # "submit" => cp.status # "none" /\ c.app = cp.app
  /\ BetweenReads(c) => undercut \/ Required \subseteq docs[c.app]
  /\ c.kind = "resubmit" /\ c.stage = "sent" => undercut \/ Required \subseteq c.docs
  /\ c.kind = "submit" => dp[c.app] # "none"
  /\ c.kind = "submit" /\ c.stage \in {"row", "docs"} => Unfiled(c.app)
  /\ c.kind = "submit" /\ c.stage = "row" => Complete(c.app, docs[c.app])
  /\ c.kind = "submit" /\ c.stage = "docs" => Complete(c.app, c.docs)

FileFull ==
  cp.status # "none" => dp[cp.app] # "none" /\ (undercut \/ Complete(cp.app, cp.docs))

OneOwner ==
  /\ \A t, u \in Tabs : tabs[t].at = "upload" /\ tabs[u].at = "upload"
       => t = u \/ tabs[t].app # tabs[u].app
  /\ \A t \in Tabs, c \in wire : tabs[t].at = "upload" /\ c.kind = "submit"
       => tabs[t].app # c.app
  /\ \A c, d \in wire : c.kind = "submit" /\ d.kind = "submit" => c = d \/ c.app # d.app

FiledInv ==
  /\ RowsOK
  /\ \A t \in Tabs : TabFull(tabs[t])
  /\ \A c \in wire : CallFull(c)
  /\ FileFull
  /\ OneOwner

(* What a step may do to the rows that are not on file: let them go, or    *)
(* add to their documents.  What a resubmission has counted stays, unless  *)
(* it is undercut.                                                         *)
Moves ==
  /\ undercut => undercut'
  /\ \A c \in wire : BetweenReads(c) =>
       undercut' \/ Required \cap docs[c.app] \subseteq docs'[c.app]
  /\ cp.status # "none" => cp'.status # "none" /\ cp'.app = cp.app
  /\ \A d \in Apps :
       /\ dp[d] # "none" => dp'[d] # "none"
       /\ dp[d] = "gone" => dp'[d] = "gone"
       /\ Unfiled(d) /\ dp[d] # "none" => dp'[d] = "gone" \/ docs[d] \subseteq docs'[d]

LEMMA TabStays ==
  ASSUME NEW tab \in TabStates, TabOK(tab), TabFull(tab), Moves,
         tab.at = "upload" => Unfiled(tab.app)'
  PROVE  TabFull(tab)'
  BY DEF TabOK, TabFull, Moves, Complete

LEMMA CallStays ==
  ASSUME KycInv, NEW c \in wire, CallFull(c), Moves,
         c.kind = "submit" /\ c.stage \in {"row", "docs"} => Unfiled(c.app)'
  PROVE  CallFull(c)'
<1>1. c.app \in Apps
  BY AppTyped
<1>2. QED
  BY <1>1 DEF CallFull, Moves, Complete, BetweenReads

LEMMA InitFiled == Init => FiledInv
<1> SUFFICES ASSUME Init PROVE FiledInv
  OBVIOUS
<1>1. RowsOK
  BY KycAssumption DEF Init, RowsOK
<1>2. QED
  BY <1>1 DEF Init, FiledInv, FreshTab, TabFull, FileFull, OneOwner

(* Steps that leave the rows alone.                                        *)
SameRows == UNCHANGED <<cp, dp, docs, drafts, undercut>>

LEMMA SameRowsMove ==
  ASSUME FiledInv, SameRows
  PROVE  Moves /\ RowsOK' /\ FileFull' /\ \A d : Unfiled(d) => Unfiled(d)'
  BY DEF SameRows, FiledInv, Moves, RowsOK, FileFull, Unfiled, Complete

LEMMA InBrowserFull ==
  ASSUME KycInv, FiledInv, NEW t \in Tabs, NEW new, InBrowser(t, new), TabFull(new),
         new.at = "upload" => tabs[t].at = "upload" /\ new.app = tabs[t].app
  PROVE  FiledInv'
<1>1. SameRows /\ wire' = wire /\ tabs' = [tabs EXCEPT ![t] = new]
  BY DEF InBrowser, InTab, SameRows
<1>2. tabs'[t] = new /\ \A u \in Tabs : u # t => tabs'[u] = tabs[u]
  BY <1>1 DEF KycInv, Typed
<1>3. Moves /\ RowsOK' /\ FileFull' /\ \A d : Unfiled(d) => Unfiled(d)'
  BY <1>1, SameRowsMove
<1>4. \A u \in Tabs : TabFull(tabs[u])'
  <2>1. TabFull(new)'
    BY <1>1 DEF TabFull, SameRows, Unfiled, Complete
  <2>2. ASSUME NEW u \in Tabs, u # t
        PROVE  TabFull(tabs[u])'
    <3>1. TabFull(tabs[u])
      BY DEF FiledInv
    <3>2. QED
      BY <1>1, <1>2, <2>2, <3>1 DEF TabFull, SameRows, Unfiled, Complete
  <2>3. TabFull(tabs[t])'
    BY <1>2, <2>1 DEF TabFull
  <2>4. QED
    BY <2>2, <2>3
<1>5. \A c \in wire' : CallFull(c)'
  BY <1>1, <1>3, CallStays DEF FiledInv, CallFull
<1>6. OneOwner'
  BY <1>1, <1>2 DEF FiledInv, OneOwner
<1>7. QED
  BY <1>3, <1>4, <1>5, <1>6 DEF FiledInv

LEMMA FailFull ==
  ASSUME NEW tab \in TabStates, TabFull(tab), tab.at # "idle"
  PROVE  Fail(tab).at = "idle" /\ Fail(tab).step # "done" /\ TabFull(Fail(tab))
  BY DEF TabStates, TabFull, Fail

LEMMA PageFull ==
  ASSUME KycInv, FiledInv, NEW t \in Tabs,
         \/ GoToReview(t) \/ Edit(t) \/ Finalize(t) \/ RequestFails(t) \/ StartOver(t)
         \/ InitRefused(t) \/ UploadRefused(t)
         \/ \E kind \in Kinds : HandleFile(t, kind) \/ RemoveDoc(t, kind)
  PROVE  FiledInv'
<1>1. tabs[t] \in TabStates /\ TabOK(tabs[t]) /\ TabFull(tabs[t])
  BY TabTyped DEF FiledInv
<1>2. CASE GoToReview(t)
  <2> DEFINE new == [tabs[t] EXCEPT !.step = "review"]
  <2>1. TabFull(new) /\ new.at = tabs[t].at /\ new.app = tabs[t].app
    BY <1>1 DEF TabStates, TabFull
  <2>2. QED
    BY <1>2, <2>1, InBrowserFull DEF GoToReview
<1>3. CASE Edit(t)
  <2> DEFINE new == [tabs[t] EXCEPT !.step = "documents"]
  <2>1. TabFull(new) /\ new.at = tabs[t].at /\ new.app = tabs[t].app
    BY <1>1 DEF TabStates, TabFull
  <2>2. QED
    BY <1>3, <2>1, InBrowserFull DEF Edit
<1>4. CASE Finalize(t)
  <2> DEFINE new == [tabs[t] EXCEPT !.at = "init", !.todo = tabs[t].files]
  <2>1. Required \subseteq tabs[t].files /\ tabs[t].step = "review" /\ InBrowser(t, new)
    BY <1>4 DEF Finalize
  <2>2. TabFull(new) /\ new.at # "upload"
    BY <1>1, <2>1 DEF TabStates, TabFull
  <2>3. QED
    BY <2>1, <2>2, InBrowserFull
<1>5. CASE RequestFails(t) \/ InitRefused(t) \/ UploadRefused(t)
  <2>1. InBrowser(t, Fail(tabs[t])) /\ tabs[t].at # "idle"
    BY <1>5 DEF RequestFails, InitRefused, UploadRefused
  <2>2. QED
    BY <1>1, <2>1, FailFull, InBrowserFull
<1>6. CASE StartOver(t)
  <2>1. TabFull(FreshTab) /\ FreshTab.at # "upload"
    BY DEF FreshTab, TabFull
  <2>2. QED
    BY <1>6, <2>1, InBrowserFull DEF StartOver
<1>7. ASSUME NEW kind \in Kinds, HandleFile(t, kind) \/ RemoveDoc(t, kind)
      PROVE  FiledInv'
  <2>1. PICK F : InBrowser(t, [tabs[t] EXCEPT !.files = F])
    BY <1>7 DEF HandleFile, RemoveDoc
  <2>2. TabFull([tabs[t] EXCEPT !.files = F])
    BY <1>1 DEF TabStates, TabFull
  <2>3. QED
    BY <1>1, <2>1, <2>2, InBrowserFull DEF TabStates
<1>8. QED
  BY <1>2, <1>3, <1>4, <1>5, <1>6, <1>7

(* The new draft has no other owner; the ones it replaces are gone.        *)
LEMMA RegisterInitFull ==
  ASSUME KycInv, FiledInv, NEW t \in Tabs, RegisterInit(t)
  PROVE  FiledInv'
<1> PICK n : n = drafts + 1
  OBVIOUS
<1> PICK new : new = [tabs[t] EXCEPT !.at = "upload", !.app = n]
  OBVIOUS
<1> DEFINE old == {d \in Apps : dp[d] \in {"draft", "rejected"}}
<1>1. /\ tabs[t] \in TabStates /\ tabs[t].at = "init" /\ TabFull(tabs[t])
      /\ drafts \in Nat /\ n \in Apps /\ dp[n] = "none"
  <2>1. tabs[t] \in TabStates /\ tabs[t].at = "init" /\ TabFull(tabs[t])
    BY TabTyped DEF RegisterInit, FiledInv
  <2>2. drafts \in Nat /\ n \in Apps
    BY KycAssumption DEF RegisterInit, KycInv, Typed
  <2>3. QED
    BY <2>1, <2>2 DEF FiledInv, RowsOK
<1>2. new.at = "upload" /\ new.app = n /\ new.todo = tabs[t].todo /\ new.step = tabs[t].step
  BY <1>1 DEF TabStates
<1>3. /\ tabs' = [tabs EXCEPT ![t] = new] /\ drafts' = n
      /\ dp' = [d \in Apps |-> IF d = n THEN "draft"
                              ELSE IF d \in old THEN "gone" ELSE dp[d]]
      /\ docs' = [d \in Apps |-> IF d \in old THEN {} ELSE docs[d]]
      /\ UNCHANGED <<cp, wire, undercut>>
  BY DEF RegisterInit, InTab
<1>4. tabs'[t] = new /\ \A u \in Tabs : u # t => tabs'[u] = tabs[u]
  BY <1>3 DEF KycInv, Typed
<1>5. /\ dp'[n] = "draft"
      /\ \A d \in Apps : d # n =>
           \/ dp[d] \in {"draft", "rejected"} /\ dp'[d] = "gone"
           \/ dp'[d] = dp[d] /\ docs'[d] = docs[d]
  BY <1>1, <1>3
<1>6. Moves
  <2>1. \A c \in wire : ~ BetweenReads(c)
    BY DEF RegisterInit, Taken, KycInv, CallOK, BetweenReads
  <2>2. QED
    BY <1>1, <1>3, <1>5, <2>1 DEF Moves
<1> HIDE DEF old
<1>7. RowsOK'
  <2>1. \A d \in Apps : d \in Nat /\ (d > n <=> d > drafts /\ d # n)
    BY <1>1
  <2>2. \A d \in Apps : Unfiled(d)' => Unfiled(d)
    BY <1>3 DEF Unfiled
  <2>3. \A d \in Apps : dp'[d] = "none" <=> d > n
    BY <1>1, <1>5, <2>1 DEF FiledInv, RowsOK
  <2>4. \A d \in Apps : Unfiled(d)' => dp'[d] \in {"none", "draft", "gone"}
    BY <1>5, <2>2 DEF FiledInv, RowsOK
  <2>5. QED
    BY <1>3, <2>3, <2>4 DEF RowsOK
<1>8. Unfiled(n)' /\ \A d : Unfiled(d) => Unfiled(d)'
  BY <1>1, <1>3 DEF Unfiled, FiledInv, FileFull
<1>9. FileFull'
  <2>1. ASSUME cp.status # "none"
        PROVE  dp'[cp.app] # "none" /\ (undercut' \/ Complete(cp.app, cp.docs)')
    <3>1. /\ cp.app \in Apps /\ cp.app # n /\ dp[cp.app] # "none"
          /\ undercut \/ Complete(cp.app, cp.docs)
      BY <1>1, <2>1 DEF KycInv, Filing, FiledInv, FileFull
    <3>2. QED
      BY <1>3, <1>5, <3>1 DEF Complete
  <2>2. QED
    BY <1>3, <2>1 DEF FileFull
<1>10. \A u \in Tabs : TabFull(tabs[u])'
  <2>1. TabFull(tabs[t])'
    BY <1>1, <1>2, <1>4, <1>5, <1>8, <1>3 DEF TabFull, Complete
  <2>2. ASSUME NEW u \in Tabs, u # t
        PROVE  TabFull(tabs[u])'
    <3>1. PICK tab \in TabStates : tab = tabs[u] /\ TabOK(tab) /\ TabFull(tab) /\ tab = tabs'[u]
      BY <1>4, <2>2, TabTyped DEF FiledInv
    <3>2. TabFull(tab)'
      BY <1>6, <1>8, <3>1, TabStays DEF TabFull
    <3>3. QED
      BY <3>1, <3>2 DEF TabFull
  <2>3. QED
    BY <2>1, <2>2
<1>11. \A c \in wire' : CallFull(c)'
  BY <1>3, <1>6, <1>8, CallStays DEF FiledInv, CallFull
<1>12. OneOwner'
  <2>1. \A u \in Tabs : tabs[u].at = "upload" => tabs[u].app # n
    BY <1>1 DEF FiledInv, TabFull
  <2>2. \A c \in wire : c.kind = "submit" => c.app # n
    BY <1>1 DEF FiledInv, CallFull
  <2>3. QED
    BY <1>2, <1>3, <1>4, <2>1, <2>2 DEF FiledInv, OneOwner
<1>13. QED
  BY <1>7, <1>9, <1>10, <1>11, <1>12 DEF FiledInv

LEMMA UploadFull ==
  ASSUME KycInv, FiledInv, NEW t \in Tabs, NEW kind \in Kinds, RegisterUploadDoc(t, kind)
  PROVE  FiledInv'
<1> PICK a : a = tabs[t].app
  OBVIOUS
<1> PICK new : new = [tabs[t] EXCEPT !.todo = tabs[t].todo \ {kind}]
  OBVIOUS
<1>1. /\ tabs[t] \in TabStates /\ tabs[t].at = "upload" /\ TabFull(tabs[t]) /\ a \in Apps
      /\ docs \in [Apps -> SUBSET Kinds]
  BY TabTyped DEF RegisterUploadDoc, FiledInv, TabOK, KycInv, Typed
<1>2. /\ new.at = "upload" /\ new.app = a /\ new.todo = tabs[t].todo \ {kind}
      /\ new.step = tabs[t].step
  BY <1>1 DEF TabStates
<1>3. /\ tabs' = [tabs EXCEPT ![t] = new] /\ docs' = [docs EXCEPT ![a] = @ \cup {kind}]
      /\ UNCHANGED <<cp, dp, drafts, wire, undercut>>
  BY DEF RegisterUploadDoc, InTab
<1>4. tabs'[t] = new /\ \A u \in Tabs : u # t => tabs'[u] = tabs[u]
  BY <1>3 DEF KycInv, Typed
<1>5. docs'[a] = docs[a] \cup {kind} /\ \A d \in Apps : docs[d] \subseteq docs'[d]
  BY <1>1, <1>3
<1>6. Moves
  <2>1. \A c \in wire : docs[c.app] \subseteq docs'[c.app]
    BY <1>5, AppTyped
  <2>2. QED
    BY <1>3, <1>5, <2>1 DEF Moves
<1>7. RowsOK' /\ FileFull' /\ \A d : Unfiled(d) => Unfiled(d)'
  BY <1>3 DEF FiledInv, RowsOK, FileFull, Unfiled, Complete
<1>8. \A u \in Tabs : TabFull(tabs[u])'
  <2>1. TabFull(tabs[t])'
    <3>1. /\ tabs[t].step # "done" /\ dp[a] # "none" /\ Unfiled(a)
          /\ Complete(a, tabs[t].todo \cup docs[a])
      BY <1>1 DEF TabFull
    <3>2. new.step # "done" /\ dp'[a] # "none" /\ Unfiled(a)'
      BY <1>2, <1>3, <1>7, <3>1
    <3>3. Complete(a, new.todo \cup docs[a])'
      BY <1>2, <1>3, <1>5, <3>1 DEF Complete
    <3>4. QED
      BY <1>2, <1>4, <3>2, <3>3 DEF TabFull, Complete
  <2>2. ASSUME NEW u \in Tabs, u # t
        PROVE  TabFull(tabs[u])'
    <3>1. PICK tab \in TabStates : tab = tabs[u] /\ TabOK(tab) /\ TabFull(tab) /\ tab = tabs'[u]
      BY <1>4, <2>2, TabTyped DEF FiledInv
    <3>2. TabFull(tab)'
      BY <1>6, <1>7, <3>1, TabStays DEF TabFull
    <3>3. QED
      BY <3>1, <3>2 DEF TabFull
  <2>3. QED
    BY <2>1, <2>2
<1>9. \A c \in wire' : CallFull(c)'
  BY <1>3, <1>6, <1>7, CallStays DEF FiledInv, CallFull
<1>10. OneOwner'
  BY <1>1, <1>2, <1>3, <1>4 DEF FiledInv, OneOwner
<1>11. QED
  BY <1>7, <1>8, <1>9, <1>10 DEF FiledInv

(* The tab hands its application over to the call that submits it.         *)
LEMMA SubmitFull ==
  ASSUME KycInv, FiledInv, NEW t \in Tabs, Submit(t)
  PROVE  FiledInv'
<1> PICK a : a = tabs[t].app
  OBVIOUS
<1>1. /\ tabs[t] \in TabStates /\ tabs[t].at = "upload" /\ tabs[t].todo = {}
      /\ TabFull(tabs[t]) /\ a \in Apps
  BY TabTyped DEF Submit, FiledInv, TabOK
<1>2. CASE dp[a] = "gone"
  <2>1. InBrowser(t, Fail(tabs[t]))
    BY <1>2 DEF Submit
  <2>2. QED
    BY <1>1, <2>1, FailFull, InBrowserFull
<1>3. CASE dp[a] # "gone"
  <2> PICK new : new = [tabs[t] EXCEPT !.at = "submit"]
    OBVIOUS
  <2> PICK n : n = [kind |-> "submit", app |-> a, tab |-> t, docs |-> {}, stage |-> "row"]
    OBVIOUS
  <2>1. tabs' = [tabs EXCEPT ![t] = new] /\ wire' = wire \cup {n} /\ SameRows
    BY <1>3 DEF Submit, InTab, SameRows
  <2>2. /\ tabs'[t] = new /\ new.at = "submit" /\ new.step # "done"
        /\ \A u \in Tabs : u # t => tabs'[u] = tabs[u]
    BY <1>1, <2>1 DEF KycInv, Typed, TabStates, TabFull
  <2>3. n.kind = "submit" /\ n.app = a /\ n.stage = "row"
    OBVIOUS
  <2>4. Moves /\ RowsOK' /\ FileFull' /\ \A d : Unfiled(d) => Unfiled(d)'
    BY <2>1, SameRowsMove
  <2>5. \A u \in Tabs : TabFull(tabs[u])'
    <3>1. TabFull(tabs[t])'
      BY <2>2 DEF TabFull
    <3>2. ASSUME NEW u \in Tabs, u # t
          PROVE  TabFull(tabs[u])'
      <4>1. PICK tab \in TabStates : tab = tabs[u] /\ TabOK(tab) /\ TabFull(tab) /\ tab = tabs'[u]
        BY <2>2, <3>2, TabTyped DEF FiledInv
      <4>2. TabFull(tab)'
        BY <2>4, <4>1, TabStays DEF TabFull
      <4>3. QED
        BY <4>1, <4>2 DEF TabFull
    <3>3. QED
      BY <3>1, <3>2
  <2>6. \A c \in wire' : CallFull(c)'
    <3>1. dp[a] # "none" /\ Unfiled(a) /\ Required \subseteq docs[a]
      BY <1>1, <1>3 DEF TabFull, Complete
    <3>2. CallFull(n)'
      BY <2>1, <2>3, <2>4, <3>1 DEF CallFull, SameRows, Complete, BetweenReads
    <3>3. \A c \in wire : CallFull(c)'
      BY <2>4, CallStays DEF FiledInv, CallFull
    <3>4. QED
      BY <2>1, <3>2, <3>3
  <2>7. OneOwner'
    <3>1. \A u \in Tabs : tabs'[u].at = "upload" => u # t /\ tabs'[u] = tabs[u] /\ tabs[u].app # a
      BY <1>1, <2>2 DEF FiledInv, OneOwner
    <3>2. \A c \in wire : c.kind = "submit" => c.app # a
      BY <1>1 DEF FiledInv, OneOwner
    <3>3. \A u \in Tabs, c \in wire' : tabs'[u].at = "upload" /\ c.kind = "submit"
            => tabs'[u].app # c.app
      BY <2>1, <2>3, <3>1 DEF FiledInv, OneOwner
    <3>4. \A c, d \in wire' : c.kind = "submit" /\ d.kind = "submit" => c = d \/ c.app # d.app
      <4>1. \A c, d \in wire : c.kind = "submit" /\ d.kind = "submit" => c = d \/ c.app # d.app
        BY DEF FiledInv, OneOwner
      <4>2. QED
        BY <2>1, <2>3, <3>2, <4>1
    <3>5. QED
      BY <3>1, <3>3, <3>4 DEF FiledInv, OneOwner
  <2>8. QED
    BY <2>4, <2>5, <2>6, <2>7 DEF FiledInv
<1>4. QED
  BY <1>2, <1>3

(* A submission that goes one stage further or is over, on a plane whose   *)
(* rows stay; the wizard may learn of it.                                  *)
TabEnds(t) ==
  /\ tabs'[t].at = "idle"
  /\ tabs'[t].step = "done" => cp.status # "none" /\ cp.app = tabs'[t].app

LEMMA StageFull ==
  ASSUME KycInv, FiledInv, SameRows, NEW call \in wire, call.kind = "submit",
         NEW next, next.kind = "submit", next.app = call.app, CallFull(next),
         wire' \subseteq (wire \ {call}) \cup {next},
         \A t \in Tabs : tabs'[t] = tabs[t] \/ TabEnds(t)
  PROVE  FiledInv'
<1>1. Moves /\ RowsOK' /\ FileFull' /\ \A d : Unfiled(d) => Unfiled(d)'
  BY SameRowsMove
<1>2. ASSUME NEW t \in Tabs
      PROVE  TabFull(tabs[t])'
  <2>1. CASE tabs'[t] = tabs[t]
    <3>1. PICK tab \in TabStates : tab = tabs[t] /\ TabOK(tab) /\ TabFull(tab) /\ tab = tabs'[t]
      BY <2>1, TabTyped DEF FiledInv
    <3>2. TabFull(tab)'
      BY <1>1, <3>1, TabStays DEF TabFull
    <3>3. QED
      BY <3>1, <3>2 DEF TabFull
  <2>2. CASE TabEnds(t)
    BY <2>2 DEF TabEnds, TabFull, SameRows
  <2>3. QED
    BY <2>1, <2>2
<1>3. ASSUME NEW c \in wire'
      PROVE  CallFull(c)'
  <2>1. CASE c \in wire
    BY <1>1, <2>1, CallStays DEF FiledInv, CallFull
  <2>2. CASE c = next
    BY <2>2 DEF CallFull, SameRows, Unfiled, Complete, BetweenReads
  <2>3. QED
    BY <2>1, <2>2
<1>4. OneOwner'
  <2>1. \A t \in Tabs : tabs'[t].at = "upload" => tabs'[t] = tabs[t]
    BY DEF TabEnds
  <2>2. \A c \in wire' : c.kind = "submit" =>
          \/ c \in wire /\ c # call
          \/ c = next /\ c.app = call.app
    OBVIOUS
  <2>3. QED
    BY <2>1, <2>2 DEF FiledInv, OneOwner
<1>5. QED
  BY <1>1, <1>2, <1>3, <1>4 DEF FiledInv

LEMMA AnswerEnds ==
  ASSUME KycInv, NEW call \in SubmitCalls, NEW new, Answer(call, new), new.at = "idle",
         Waiting(call) /\ new.step = "done" => cp.status # "none" /\ cp.app = new.app
  PROVE  \A t \in Tabs : tabs'[t] = tabs[t] \/ TabEnds(t)
  BY DEF Answer, TabEnds, SubmitCalls, KycInv, Typed

LEMMA FailEnds ==
  ASSUME KycInv, FiledInv, NEW call \in SubmitCalls, Answer(call, Fail(tabs[call.tab]))
  PROVE  \A t \in Tabs : tabs'[t] = tabs[t] \/ TabEnds(t)
<1>1. tabs[call.tab] \in TabStates /\ TabFull(tabs[call.tab])
  BY TabTyped DEF SubmitCalls, FiledInv
<1>2. Fail(tabs[call.tab]).at = "idle"
  BY <1>1 DEF Fail, TabStates
<1>3. Waiting(call) => Fail(tabs[call.tab]).step # "done"
  BY <1>1, FailFull DEF Waiting
<1>4. QED
  BY <1>2, <1>3, AnswerEnds

LEMMA SubmissionFull ==
  ASSUME KycInv, FiledInv, NEW call \in wire,
         \/ HydrateDocs(call) \/ SubmitRefused(call) \/ Provision(call) \/ SubmitAnswered(call)
         \/ Lose(call) /\ call.kind = "submit"
  PROVE  FiledInv'
<1>1. /\ call.kind = "submit" /\ call \in SubmitCalls /\ CallOK(call) /\ CallFull(call)
      /\ SameRows
  <2>1. call.kind = "submit"
    BY DEF HydrateDocs, SubmitRefused, Provision, SubmitAnswered
  <2>2. SameRows
    BY DEF HydrateDocs, SubmitRefused, Provision, SubmitAnswered, Lose, AtCP, SameRows
  <2>3. QED
    BY <2>1, <2>2, SubmitTyped DEF FiledInv
<1>2. CASE SubmitRefused(call) \/ Lose(call)
  <2>1. wire' \subseteq (wire \ {call}) \cup {call} /\ Answer(call, Fail(tabs[call.tab]))
    BY <1>1, <1>2 DEF SubmitRefused, Lose, Served
  <2>2. QED
    BY <1>1, <2>1, FailEnds, StageFull
<1>3. CASE HydrateDocs(call)
  <2> PICK next : next = [call EXCEPT !.docs = docs[call.app], !.stage = "docs"]
    OBVIOUS
  <2>1. /\ next.kind = "submit" /\ next.app = call.app /\ next.stage = "docs"
        /\ next.docs = docs[call.app]
    BY <1>1 DEF SubmitCalls
  <2>2. CallFull(next)
    BY <1>1, <1>3, <2>1 DEF CallFull, HydrateDocs, BetweenReads
  <2>3. wire' = (wire \ {call}) \cup {next} /\ tabs' = tabs
    BY <1>3 DEF HydrateDocs
  <2>4. QED
    BY <1>1, <2>1, <2>2, <2>3, StageFull
<1>4. CASE Provision(call) \/ SubmitAnswered(call)
  <2>1. PICK stage \in {"replied", "reconcile"} : Moved(call, stage)
    BY <1>4 DEF Provision, SubmitAnswered
  <2> PICK next : next = [call EXCEPT !.stage = stage]
    OBVIOUS
  <2>2. next.kind = "submit" /\ next.app = call.app /\ next.stage = stage
    BY <1>1 DEF SubmitCalls
  <2>3. CallFull(next) /\ wire' = (wire \ {call}) \cup {next}
    BY <1>1, <2>1, <2>2 DEF CallFull, Moved, BetweenReads
  <2>4. \A t \in Tabs : tabs'[t] = tabs[t] \/ TabEnds(t)
    <3>1. CASE Provision(call)
      BY <3>1 DEF Provision
    <3>2. CASE SubmitAnswered(call)
      <4> PICK new : new = [FreshTab EXCEPT !.step = "done", !.app = call.app]
        OBVIOUS
      <4>1. new.at = "idle" /\ new.app = call.app /\ Answer(call, new)
        BY <3>2 DEF FreshTab, SubmitAnswered
      <4>2. cp.status # "none" /\ cp.app = call.app
        BY <1>1, <3>2 DEF CallOK, SubmitAnswered
      <4>3. QED
        BY <1>1, <4>1, <4>2, AnswerEnds
    <3>3. QED
      BY <1>4, <3>1, <3>2
  <2>5. QED
    BY <1>1, <2>2, <2>3, <2>4, StageFull
<1>5. QED
  BY <1>2, <1>3, <1>4

LEMMA CpSubmitFull ==
  ASSUME KycInv, FiledInv, NEW call \in wire, CpSubmit(call)
  PROVE  FiledInv'
<1> PICK next : next = [call EXCEPT !.stage = "filed"]
  OBVIOUS
<1> PICK a : a = call.app
  OBVIOUS
<1>1. /\ call \in SubmitCalls /\ call.kind = "submit" /\ call.stage = "docs" /\ a \in Apps
      /\ CallFull(call) /\ cp.status = "none"
  BY SubmitTyped DEF CpSubmit, FiledInv, SubmitCalls
<1>2. next.kind = "submit" /\ next.app = a /\ next.stage = "filed"
  BY <1>1 DEF SubmitCalls
<1>3. /\ cp'.app = a /\ cp'.status = "pending" /\ cp'.docs = call.docs
      /\ wire' = (wire \ {call}) \cup {next}
      /\ UNCHANGED <<tabs, dp, docs, drafts, undercut>>
  BY DEF CpSubmit, Put, Moved, AtCP
<1>4. dp[a] # "none" /\ Complete(a, call.docs)
  BY <1>1 DEF CallFull
<1>5. Moves /\ \A d : Unfiled(d)' <=> d # a
  BY <1>1, <1>3 DEF Moves, Unfiled
<1>6. RowsOK' /\ FileFull'
  BY <1>1, <1>3, <1>4 DEF FiledInv, RowsOK, FileFull, Unfiled, Complete
<1>7. ASSUME NEW t \in Tabs
      PROVE  TabFull(tabs[t])'
  <2>1. PICK tab \in TabStates : tab = tabs[t] /\ TabOK(tab) /\ TabFull(tab) /\ tab = tabs'[t]
    BY <1>3, TabTyped DEF FiledInv
  <2>2. tab.at = "upload" => tab.app # a
    BY <1>1, <2>1 DEF FiledInv, OneOwner
  <2>3. TabFull(tab)'
    BY <1>5, <2>1, <2>2, TabStays
  <2>4. QED
    BY <2>1, <2>3 DEF TabFull
<1>8. \A c \in wire' : CallFull(c)'
  <2>1. CallFull(next)'
    BY <1>2, <1>3, <1>4 DEF CallFull, BetweenReads
  <2>2. ASSUME NEW c \in wire, c # call
        PROVE  CallFull(c)'
    <3>1. c.kind = "submit" => c.app # a
      BY <1>1, <2>2 DEF FiledInv, OneOwner
    <3>2. QED
      BY <1>5, <3>1, CallStays DEF FiledInv
  <2>3. QED
    BY <1>3, <2>1, <2>2
<1>9. OneOwner'
  <2>1. \A c \in wire' : c.kind = "submit" =>
          \/ c \in wire /\ c # call
          \/ c = next /\ c.app = call.app
    BY <1>2, <1>3
  <2>2. \A t \in Tabs, c \in wire' : tabs[t].at = "upload" /\ c.kind = "submit"
          => tabs[t].app # c.app
    BY <1>1, <2>1 DEF FiledInv, OneOwner
  <2>3. \A c, d \in wire' : c.kind = "submit" /\ d.kind = "submit" => c = d \/ c.app # d.app
    BY <1>1, <2>1 DEF FiledInv, OneOwner
  <2>4. QED
    BY <1>3, <2>2, <2>3 DEF FiledInv, OneOwner
<1>10. QED
  BY <1>6, <1>7, <1>8, <1>9 DEF FiledInv

(* Once an application is on file, the desks, the mirrors and the login    *)
(* touch its row only, and never let it go.                                *)
LEMMA DecidedFull ==
  ASSUME KycInv, FiledInv, cp.status # "none", UNCHANGED <<tabs, drafts>>,
         cp'.status # "none", cp'.app = cp.app,
         undercut => undercut', cp'.docs = cp.docs \/ undercut' \/ Required \subseteq cp'.docs,
         \A c \in wire : BetweenReads(c) =>
           undercut' \/ Required \cap docs[c.app] \subseteq docs'[c.app],
         \A d \in Apps : d # cp.app => dp'[d] = dp[d] /\ docs'[d] = docs[d],
         \/ dp'[cp.app] = dp[cp.app]
         \/ dp[cp.app] # "gone" /\ dp'[cp.app] \notin {"none", "gone"},
         \A c \in wire' : c \in wire \/ (c.kind # "submit" /\ CallFull(c)')
  PROVE  FiledInv'
<1>1. cp.app \in Apps /\ dp[cp.app] # "none" /\ (undercut \/ Complete(cp.app, cp.docs))
  BY DEF KycInv, Filing, FiledInv, FileFull
<1>2. \A d : Unfiled(d)' <=> Unfiled(d)
  BY DEF Unfiled
<1>3. Moves
  BY <1>1, <1>2 DEF Moves, Unfiled
<1>4. RowsOK'
  BY <1>1, <1>2 DEF FiledInv, RowsOK, Unfiled
<1>5. FileFull'
  BY <1>1 DEF FileFull, Complete
<1>6. ASSUME NEW t \in Tabs
      PROVE  TabFull(tabs[t])'
  <2>1. PICK tab \in TabStates : tab = tabs[t] /\ TabOK(tab) /\ TabFull(tab) /\ tab = tabs'[t]
    BY TabTyped DEF FiledInv
  <2>2. TabFull(tab)'
    BY <1>2, <1>3, <2>1, TabStays DEF TabFull
  <2>3. QED
    BY <2>1, <2>2 DEF TabFull
<1>7. \A c \in wire' : CallFull(c)'
  BY <1>2, <1>3, CallStays DEF FiledInv, CallFull
<1>8. OneOwner'
  BY DEF FiledInv, OneOwner
<1>9. QED
  BY <1>4, <1>5, <1>6, <1>7, <1>8 DEF FiledInv

LEMMA MirrorFull ==
  ASSUME KycInv, FiledInv, NEW call \in wire,
         \/ Reconcile(call) \/ MirrorApprove(call) \/ MirrorReject(call) \/ MirrorRevoke(call)
         \/ CpResubmit(call) \/ (Lose(call) /\ call.kind # "submit")
  PROVE  FiledInv'
<1>1. /\ call \in Calls /\ CallFull(call) /\ CallOK(call) /\ dp \in [Apps -> Statuses]
      /\ cp.status # "none" /\ call.app = cp.app /\ call.app \in Apps
  <2>1. call \in Calls /\ CallFull(call) /\ CallOK(call) /\ dp \in [Apps -> Statuses]
    BY AppTyped DEF FiledInv, KycInv, Typed, Statuses
  <2>2. call.kind # "submit" \/ call.stage = "reconcile"
    BY DEF Reconcile, MirrorApprove, MirrorReject, MirrorRevoke, CpResubmit
  <2>3. QED
    BY <2>1, <2>2, AppTyped DEF CallFull, CallOK
<1>2. wire' = wire \ {call} /\ UNCHANGED <<tabs, docs, drafts, undercut>>
  BY DEF Reconcile, MirrorApprove, MirrorReject, MirrorRevoke, CpResubmit, Lose, FromCP, Served, AtCP
<1>3. CASE CpResubmit(call) /\ cp.status = "rejected"
  <2>1. dp' = dp /\ cp' = [cp EXCEPT !.status = "pending", !.desk = FirstDesk, !.docs = call.docs]
    BY <1>3 DEF CpResubmit, Put, AtCP
  <2>2. cp'.status = "pending" /\ cp'.app = cp.app /\ cp'.docs = call.docs
    BY <2>1 DEF KycInv, Typed
  <2>3. undercut \/ Required \subseteq call.docs
    BY <1>1, <1>3 DEF CallFull, CpResubmit
  <2>4. QED
    BY <1>1, <1>2, <2>1, <2>2, <2>3, DecidedFull
<1>4. CASE ~(CpResubmit(call) /\ cp.status = "rejected")
  <2>1. cp' = cp
    BY <1>4 DEF Reconcile, MirrorApprove, MirrorReject, MirrorRevoke, CpResubmit, Lose, FromCP
  <2>2. \/ dp' = dp
        \/ \E s \in {"pending", "approved", "rejected"} :
             dp' = [dp EXCEPT ![cp.app] = s] /\ dp[cp.app] \in {"draft", "pending", "rejected"}
    <3>1. CASE Reconcile(call)
      BY <1>1, <3>1 DEF Reconcile
    <3>2. CASE MirrorApprove(call)
      BY <1>1, <3>2 DEF MirrorApprove
    <3>3. CASE MirrorReject(call)
      BY <1>1, <3>3 DEF MirrorReject
    <3>4. CASE MirrorRevoke(call)
      BY <1>1, <3>4 DEF MirrorRevoke
    <3>5. CASE CpResubmit(call) \/ Lose(call)
      BY <3>5 DEF CpResubmit, Lose, AtCP
    <3>6. QED
      BY <3>1, <3>2, <3>3, <3>4, <3>5
  <2>3. /\ \A d \in Apps : d # cp.app => dp'[d] = dp[d]
        /\ \/ dp'[cp.app] = dp[cp.app]
           \/ dp[cp.app] # "gone" /\ dp'[cp.app] \notin {"none", "gone"}
    BY <1>1, <2>2
  <2>4. QED
    BY <1>1, <1>2, <2>1, <2>3, DecidedFull
<1>5. QED
  BY <1>3, <1>4

LEMMA DecisionFull ==
  ASSUME KycInv, FiledInv, cp.status \in {"pending", "rejected"},
         NEW status \in {"pending", "approved", "rejected"}, NEW desk \in DeskNames,
         Decide(status, desk), UNCHANGED <<tabs, dpVars, mode, undercut>>,
         wire' = wire \/ \E kind \in {"approve", "reject", "revoke"} : Fire(kind, cp.app)
  PROVE  FiledInv'
<1>1. cp'.app = cp.app /\ cp'.status = status /\ cp'.docs = cp.docs /\ cp.app \in Apps
  BY DEF Decide, Put, KycInv, Typed, Filing
<1>2. ASSUME NEW c \in wire', c \notin wire
      PROVE  c.kind # "submit" /\ CallFull(c)'
  <2>1. PICK kind \in {"approve", "reject", "revoke"} : Fire(kind, cp.app)
    BY <1>2
  <2>2. c.kind = kind /\ c.app = cp.app
    BY <1>1, <1>2, <2>1, FireTyped
  <2>3. QED
    BY <1>1, <2>2 DEF CallFull, BetweenReads
<1>3. QED
  BY <1>1, <1>2, DecidedFull

(* The statements of a resubmission: what it counted is what it sends,     *)
(* unless it is undercut.                                                  *)
LEMMA ResubmitFull ==
  ASSUME KycInv, FiledInv, NEW call \in wire,
         CheckRequired(call) \/ BackToPending(call) \/ CallCPResubmit(call)
  PROVE  FiledInv'
<1>1. /\ call.kind = "resubmit" /\ call.app = cp.app /\ cp.status # "none" /\ cp.app \in Apps
      /\ BetweenReads(call) => undercut \/ Required \subseteq docs[cp.app]
      /\ UNCHANGED <<tabs, docs, drafts, cp, undercut>>
  <2>1. call \in ResubmitCalls /\ UNCHANGED <<tabs, docs, drafts, cpVars, undercut>>
    BY ResubmitSteps
  <2>2. call.kind = "resubmit" /\ CallFull(call)
    BY <2>1 DEF ResubmitCalls, FiledInv
  <2>3. QED
    BY <2>1, <2>2 DEF CallFull, KycInv, Filing
<1>2. \/ dp' = dp
      \/ dp' = [dp EXCEPT ![cp.app] = "pending"] /\ dp[cp.app] = "rejected"
  <2>1. CASE BackToPending(call)
    BY <1>1, <2>1 DEF BackToPending, KycInv, Typed
  <2>2. QED
    BY <2>1, ResubmitSteps
<1>3. /\ \A d \in Apps : d # cp.app => dp'[d] = dp[d]
      /\ \/ dp'[cp.app] = dp[cp.app]
         \/ dp[cp.app] # "gone" /\ dp'[cp.app] \notin {"none", "gone"}
  BY <1>1, <1>2 DEF KycInv, Typed
<1>4. CASE wire' = wire \ {call}
  BY <1>1, <1>3, <1>4, DecidedFull
<1>5. ASSUME NEW next \in ResubmitCalls,
             wire' = (wire \ {call}) \cup {next}, next.app = call.app,
             \/ /\ CheckRequired(call) /\ next.stage = "checked"
                /\ Required \subseteq docs[call.app]
             \/ BackToPending(call) /\ next.stage = "updated"
             \/ CallCPResubmit(call) /\ next.stage = "sent" /\ next.docs = docs[call.app]
      PROVE  FiledInv'
  <2>1. next.kind = "resubmit"
    BY DEF ResubmitCalls
  <2>2. undercut \/ Required \subseteq docs[cp.app]
    BY <1>1, <1>5 DEF BackToPending, CallCPResubmit, BetweenReads
  <2>3. CallFull(next)'
    BY <1>1, <1>5, <2>1, <2>2 DEF CallFull, BetweenReads
  <2>4. QED
    BY <1>1, <1>3, <1>5, <2>1, <2>3, DecidedFull
<1>6. QED
  BY <1>4, <1>5, ResubmitSteps

LEMMA DeskFull == KycInv /\ FiledInv /\ DeskStep => FiledInv'
<1> SUFFICES ASSUME KycInv, FiledInv, DeskStep PROVE FiledInv'
  OBVIOUS
<1>1. CASE AdminApprove
  BY <1>1, DecisionFull DEF AdminApprove, AtDesk
<1>2. CASE ClientApprove
  BY <1>2, DecisionFull DEF ClientApprove, AtDesk
<1>3. ASSUME NEW k \in DeskNames, Reject(k) PROVE FiledInv'
  BY <1>3, DecisionFull DEF Reject, AtDesk
<1>4. ASSUME NEW k \in DeskNames, Revoke(k) PROVE FiledInv'
  <2>1. PICK desk \in DeskNames : Decide("pending", desk)
    BY <1>4, FirstDeskTyped DEF Revoke
  <2>2. QED
    BY <1>4, <2>1, DecisionFull DEF Revoke, AtDesk
<1>5. QED
  BY <1>1, <1>2, <1>3, <1>4 DEF DeskStep

LEMMA LoginFull == KycInv /\ LoginInv /\ FiledInv /\ LoginStep => FiledInv'
<1> SUFFICES ASSUME KycInv, LoginInv, FiledInv, LoginStep PROVE FiledInv'
  OBVIOUS
<1>1. UNCHANGED <<tabs, dp, drafts, cp>>
  BY LoginSteps
<1>2. cp.status # "none" /\ cp.app \in Apps /\ docs \in [Apps -> SUBSET Kinds]
  BY LoginSteps, LoginHasRow DEF KycInv, Typed
<1>3. ASSUME UNCHANGED wire, NEW D \in SUBSET Kinds, docs' = [docs EXCEPT ![cp.app] = D],
             \/ docs[cp.app] \subseteq D /\ undercut' = undercut
             \/ \E kind \in Kinds :
                  /\ D = docs[cp.app] \ {kind}
                  /\ undercut' = (undercut \/ (kind \in Required
                                   /\ \E call \in wire : BetweenReads(call)))
      PROVE  FiledInv'
  <2>1. docs'[cp.app] = D /\ \A d \in Apps : d # cp.app => docs'[d] = docs[d]
    BY <1>2, <1>3
  <2>2. undercut => undercut'
    BY <1>3
  <2>3. ASSUME NEW c \in wire, BetweenReads(c)
        PROVE  undercut' \/ Required \cap docs[c.app] \subseteq docs'[c.app]
    <3>1. c.app = cp.app
      BY <2>3 DEF FiledInv, CallFull, BetweenReads
    <3>2. undercut' \/ Required \cap docs[cp.app] \subseteq D
      BY <1>3, <2>3
    <3>3. QED
      BY <2>1, <3>1, <3>2
  <2>4. QED
    BY <1>1, <1>2, <1>3, <2>1, <2>2, <2>3, DecidedFull
<1>4. CASE AdminResubmit /\ UNCHANGED <<docs, undercut>>
  <2>1. PICK c \in ResubmitCalls :
          c.app = cp.app /\ c.stage = "asked" /\ wire' = wire \cup {c}
    BY <1>4, Resubmitted
  <2>2. c.kind = "resubmit" /\ CallFull(c)'
    BY <1>1, <1>2, <2>1 DEF ResubmitCalls, CallFull, BetweenReads
  <2>3. QED
    BY <1>1, <1>2, <1>4, <2>1, <2>2, DecidedFull
<1>5. QED
  BY <1>3, <1>4, LoginSteps

LEMMA NextFiled == KycInv /\ LoginInv /\ FiledInv /\ [Next]_vars => FiledInv'
<1> SUFFICES ASSUME KycInv, LoginInv, FiledInv, [Next]_vars PROVE FiledInv'
  OBVIOUS
<1>1. ASSUME NEW t \in Tabs, WizardStep(t) PROVE FiledInv'
  BY <1>1, PageFull, RegisterInitFull, UploadFull, SubmitFull DEF WizardStep
<1>2. ASSUME NEW call \in wire, CallStep(call) PROVE FiledInv'
  BY <1>2, SubmissionFull, CpSubmitFull, MirrorFull, ResubmitFull DEF CallStep
<1>3. CASE UNCHANGED vars
  BY <1>3 DEF FiledInv, RowsOK, Unfiled, TabFull, CallFull, FileFull, OneOwner, Complete,
              BetweenReads
<1>4. QED
  BY <1>1, <1>2, <1>3, DeskFull, LoginFull DEF Next

LEMMA FiledInvHolds == Spec => [](KycInv /\ LoginInv /\ FiledInv)
<1>1. KycInv /\ LoginInv /\ FiledInv /\ [Next]_vars => (KycInv /\ LoginInv /\ FiledInv)'
  BY NextKyc, NextFiled
<1>2. QED
  BY InitKyc, InitFiled, <1>1, PTL DEF Spec

(* A wizard says "submitted" of the application on file only, and that one *)
(* has every required document, as submitted and as resubmitted, unless    *)
(* its draft was replaced meanwhile or a document was deleted between the  *)
(* two reads of a resubmission.                                            *)
THEOREM KycDone == Spec => []DoneIsFiled
<1>1. KycInv /\ FiledInv => DoneIsFiled
  BY DEF FiledInv, TabFull, FileFull, DoneIsFiled, Complete
<1>2. QED
  BY <1>1, FiledInvHolds, PTL

-----------------------------------------------------------------------------
(* While no call was lost or crossed another, at most one is under way,    *)
(* and what it will do is all that keeps the planes from agreeing.         *)

Calm == lost = 0 /\ ~crossed
Planes(here, there) == cp.status = here /\ dp[cp.app] = there
Agreed == dp[cp.app] = cp.status /\ org.exists

CalmCall(c) ==
  /\ c.kind = "submit" /\ c.stage \in {"row", "docs"} =>
       IF cp.status = "none" THEN dp[c.app] = "draft" ELSE Agreed
  /\ c.kind = "submit" /\ c.stage \in {"filed", "replied", "reconcile"} =>
       Planes("pending", "draft") /\ (c.stage # "filed" => org.exists)
  /\ c.kind # "submit" => org.exists
  /\ c.kind = "approve" => Planes("approved", "pending")
  /\ c.kind = "reject" => Planes("rejected", "pending")
  /\ c.kind = "resubmit" =>
       Planes("rejected", IF c.stage \in {"asked", "checked"} THEN "rejected" ELSE "pending")
  /\ c.kind = "revoke" => Planes("pending", "rejected")

CalmInv ==
  Calm => /\ \A c, d \in wire : c = d
          /\ \A c \in wire : CalmCall(c)
          /\ wire = {} /\ cp.status # "none" => Agreed

LEMMA InitCalm == Init => CalmInv
  BY DEF Init, CalmInv

(* Nothing the invariant speaks of changes.                                *)
LEMMA CalmStays ==
  ASSUME CalmInv, UNCHANGED <<dp, org, wire, lost, crossed>>,
         cp'.status = cp.status, cp'.app = cp.app
  PROVE  CalmInv'
  BY DEF CalmInv, Calm, CalmCall, Planes, Agreed

(* A call is made: the step is only calm when it is the only one.          *)
LEMMA CalmFired ==
  ASSUME KycInv, CalmInv, NEW n, wire' = wire \cup {n}, lost' = lost,
         crossed' = (crossed \/ wire # {}), Calm /\ wire = {} => CalmCall(n)'
  PROVE  CalmInv'
<1> SUFFICES ASSUME Calm'
             PROVE  /\ \A c, d \in wire' : c = d
                    /\ \A c \in wire' : CalmCall(c)'
                    /\ wire' # {}
  BY DEF CalmInv
<1>1. Calm /\ wire = {}
  BY DEF Calm, KycInv, Typed
<1>2. QED
  BY <1>1

(* A call goes one stage further.                                          *)
LEMMA CalmMoved ==
  ASSUME CalmInv, NEW call \in wire, NEW next, wire' = (wire \ {call}) \cup {next},
         UNCHANGED <<lost, crossed>>, Calm /\ CalmCall(call) => CalmCall(next)'
  PROVE  CalmInv'
<1> SUFFICES ASSUME Calm'
             PROVE  /\ \A c, d \in wire' : c = d
                    /\ \A c \in wire' : CalmCall(c)'
                    /\ wire' # {}
  BY DEF CalmInv
<1>1. Calm /\ CalmCall(call) /\ \A c \in wire : c = call
  BY DEF Calm, CalmInv
<1>2. wire' = {next}
  BY <1>1
<1>3. QED
  BY <1>1, <1>2

(* A call is over.                                                         *)
LEMMA CalmServed ==
  ASSUME CalmInv, NEW call \in wire, wire' = wire \ {call}, UNCHANGED <<lost, crossed>>,
         Calm /\ CalmCall(call) => Agreed'
  PROVE  CalmInv'
<1> SUFFICES ASSUME Calm'
             PROVE  wire' = {} /\ Agreed'
  BY DEF CalmInv
<1>1. Calm /\ CalmCall(call) /\ \A c \in wire : c = call
  BY DEF Calm, CalmInv
<1>2. QED
  BY <1>1

LEMMA WizardCalm ==
  ASSUME KycInv, FiledInv, CalmInv, NEW t \in Tabs, WizardStep(t)
  PROVE  CalmInv'
<1>1. CASE RegisterInit(t)
  <2>1. /\ UNCHANGED <<wire, lost, cp>> /\ crossed' = (crossed \/ wire # {}) /\ ~ org.exists
    BY <1>1 DEF RegisterInit, Taken, InTab
  <2>2. Calm' => wire' = {} /\ cp'.status = "none"
    BY <2>1 DEF Calm, CalmInv, Agreed, KycInv, Typed
  <2>3. QED
    BY <2>2 DEF CalmInv
<1>2. CASE Submit(t) /\ dp[tabs[t].app] # "gone"
  <2> PICK a : a = tabs[t].app
    OBVIOUS
  <2> PICK n : n = [kind |-> "submit", app |-> a, tab |-> t, docs |-> {}, stage |-> "row"]
    OBVIOUS
  <2>1. /\ wire' = wire \cup {n} /\ crossed' = (crossed \/ wire # {})
        /\ UNCHANGED <<cp, dp, org, lost>>
    BY <1>2 DEF Submit, InTab
  <2>2. a \in Apps /\ dp[a] \notin {"none", "gone"} /\ Unfiled(a)
    BY <1>2 DEF Submit, KycInv, TabOK, FiledInv, TabFull
  <2>3. dp[a] = "draft"
    BY <2>2 DEF FiledInv, RowsOK
  <2>4. Calm /\ wire = {} => CalmCall(n)'
    BY <2>1, <2>3 DEF CalmInv, CalmCall, Agreed
  <2>5. QED
    BY <2>1, <2>4, CalmFired
<1>3. CASE ~ RegisterInit(t) /\ ~ (Submit(t) /\ dp[tabs[t].app] # "gone")
  <2>1. UNCHANGED <<cp, dp, org, wire, lost, crossed>>
    BY <1>3 DEF WizardStep, GoToReview, Edit, HandleFile, RemoveDoc, Finalize, RequestFails,
                StartOver, InitRefused, UploadRefused, Submit, RegisterUploadDoc, InBrowser, InTab
  <2>2. QED
    BY <2>1, CalmStays
<1>4. QED
  BY <1>1, <1>2, <1>3

LEMMA SubmissionCalm ==
  ASSUME KycInv, FiledInv, CalmInv, NEW call \in wire,
         \/ HydrateDocs(call) \/ CpSubmit(call) \/ SubmitRefused(call)
         \/ Provision(call) \/ SubmitAnswered(call) \/ Reconcile(call)
  PROVE  CalmInv'
<1>1. /\ call.kind = "submit" /\ call \in SubmitCalls /\ call.app \in Apps
      /\ call.stage \in {"filed", "replied", "reconcile"} => call.app = cp.app
      /\ UNCHANGED <<lost, crossed>>
  <2>1. call.kind = "submit"
    BY DEF HydrateDocs, CpSubmit, SubmitRefused, Provision, SubmitAnswered, Reconcile
  <2>2. UNCHANGED <<lost, crossed>>
    BY DEF HydrateDocs, CpSubmit, SubmitRefused, Provision, SubmitAnswered, Reconcile, Served
  <2>3. QED
    BY <2>1, <2>2, SubmitTyped, AppTyped DEF CallOK
<1>2. CASE HydrateDocs(call)
  <2> PICK next : next = [call EXCEPT !.docs = docs[call.app], !.stage = "docs"]
    OBVIOUS
  <2>1. /\ next.kind = "submit" /\ next.app = call.app /\ next.stage = "docs"
        /\ call.stage = "row" /\ wire' = (wire \ {call}) \cup {next} /\ UNCHANGED <<cp, dp, org>>
    BY <1>1, <1>2 DEF SubmitCalls, HydrateDocs
  <2>2. CalmCall(call) => CalmCall(next)'
    BY <1>1, <2>1 DEF CalmCall, Agreed
  <2>3. QED
    BY <1>1, <2>1, <2>2, CalmMoved
<1>3. CASE CpSubmit(call)
  <2> PICK next : next = [call EXCEPT !.stage = "filed"]
    OBVIOUS
  <2>1. next.kind = "submit" /\ next.app = call.app /\ next.stage = "filed"
    BY <1>1 DEF SubmitCalls
  <2>2. /\ call.stage = "docs" /\ cp.status = "none" /\ wire' = (wire \ {call}) \cup {next}
        /\ cp'.app = call.app /\ cp'.status = "pending" /\ UNCHANGED dp
    BY <1>3 DEF CpSubmit, Put, Moved, AtCP
  <2>3. CalmCall(call) => CalmCall(next)'
    BY <1>1, <2>1, <2>2 DEF CalmCall, Planes
  <2>4. QED
    BY <1>1, <2>2, <2>3, CalmMoved
<1>4. CASE SubmitRefused(call)
  <2>1. /\ call.stage = "docs" /\ cp.status # "none" /\ wire' = wire \ {call}
        /\ UNCHANGED <<cp, dp, org>>
    BY <1>4 DEF SubmitRefused, Served, AtCP
  <2>2. CalmCall(call) => Agreed'
    BY <1>1, <2>1 DEF CalmCall, Agreed
  <2>3. QED
    BY <1>1, <2>1, <2>2, CalmServed
<1>5. CASE Provision(call)
  <2> PICK next : next = [call EXCEPT !.stage = "replied"]
    OBVIOUS
  <2>1. next.kind = "submit" /\ next.app = call.app /\ next.stage = "replied"
    BY <1>1 DEF SubmitCalls
  <2>2. /\ call.stage = "filed" /\ wire' = (wire \ {call}) \cup {next}
        /\ org' = OrgCreated(cp.app) /\ UNCHANGED <<cp, dp>>
    BY <1>1, <1>5 DEF Provision, Moved
  <2>3. CalmCall(call) => CalmCall(next)'
    BY <1>1, <2>1, <2>2 DEF CalmCall, Planes, OrgCreated, KycInv, Typed
  <2>4. QED
    BY <1>1, <2>2, <2>3, CalmMoved
<1>6. CASE SubmitAnswered(call)
  <2> PICK next : next = [call EXCEPT !.stage = "reconcile"]
    OBVIOUS
  <2>1. next.kind = "submit" /\ next.app = call.app /\ next.stage = "reconcile"
    BY <1>1 DEF SubmitCalls
  <2>2. /\ call.stage = "replied" /\ wire' = (wire \ {call}) \cup {next} /\ UNCHANGED <<cp, dp, org>>
    BY <1>6 DEF SubmitAnswered, Moved, AtCP
  <2>3. CalmCall(call) => CalmCall(next)'
    BY <1>1, <2>1, <2>2 DEF CalmCall, Planes
  <2>4. QED
    BY <1>1, <2>2, <2>3, CalmMoved
<1>7. CASE Reconcile(call)
  <2>1. /\ call.stage = "reconcile" /\ wire' = wire \ {call} /\ UNCHANGED <<cp, org>>
        /\ dp' = [dp EXCEPT ![call.app] = IF @ = "draft" THEN "pending" ELSE @]
    BY <1>7 DEF Reconcile, Served
  <2>2. CalmCall(call) => Agreed'
    BY <1>1, <2>1 DEF CalmCall, Planes, Agreed, KycInv, Typed
  <2>3. QED
    BY <1>1, <2>1, <2>2, CalmServed
<1>8. QED
  BY <1>2, <1>3, <1>4, <1>5, <1>6, <1>7

LEMMA MirrorCalm ==
  ASSUME KycInv, FiledInv, CalmInv, NEW call \in wire,
         \/ MirrorApprove(call) \/ MirrorReject(call) \/ MirrorRevoke(call) \/ CpResubmit(call)
  PROVE  CalmInv'
<1> PICK a : a = cp.app
  OBVIOUS
<1>1. /\ call.kind \in {"approve", "reject", "revoke", "resubmit"}
      /\ wire' = wire \ {call} /\ UNCHANGED <<lost, crossed>>
  BY DEF MirrorApprove, MirrorReject, MirrorRevoke, CpResubmit, FromCP, Served
<1>2. call.app = a /\ a \in Apps /\ dp \in [Apps -> Statuses]
  BY <1>1, AppTyped DEF FiledInv, CallFull, KycInv, Typed, Statuses
<1> SUFFICES ASSUME CalmCall(call) PROVE Agreed'
  BY <1>1, CalmServed
<1>3. org.exists
  BY <1>1 DEF CalmCall
<1>4. CASE MirrorApprove(call)
  <2>1. /\ cp' = cp /\ org' = org
        /\ dp' = [dp EXCEPT ![a] = IF @ \in {"draft", "pending"} /\ org'.exists THEN "approved" ELSE @]
    BY <1>2, <1>3, <1>4 DEF MirrorApprove, FromCP, OrgCreated
  <2>2. cp.status = "approved" /\ dp[a] = "pending"
    BY <1>4 DEF CalmCall, Planes, MirrorApprove
  <2>3. QED
    BY <1>2, <1>3, <2>1, <2>2 DEF Agreed
<1>5. CASE MirrorReject(call)
  <2>1. /\ cp' = cp /\ org' = org
        /\ dp' = [dp EXCEPT ![a] = IF @ \in {"draft", "pending"} THEN "rejected" ELSE @]
    BY <1>2, <1>5 DEF MirrorReject, FromCP
  <2>2. cp.status = "rejected" /\ dp[a] = "pending"
    BY <1>5 DEF CalmCall, Planes, MirrorReject
  <2>3. QED
    BY <1>2, <1>3, <2>1, <2>2 DEF Agreed
<1>6. CASE MirrorRevoke(call)
  <2>1. /\ cp' = cp /\ org' = org
        /\ dp' = [dp EXCEPT ![a] = IF @ = "rejected" THEN "pending" ELSE @]
    BY <1>2, <1>6 DEF MirrorRevoke, FromCP
  <2>2. cp.status = "pending" /\ dp[a] = "rejected"
    BY <1>6 DEF CalmCall, Planes, MirrorRevoke
  <2>3. QED
    BY <1>2, <1>3, <2>1, <2>2 DEF Agreed
<1>7. CASE CpResubmit(call)
  <2>1. cp.status = "rejected" /\ dp[a] = "pending"
    BY <1>7 DEF CalmCall, Planes, CpResubmit
  <2>2. /\ cp' = [cp EXCEPT !.status = "pending", !.desk = FirstDesk, !.docs = call.docs]
        /\ UNCHANGED <<dp, org>>
    BY <1>7, <2>1 DEF CpResubmit, Put, AtCP
  <2>3. cp'.status = "pending" /\ cp'.app = a
    BY <2>2 DEF KycInv, Typed
  <2>4. QED
    BY <1>3, <2>1, <2>2, <2>3 DEF Agreed
<1>8. QED
  BY <1>4, <1>5, <1>6, <1>7

(* A resubmission that misses a document ends; one that does not takes the *)
(* data plane's row with it.                                               *)
LEMMA ResubmitCalm ==
  ASSUME KycInv, FiledInv, CalmInv, NEW call \in wire,
         CheckRequired(call) \/ BackToPending(call) \/ CallCPResubmit(call)
  PROVE  CalmInv'
<1>1. /\ call.kind = "resubmit" /\ call.app = cp.app /\ cp.app \in Apps
      /\ dp \in [Apps -> Statuses] /\ UNCHANGED <<cp, org, lost, crossed>>
  <2>1. call \in ResubmitCalls /\ UNCHANGED <<cp, org, lost, crossed>>
    BY ResubmitSteps
  <2>2. call.kind = "resubmit" /\ call.app \in Apps
    BY <2>1, AppTyped DEF ResubmitCalls
  <2>3. QED
    BY <2>1, <2>2 DEF FiledInv, CallFull, KycInv, Typed
<1>2. CASE wire' = wire \ {call} /\ CheckRequired(call)
  <2>1. call.stage = "asked" /\ dp' = dp
    BY <1>2 DEF CheckRequired
  <2>2. CalmCall(call) => Agreed'
    BY <1>1, <2>1 DEF CalmCall, Planes, Agreed
  <2>3. QED
    BY <1>1, <1>2, <2>2, CalmServed
<1>3. ASSUME NEW next \in ResubmitCalls, wire' = (wire \ {call}) \cup {next},
             \/ CheckRequired(call) /\ next.stage = "checked"
             \/ BackToPending(call) /\ next.stage = "updated"
             \/ CallCPResubmit(call) /\ next.stage = "sent"
      PROVE  CalmInv'
  <2>1. next.kind = "resubmit"
    BY DEF ResubmitCalls
  <2>2. ASSUME CalmCall(call) PROVE CalmCall(next)'
    <3>1. org.exists
      BY <1>1, <2>2 DEF CalmCall
    <3>2. CASE CheckRequired(call) /\ next.stage = "checked"
      BY <1>1, <2>1, <2>2, <3>1, <3>2 DEF CalmCall, Planes, CheckRequired
    <3>3. CASE BackToPending(call) /\ next.stage = "updated"
      BY <1>1, <2>1, <2>2, <3>1, <3>3 DEF CalmCall, Planes, BackToPending
    <3>4. CASE CallCPResubmit(call) /\ next.stage = "sent"
      BY <1>1, <2>1, <2>2, <3>1, <3>4 DEF CalmCall, Planes, CallCPResubmit
    <3>5. QED
      BY <1>3, <3>2, <3>3, <3>4
  <2>3. QED
    BY <1>1, <1>3, <2>2, CalmMoved
<1>4. QED
  BY <1>2, <1>3, ResubmitSteps

LEMMA DecisionCalm ==
  ASSUME KycInv, CalmInv, cp.status # "none",
         NEW status \in {"pending", "approved", "rejected"}, NEW desk \in DeskNames,
         NEW kind \in {"approve", "reject", "revoke"},
         Decide(status, desk), Fire(kind, cp.app), UNCHANGED dpVars,
         \/ kind = "approve" /\ cp.status = "pending" /\ status = "approved"
         \/ kind = "reject" /\ cp.status = "pending" /\ status = "rejected"
         \/ kind = "revoke" /\ cp.status = "rejected" /\ status = "pending"
  PROVE  CalmInv'
<1> PICK n : n = [kind |-> kind, app |-> cp.app, n |-> decisions + 1]
  OBVIOUS
<1>1. /\ n.kind = kind /\ wire' = wire \cup {n} /\ lost' = lost
      /\ crossed' = (crossed \/ wire # {}) /\ UNCHANGED <<dp, org>>
  BY DEF Fire
<1>2. cp'.app = cp.app /\ cp'.status = status
  BY DEF Decide, Put, KycInv, Typed
<1>3. Calm /\ wire = {} => dp[cp.app] = cp.status /\ org.exists
  BY DEF CalmInv, Agreed
<1>4. Calm /\ wire = {} => CalmCall(n)'
  BY <1>1, <1>2, <1>3 DEF CalmCall, Planes
<1>5. QED
  BY <1>1, <1>4, CalmFired

LEMMA DeskCalm == KycInv /\ CalmInv /\ DeskStep => CalmInv'
<1> SUFFICES ASSUME KycInv, CalmInv, DeskStep PROVE CalmInv'
  OBVIOUS
<1>1. CASE AdminApprove
  <2>1. CASE mode = "both"
    <3>1. cp' = [cp EXCEPT !.status = "pending", !.desk = "client"] /\ cp.status = "pending"
      BY <1>1, <2>1 DEF AdminApprove, Decide, Put, AtDesk
    <3>2. cp'.status = cp.status /\ cp'.app = cp.app
      BY <3>1 DEF KycInv, Typed
    <3>3. UNCHANGED <<dp, org, wire, lost, crossed>>
      BY <1>1, <2>1 DEF AdminApprove, AtDesk
    <3>4. QED
      BY <3>2, <3>3, CalmStays
  <2>2. CASE mode # "both"
    BY <1>1, <2>2, DecisionCalm DEF AdminApprove, AtDesk
  <2>3. QED
    BY <2>1, <2>2
<1>2. CASE ClientApprove
  BY <1>2, DecisionCalm DEF ClientApprove, AtDesk
<1>3. ASSUME NEW k \in DeskNames, Reject(k) PROVE CalmInv'
  BY <1>3, DecisionCalm DEF Reject, AtDesk
<1>4. ASSUME NEW k \in DeskNames, Revoke(k) PROVE CalmInv'
  <2>1. PICK desk \in DeskNames : Decide("pending", desk)
    BY <1>4, FirstDeskTyped DEF Revoke
  <2>2. QED
    BY <1>4, <2>1, DecisionCalm DEF Revoke, AtDesk
<1>5. QED
  BY <1>1, <1>2, <1>3, <1>4 DEF DeskStep

LEMMA LoginCalm == KycInv /\ LoginInv /\ CalmInv /\ LoginStep => CalmInv'
<1> SUFFICES ASSUME KycInv, LoginInv, CalmInv, LoginStep PROVE CalmInv'
  OBVIOUS
<1>1. UNCHANGED <<cp, dp, org, lost>> /\ org.exists
  BY LoginSteps
<1>2. CASE AdminResubmit
  <2>1. PICK n \in ResubmitCalls :
          /\ n.stage = "asked" /\ wire' = wire \cup {n}
          /\ crossed' = (crossed \/ wire # {}) /\ lost' = lost
    BY <1>2, Resubmitted
  <2>2. n.kind = "resubmit" /\ cp.status # "none" /\ dp[cp.app] = "rejected"
    BY <1>1, <1>2, LoginHasRow DEF AdminResubmit, Mine, ResubmitCalls
  <2>3. Calm /\ wire = {} => CalmCall(n)'
    BY <1>1, <2>1, <2>2 DEF CalmInv, Agreed, CalmCall, Planes
  <2>4. QED
    BY <2>1, <2>3, CalmFired
<1>3. CASE UNCHANGED <<wire, crossed>>
  BY <1>1, <1>3, CalmStays
<1>4. QED
  BY <1>2, <1>3, LoginSteps

LEMMA NextCalm == KycInv /\ LoginInv /\ FiledInv /\ CalmInv /\ [Next]_vars => CalmInv'
<1> SUFFICES ASSUME KycInv, LoginInv, FiledInv, CalmInv, [Next]_vars PROVE CalmInv'
  OBVIOUS
<1>1. ASSUME NEW call \in wire, Lose(call) PROVE CalmInv'
  <2>1. lost \in Nat /\ lost' = lost + 1
    BY <1>1, KycAssumption DEF Lose, OneMoreLost, KycInv, Typed
  <2>2. QED
    BY <2>1 DEF CalmInv, Calm
<1>2. ASSUME NEW call \in wire, CallStep(call) PROVE CalmInv'
  BY <1>1, <1>2, SubmissionCalm, MirrorCalm, ResubmitCalm DEF CallStep
<1>3. CASE UNCHANGED vars
  BY <1>3, CalmStays
<1>4. QED
  BY <1>2, <1>3, WizardCalm, DeskCalm, LoginCalm DEF Next

(* When no call was lost and none overlapped another or a new draft, the   *)
(* planes agree whenever nothing is under way, and a filed application has *)
(* its login. *)
THEOREM KycAgreement == Spec => []AgreeWhenQuiet
<1>1. KycInv /\ LoginInv /\ FiledInv /\ CalmInv /\ [Next]_vars
        => (KycInv /\ LoginInv /\ FiledInv /\ CalmInv)'
  BY NextKyc, NextFiled, NextCalm
<1>2. CalmInv => AgreeWhenQuiet
  BY DEF CalmInv, Calm, Agreed, AgreeWhenQuiet
<1>3. QED
  BY InitKyc, InitFiled, InitCalm, <1>1, <1>2, PTL DEF Spec

-----------------------------------------------------------------------------
(* The refinement: the two planes implement one application.               *)

OpenedView == Opened = IF org.exists THEN {cp.app} ELSE {}
UnlockedView == Unlocked = {} \/ (Unlocked = {cp.app} /\ cp.status = "approved")

LEMMA Views ==
  ASSUME KycInv, KycInv'
  PROVE  /\ OpenedView /\ OpenedView'
         /\ UnlockedView /\ UnlockedView'
  BY DEF KycInv, Filing, Opened, Unlocked, OpenedView, UnlockedView

LEMMA ApplicationInit == Init => Application!Init
  BY DEF Init, Opened, Unlocked, Application!Init

(* A step of the control plane files, rules or reopens, if anything.       *)
LEMMA ControlMaps ==
  ASSUME KycInv', UNCHANGED <<dp, org>>,
         \/ cp'.app = cp.app /\ cp'.status = cp.status
         \/ cp.status = "none" /\ cp'.status = "pending"
         \/ /\ cp'.app = cp.app /\ cp.status = "pending"
            /\ cp'.status \in {"approved", "rejected"}
         \/ cp'.app = cp.app /\ cp.status = "rejected" /\ cp'.status = "pending"
  PROVE  [Application!Next]_Application!vars
<1>1. UNCHANGED <<Opened, Unlocked>>
  BY DEF Opened, Unlocked
<1>2. CASE cp'.app = cp.app /\ cp'.status = cp.status
  BY <1>1, <1>2 DEF Application!vars
<1>3. CASE cp.status = "none" /\ cp'.status = "pending"
  <2>1. cp'.app \in Apps
    BY <1>3 DEF KycInv, Filing
  <2>2. Application!File(cp'.app)
    BY <1>1, <1>3 DEF Application!File
  <2>3. QED
    BY <2>1, <2>2 DEF Application!Next
<1>4. CASE /\ cp'.app = cp.app /\ cp.status = "pending"
           /\ cp'.status \in {"approved", "rejected"}
  <2>1. Application!Rule(cp'.status)
    BY <1>1, <1>4 DEF Application!Rule
  <2>2. QED
    BY <1>4, <2>1 DEF Application!Next
<1>5. CASE cp'.app = cp.app /\ cp.status = "rejected" /\ cp'.status = "pending"
  BY <1>1, <1>5 DEF Application!Reopen, Application!Next
<1>6. QED
  BY <1>2, <1>3, <1>4, <1>5

(* A step of the data plane opens the login, or unlocks the portal of an   *)
(* institution that has its login by then.                                 *)
LEMMA DataMaps ==
  ASSUME KycInv, KycInv', Final, UNCHANGED cp,
         org' = org \/ ~ org.exists,
         Unlocked' = Unlocked \/ org'.exists
  PROVE  [Application!Next]_Application!vars
<1>1. /\ Opened = IF org.exists THEN {cp.app} ELSE {}
      /\ Opened' = IF org'.exists THEN {cp.app} ELSE {}
  BY Views DEF OpenedView
<1>2. CASE Unlocked' = Unlocked
  <2>1. CASE org.exists = org'.exists
    BY <1>1, <1>2, <2>1 DEF Application!vars
  <2>2. CASE org.exists # org'.exists
    <3>1. ~ org.exists /\ org'.exists
      BY <2>2 DEF KycInv, Typed
    <3>2. cp.status # "none"
      BY <3>1 DEF KycInv, Filing
    <3>3. QED
      BY <1>1, <1>2, <3>1, <3>2 DEF Application!OpenLogin, Application!Next
  <2>3. QED
    BY <2>1, <2>2
<1>3. CASE Unlocked' # Unlocked
  <2>1. Unlocked \subseteq Unlocked'
    BY DEF Final, Unlocked
  <2>2. Unlocked' = {} \/ (Unlocked' = {cp.app} /\ cp.status = "approved")
    BY Views DEF UnlockedView
  <2>3. Unlocked = {} \/ Unlocked = {cp.app}
    BY Views DEF UnlockedView
  <2>4. Unlocked = {} /\ Unlocked' = {cp.app} /\ cp.status = "approved"
    BY <1>3, <2>1, <2>2, <2>3
  <2>5. Opened' = {cp.app}
    BY <1>1, <1>3
  <2>6. QED
    BY <2>4, <2>5 DEF Application!Unlock, Application!Next
<1>4. QED
  BY <1>2, <1>3

LEMMA WizardMaps ==
  ASSUME KycInv, KycInv', Final, NEW t \in Tabs, WizardStep(t)
  PROVE  [Application!Next]_Application!vars
<1>1. CASE RegisterInit(t)
  <2>1. ~ org.exists /\ cp' = cp /\ \A d \in Apps : dp[d] # "approved"
    BY <1>1 DEF RegisterInit, Taken, InTab
  <2>2. \A d \in Apps : dp'[d] # "approved"
    BY <1>1, <2>1 DEF RegisterInit
  <2>3. Unlocked' = Unlocked
    BY <2>1, <2>2 DEF Unlocked
  <2>4. QED
    BY <2>1, <2>3, DataMaps
<1>2. CASE ~ RegisterInit(t)
  <2>1. UNCHANGED <<cp, dp, org>>
    BY <1>2 DEF WizardStep, GoToReview, Edit, HandleFile, RemoveDoc, Finalize, RequestFails,
                StartOver, InitRefused, UploadRefused, Submit, RegisterUploadDoc, InBrowser, InTab
  <2>2. QED
    BY <2>1, ControlMaps
<1>3. QED
  BY <1>1, <1>2

LEMMA CallMaps ==
  ASSUME KycInv, KycInv', Final, NEW call \in wire, CallStep(call)
  PROVE  [Application!Next]_Application!vars
<1>1. CASE \/ HydrateDocs(call) \/ SubmitRefused(call) \/ SubmitAnswered(call) \/ Lose(call)
           \/ CheckRequired(call) \/ CallCPResubmit(call)
  <2>1. UNCHANGED <<cp, dp, org>>
    BY <1>1 DEF HydrateDocs, SubmitRefused, SubmitAnswered, Lose, CheckRequired, CallCPResubmit,
                AtCP, AtLogin
  <2>2. QED
    BY <2>1, ControlMaps
<1>2. CASE CpSubmit(call)
  <2>1. UNCHANGED <<dp, org>> /\ cp.status = "none" /\ cp'.status = "pending"
    BY <1>2 DEF CpSubmit, Put, AtCP
  <2>2. QED
    BY <2>1, ControlMaps
<1>3. CASE CpResubmit(call)
  <2>1. UNCHANGED <<dp, org>>
    BY <1>3 DEF CpResubmit, AtCP
  <2>2. CASE cp.status = "rejected"
    <3>1. cp' = [cp EXCEPT !.status = "pending", !.desk = FirstDesk, !.docs = call.docs]
      BY <1>3, <2>2 DEF CpResubmit, Put
    <3>2. cp'.status = "pending" /\ cp'.app = cp.app
      BY <3>1 DEF KycInv, Typed
    <3>3. QED
      BY <2>1, <2>2, <3>2, ControlMaps
  <2>3. CASE cp.status # "rejected"
    <3>1. UNCHANGED cp
      BY <1>3, <2>3 DEF CpResubmit
    <3>2. QED
      BY <2>1, <3>1, ControlMaps
  <2>4. QED
    BY <2>2, <2>3
<1>4. CASE Provision(call)
  <2>1. UNCHANGED <<cp, dp>> /\ org' = OrgCreated(call.app)
    BY <1>4 DEF Provision
  <2>2. (org' = org \/ ~ org.exists) /\ Unlocked' = Unlocked
    BY <2>1 DEF OrgCreated, Unlocked
  <2>3. QED
    BY <2>1, <2>2, DataMaps
<1>5. CASE MirrorApprove(call)
  <2>1. /\ cp' = cp /\ org' = OrgCreated(call.app)
        /\ dp' = [dp EXCEPT ![call.app] =
                   IF @ \in {"draft", "pending"} /\ org'.exists THEN "approved" ELSE @]
    BY <1>5 DEF MirrorApprove, FromCP
  <2>2. org' = org \/ ~ org.exists
    BY <2>1 DEF OrgCreated
  <2>3. CASE ~ org'.exists
    <3>1. dp' = dp
      BY <2>1, <2>3 DEF KycInv, Typed
    <3>2. QED
      BY <2>1, <2>2, <3>1, DataMaps DEF Unlocked
  <2>4. CASE org'.exists
    BY <2>1, <2>2, <2>4, DataMaps
  <2>5. QED
    BY <2>3, <2>4
<1>6. CASE \/ Reconcile(call) \/ MirrorReject(call) \/ MirrorRevoke(call)
           \/ BackToPending(call)
  <2>1. UNCHANGED <<cp, org>>
    BY <1>6 DEF Reconcile, MirrorReject, MirrorRevoke, FromCP, BackToPending, AtLogin
  <2>2. \A d \in Apps : dp'[d] = "approved" <=> dp[d] = "approved"
    <3>1. call.app \in Apps /\ dp \in [Apps -> Statuses]
      BY AppTyped DEF KycInv, Typed, Statuses
    <3>2. CASE Reconcile(call)
      BY <3>1, <3>2 DEF Reconcile
    <3>3. CASE MirrorReject(call)
      BY <3>1, <3>3 DEF MirrorReject
    <3>4. CASE MirrorRevoke(call)
      BY <3>1, <3>4 DEF MirrorRevoke
    <3>5. CASE BackToPending(call)
      BY <3>1, <3>5 DEF BackToPending
    <3>6. QED
      BY <1>6, <3>2, <3>3, <3>4, <3>5
  <2>3. Unlocked' = Unlocked
    BY <2>2 DEF Unlocked
  <2>4. QED
    BY <2>1, <2>3, DataMaps
<1>7. QED
  BY <1>1, <1>2, <1>3, <1>4, <1>5, <1>6 DEF CallStep

LEMMA DeskMaps ==
  ASSUME KycInv, KycInv', DeskStep
  PROVE  [Application!Next]_Application!vars
<1>1. UNCHANGED <<dp, org>>
  BY DEF DeskStep, Reject, Revoke, AdminApprove, ClientApprove, AtDesk
<1>2. PICK status \in {"pending", "approved", "rejected"}, desk \in DeskNames :
        /\ Decide(status, desk)
        /\ \/ cp.status = "pending"
           \/ cp.status = "rejected" /\ status = "pending"
  BY FirstDeskTyped DEF DeskStep, Reject, Revoke, AdminApprove, ClientApprove, AtDesk
<1>3. cp'.app = cp.app /\ cp'.status = status
  BY <1>2 DEF Decide, Put, KycInv, Typed
<1>4. QED
  BY <1>1, <1>2, <1>3, ControlMaps

LEMMA LoginMaps ==
  ASSUME KycInv, KycInv', LoginInv, LoginStep
  PROVE  [Application!Next]_Application!vars
<1>1. UNCHANGED <<cp, dp, org>>
  BY LoginSteps
<1>2. QED
  BY <1>1, ControlMaps

LEMMA ApplicationMaps == KycInv /\ LoginInv /\ [Next]_vars => [Application!Next]_Application!vars
<1> SUFFICES ASSUME KycInv, LoginInv, [Next]_vars PROVE [Application!Next]_Application!vars
  OBVIOUS
<1>1. KycInv' /\ [Final]_vars
  BY NextKyc
<1>2. CASE UNCHANGED vars
  <2>1. UNCHANGED <<cp, dp, org>>
    BY <1>2
  <2>2. QED
    BY <1>1, <2>1, ControlMaps
<1>3. QED
  BY <1>1, <1>2, WizardMaps, CallMaps, DeskMaps, LoginMaps DEF Next

(* Whatever tabs submit and whichever calls are lost or late, the planes   *)
(* together handle one application: one filing, a ruling that only a       *)
(* rejection lets be reopened, a login that opens what was filed and keeps *)
(* it, and a portal unlocked for it after the approval, for good.          *)
THEOREM KycRefinement == Spec => ImplementsApplication
  BY InitKyc, NextKyc, ApplicationInit, ApplicationMaps,
     PTL DEF Spec, ImplementsApplication, Application!Spec
=============================================================================
