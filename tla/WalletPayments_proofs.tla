----------------------- MODULE WalletPayments_proofs -----------------------
(***************************************************************************)
(* Proofs about the two users of the wallet.  WalletCharge: the middleware *)
(* only ever uses the wallet as the wallet allows, so everything proved of *)
(* the store holds under it; and what the middleware itself promises.      *)
(* WalletTopUp: the same for browser and webhook, and what they promise    *)
(* about captured money.  Neither component's proof uses the other's.      *)
(***************************************************************************)
EXTENDS WalletCharge, WalletTopUp, WalletStore_proofs

USE DEF storeVars, tables, locks, calls, history,
        middlewareVars, chargeVars, paymentVars, topUpVars

---------------------------------------------------------------------------
(* WalletCharge: the inductive invariant of the middleware's own variables *)

MiddlewareTypes ==
  /\ stage \in [Requests -> Stages]
  /\ operator \in [Requests -> Users \cup {NoUser}]
  /\ session \in [Requests -> Sessions \cup {"none"}]
  /\ reply \in [Requests -> Replies]
  /\ passer \in [Sessions -> Users \cup {NoUser}]
  /\ offer \in [Users -> Caps \cup {NoCap}]
  /\ paid \subseteq Requests

(* A request under way has an operator and a session; it has come to the   *)
(* debit only past a pass; it is answered once and paid for only then.     *)
Progress(r) ==
  /\ stage[r] \in {"balance", "inner", "debit", "debiting"} =>
       operator[r] \in Users /\ session[r] \in Sessions
  /\ stage[r] \in {"debit", "debiting"} => session[r] \in gate
  /\ r \in paid => stage[r] = "done" /\ session[r] \in gate
  /\ stage[r] # "done" => reply[r] = "none"
  /\ reply[r] \in {"refused", "failed", "skipped", "free"} => r \notin paid
  /\ reply[r] = "charged" => r \in paid

ChargeInv == MiddlewareTypes /\ \A r \in Requests : Progress(r)

LEMMA InitCharge == ChargeInit => ChargeInv
  BY DEF ChargeInit, ChargeInv, MiddlewareTypes, Progress, Stages, Replies

(* The rest of the requests do not notice what one request does.           *)
LEMMA OtherRequestsKeep ==
  ASSUME ChargeInv, NEW r \in Requests,
         NEW p \in Stages, stage' = [stage EXCEPT ![r] = p],
         operator' \in [Requests -> Users \cup {NoUser}],
         session' \in [Requests -> Sessions \cup {"none"}],
         reply' \in [Requests -> Replies],
         passer' \in [Sessions -> Users \cup {NoUser}],
         \A s \in gate : s \in gate', paid' \subseteq Requests,
         \A q \in Requests \ {r} :
           /\ operator'[q] = operator[q] /\ session'[q] = session[q]
           /\ reply'[q] = reply[q] /\ (q \in paid' <=> q \in paid),
         UNCHANGED offer, Progress(r)'
  PROVE  ChargeInv'
<1>1. MiddlewareTypes'
  BY DEF ChargeInv, MiddlewareTypes
<1>2. ASSUME NEW q \in Requests \ {r}
      PROVE  Progress(q)'
  BY DEF ChargeInv, MiddlewareTypes, Progress
<1>3. QED
  BY <1>1, <1>2 DEF ChargeInv

LEMMA ArriveKeeps ==
  ASSUME ChargeInv, NEW r \in Requests, NEW u \in Users, NEW s \in Sessions,
         NEW inWindow \in BOOLEAN, Arrive(r, u, s, inWindow)
  PROVE  ChargeInv'
<1>1. r \notin paid /\ reply[r] = "none" /\ stage[r] = "idle"
  BY DEF ChargeInv, Progress, Arrive
<1>2. CASE MayVerify(u, inWindow)
  BY <1>1, <1>2, OtherRequestsKeep DEF ChargeInv, MiddlewareTypes, Progress, Arrive, Proceed, Stages, gate
<1>3. CASE ~MayVerify(u, inWindow)
  BY <1>1, <1>3, OtherRequestsKeep DEF ChargeInv, MiddlewareTypes, Progress, Arrive, Answer, Stages, Replies, gate
<1>4. QED
  BY <1>2, <1>3

(* A request on its way that moves on without an answer.                   *)
LEMMA ProceedKeeps ==
  ASSUME ChargeInv, NEW r \in Requests, UNCHANGED <<operator, session, reply, offer, paid>>,
         \/ Proceed(r, "balance", "inner") /\ UNCHANGED passer
         \/ Proceed(r, "inner", "debit") /\ passer' = Passed(r)
         \/ Proceed(r, "debit", "debiting") /\ UNCHANGED passer
  PROVE  ChargeInv'
<1>1. r \notin paid /\ reply[r] = "none" /\ session[r] \in Sessions /\ operator[r] \in Users
  BY DEF ChargeInv, Progress, Proceed
<1>2. CASE Proceed(r, "balance", "inner") /\ UNCHANGED passer
  BY <1>1, <1>2, OtherRequestsKeep DEF ChargeInv, MiddlewareTypes, Progress, Proceed, Stages, gate
<1>3. CASE Proceed(r, "inner", "debit") /\ passer' = Passed(r)
  <2>1. /\ passer' \in [Sessions -> Users \cup {NoUser}]
        /\ \A s \in gate : s \in gate'
        /\ session[r] \in gate'
    BY <1>1, <1>3, StoreAssumption DEF ChargeInv, MiddlewareTypes, Passed, gate
  <2>2. QED
    BY <1>1, <1>3, <2>1, OtherRequestsKeep DEF ChargeInv, MiddlewareTypes, Progress, Proceed, Stages
<1>4. CASE Proceed(r, "debit", "debiting") /\ UNCHANGED passer
  BY <1>1, <1>4, OtherRequestsKeep DEF ChargeInv, MiddlewareTypes, Progress, Proceed, Stages, gate
<1>5. QED
  BY <1>2, <1>3, <1>4

(* A request on its way that is answered without having paid.              *)
LEMMA AnswerKeeps ==
  ASSUME ChargeInv, NEW r \in Requests, NEW what \in Replies \ {"none", "charged"},
         stage[r] \in {"balance", "inner", "debit", "debiting"}, Answer(r, what),
         UNCHANGED <<operator, session, passer, offer, paid>>
  PROVE  ChargeInv'
<1>1. r \notin paid
  BY DEF ChargeInv, Progress
<1>2. QED
  BY <1>1, OtherRequestsKeep DEF ChargeInv, MiddlewareTypes, Progress, Answer, Stages, Replies, gate

(* The debit commits, and the answer may or may not say so.                *)
LEMMA DebitCommitsKeeps ==
  ASSUME ChargeInv, NEW r \in Requests, NEW result \in {"ok", "error"}, DebitCommits(r, result)
  PROVE  ChargeInv'
<1>1. r \notin paid /\ session[r] \in gate /\ stage[r] = "debiting"
  BY DEF ChargeInv, Progress, DebitCommits
<1>2. QED
  BY <1>1, OtherRequestsKeep DEF ChargeInv, MiddlewareTypes, Progress, DebitCommits, Answer, Stages, Replies, gate

(* A PATCH that has checked its cap, and one that writes it.               *)
LEMMA OfferKeeps ==
  ASSUME ChargeInv, NEW u \in Users, NEW c \in Caps \cup {NoCap},
         offer' = [offer EXCEPT ![u] = c],
         UNCHANGED <<stage, operator, session, reply, passer, paid>>
  PROVE  ChargeInv'
  BY DEF ChargeInv, MiddlewareTypes, Progress, gate

LEMMA SameKeeps == ChargeInv /\ UNCHANGED middlewareVars => ChargeInv'
  BY DEF ChargeInv, MiddlewareTypes, Progress, gate

LEMMA NextCharge == ChargeInv /\ [ChargeNext]_chargeVars => ChargeInv'
<1> SUFFICES ASSUME ChargeInv, [ChargeNext]_chargeVars PROVE ChargeInv'
  OBVIOUS
<1>1. ASSUME NEW r \in Requests, CheckBalance(r)
      PROVE  ChargeInv'
  <2>1. CASE balance[OrgOf[operator[r]]] >= Fee
    BY <1>1, <2>1, ProceedKeeps DEF CheckBalance
  <2>2. CASE ~(balance[OrgOf[operator[r]]] >= Fee)
    BY <1>1, <2>2, AnswerKeeps DEF CheckBalance, Replies
  <2>3. QED
    BY <2>1, <2>2
<1>2. ASSUME NEW r \in Requests, InnerNoPass(r) \/ Cancelled(r)
      PROVE  ChargeInv'
  BY <1>2, AnswerKeeps DEF InnerNoPass, Cancelled, Replies
<1>3. ASSUME NEW r \in Requests, InnerPass(r)
      PROVE  ChargeInv'
  BY <1>3, ProceedKeeps DEF InnerPass
<1>4. ASSUME NEW r \in Requests, StartDebit(r)
      PROVE  ChargeInv'
  BY <1>4, ProceedKeeps DEF StartDebit, Kept
<1>5. ASSUME NEW r \in Requests, ServeFree(r) \/ OperatorGone(r) \/ RefuseOverCap(r) \/ DebitFails(r)
      PROVE  ChargeInv'
  BY <1>5, AnswerKeeps DEF ServeFree, OperatorGone, RefuseOverCap, DebitFails, Kept, Replies
<1>6. ASSUME NEW r \in Requests, ContinueDebit(r)
      PROVE  ChargeInv'
  BY <1>6, SameKeeps DEF ContinueDebit, Kept
<1>7. ASSUME NEW r \in Requests, Handle(r) \/ Fault(r)
      PROVE  ChargeInv'
  BY <1>1, <1>2, <1>3, <1>4, <1>5, <1>6, <1>7, DebitCommitsKeeps DEF Handle, Fault
<1>8. ASSUME NEW t \in Tx \ Requests, TopUp(t) \/ TopUpEnds(t)
      PROVE  ChargeInv'
  BY <1>8, SameKeeps DEF TopUp, TopUpEnds
<1>9. ASSUME NEW u \in Users, NEW c \in Caps, CheckCapAgainstWallet(u, c)
      PROVE  ChargeInv'
  BY <1>9, OfferKeeps DEF CheckCapAgainstWallet
<1>10. ASSUME NEW u \in Users, NEW reset \in BOOLEAN, AdminPatch(u, reset)
       PROVE  ChargeInv'
  BY <1>10, OfferKeeps DEF AdminPatch
<1>11. ASSUME NEW u \in Users, AdminDelete(u)
       PROVE  ChargeInv'
  BY <1>11, SameKeeps DEF AdminDelete
<1>12. UNCHANGED chargeVars => ChargeInv'
  BY SameKeeps
<1>13. QED
  BY <1>7, <1>8, <1>9, <1>10, <1>11, <1>12, ArriveKeeps DEF ChargeNext

---------------------------------------------------------------------------
(* Every step of the middleware is a step of the store, or none of it      *)

LEMMA HandleMaps ==
  ASSUME ChargeInv, NEW r \in Requests, Handle(r) \/ Fault(r)
  PROVE  [StoreNext]_storeVars
<1>1. r \in Tx /\ Fee \in Amounts
  BY ChargeAssumption
<1>2. ASSUME StartDebit(r) \/ ServeFree(r) \/ OperatorGone(r)
      PROVE  StoreNext
  <2>1. operator[r] \in Users
    BY <1>2 DEF ChargeInv, Progress, StartDebit, ServeFree, OperatorGone, Proceed
  <2>2. OrgOf[operator[r]] \in Orgs
    BY <2>1, ChargeAssumption
  <2>3. DebitStep(r)
    BY <1>1, <1>2, <2>1, <2>2 DEF StartDebit, ServeFree, OperatorGone, DebitStep
  <2>4. QED
    BY <1>1, <2>3 DEF StoreNext
<1>3. ASSUME ContinueDebit(r) \/ RefuseOverCap(r)
      PROVE  StoreNext
  BY <1>1, <1>3 DEF ContinueDebit, RefuseOverCap, DebitStep, StoreNext
<1>4. ASSUME DebitFails(r) \/ DebitCommits(r, "ok") \/ DebitCommits(r, "error")
      PROVE  StoreNext
  BY <1>1, <1>4 DEF DebitFails, DebitCommits, CloseStep, StoreNext
<1>5. ASSUME CheckBalance(r) \/ InnerNoPass(r) \/ InnerPass(r) \/ Cancelled(r)
      PROVE  UNCHANGED storeVars
  BY <1>5 DEF CheckBalance, InnerNoPass, InnerPass, Cancelled
<1>6. QED
  BY <1>2, <1>3, <1>4, <1>5 DEF Handle, Fault

LEMMA ChargeStepMaps == ChargeInv /\ [ChargeNext]_chargeVars => [StoreNext]_storeVars
<1> SUFFICES ASSUME ChargeInv, [ChargeNext]_chargeVars PROVE [StoreNext]_storeVars
  OBVIOUS
<1>1. ASSUME NEW t \in Tx \ Requests, TopUp(t)
      PROVE  StoreNext
  BY <1>1 DEF TopUp, CreditStep, StoreNext
<1>2. ASSUME NEW t \in Tx \ Requests, TopUpEnds(t)
      PROVE  StoreNext
  BY <1>2 DEF TopUpEnds, StoreNext
<1>3. ASSUME NEW u \in Users, NEW reset \in BOOLEAN, AdminPatch(u, reset)
      PROVE  StoreNext
  <2>1. offer[u] \in Caps \cup {NoCap}
    BY DEF ChargeInv, MiddlewareTypes
  <2>2. QED
    BY <1>3, <2>1 DEF AdminPatch, AdminStep, StoreNext
<1>4. ASSUME NEW u \in Users, AdminDelete(u)
      PROVE  StoreNext
  BY <1>4 DEF AdminDelete, AdminStep, StoreNext
<1>5. ASSUME NEW r \in Requests, NEW u \in Users, NEW s \in Sessions, NEW inWindow \in BOOLEAN,
             Arrive(r, u, s, inWindow)
      PROVE  UNCHANGED storeVars
  BY <1>5 DEF Arrive
<1>6. ASSUME NEW u \in Users, NEW c \in Caps, CheckCapAgainstWallet(u, c)
      PROVE  UNCHANGED storeVars
  BY <1>6 DEF CheckCapAgainstWallet
<1>7. QED
  BY <1>1, <1>2, <1>3, <1>4, <1>5, <1>6, HandleMaps DEF ChargeNext

---------------------------------------------------------------------------
(* The inductive invariant holds of every request in every reachable state.*)
THEOREM ChargeInvariant == ChargeSpec => []ChargeInv
<1>1. ChargeInit => ChargeInv
  BY InitCharge
<1>2. QED
  BY <1>1, NextCharge, PTL DEF ChargeSpec

(* Seen from the wallet, requests, PATCHes, deletions and credits in any   *)
(* number are a behaviour of the store: the store's theorems hold here.    *)
THEOREM ChargeUsesStoreHolds == ChargeSpec => ChargeUsesStore
<1>1. ChargeInit => StoreInit
  BY DEF ChargeInit
<1>2. QED
  BY <1>1, ChargeStepMaps, ChargeInvariant, PTL DEF ChargeSpec, StoreSpec, ChargeUsesStore

(* Every variable of middleware and store keeps its type.                  *)
THEOREM ChargeTypeCorrect == ChargeSpec => []ChargeTypeOK
<1>1. ChargeInv /\ StoreTypeOK => ChargeTypeOK
  BY StoreAssumption DEF ChargeInv, MiddlewareTypes, ChargeTypeOK
<1>2. QED
  BY <1>1, ChargeInvariant, ChargeUsesStoreHolds, TypeCorrect, PTL DEF ChargeUsesStore

(* Lookups, PATCHes, deletions and lost answers in any number keep each    *)
(* operator's counter at what the operator was charged, unless a cap is    *)
(* cleared under a debit that has just found it exceeded.                  *)
THEOREM ChargePurseTruthful == ChargeSpec => []PurseTruthful
<1>1. StoreSpec => []PurseTruthful
  BY PurseTruthfulHolds
<1>2. QED
  BY <1>1, ChargeUsesStoreHolds DEF ChargeUsesStore

(* Nobody is charged for a lookup without a liveness pass on record.       *)
THEOREM NoChargeWithoutPassHolds == ChargeSpec => []NoChargeWithoutPass
<1>1. ChargeInv => NoChargeWithoutPass
  BY DEF ChargeInv, MiddlewareTypes, Progress, NoChargeWithoutPass
<1>2. QED
  BY <1>1, ChargeInvariant, PTL

(* The answer never denies a charge that was made, nor reports one that    *)
(* was not.                                                                *)
THEOREM ReplyTellsChargeHolds == ChargeSpec => []ReplyTellsCharge
<1>1. ChargeInv => ReplyTellsCharge
  BY DEF ChargeInv, Progress, ReplyTellsCharge
<1>2. QED
  BY <1>1, ChargeInvariant, PTL

---------------------------------------------------------------------------
(* WalletTopUp: the inductive invariant of the handlers' own variables     *)

PaymentTypes ==
  /\ order \in [Orders -> {"none", "issued", "orphan", "created", "verified"}]
  /\ checkout \subseteq Orders
  /\ captured \in [Payments -> Orders \cup {NoOrder}]
  /\ call \in [Tx -> Calls]
  /\ acked \subseteq Payments
  /\ confirmed \subseteq Payments
  /\ faults \in 0..MaxFaults

(* An order id leaves the portal, and a payment is captured for it, only   *)
(* once its row is there.                                                  *)
RowsFirst == CapturedHasOrder /\ \A k \in checkout : OrderRow(k)

(* A call under way is about a captured payment; while it credits, its     *)
(* transaction carries that payment's order; past the credit, the payment  *)
(* is on the books.                                                        *)
CallOf(h) ==
  /\ call[h].step # "idle" =>
       /\ Pay(h) \in Payments
       /\ Ord(h) \in Orders
       /\ Browser(h) => call[h].caller \in Users
  /\ call[h].step # "crediting" => pc[h] = "idle"
  /\ call[h].step = "crediting" =>
       /\ pc[h] = "ready"
       /\ org[h] = OrderOrg(Ord(h))
       /\ row[h].payment = Pay(h)
       /\ row[h].amount = OrderAmount[Ord(h)]
  /\ call[h].step \in {"mark", "reply"} => Recorded(Pay(h))

TopUpInv ==
  /\ PaymentTypes
  /\ RowsFirst
  /\ \A h \in Tx : CallOf(h)
  /\ AckedIsCredited
  /\ VerifiedIsCredited
  /\ DepositMatchesOrder

LEMMA InitTopUp == TopUpInit => TopUpInv
<1> SUFFICES ASSUME TopUpInit PROVE TopUpInv
  OBVIOUS
<1>1. PaymentTypes
  BY TopUpAssumption DEF TopUpInit, PaymentTypes, Calls, Idle, Steps
<1>2. \A h \in Tx : CallOf(h)
  BY DEF TopUpInit, StoreInit, CallOf, Idle
<1>3. RowsFirst /\ AckedIsCredited /\ VerifiedIsCredited
  BY TopUpAssumption DEF TopUpInit, RowsFirst, CapturedHasOrder, AckedIsCredited, VerifiedIsCredited
<1>4. DepositMatchesOrder
  BY EmptySeq DEF TopUpInit, StoreInit, DepositMatchesOrder
<1>5. QED
  BY <1>1, <1>2, <1>3, <1>4 DEF TopUpInv

---------------------------------------------------------------------------
(* Every step of the handlers is a step of the store, or none of it        *)

LEMMA HandlerMaps ==
  ASSUME TopUpInv, NEW h \in Tx, HandlerStep(h) \/ CreditFails(h) \/ Crash(h)
  PROVE  [StoreNext]_storeVars
<1>1. CallOf(h)
  BY DEF TopUpInv
<1>2. ASSUME call[h].step = "credit"
      PROVE  /\ Pay(h) \in Payments
             /\ OrderOrg(Ord(h)) \in Orgs /\ OrderAmount[Ord(h)] \in Amounts
             /\ Actor(h) \in Users
  BY <1>1, <1>2, TopUpAssumption DEF CallOf, OrderOrg, Actor
<1>3. CASE StartCredit(h) \/ CreditRejected(h)
  <2>1. CreditStep(h)
    BY <1>2, <1>3 DEF StartCredit, CreditRejected, CreditStep
  <2>2. QED
    BY <2>1 DEF StoreNext
<1>4. CASE CreditCommits(h) \/ CreditFails(h)
  BY <1>4 DEF CreditCommits, CreditFails, CloseStep, StoreNext
<1>5. CASE Crash(h)
  BY <1>5 DEF Crash, CloseStep, StoreNext
<1>6. CASE FindPayment(h) \/ FindOrder(h) \/ FindAgain(h) \/ MarkOrderVerified(h) \/ Reply(h)
  BY <1>6 DEF FindPayment, FindOrder, FindAgain, MarkOrderVerified, Reply
<1>7. QED
  BY <1>3, <1>4, <1>5, <1>6 DEF HandlerStep

LEMMA TopUpStepMaps == TopUpInv /\ [TopUpNext]_topUpVars => [StoreNext]_storeVars
<1> SUFFICES ASSUME TopUpInv, [TopUpNext]_topUpVars PROVE [StoreNext]_storeVars
  OBVIOUS
<1>1. ASSUME NEW k \in Orders, IssueOrder(k) \/ SaveOrder(k) \/ OrphanOrder(k) \/ OpenCheckout(k)
      PROVE  UNCHANGED storeVars
  BY <1>1 DEF IssueOrder, SaveOrder, OrphanOrder, OpenCheckout
<1>2. ASSUME NEW p \in Payments, NEW k \in Orders, Capture(p, k)
      PROVE  UNCHANGED storeVars
  BY <1>2 DEF Capture
<1>3. ASSUME NEW h \in Tx, NEW p \in Payments, DeliverWebhook(h, p)
      PROVE  UNCHANGED storeVars
  BY <1>3 DEF DeliverWebhook
<1>4. ASSUME NEW h \in Tx, NEW p \in Payments, NEW u \in Users, VerifyPayment(h, p, u)
      PROVE  UNCHANGED storeVars
  BY <1>4 DEF VerifyPayment
<1>5. ASSUME NEW u \in Users, DeleteAdmin(u)
      PROVE  StoreNext
  BY <1>5 DEF DeleteAdmin, AdminStep, StoreNext
<1>6. QED
  BY <1>1, <1>2, <1>3, <1>4, <1>5, HandlerMaps DEF TopUpNext

---------------------------------------------------------------------------
(* What the books say stays on the books                                   *)

LEMMA RecordedStays ==
  ASSUME StoreInv, [StoreNext]_storeVars, NEW p, Recorded(p)
  PROVE  Recorded(p)'
<1>1. PICK o \in Orgs : \E i \in 1..Len(ledger[o]) : ledger[o][i].payment = p
  BY DEF Recorded
<1>2. PICK i \in 1..Len(ledger[o]) : ledger[o][i].payment = p
  BY <1>1
<1>3. /\ ledger[o] \in Seq(Row) /\ ledger'[o] \in Seq(Row)
      /\ Len(ledger[o]) \in Nat /\ Len(ledger'[o]) \in Nat
  <2>1. ledger[o] \in Seq(Row) /\ ledger'[o] \in Seq(Row)
    BY NextInv DEF StoreInv, StoreTypeOK
  <2>2. QED
    BY <2>1, LenProperties
<1>4. i \in 1..Len(ledger'[o])
  BY <1>3, LedgerStep
<1>5. ledger'[o][i].payment = p
  <2>1. ledger[o][i] \in Row
    BY <1>3, ElementOfSeq
  <2>2. \/ ledger'[o][i] = ledger[o][i]
        \/ ledger'[o][i] = [ledger[o][i] EXCEPT !.actor = NoUser]
    BY LedgerStep
  <2>3. QED
    BY <1>2, <2>1, <2>2 DEF Row
<1>6. QED
  BY <1>4, <1>5 DEF Recorded

(* So whatever was said of it stays true, while nothing new is said.       *)
LEMMA ToldStays ==
  ASSUME StoreInv, TopUpInv, [StoreNext]_storeVars,
         UNCHANGED <<order, checkout, captured, acked, confirmed>>
  PROVE  RowsFirst' /\ AckedIsCredited' /\ VerifiedIsCredited'
<1>1. RowsFirst'
  BY DEF TopUpInv, RowsFirst, CapturedHasOrder, OrderRow
<1>2. AckedIsCredited'
  BY RecordedStays DEF TopUpInv, AckedIsCredited
<1>3. VerifiedIsCredited'
  BY RecordedStays DEF TopUpInv, VerifiedIsCredited
<1>4. QED
  BY <1>1, <1>2, <1>3

LEMMA DepositsStay ==
  ASSUME TopUpInv, UNCHANGED <<ledger, captured>>
  PROVE  DepositMatchesOrder'
  BY DEF TopUpInv, DepositMatchesOrder

(* The credit of a call lands on the books as its order says.              *)
LEMMA CommitCredits ==
  ASSUME StoreInv, TopUpInv, NEW h \in Tx, NEW result \in {"ok", "error"},
         call[h].step = "crediting", Commit(h, result), UNCHANGED captured,
         NEW p, p = Pay(h)
  PROVE  DepositMatchesOrder' /\ Recorded(p)'
<1> DEFINE o == org[h]
           n == Len(ledger[o])
<1>1. /\ p \in Payments /\ captured[p] \in Orders
      /\ o = OrderOrg(captured[p]) /\ o \in Orgs
      /\ row[h] \in Row /\ row[h].payment = p /\ row[h].amount = OrderAmount[captured[p]]
  <2>1. CallOf(h)
    BY DEF TopUpInv
  <2>2. QED
    BY <2>1, TopUpAssumption DEF CallOf, Ord, OrderOrg, StoreInv, StoreTypeOK
<1>2. /\ ledger'[o] = Append(ledger[o], row[h])
      /\ \A o2 \in Orgs \ {o} : ledger'[o2] = ledger[o2]
      /\ ledger[o] \in Seq(Row)
  BY <1>1 DEF Commit, StoreInv, StoreTypeOK
<1>3. /\ n \in Nat /\ Len(ledger'[o]) = n + 1
      /\ \A i \in 1..n : ledger'[o][i] = ledger[o][i]
      /\ ledger'[o][n + 1] = row[h]
  BY <1>1, <1>2, AppendProperties, LenProperties
<1>4. Recorded(p)'
  BY <1>1, <1>3 DEF Recorded
<1>5. ASSUME NEW o2 \in Orgs, NEW i \in 1..Len(ledger'[o2]), ledger'[o2][i].payment # NoPayment
      PROVE  /\ captured'[ledger'[o2][i].payment] \in Orders
             /\ o2 = OrderOrg(captured'[ledger'[o2][i].payment])
             /\ ledger'[o2][i].amount = OrderAmount[captured'[ledger'[o2][i].payment]]
  <2>1. CASE o2 = o /\ i = n + 1
    BY <1>1, <1>3, <2>1
  <2>2. CASE ~(o2 = o /\ i = n + 1)
    <3>1. ASSUME o2 = o
          PROVE  i \in 1..n /\ ledger'[o2][i] = ledger[o2][i]
      <4>1. i \in 1..n + 1 /\ i # n + 1
        BY <1>3, <1>5, <2>2, <3>1
      <4>2. i \in 1..n
        BY <1>3, <4>1
      <4>3. QED
        BY <1>3, <3>1, <4>2
    <3>2. ASSUME o2 # o
          PROVE  i \in 1..Len(ledger[o2]) /\ ledger'[o2][i] = ledger[o2][i]
      BY <1>2, <1>5, <3>2
    <3>3. i \in 1..Len(ledger[o2]) /\ ledger'[o2][i] = ledger[o2][i]
      BY <3>1, <3>2
    <3>4. QED
      BY <1>5, <3>3 DEF TopUpInv, DepositMatchesOrder
  <2>3. QED
    BY <2>1, <2>2
<1>6. DepositMatchesOrder'
  BY <1>5 DEF DepositMatchesOrder, OrderOrg
<1>7. QED
  BY <1>4, <1>6

---------------------------------------------------------------------------
(* A step of one call                                                      *)

LEMMA GotoMoves ==
  ASSUME PaymentTypes, NEW h \in Tx, NEW step \in Steps, Goto(h, step)
  PROVE  /\ call' \in [Tx -> Calls]
         /\ call'[h].step = step /\ call'[h].by = call[h].by
         /\ call'[h].payment = call[h].payment /\ call'[h].caller = call[h].caller
         /\ \A q \in Tx \ {h} : call'[q] = call[q]
  BY DEF PaymentTypes, Goto, Calls

LEMMA HangUpMoves ==
  ASSUME PaymentTypes, NEW h \in Tx, HangUp(h)
  PROVE  /\ call' \in [Tx -> Calls]
         /\ call'[h].step = "idle"
         /\ \A q \in Tx \ {h} : call'[q] = call[q]
  BY DEF PaymentTypes, HangUp, Idle, Calls, Steps

(* The other calls do not notice what one call does.                       *)
LEMMA OtherCallsKeep ==
  ASSUME StoreInv, TopUpInv, [StoreNext]_storeVars, NEW h \in Tx,
         \A q \in Tx \ {h} : /\ call'[q] = call[q] /\ pc'[q] = pc[q]
                             /\ org'[q] = org[q] /\ row'[q] = row[q],
         PaymentTypes', RowsFirst', AckedIsCredited', VerifiedIsCredited', DepositMatchesOrder',
         UNCHANGED captured, CallOf(h)'
  PROVE  TopUpInv'
<1>1. ASSUME NEW q \in Tx \ {h}
      PROVE  CallOf(q)'
  <2>1. CallOf(q)
    BY DEF TopUpInv
  <2>2. Recorded(Pay(q)) => Recorded(Pay(q))'
    <3>1. ASSUME NEW p, p = call[q].payment, Recorded(p)
          PROVE  Recorded(p)'
      BY <3>1, RecordedStays
    <3>2. QED
      BY <3>1 DEF Pay, Recorded
  <2>3. QED
    BY <2>1, <2>2 DEF CallOf, Pay, Ord, Browser, OrderOrg
<1>2. QED
  BY <1>1 DEF TopUpInv

(* A call that moves on, or ends, without touching the wallet.             *)
LEMMA ReadKeeps ==
  ASSUME StoreInv, TopUpInv, NEW h \in Tx,
         call[h].step \in {"find", "order", "refind"}, UNCHANGED <<storeVars, faults>>, TopUpKept,
         \/ HangUp(h)
         \/ \E step \in Steps : Goto(h, step) /\ step \notin {"crediting", "mark", "reply"}
         \/ Goto(h, "reply") /\ Recorded(Pay(h))
  PROVE  TopUpInv'
<1> USE DEF TopUpKept
<1>1. CallOf(h) /\ PaymentTypes
  BY DEF TopUpInv
<1>2. RowsFirst' /\ AckedIsCredited' /\ VerifiedIsCredited' /\ DepositMatchesOrder'
  BY ToldStays, DepositsStay
<1>3. CASE HangUp(h)
  BY <1>1, <1>2, <1>3, HangUpMoves, OtherCallsKeep DEF CallOf, PaymentTypes
<1>4. ASSUME NEW step \in Steps, Goto(h, step), step \notin {"crediting", "mark", "reply"}
      PROVE  TopUpInv'
  BY <1>1, <1>2, <1>4, GotoMoves, OtherCallsKeep DEF CallOf, PaymentTypes, Pay, Ord, Browser
<1>5. CASE Goto(h, "reply") /\ Recorded(Pay(h))
  <2>1. Recorded(Pay(h))'
    BY <1>1, <1>5, GotoMoves DEF Recorded, Pay, Steps
  <2>2. QED
    BY <1>1, <1>2, <1>5, <2>1, GotoMoves, OtherCallsKeep DEF CallOf, PaymentTypes, Pay, Ord, Browser, Steps
<1>6. QED
  BY <1>3, <1>4, <1>5

(* A credit that opens its transaction, and one that is turned down.       *)
LEMMA CreditOpensKeeps ==
  ASSUME StoreInv, TopUpInv, NEW h \in Tx, StartCredit(h) \/ CreditRejected(h)
  PROVE  TopUpInv'
<1> USE DEF TopUpKept
<1>1. CallOf(h) /\ PaymentTypes
  BY DEF TopUpInv
<1>2. [StoreNext]_storeVars
  BY HandlerMaps DEF HandlerStep
<1>3. UNCHANGED <<ledger, paymentVars>> \/ UNCHANGED <<ledger, order, checkout, captured, acked, confirmed, faults>>
  BY DEF StartCredit, CreditRejected, CreditWallet, CreditDuplicate, CreditActorGone, Return
<1>4. RowsFirst' /\ AckedIsCredited' /\ VerifiedIsCredited' /\ DepositMatchesOrder'
  BY <1>2, <1>3, ToldStays, DepositsStay
<1>5. CASE StartCredit(h)
  <2>1. Goto(h, "crediting") /\ "crediting" \in Steps
    BY <1>5 DEF StartCredit, Steps
  <2>2. /\ pc'[h] = "ready" /\ org'[h] = OrderOrg(Ord(h))
        /\ row'[h].payment = Pay(h) /\ row'[h].amount = OrderAmount[Ord(h)]
        /\ \A q \in Tx \ {h} : pc'[q] = pc[q] /\ org'[q] = org[q] /\ row'[q] = row[q]
    BY <1>5 DEF StartCredit, CreditWallet, Insert, StoreInv, StoreTypeOK
  <2>3. CallOf(h)'
    BY <1>1, <1>3, <1>5, <2>1, <2>2, GotoMoves
    DEF StartCredit, CallOf, PaymentTypes, Pay, Ord, Browser, OrderOrg
  <2>4. PaymentTypes'
    BY <1>1, <1>3, <2>1, GotoMoves DEF PaymentTypes
  <2>5. QED
    BY <1>2, <1>3, <1>4, <2>1, <2>2, <2>3, <2>4, <1>1, GotoMoves, OtherCallsKeep
<1>6. CASE CreditRejected(h)
  <2>1. /\ Goto(h, "refind") /\ "refind" \in Steps
        /\ UNCHANGED <<pc, org, row>>
    BY <1>6 DEF CreditRejected, CreditDuplicate, CreditActorGone, Return, Steps
  <2>2. CallOf(h)'
    BY <1>1, <1>3, <1>6, <2>1, GotoMoves DEF CreditRejected, CallOf, PaymentTypes, Pay, Ord, Browser
  <2>3. PaymentTypes'
    BY <1>1, <1>3, <2>1, GotoMoves DEF PaymentTypes
  <2>4. QED
    BY <1>2, <1>3, <1>4, <2>1, <2>2, <2>3, <1>1, GotoMoves, OtherCallsKeep
<1>7. QED
  BY <1>5, <1>6

(* A credit that takes effect, whether or not the call hears of it.        *)
LEMMA CommitKeepsCalls ==
  ASSUME StoreInv, TopUpInv, NEW h \in Tx, NEW result \in {"ok", "error"},
         call[h].step = "crediting", Commit(h, result), TopUpKept, faults' \in 0..MaxFaults,
         NEW step \in {"mark", "refind"}, Goto(h, step)
  PROVE  TopUpInv'
<1> USE DEF TopUpKept
<1>1. CallOf(h) /\ PaymentTypes /\ step \in Steps
  BY DEF TopUpInv, Steps
<1>2. [StoreNext]_storeVars
  BY DEF CloseStep, StoreNext
<1>3. RowsFirst' /\ AckedIsCredited' /\ VerifiedIsCredited'
  BY <1>2, ToldStays
<1>4. ASSUME NEW p, p = Pay(h)
      PROVE  DepositMatchesOrder' /\ Recorded(p)'
  BY <1>4, CommitCredits
<1>5. DepositMatchesOrder' /\ Recorded(Pay(h))'
  BY <1>1, <1>4, GotoMoves DEF Recorded, Pay
<1>6. /\ pc'[h] = "idle"
      /\ \A q \in Tx \ {h} : row'[q] = row[q] /\ org'[q] = org[q] /\ pc'[q] = pc[q]
  BY ReleaseFrees DEF Commit, Outcomes
<1>7. CallOf(h)'
  BY <1>1, <1>5, <1>6, GotoMoves DEF CallOf, Pay, Ord, Browser
<1>8. PaymentTypes'
  BY <1>1, GotoMoves DEF PaymentTypes
<1>9. QED
  BY <1>1, <1>2, <1>3, <1>5, <1>6, <1>7, <1>8, GotoMoves, OtherCallsKeep

(* A credit that is rolled back, and a call that ends anywhere.            *)
LEMMA InterruptKeeps ==
  ASSUME StoreInv, TopUpInv, NEW h \in Tx,
         \/ pc[h] = "idle" /\ UNCHANGED storeVars
         \/ Abort(h),
         Interrupt, TopUpKept,
         \/ HangUp(h)
         \/ Abort(h) /\ Goto(h, "refind") /\ call[h].step # "idle"
  PROVE  TopUpInv'
<1> USE DEF TopUpKept
<1>1. CallOf(h) /\ PaymentTypes /\ "refind" \in Steps
  BY DEF TopUpInv, Steps
<1>2. [StoreNext]_storeVars /\ UNCHANGED ledger
  BY DEF CloseStep, StoreNext, Abort, Undo
<1>3. RowsFirst' /\ AckedIsCredited' /\ VerifiedIsCredited' /\ DepositMatchesOrder'
  BY <1>2, ToldStays, DepositsStay
<1>4. /\ pc'[h] = "idle"
      /\ \A q \in Tx \ {h} : row'[q] = row[q] /\ org'[q] = org[q] /\ pc'[q] = pc[q]
  BY ReleaseFrees DEF Abort, Undo, Outcomes
<1>5. faults' \in 0..MaxFaults
  BY <1>1, TopUpAssumption DEF Interrupt, PaymentTypes
<1>6. CallOf(h)'
  BY <1>1, <1>4, GotoMoves, HangUpMoves DEF CallOf, Pay, Ord, Browser
<1>7. PaymentTypes'
  BY <1>1, <1>5, GotoMoves, HangUpMoves DEF PaymentTypes
<1>8. QED
  BY <1>1, <1>2, <1>3, <1>4, <1>6, <1>7, GotoMoves, HangUpMoves, OtherCallsKeep

(* MarkOrderVerified, which comes only after the credit.                   *)
LEMMA MarkKeeps ==
  ASSUME StoreInv, TopUpInv, NEW h \in Tx, MarkOrderVerified(h)
  PROVE  TopUpInv'
<1>1. CallOf(h) /\ PaymentTypes /\ call[h].step = "mark" /\ "reply" \in Steps /\ Goto(h, "reply")
  BY DEF TopUpInv, MarkOrderVerified, Steps
<1>2. Ord(h) \in Orders /\ Pay(h) \in Payments /\ Recorded(Pay(h))
  BY <1>1 DEF CallOf
<1>3. UNCHANGED <<storeVars, checkout, captured, acked, confirmed, faults>>
  BY DEF MarkOrderVerified
<1>4. /\ order' \in [Orders -> {"none", "issued", "orphan", "created", "verified"}]
      /\ \A k \in Orders : order'[k] = order[k] \/ (order[k] = "created" /\ k = Ord(h) /\ order'[k] = "verified")
  BY <1>1, <1>2 DEF MarkOrderVerified, PaymentTypes
<1>5. RowsFirst'
  BY <1>1, <1>3, <1>4 DEF TopUpInv, PaymentTypes, RowsFirst, CapturedHasOrder, OrderRow
<1>6. AckedIsCredited' /\ DepositMatchesOrder'
  BY <1>3, DepositsStay DEF TopUpInv, AckedIsCredited, Recorded
<1>7. VerifiedIsCredited'
  BY <1>2, <1>3, <1>4 DEF TopUpInv, VerifiedIsCredited, Recorded, Ord
<1>8. CallOf(h)'
  BY <1>1, <1>3, GotoMoves DEF CallOf, Pay, Ord, Browser, Recorded
<1>9. PaymentTypes'
  BY <1>1, <1>3, <1>4, GotoMoves DEF PaymentTypes
<1>10. QED
  BY <1>1, <1>3, <1>5, <1>6, <1>7, <1>8, <1>9, GotoMoves, OtherCallsKeep

(* The 2xx, which is given only for what is on the books.                  *)
LEMMA ReplyKeeps ==
  ASSUME StoreInv, TopUpInv, NEW h \in Tx, Reply(h)
  PROVE  TopUpInv'
<1>1. CallOf(h) /\ PaymentTypes /\ call[h].step = "reply" /\ HangUp(h)
  BY DEF TopUpInv, Reply
<1>2. Pay(h) \in Payments /\ Recorded(Pay(h)) /\ pc[h] = "idle"
  BY <1>1 DEF CallOf
<1>3. /\ UNCHANGED <<storeVars, order, checkout, captured, faults>>
      /\ acked' \subseteq acked \cup {Pay(h)} /\ confirmed' \subseteq confirmed \cup {Pay(h)}
  BY DEF Reply
<1>4. RowsFirst' /\ VerifiedIsCredited' /\ DepositMatchesOrder'
  BY <1>3, DepositsStay
  DEF TopUpInv, RowsFirst, CapturedHasOrder, OrderRow, VerifiedIsCredited, Recorded
<1>5. AckedIsCredited'
  <2>1. \A p \in acked' \cup confirmed' : Recorded(p)
    BY <1>2, <1>3 DEF TopUpInv, AckedIsCredited
  <2>2. QED
    BY <1>3, <2>1 DEF AckedIsCredited, Recorded
<1>6. CallOf(h)'
  BY <1>1, <1>2, <1>3, HangUpMoves DEF CallOf
<1>7. PaymentTypes'
  BY <1>1, <1>2, <1>3, HangUpMoves DEF PaymentTypes
<1>8. QED
  BY <1>1, <1>3, <1>4, <1>5, <1>6, <1>7, HangUpMoves, OtherCallsKeep

LEMMA HandlerKeeps ==
  ASSUME StoreInv, TopUpInv, NEW h \in Tx, HandlerStep(h) \/ CreditFails(h) \/ Crash(h)
  PROVE  TopUpInv'
<1>1. CASE FindPayment(h)
  BY <1>1, ReadKeeps DEF FindPayment, Steps, Pay
<1>2. CASE FindOrder(h)
  BY <1>2, ReadKeeps DEF FindOrder, Steps
<1>3. CASE FindAgain(h)
  <2>1. (\E o \in Orgs : RecordedFor(Pay(h), o) /\ Entitled(h, o)) => Recorded(Pay(h))
    BY DEF RecordedFor, Recorded
  <2>2. QED
    BY <1>3, <2>1, ReadKeeps DEF FindAgain
<1>4. CASE StartCredit(h) \/ CreditRejected(h)
  BY <1>4, CreditOpensKeeps
<1>5. faults \in 0..MaxFaults /\ MaxFaults \in Nat
  BY TopUpAssumption DEF TopUpInv, PaymentTypes
<1>6. CASE CreditCommits(h)
  BY <1>5, <1>6, CommitKeepsCalls DEF CreditCommits
<1>7. CASE CreditFails(h)
  <2>1. CASE Abort(h)
    BY <1>7, <2>1, InterruptKeeps DEF CreditFails
  <2>2. CASE Commit(h, "error")
    BY <1>5, <1>7, <2>2, CommitKeepsCalls DEF CreditFails, Interrupt
  <2>3. QED
    BY <1>7, <2>1, <2>2 DEF CreditFails
<1>8. CASE Crash(h)
  <2>1. CASE pc[h] = "idle"
    BY <1>8, <2>1, InterruptKeeps DEF Crash
  <2>2. CASE pc[h] # "idle"
    BY <1>8, <2>2, InterruptKeeps DEF Crash
  <2>3. QED
    BY <2>1, <2>2
<1>9. QED
  BY <1>1, <1>2, <1>3, <1>4, <1>6, <1>7, <1>8, MarkKeeps, ReplyKeeps DEF HandlerStep

---------------------------------------------------------------------------
(* The steps of orders, gateway and admin                                  *)

(* No step of these touches a call, or what was said of the books.         *)
LEMMA OrderKeeps ==
  ASSUME StoreInv, TopUpInv, NEW k \in Orders,
         IssueOrder(k) \/ SaveOrder(k) \/ OrphanOrder(k) \/ OpenCheckout(k)
  PROVE  TopUpInv'
<1>1. /\ UNCHANGED <<storeVars, captured, call, acked, confirmed, faults>>
      /\ order' \in [Orders -> {"none", "issued", "orphan", "created", "verified"}]
      /\ checkout' \subseteq Orders
      /\ \A j \in Orders : OrderRow(j) => order'[j] = order[j]
      /\ \A j \in Orders : order'[j] = "verified" => order[j] = "verified"
      /\ \A j \in checkout' : j \in checkout \/ OrderRow(j)
  BY DEF IssueOrder, SaveOrder, OrphanOrder, OpenCheckout, SetOrder, OrderRow, TopUpInv, PaymentTypes
<1>2. PaymentTypes'
  BY <1>1 DEF TopUpInv, PaymentTypes
<1>3. RowsFirst'
  BY <1>1 DEF TopUpInv, RowsFirst, CapturedHasOrder, OrderRow, PaymentTypes
<1>4. AckedIsCredited' /\ DepositMatchesOrder' /\ VerifiedIsCredited'
  BY <1>1, DepositsStay DEF TopUpInv, AckedIsCredited, VerifiedIsCredited, Recorded
<1>5. \A h \in Tx : CallOf(h)'
  BY <1>1 DEF TopUpInv, CallOf, Pay, Ord, Browser, Recorded
<1>6. QED
  BY <1>2, <1>3, <1>4, <1>5 DEF TopUpInv

(* A payment is captured once; until then nothing in the system names it.  *)
LEMMA CaptureKeeps ==
  ASSUME StoreInv, TopUpInv, NEW p \in Payments, NEW k \in Orders, Capture(p, k)
  PROVE  TopUpInv'
<1>1. /\ UNCHANGED <<storeVars, order, checkout, call, acked, confirmed, faults>>
      /\ captured' \in [Payments -> Orders \cup {NoOrder}]
      /\ captured'[p] = k /\ k \in checkout
      /\ \A q \in Payments \ {p} : captured'[q] = captured[q]
      /\ captured[p] \notin Orders
  BY TopUpAssumption DEF Capture, TopUpInv, PaymentTypes
<1>2. PaymentTypes' /\ RowsFirst'
  BY <1>1 DEF TopUpInv, PaymentTypes, RowsFirst, CapturedHasOrder, OrderRow
<1>3. AckedIsCredited' /\ VerifiedIsCredited'
  <2>1. AckedIsCredited'
    BY <1>1 DEF TopUpInv, AckedIsCredited, Recorded
  <2>2. ASSUME NEW j \in Orders, order[j] = "verified"
        PROVE  \E q \in Payments : captured'[q] = j /\ Recorded(q)
    BY <1>1, <2>2 DEF TopUpInv, VerifiedIsCredited
  <2>3. VerifiedIsCredited'
    BY <1>1, <2>2 DEF VerifiedIsCredited, Recorded
  <2>4. QED
    BY <2>1, <2>3
<1>4. DepositMatchesOrder'
  <2>1. ASSUME NEW o \in Orgs, NEW i \in 1..Len(ledger[o]), ledger[o][i].payment # NoPayment
        PROVE  captured'[ledger[o][i].payment] = captured[ledger[o][i].payment]
    <3>1. captured[ledger[o][i].payment] \in Orders
      BY <2>1 DEF TopUpInv, DepositMatchesOrder
    <3>2. ledger[o][i] \in Row
      BY ElementOfSeq DEF StoreInv, StoreTypeOK
    <3>3. ledger[o][i].payment \in Payments
      BY <2>1, <3>2 DEF Row
    <3>4. QED
      BY <1>1, <3>1, <3>3
  <2>2. QED
    BY <1>1, <2>1 DEF TopUpInv, DepositMatchesOrder, OrderOrg
<1>5. \A h \in Tx : CallOf(h)'
  BY <1>1 DEF TopUpInv, CallOf, Pay, Ord, Browser, Recorded, OrderOrg
<1>6. QED
  BY <1>2, <1>3, <1>4, <1>5 DEF TopUpInv

LEMMA StartKeeps ==
  ASSUME StoreInv, TopUpInv, NEW h \in Tx, NEW p \in Payments,
         \/ DeliverWebhook(h, p)
         \/ \E u \in Users : VerifyPayment(h, p, u)
  PROVE  TopUpInv'
<1>1. /\ UNCHANGED <<storeVars, order, checkout, captured, acked, confirmed, faults>>
      /\ captured[p] \in Orders /\ pc[h] = "idle"
      /\ call' \in [Tx -> Calls]
      /\ call'[h].step \in {"order", "find"} /\ call'[h].payment = p
      /\ call'[h].by = "browser" => call'[h].caller \in Users
      /\ \A q \in Tx \ {h} : call'[q] = call[q]
  BY DEF DeliverWebhook, VerifyPayment, TopUpInv, PaymentTypes, Calls, Steps
<1>2. RowsFirst' /\ AckedIsCredited' /\ VerifiedIsCredited' /\ DepositMatchesOrder'
  BY <1>1, ToldStays, DepositsStay
<1>3. CallOf(h)'
  BY <1>1 DEF CallOf, Pay, Ord, Browser
<1>4. PaymentTypes'
  BY <1>1 DEF TopUpInv, PaymentTypes
<1>5. QED
  BY <1>1, <1>2, <1>3, <1>4, OtherCallsKeep

(* Unlinking an admin leaves payments and amounts on the books.            *)
LEMMA DeletionKeeps ==
  ASSUME StoreInv, TopUpInv, NEW u \in Users, DeleteAdmin(u)
  PROVE  TopUpInv'
<1>1. DeleteUser(u) /\ UNCHANGED paymentVars /\ UNCHANGED <<pc, org, row>>
  BY DEF DeleteAdmin, DeleteUser
<1>2. [StoreNext]_storeVars
  BY <1>1 DEF AdminStep, StoreNext
<1>3. RowsFirst' /\ AckedIsCredited' /\ VerifiedIsCredited'
  BY <1>1, <1>2, ToldStays
<1>4. \A o \in Orgs :
        /\ Len(ledger'[o]) = Len(ledger[o])
        /\ \A i \in 1..Len(ledger[o]) :
             /\ ledger'[o][i].payment = ledger[o][i].payment
             /\ ledger'[o][i].amount = ledger[o][i].amount
  <2>1. \A o \in Orgs : ledger[o] \in Seq(Row) /\ ledger'[o] = Unlinked(ledger[o], u)
    BY <1>1 DEF DeleteUser, StoreInv, StoreTypeOK
  <2>2. QED
    BY <2>1, UnlinkedRows
<1>5. DepositMatchesOrder'
  BY <1>1, <1>4 DEF TopUpInv, DepositMatchesOrder
<1>6. ASSUME NEW h \in Tx
      PROVE  CallOf(h)'
  <2>1. Recorded(Pay(h)) => Recorded(Pay(h))'
    BY <1>1, <1>4 DEF Recorded, Pay
  <2>2. QED
    BY <1>1, <2>1 DEF TopUpInv, CallOf, Pay, Ord, Browser
<1>7. PaymentTypes'
  BY <1>1 DEF TopUpInv, PaymentTypes
<1>8. QED
  BY <1>3, <1>5, <1>6, <1>7 DEF TopUpInv

LEMMA NextTopUp == StoreInv /\ TopUpInv /\ [TopUpNext]_topUpVars => TopUpInv'
<1> SUFFICES ASSUME StoreInv, TopUpInv, [TopUpNext]_topUpVars PROVE TopUpInv'
  OBVIOUS
<1>1. UNCHANGED topUpVars => TopUpInv'
  BY DEF TopUpInv, PaymentTypes, RowsFirst, CapturedHasOrder, OrderRow, CallOf, Pay, Ord, Browser,
         AckedIsCredited, VerifiedIsCredited, DepositMatchesOrder, Recorded
<1>2. QED
  BY <1>1, OrderKeeps, CaptureKeeps, StartKeeps, HandlerKeeps, DeletionKeeps DEF TopUpNext

---------------------------------------------------------------------------
(* Seen from the wallet, browsers and webhooks in any number are a         *)
(* behaviour of the store: the store's theorems hold here.                 *)
THEOREM TopUpUsesStoreHolds == TopUpSpec => TopUpUsesStore
<1>1. TopUpInit => StoreInit /\ TopUpInv /\ StoreInv
  BY InitTopUp, InitInv DEF TopUpInit
<1>2. StoreInv /\ TopUpInv /\ [TopUpNext]_topUpVars => StoreInv' /\ TopUpInv' /\ [StoreNext]_storeVars
  BY TopUpStepMaps, NextTopUp, NextInv
<1>3. QED
  BY <1>1, <1>2, PTL DEF TopUpSpec, StoreSpec, TopUpUsesStore

(* The inductive invariant holds of every call in every reachable state.   *)
THEOREM TopUpInvariant == TopUpSpec => []TopUpInv
<1>1. TopUpInit => TopUpInv
  BY InitTopUp
<1>2. QED
  BY <1>1, NextTopUp, TopUpUsesStoreHolds, StoreInvariant, PTL DEF TopUpSpec, TopUpUsesStore

(* Every variable of handlers, gateway and store keeps its type.           *)
THEOREM TopUpTypeCorrect == TopUpSpec => []TopUpTypeOK
<1>1. TopUpInv /\ StoreTypeOK => TopUpTypeOK
  BY DEF TopUpInv, PaymentTypes, TopUpTypeOK
<1>2. QED
  BY <1>1, TopUpInvariant, TopUpUsesStoreHolds, TypeCorrect, PTL DEF TopUpUsesStore

(* Every deposit is a captured payment at its order's amount, in its       *)
(* order's organisation.                                                   *)
THEOREM DepositMatchesOrderHolds == TopUpSpec => []DepositMatchesOrder
<1>1. TopUpInv => DepositMatchesOrder
  BY DEF TopUpInv
<1>2. QED
  BY <1>1, TopUpInvariant, PTL

(* Neither browser nor gateway is told of a credit that is not there.      *)
THEOREM AckedIsCreditedHolds == TopUpSpec => []AckedIsCredited
<1>1. TopUpInv => AckedIsCredited
  BY DEF TopUpInv
<1>2. QED
  BY <1>1, TopUpInvariant, PTL

(* A verified order has a credited payment.                                *)
THEOREM VerifiedIsCreditedHolds == TopUpSpec => []VerifiedIsCredited
<1>1. TopUpInv => VerifiedIsCredited
  BY DEF TopUpInv
<1>2. QED
  BY <1>1, TopUpInvariant, PTL

(* Money is captured only for orders the portal can find.                  *)
THEOREM CapturedHasOrderHolds == TopUpSpec => []CapturedHasOrder
<1>1. TopUpInv => CapturedHasOrder
  BY DEF TopUpInv, RowsFirst
<1>2. QED
  BY <1>1, TopUpInvariant, PTL

=============================================================================
