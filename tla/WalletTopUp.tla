---------------------------- MODULE WalletTopUp ----------------------------
(***************************************************************************)
(* Top-ups through the payment gateway, on top of WalletStore: the order   *)
(* handler, the browser's verify-payment call and the gateway's            *)
(* payment.captured webhook.  Browser and webhook report the same payment  *)
(* independently, each any number of times, in any order and at once; calls*)
(* are cut off at any point, and answers get lost.                         *)
(*                                                                         *)
(* A slot of Tx is one call of either handler at a time.  The gateway is   *)
(* external: it is modelled by what the two handlers rely on.              *)
(***************************************************************************)
EXTENDS WalletStore

CONSTANTS
  Orders,       \* order ids the gateway may issue
  AdminOrg,     \* [Users -> Orgs]: the admin's organisation
  OrderAdmin,   \* [Orders -> Users]: who asked for the order
  OrderAmount,  \* [Orders -> Amounts]
  NoOrder,      \* the order of a payment that was not captured
  MaxFaults     \* bound: interruptions of handler calls

ASSUME TopUpAssumption ==
  /\ AdminOrg \in [Users -> Orgs]
  /\ OrderAdmin \in [Orders -> Users]
  /\ OrderAmount \in [Orders -> Amounts]
  /\ NoOrder \notin Orders
  /\ MaxFaults \in Nat

VARIABLES
  order,      \* how far each order has come; a razorpay_orders row exists
              \* in "created" and "verified"
  checkout,   \* the orders whose id has reached a browser
  captured,   \* the gateway: the order each payment was captured for
  call,       \* the handler call in each slot
  acked,      \* the payments whose webhook got a 2xx the gateway has seen
  confirmed,  \* the payments a browser was told were credited
  faults      \* interruptions so far

paymentVars == <<order, checkout, captured, call, acked, confirmed, faults>>
topUpVars == <<storeVars, paymentVars>>

OrderOrg(k) == AdminOrg[OrderAdmin[k]]
OrderRow(k) == order[k] \in {"created", "verified"}

Steps == {"idle", "find", "order", "credit", "crediting", "refind", "mark", "reply"}

Idle == [step |-> "idle", by |-> "none", payment |-> NoPayment, caller |-> NoUser]

Calls ==
  [step: Steps, by: {"none", "browser", "webhook"},
   payment: Payments \cup {NoPayment}, caller: Users \cup {NoUser}]

TopUpTypeOK ==
  /\ StoreTypeOK
  /\ order \in [Orders -> {"none", "issued", "orphan", "created", "verified"}]
  /\ checkout \subseteq Orders
  /\ captured \in [Payments -> Orders \cup {NoOrder}]
  /\ call \in [Tx -> Calls]
  /\ acked \subseteq Payments
  /\ confirmed \subseteq Payments
  /\ faults \in 0..MaxFaults

TopUpInit ==
  /\ StoreInit
  /\ order = [k \in Orders |-> "none"]
  /\ checkout = {}
  /\ captured = [p \in Payments |-> NoOrder]
  /\ call = [h \in Tx |-> Idle]
  /\ acked = {}
  /\ confirmed = {}
  /\ faults = 0

---------------------------------------------------------------------------
(* POST /wallet/order                                                      *)

SetOrder(k, from, to) ==
  /\ order[k] = from
  /\ order' = [order EXCEPT ![k] = to]

(* The gateway issues the order before the portal has a row for it.        *)
IssueOrder(k) ==
  /\ OrderAdmin[k] \in live
  /\ SetOrder(k, "none", "issued")
  /\ UNCHANGED <<storeVars, checkout, captured, call, acked, confirmed, faults>>

SaveOrder(k) ==
  /\ OrderAdmin[k] \in live
  /\ SetOrder(k, "issued", "created")
  /\ UNCHANGED <<storeVars, checkout, captured, call, acked, confirmed, faults>>

(* The insert fails, or the server dies first: nobody learns the order id. *)
OrphanOrder(k) ==
  /\ SetOrder(k, "issued", "orphan")
  /\ UNCHANGED <<storeVars, checkout, captured, call, acked, confirmed, faults>>

OpenCheckout(k) ==
  /\ OrderRow(k)
  /\ checkout' = checkout \cup {k}
  /\ UNCHANGED <<storeVars, order, captured, call, acked, confirmed, faults>>

---------------------------------------------------------------------------
(* The gateway                                                             *)

(* The customer pays in the Checkout window and the gateway captures.      *)
Capture(p, k) ==
  /\ captured[p] = NoOrder
  /\ k \in checkout
  /\ captured' = [captured EXCEPT ![p] = k]
  /\ UNCHANGED <<storeVars, order, checkout, call, acked, confirmed, faults>>

(* It delivers the webhook until it has seen a 2xx.                        *)
DeliverWebhook(h, p) ==
  /\ call[h] = Idle /\ pc[h] = "idle"
  /\ captured[p] # NoOrder /\ p \notin acked
  /\ call' = [call EXCEPT ![h] =
       [step |-> "order", by |-> "webhook", payment |-> p, caller |-> NoUser]]
  /\ UNCHANGED <<storeVars, order, checkout, captured, acked, confirmed, faults>>

(* The browser posts the signed triple Checkout gave it, and may again.    *)
VerifyPayment(h, p, u) ==
  /\ call[h] = Idle /\ pc[h] = "idle"
  /\ captured[p] # NoOrder /\ u \in live
  /\ call' = [call EXCEPT ![h] =
       [step |-> "find", by |-> "browser", payment |-> p, caller |-> u]]
  /\ UNCHANGED <<storeVars, order, checkout, captured, acked, confirmed, faults>>

---------------------------------------------------------------------------
(* The two handlers                                                        *)

Pay(h) == call[h].payment
Browser(h) == call[h].by = "browser"

(* Mutant: the browser names the order, and no signature ties it to the    *)
(* payment.                                                                *)
OrdMutant(h) ==
  IF Browser(h) /\ \E k \in Orders : OrderRow(k) /\ OrderAdmin[k] = call[h].caller
  THEN CHOOSE k \in Orders : OrderRow(k) /\ OrderAdmin[k] = call[h].caller
  ELSE captured[Pay(h)]

Ord(h) == captured[Pay(h)]

(* Who the credit is booked to, and the organisations the caller may see.  *)
Actor(h) == IF Browser(h) THEN call[h].caller ELSE OrderAdmin[Ord(h)]
Entitled(h, o) == Browser(h) => AdminOrg[call[h].caller] = o
RecordedFor(p, o) == \E i \in 1..Len(ledger[o]) : ledger[o][i].payment = p

Goto(h, step) == call' = [call EXCEPT ![h].step = step]
HangUp(h) == call' = [call EXCEPT ![h] = Idle]
Interrupt == faults < MaxFaults /\ faults' = faults + 1
TopUpKept == UNCHANGED <<order, checkout, captured, acked, confirmed>>

(* FindByRazorpayPaymentID: already there means done, for its own org.     *)
FindPayment(h) ==
  /\ call[h].step = "find"
  /\ IF ~Recorded(Pay(h))
     THEN Goto(h, IF Browser(h) THEN "order" ELSE "credit")
     ELSE IF \E o \in Orgs : RecordedFor(Pay(h), o) /\ Entitled(h, o)
     THEN Goto(h, "reply") ELSE HangUp(h)
  /\ UNCHANGED <<storeVars, faults>> /\ TopUpKept

(* FindOrder: unknown order or someone else's order ends the call.         *)
FindOrder(h) ==
  /\ call[h].step = "order"
  /\ IF OrderRow(Ord(h)) /\ Entitled(h, OrderOrg(Ord(h)))
     THEN Goto(h, IF Browser(h) THEN "credit" ELSE "find") ELSE HangUp(h)
  /\ UNCHANGED <<storeVars, faults>> /\ TopUpKept

(* Credit, with the organisation and the amount of the stored order.       *)
StartCredit(h) ==
  /\ call[h].step = "credit"
  /\ CreditWallet(h, OrderOrg(Ord(h)), Actor(h), OrderAmount[Ord(h)], "deposit", Pay(h))
  /\ Goto(h, "crediting") /\ UNCHANGED faults /\ TopUpKept

CreditRejected(h) ==
  /\ call[h].step = "credit"
  /\ \/ CreditDuplicate(h, OrderOrg(Ord(h)), Pay(h))
     \/ CreditActorGone(h, OrderOrg(Ord(h)), Actor(h))
  /\ Goto(h, "refind") /\ UNCHANGED faults /\ TopUpKept

CreditCommits(h) ==
  /\ call[h].step = "crediting"
  /\ Commit(h, "ok")
  /\ Goto(h, "mark") /\ UNCHANGED faults /\ TopUpKept

(* Rolled back, or committed with the answer to COMMIT lost.               *)
CreditFails(h) ==
  /\ call[h].step = "crediting"
  /\ Abort(h) \/ Commit(h, "error")
  /\ Interrupt
  /\ Goto(h, "refind") /\ TopUpKept

(* Mutant: any error of Credit is taken for a replay.                      *)
FindAgainMutant(h) ==
  /\ call[h].step = "refind"
  /\ Goto(h, "reply")
  /\ UNCHANGED <<storeVars, faults>> /\ TopUpKept

(* Any error of Credit: somebody else's row turns it into a replay.        *)
FindAgain(h) ==
  /\ call[h].step = "refind"
  /\ IF \E o \in Orgs : RecordedFor(Pay(h), o) /\ Entitled(h, o)
     THEN Goto(h, "reply") ELSE HangUp(h)
  /\ UNCHANGED <<storeVars, faults>> /\ TopUpKept

(* Mutant: a status the column's CHECK does not know.                      *)
MarkOrderVerifiedMutant(h) ==
  /\ call[h].step = "mark"
  /\ order' = [order EXCEPT ![Ord(h)] = "captured"]
  /\ Goto(h, "reply")
  /\ UNCHANGED <<storeVars, checkout, captured, acked, confirmed, faults>>

(* MarkOrderVerified: only a created order, and its failure is ignored.    *)
MarkOrderVerified(h) ==
  /\ call[h].step = "mark"
  /\ order' \in {order, [order EXCEPT ![Ord(h)] = IF @ = "created" THEN "verified" ELSE @]}
  /\ Goto(h, "reply")
  /\ UNCHANGED <<storeVars, checkout, captured, acked, confirmed, faults>>

(* The 2xx arrives; Crash covers the one that does not.                    *)
Reply(h) ==
  /\ call[h].step = "reply"
  /\ acked' = IF Browser(h) THEN acked ELSE acked \cup {Pay(h)}
  /\ confirmed' = IF Browser(h) THEN confirmed \cup {Pay(h)} ELSE confirmed
  /\ HangUp(h)
  /\ UNCHANGED <<storeVars, order, checkout, captured, faults>>

(* Mutant: the webhook is acknowledged on receipt, before its work is done.*)
CrashMutant(h) ==
  /\ call[h] # Idle
  /\ HangUp(h) /\ Interrupt
  /\ IF pc[h] = "idle" THEN UNCHANGED storeVars ELSE Abort(h)
  /\ acked' = acked \cup {Pay(h)}
  /\ UNCHANGED <<order, checkout, captured, confirmed>>

(* The server dies, the request's context ends or its answer is lost: an   *)
(* open transaction is rolled back.                                        *)
Crash(h) ==
  /\ call[h] # Idle
  /\ HangUp(h) /\ Interrupt
  /\ IF pc[h] = "idle" THEN UNCHANGED storeVars ELSE Abort(h)
  /\ TopUpKept

(* Mutant: the user is deleted and the ledger rows keep its id.            *)
DeleteAdminMutant(u) ==
  /\ u \in live
  /\ live' = live \ {u}
  /\ UNCHANGED <<balance, ledger, nextId, cap, spent, locks, calls, history, paymentVars>>

(* Deleting an admin unlinks the ledger, but an order row keeps its admin: *)
(* actor_user_id is NOT NULL, so the whole deletion fails.                 *)
DeleteAdmin(u) ==
  /\ \A k \in Orders : OrderRow(k) => OrderAdmin[k] # u
  /\ DeleteUser(u)
  /\ UNCHANGED paymentVars

---------------------------------------------------------------------------
HandlerStep(h) ==
  \/ FindPayment(h) \/ FindOrder(h)
  \/ StartCredit(h) \/ CreditRejected(h) \/ CreditCommits(h)
  \/ FindAgain(h) \/ MarkOrderVerified(h) \/ Reply(h)

TopUpNext ==
  \/ \E k \in Orders : IssueOrder(k) \/ SaveOrder(k) \/ OrphanOrder(k) \/ OpenCheckout(k)
  \/ \E p \in Payments, k \in Orders : Capture(p, k)
  \/ \E h \in Tx, p \in Payments : DeliverWebhook(h, p)
  \/ \E h \in Tx, p \in Payments, u \in Users : VerifyPayment(h, p, u)
  \/ \E h \in Tx : HandlerStep(h) \/ CreditFails(h) \/ Crash(h)
  \/ \E u \in Users : DeleteAdmin(u)

(* The gateway keeps retrying an unacknowledged webhook and in the end one *)
(* of its attempts finds a free worker; a handler runs until it is done.   *)
TopUpFairness ==
  /\ \A p \in Payments : SF_topUpVars(\E h \in Tx : DeliverWebhook(h, p))
  /\ \A h \in Tx : WF_topUpVars(HandlerStep(h))

TopUpSpec == TopUpInit /\ [][TopUpNext]_topUpVars
TopUpFairSpec == TopUpSpec /\ TopUpFairness

---------------------------------------------------------------------------
(* Properties                                                              *)

(* The handlers use the store only in the ways the store allows.           *)
TopUpUsesStore == StoreSpec

(* Every deposit in the ledger is a payment the gateway captured, booked to*)
(* the organisation and at the amount of the order it was captured for,    *)
(* whoever reported it.                                                    *)
DepositMatchesOrder ==
  \A o \in Orgs : \A i \in 1..Len(ledger[o]) :
    LET r == ledger[o][i] IN
    r.payment # NoPayment =>
      /\ captured[r.payment] \in Orders
      /\ o = OrderOrg(captured[r.payment])
      /\ r.amount = OrderAmount[captured[r.payment]]

(* A 2xx ends the gateway's retries and satisfies the browser, so neither  *)
(* is ever given for a payment that is not on the books.                   *)
AckedIsCredited == \A p \in acked \cup confirmed : Recorded(p)

(* An order is marked verified only after a payment for it was credited.   *)
VerifiedIsCredited ==
  \A k \in Orders : order[k] = "verified" =>
    \E p \in Payments : captured[p] = k /\ Recorded(p)

(* No payment is captured for an order the portal has no row for: the      *)
(* webhook never has to turn away money with a 404.                        *)
CapturedHasOrder == \A p \in Payments : captured[p] \in Orders => OrderRow(captured[p])

(* A captured payment is credited in the end, though browser calls are lost*)
(* and webhooks interrupted.                                               *)
CapturedIsCredited == \A p \in Payments : captured[p] # NoOrder ~> Recorded(p)
===========================================================================
