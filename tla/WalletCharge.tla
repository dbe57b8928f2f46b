---------------------------- MODULE WalletCharge ----------------------------
(***************************************************************************)
(* The charge middleware (walletCharge) around the two liveness handlers,  *)
(* on top of WalletStore.  A request checks the operator's cap and the     *)
(* wallet on what it reads before the handler runs, lets the handler run   *)
(* (which may record a liveness pass for the session), and debits only     *)
(* then; anything may happen to cap, balance and operator in between.      *)
(*                                                                         *)
(* A request is a slot of the store.  The slots of Tx that are no requests *)
(* stand for the credits that arrive meanwhile.                            *)
(***************************************************************************)
EXTENDS WalletStore

CONSTANTS
  Requests,    \* POSTs to a charged route
  Sessions,    \* liveness session ids chosen by the operators' browsers
  OrgOf,       \* [Users -> Orgs]: the operator's organisation
  Fee,         \* WalletFeePerLookupPaise
  TopUpRows    \* bound: no credit begins once this many ids are handed out

ASSUME ChargeAssumption ==
  /\ Requests \subseteq Tx
  /\ OrgOf \in [Users -> Orgs]
  /\ Fee \in Amounts

VARIABLES
  stage,     \* how far each request has come
  operator,  \* who sent it
  session,   \* for which liveness session
  reply,     \* what the operator got
  passer,    \* liveness_checks: who first passed each session, if anyone
  offer,     \* the cap each pending PATCH has checked against the balance
  paid       \* history: the requests whose debit was committed

middlewareVars == <<stage, operator, session, reply, passer, offer, paid>>
chargeVars == <<storeVars, middlewareVars>>

(* The sessions that may go on to the face match.                          *)
gate == {s \in Sessions : passer[s] # NoUser}

Stages == {"idle", "balance", "inner", "debit", "debiting", "done"}
Replies == {"none", "refused", "failed", "skipped", "free", "charged", "error"}

ChargeTypeOK ==
  /\ StoreTypeOK
  /\ stage \in [Requests -> Stages]
  /\ operator \in [Requests -> Users \cup {NoUser}]
  /\ session \in [Requests -> Sessions \cup {"none"}]
  /\ reply \in [Requests -> Replies]
  /\ passer \in [Sessions -> Users \cup {NoUser}]
  /\ offer \in [Users -> Nat \cup {NoCap}]
  /\ paid \subseteq Requests

ChargeInit ==
  /\ StoreInit
  /\ stage = [r \in Requests |-> "idle"]
  /\ operator = [r \in Requests |-> NoUser]
  /\ session = [r \in Requests |-> "none"]
  /\ reply = [r \in Requests |-> "none"]
  /\ passer = [s \in Sessions |-> NoUser]
  /\ offer = [u \in Users |-> NoCap]
  /\ paid = {}

---------------------------------------------------------------------------
(* The request                                                             *)

Answer(r, what) ==
  /\ stage' = [stage EXCEPT ![r] = "done"]
  /\ reply' = [reply EXCEPT ![r] = what]

Proceed(r, from, to) ==
  /\ stage[r] = from
  /\ stage' = [stage EXCEPT ![r] = to]

(* The operator row is read once: activity window, cap, spent.             *)
MayVerify(u, inWindow) ==
  /\ inWindow
  /\ u \in live
  /\ cap[u] # NoCap
  /\ spent[u] + Fee <= cap[u]

Arrive(r, u, s, inWindow) ==
  /\ stage[r] = "idle"
  /\ operator' = [operator EXCEPT ![r] = u]
  /\ session' = [session EXCEPT ![r] = s]
  /\ IF MayVerify(u, inWindow)
     THEN Proceed(r, "idle", "balance") /\ UNCHANGED reply
     ELSE Answer(r, "refused")
  /\ UNCHANGED <<storeVars, passer, offer, paid>>

CheckBalance(r) ==
  /\ stage[r] = "balance"
  /\ IF balance[OrgOf[operator[r]]] >= Fee
     THEN Proceed(r, "balance", "inner") /\ UNCHANGED reply
     ELSE Answer(r, "refused")
  /\ UNCHANGED <<storeVars, operator, session, passer, offer, paid>>

(* Mutant: a failed challenge is charged like a pass.                      *)
InnerNoPassMutant(r) ==
  /\ Proceed(r, "inner", "debit")
  /\ UNCHANGED <<storeVars, operator, session, reply, passer, offer, paid>>

(* The wrapped handler: an error, a failed challenge (X-Wallet-Skip) or a  *)
(* pass, which upserts the session's liveness_checks row.                  *)
InnerNoPass(r) ==
  /\ stage[r] = "inner"
  /\ \E what \in {"failed", "skipped"} : Answer(r, what)
  /\ UNCHANGED <<storeVars, operator, session, passer, offer, paid>>

(* The row keeps its first operator, who must exist to be written there.   *)
Passed(r) ==
  [passer EXCEPT ![session[r]] = IF @ = NoUser THEN operator[r] ELSE @]

InnerPass(r) ==
  /\ Proceed(r, "inner", "debit")
  /\ session[r] \in gate \/ operator[r] \in live
  /\ passer' = Passed(r)
  /\ UNCHANGED <<storeVars, operator, session, reply, offer, paid>>

(* The request's context ends before its debit has begun.                  *)
Cancelled(r) ==
  /\ stage[r] \in {"balance", "inner", "debit"}
  /\ Answer(r, "error")
  /\ UNCHANGED <<storeVars, operator, session, passer, offer, paid>>

Kept == UNCHANGED <<operator, session, passer, offer, paid>>

StartDebit(r) ==
  /\ Proceed(r, "debit", "debiting")
  /\ DebitWallet(r, OrgOf[operator[r]], operator[r], Fee)
  /\ UNCHANGED reply /\ Kept

(* Drained since the check: the response is served all the same.           *)
ServeFree(r) ==
  /\ stage[r] = "debit"
  /\ DebitInsufficient(r, OrgOf[operator[r]], Fee)
  /\ Answer(r, "free") /\ Kept

OperatorGone(r) ==
  /\ stage[r] = "debit"
  /\ DebitActorGone(r, OrgOf[operator[r]], operator[r], Fee)
  /\ Answer(r, "error") /\ Kept

ContinueDebit(r) ==
  /\ stage[r] = "debiting"
  /\ DebitUser(r) \/ DebitOverCap(r) \/ DebitUncapped(r)
  /\ UNCHANGED <<stage, reply>> /\ Kept

RefuseOverCap(r) ==
  /\ stage[r] = "debiting"
  /\ DebitCapExceeded(r)
  /\ Answer(r, "refused") /\ Kept

DebitFails(r) ==
  /\ stage[r] = "debiting"
  /\ Abort(r)
  /\ Answer(r, "error") /\ Kept

(* Mutant: every error of Debit is taken for ErrInsufficient.              *)
DebitCommitsMutant(r, result) ==
  /\ stage[r] = "debiting"
  /\ Commit(r, result)
  /\ Answer(r, IF result = "ok" THEN "charged" ELSE "free")
  /\ paid' = paid \cup {r}
  /\ UNCHANGED <<operator, session, passer, offer>>

DebitCommits(r, result) ==
  /\ stage[r] = "debiting"
  /\ Commit(r, result)
  /\ Answer(r, IF result = "ok" THEN "charged" ELSE "error")
  /\ paid' = paid \cup {r}
  /\ UNCHANGED <<operator, session, passer, offer>>

Handle(r) ==
  \/ CheckBalance(r) \/ InnerNoPass(r) \/ InnerPass(r)
  \/ StartDebit(r) \/ ServeFree(r) \/ OperatorGone(r)
  \/ ContinueDebit(r) \/ RefuseOverCap(r) \/ DebitCommits(r, "ok")

Fault(r) == Cancelled(r) \/ DebitFails(r) \/ DebitCommits(r, "error")

---------------------------------------------------------------------------
(* What happens around it                                                  *)

(* PATCH of a cap: at least one fee and not above the balance, which is    *)
(* read outside the transaction that writes the cap.                       *)
CheckCapAgainstWallet(u, c) ==
  /\ offer[u] = NoCap
  /\ u \in live
  /\ c >= Fee /\ c <= balance[OrgOf[u]]
  /\ offer' = [offer EXCEPT ![u] = c]
  /\ UNCHANGED <<storeVars, stage, operator, session, reply, passer, paid>>

AdminPatch(u, reset) ==
  /\ \/ offer[u] # NoCap /\ PatchPurse(u, offer[u], reset)
     \/ offer[u] = NoCap /\ PatchPurse(u, NoCap, reset)
     \/ offer[u] = NoCap /\ reset /\ PatchPurse(u, cap[u], TRUE)
  /\ offer' = [offer EXCEPT ![u] = NoCap]
  /\ UNCHANGED <<stage, operator, session, reply, passer, paid>>

(* Mutant: the operator is deleted and the ledger keeps the id.            *)
AdminDeleteMutant(u) ==
  /\ u \in live
  /\ \A s \in Sessions : passer[s] # u
  /\ live' = live \ {u}
  /\ UNCHANGED <<balance, ledger, nextId, cap, spent, locks, calls, history, middlewareVars>>

(* A liveness pass keeps its operator's id: the row is not unlinked, so the*)
(* foreign key refuses to let the operator go.                             *)
AdminDelete(u) ==
  /\ \A s \in Sessions : passer[s] # u
  /\ DeleteUser(u)
  /\ UNCHANGED middlewareVars

(* Credits of the superadmin, who is none of Users.                        *)
TopUp(t) ==
  /\ \E o \in Orgs, a \in Amounts :
       nextId < TopUpRows /\ CreditWallet(t, o, NoUser, a, "admin_credit", NoPayment)
  /\ UNCHANGED middlewareVars

TopUpEnds(t) == CloseStep(t) /\ UNCHANGED middlewareVars

ChargeNext ==
  \/ \E r \in Requests :
       \/ Handle(r) \/ Fault(r)
       \/ \E u \in Users, s \in Sessions, inWindow \in BOOLEAN : Arrive(r, u, s, inWindow)
  \/ \E t \in Tx \ Requests : TopUp(t) \/ TopUpEnds(t)
  \/ \E u \in Users :
       \/ \E c \in Caps : CheckCapAgainstWallet(u, c)
       \/ \E reset \in BOOLEAN : AdminPatch(u, reset)
       \/ AdminDelete(u)

(* A handler runs until it has answered; Postgres grants a row lock to its *)
(* waiters in turn, and an open transaction ends.                          *)
ChargeFairness ==
  /\ \A r \in Requests : SF_chargeVars(Handle(r))
  /\ \A t \in Tx \ Requests : WF_chargeVars(TopUpEnds(t))

ChargeSpec == ChargeInit /\ [][ChargeNext]_chargeVars
ChargeFairSpec == ChargeSpec /\ ChargeFairness

---------------------------------------------------------------------------
(* Properties                                                              *)

(* The middleware uses the store only in the ways the store allows.        *)
ChargeUsesStore == StoreSpec

(* Nobody is charged for a lookup that failed: a committed debit belongs to*)
(* a request whose session has its liveness pass on record.                *)
NoChargeWithoutPass == \A r \in paid : session[r] \in gate

(* An operator who is told nothing was taken (402, a handler error, a free *)
(* answer) was not charged; and one who is told of a charge was.           *)
ReplyTellsCharge ==
  \A r \in Requests :
    /\ reply[r] \in {"refused", "failed", "skipped", "free"} => r \notin paid
    /\ reply[r] = "charged" => r \in paid

(* Every admitted request is answered: no two requests, patches or credits *)
(* keep each other waiting for row locks for ever.                         *)
EveryRequestAnswered ==
  \A r \in Requests : stage[r] = "balance" ~> stage[r] = "done"
===========================================================================
