---------------------------- MODULE WalletStore ----------------------------
(***************************************************************************)
(* The wallet store (backend/internal/wallet) over the four tables it      *)
(* touches: wallets, wallet_transactions, users and their row locks.       *)
(*                                                                         *)
(* Postgres runs the code at READ COMMITTED.  The variables below hold     *)
(* COMMITTED values only; what a transaction has written and not yet       *)
(* committed lives in row[t] and in the locks it holds.  A conditional     *)
(* UPDATE whose WHERE clause is false on the committed row touches nothing *)
(* and does not wait; one whose WHERE clause is true waits for the row     *)
(* lock and then decides again.  INSERTing a ledger row takes a key-share  *)
(* lock on its actor's users row, which keeps the user from being deleted  *)
(* but not from being updated.                                             *)
(*                                                                         *)
(* A slot t of Tx is one call of Debit or Credit at a time.  Callers, and  *)
(* what they do with an outcome, are the modules that extend this one.     *)
(***************************************************************************)
EXTENDS Integers, Sequences

CONSTANTS
  Orgs,             \* organisations, one wallet each
  Users,            \* users that act on a wallet
  Payments,         \* payment ids of the payment gateway
  Tx,               \* concurrent calls of Debit and Credit
  Amounts,          \* paise a call may move
  Caps,             \* spending caps an admin may set
  MaxRows,          \* bound: ledger ids handed out
  NoOrg, NoUser, NoPayment, NoCap, NoTx

ASSUME StoreAssumption ==
  /\ Amounts \subseteq Nat \ {0}
  /\ Caps \subseteq Nat
  /\ MaxRows \in Nat
  /\ NoOrg \notin Orgs
  /\ NoUser \notin Users
  /\ NoPayment \notin Payments
  /\ NoCap \notin Nat
  /\ NoTx \notin Tx

VARIABLES
  balance,     \* [Orgs -> Nat]: wallets.balance_paise
  ledger,      \* [Orgs -> Seq(Row)]: wallet_transactions in commit order
  nextId,      \* the ledger's identity sequence; never rolled back
  cap,         \* users.spending_cap_paise, NoCap for NULL
  spent,       \* users.spent_paise
  live,        \* the users rows that exist
  pc,          \* where each call stands
  org,         \* the wallet row each open transaction has locked
  row,         \* the ledger row each open transaction has inserted
  walletLock,  \* who holds the wallets row of an organisation
  userLock,    \* who holds the users row of a user for update
  outcome,     \* what the last call of each slot returned
  billed,      \* history: charges committed per user since the last reset
  raced        \* history: the users whose cap was cleared under a charge
               \* that had just found it exceeded, since the last reset

tables == <<balance, ledger, nextId, cap, spent, live>>
locks == <<walletLock, userLock>>
calls == <<pc, org, row, outcome>>
history == <<billed, raced>>
storeVars == <<tables, locks, calls, history>>

Kinds == {"none", "charge", "deposit", "admin_credit"}

Row ==
  [id: Nat, kind: Kinds, amount: Int, after: Nat,
   actor: Users \cup {NoUser}, payment: Payments \cup {NoPayment}]

NoRow ==
  [id |-> 0, kind |-> "none", amount |-> 0, after |-> 0,
   actor |-> NoUser, payment |-> NoPayment]

Open == {"charged", "recheck", "ready"}
Outcomes == {"none", "ok", "insufficient", "capExceeded", "duplicate", "error"}

StoreTypeOK ==
  /\ balance \in [Orgs -> Nat]
  /\ ledger \in [Orgs -> Seq(Row)]
  /\ nextId \in Nat
  /\ cap \in [Users -> Nat \cup {NoCap}]
  /\ spent \in [Users -> Nat]
  /\ live \subseteq Users
  /\ pc \in [Tx -> Open \cup {"idle"}]
  /\ org \in [Tx -> Orgs \cup {NoOrg}]
  /\ row \in [Tx -> Row]
  /\ walletLock \in [Orgs -> Tx \cup {NoTx}]
  /\ userLock \in [Users -> Tx \cup {NoTx}]
  /\ outcome \in [Tx -> Outcomes]
  /\ billed \in [Users -> Nat]
  /\ raced \subseteq Users

(* A cap may not exceed the wallet's balance when it is set, so before the *)
(* first credit no operator has one.                                       *)
StoreInit ==
  /\ balance = [o \in Orgs |-> 0]
  /\ ledger = [o \in Orgs |-> << >>]
  /\ nextId = 1
  /\ cap = [u \in Users |-> NoCap]
  /\ spent = [u \in Users |-> 0]
  /\ live = Users
  /\ pc = [t \in Tx |-> "idle"]
  /\ org = [t \in Tx |-> NoOrg]
  /\ row = [t \in Tx |-> NoRow]
  /\ walletLock = [o \in Orgs |-> NoTx]
  /\ userLock = [u \in Users |-> NoTx]
  /\ outcome = [t \in Tx |-> "none"]
  /\ billed = [u \in Users |-> 0]
  /\ raced = {}

---------------------------------------------------------------------------
(* Helpers                                                                 *)

(* Operators named ...Mutant are bugs the properties must be able to see;  *)
(* no specification uses them.                                             *)
RecordedMutant(p) == FALSE

(* The unique index on razorpay_payment_id over the committed rows.        *)
Recorded(p) == \E o \in Orgs : \E i \in 1..Len(ledger[o]) : ledger[o][i].payment = p

(* Another open transaction holds the same index entry: an INSERT waits.   *)
IndexBusy(p) == p # NoPayment /\ \E t \in Tx : pc[t] # "idle" /\ row[t].payment = p

WithinCap(u, a) == cap[u] # NoCap => spent[u] + a <= cap[u]

Charge(t) == -row[t].amount

(* Mutant: a balance read and written back without holding the row.                *)
InsertMutant(t, o, r) ==
  /\ nextId' = nextId + 1
  /\ walletLock' = [walletLock EXCEPT ![o] = t]
  /\ org' = [org EXCEPT ![t] = o]
  /\ row' = [row EXCEPT ![t] = r]
  /\ outcome' = [outcome EXCEPT ![t] = "none"]

(* Open transaction t: the wallet row is locked, the ledger row inserted.  *)
Insert(t, o, r) ==
  /\ walletLock[o] = NoTx
  /\ nextId' = nextId + 1
  /\ walletLock' = [walletLock EXCEPT ![o] = t]
  /\ org' = [org EXCEPT ![t] = o]
  /\ row' = [row EXCEPT ![t] = r]
  /\ outcome' = [outcome EXCEPT ![t] = "none"]

(* A call that returns without having left anything behind.                *)
Return(t, result) ==
  /\ outcome' = [outcome EXCEPT ![t] = result]
  /\ UNCHANGED <<balance, ledger, cap, spent, live, pc, org, row, locks, history>>

(* The end of transaction t: its locks go, the slot is free again.         *)
Release(t, result) ==
  /\ pc' = [pc EXCEPT ![t] = "idle"]
  /\ org' = [org EXCEPT ![t] = NoOrg]
  /\ row' = [row EXCEPT ![t] = NoRow]
  /\ walletLock' = [o \in Orgs |-> IF walletLock[o] = t THEN NoTx ELSE walletLock[o]]
  /\ userLock' = [u \in Users |-> IF userLock[u] = t THEN NoTx ELSE userLock[u]]
  /\ outcome' = [outcome EXCEPT ![t] = result]

(* A return without the deferred Rollback: the locks stay.                 *)
UndoMutant(t, result) ==
  /\ pc' = [pc EXCEPT ![t] = "idle"]
  /\ outcome' = [outcome EXCEPT ![t] = result]
  /\ UNCHANGED <<tables, locks, org, row, history>>

Undo(t, result) ==
  /\ Release(t, result)
  /\ UNCHANGED <<tables, history>>

---------------------------------------------------------------------------
(* Debit                                                                   *)

(* UPDATE wallets without the balance condition.                           *)
DebitWalletMutant(t, o, u, a) ==
  /\ pc[t] = "idle"
  /\ nextId < MaxRows
  /\ u \in live
  /\ Insert(t, o, [id |-> nextId, kind |-> "charge", amount |-> -a,
                   after |-> balance[o] - a, actor |-> u, payment |-> NoPayment])
  /\ pc' = [pc EXCEPT ![t] = "charged"]
  /\ UNCHANGED <<balance, ledger, cap, spent, live, userLock, history>>

(* UPDATE wallets ... WHERE balance_paise >= amount, then the ledger row.  *)
DebitWallet(t, o, u, a) ==
  /\ pc[t] = "idle"
  /\ nextId < MaxRows
  /\ balance[o] >= a
  /\ u \in live
  /\ Insert(t, o, [id |-> nextId, kind |-> "charge", amount |-> -a,
                   after |-> balance[o] - a, actor |-> u, payment |-> NoPayment])
  /\ pc' = [pc EXCEPT ![t] = "charged"]
  /\ UNCHANGED <<balance, ledger, cap, spent, live, userLock, history>>

(* Zero rows: ErrInsufficient.                                             *)
DebitInsufficient(t, o, a) ==
  /\ pc[t] = "idle"
  /\ balance[o] < a
  /\ Return(t, "insufficient")
  /\ UNCHANGED nextId

(* The ledger row's actor no longer exists: the foreign key rejects it.    *)
DebitActorGone(t, o, u, a) ==
  /\ pc[t] = "idle"
  /\ nextId < MaxRows
  /\ balance[o] >= a
  /\ walletLock[o] = NoTx
  /\ u \notin live
  /\ Return(t, "error")
  /\ nextId' = nextId + 1

(* UPDATE users SET spent += amount WHERE the cap allows it: one row.      *)
DebitUser(t) ==
  /\ pc[t] = "charged"
  /\ WithinCap(row[t].actor, Charge(t))
  /\ userLock[row[t].actor] = NoTx
  /\ userLock' = [userLock EXCEPT ![row[t].actor] = t]
  /\ pc' = [pc EXCEPT ![t] = "ready"]
  /\ UNCHANGED <<tables, walletLock, org, row, outcome, history>>

(* No second look at the user when the UPDATE touched no row.              *)
DebitOverCapMutant(t) ==
  /\ pc[t] = "charged"
  /\ ~WithinCap(row[t].actor, Charge(t))
  /\ pc' = [pc EXCEPT ![t] = "ready"]
  /\ UNCHANGED <<tables, locks, org, row, outcome, history>>

(* The same UPDATE touching no row: the code reads the user again.         *)
DebitOverCap(t) ==
  /\ pc[t] = "charged"
  /\ ~WithinCap(row[t].actor, Charge(t))
  /\ pc' = [pc EXCEPT ![t] = "recheck"]
  /\ UNCHANGED <<tables, locks, org, row, outcome, history>>

(* The user exists and has a cap: ErrCapExceeded, everything rolls back.   *)
DebitCapExceeded(t) ==
  /\ pc[t] = "recheck"
  /\ cap[row[t].actor] # NoCap
  /\ Undo(t, "capExceeded")

(* The cap was cleared since: the code falls through to the commit.        *)
DebitUncapped(t) ==
  /\ pc[t] = "recheck"
  /\ cap[row[t].actor] = NoCap
  /\ pc' = [pc EXCEPT ![t] = "ready"]
  /\ UNCHANGED <<tables, locks, org, row, outcome, history>>

---------------------------------------------------------------------------
(* Credit                                                                  *)

CreditWallet(t, o, u, a, kind, p) ==
  /\ pc[t] = "idle"
  /\ nextId < MaxRows
  /\ u \in live \cup {NoUser}
  /\ p = NoPayment \/ ~Recorded(p)
  /\ ~IndexBusy(p)
  /\ Insert(t, o, [id |-> nextId, kind |-> kind, amount |-> a,
                   after |-> balance[o] + a, actor |-> u, payment |-> p])
  /\ pc' = [pc EXCEPT ![t] = "ready"]
  /\ UNCHANGED <<balance, ledger, cap, spent, live, userLock, history>>

(* The unique index rejects the row: the balance update is undone with it. *)
CreditDuplicate(t, o, p) ==
  /\ pc[t] = "idle"
  /\ nextId < MaxRows
  /\ walletLock[o] = NoTx
  /\ p # NoPayment /\ Recorded(p)
  /\ Return(t, "duplicate")
  /\ nextId' = nextId + 1

CreditActorGone(t, o, u) ==
  /\ pc[t] = "idle"
  /\ nextId < MaxRows
  /\ walletLock[o] = NoTx
  /\ u \notin live \cup {NoUser}
  /\ Return(t, "error")
  /\ nextId' = nextId + 1

---------------------------------------------------------------------------
(* The end of either                                                       *)

HoldsUser(t) == row[t].actor \in Users /\ userLock[row[t].actor] = t

(* The answer to COMMIT may be lost after it took effect: result "error".  *)
Commit(t, result) ==
  /\ pc[t] = "ready"
  /\ balance' = [balance EXCEPT ![org[t]] = row[t].after]
  /\ ledger' = [ledger EXCEPT ![org[t]] = Append(@, row[t])]
  /\ spent' = IF HoldsUser(t)
              THEN [spent EXCEPT ![row[t].actor] = @ + Charge(t)] ELSE spent
  /\ billed' = IF row[t].kind = "charge"
               THEN [billed EXCEPT ![row[t].actor] = @ + Charge(t)] ELSE billed
  /\ Release(t, result)
  /\ UNCHANGED <<nextId, cap, live, raced>>

(* A database error, a cancelled request context or a crash of the server. *)
Abort(t) ==
  /\ pc[t] \in Open
  /\ Undo(t, "error")

---------------------------------------------------------------------------
(* The admin's side of an operator's purse                                 *)

(* The cap of u is NULL from now on, and a charge of u is about to look.   *)
ClearsUnderCharge(u, c) ==
  c = NoCap /\ \E t \in Tx : pc[t] = "recheck" /\ row[t].actor = u

(* PATCH /operators/{id}: a cap, no cap, and perhaps a spent reset, in one *)
(* UPDATE; c = cap[u] is a PATCH that leaves the cap alone.                *)
PatchPurse(u, c, reset) ==
  /\ u \in live
  /\ userLock[u] = NoTx
  /\ cap' = [cap EXCEPT ![u] = c]
  /\ spent' = [spent EXCEPT ![u] = IF reset THEN 0 ELSE @]
  /\ billed' = [billed EXCEPT ![u] = IF reset THEN 0 ELSE @]
  /\ raced' = IF ClearsUnderCharge(u, c) THEN raced \cup {u}
              ELSE IF reset /\ \A t \in Tx : row[t].actor # u THEN raced \ {u}
              ELSE raced
  /\ UNCHANGED <<balance, ledger, nextId, live, locks, calls>>

(* UPDATE wallet_transactions SET actor_user_id = NULL, for one user.      *)
Unlinked(s, u) ==
  [i \in 1..Len(s) |-> [s[i] EXCEPT !.actor = IF @ = u THEN NoUser ELSE @]]

(* DELETE /operators/{id}: unlink the ledger rows, then the user.  Blocked *)
(* by an open transaction that has inserted a row naming the user.         *)
DeleteUser(u) ==
  /\ u \in live
  /\ \A t \in Tx : row[t].actor # u
  /\ live' = live \ {u}
  /\ ledger' = [o \in Orgs |-> Unlinked(ledger[o], u)]
  /\ UNCHANGED <<balance, nextId, cap, spent, locks, calls, history>>

---------------------------------------------------------------------------
DebitStep(t) ==
  \/ \E o \in Orgs, u \in Users, a \in Amounts :
       \/ DebitWallet(t, o, u, a)
       \/ DebitInsufficient(t, o, a)
       \/ DebitActorGone(t, o, u, a)
  \/ DebitUser(t)
  \/ DebitOverCap(t)
  \/ DebitCapExceeded(t)
  \/ DebitUncapped(t)

CreditStep(t) ==
  \E o \in Orgs, u \in Users \cup {NoUser} :
    \/ \E a \in Amounts :
         \/ CreditWallet(t, o, u, a, "admin_credit", NoPayment)
         \/ \E p \in Payments : CreditWallet(t, o, u, a, "deposit", p)
    \/ \E p \in Payments : CreditDuplicate(t, o, p)
    \/ CreditActorGone(t, o, u)

CloseStep(t) == Abort(t) \/ \E result \in {"ok", "error"} : Commit(t, result)

AdminStep ==
  \E u \in Users :
    \/ \E c \in Caps \cup {NoCap, cap[u]}, reset \in BOOLEAN : PatchPurse(u, c, reset)
    \/ DeleteUser(u)

StoreNext ==
  \/ \E t \in Tx : DebitStep(t) \/ CreditStep(t) \/ CloseStep(t)
  \/ AdminStep

StoreSpec == StoreInit /\ [][StoreNext]_storeVars

---------------------------------------------------------------------------
(* Properties                                                              *)

LastAfter(o) == IF ledger[o] = << >> THEN 0 ELSE ledger[o][Len(ledger[o])].after

PrevAfter(o, i) == IF i = 1 THEN 0 ELSE ledger[o][i - 1].after

(* Every ledger row's balance_after is the one before it plus its own      *)
(* amount, and the wallet's balance is the last one: the balance is the    *)
(* sum of the ledger, whatever debits and credits overlapped.              *)
LedgerChain ==
  \A o \in Orgs :
    /\ balance[o] = LastAfter(o)
    /\ \A i \in 1..Len(ledger[o]) :
         ledger[o][i].after = PrevAfter(o, i) + ledger[o][i].amount

(* Rows of one organisation become visible in the order of their ids, so a *)
(* page of History below a cursor id never changes under the reader.       *)
IdsInCommitOrder ==
  \A o \in Orgs : \A i, j \in 1..Len(ledger[o]) :
    i < j => ledger[o][i].id < ledger[o][j].id

(* A gateway payment is credited at most once, to one organisation, however*)
(* often the browser and the webhook report it.                            *)
PaymentCreditedOnce ==
  \A o1, o2 \in Orgs : \A i \in 1..Len(ledger[o1]), j \in 1..Len(ledger[o2]) :
    /\ ledger[o1][i].payment # NoPayment
    /\ ledger[o1][i].payment = ledger[o2][j].payment
    => o1 = o2 /\ i = j

(* The operator's spent counter is what the operator was charged since the *)
(* last reset: charge and counter move together or not at all, whatever    *)
(* PATCHes, deletions, rollbacks and lost answers come in between.  Debit  *)
(* breaks this in one way only: the cap is cleared after the UPDATE of the *)
(* counter was declined and before Debit has read the user again.          *)
PurseTruthful == \A u \in live \ raced : spent[u] = billed[u]

(* Debit's own promise knows of no exception: "either both happen or       *)
(* neither".                                                               *)
PurseAlwaysTruthful == \A u \in live : spent[u] = billed[u]

(* Whatever the admin does meanwhile, the counter never exceeds what was   *)
(* charged: an operator is never refused for money nobody took.            *)
PurseNeverOvercounts == \A u \in Users : spent[u] <= billed[u]

(* No charge is committed that takes the operator past the cap in force at *)
(* that moment, though the caller checked the cap long before.             *)
CapHonoured ==
  [][\A u \in Users :
       spent'[u] > spent[u] /\ cap[u] # NoCap => spent'[u] <= cap[u]]_storeVars

(* A committed ledger row keeps its id, amount, balance and payment for    *)
(* good; deleting its actor may only unlink the actor.                     *)
LedgerAppendOnly ==
  [][\A o \in Orgs :
       /\ Len(ledger'[o]) >= Len(ledger[o])
       /\ \A i \in 1..Len(ledger[o]) :
            \/ ledger'[o][i] = ledger[o][i]
            \/ ledger'[o][i] = [ledger[o][i] EXCEPT !.actor = NoUser]]_storeVars

(* The ledger never names a user who no longer exists, and neither does an *)
(* open transaction: a deletion and a charge never both win.               *)
ActorsExist ==
  /\ \A o \in Orgs : \A i \in 1..Len(ledger[o]) : ledger[o][i].actor \in live \cup {NoUser}
  /\ \A t \in Tx : row[t].actor \in live \cup {NoUser}

---------------------------------------------------------------------------
(* The inductive invariant                                                 *)

(* An open transaction holds exactly the locks it says it holds.           *)
WalletLocks ==
  /\ \A t \in Tx : pc[t] = "idle" => row[t] = NoRow
  /\ \A t \in Tx : pc[t] # "idle" => org[t] \in Orgs /\ walletLock[org[t]] = t
  /\ \A o \in Orgs : walletLock[o] # NoTx => pc[walletLock[o]] # "idle" /\ org[walletLock[o]] = o

(* Who holds a user's row is about to commit a charge that fits the cap.   *)
UserLocks ==
  \A u \in Users : userLock[u] # NoTx =>
    /\ pc[userLock[u]] = "ready"
    /\ row[userLock[u]].actor = u
    /\ row[userLock[u]].kind = "charge"
    /\ WithinCap(u, Charge(userLock[u]))

WellFormed(r) ==
  \/ r.kind = "charge" /\ -r.amount \in Amounts /\ r.actor \in Users /\ r.payment = NoPayment
  \/ r.kind \in {"deposit", "admin_credit"} /\ r.amount \in Amounts

(* What an open transaction has inserted is still right when it commits:   *)
(* it continues the ledger, and its payment is not yet on it.              *)
PendingRows ==
  /\ \A t \in Tx : pc[t] # "idle" =>
       /\ WellFormed(row[t])
       /\ pc[t] # "ready" => row[t].kind = "charge"
       /\ row[t].after = balance[org[t]] + row[t].amount
       /\ row[t].id < nextId
       /\ \A i \in 1..Len(ledger[org[t]]) : ledger[org[t]][i].id < row[t].id
       /\ row[t].payment # NoPayment => ~Recorded(row[t].payment)
  /\ \A t1, t2 \in Tx :
       row[t1].payment = row[t2].payment /\ row[t1].payment # NoPayment => t1 = t2

IdsHandedOut ==
  \A o \in Orgs : \A i \in 1..Len(ledger[o]) : ledger[o][i].id < nextId

StoreInv ==
  /\ StoreTypeOK
  /\ WalletLocks
  /\ UserLocks
  /\ PendingRows
  /\ IdsHandedOut
  /\ LedgerChain
  /\ IdsInCommitOrder
  /\ PaymentCreditedOnce
  /\ ActorsExist
  /\ PurseNeverOvercounts

---------------------------------------------------------------------------
(* The store implements the abstract ledger.                               *)
Book ==
  [o \in Orgs |-> [i \in 1..Len(ledger[o]) |->
    [amount |-> ledger[o][i].amount, after |-> ledger[o][i].after,
     payment |-> ledger[o][i].payment]]]

Abstract == INSTANCE WalletLedger WITH book <- Book

AbstractLedger == Abstract!Spec
===========================================================================
