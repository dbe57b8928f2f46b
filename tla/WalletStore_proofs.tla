------------------------- MODULE WalletStore_proofs -------------------------
(***************************************************************************)
(* Proofs about WalletStore, for any organisations, users, payments,       *)
(* concurrent calls, amounts and bounds.                                   *)
(***************************************************************************)
EXTENDS WalletStore, SequenceTheorems, TLAPS

USE DEF storeVars, tables, locks, calls, history

---------------------------------------------------------------------------
(* Rows and sequences of rows                                              *)

(* What unlinking a user does to an organisation's ledger.                 *)
LEMMA UnlinkedRows ==
  ASSUME NEW s \in Seq(Row), NEW u \in Users
  PROVE  /\ Unlinked(s, u) \in Seq(Row)
         /\ Len(Unlinked(s, u)) = Len(s)
         /\ \A i \in 1..Len(s) :
              /\ Unlinked(s, u)[i].id = s[i].id
              /\ Unlinked(s, u)[i].kind = s[i].kind
              /\ Unlinked(s, u)[i].amount = s[i].amount
              /\ Unlinked(s, u)[i].after = s[i].after
              /\ Unlinked(s, u)[i].payment = s[i].payment
              /\ Unlinked(s, u)[i].actor = IF s[i].actor = u THEN NoUser ELSE s[i].actor
<1>1. \A i \in 1..Len(s) : s[i] \in Row
  BY ElementOfSeq
<1>2. Len(s) \in Nat
  BY LenProperties
<1>3. \A i \in 1..Len(s) : [s[i] EXCEPT !.actor = IF @ = u THEN NoUser ELSE @] \in Row
  BY <1>1 DEF Row
<1>4. Unlinked(s, u) \in [1..Len(s) -> Row]
  BY <1>3 DEF Unlinked
<1>5. Unlinked(s, u) \in Seq(Row) /\ Len(Unlinked(s, u)) = Len(s)
  BY <1>2, <1>4
<1>6. ASSUME NEW i \in 1..Len(s)
      PROVE  Unlinked(s, u)[i] = [s[i] EXCEPT !.actor = IF @ = u THEN NoUser ELSE @]
  BY DEF Unlinked
<1>7. QED
  BY <1>1, <1>5, <1>6 DEF Row

---------------------------------------------------------------------------
(* Nothing that a call does before its commit is visible to the others,    *)
(* except for the ids it uses up.                                          *)
LEMMA OpenStepKeeps ==
  ASSUME NEW t \in Tx, DebitStep(t) \/ CreditStep(t)
  PROVE  UNCHANGED <<balance, ledger, cap, spent, live, billed>>
<1>1. ASSUME NEW o \in Orgs, NEW u \in Users, NEW a \in Amounts,
             DebitWallet(t, o, u, a) \/ DebitInsufficient(t, o, a) \/ DebitActorGone(t, o, u, a)
      PROVE  UNCHANGED <<balance, ledger, cap, spent, live, billed>>
  BY <1>1 DEF DebitWallet, DebitInsufficient, DebitActorGone, Return
<1>2. ASSUME DebitUser(t) \/ DebitOverCap(t) \/ DebitCapExceeded(t) \/ DebitUncapped(t)
      PROVE  UNCHANGED <<balance, ledger, cap, spent, live, billed>>
  BY <1>2 DEF DebitUser, DebitOverCap, DebitCapExceeded, DebitUncapped, Undo
<1>3. ASSUME NEW o \in Orgs, NEW u \in Users \cup {NoUser}, NEW a \in Amounts,
             NEW k \in {"deposit", "admin_credit"}, NEW p \in Payments \cup {NoPayment},
             CreditWallet(t, o, u, a, k, p)
      PROVE  UNCHANGED <<balance, ledger, cap, spent, live, billed>>
  BY <1>3 DEF CreditWallet
<1>4. DebitStep(t) => UNCHANGED <<balance, ledger, cap, spent, live, billed>>
  BY <1>1, <1>2 DEF DebitStep
<1>5. ASSUME NEW o \in Orgs, NEW u \in Users \cup {NoUser}, CreditActorGone(t, o, u)
      PROVE  UNCHANGED <<balance, ledger, cap, spent, live, billed>>
  BY <1>5 DEF CreditActorGone, Return
<1>6. ASSUME NEW o \in Orgs, NEW p \in Payments, CreditDuplicate(t, o, p)
      PROVE  UNCHANGED <<balance, ledger, cap, spent, live, billed>>
  BY <1>6 DEF CreditDuplicate, Return
<1>7. CreditStep(t) => UNCHANGED <<balance, ledger, cap, spent, live, billed>>
  BY <1>3, <1>5, <1>6 DEF CreditStep
<1>8. QED
  BY <1>4, <1>7

---------------------------------------------------------------------------
(* Type correctness                                                        *)

LEMMA NoRowIsRow == NoRow \in Row
  BY DEF NoRow, Row, Kinds

LEMMA NewRowIsRow ==
  ASSUME NEW i \in Nat, NEW k \in Kinds, NEW a \in Int, NEW b \in Nat,
         NEW u \in Users \cup {NoUser}, NEW p \in Payments \cup {NoPayment}
  PROVE  [id |-> i, kind |-> k, amount |-> a, after |-> b,
          actor |-> u, payment |-> p] \in Row
  BY DEF Row

LEMMA InitTypeOK == StoreInit => StoreTypeOK
  BY NoRowIsRow, EmptySeq DEF StoreInit, StoreTypeOK, Open, Outcomes

(* Every step keeps the types; a commit needs the row's charge to be at    *)
(* least nothing, which WellFormed says of the rows of open transactions.  *)
LEMMA NextTypeOK ==
  ASSUME StoreTypeOK, WalletLocks, UserLocks, PendingRows, StoreNext
  PROVE  StoreTypeOK'
<1> USE StoreAssumption DEF StoreTypeOK, Open, Outcomes
<1>1. ASSUME NEW t \in Tx, NEW o \in Orgs, NEW u \in Users, NEW a \in Amounts,
             DebitWallet(t, o, u, a)
      PROVE  StoreTypeOK'
  <2>1. balance[o] - a \in Nat /\ -a \in Int
    BY <1>1 DEF DebitWallet
  <2>2. [id |-> nextId, kind |-> "charge", amount |-> -a, after |-> balance[o] - a,
         actor |-> u, payment |-> NoPayment] \in Row
    BY <2>1, NewRowIsRow DEF Kinds
  <2>3. QED
    BY <1>1, <2>2 DEF DebitWallet, Insert
<1>2. ASSUME NEW t \in Tx, NEW o \in Orgs, NEW a \in Amounts, DebitInsufficient(t, o, a)
      PROVE  StoreTypeOK'
  BY <1>2 DEF DebitInsufficient, Return
<1>3. ASSUME NEW t \in Tx, NEW o \in Orgs, NEW u \in Users, NEW a \in Amounts,
             DebitActorGone(t, o, u, a)
      PROVE  StoreTypeOK'
  BY <1>3 DEF DebitActorGone, Return
<1>4. ASSUME NEW t \in Tx, DebitUser(t)
      PROVE  StoreTypeOK'
  BY <1>4 DEF DebitUser
<1>5. ASSUME NEW t \in Tx, DebitOverCap(t) \/ DebitUncapped(t)
      PROVE  StoreTypeOK'
  BY <1>5 DEF DebitOverCap, DebitUncapped
<1>6. ASSUME NEW t \in Tx, NEW result \in Outcomes, Undo(t, result)
      PROVE  StoreTypeOK'
  BY <1>6, NoRowIsRow DEF Undo, Release
<1>7. ASSUME NEW t \in Tx, NEW o \in Orgs, NEW u \in Users \cup {NoUser}, NEW a \in Amounts,
             NEW k \in {"deposit", "admin_credit"}, NEW p \in Payments \cup {NoPayment},
             CreditWallet(t, o, u, a, k, p)
      PROVE  StoreTypeOK'
  <2>1. balance[o] + a \in Nat /\ a \in Int
    OBVIOUS
  <2>2. [id |-> nextId, kind |-> k, amount |-> a, after |-> balance[o] + a,
         actor |-> u, payment |-> p] \in Row
    BY <2>1, NewRowIsRow DEF Kinds
  <2>3. QED
    BY <1>7, <2>2 DEF CreditWallet, Insert
<1>8. ASSUME NEW t \in Tx, NEW o \in Orgs, NEW p \in Payments, CreditDuplicate(t, o, p)
      PROVE  StoreTypeOK'
  BY <1>8 DEF CreditDuplicate, Return
<1>9. ASSUME NEW t \in Tx, NEW o \in Orgs, NEW u \in Users \cup {NoUser},
             CreditActorGone(t, o, u)
      PROVE  StoreTypeOK'
  BY <1>9 DEF CreditActorGone, Return
<1>10. ASSUME NEW t \in Tx, NEW result \in {"ok", "error"}, Commit(t, result)
       PROVE  StoreTypeOK'
  <2>1. row[t] \in Row /\ org[t] \in Orgs
    BY <1>10 DEF Commit, WalletLocks
  <2>2. row[t].after \in Nat /\ row[t].kind \in Kinds /\ row[t].actor \in Users \cup {NoUser}
    BY <2>1 DEF Row
  <2>3. row[t].kind = "charge" => Charge(t) \in Nat /\ row[t].actor \in Users
    BY <1>10 DEF Commit, PendingRows, WellFormed, Charge
  <2>4. HoldsUser(t) => row[t].actor \in Users /\ Charge(t) \in Nat
    BY <2>3 DEF HoldsUser, UserLocks
  <2>5. ledger' \in [Orgs -> Seq(Row)]
    BY <1>10, <2>1, AppendProperties DEF Commit
  <2>6. spent' \in [Users -> Nat]
    <3>1. CASE HoldsUser(t)
      BY <1>10, <2>4, <3>1 DEF Commit
    <3>2. CASE ~HoldsUser(t)
      BY <1>10, <3>2 DEF Commit
    <3>3. QED
      BY <3>1, <3>2
  <2>7. billed' \in [Users -> Nat]
    BY <1>10, <2>3 DEF Commit
  <2>8. balance' \in [Orgs -> Nat]
    BY <1>10, <2>1, <2>2 DEF Commit
  <2>9. UNCHANGED <<nextId, cap, live, raced>>
    BY <1>10 DEF Commit
  <2>10. Release(t, result)
    BY <1>10 DEF Commit
  <2>11. QED
    BY <2>5, <2>6, <2>7, <2>8, <2>9, <2>10, NoRowIsRow DEF Release
<1>11. ASSUME NEW u \in Users, NEW c \in Caps \cup {NoCap, cap[u]}, NEW reset \in BOOLEAN,
              PatchPurse(u, c, reset)
       PROVE  StoreTypeOK'
  BY <1>11 DEF PatchPurse
<1>12. ASSUME NEW u \in Users, DeleteUser(u)
       PROVE  StoreTypeOK'
  BY <1>12, UnlinkedRows DEF DeleteUser
<1>13. ASSUME NEW t \in Tx, DebitStep(t)
       PROVE  StoreTypeOK'
  <2>1. \A o \in Orgs, u \in Users, a \in Amounts :
          DebitWallet(t, o, u, a) \/ DebitInsufficient(t, o, a) \/ DebitActorGone(t, o, u, a)
          => StoreTypeOK'
    BY <1>1, <1>2, <1>3
  <2>2. DebitCapExceeded(t) => StoreTypeOK'
    BY <1>6 DEF DebitCapExceeded
  <2>3. QED
    BY <1>4, <1>5, <1>13, <2>1, <2>2 DEF DebitStep
<1>14. ASSUME NEW t \in Tx, CreditStep(t)
       PROVE  StoreTypeOK'
  BY <1>7, <1>8, <1>9, <1>14 DEF CreditStep
<1>15. ASSUME NEW t \in Tx, CloseStep(t)
       PROVE  StoreTypeOK'
  BY <1>6, <1>10, <1>15 DEF CloseStep, Abort
<1>16. ASSUME AdminStep
       PROVE  StoreTypeOK'
  BY <1>11, <1>12, <1>16 DEF AdminStep
<1>17. QED
  BY <1>13, <1>14, <1>15, <1>16 DEF StoreNext

---------------------------------------------------------------------------
(* The inductive invariant: one lemma per kind of step                     *)

LEMMA InitInv == StoreInit => StoreInv
<1> SUFFICES ASSUME StoreInit PROVE StoreInv
  OBVIOUS
<1>1. StoreTypeOK
  BY InitTypeOK
<1>2. WalletLocks /\ UserLocks
  BY DEF StoreInit, WalletLocks, UserLocks
<1>3. PendingRows
  BY DEF StoreInit, PendingRows, NoRow
<1>4. IdsHandedOut /\ IdsInCommitOrder /\ PaymentCreditedOnce
  BY DEF StoreInit, IdsHandedOut, IdsInCommitOrder, PaymentCreditedOnce
<1>5. LedgerChain
  <2>1. \A o \in Orgs : balance[o] = 0 /\ ledger[o] = << >>
    BY DEF StoreInit
  <2>2. \A o \in Orgs : LastAfter(o) = 0
    BY <2>1 DEF LastAfter
  <2>3. \A o \in Orgs : Len(ledger[o]) = 0
    BY <2>1, EmptySeq
  <2>4. \A o \in Orgs : \A i \in 1..Len(ledger[o]) : FALSE
    BY <2>3
  <2>5. QED
    BY <2>1, <2>2, <2>4 DEF LedgerChain
<1>6. ActorsExist /\ PurseNeverOvercounts
  BY DEF StoreInit, ActorsExist, PurseNeverOvercounts, NoRow
<1>7. QED
  BY <1>1, <1>2, <1>3, <1>4, <1>5, <1>6 DEF StoreInv

(* The part of the invariant that types leave open.                        *)
Rest ==
  /\ WalletLocks /\ UserLocks /\ PendingRows
  /\ IdsHandedOut /\ LedgerChain /\ IdsInCommitOrder /\ PaymentCreditedOnce
  /\ ActorsExist /\ PurseNeverOvercounts

(* A call that returns at once; at most the id sequence has moved.         *)
LEMMA ReturnKeeps ==
  ASSUME StoreInv, nextId' \in {nextId, nextId + 1},
         UNCHANGED <<balance, ledger, cap, spent, live, pc, org, row, locks, billed>>
  PROVE  Rest'
<1> USE DEF StoreInv, StoreTypeOK
<1>1. WalletLocks' /\ UserLocks'
  BY DEF WalletLocks, UserLocks, WithinCap, Charge
<1>2. row' = row /\ \A t \in Tx : row[t].id < nextId => row[t].id < nextId'
  BY DEF Row
<1>3. PendingRows'
  BY <1>2 DEF PendingRows, WellFormed, Recorded
<1>4. IdsHandedOut'
  <2>1. \A o \in Orgs : \A i \in 1..Len(ledger[o]) : ledger[o][i] \in Row
    BY ElementOfSeq
  <2>2. \A o \in Orgs : \A i \in 1..Len(ledger[o]) : ledger[o][i].id \in Nat
    BY <2>1 DEF Row
  <2>3. QED
    BY <2>2 DEF IdsHandedOut
<1>5. LedgerChain' /\ IdsInCommitOrder' /\ PaymentCreditedOnce'
  BY DEF LedgerChain, LastAfter, PrevAfter, IdsInCommitOrder, PaymentCreditedOnce
<1>6. ActorsExist' /\ PurseNeverOvercounts'
  BY DEF ActorsExist, PurseNeverOvercounts
<1>7. QED
  BY <1>1, <1>3, <1>4, <1>5, <1>6 DEF Rest

(* An open transaction moves on without touching any row.                  *)
LEMMA MoveKeeps ==
  ASSUME StoreInv, NEW t \in Tx, pc[t] \in {"charged", "recheck"},
         NEW p \in Open, pc' = [pc EXCEPT ![t] = p],
         UNCHANGED <<tables, org, row, walletLock, billed>>,
         \/ userLock' = userLock
         \/ /\ p = "ready" /\ WithinCap(row[t].actor, Charge(t))
            /\ userLock' = [userLock EXCEPT ![row[t].actor] = t]
  PROVE  Rest'
<1> USE DEF StoreInv, StoreTypeOK
<1>1. WalletLocks'
  BY DEF WalletLocks, Open
<1>2. row[t].kind = "charge" /\ row[t].actor \in Users
  BY DEF PendingRows, WellFormed
<1>3. UserLocks'
  <2>1. CASE userLock' = userLock
    BY <2>1, StoreAssumption DEF UserLocks, WithinCap, Charge
  <2>2. CASE /\ p = "ready" /\ WithinCap(row[t].actor, Charge(t))
             /\ userLock' = [userLock EXCEPT ![row[t].actor] = t]
    BY <1>2, <2>2, StoreAssumption DEF UserLocks, WithinCap, Charge
  <2>3. QED
    BY <2>1, <2>2
<1>4. PendingRows'
  BY <1>2 DEF PendingRows, WellFormed, Recorded, Open
<1>5. IdsHandedOut' /\ LedgerChain' /\ IdsInCommitOrder' /\ PaymentCreditedOnce'
  BY DEF IdsHandedOut, LedgerChain, LastAfter, PrevAfter, IdsInCommitOrder, PaymentCreditedOnce
<1>6. ActorsExist' /\ PurseNeverOvercounts'
  BY DEF ActorsExist, PurseNeverOvercounts
<1>7. QED
  BY <1>1, <1>3, <1>4, <1>5, <1>6 DEF Rest

(* A transaction opens: it locks the wallet and inserts its row.           *)
LEMMA InsertKeeps ==
  ASSUME StoreInv, NEW t \in Tx, NEW o \in Orgs, NEW r \in Row, NEW p \in {"charged", "ready"},
         pc[t] = "idle", Insert(t, o, r), pc' = [pc EXCEPT ![t] = p],
         WellFormed(r), p = "charged" => r.kind = "charge",
         r.id = nextId, r.after = balance[o] + r.amount,
         r.payment # NoPayment => ~Recorded(r.payment), ~IndexBusy(r.payment),
         r.actor \in live \cup {NoUser},
         UNCHANGED <<balance, ledger, cap, spent, live, userLock, billed>>
  PROVE  Rest'
<1>0. /\ pc \in [Tx -> Open \cup {"idle"}] /\ org \in [Tx -> Orgs \cup {NoOrg}]
      /\ row \in [Tx -> Row] /\ nextId \in Nat
      /\ walletLock \in [Orgs -> Tx \cup {NoTx}] /\ userLock \in [Users -> Tx \cup {NoTx}]
      /\ NoTx \notin Tx
      /\ \A o2 \in Orgs : \A i \in 1..Len(ledger[o2]) : ledger[o2][i].id \in Nat
  <2>1. \A o2 \in Orgs : \A i \in 1..Len(ledger[o2]) : ledger[o2][i] \in Row
    BY ElementOfSeq DEF StoreInv, StoreTypeOK
  <2>2. QED
    BY <2>1, StoreAssumption DEF StoreInv, StoreTypeOK, Row
<1>1. /\ row'[t] = r /\ org'[t] = o /\ walletLock'[o] = t /\ pc'[t] = p
      /\ \A t2 \in Tx \ {t} : row'[t2] = row[t2] /\ org'[t2] = org[t2] /\ pc'[t2] = pc[t2]
      /\ \A o2 \in Orgs \ {o} : walletLock'[o2] = walletLock[o2]
      /\ nextId' = nextId + 1 /\ walletLock[o] = NoTx
  BY <1>0 DEF Insert
<1>2. WalletLocks'
  BY <1>0, <1>1 DEF WalletLocks, StoreInv
<1>3. UserLocks'
  <2>1. \A u \in Users : userLock[u] # NoTx => userLock[u] \in Tx \ {t}
    BY <1>0 DEF UserLocks, StoreInv
  <2>2. QED
    BY <1>1, <2>1 DEF UserLocks, WithinCap, Charge, StoreInv
<1>4. PendingRows'
  <2>1. \A t2 \in Tx : row[t2].id \in Nat
    BY <1>0 DEF Row
  <2>2. \A i \in 1..Len(ledger[o]) : ledger[o][i].id < r.id
    BY DEF IdsHandedOut, StoreInv
  <2>3. \A q : Recorded(q)' <=> Recorded(q)
    BY DEF Recorded
  <2>4. ASSUME NEW t2 \in Tx, pc'[t2] # "idle"
        PROVE  /\ WellFormed(row'[t2])
               /\ pc'[t2] # "ready" => row'[t2].kind = "charge"
               /\ row'[t2].after = balance[org'[t2]] + row'[t2].amount
               /\ row'[t2].id < nextId'
               /\ \A i \in 1..Len(ledger[org'[t2]]) : ledger[org'[t2]][i].id < row'[t2].id
               /\ row'[t2].payment # NoPayment => ~Recorded(row'[t2].payment)
    <3>1. CASE t2 = t
      BY <1>0, <1>1, <2>2, <3>1
    <3>2. CASE t2 # t
      <4>1. row'[t2] = row[t2] /\ org'[t2] = org[t2] /\ pc[t2] # "idle" /\ pc'[t2] = pc[t2]
        BY <1>1, <2>4, <3>2
      <4>2. row[t2].id < nextId'
        BY <1>0, <1>1, <2>1, <4>1 DEF PendingRows, StoreInv
      <4>3. QED
        BY <4>1, <4>2 DEF PendingRows, StoreInv
    <3>3. QED
      BY <3>1, <3>2
  <2>5. \A t1, t2 \in Tx :
          row'[t1].payment = row'[t2].payment /\ row'[t1].payment # NoPayment => t1 = t2
    <3>1. \A t2 \in Tx \ {t} : row[t2].payment = r.payment => r.payment = NoPayment
      BY DEF IndexBusy, WalletLocks, NoRow, StoreInv
    <3>2. QED
      BY <1>1, <3>1 DEF PendingRows, StoreInv
  <2>6. QED
    BY <2>3, <2>4, <2>5 DEF PendingRows, WellFormed
<1>5. IdsHandedOut'
  BY <1>0, <1>1 DEF IdsHandedOut, StoreInv
<1>6. LedgerChain' /\ IdsInCommitOrder' /\ PaymentCreditedOnce'
  BY DEF LedgerChain, LastAfter, PrevAfter, IdsInCommitOrder, PaymentCreditedOnce, StoreInv
<1>7. ActorsExist' /\ PurseNeverOvercounts'
  BY <1>1 DEF ActorsExist, PurseNeverOvercounts, StoreInv
<1>8. QED
  BY <1>2, <1>3, <1>4, <1>5, <1>6, <1>7 DEF Rest

(* The end of a transaction frees its locks and leaves the others alone.   *)
LEMMA ReleaseFrees ==
  ASSUME StoreInv, NEW t \in Tx, NEW result \in Outcomes, Release(t, result)
  PROVE  /\ pc'[t] = "idle" /\ row'[t] = NoRow
         /\ \A t2 \in Tx \ {t} :
              row'[t2] = row[t2] /\ org'[t2] = org[t2] /\ pc'[t2] = pc[t2]
         /\ \A o \in Orgs : walletLock'[o] = IF walletLock[o] = t THEN NoTx ELSE walletLock[o]
         /\ \A u \in Users : userLock'[u] = IF userLock[u] = t THEN NoTx ELSE userLock[u]
         /\ WalletLocks'
         /\ \A t1, t2 \in Tx :
              row'[t1].payment = row'[t2].payment /\ row'[t1].payment # NoPayment => t1 = t2
<1>0. /\ pc \in [Tx -> Open \cup {"idle"}] /\ org \in [Tx -> Orgs \cup {NoOrg}]
      /\ row \in [Tx -> Row]
      /\ walletLock \in [Orgs -> Tx \cup {NoTx}] /\ userLock \in [Users -> Tx \cup {NoTx}]
      /\ NoTx \notin Tx
  BY StoreAssumption DEF StoreInv, StoreTypeOK
<1>1. /\ pc'[t] = "idle" /\ row'[t] = NoRow
      /\ \A t2 \in Tx \ {t} : row'[t2] = row[t2] /\ org'[t2] = org[t2] /\ pc'[t2] = pc[t2]
      /\ \A o \in Orgs : walletLock'[o] = IF walletLock[o] = t THEN NoTx ELSE walletLock[o]
      /\ \A u \in Users : userLock'[u] = IF userLock[u] = t THEN NoTx ELSE userLock[u]
  BY <1>0 DEF Release
<1>2. WalletLocks'
  BY <1>0, <1>1 DEF WalletLocks, StoreInv
<1>3. \A t1, t2 \in Tx :
        row'[t1].payment = row'[t2].payment /\ row'[t1].payment # NoPayment => t1 = t2
  BY <1>1 DEF PendingRows, NoRow, StoreInv
<1>4. QED
  BY <1>1, <1>2, <1>3

(* A transaction is rolled back.                                           *)
LEMMA UndoKeeps ==
  ASSUME StoreInv, NEW t \in Tx, NEW result \in Outcomes, Undo(t, result)
  PROVE  Rest'
<1>0. UNCHANGED <<balance, ledger, nextId, cap, spent, live, billed>>
  BY DEF Undo
<1>1. /\ pc'[t] = "idle" /\ row'[t] = NoRow
      /\ \A t2 \in Tx \ {t} : row'[t2] = row[t2] /\ org'[t2] = org[t2] /\ pc'[t2] = pc[t2]
      /\ \A u \in Users : userLock'[u] = IF userLock[u] = t THEN NoTx ELSE userLock[u]
      /\ WalletLocks'
      /\ \A t1, t2 \in Tx :
           row'[t1].payment = row'[t2].payment /\ row'[t1].payment # NoPayment => t1 = t2
  BY ReleaseFrees DEF Undo
<1>2. userLock \in [Users -> Tx \cup {NoTx}] /\ NoTx \notin Tx
  BY StoreAssumption DEF StoreInv, StoreTypeOK
<1>3. UserLocks'
  BY <1>0, <1>1, <1>2 DEF UserLocks, WithinCap, Charge, StoreInv
<1>4. PendingRows'
  <2>1. \A q : Recorded(q)' <=> Recorded(q)
    BY <1>0 DEF Recorded
  <2>2. \A t2 \in Tx : pc'[t2] # "idle" =>
          t2 # t /\ pc[t2] # "idle" /\ pc'[t2] = pc[t2] /\ row'[t2] = row[t2] /\ org'[t2] = org[t2]
    BY <1>1
  <2>3. \A t2 \in Tx : pc'[t2] # "idle" => (WellFormed(row[t2])' <=> WellFormed(row[t2]))
    BY <2>2 DEF WellFormed
  <2>4. QED
    BY <1>0, <1>1, <2>1, <2>2, <2>3 DEF PendingRows, StoreInv
<1>5. IdsHandedOut' /\ LedgerChain' /\ IdsInCommitOrder' /\ PaymentCreditedOnce'
  <2>1. IdsHandedOut'
    BY <1>0 DEF IdsHandedOut, StoreInv
  <2>2. LedgerChain'
    BY <1>0 DEF LedgerChain, LastAfter, PrevAfter, StoreInv
  <2>3. IdsInCommitOrder'
    BY <1>0 DEF IdsInCommitOrder, StoreInv
  <2>4. PaymentCreditedOnce'
    BY <1>0 DEF PaymentCreditedOnce, StoreInv
  <2>5. QED
    BY <2>1, <2>2, <2>3, <2>4
<1>6. ActorsExist' /\ PurseNeverOvercounts'
  BY <1>0, <1>1 DEF ActorsExist, PurseNeverOvercounts, NoRow, StoreInv
<1>7. QED
  BY <1>1, <1>3, <1>4, <1>5, <1>6 DEF Rest

(* A transaction commits: its row joins the ledger.                        *)
LEMMA CommitKeeps ==
  ASSUME StoreInv, NEW t \in Tx, NEW result \in {"ok", "error"}, Commit(t, result),
         NEW o, o = org[t], NEW r, r = row[t], NEW n, n = Len(ledger[o])
  PROVE  Rest'
<1>0. /\ UNCHANGED <<nextId, cap, live>> /\ pc[t] = "ready" /\ nextId \in Nat
      /\ o \in Orgs /\ r \in Row /\ walletLock[o] = t
      /\ r.id < nextId /\ r.after = balance[o] + r.amount /\ WellFormed(r)
      /\ \A i \in 1..Len(ledger[o]) : ledger[o][i].id < r.id
      /\ r.payment # NoPayment => ~Recorded(r.payment)
      /\ r.actor \in live \cup {NoUser}
      /\ userLock \in [Users -> Tx \cup {NoTx}] /\ NoTx \notin Tx
  BY StoreAssumption
  DEF Commit, StoreInv, StoreTypeOK, WalletLocks, PendingRows, ActorsExist
<1>1. /\ pc'[t] = "idle" /\ row'[t] = NoRow
      /\ \A t2 \in Tx \ {t} : row'[t2] = row[t2] /\ org'[t2] = org[t2] /\ pc'[t2] = pc[t2]
      /\ \A u \in Users : userLock'[u] = IF userLock[u] = t THEN NoTx ELSE userLock[u]
      /\ WalletLocks'
      /\ \A t1, t2 \in Tx :
           row'[t1].payment = row'[t2].payment /\ row'[t1].payment # NoPayment => t1 = t2
  BY ReleaseFrees DEF Commit, Outcomes
<1>2. /\ balance'[o] = r.after /\ ledger'[o] = Append(ledger[o], r)
      /\ \A o2 \in Orgs \ {o} : balance'[o2] = balance[o2] /\ ledger'[o2] = ledger[o2]
      /\ \A o2 \in Orgs : ledger[o2] \in Seq(Row)
  BY <1>0 DEF Commit, StoreInv, StoreTypeOK
<1>3. /\ n \in Nat /\ Len(ledger'[o]) = n + 1 /\ ledger'[o] # << >>
      /\ \A i \in 1..n : ledger'[o][i] = ledger[o][i]
      /\ ledger'[o][n + 1] = r
      /\ 1..(n + 1) = (1..n) \cup {n + 1}
  <2>1. n \in Nat /\ Len(ledger'[o]) = n + 1
    BY <1>0, <1>2, AppendProperties, LenProperties
  <2>2. /\ ledger'[o] # << >>
        /\ \A i \in 1..n : ledger'[o][i] = ledger[o][i]
        /\ ledger'[o][n + 1] = r
    BY <1>0, <1>2, <2>1, AppendProperties, LenProperties
  <2>3. QED
    BY <2>1, <2>2
<1>4. UserLocks'
  <2>1. ASSUME NEW u \in Users, userLock'[u] # NoTx
        PROVE  spent'[u] = spent[u] /\ userLock[u] # t /\ userLock'[u] = userLock[u]
    <3>1. userLock[u] # t /\ userLock'[u] = userLock[u]
      BY <1>1, <2>1
    <3>2. spent'[u] = spent[u]
      BY <3>1 DEF Commit, HoldsUser, StoreInv, StoreTypeOK
    <3>3. QED
      BY <3>1, <3>2
  <2>2. QED
    BY <1>0, <1>1, <2>1 DEF UserLocks, WithinCap, Charge, StoreInv
<1>5. PendingRows'
  <2>1. ASSUME NEW t2 \in Tx, pc'[t2] # "idle"
        PROVE  /\ t2 # t /\ pc[t2] # "idle" /\ pc'[t2] = pc[t2]
               /\ row'[t2] = row[t2] /\ org'[t2] = org[t2]
               /\ org[t2] \in Orgs \ {o}
    BY <1>0, <1>1, <2>1 DEF WalletLocks, StoreInv
  <2>2. ASSUME NEW q, q # NoPayment, q # r.payment, ~Recorded(q)
        PROVE  ~Recorded(q)'
    <3>1. \A o2 \in Orgs : \A i \in 1..Len(ledger[o2]) : ledger[o2][i].payment # q
      BY <2>2 DEF Recorded
    <3>2. \A o2 \in Orgs \ {o} : \A i \in 1..Len(ledger'[o2]) : ledger'[o2][i].payment # q
      BY <1>2, <3>1
    <3>3. \A i \in 1..n : ledger'[o][i].payment # q
      <4>1. \A i \in 1..n : ledger[o][i].payment # q
        BY <1>0, <3>1
      <4>2. QED
        BY <1>3, <4>1
    <3>4. ledger'[o][n + 1].payment # q
      BY <1>3, <2>2
    <3>5. \A i \in 1..Len(ledger'[o]) : ledger'[o][i].payment # q
      BY <1>3, <3>3, <3>4
    <3>6. QED
      BY <3>2, <3>5 DEF Recorded
  <2>3. ASSUME NEW t2 \in Tx, pc'[t2] # "idle"
        PROVE  row[t2].payment # NoPayment => ~Recorded(row[t2].payment)'
    BY <1>0, <2>1, <2>2, <2>3 DEF PendingRows, StoreInv
  <2>4. \A t2 \in Tx : pc'[t2] # "idle" =>
          balance'[org[t2]] = balance[org[t2]] /\ ledger'[org[t2]] = ledger[org[t2]]
    BY <1>2, <2>1
  <2>5. QED
    BY <1>0, <1>1, <2>1, <2>3, <2>4 DEF PendingRows, WellFormed, Recorded, StoreInv
<1>6. IdsHandedOut'
  <2>1. \A o2 \in Orgs \ {o} : \A i \in 1..Len(ledger'[o2]) : ledger'[o2][i].id < nextId'
    BY <1>0, <1>2 DEF IdsHandedOut, StoreInv
  <2>2. \A i \in 1..(n + 1) : ledger'[o][i].id < nextId'
    BY <1>0, <1>3 DEF IdsHandedOut, StoreInv
  <2>3. QED
    BY <1>3, <2>1, <2>2 DEF IdsHandedOut
<1>7. LedgerChain'
  <2>1. ASSUME NEW o2 \in Orgs \ {o}
        PROVE  /\ balance'[o2] = LastAfter(o2)'
               /\ \A i \in 1..Len(ledger'[o2]) :
                    ledger'[o2][i].after = PrevAfter(o2, i)' + ledger'[o2][i].amount
    BY <1>2 DEF LedgerChain, LastAfter, PrevAfter, StoreInv
  <2>2. balance'[o] = LastAfter(o)'
    BY <1>2, <1>3 DEF LastAfter
  <2>3. ASSUME NEW i \in 1..n
        PROVE  ledger'[o][i].after = PrevAfter(o, i)' + ledger'[o][i].amount
    <3>1. PrevAfter(o, i)' = PrevAfter(o, i)
      <4>1. i = 1 \/ i - 1 \in 1..n
        BY <1>3
      <4>2. CASE i = 1
        BY <4>2 DEF PrevAfter
      <4>3. CASE i - 1 \in 1..n
        <5>1. ledger'[o][i - 1] = ledger[o][i - 1]
          BY <1>3, <4>3
        <5>2. QED
          BY <5>1 DEF PrevAfter
      <4>4. QED
        BY <4>1, <4>2, <4>3
    <3>2. QED
      BY <1>0, <1>3, <3>1 DEF LedgerChain, StoreInv
  <2>4. PrevAfter(o, n + 1)' = balance[o]
    <3>1. balance[o] = LastAfter(o)
      BY <1>0 DEF LedgerChain, StoreInv
    <3>2. CASE ledger[o] = << >>
      <4>1. n = 0
        BY <3>2
      <4>2. QED
        BY <3>1, <3>2, <4>1 DEF LastAfter, PrevAfter
    <3>3. CASE ledger[o] # << >>
      <4>1. n \in Nat \ {0}
        BY <1>0, <1>2, <3>3, EmptySeq
      <4>2. PrevAfter(o, n + 1)' = ledger[o][n].after
        BY <1>3, <4>1 DEF PrevAfter
      <4>3. QED
        BY <3>1, <3>3, <4>2 DEF LastAfter
    <3>4. QED
      BY <3>2, <3>3
  <2>5. ledger'[o][n + 1].after = PrevAfter(o, n + 1)' + ledger'[o][n + 1].amount
    BY <1>0, <1>3, <2>4
  <2>6. \A i \in 1..Len(ledger'[o]) :
          ledger'[o][i].after = PrevAfter(o, i)' + ledger'[o][i].amount
    BY <1>3, <2>3, <2>5
  <2>7. QED
    BY <2>1, <2>2, <2>6 DEF LedgerChain
<1>8. IdsInCommitOrder'
  <2>1. \A o2 \in Orgs \ {o} : \A i, j \in 1..Len(ledger'[o2]) :
          i < j => ledger'[o2][i].id < ledger'[o2][j].id
    BY <1>2 DEF IdsInCommitOrder, StoreInv
  <2>2. ASSUME NEW i \in 1..(n + 1), NEW j \in 1..(n + 1), i < j
        PROVE  ledger'[o][i].id < ledger'[o][j].id
    <3>1. i \in 1..n
      BY <1>3, <2>2
    <3>2. CASE j = n + 1
      BY <1>0, <1>3, <3>1, <3>2
    <3>3. CASE j \in 1..n
      BY <1>0, <1>3, <2>2, <3>1, <3>3 DEF IdsInCommitOrder, StoreInv
    <3>4. QED
      BY <1>3, <3>2, <3>3
  <2>3. \A i, j \in 1..Len(ledger'[o]) : i < j => ledger'[o][i].id < ledger'[o][j].id
    BY <1>3, <2>2
  <2>4. QED
    BY <2>1, <2>3 DEF IdsInCommitOrder
<1>9. PaymentCreditedOnce'
  <2>1. \A o2 \in Orgs : \A i \in 1..Len(ledger[o2]) :
          ledger[o2][i].payment = r.payment => r.payment = NoPayment
    BY <1>0 DEF Recorded
  <2>2. ASSUME NEW o2 \in Orgs, NEW i \in 1..Len(ledger'[o2])
        PROVE  \/ i \in 1..Len(ledger[o2]) /\ ledger'[o2][i] = ledger[o2][i]
               \/ o2 = o /\ i = n + 1 /\ ledger'[o2][i] = r
    <3>1. CASE o2 # o
      BY <1>2, <3>1
    <3>2. CASE o2 = o
      <4>1. i \in 1..n \/ i = n + 1
        BY <1>3, <3>2
      <4>2. CASE i \in 1..n
        BY <1>3, <3>2, <4>2
      <4>3. CASE i = n + 1
        BY <1>3, <3>2, <4>3
      <4>4. QED
        BY <4>1, <4>2, <4>3
    <3>3. QED
      BY <3>1, <3>2
  <2>3. ASSUME NEW o1 \in Orgs, NEW o2 \in Orgs,
               NEW i \in 1..Len(ledger'[o1]), NEW j \in 1..Len(ledger'[o2]),
               ledger'[o1][i].payment # NoPayment,
               ledger'[o1][i].payment = ledger'[o2][j].payment
        PROVE  o1 = o2 /\ i = j
    <3>1. CASE o1 = o /\ i = n + 1 /\ ledger'[o1][i] = r
      <4>1. ~(j \in 1..Len(ledger[o2]) /\ ledger'[o2][j] = ledger[o2][j])
        BY <2>1, <2>3, <3>1
      <4>2. QED
        BY <2>2, <3>1, <4>1
    <3>2. CASE o2 = o /\ j = n + 1 /\ ledger'[o2][j] = r
      <4>1. ~(i \in 1..Len(ledger[o1]) /\ ledger'[o1][i] = ledger[o1][i])
        BY <2>1, <2>3, <3>2
      <4>2. QED
        BY <2>2, <3>2, <4>1
    <3>3. CASE /\ i \in 1..Len(ledger[o1]) /\ ledger'[o1][i] = ledger[o1][i]
               /\ j \in 1..Len(ledger[o2]) /\ ledger'[o2][j] = ledger[o2][j]
      BY <2>3, <3>3 DEF PaymentCreditedOnce, StoreInv
    <3>4. QED
      BY <2>2, <3>1, <3>2, <3>3
  <2>4. QED
    BY <2>3 DEF PaymentCreditedOnce
<1>10. ActorsExist'
  <2>1. \A o2 \in Orgs \ {o} : \A i \in 1..Len(ledger'[o2]) :
          ledger'[o2][i].actor \in live \cup {NoUser}
    BY <1>2 DEF ActorsExist, StoreInv
  <2>2. \A i \in 1..(n + 1) : ledger'[o][i].actor \in live \cup {NoUser}
    <3>1. ASSUME NEW i \in 1..n
          PROVE  ledger'[o][i].actor \in live \cup {NoUser}
      <4>1. ledger[o][i].actor \in live \cup {NoUser}
        BY <1>0 DEF ActorsExist, StoreInv
      <4>2. QED
        BY <1>3, <4>1
    <3>2. ledger'[o][n + 1].actor \in live \cup {NoUser}
      BY <1>0, <1>3 DEF ActorsExist, StoreInv
    <3>3. QED
      BY <1>3, <3>1, <3>2
  <2>3. \A t2 \in Tx : row'[t2].actor \in live \cup {NoUser}
    BY <1>1 DEF ActorsExist, NoRow, StoreInv
  <2>4. QED
    BY <1>0, <1>3, <2>1, <2>2, <2>3 DEF ActorsExist
<1>11. PurseNeverOvercounts'
  <2>1. r.kind = "charge" => Charge(t) \in Nat /\ r.actor \in Users
    BY <1>0, StoreAssumption DEF WellFormed, Charge
  <2>2. HoldsUser(t) => r.kind = "charge"
    BY <1>0 DEF HoldsUser, UserLocks, StoreInv
  <2>3. spent \in [Users -> Nat] /\ billed \in [Users -> Nat]
    BY DEF StoreInv, StoreTypeOK
  <2>4. QED
    BY <2>1, <2>2, <2>3 DEF Commit, PurseNeverOvercounts, StoreInv
<1>12. QED
  BY <1>1, <1>4, <1>5, <1>6, <1>7, <1>8, <1>9, <1>10, <1>11 DEF Rest

(* An admin changes a purse whose row nobody holds.                        *)
LEMMA PatchKeeps ==
  ASSUME StoreInv, NEW u \in Users, NEW c \in Caps \cup {NoCap, cap[u]}, NEW reset \in BOOLEAN,
         PatchPurse(u, c, reset)
  PROVE  Rest'
<1>1. /\ UNCHANGED <<balance, ledger, nextId, live, locks, calls>>
      /\ userLock[u] = NoTx
      /\ \A v \in Users \ {u} : cap'[v] = cap[v] /\ spent'[v] = spent[v] /\ billed'[v] = billed[v]
      /\ spent'[u] = (IF reset THEN 0 ELSE spent[u])
      /\ billed'[u] = (IF reset THEN 0 ELSE billed[u])
  BY DEF PatchPurse, StoreInv, StoreTypeOK
<1>2. WalletLocks'
  BY <1>1 DEF WalletLocks, StoreInv
<1>3. UserLocks'
  BY <1>1 DEF UserLocks, WithinCap, Charge, StoreInv
<1>4. PendingRows'
  BY <1>1 DEF PendingRows, WellFormed, Recorded, StoreInv
<1>5. IdsHandedOut' /\ LedgerChain' /\ IdsInCommitOrder' /\ PaymentCreditedOnce'
  BY <1>1 DEF IdsHandedOut, LedgerChain, LastAfter, PrevAfter, IdsInCommitOrder,
              PaymentCreditedOnce, StoreInv
<1>6. ActorsExist' /\ PurseNeverOvercounts'
  BY <1>1 DEF ActorsExist, PurseNeverOvercounts, StoreInv
<1>7. QED
  BY <1>2, <1>3, <1>4, <1>5, <1>6 DEF Rest

(* A user is deleted: ledgers lose the actor and nothing else.             *)
LEMMA DeleteKeeps ==
  ASSUME StoreInv, NEW u \in Users, DeleteUser(u)
  PROVE  Rest'
<1>1. /\ UNCHANGED <<balance, nextId, cap, spent, locks, calls, billed>>
      /\ live' = live \ {u} /\ \A t \in Tx : row[t].actor # u
      /\ \A o \in Orgs : ledger[o] \in Seq(Row) /\ ledger'[o] = Unlinked(ledger[o], u)
  BY DEF DeleteUser, StoreInv, StoreTypeOK
<1>2. \A o \in Orgs :
        /\ Len(ledger'[o]) = Len(ledger[o])
        /\ ledger'[o] = << >> <=> ledger[o] = << >>
        /\ \A i \in 1..Len(ledger[o]) :
             /\ ledger'[o][i].id = ledger[o][i].id
             /\ ledger'[o][i].amount = ledger[o][i].amount
             /\ ledger'[o][i].after = ledger[o][i].after
             /\ ledger'[o][i].payment = ledger[o][i].payment
             /\ ledger'[o][i].actor = IF ledger[o][i].actor = u THEN NoUser ELSE ledger[o][i].actor
  <2>1. \A o \in Orgs : Len(ledger'[o]) = Len(ledger[o]) /\ ledger'[o] \in Seq(Row)
    BY <1>1, UnlinkedRows
  <2>2. \A o \in Orgs : ledger'[o] = << >> <=> ledger[o] = << >>
    BY <1>1, <2>1, EmptySeq
  <2>3. QED
    BY <1>1, <2>1, <2>2, UnlinkedRows
<1>3. WalletLocks' /\ UserLocks'
  BY <1>1 DEF WalletLocks, UserLocks, WithinCap, Charge, StoreInv
<1>4. PendingRows'
  <2>1. \A q : Recorded(q)' <=> Recorded(q)
    BY <1>2 DEF Recorded
  <2>2. \A t \in Tx : pc[t] # "idle" => org[t] \in Orgs
    BY DEF StoreInv, WalletLocks
  <2>3. \A t \in Tx : WellFormed(row[t])' <=> WellFormed(row[t])
    BY <1>1 DEF WellFormed
  <2>4. ASSUME NEW t \in Tx, pc[t] # "idle"
        PROVE  /\ row[t].after = balance'[org[t]] + row[t].amount
               /\ \A i \in 1..Len(ledger'[org[t]]) : ledger'[org[t]][i].id < row[t].id
    <3>1. org[t] \in Orgs
      BY <2>2, <2>4
    <3>2. \A i \in 1..Len(ledger[org[t]]) : ledger[org[t]][i].id < row[t].id
      BY <2>4 DEF PendingRows, StoreInv
    <3>3. QED
      BY <1>1, <1>2, <2>4, <3>1, <3>2 DEF PendingRows, StoreInv
  <2>5. QED
    BY <1>1, <2>1, <2>3, <2>4 DEF PendingRows, StoreInv
<1>5. IdsHandedOut' /\ IdsInCommitOrder' /\ PaymentCreditedOnce'
  <2>1. IdsHandedOut'
    BY <1>1, <1>2 DEF IdsHandedOut, StoreInv
  <2>2. IdsInCommitOrder'
    BY <1>1, <1>2 DEF IdsInCommitOrder, StoreInv
  <2>3. PaymentCreditedOnce'
    <3>1. \A o \in Orgs : Len(ledger'[o]) = Len(ledger[o])
      BY <1>1, <1>2
    <3>2. \A o \in Orgs : \A i \in 1..Len(ledger[o]) : ledger'[o][i].payment = ledger[o][i].payment
      BY <1>2
    <3>3. PaymentCreditedOnce
      BY DEF StoreInv
    <3>4. QED
      BY <3>1, <3>2, <3>3 DEF PaymentCreditedOnce
  <2>4. QED
    BY <2>1, <2>2, <2>3
<1>6. LedgerChain'
  <2>1. \A o \in Orgs : Len(ledger[o]) \in Nat /\ (ledger[o] # << >> => Len(ledger[o]) \in 1..Len(ledger[o]))
    BY <1>1, EmptySeq, LenProperties
  <2>2. \A o \in Orgs : LastAfter(o)' = LastAfter(o)
    BY <1>2, <2>1 DEF LastAfter
  <2>3. \A o \in Orgs : \A i \in 1..Len(ledger[o]) : PrevAfter(o, i)' = PrevAfter(o, i)
    BY <1>2, <2>1 DEF PrevAfter
  <2>4. QED
    BY <1>1, <1>2, <2>2, <2>3 DEF LedgerChain, StoreInv
<1>7. ActorsExist' /\ PurseNeverOvercounts'
  BY <1>1, <1>2 DEF ActorsExist, PurseNeverOvercounts, StoreInv
<1>8. QED
  BY <1>3, <1>4, <1>5, <1>6, <1>7 DEF Rest
---------------------------------------------------------------------------
(* The inductive step: each action is one of the kinds above               *)

LEMMA DebitKeeps ==
  ASSUME StoreInv, NEW t \in Tx, DebitStep(t)
  PROVE  Rest'
<1>1. ASSUME NEW o \in Orgs, NEW u \in Users, NEW a \in Amounts, DebitWallet(t, o, u, a)
      PROVE  Rest'
  <2> DEFINE r == [id |-> nextId, kind |-> "charge", amount |-> -a,
                   after |-> balance[o] - a, actor |-> u, payment |-> NoPayment]
  <2>1. balance[o] - a \in Nat /\ -a \in Int /\ nextId \in Nat /\ a \in Nat
    BY <1>1, StoreAssumption DEF DebitWallet, StoreInv, StoreTypeOK
  <2>2. r \in Row
    BY <2>1, NewRowIsRow DEF Kinds
  <2>3. Insert(t, o, r) /\ pc' = [pc EXCEPT ![t] = "charged"] /\ pc[t] = "idle" /\ u \in live
    BY <1>1 DEF DebitWallet
  <2>4. /\ r.id = nextId /\ r.after = balance[o] + r.amount /\ r.kind = "charge"
        /\ r.payment = NoPayment /\ r.actor = u
    BY <2>1, StoreAssumption DEF StoreInv, StoreTypeOK
  <2>5. WellFormed(r)
    BY <2>1 DEF WellFormed
  <2>6. ~IndexBusy(r.payment)
    BY <2>4 DEF IndexBusy
  <2>7. UNCHANGED <<balance, ledger, cap, spent, live, userLock, billed>>
    BY <1>1 DEF DebitWallet
  <2> HIDE DEF r
  <2>8. QED
    BY <2>2, <2>3, <2>4, <2>5, <2>6, <2>7, InsertKeeps
<1>2. ASSUME NEW o \in Orgs, NEW a \in Amounts, DebitInsufficient(t, o, a)
      PROVE  Rest'
  BY <1>2, ReturnKeeps DEF DebitInsufficient, Return
<1>3. ASSUME NEW o \in Orgs, NEW u \in Users, NEW a \in Amounts, DebitActorGone(t, o, u, a)
      PROVE  Rest'
  BY <1>3, ReturnKeeps DEF DebitActorGone, Return
<1>4. ASSUME DebitUser(t)
      PROVE  Rest'
  BY <1>4, MoveKeeps DEF DebitUser, Open
<1>5. ASSUME DebitOverCap(t)
      PROVE  Rest'
  BY <1>5, MoveKeeps DEF DebitOverCap, Open
<1>6. ASSUME DebitUncapped(t)
      PROVE  Rest'
  BY <1>6, MoveKeeps DEF DebitUncapped, Open
<1>7. ASSUME DebitCapExceeded(t)
      PROVE  Rest'
  BY <1>7, UndoKeeps DEF DebitCapExceeded, Outcomes
<1>8. QED
  BY <1>1, <1>2, <1>3, <1>4, <1>5, <1>6, <1>7 DEF DebitStep

LEMMA CreditKeeps ==
  ASSUME StoreInv, NEW t \in Tx, CreditStep(t)
  PROVE  Rest'
<1>1. ASSUME NEW o \in Orgs, NEW u \in Users \cup {NoUser}, NEW a \in Amounts,
             NEW k \in {"deposit", "admin_credit"}, NEW p \in Payments \cup {NoPayment},
             CreditWallet(t, o, u, a, k, p)
      PROVE  Rest'
  <2> DEFINE r == [id |-> nextId, kind |-> k, amount |-> a,
                   after |-> balance[o] + a, actor |-> u, payment |-> p]
  <2>1. balance[o] + a \in Nat /\ a \in Int /\ nextId \in Nat
    BY StoreAssumption DEF StoreInv, StoreTypeOK
  <2>2. r \in Row
    BY <2>1, NewRowIsRow DEF Kinds
  <2>3. /\ Insert(t, o, r) /\ pc' = [pc EXCEPT ![t] = "ready"] /\ pc[t] = "idle"
        /\ u \in live \cup {NoUser} /\ (p = NoPayment \/ ~Recorded(p)) /\ ~IndexBusy(p)
    BY <1>1 DEF CreditWallet
  <2>4. /\ r.id = nextId /\ r.after = balance[o] + r.amount /\ r.kind = k
        /\ r.payment = p /\ r.actor = u
    OBVIOUS
  <2>5. WellFormed(r)
    BY DEF WellFormed
  <2>6. UNCHANGED <<balance, ledger, cap, spent, live, userLock, billed>>
    BY <1>1 DEF CreditWallet
  <2> HIDE DEF r
  <2>7. QED
    BY <2>2, <2>3, <2>4, <2>5, <2>6, InsertKeeps
<1>2. ASSUME NEW o \in Orgs, NEW p \in Payments, CreditDuplicate(t, o, p)
      PROVE  Rest'
  BY <1>2, ReturnKeeps DEF CreditDuplicate, Return
<1>3. ASSUME NEW o \in Orgs, NEW u \in Users \cup {NoUser}, CreditActorGone(t, o, u)
      PROVE  Rest'
  BY <1>3, ReturnKeeps DEF CreditActorGone, Return
<1>4. QED
  BY <1>1, <1>2, <1>3 DEF CreditStep

LEMMA CloseKeeps ==
  ASSUME StoreInv, NEW t \in Tx, CloseStep(t)
  PROVE  Rest'
<1>1. ASSUME Abort(t)
      PROVE  Rest'
  BY <1>1, UndoKeeps DEF Abort, Outcomes
<1>2. ASSUME NEW result \in {"ok", "error"}, Commit(t, result)
      PROVE  Rest'
  BY <1>2, CommitKeeps
<1>3. QED
  BY <1>1, <1>2 DEF CloseStep

(* The invariant is inductive: every step of the store, and every step of  *)
(* anything else, which leaves the store alone, preserves it.              *)
THEOREM NextInv == StoreInv /\ [StoreNext]_storeVars => StoreInv'
<1> SUFFICES ASSUME StoreInv, [StoreNext]_storeVars PROVE StoreInv'
  OBVIOUS
<1>1. ASSUME StoreNext
      PROVE  StoreInv'
  <2>1. StoreTypeOK'
    BY <1>1, NextTypeOK DEF StoreInv
  <2>2. Rest'
    BY <1>1, DebitKeeps, CreditKeeps, CloseKeeps, PatchKeeps, DeleteKeeps
    DEF StoreNext, AdminStep
  <2>3. QED
    BY <2>1, <2>2 DEF StoreInv, Rest
<1>2. ASSUME UNCHANGED storeVars
      PROVE  StoreInv'
  <2>1. StoreTypeOK'
    BY <1>2 DEF StoreInv, StoreTypeOK
  <2>2. Rest'
    BY <1>2, ReturnKeeps
  <2>3. QED
    BY <2>1, <2>2 DEF StoreInv, Rest
<1>3. QED
  BY <1>1, <1>2

---------------------------------------------------------------------------
(* What holds in every state the store can reach                           *)

(* The inductive invariant holds in every reachable state of Debit,        *)
(* Credit, PATCH and DELETE, however they overlap and whichever fail.      *)
THEOREM StoreInvariant == StoreSpec => []StoreInv
<1>1. StoreInit => StoreInv
  BY InitInv
<1>2. StoreInv /\ [StoreNext]_storeVars => StoreInv'
  BY NextInv
<1>3. QED
  BY <1>1, <1>2, PTL DEF StoreSpec

(* No balance, counter or ledger value ever leaves its type; in particular *)
(* no overlap of debits takes a balance below zero.                        *)
THEOREM TypeCorrect == StoreSpec => []StoreTypeOK
<1>1. StoreInv => StoreTypeOK
  BY DEF StoreInv
<1>2. QED
  BY <1>1, StoreInvariant, PTL

(* The balance column is always the sum of the organisation's ledger.      *)
THEOREM LedgerChainHolds == StoreSpec => []LedgerChain
<1>1. StoreInv => LedgerChain
  BY DEF StoreInv
<1>2. QED
  BY <1>1, StoreInvariant, PTL

(* Ledger ids of one organisation become visible in increasing order.      *)
THEOREM IdsInCommitOrderHolds == StoreSpec => []IdsInCommitOrder
<1>1. StoreInv => IdsInCommitOrder
  BY DEF StoreInv
<1>2. QED
  BY <1>1, StoreInvariant, PTL

(* No gateway payment is ever credited twice.                              *)
THEOREM PaymentCreditedOnceHolds == StoreSpec => []PaymentCreditedOnce
<1>1. StoreInv => PaymentCreditedOnce
  BY DEF StoreInv
<1>2. QED
  BY <1>1, StoreInvariant, PTL

(* A deletion never leaves a ledger row or a transaction without its user. *)
THEOREM ActorsExistHolds == StoreSpec => []ActorsExist
<1>1. StoreInv => ActorsExist
  BY DEF StoreInv
<1>2. QED
  BY <1>1, StoreInvariant, PTL

(* An operator's counter never says more than the operator was charged.    *)
THEOREM PurseNeverOvercountsHolds == StoreSpec => []PurseNeverOvercounts
<1>1. StoreInv => PurseNeverOvercounts
  BY DEF StoreInv
<1>2. QED
  BY <1>1, StoreInvariant, PTL

---------------------------------------------------------------------------
(* What no step may do                                                     *)

(* Only a commit raises a spent counter, and a commit that does holds the  *)
(* lock under which the cap was last compared.                             *)
LEMMA CapStep ==
  ASSUME StoreInv, [StoreNext]_storeVars, NEW u \in Users, spent'[u] > spent[u], cap[u] # NoCap
  PROVE  spent'[u] <= cap[u]
<1>1. spent \in [Users -> Nat] /\ row \in [Tx -> Row] /\ NoTx \notin Tx
  BY StoreAssumption DEF StoreInv, StoreTypeOK
<1>2. ASSUME UNCHANGED spent
      PROVE  FALSE
  BY <1>1, <1>2
<1>3. ASSUME NEW t \in Tx, NEW result \in {"ok", "error"}, Commit(t, result)
      PROVE  spent'[u] <= cap[u]
  <2>1. HoldsUser(t) /\ row[t].actor = u /\ spent'[u] = spent[u] + Charge(t)
    BY <1>1, <1>3 DEF Commit
  <2>2. userLock[u] = t
    BY <2>1 DEF HoldsUser
  <2>3. WithinCap(u, Charge(t))
    BY <1>1, <2>2 DEF UserLocks, StoreInv
  <2>4. QED
    BY <2>1, <2>3 DEF WithinCap
<1>4. ASSUME NEW v \in Users, NEW c \in Caps \cup {NoCap, cap[v]}, NEW reset \in BOOLEAN,
             PatchPurse(v, c, reset)
      PROVE  FALSE
  BY <1>1, <1>4 DEF PatchPurse
<1>5. ASSUME NEW t \in Tx, DebitStep(t) \/ CreditStep(t)
      PROVE  FALSE
  <2>1. UNCHANGED spent
    BY <1>5, OpenStepKeeps
  <2>2. QED
    BY <1>2, <2>1
<1>6. ASSUME NEW t \in Tx, Abort(t)
      PROVE  FALSE
  BY <1>2, <1>6 DEF Abort, Undo
<1>7. ASSUME NEW v \in Users, DeleteUser(v)
      PROVE  FALSE
  BY <1>2, <1>7 DEF DeleteUser
<1>8. QED
  BY <1>2, <1>3, <1>4, <1>5, <1>6, <1>7 DEF StoreNext, CloseStep, AdminStep

(* No charge takes an operator past the cap in force when it commits.      *)
THEOREM CapHonouredHolds == StoreSpec => CapHonoured
<1>1. StoreInv /\ [StoreNext]_storeVars
      => [\A u \in Users :
            spent'[u] > spent[u] /\ cap[u] # NoCap => spent'[u] <= cap[u]]_storeVars
  BY CapStep
<1>2. QED
  BY <1>1, StoreInvariant, PTL DEF StoreSpec, CapHonoured

(* What one step may do to an organisation's ledger: append or unlink.     *)
LEMMA LedgerStep ==
  ASSUME StoreInv, [StoreNext]_storeVars, NEW o \in Orgs
  PROVE  /\ Len(ledger'[o]) >= Len(ledger[o])
         /\ \A i \in 1..Len(ledger[o]) :
              \/ ledger'[o][i] = ledger[o][i]
              \/ ledger'[o][i] = [ledger[o][i] EXCEPT !.actor = NoUser]
<1>1. /\ \A o2 \in Orgs : ledger[o2] \in Seq(Row) /\ Len(ledger[o2]) \in Nat
      /\ ledger \in [Orgs -> Seq(Row)] /\ row \in [Tx -> Row]
  BY LenProperties DEF StoreInv, StoreTypeOK
<1>2. ASSUME ledger'[o] = ledger[o]
      PROVE  /\ Len(ledger'[o]) >= Len(ledger[o])
             /\ \A i \in 1..Len(ledger[o]) : ledger'[o][i] = ledger[o][i]
  BY <1>1, <1>2
<1>3. ASSUME NEW t \in Tx, NEW result \in {"ok", "error"}, Commit(t, result)
      PROVE  /\ Len(ledger'[o]) >= Len(ledger[o])
             /\ \A i \in 1..Len(ledger[o]) : ledger'[o][i] = ledger[o][i]
  <2>1. CASE org[t] = o
    <3>1. ledger'[o] = Append(ledger[o], row[t]) /\ row[t] \in Row
      BY <1>1, <1>3, <2>1 DEF Commit
    <3>2. QED
      BY <1>1, <3>1, AppendProperties
  <2>2. CASE org[t] # o
    BY <1>1, <1>2, <1>3, <2>2 DEF Commit
  <2>3. QED
    BY <2>1, <2>2
<1>4. ASSUME NEW v \in Users, DeleteUser(v)
      PROVE  /\ Len(ledger'[o]) >= Len(ledger[o])
             /\ \A i \in 1..Len(ledger[o]) :
                  \/ ledger'[o][i] = ledger[o][i]
                  \/ ledger'[o][i] = [ledger[o][i] EXCEPT !.actor = NoUser]
  <2>1. ledger'[o] = Unlinked(ledger[o], v)
    BY <1>4 DEF DeleteUser
  <2>2. Len(ledger'[o]) = Len(ledger[o])
    BY <1>1, <2>1, UnlinkedRows
  <2>3. ASSUME NEW i \in 1..Len(ledger[o])
        PROVE  \/ ledger'[o][i] = ledger[o][i]
               \/ ledger'[o][i] = [ledger[o][i] EXCEPT !.actor = NoUser]
    <3>1. ledger[o][i] \in Row
      BY <1>1, ElementOfSeq
    <3>2. ledger'[o][i] = [ledger[o][i] EXCEPT !.actor = IF @ = v THEN NoUser ELSE @]
      BY <2>1 DEF Unlinked
    <3>3. QED
      BY <3>1, <3>2 DEF Row
  <2>4. QED
    BY <1>1, <2>2, <2>3
<1>5. ASSUME NEW t \in Tx, DebitStep(t) \/ CreditStep(t)
      PROVE  ledger'[o] = ledger[o]
  BY <1>5, OpenStepKeeps
<1>6. ASSUME NEW t \in Tx, Abort(t)
      PROVE  ledger'[o] = ledger[o]
  BY <1>6 DEF Abort, Undo
<1>7. ASSUME NEW v \in Users, NEW c \in Caps \cup {NoCap, cap[v]}, NEW reset \in BOOLEAN,
             PatchPurse(v, c, reset)
      PROVE  ledger'[o] = ledger[o]
  BY <1>7 DEF PatchPurse
<1>8. UNCHANGED storeVars => ledger'[o] = ledger[o]
  OBVIOUS
<1>9. QED
  BY <1>2, <1>3, <1>4, <1>5, <1>6, <1>7, <1>8 DEF StoreNext, CloseStep, AdminStep

(* No step drops or rewrites a committed ledger row, but for its actor.    *)
THEOREM LedgerAppendOnlyHolds == StoreSpec => LedgerAppendOnly
<1>1. StoreInv /\ [StoreNext]_storeVars
      => [\A o \in Orgs :
            /\ Len(ledger'[o]) >= Len(ledger[o])
            /\ \A i \in 1..Len(ledger[o]) :
                 \/ ledger'[o][i] = ledger[o][i]
                 \/ ledger'[o][i] = [ledger[o][i] EXCEPT !.actor = NoUser]]_storeVars
  BY LedgerStep
<1>2. QED
  BY <1>1, StoreInvariant, PTL DEF StoreSpec, LedgerAppendOnly
---------------------------------------------------------------------------
(* Charge and counter                                                      *)

(* A transaction that commits a charge without having moved the counter    *)
(* has found its user's cap cleared under it.  Any other call that was over*)
(* the cap still has a cap to be over, and any other charge about to commit*)
(* holds its user's row.                                                   *)
PurseInv ==
  /\ \A u \in Users \ raced : spent[u] = billed[u]
  /\ \A t \in Tx : pc[t] = "recheck" => cap[row[t].actor] # NoCap \/ row[t].actor \in raced
  /\ \A t \in Tx : pc[t] = "ready" /\ row[t].kind = "charge" =>
       userLock[row[t].actor] = t \/ row[t].actor \in raced

LEMMA InitPurse == StoreInit => PurseInv
  BY DEF StoreInit, PurseInv

(* Who ends gives up the locks that are its own, and no other.             *)
LEMMA ReleaseKeepsPurse ==
  ASSUME StoreInv, PurseInv, NEW t \in Tx, NEW result, Release(t, result), UNCHANGED <<cap, raced>>,
         \A u \in Users \ raced : spent'[u] = billed'[u]
  PROVE  PurseInv'
<1>1. /\ pc' = [pc EXCEPT ![t] = "idle"] /\ row' = [row EXCEPT ![t] = NoRow]
      /\ pc \in [Tx -> Open \cup {"idle"}] /\ row \in [Tx -> Row]
      /\ userLock' = [u \in Users |-> IF userLock[u] = t THEN NoTx ELSE userLock[u]]
  BY DEF Release, StoreInv, StoreTypeOK
<1>2. ASSUME NEW s \in Tx, s # t
      PROVE  pc'[s] = pc[s] /\ row'[s] = row[s]
  BY <1>1, <1>2
<1>3. ASSUME NEW s \in Tx, s # t, pc[s] = "ready", row[s].kind = "charge",
             row[s].actor \notin raced
      PROVE  userLock'[row[s].actor] = s
  <2>1. row[s].actor \in Users /\ userLock[row[s].actor] = s
    BY <1>3 DEF StoreInv, PendingRows, WellFormed, PurseInv
  <2>2. QED
    BY <1>1, <1>3, <2>1
<1>4. pc'[t] = "idle"
  BY <1>1
<1>5. QED
  BY <1>2, <1>3, <1>4 DEF PurseInv

LEMMA NextPurse ==
  ASSUME StoreInv, PurseInv, [StoreNext]_storeVars
  PROVE  PurseInv'
<1>1. ASSUME NEW t \in Tx, DebitStep(t)
      PROVE  PurseInv'
  <2>1. ASSUME NEW o \in Orgs, NEW u \in Users, NEW a \in Amounts,
               DebitWallet(t, o, u, a) \/ DebitInsufficient(t, o, a) \/ DebitActorGone(t, o, u, a)
        PROVE  PurseInv'
    <3>1. CASE DebitWallet(t, o, u, a)
      <4>1. pc' = [pc EXCEPT ![t] = "charged"] /\ UNCHANGED <<cap, spent, history, userLock>>
        BY <3>1 DEF DebitWallet
      <4>2. ASSUME NEW s \in Tx, s # t
            PROVE  pc'[s] = pc[s] /\ row'[s] = row[s]
        BY <3>1, <4>2 DEF DebitWallet, Insert, StoreInv, StoreTypeOK
      <4>3. pc'[t] = "charged"
        BY <4>1 DEF StoreInv, StoreTypeOK
      <4>4. QED
        BY <4>1, <4>2, <4>3 DEF PurseInv
    <3>2. CASE DebitInsufficient(t, o, a) \/ DebitActorGone(t, o, u, a)
      BY <3>2 DEF DebitInsufficient, DebitActorGone, Return, PurseInv
    <3>3. QED
      BY <2>1, <3>1, <3>2
  <2>2. ASSUME DebitUser(t)
        PROVE  PurseInv'
    <3>1. pc[t] = "charged" /\ row[t].actor \in Users
      BY <2>2 DEF DebitUser, StoreInv, PendingRows, WellFormed
    <3>2. userLock'[row[t].actor] = t
      BY <2>2, <3>1 DEF DebitUser, StoreInv, StoreTypeOK
    <3>3. ASSUME NEW s \in Tx, s # t, pc[s] = "ready", row[s].kind = "charge",
                 row[s].actor \notin raced
          PROVE  userLock'[row[s].actor] = s
      <4>1. userLock[row[s].actor] = s /\ s # NoTx /\ userLock[row[t].actor] = NoTx
        BY <2>2, <3>3, StoreAssumption DEF PurseInv, DebitUser
      <4>2. row[s].actor # row[t].actor
        BY <4>1
      <4>3. row[s].actor \in Users
        BY <3>3 DEF StoreInv, PendingRows, WellFormed
      <4>4. QED
        BY <2>2, <4>1, <4>2, <4>3 DEF DebitUser, StoreInv, StoreTypeOK
    <3>4. QED
      BY <2>2, <3>1, <3>2, <3>3 DEF DebitUser, PurseInv, StoreInv, StoreTypeOK
  <2>3. ASSUME DebitOverCap(t)
        PROVE  PurseInv'
    BY <2>3 DEF DebitOverCap, WithinCap, PurseInv, StoreInv, StoreTypeOK
  <2>4. ASSUME DebitCapExceeded(t)
        PROVE  PurseInv'
    BY <2>4, ReleaseKeepsPurse DEF DebitCapExceeded, Undo, PurseInv
  <2>5. ASSUME DebitUncapped(t)
        PROVE  PurseInv'
    <3>1. row[t].actor \in raced
      BY <2>5 DEF DebitUncapped, PurseInv
    <3>2. QED
      BY <2>5, <3>1 DEF DebitUncapped, PurseInv, StoreInv, StoreTypeOK
  <2>6. QED
    BY <1>1, <2>1, <2>2, <2>3, <2>4, <2>5 DEF DebitStep
<1>2. ASSUME NEW t \in Tx, CreditStep(t)
      PROVE  PurseInv'
  <2>1. ASSUME NEW o \in Orgs, NEW u \in Users \cup {NoUser}, NEW a \in Amounts,
               NEW k \in {"deposit", "admin_credit"}, NEW p \in Payments \cup {NoPayment},
               CreditWallet(t, o, u, a, k, p)
        PROVE  PurseInv'
    BY <2>1 DEF CreditWallet, Insert, PurseInv, StoreInv, StoreTypeOK
  <2>2. ASSUME NEW o \in Orgs, NEW u \in Users \cup {NoUser}, NEW p \in Payments,
               CreditDuplicate(t, o, p)
        PROVE  PurseInv'
    BY <2>2 DEF CreditDuplicate, Return, PurseInv
  <2>3. ASSUME NEW o \in Orgs, NEW u \in Users \cup {NoUser}, CreditActorGone(t, o, u)
        PROVE  PurseInv'
    BY <2>3 DEF CreditActorGone, Return, PurseInv
  <2>4. QED
    BY <1>2, <2>1, <2>2, <2>3 DEF CreditStep
<1>3. ASSUME NEW t \in Tx, Abort(t)
      PROVE  PurseInv'
  BY <1>3, ReleaseKeepsPurse DEF Abort, Undo, PurseInv
<1>4. ASSUME NEW t \in Tx, NEW result \in {"ok", "error"}, Commit(t, result)
      PROVE  PurseInv'
  <2>1. row[t].kind = "charge" => row[t].actor \in Users
    BY <1>4 DEF Commit, StoreInv, PendingRows, WellFormed
  <2>2. HoldsUser(t) => row[t].kind = "charge"
    BY <1>4, StoreAssumption DEF Commit, HoldsUser, StoreInv, UserLocks
  <2>3. row[t].kind = "charge" => HoldsUser(t) \/ row[t].actor \in raced
    BY <1>4, <2>1 DEF Commit, HoldsUser, PurseInv
  <2>4. \A u \in Users \ raced : spent'[u] = billed'[u]
    BY <1>4, <2>1, <2>2, <2>3 DEF Commit, StoreInv, StoreTypeOK, PurseInv
  <2>5. Release(t, result) /\ UNCHANGED <<cap, raced>>
    BY <1>4 DEF Commit
  <2>6. QED
    BY <2>4, <2>5, ReleaseKeepsPurse
<1>5. ASSUME NEW u \in Users, NEW c \in Caps \cup {NoCap, cap[u]}, NEW reset \in BOOLEAN,
             PatchPurse(u, c, reset)
      PROVE  PurseInv'
  <2>1. /\ cap' = [cap EXCEPT ![u] = c] /\ cap \in [Users -> Nat \cup {NoCap}]
        /\ UNCHANGED <<pc, row, userLock>> /\ userLock[u] = NoTx
    BY <1>5 DEF PatchPurse, StoreInv, StoreTypeOK
  <2>2. /\ \A t \in Tx : pc[t] = "recheck" => row[t].actor \in Users
        /\ \A t \in Tx : pc[t] = "ready" /\ row[t].kind = "charge" => row[t].actor \in Users
    BY DEF StoreInv, PendingRows, WellFormed
  <2>3. \A v \in Users \ {u} : v \in raced' <=> v \in raced
    BY <1>5 DEF PatchPurse
  <2>4. ASSUME NEW v \in Users \ raced'
        PROVE  spent'[v] = billed'[v]
    <3>1. v # u => v \notin raced
      BY <2>3
    <3>2. v = u /\ v \in raced => reset
      BY <1>5 DEF PatchPurse
    <3>3. QED
      BY <1>5, <3>1, <3>2 DEF PatchPurse, StoreInv, StoreTypeOK, PurseInv
  <2>5. ASSUME NEW t \in Tx, row[t].actor = u, row[t].actor \notin raced'
        PROVE  u \notin raced /\ ~ClearsUnderCharge(u, c)
    BY <1>5, <2>5 DEF PatchPurse
  <2>6. ASSUME NEW t \in Tx, pc[t] = "recheck", row[t].actor \notin raced'
        PROVE  cap'[row[t].actor] # NoCap
    <3>1. CASE row[t].actor = u
      BY <2>1, <2>5, <2>6, <3>1 DEF ClearsUnderCharge
    <3>2. CASE row[t].actor # u
      BY <2>1, <2>2, <2>3, <2>6, <3>2 DEF PurseInv
    <3>3. QED
      BY <3>1, <3>2
  <2>7. ASSUME NEW t \in Tx, pc[t] = "ready", row[t].kind = "charge", row[t].actor \notin raced'
        PROVE  userLock[row[t].actor] = t
    BY <2>2, <2>3, <2>5, <2>7 DEF PurseInv
  <2>8. QED
    BY <2>1, <2>4, <2>6, <2>7 DEF PurseInv
<1>6. ASSUME NEW u \in Users, DeleteUser(u)
      PROVE  PurseInv'
  BY <1>6 DEF DeleteUser, PurseInv
<1>7. UNCHANGED storeVars => PurseInv'
  BY DEF PurseInv
<1>8. QED
  BY <1>1, <1>2, <1>3, <1>4, <1>5, <1>6, <1>7 DEF StoreNext, CloseStep, AdminStep

(* An operator's counter is what the operator was charged since the last   *)
(* reset, whatever debits, PATCHes, deletions, rollbacks and lost answers  *)
(* overlap, unless an admin has cleared the cap between Debit's UPDATE of  *)
(* the counter and its second look at the user.                            *)
THEOREM PurseTruthfulHolds == StoreSpec => []PurseTruthful
<1>1. StoreInit => PurseInv
  BY InitPurse
<1>2. StoreInv /\ PurseInv /\ [StoreNext]_storeVars => PurseInv'
  BY NextPurse
<1>3. StoreInv /\ PurseInv => PurseTruthful
  BY DEF PurseInv, PurseTruthful, StoreInv, StoreTypeOK
<1>4. QED
  BY <1>1, <1>2, <1>3, StoreInvariant, PTL DEF StoreSpec

---------------------------------------------------------------------------
(* The store implements the abstract ledger: a commit is a posting, and    *)
(* every other step is a stutter.                                          *)

(* One organisation's ledger as the abstract ledger sees it.               *)
View(s) ==
  [i \in 1..Len(s) |->
    [amount |-> s[i].amount, after |-> s[i].after, payment |-> s[i].payment]]

LEMMA ViewIsSeq ==
  ASSUME NEW s \in Seq(Row)
  PROVE  /\ View(s) \in Seq(Abstract!Posting) /\ Len(View(s)) = Len(s)
         /\ \A i \in 1..Len(s) : View(s)[i] =
              [amount |-> s[i].amount, after |-> s[i].after, payment |-> s[i].payment]
<1>1. \A i \in 1..Len(s) : s[i] \in Row
  BY ElementOfSeq
<1>2. Len(s) \in Nat
  BY LenProperties
<1>3. View(s) \in [1..Len(s) -> Abstract!Posting]
  BY <1>1 DEF View, Row, Abstract!Posting
<1>4. View(s) \in Seq(Abstract!Posting) /\ Len(View(s)) = Len(s)
  BY <1>2, <1>3
<1>5. QED
  BY <1>4 DEF View

(* Appending a row to a ledger appends its posting to the view.            *)
LEMMA ViewAppend ==
  ASSUME NEW s \in Seq(Row), NEW r \in Row
  PROVE  View(Append(s, r)) =
           Append(View(s), [amount |-> r.amount, after |-> r.after, payment |-> r.payment])
<1> DEFINE e == [amount |-> r.amount, after |-> r.after, payment |-> r.payment]
           l == View(Append(s, r))
           m == Append(View(s), e)
<1>1. e \in Abstract!Posting
  BY DEF Row, Abstract!Posting
<1>2. /\ Append(s, r) \in Seq(Row) /\ Len(Append(s, r)) = Len(s) + 1
      /\ \A i \in 1..Len(s) : Append(s, r)[i] = s[i]
      /\ Append(s, r)[Len(s) + 1] = r
  BY AppendProperties
<1>3. /\ l \in Seq(Abstract!Posting) /\ Len(l) = Len(s) + 1
      /\ \A i \in 1..(Len(s) + 1) : l[i] =
           [amount |-> Append(s, r)[i].amount, after |-> Append(s, r)[i].after,
            payment |-> Append(s, r)[i].payment]
  BY <1>2, ViewIsSeq
<1>4. /\ View(s) \in Seq(Abstract!Posting) /\ Len(View(s)) = Len(s) /\ Len(s) \in Nat
      /\ \A i \in 1..Len(s) : View(s)[i] =
           [amount |-> s[i].amount, after |-> s[i].after, payment |-> s[i].payment]
  BY ViewIsSeq, LenProperties
<1> HIDE DEF e, l
<1>5. /\ m \in Seq(Abstract!Posting) /\ Len(m) = Len(s) + 1
      /\ \A i \in 1..Len(s) : m[i] = View(s)[i]
      /\ m[Len(s) + 1] = e
  BY <1>1, <1>4, AppendProperties
<1> HIDE DEF m
<1>6. \A i \in 1..(Len(s) + 1) : l[i] = m[i]
  <2>1. ASSUME NEW i \in 1..Len(s)
        PROVE  l[i] = m[i]
    BY <1>2, <1>3, <1>4, <1>5
  <2>2. l[Len(s) + 1] = m[Len(s) + 1]
    BY <1>2, <1>3, <1>4, <1>5 DEF e
  <2>3. \A i \in 1..(Len(s) + 1) : i \in 1..Len(s) \/ i = Len(s) + 1
    BY <1>4
  <2>4. QED
    BY <2>1, <2>2, <2>3
<1>7. l = m
  BY <1>3, <1>5, <1>6, SeqEqual
<1>8. QED
  BY <1>7 DEF l, m, e

LEMMA BookView == Book = [o \in Orgs |-> View(ledger[o])]
  BY DEF Book, View

---------------------------------------------------------------------------
LEMMA LedgerInitMaps == StoreInit => Abstract!Init
<1> SUFFICES ASSUME StoreInit PROVE Abstract!Init
  OBVIOUS
<1>1. \A o \in Orgs : ledger[o] = << >> /\ ledger[o] \in Seq(Row)
  BY EmptySeq DEF StoreInit
<1>2. \A o \in Orgs : View(ledger[o]) = << >>
  BY <1>1, ViewIsSeq, EmptySeq
<1>3. Book = [o \in Orgs |-> << >>]
  BY <1>2, BookView
<1>4. QED
  BY <1>3 DEF StoreInit, Abstract!Init

(* A commit posts the transaction's row.                                   *)
LEMMA CommitPosts ==
  ASSUME StoreInv, NEW t \in Tx, NEW result \in {"ok", "error"}, Commit(t, result)
  PROVE  Abstract!Next
<1> DEFINE o == org[t]
           r == row[t]
<1>1. /\ o \in Orgs /\ r \in Row /\ WellFormed(r) /\ r.after = balance[o] + r.amount
      /\ r.payment # NoPayment => ~Recorded(r.payment)
      /\ balance \in [Orgs -> Nat] /\ ledger \in [Orgs -> Seq(Row)]
  BY DEF Commit, StoreInv, StoreTypeOK, WalletLocks, PendingRows
<1>2. r.amount \in Int /\ r.after \in Nat /\ r.payment \in Payments \cup {NoPayment}
  BY <1>1 DEF Row
<1>3. balance' = [balance EXCEPT ![o] = r.after] /\ ledger' = [ledger EXCEPT ![o] = Append(@, r)]
  BY DEF Commit
<1> HIDE DEF o, r
<1>4. Book' = [Book EXCEPT ![o] =
                 Append(@, [amount |-> r.amount, after |-> r.after, payment |-> r.payment])]
  <2>1. Book' = [p \in Orgs |-> View(ledger'[p])]
    BY DEF Book, View
  <2>2. View(ledger'[o]) =
          Append(View(ledger[o]), [amount |-> r.amount, after |-> r.after, payment |-> r.payment])
    BY <1>1, <1>3, ViewAppend
  <2>3. \A p \in Orgs \ {o} : View(ledger'[p]) = View(ledger[p])
    BY <1>1, <1>3
  <2>4. QED
    BY <1>1, <2>1, <2>2, <2>3, BookView
<1>5. \A p : Abstract!Posted(p) => Recorded(p)
  <2>1. \A p \in Orgs : Book[p] = View(ledger[p])
    BY BookView
  <2>2. \A p \in Orgs : /\ Len(Book[p]) = Len(ledger[p])
                      /\ \A i \in 1..Len(ledger[p]) : Book[p][i].payment = ledger[p][i].payment
    <3>1. ASSUME NEW p \in Orgs
          PROVE  /\ Len(Book[p]) = Len(ledger[p])
                 /\ \A i \in 1..Len(ledger[p]) : Book[p][i].payment = ledger[p][i].payment
      <4>1. Book[p] = View(ledger[p]) /\ ledger[p] \in Seq(Row)
        BY <1>1, <2>1
      <4>2. \A i \in 1..Len(ledger[p]) : View(ledger[p])[i].payment = ledger[p][i].payment
        BY DEF View
      <4>3. QED
        BY <4>1, <4>2, ViewIsSeq
    <3>2. QED
      BY <3>1
  <2>3. QED
    BY <2>2 DEF Abstract!Posted, Recorded
<1>6. ASSUME r.payment # NoPayment
      PROVE  r.amount > 0 /\ ~Abstract!Posted(r.payment)
  <2>1. r.amount \in Amounts
    BY <1>1, <1>6 DEF WellFormed
  <2>2. \A a \in Amounts : a > 0
    BY StoreAssumption
  <2>3. QED
    BY <1>1, <1>5, <1>6, <2>1, <2>2
<1>7. Abstract!Post(o, r.amount, r.payment)
  BY <1>1, <1>2, <1>3, <1>4, <1>6 DEF Abstract!Post
<1>8. CASE r.kind = "charge"
  <2>1. -r.amount \in Amounts /\ r.payment = NoPayment
    BY <1>1, <1>8 DEF WellFormed
  <2>2. Abstract!Post(o, -(-r.amount), NoPayment)
    BY <1>2, <1>7, <2>1
  <2>3. QED
    BY <1>1, <2>1, <2>2 DEF Abstract!Next
<1>9. CASE r.amount \in Amounts
  BY <1>1, <1>2, <1>7, <1>9 DEF Abstract!Next
<1>10. QED
  BY <1>1, <1>8, <1>9 DEF WellFormed

(* A deletion rewrites actors, which the abstract ledger does not show.    *)
LEMMA DeleteStutters ==
  ASSUME StoreInv, NEW u \in Users, DeleteUser(u)
  PROVE  UNCHANGED Abstract!vars
<1>1. /\ balance' = balance
      /\ \A o \in Orgs : ledger[o] \in Seq(Row) /\ ledger'[o] = Unlinked(ledger[o], u)
  BY DEF DeleteUser, StoreInv, StoreTypeOK
<1>2. \A o \in Orgs : View(ledger'[o]) = View(ledger[o])
  BY <1>1, UnlinkedRows DEF View
<1>3. Book' = [p \in Orgs |-> View(ledger'[p])]
  BY DEF Book, View
<1>4. QED
  BY <1>1, <1>2, <1>3, BookView DEF Abstract!vars

LEMMA LedgerStepMaps == StoreInv /\ [StoreNext]_storeVars => [Abstract!Next]_Abstract!vars
<1> SUFFICES ASSUME StoreInv, [StoreNext]_storeVars PROVE [Abstract!Next]_Abstract!vars
  OBVIOUS
<1>1. UNCHANGED <<balance, ledger>> => UNCHANGED Abstract!vars
  BY DEF Book, Abstract!vars
<1>2. ASSUME NEW t \in Tx, DebitStep(t) \/ CreditStep(t)
      PROVE  UNCHANGED <<balance, ledger>>
  BY <1>2, OpenStepKeeps
<1>3. ASSUME NEW t \in Tx, Abort(t)
      PROVE  UNCHANGED <<balance, ledger>>
  BY <1>3 DEF Abort, Undo
<1>4. ASSUME NEW u \in Users, NEW c \in Caps \cup {NoCap, cap[u]}, NEW reset \in BOOLEAN,
             PatchPurse(u, c, reset)
      PROVE  UNCHANGED <<balance, ledger>>
  BY <1>4 DEF PatchPurse
<1>5. QED
  BY <1>1, <1>2, <1>3, <1>4, CommitPosts, DeleteStutters DEF StoreNext, CloseStep, AdminStep

(* Callers of Debit and Credit may reason about the wallet as a balance    *)
(* and a book that change in one step, whatever overlaps inside.           *)
THEOREM StoreImplementsLedger == StoreSpec => AbstractLedger
<1>1. StoreInit => Abstract!Init
  BY LedgerInitMaps
<1>2. StoreInv /\ [StoreNext]_storeVars => [Abstract!Next]_Abstract!vars
  BY LedgerStepMaps
<1>3. QED
  BY <1>1, <1>2, StoreInvariant, PTL DEF StoreSpec, AbstractLedger, Abstract!Spec
=============================================================================
