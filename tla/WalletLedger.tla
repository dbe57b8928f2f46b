--------------------------- MODULE WalletLedger ---------------------------
(***************************************************************************)
(* What the wallet promises its callers, without transactions or locks:    *)
(* every organisation has a balance and a book of postings; a posting      *)
(* changes both at once, never overdraws, and a gateway payment is posted  *)
(* at most once in the whole installation.  WalletStore implements this.   *)
(***************************************************************************)
EXTENDS Integers, Sequences

CONSTANTS
  Orgs,        \* organisations, one wallet each
  Payments,    \* payment ids of the payment gateway
  Amounts,     \* amounts in paise that may be posted
  NoPayment    \* the payment column of a posting that has none

VARIABLES
  balance,     \* [Orgs -> Nat]
  book         \* [Orgs -> Seq of postings], oldest first

vars == <<balance, book>>

Posting == [amount: Int, after: Nat, payment: Payments \cup {NoPayment}]

Posted(p) == \E o \in Orgs : \E i \in 1..Len(book[o]) : book[o][i].payment = p

Init ==
  /\ balance = [o \in Orgs |-> 0]
  /\ book = [o \in Orgs |-> << >>]

(* One posting: a charge (negative, no payment) or a credit.               *)
Post(o, amount, payment) ==
  /\ balance[o] + amount >= 0
  /\ payment # NoPayment => amount > 0 /\ ~Posted(payment)
  /\ balance' = [balance EXCEPT ![o] = @ + amount]
  /\ book' = [book EXCEPT ![o] =
       Append(@, [amount |-> amount, after |-> balance[o] + amount,
                  payment |-> payment])]

Next ==
  \E o \in Orgs, a \in Amounts :
    \/ Post(o, -a, NoPayment)
    \/ \E p \in Payments \cup {NoPayment} : Post(o, a, p)

Spec == Init /\ [][Next]_vars
===========================================================================
