--------------------------- MODULE OneTimeLink ----------------------------
(***************************************************************************)
(* What a magic link promises, without pages, requests or transactions: a  *)
(* link is made, and used at most once; that use, and nothing else, sets   *)
(* the password of the account the link is for.  MagicLink implements this.*)
(***************************************************************************)

CONSTANTS
  Links,       \* links
  Users,       \* accounts
  UserOf,      \* the account a link is for
  Passwords,   \* what may be typed
  NoPassword   \* an account that never had one

VARIABLES
  state,       \* [Links -> {"unmade", "made", "used"}]
  password     \* [Users -> Passwords \cup {NoPassword}]

vars == <<state, password>>

Init ==
  /\ state = [l \in Links |-> "unmade"]
  /\ password = [u \in Users |-> NoPassword]

Make(l) ==
  /\ state[l] = "unmade"
  /\ state' = [state EXCEPT ![l] = "made"]
  /\ UNCHANGED password

Use(l, p) ==
  /\ state[l] = "made"
  /\ state' = [state EXCEPT ![l] = "used"]
  /\ password' = [password EXCEPT ![UserOf[l]] = p]

Next == \E l \in Links : Make(l) \/ \E p \in Passwords : Use(l, p)

Spec == Init /\ [][Next]_vars
===========================================================================
