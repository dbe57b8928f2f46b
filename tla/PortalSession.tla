--------------------------- MODULE PortalSession ---------------------------
(***************************************************************************)
(* The signed-in state of one portal, the operators', in the tabs of one   *)
(* browser.  The token lies in localStorage, which the tabs share          *)
(* (authStorage.js); what a tab shows, the latch of onUnauthorized         *)
(* (api.js) and the selfie gate's flags (OperatorSelfieGate.jsx) are its   *)
(* own.  A tab that navigates inside the application keeps its state and   *)
(* the answers it waits for; a page load starts over.                      *)
(*                                                                         *)
(* A token is the number of the sign-in that issued it.  AuthProvider's    *)
(* hydration from /me is left out: token and user are stored and cleared   *)
(* together, so it never runs.  A tab opens with empty flags: one that the *)
(* browser duplicates, sessionStorage and all, is left out.                *)
(***************************************************************************)
EXTENDS Naturals, FiniteSets

CONSTANTS
  Tabs,       \* tabs of the browser
  MaxLogins,  \* bound: tokens issued
  MaxCalls,   \* bound: requests of a tab in flight at once
  MaxFaults   \* bound: reloads, and requests that fail on the way

ASSUME SessionAssumption == {MaxLogins, MaxCalls, MaxFaults} \subseteq Nat

VARIABLES
  stored,  \* localStorage: the token, or NoToken
  issued,  \* server: tokens issued so far
  dead,    \* server: authMiddleware refuses the first dead of them
  page,    \* what each tab shows
  busy,    \* a sign-in of the tab is under way
  latch,   \* redirectingToLogin of each tab
  flags,   \* sessionStorage of each tab: tokens with a selfie
  calls,   \* requests in flight
  faults,  \* faults so far
  posted   \* history: the tabs a selfie of which the server took

serverVars == <<issued, dead, posted>>
tabVars == <<page, busy, latch, flags>>
vars == <<stored, serverVars, tabVars, calls, faults>>

NoToken == 0
Live(k) == dead < k
Tokens == 1..MaxLogins
Pages == {"login", "welcome", "gate", "desk"}
Working(t) == page[t] \in {"gate", "desk"}

Call == [tab: Tabs, kind: {"login", "poll", "selfie"}, token: 0..MaxLogins,
         mounted: BOOLEAN, answer: {"none", "ok", "failed"}]

SessionTypeOK ==
  /\ issued \in 0..MaxLogins /\ dead \in 0..issued /\ stored \in 0..issued
  /\ page \in [Tabs -> Pages] /\ busy \in [Tabs -> BOOLEAN]
  /\ latch \in [Tabs -> BOOLEAN] /\ flags \in [Tabs -> SUBSET (1..issued)]
  /\ calls \subseteq Call /\ faults \in 0..MaxFaults
  /\ posted \subseteq Tabs
  /\ \A t \in Tabs :
       busy[t] <=> page[t] = "login" /\ \E c \in calls : c.tab = t /\ c.kind = "login"
  /\ \A t \in Tabs : Cardinality({c \in calls : c.tab = t /\ c.kind = "selfie" /\ c.mounted}) <= 1

Init ==
  /\ stored = NoToken /\ issued = 0 /\ dead = 0 /\ posted = {}
  /\ page = [t \in Tabs |-> "login"] /\ busy = [t \in Tabs |-> FALSE]
  /\ latch = [t \in Tabs |-> FALSE] /\ flags = [t \in Tabs |-> {}]
  /\ calls = {} /\ faults = 0

-----------------------------------------------------------------------------
(* Moving between pages.                                                   *)

(* RequireRole and the selfie gate: the page a working URL shows.          *)
WorkingPage(t, tok) ==
  IF tok = NoToken THEN "login" ELSE IF tok \in flags[t] THEN "desk" ELSE "gate"

Shows(t, p) == page' = [page EXCEPT ![t] = p]

(* Inside the application the gate unmounts and its answer finds it gone.  *)
Unmounted(t) ==
  {IF c.tab = t /\ c.kind = "selfie" THEN [c EXCEPT !.mounted = FALSE] ELSE c : c \in calls}

(* A page load drops whatever the tab waited for and resets the latch.     *)
PageLoad(t, p) ==
  /\ Shows(t, p)
  /\ busy' = [busy EXCEPT ![t] = FALSE]
  /\ latch' = [latch EXCEPT ![t] = FALSE]
  /\ calls' = {c \in calls : c.tab # t}
  /\ UNCHANGED flags

Send(t, kind, tok) ==
  /\ Cardinality({c \in calls : c.tab = t}) < MaxCalls
  /\ calls' = calls \cup {[tab |-> t, kind |-> kind, token |-> tok,
                        mounted |-> TRUE, answer |-> "none"]}

Fault == faults < MaxFaults /\ faults' = faults + 1

-----------------------------------------------------------------------------
(* The tab.                                                                *)

SignIn(t) ==
  /\ page[t] = "login" /\ ~ busy[t]
  /\ busy' = [busy EXCEPT ![t] = TRUE]
  /\ Send(t, "login", NoToken)
  /\ UNCHANGED <<stored, serverVars, page, latch, flags, faults>>

(* The success state is shown for a moment before the tab moves on.        *)
Enter(t) ==
  /\ page[t] = "welcome"
  /\ Shows(t, WorkingPage(t, stored))
  /\ UNCHANGED <<stored, serverVars, busy, latch, flags, calls, faults>>

(* A storage event, or any render: nobody is signed in any more.           *)
Notice(t) ==
  /\ Working(t) /\ stored = NoToken
  /\ Shows(t, "login") /\ calls' = Unmounted(t)
  /\ UNCHANGED <<stored, serverVars, busy, latch, flags, faults>>

(* The desk's heartbeat, with the token of the moment.                     *)
Poll(t) ==
  /\ page[t] = "desk"
  /\ \A c \in calls : ~ (c.tab = t /\ c.kind = "poll" /\ c.token = stored)
  /\ Send(t, "poll", stored)
  /\ UNCHANGED <<stored, serverVars, tabVars, faults>>

SendSelfie(t) ==
  /\ page[t] = "gate"
  /\ \A c \in calls : ~ (c.tab = t /\ c.kind = "selfie" /\ c.mounted)
  /\ Send(t, "selfie", stored)
  /\ UNCHANGED <<stored, serverVars, tabVars, faults>>

Logout(t) ==
  /\ Working(t)
  /\ stored' = NoToken
  /\ Shows(t, "login") /\ calls' = Unmounted(t)
  /\ UNCHANGED <<serverVars, busy, latch, flags, faults>>

(* Reload, or an address typed: the desk's or the login page's.            *)
Load(t) ==
  /\ Fault
  /\ \/ PageLoad(t, WorkingPage(t, stored))
     \/ PageLoad(t, "login")
  /\ UNCHANGED <<stored, serverVars>>

(* Coming back to a working page with back or forward signs out.           *)
BackForward(t) ==
  /\ stored # NoToken
  /\ stored' = NoToken
  /\ PageLoad(t, "login")
  /\ UNCHANGED <<serverVars, faults>>

SignInEnds(t, c) == busy' = [busy EXCEPT ![t] = @ /\ c.kind # "login"]

(* onUnauthorized.  On the login page location.assign is skipped, and with *)
(* it the page load that would open the latch again.                       *)
Unauthorized(t, c) ==
  \/ /\ latch[t]
     /\ calls' = calls \ {c}
     /\ UNCHANGED <<stored, page, latch, flags>>
     /\ SignInEnds(t, c)
  \/ /\ ~ latch[t] /\ Working(t)
     /\ stored' = NoToken
     /\ PageLoad(t, "login")
  \/ /\ ~ latch[t] /\ ~ Working(t)
     /\ stored' = NoToken
     /\ latch' = [latch EXCEPT ![t] = TRUE]
     /\ calls' = calls \ {c}
     /\ SignInEnds(t, c)
     /\ UNCHANGED <<page, flags>>

LoginAnsweredMutant(c) ==
  /\ c.kind = "login" /\ c.answer = "ok"
  /\ stored' = c.token /\ Shows(c.tab, "welcome") /\ calls' = calls \ {c}
  /\ UNCHANGED <<serverVars, busy, latch, flags, faults>>

LoginAnswered(c) ==
  /\ c.kind = "login" /\ c.answer = "ok"
  /\ stored' = c.token /\ Shows(c.tab, "welcome") /\ calls' = calls \ {c}
  /\ busy' = [busy EXCEPT ![c.tab] = FALSE]
  /\ UNCHANGED <<serverVars, latch, flags, faults>>

(* A wrong password is a 401 too; a request that fails is only reported.   *)
LoginRefused(c) ==
  /\ c.kind = "login" /\ c.answer # "ok"
  /\ \/ c.answer = "none" /\ Unauthorized(c.tab, c)
     \/ /\ c.answer = "failed"
        /\ calls' = calls \ {c} /\ SignInEnds(c.tab, c)
        /\ UNCHANGED <<stored, page, latch, flags>>
  /\ UNCHANGED <<serverVars, faults>>

PollAnsweredMutant(c) ==
  /\ c.kind = "poll"
  /\ calls' = calls \ {c}
  /\ UNCHANGED <<stored, serverVars, tabVars, faults>>

(* dead only grows (an account that is enabled again is left out), so the  *)
(* server may as well look at the token when the answer arrives.  A        *)
(* heartbeat that succeeds or fails is ignored.                            *)
PollAnswered(c) ==
  /\ c.kind = "poll"
  /\ \/ ~ Live(c.token) /\ Unauthorized(c.tab, c)
     \/ /\ Live(c.token)
        /\ calls' = calls \ {c}
        /\ UNCHANGED <<stored, tabVars>>
  /\ UNCHANGED <<serverVars, faults>>

(* The flag is kept under the token stored when the answer arrives.  The   *)
(* selfie's upload does not go through api(): its 401 is an error like any *)
(* other.                                                                  *)
SelfieAnsweredMutant(c) ==
  /\ c.kind = "selfie" /\ c.answer # "none"
  /\ flags' = [flags EXCEPT ![c.tab] = @ \cup ({stored} \ {NoToken})]
  /\ IF c.mounted THEN Shows(c.tab, "desk") ELSE UNCHANGED page
  /\ calls' = calls \ {c}
  /\ UNCHANGED <<stored, serverVars, busy, latch, faults>>

SelfieAnswered(c) ==
  /\ c.kind = "selfie" /\ c.answer # "none"
  /\ IF c.answer = "ok"
     THEN /\ flags' = [flags EXCEPT ![c.tab] = @ \cup ({stored} \ {NoToken})]
          /\ IF c.mounted THEN Shows(c.tab, "desk") ELSE UNCHANGED page
     ELSE UNCHANGED <<page, flags>>
  /\ calls' = calls \ {c}
  /\ UNCHANGED <<stored, serverVars, busy, latch, faults>>

-----------------------------------------------------------------------------
(* The server.                                                             *)

Asked(c, kind) == c.kind = kind /\ c.answer = "none"
Answer(c, what) == calls' = (calls \ {c}) \cup {[c EXCEPT !.answer = what]}

Authenticate(c) ==
  /\ Asked(c, "login") /\ issued < MaxLogins
  /\ issued' = issued + 1
  /\ calls' = (calls \ {c}) \cup {[c EXCEPT !.answer = "ok", !.token = issued']}
  /\ UNCHANGED <<stored, dead, posted, tabVars, faults>>

(* authMiddleware, and the handler that keeps the selfie.                  *)
SelfieServe(c) ==
  /\ Asked(c, "selfie")
  /\ IF Live(c.token)
     THEN Answer(c, "ok") /\ posted' = posted \cup {c.tab}
     ELSE Answer(c, "failed") /\ UNCHANGED posted
  /\ UNCHANGED <<stored, issued, dead, tabVars, faults>>

(* Twelve hours end the oldest tokens first; disabling or deleting the     *)
(* account ends them all.                                                  *)
Revoke(k) ==
  /\ dead < k /\ k <= issued /\ dead' = k
  /\ UNCHANGED <<stored, issued, posted, tabVars, calls, faults>>

Lose(c) ==
  /\ Fault
  /\ \/ Asked(c, "poll") /\ calls' = calls \ {c}
     \/ c.kind # "poll" /\ c.answer = "none" /\ Answer(c, "failed")
  /\ UNCHANGED <<stored, serverVars, tabVars>>

Progress(c) ==
  Authenticate(c) \/ SelfieServe(c) \/ LoginAnswered(c) \/ LoginRefused(c)
  \/ PollAnswered(c) \/ SelfieAnswered(c)

Next ==
  \/ \E t \in Tabs : SignIn(t) \/ Enter(t) \/ Notice(t) \/ Poll(t) \/ SendSelfie(t)
                     \/ Logout(t) \/ Load(t) \/ BackForward(t)
  \/ \E c \in calls : Progress(c) \/ Lose(c)
  \/ \E k \in Tokens : Revoke(k)

(* The heartbeat goes on, and the requests under way are answered: the     *)
(* server answers them or the browser gives them up.                       *)
Fairness ==
  \A t \in Tabs :
    /\ WF_vars(Poll(t))
    /\ WF_vars(\E c \in calls : c.tab = t /\ c.kind # "login" /\ Progress(c))

Spec == Init /\ [][Next]_vars /\ Fairness

-----------------------------------------------------------------------------
(* Properties.                                                             *)

(* No tab shows the desk before the server took a selfie from that tab,    *)
(* whatever is lost, refused, reloaded or signed out on the way.  (It may  *)
(* have been another sign-in's: see the README.)                           *)
SelfieBeforeDesk ==
  \A t \in Tabs : page[t] = "desk" => t \in posted

(* A desk whose session has ended is closed by its own heartbeat, unless   *)
(* the tab's latch was left shut by a 401 on its login page or the browser *)
(* has been signed in again.                                               *)
DeadSessionEnds ==
  \A t \in Tabs :
    page[t] = "desk" /\ ~ Live(stored) ~>
    page[t] # "desk" \/ Live(stored) \/ latch[t]
=============================================================================
