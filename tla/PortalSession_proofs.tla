------------------------ MODULE PortalSession_proofs ------------------------
(***************************************************************************)
(* Proofs about PortalSession, for any number of tabs, sign-ins, requests  *)
(* and faults: a tab shows the desk only after the server has taken a      *)
(* selfie from that tab.                                                   *)
(***************************************************************************)
EXTENDS PortalSession, FiniteSetTheorems, TLAPS

USE DEF vars, serverVars, tabVars

-----------------------------------------------------------------------------
(* The inductive invariant.                                                *)

Values ==
  /\ issued \in 0..MaxLogins /\ dead \in 0..issued /\ stored \in 0..issued
  /\ page \in [Tabs -> Pages] /\ busy \in [Tabs -> BOOLEAN]
  /\ latch \in [Tabs -> BOOLEAN] /\ flags \in [Tabs -> SUBSET (1..issued)]
  /\ faults \in 0..MaxFaults
  /\ posted \subseteq Tabs

(* A sign-in belongs to a login page, an answer that still reaches the     *)
(* gate to the gate; and an accepted selfie is on the server's record.     *)
CallOK(c) ==
  /\ c \in Call /\ c.token <= issued
  /\ c.kind = "login" => page[c.tab] = "login"
  /\ c.kind = "selfie" /\ c.mounted => page[c.tab] = "gate"
  /\ c.kind = "selfie" /\ c.answer = "ok" => c.tab \in posted

(* A call a tab makes only while no other of its kind is awaited.          *)
Sole(c) == c.kind = "login" \/ (c.kind = "selfie" /\ c.mounted)
Single ==
  \A c, d \in calls : Sole(c) /\ Sole(d) /\ c.tab = d.tab /\ c.kind = d.kind => c = d

SigningIn(t) == \E c \in calls : c.tab = t /\ c.kind = "login"

(* The flags a tab keeps open the desk again after a reload or a sign-in.  *)
Selfied(t) == page[t] = "desk" \/ flags[t] # {} => t \in posted

SessionInv ==
  /\ Values
  /\ \A c \in calls : CallOK(c)
  /\ Single
  /\ \A t \in Tabs : busy[t] <=> SigningIn(t)
  /\ \A t \in Tabs : Selfied(t)

LEMMA InitSession == Init => SessionInv
  BY SessionAssumption
  DEF Init, SessionInv, Values, Single, SigningIn, Selfied, NoToken, Pages

(* The type invariant counts the awaited selfies of a tab.                 *)
LEMMA SessionTyped == SessionInv => SessionTypeOK
<1> SUFFICES ASSUME SessionInv PROVE SessionTypeOK
  OBVIOUS
<1>1. ASSUME NEW t \in Tabs
      PROVE  Cardinality({c \in calls : c.tab = t /\ c.kind = "selfie" /\ c.mounted}) <= 1
  <2> DEFINE S == {c \in calls : c.tab = t /\ c.kind = "selfie" /\ c.mounted}
  <2>1. CASE S = {}
    BY <2>1, FS_EmptySet
  <2>2. CASE S # {}
    <3>1. PICK c \in S : TRUE
      BY <2>2
    <3>2. S = {c}
      BY <3>1 DEF SessionInv, Single, Sole
    <3>3. Cardinality(S) = 1
      BY <3>2, FS_Singleton
    <3>4. QED
      BY <3>3
  <2>3. QED
    BY <2>1, <2>2
<1>2. ASSUME NEW t \in Tabs
      PROVE  busy[t] <=> page[t] = "login" /\ SigningIn(t)
  BY DEF SessionInv, SigningIn, CallOK
<1>3. QED
  BY <1>1, <1>2 DEF SessionInv, SessionTypeOK, Values, CallOK, SigningIn

-----------------------------------------------------------------------------
(* How the calls change.                                                   *)

(* A tab that shows another page, with the calls it no longer waits for    *)
(* gone or unmounted.                                                      *)
LEMMA WorkingPageFits ==
  ASSUME SessionInv, NEW t \in Tabs
  PROVE  /\ WorkingPage(t, stored) \in Pages
         /\ WorkingPage(t, stored) = "desk" => t \in posted
  BY DEF SessionInv, Selfied, WorkingPage, Pages

LEMMA PageLoadKeeps ==
  ASSUME SessionInv, NEW t \in Tabs, NEW p \in Pages, p = "desk" => t \in posted,
         PageLoad(t, p), UNCHANGED serverVars,
         stored' \in 0..issued, faults' \in 0..MaxFaults
  PROVE  SessionInv'
<1>1. Values'
  BY DEF SessionInv, Values, PageLoad, Shows
<1>2. \A c \in calls' : c \in calls /\ c.tab # t /\ c.tab \in Tabs
  BY DEF PageLoad, SessionInv, CallOK, Call
<1>3. \A c \in calls' : CallOK(c)'
  BY <1>2 DEF SessionInv, Values, CallOK, PageLoad, Shows
<1>4. Single'
  BY <1>2 DEF SessionInv, Single, Sole
<1>5. ASSUME NEW u \in Tabs
      PROVE  (busy[u] <=> SigningIn(u))' /\ Selfied(u)'
  BY DEF SessionInv, Values, SigningIn, Selfied, PageLoad, Shows
<1>6. QED
  BY <1>1, <1>3, <1>4, <1>5 DEF SessionInv

(* Leaving a working page inside the application.                          *)
LEMMA LeaveKeeps ==
  ASSUME SessionInv, NEW t \in Tabs, Working(t), Shows(t, "login"), calls' = Unmounted(t),
         stored' \in 0..issued, UNCHANGED <<serverVars, busy, latch, flags, faults>>
  PROVE  SessionInv'
<1>1. Values'
  BY DEF SessionInv, Values, Shows, Pages
<1>2. ASSUME NEW c \in calls'
      PROVE  \E b \in calls :
               /\ c = IF b.tab = t /\ b.kind = "selfie" THEN [b EXCEPT !.mounted = FALSE] ELSE b
               /\ c \in Call /\ b \in Call /\ c.tab = b.tab /\ c.kind = b.kind
               /\ c.token = b.token /\ c.answer = b.answer
               /\ Sole(c) => c = b /\ (c.kind = "selfie" => c.tab # t)
  BY DEF Unmounted, SessionInv, CallOK, Call, Sole
<1>3. ASSUME NEW c \in calls'
      PROVE  CallOK(c)'
  BY <1>2 DEF SessionInv, Values, CallOK, Sole, Shows, Call, Working
<1>4. Single'
  BY <1>2 DEF SessionInv, Single, Sole
<1>5. ASSUME NEW u \in Tabs
      PROVE  SigningIn(u)' <=> SigningIn(u)
  <2>1. SigningIn(u)' => SigningIn(u)
    BY <1>2 DEF SigningIn
  <2>2. SigningIn(u) => SigningIn(u)'
    BY DEF SigningIn, Unmounted
  <2>3. QED
    BY <2>1, <2>2
<1>6. ASSUME NEW u \in Tabs
      PROVE  (busy[u] <=> SigningIn(u))' /\ Selfied(u)'
  BY <1>5 DEF SessionInv, Values, Selfied, Shows
<1>7. QED
  BY <1>1, <1>3, <1>4, <1>6 DEF SessionInv

(* One more call.                                                          *)
LEMMA SendKeeps ==
  ASSUME SessionInv, NEW t \in Tabs, NEW kind \in {"login", "poll", "selfie"}, NEW tok \in 0..issued,
         Send(t, kind, tok), UNCHANGED <<stored, serverVars, page, latch, flags, faults>>,
         \/ kind = "login" /\ page[t] = "login" /\ ~busy[t] /\ busy' = [busy EXCEPT ![t] = TRUE]
         \/ kind = "poll" /\ UNCHANGED busy
         \/ /\ kind = "selfie" /\ page[t] = "gate" /\ UNCHANGED busy
            /\ \A c \in calls : ~ (c.tab = t /\ c.kind = "selfie" /\ c.mounted)
  PROVE  SessionInv'
<1> DEFINE new == [tab |-> t, kind |-> kind, token |-> tok, mounted |-> TRUE, answer |-> "none"]
<1>1. Values' /\ calls' = calls \cup {new}
  BY DEF SessionInv, Values, Send
<1>2. CallOK(new)'
  <2>1. new \in Call
    BY SessionAssumption DEF SessionInv, Values, Call
  <2>2. new.token <= issued'
    BY SessionAssumption DEF SessionInv, Values
  <2>3. QED
    BY <2>1, <2>2 DEF CallOK
<1>3. \A c \in calls : CallOK(c)'
  BY DEF SessionInv, CallOK
<1>4. \A c \in calls : Sole(c) /\ Sole(new) => ~ (c.tab = new.tab /\ c.kind = new.kind)
  BY DEF SessionInv, Values, SigningIn, Sole
<1>5. Single'
  BY <1>1, <1>4 DEF SessionInv, Single
<1>6. ASSUME NEW u \in Tabs
      PROVE  (busy[u] <=> SigningIn(u))' /\ Selfied(u)'
  <2>1. SigningIn(u)' <=> SigningIn(u) \/ (new.kind = "login" /\ u = new.tab)
    <3> HIDE DEF new
    <3> QED BY <1>1 DEF SigningIn
  <2>2. QED
    BY <2>1 DEF SessionInv, Values, Selfied
<1>7. QED
  BY <1>1, <1>2, <1>3, <1>5, <1>6 DEF SessionInv

(* A call whose answer is on its way.                                      *)
LEMMA AnswerKeeps ==
  ASSUME SessionInv, NEW c \in calls, NEW d \in Call,
         d.tab = c.tab, d.kind = c.kind, d.mounted = c.mounted,
         d.token <= issued', d.kind = "selfie" /\ d.answer = "ok" => d.tab \in posted',
         calls' = (calls \ {c}) \cup {d},
         issued' \in issued..MaxLogins, posted' \in SUBSET Tabs, posted \subseteq posted',
         faults' \in 0..MaxFaults, UNCHANGED <<stored, dead, tabVars>>
  PROVE  SessionInv'
<1>1. Values'
  BY DEF SessionInv, Values
<1>2. \A b \in calls : b.token \in Nat /\ b.token <= issued
  BY DEF SessionInv, CallOK, Call
<1>3. \A b \in calls' : CallOK(b)'
  BY <1>2 DEF SessionInv, Values, CallOK
<1>4. Single'
  BY DEF SessionInv, Single, Sole
<1>5. ASSUME NEW u \in Tabs
      PROVE  (busy[u] <=> SigningIn(u))' /\ Selfied(u)'
  BY DEF SessionInv, SigningIn, Selfied
<1>6. QED
  BY <1>1, <1>3, <1>4, <1>5 DEF SessionInv

(* A call that is over, and what the tab that made it shows then.          *)
LEMMA OverKeeps ==
  ASSUME SessionInv, NEW c \in calls, calls' = calls \ {c}, SignInEnds(c.tab, c),
         UNCHANGED serverVars, stored' \in 0..issued, faults' \in 0..MaxFaults,
         latch' \in [Tabs -> BOOLEAN], flags' \in [Tabs -> SUBSET (1..issued)],
         NEW p \in Pages, page' = [page EXCEPT ![c.tab] = p],
         p = page[c.tab] \/ Sole(c),
         \A t \in Tabs : Selfied(t)'
  PROVE  SessionInv'
<1>0. c \in Call /\ c.tab \in Tabs
  BY DEF SessionInv, CallOK, Call
<1>1. Values'
  BY <1>0 DEF SessionInv, Values, SignInEnds
<1>2. ASSUME NEW d \in calls'
      PROVE  CallOK(d)'
  <2>1. CASE p = page[c.tab]
    BY <2>1, <1>0 DEF SessionInv, Values, CallOK
  <2>2. CASE Sole(c)
    <3>1. d \in calls /\ d # c /\ d.tab \in Tabs
      BY DEF SessionInv, CallOK, Call
    <3>2. d.tab = c.tab => ~Sole(d)
      BY <2>2, <3>1 DEF SessionInv, Single, Sole, CallOK
    <3>3. QED
      BY <3>1, <3>2 DEF SessionInv, Values, CallOK, Sole
  <2>3. QED
    BY <2>1, <2>2
<1>3. Single'
  BY DEF SessionInv, Single, Sole
<1>4. ASSUME NEW u \in Tabs
      PROVE  (busy[u] <=> SigningIn(u))'
  <2>1. SigningIn(u)' <=> SigningIn(u) /\ ~ (u = c.tab /\ c.kind = "login")
    BY DEF SigningIn, SessionInv, Single, Sole
  <2>2. QED
    BY <2>1, <1>0 DEF SessionInv, Values, SignInEnds
<1>5. QED
  BY <1>1, <1>2, <1>3, <1>4 DEF SessionInv

-----------------------------------------------------------------------------
(* What the tab does.                                                      *)

LEMMA TabKeeps ==
  ASSUME SessionInv, NEW t \in Tabs,
         \/ SignIn(t) \/ Enter(t) \/ Notice(t) \/ Poll(t) \/ SendSelfie(t)
         \/ Logout(t) \/ Load(t) \/ BackForward(t)
  PROVE  SessionInv'
<1>1. stored \in 0..issued /\ 0 \in 0..issued /\ faults \in 0..MaxFaults
  BY SessionAssumption DEF SessionInv, Values
<1>2. CASE SignIn(t)
  BY <1>1, <1>2, SendKeeps DEF SignIn, NoToken
<1>3. CASE Poll(t)
  BY <1>1, <1>3, SendKeeps DEF Poll
<1>4. CASE SendSelfie(t)
  BY <1>1, <1>4, SendKeeps DEF SendSelfie
<1>5. CASE Enter(t)
  <2>1. Values'
    BY <1>5, WorkingPageFits DEF SessionInv, Values, Enter, Shows
  <2>2. ASSUME NEW c \in calls
        PROVE  CallOK(c)'
    BY <1>5 DEF SessionInv, Values, CallOK, Call, Enter, Shows
  <2>3. ASSUME NEW u \in Tabs
        PROVE  (busy[u] <=> SigningIn(u))' /\ Selfied(u)'
    BY <1>5, WorkingPageFits DEF SessionInv, Values, SigningIn, Selfied, Enter, Shows
  <2>4. QED
    BY <1>5, <2>1, <2>2, <2>3 DEF SessionInv, Single, Enter
<1>6. CASE Notice(t)
  BY <1>1, <1>6, LeaveKeeps DEF Notice
<1>7. CASE Logout(t)
  BY <1>1, <1>7, LeaveKeeps DEF Logout, NoToken
<1>8. CASE Load(t)
  <2>1. faults' \in 0..MaxFaults
    BY <1>1, <1>8, SessionAssumption DEF Load, Fault
  <2>2. QED
    BY <1>1, <1>8, <2>1, PageLoadKeeps, WorkingPageFits DEF Load, Pages
<1>9. CASE BackForward(t)
  BY <1>1, <1>9, PageLoadKeeps DEF BackForward, NoToken, Pages
<1>10. QED
  BY <1>2, <1>3, <1>4, <1>5, <1>6, <1>7, <1>8, <1>9

(* A 401 in the tab, whatever it shows and wherever its latch stands.      *)
LEMMA UnauthorizedKeeps ==
  ASSUME SessionInv, NEW c \in calls, Unauthorized(c.tab, c), UNCHANGED <<serverVars, faults>>
  PROVE  SessionInv'
<1>1. /\ stored \in 0..issued /\ 0 \in 0..issued /\ faults' \in 0..MaxFaults
      /\ c.tab \in Tabs /\ page[c.tab] \in Pages
  BY SessionAssumption DEF SessionInv, Values, CallOK, Call
<1>2. CASE Working(c.tab) /\ stored' = NoToken /\ PageLoad(c.tab, "login")
  BY <1>1, <1>2, PageLoadKeeps DEF NoToken, Pages
<1>3. CASE /\ calls' = calls \ {c} /\ SignInEnds(c.tab, c) /\ UNCHANGED <<page, flags>>
           /\ stored' \in 0..issued /\ latch' \in [Tabs -> BOOLEAN]
  <2>1. page' = [page EXCEPT ![c.tab] = page[c.tab]]
    BY <1>3 DEF SessionInv, Values
  <2>2. flags' \in [Tabs -> SUBSET (1..issued)]
    BY <1>3 DEF SessionInv, Values
  <2>3. \A u \in Tabs : Selfied(u)'
    BY <1>3 DEF SessionInv, Selfied
  <2>4. QED
    BY <1>1, <1>3, <2>1, <2>2, <2>3, OverKeeps
<1>4. QED
  BY <1>1, <1>2, <1>3 DEF Unauthorized, NoToken, SessionInv, Values

-----------------------------------------------------------------------------
(* What becomes of a call.                                                 *)

LEMMA CallKeeps ==
  ASSUME SessionInv, NEW c \in calls, Progress(c) \/ Lose(c)
  PROVE  SessionInv'
<1>1. /\ c \in Call /\ c.tab \in Tabs /\ c.token \in 0..issued
      /\ stored \in 0..issued /\ faults \in 0..MaxFaults
      /\ issued \in 0..MaxLogins /\ posted \in SUBSET Tabs /\ page[c.tab] \in Pages
      /\ latch \in [Tabs -> BOOLEAN] /\ flags \in [Tabs -> SUBSET (1..issued)]
  BY SessionAssumption DEF SessionInv, Values, CallOK, Call
<1>2. ASSUME UNCHANGED page
      PROVE  page' = [page EXCEPT ![c.tab] = page[c.tab]]
  BY <1>2 DEF SessionInv, Values
<1>3. ASSUME calls' = calls \ {c}, SignInEnds(c.tab, c),
             UNCHANGED <<stored, serverVars, page, latch, flags, faults>>
      PROVE  SessionInv'
  <2>1. \A u \in Tabs : Selfied(u)'
    BY <1>3 DEF SessionInv, Selfied
  <2>2. QED
    BY <1>1, <1>2, <1>3, <2>1, OverKeeps
<1>4. c.kind # "login" /\ UNCHANGED busy => SignInEnds(c.tab, c)
  BY DEF SignInEnds, SessionInv, Values
<1>5. CASE Authenticate(c)
  <2> DEFINE d == [c EXCEPT !.answer = "ok", !.token = issued + 1]
  <2>2. /\ calls' = (calls \ {c}) \cup {d} /\ issued' = issued + 1
        /\ issued' \in issued..MaxLogins /\ issued + 1 \in 0..MaxLogins
    BY <1>1, <1>5, SessionAssumption DEF Authenticate
  <2>0. d \in Call /\ d.token = issued + 1
    BY <1>1, <2>2 DEF Call
  <2>1. d \in Call /\ d.token <= issued'
    <3> HIDE DEF d
    <3>1. QED
      BY <1>1, <2>0, <2>2, SessionAssumption
  <2>4. /\ d.tab = c.tab /\ d.kind = c.kind /\ d.mounted = c.mounted
        /\ d.kind = "login"
    BY <1>1, <1>5 DEF Call, Authenticate, Asked
  <2>3. UNCHANGED <<stored, dead, posted, tabVars, faults>>
    BY <1>5 DEF Authenticate
  <2> HIDE DEF d
  <2>5. QED
    BY <1>1, <2>1, <2>2, <2>3, <2>4, AnswerKeeps
<1>6. ASSUME NEW what \in {"ok", "failed"}, Answer(c, what), c.kind # "poll",
             c.kind = "selfie" /\ what = "ok" => c.tab \in posted',
             posted' \in SUBSET Tabs, posted \subseteq posted', faults' \in 0..MaxFaults,
             UNCHANGED <<stored, issued, dead, tabVars>>
      PROVE  SessionInv'
  <2> DEFINE d == [c EXCEPT !.answer = what]
  <2>1. /\ d \in Call /\ d.tab = c.tab /\ d.kind = c.kind /\ d.mounted = c.mounted
        /\ d.token = c.token /\ d.answer = what
    BY <1>1 DEF Call
  <2>2. calls' = (calls \ {c}) \cup {d} /\ issued' \in issued..MaxLogins /\ d.token <= issued'
    BY <1>1, <1>6, SessionAssumption DEF Answer
  <2> HIDE DEF d
  <2>3. QED
    BY <1>6, <2>1, <2>2, AnswerKeeps
<1>7. CASE SelfieServe(c)
  BY <1>1, <1>6, <1>7 DEF SelfieServe, Asked
<1>8. CASE LoginAnswered(c)
  <2>1. SignInEnds(c.tab, c)
    BY <1>8 DEF LoginAnswered, SignInEnds, SessionInv, Values
  <2>2. \A u \in Tabs : Selfied(u)'
    BY <1>1, <1>8 DEF LoginAnswered, Shows, SessionInv, Values, Selfied
  <2>3. QED
    BY <1>1, <1>8, <2>1, <2>2, OverKeeps DEF LoginAnswered, Shows, Sole, Pages
<1>9. CASE LoginRefused(c)
  <2>1. CASE Unauthorized(c.tab, c)
    BY <1>9, <2>1, UnauthorizedKeeps DEF LoginRefused
  <2>2. CASE ~Unauthorized(c.tab, c)
    BY <1>3, <1>9, <2>2 DEF LoginRefused
  <2>3. QED
    BY <2>1, <2>2
<1>10. CASE PollAnswered(c)
  <2>1. CASE Unauthorized(c.tab, c)
    BY <1>10, <2>1, UnauthorizedKeeps DEF PollAnswered
  <2>2. CASE ~Unauthorized(c.tab, c)
    BY <1>3, <1>4, <1>10, <2>2 DEF PollAnswered
  <2>3. QED
    BY <2>1, <2>2
<1>11. CASE SelfieAnswered(c)
  <2>1. CASE c.answer # "ok"
    BY <1>3, <1>4, <1>11, <2>1 DEF SelfieAnswered
  <2>2. CASE c.answer = "ok"
    <3>1. /\ c.tab \in posted /\ SignInEnds(c.tab, c)
          /\ flags' \in [Tabs -> SUBSET (1..issued)]
          /\ \A u \in Tabs : u # c.tab => flags'[u] = flags[u]
      BY <1>1, <1>4, <1>11, <2>2 DEF SelfieAnswered, SessionInv, CallOK, NoToken
    <3>2. PICK p \in Pages : /\ page' = [page EXCEPT ![c.tab] = p]
                             /\ p = page[c.tab] \/ Sole(c)
      BY <1>1, <1>2, <1>11, <2>2 DEF SelfieAnswered, Shows, Sole, Pages
    <3>3. \A u \in Tabs : Selfied(u)'
      BY <1>11, <3>1, <3>2 DEF SelfieAnswered, SessionInv, Values, Selfied
    <3>4. QED
      BY <1>1, <1>11, <3>1, <3>2, <3>3, OverKeeps DEF SelfieAnswered
  <2>3. QED
    BY <2>1, <2>2
<1>12. CASE Lose(c)
  <2>1. faults' \in 0..MaxFaults
    BY <1>1, <1>12, SessionAssumption DEF Lose, Fault
  <2>2. CASE Asked(c, "poll")
    <3>1. \A u \in Tabs : Selfied(u)'
      BY <1>12 DEF Lose, SessionInv, Selfied
    <3>2. QED
      BY <1>1, <1>2, <1>4, <1>12, <2>1, <2>2, <3>1, OverKeeps DEF Lose, Asked
  <2>3. CASE ~Asked(c, "poll")
    BY <1>1, <1>6, <1>12, <2>1, <2>3 DEF Lose
  <2>4. QED
    BY <2>2, <2>3
<1>13. QED
  BY <1>5, <1>7, <1>8, <1>9, <1>10, <1>11, <1>12 DEF Progress

-----------------------------------------------------------------------------
LEMMA NextSession == SessionInv /\ [Next]_vars => SessionInv'
<1> SUFFICES ASSUME SessionInv, [Next]_vars PROVE SessionInv'
  OBVIOUS
<1>1. ASSUME NEW k \in Tokens, Revoke(k)
      PROVE  SessionInv'
  <2>1. Values'
    BY <1>1, SessionAssumption DEF Revoke, SessionInv, Values, Tokens
  <2>2. QED
    BY <1>1, <2>1 DEF Revoke, SessionInv, CallOK, Single, SigningIn, Selfied
<1>2. CASE UNCHANGED vars
  BY <1>2 DEF SessionInv, Values, CallOK, Single, SigningIn, Selfied
<1>3. QED
  BY <1>1, <1>2, TabKeeps, CallKeeps DEF Next

(* The inductive invariant holds in every state the tabs and the server    *)
(* can reach.                                                              *)
THEOREM SessionInvHolds == Spec => []SessionInv
<1>1. Init => SessionInv
  BY InitSession
<1>2. QED
  BY <1>1, NextSession, PTL DEF Spec

(* Every variable keeps its type; a login form is busy exactly while its   *)
(* sign-in is under way, and a gate awaits one selfie at most.             *)
THEOREM SessionTypes == Spec => []SessionTypeOK
<1>1. QED
  BY SessionTyped, SessionInvHolds, PTL

(* No tab shows the desk before the server took a selfie from that tab,    *)
(* however many tabs share the token, and whatever is lost, refused,       *)
(* reloaded or signed out on the way.                                      *)
THEOREM SessionSelfie == Spec => []SelfieBeforeDesk
<1>1. SessionInv => SelfieBeforeDesk
  BY DEF SessionInv, Selfied, SelfieBeforeDesk
<1>2. QED
  BY <1>1, SessionInvHolds, PTL
=============================================================================
