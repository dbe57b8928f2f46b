------------------------------ MODULE OtpProof ------------------------------
(***************************************************************************)
(* The proof that a registrant owns an address: the OTP field of the       *)
(* registration wizard (OtpVerificationField.jsx inside Register.jsx), the *)
(* in-memory code store of the server (otp.go) and the token that          *)
(* registerInit checks.  One channel is modelled; email and SMS differ in  *)
(* the form of the target only.  A code is the number of its issue, so two *)
(* codes are never equal.                                                  *)
(***************************************************************************)
EXTENDS Naturals, FiniteSets

CONSTANTS
  Pages,     \* browser tabs with the wizard open
  Targets,   \* complete addresses
  MaxTries,  \* the store's maxTries
  MaxCodes,  \* bound: codes issued
  MaxCalls,  \* bound: requests in flight at once
  MaxFaults  \* bound: lost requests, expiries and restarts

ASSUME OtpAssumption ==
  MaxTries \in Nat \ {0} /\ {MaxCodes, MaxCalls, MaxFaults} \subseteq Nat

VARIABLES
  codes,   \* the store's entry of each target
  issued,  \* codes issued so far
  mailed,  \* <<target, code>> of each code that reached a mailbox
  step,    \* the wizard step each tab shows
  value,   \* the address typed in each tab
  token,   \* the proof token each tab holds
  field,   \* the state of the OTP field on screen in each tab
  calls,   \* requests in flight
  faults,  \* faults so far
  tried,   \* history: guesses compared with each code
  bought,  \* history: tokens each code bought
  filed    \* history: <<tab, target>> of each accepted registerInit

storeVars == <<codes, issued, mailed, tried, bought>>
pageVars == <<step, value, token, field>>
vars == <<storeVars, pageVars, calls, faults, filed>>

Incomplete == "incomplete"   \* what the input holds while it is typed
NoEntry == [code |-> 0, attempts |-> 0, live |-> FALSE, cooling |-> FALSE]
NoToken == [target |-> Incomplete, live |-> FALSE]
WrongCode == 0
FreshField == [sent |-> FALSE, sending |-> FALSE, verifying |-> FALSE, editing |-> FALSE]

Addresses == Targets \cup {Incomplete}
Verified(p) == token[p] # NoToken

(* A request: who sent it, whether the field that waits for it is still    *)
(* mounted, and what the server answered.                                  *)
Call == [page: Pages, kind: {"send", "verify"}, target: Addresses,
         guess: 0..MaxCodes, mounted: BOOLEAN, answer: {"none", "ok", "error"}]

OtpTypeOK ==
  /\ codes \in [Targets -> [code: 0..issued, attempts: 0..MaxTries - 1,
                            live: BOOLEAN, cooling: BOOLEAN]]
  /\ issued \in 0..MaxCodes
  /\ mailed \subseteq Targets \X (1..issued)
  /\ step \in [Pages -> {"institution", "address", "later"}]
  /\ value \in [Pages -> Addresses]
  /\ token \in [Pages -> [target: Addresses, live: BOOLEAN]]
  /\ field \in [Pages -> [sent: BOOLEAN, sending: BOOLEAN,
                          verifying: BOOLEAN, editing: BOOLEAN]]
  /\ calls \subseteq Call
  /\ faults \in 0..MaxFaults
  /\ tried \in [1..MaxCodes -> Nat] /\ bought \in [1..MaxCodes -> Nat]
  /\ filed \subseteq Pages \X Addresses

Init ==
  /\ codes = [t \in Targets |-> NoEntry]
  /\ issued = 0 /\ mailed = {} /\ calls = {} /\ filed = {} /\ faults = 0
  /\ tried = [k \in 1..MaxCodes |-> 0] /\ bought = [k \in 1..MaxCodes |-> 0]
  /\ step = [p \in Pages |-> "address"]
  /\ value = [p \in Pages |-> Incomplete]
  /\ token = [p \in Pages |-> NoToken]
  /\ field = [p \in Pages |-> FreshField]

-----------------------------------------------------------------------------
(* The field in the wizard.  Every operation needs it on screen.           *)

OnScreen(p) == step[p] = "address"

Request(p, kind, guess) ==
  [page |-> p, kind |-> kind, target |-> value[p], guess |-> guess,
   mounted |-> TRUE, answer |-> "none"]

(* The input takes keys unless it shows a verified address that nobody     *)
(* asked to change.  A different address drops the token.                  *)
Type(p, v) ==
  /\ OnScreen(p) /\ v # value[p]
  /\ Verified(p) => field[p].editing
  /\ value' = [value EXCEPT ![p] = v]
  /\ token' = [token EXCEPT ![p] = NoToken]
  /\ field' = [field EXCEPT ![p].sent = @ /\ ~ Verified(p)]
  /\ UNCHANGED <<storeVars, step, calls, faults, filed>>

StartEditing(p) ==
  /\ OnScreen(p) /\ Verified(p)
  /\ token' = [token EXCEPT ![p] = NoToken]
  /\ field' = [field EXCEPT ![p].editing = TRUE, ![p].sent = FALSE]
  /\ UNCHANGED <<storeVars, step, value, calls, faults, filed>>

Ask(p, kind, guess) ==
  /\ Cardinality(calls) < MaxCalls
  /\ calls' = calls \cup {Request(p, kind, guess)}

(* Send OTP and Resend: the countdown hides one of the two buttons only.   *)
SendOtp(p) ==
  /\ OnScreen(p) /\ ~ Verified(p) /\ value[p] \in Targets /\ ~ field[p].sending
  /\ field' = [field EXCEPT ![p].sending = TRUE]
  /\ Ask(p, "send", WrongCode)
  /\ UNCHANGED <<storeVars, step, value, token, faults, filed>>

(* The applicant may enter any code they were mailed, or a wrong one.      *)
VerifyOtp(p) ==
  /\ OnScreen(p) /\ ~ Verified(p) /\ field[p].sent /\ ~ field[p].verifying
  /\ field' = [field EXCEPT ![p].verifying = TRUE]
  /\ \E k \in {m[2] : m \in mailed} \cup {WrongCode} : Ask(p, "verify", k)
  /\ UNCHANGED <<storeVars, step, value, token, faults, filed>>

(* An answer reaches the tab.  onVerified sets the wizard's state even when*)
(* the field that asked is gone; the field's own state goes with it.       *)
SendAnswered(c) ==
  /\ c.kind = "send" /\ c.answer # "none"
  /\ field' = IF c.mounted
              THEN [field EXCEPT ![c.page].sending = FALSE,
                                 ![c.page].sent = @ \/ c.answer = "ok"]
              ELSE field
  /\ calls' = calls \ {c}
  /\ UNCHANGED <<storeVars, step, value, token, faults, filed>>

VerifyAnswered(c) ==
  /\ c.kind = "verify" /\ c.answer # "none"
  /\ token' = IF c.answer = "ok"
              THEN [token EXCEPT ![c.page] = [target |-> c.target, live |-> TRUE]]
              ELSE token
  /\ field' = IF ~ c.mounted THEN field
              ELSE IF c.answer = "ok"
              THEN [field EXCEPT ![c.page].verifying = FALSE,
                                 ![c.page].sent = FALSE, ![c.page].editing = FALSE]
              ELSE [field EXCEPT ![c.page].verifying = FALSE]
  /\ calls' = calls \ {c}
  /\ UNCHANGED <<storeVars, step, value, faults, filed>>

(* Continue needs a token; Back does not.  Either unmounts the field.      *)
(* Bound: a field left with a request in flight is not left again before   *)
(* the request is over.                                                    *)
Unmount(c) == [c EXCEPT !.mounted = FALSE]

LeaveStep(p, to) ==
  /\ OnScreen(p)
  /\ to = "later" => value[p] \in Targets /\ Verified(p)
  /\ \A c \in calls : c.page = p => c.mounted
  /\ step' = [step EXCEPT ![p] = to]
  /\ field' = [field EXCEPT ![p] = FreshField]
  /\ calls' = {IF c.page = p THEN Unmount(c) ELSE c : c \in calls}
  /\ UNCHANGED <<storeVars, value, token, faults, filed>>

ReturnToStep(p) ==
  /\ ~ OnScreen(p)
  /\ step' = [step EXCEPT ![p] = "address"]
  /\ UNCHANGED <<storeVars, value, token, field, calls, faults, filed>>

-----------------------------------------------------------------------------
(* The code store.  Its mutex makes each operation one step.               *)

Answered(c, what) == calls' = (calls \ {c}) \cup {[c EXCEPT !.answer = what]}
Asked(c, kind) == c.kind = kind /\ c.answer = "none"

(* Generate: a new code replaces the old entry, attempts included, unless  *)
(* the last one was sent a moment ago.  The mail may still fail: the code  *)
(* and its cooldown stay.                                                  *)
Generate(c) ==
  /\ Asked(c, "send") /\ ~ codes[c.target].cooling /\ issued < MaxCodes
  /\ issued' = issued + 1
  /\ codes' = [codes EXCEPT ![c.target] =
                 [code |-> issued', attempts |-> 0, live |-> TRUE, cooling |-> TRUE]]
  /\ \/ /\ mailed' = mailed \cup {<<c.target, issued'>>}
        /\ Answered(c, "ok")
     \/ /\ UNCHANGED mailed
        /\ Answered(c, "error")
  /\ UNCHANGED <<tried, bought, pageVars, faults, filed>>

GenerateCooling(c) ==
  /\ Asked(c, "send") /\ codes[c.target].cooling
  /\ Answered(c, "error")
  /\ UNCHANGED <<storeVars, pageVars, faults, filed>>

(* Verify.  The check of the attempts before the comparison never bites:   *)
(* the wrong guess that reaches maxTries has deleted the entry.            *)
Pending(c) == c.target \in Targets /\ codes[c.target] # NoEntry
Compared(c) ==
  /\ Asked(c, "verify") /\ Pending(c) /\ codes[c.target].live
  /\ codes[c.target].attempts + 1 <= MaxTries
Tally(c) == tried' = [tried EXCEPT ![codes[c.target].code] = @ + 1]
Drop(c) == codes' = [codes EXCEPT ![c.target] = NoEntry]

VerifyNothing(c) ==
  /\ Asked(c, "verify") /\ ~ (Pending(c) /\ codes[c.target].live)
  /\ IF Pending(c) THEN Drop(c) ELSE UNCHANGED codes
  /\ Answered(c, "error")
  /\ UNCHANGED <<issued, mailed, tried, bought, pageVars, faults, filed>>

LastTryMutant(c) == codes[c.target].attempts = MaxTries
LastTry(c) == MaxTries - (codes[c.target].attempts + 1) <= 0

VerifyWrong(c) ==
  /\ Compared(c) /\ c.guess # codes[c.target].code
  /\ IF LastTry(c) THEN Drop(c)
     ELSE codes' = [codes EXCEPT ![c.target].attempts = @ + 1]
  /\ Tally(c) /\ Answered(c, "error")
  /\ UNCHANGED <<issued, mailed, bought, pageVars, faults, filed>>

VerifyMatchMutant(c) ==
  /\ Compared(c) /\ c.guess = codes[c.target].code
  /\ bought' = [bought EXCEPT ![c.guess] = @ + 1]
  /\ Tally(c) /\ Answered(c, "ok")
  /\ UNCHANGED <<codes, issued, mailed, pageVars, faults, filed>>

VerifyMatch(c) ==
  /\ Compared(c) /\ c.guess = codes[c.target].code
  /\ Drop(c)
  /\ bought' = [bought EXCEPT ![c.guess] = @ + 1]
  /\ Tally(c) /\ Answered(c, "ok")
  /\ UNCHANGED <<issued, mailed, pageVars, faults, filed>>

(* registerInit takes the form as it stands with the token as it stands.   *)
ValidProofMutant(p) == token[p].live
ValidProof(p) == token[p].live /\ token[p].target = value[p]

RegisterInit(p) ==
  /\ step[p] = "later" /\ ValidProof(p)
  /\ filed' = filed \cup {<<p, value[p]>>}
  /\ UNCHANGED <<storeVars, pageVars, calls, faults>>

(* Start over, once the application is filed.                              *)
StartOver(p) ==
  /\ step[p] = "later" /\ \E f \in filed : f[1] = p
  /\ step' = [step EXCEPT ![p] = "institution"]
  /\ value' = [value EXCEPT ![p] = Incomplete]
  /\ token' = [token EXCEPT ![p] = NoToken]
  /\ UNCHANGED <<storeVars, field, calls, faults, filed>>

-----------------------------------------------------------------------------
(* Time and faults.  The cooldown is shorter than the code's life.         *)

CoolDown(t) ==
  /\ codes[t].cooling
  /\ codes' = [codes EXCEPT ![t].cooling = FALSE]
  /\ UNCHANGED <<issued, mailed, tried, bought, pageVars, calls, faults, filed>>

Fault == faults < MaxFaults /\ faults' = faults + 1

CodeExpires(t) ==
  /\ Fault /\ codes[t].live /\ ~ codes[t].cooling
  /\ codes' = [codes EXCEPT ![t].live = FALSE]
  /\ UNCHANGED <<issued, mailed, tried, bought, pageVars, calls, filed>>

CleanUp(t) ==
  /\ codes[t] # NoEntry /\ ~ codes[t].live
  /\ codes' = [codes EXCEPT ![t] = NoEntry]
  /\ UNCHANGED <<issued, mailed, tried, bought, pageVars, calls, faults, filed>>

TokenExpires(p) ==
  /\ Fault /\ token[p].live
  /\ token' = [token EXCEPT ![p].live = FALSE]
  /\ UNCHANGED <<storeVars, step, value, field, calls, filed>>

(* A restart of the server forgets the codes.  Tokens are signed, not kept.*)
Restart ==
  /\ Fault
  /\ codes' = [t \in Targets |-> NoEntry]
  /\ UNCHANGED <<issued, mailed, tried, bought, pageVars, calls, filed>>

(* The request or its answer is lost: the tab sees a failed fetch.         *)
Lose(c) ==
  /\ Fault /\ c.answer # "error"
  /\ Answered(c, "error")
  /\ UNCHANGED <<storeVars, pageVars, filed>>

Applicant(p) ==
  \/ \E v \in Addresses : Type(p, v)
  \/ StartEditing(p) \/ SendOtp(p) \/ VerifyOtp(p)
  \/ \E to \in {"institution", "later"} : LeaveStep(p, to)
  \/ ReturnToStep(p) \/ RegisterInit(p) \/ StartOver(p)

Serve(c) ==
  \/ Generate(c) \/ GenerateCooling(c)
  \/ VerifyNothing(c) \/ VerifyWrong(c) \/ VerifyMatch(c)
  \/ SendAnswered(c) \/ VerifyAnswered(c)

Next ==
  \/ \E p \in Pages : Applicant(p) \/ TokenExpires(p)
  \/ \E c \in calls : Serve(c) \/ Lose(c)
  \/ \E t \in Targets : CoolDown(t) \/ CodeExpires(t) \/ CleanUp(t)
  \/ Restart

Spec == Init /\ [][Next]_vars

-----------------------------------------------------------------------------
(* Properties.                                                             *)

Proven(t) == \E k \in 1..issued : <<t, k>> \in mailed /\ bought[k] > 0

(* Every address registerInit accepts was proven: a code mailed to that    *)
(* very address was entered while it was current, whatever was typed,      *)
(* answered late, expired or started over in between.                      *)
AcceptedTargetProven == \A f \in filed : Proven(f[2])

(* A code answers at most maxTries guesses and buys at most one token,     *)
(* however many tabs, retries, resends and restarts are at work on it (the *)
(* run has one tab, the theorem any number).                               *)
CodeBudget == \A k \in 1..MaxCodes : tried[k] <= MaxTries /\ bought[k] <= 1
=============================================================================
