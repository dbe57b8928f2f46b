--------------------------- MODULE OtpProof_proofs ---------------------------
(***************************************************************************)
(* Proofs about OtpProof, for any number of tabs, addresses, codes and     *)
(* requests: a code answers few guesses and buys one token, and an         *)
(* accepted address was proven.                                            *)
(***************************************************************************)
EXTENDS OtpProof, TLAPS

USE DEF storeVars, pageVars, vars, Incomplete, WrongCode

-----------------------------------------------------------------------------
(* The inductive invariant.                                                *)

Entry == [code: Nat, attempts: Nat, live: BOOLEAN, cooling: BOOLEAN]

(* The store.  An entry holds an issued code that no other entry holds and *)
(* nobody has used, and its attempts are the guesses compared with it.     *)
EntryOK(t) ==
  /\ codes[t].code = 0 => codes[t] = NoEntry
  /\ codes[t].code # 0 =>
       /\ tried[codes[t].code] = codes[t].attempts
       /\ bought[codes[t].code] = 0
       /\ \A u \in Targets : codes[u].code = codes[t].code => u = t
       /\ \A u \in Targets : <<u, codes[t].code>> \in mailed => u = t

StoreOK ==
  /\ \A t \in Targets : EntryOK(t)
  /\ \A k \in 1..MaxCodes : k > issued => tried[k] = 0 /\ bought[k] = 0
  /\ CodeBudget

(* The requests and the tokens.  A guess is wrong or was mailed to someone,*)
(* and a token, or an answer that carries one, stands for a proven address.*)
CallOK(c) ==
  /\ c.kind = "send" => c.target \in Targets
  /\ c.kind = "verify" /\ c.guess # WrongCode => \E u \in Targets : <<u, c.guess>> \in mailed
  /\ c.kind = "verify" /\ c.answer = "ok" => Proven(c.target)

ProofOK ==
  /\ \A c \in calls : CallOK(c)
  /\ \A p \in Pages : token[p].live => Proven(token[p].target)
  /\ AcceptedTargetProven

OtpInv == OtpTypeOK /\ StoreOK /\ ProofOK

LEMMA InitOtp == Init => OtpInv
<1> SUFFICES ASSUME Init PROVE OtpInv
  OBVIOUS
<1>1. OtpTypeOK
  BY OtpAssumption DEF Init, OtpTypeOK, NoEntry, NoToken, FreshField, Addresses
<1>2. StoreOK
  BY OtpAssumption DEF Init, StoreOK, EntryOK, CodeBudget, NoEntry
<1>3. ProofOK
  BY DEF Init, ProofOK, NoToken, AcceptedTargetProven
<1>4. QED
  BY <1>1, <1>2, <1>3 DEF OtpInv

-----------------------------------------------------------------------------
(* The wizard: nothing it does touches the store.                          *)

LEMMA StoreKept == OtpInv /\ UNCHANGED storeVars => StoreOK'
  BY DEF OtpInv, StoreOK, EntryOK, CodeBudget

LEMMA ProvenKept ==
  ASSUME NEW t, Proven(t), issued \in Nat, issued' \in Nat, issued <= issued',
         mailed \subseteq mailed', \A k \in 1..issued : bought'[k] > 0 \/ ~ bought[k] > 0
  PROVE  Proven(t)'
  BY DEF Proven

LEMMA WizardKeeps ==
  ASSUME OtpInv, UNCHANGED storeVars, OtpTypeOK',
         \A c \in calls' : CallOK(c),
         \A p \in Pages : token'[p].live => Proven(token'[p].target),
         \A f \in filed' : Proven(f[2])
  PROVE  OtpInv'
<1>1. StoreOK'
  BY StoreKept
<1>2. ProofOK'
  BY DEF ProofOK, CallOK, AcceptedTargetProven, Proven
<1>3. QED
  BY <1>1, <1>2 DEF OtpInv

LEMMA ApplicantKeeps ==
  ASSUME OtpInv, NEW p \in Pages, Applicant(p)
  PROVE  OtpInv'
<1> USE DEF OtpInv, OtpTypeOK, ProofOK, AcceptedTargetProven, NoToken, Addresses
<1>1. ASSUME NEW v \in Addresses, Type(p, v) PROVE OtpInv'
  BY <1>1, WizardKeeps DEF Type
<1>2. CASE StartEditing(p)
  BY <1>2, WizardKeeps DEF StartEditing
<1>3. CASE SendOtp(p)
  <2>1. CallOK(Request(p, "send", WrongCode)) /\ Request(p, "send", WrongCode) \in Call
    BY <1>3, OtpAssumption DEF SendOtp, CallOK, Request, Call
  <2>2. QED
    BY <1>3, <2>1, WizardKeeps DEF SendOtp, Ask
<1>4. CASE VerifyOtp(p)
  <2>1. PICK k \in {m[2] : m \in mailed} \cup {WrongCode} : Ask(p, "verify", k)
    BY <1>4 DEF VerifyOtp
  <2>2. k \in 0..MaxCodes /\ (k # WrongCode => \E u \in Targets : <<u, k>> \in mailed)
    <3>1. CASE k = WrongCode
      BY <3>1, OtpAssumption
    <3>2. CASE k # WrongCode
      <4>1. PICK m \in mailed : m[2] = k
        BY <3>2
      <4>2. m = <<m[1], m[2]>> /\ m[1] \in Targets /\ m[2] \in 1..issued
        BY <4>1
      <4>3. <<m[1], k>> \in mailed
        BY <4>1, <4>2
      <4>4. k \in 0..MaxCodes
        BY <4>1, <4>2, OtpAssumption
      <4>5. QED
        BY <4>2, <4>3, <4>4
    <3>3. QED
      BY <3>1, <3>2
  <2>3. CallOK(Request(p, "verify", k)) /\ Request(p, "verify", k) \in Call
    BY <2>2 DEF CallOK, Request, Call
  <2>4. QED
    BY <1>4, <2>1, <2>3, WizardKeeps DEF VerifyOtp, Ask
<1>5. ASSUME NEW to \in {"institution", "later"}, LeaveStep(p, to) PROVE OtpInv'
  <2>1. \A c \in calls : Unmount(c) \in Call /\ CallOK(Unmount(c))
    BY DEF Unmount, Call, CallOK
  <2>2. calls' \subseteq Call /\ \A c \in calls' : CallOK(c)
    BY <1>5, <2>1 DEF LeaveStep
  <2>3. OtpTypeOK'
    BY <1>5, <2>2 DEF LeaveStep, FreshField
  <2>4. QED
    BY <1>5, <2>2, <2>3, WizardKeeps DEF LeaveStep
<1>6. CASE ReturnToStep(p)
  BY <1>6, WizardKeeps DEF ReturnToStep
<1>7. CASE RegisterInit(p)
  BY <1>7, WizardKeeps DEF RegisterInit, ValidProof
<1>8. CASE StartOver(p)
  BY <1>8, WizardKeeps DEF StartOver
<1>9. QED
  BY <1>1, <1>2, <1>3, <1>4, <1>5, <1>6, <1>7, <1>8 DEF Applicant

-----------------------------------------------------------------------------
(* Requests, time and faults.                                              *)

(* What a step of the store must keep.                                     *)
LEMMA StoreStep ==
  ASSUME OtpInv, OtpTypeOK', StoreOK',
         UNCHANGED <<token, filed>>,
         issued <= issued', mailed \subseteq mailed',
         \A k \in 1..issued : bought'[k] > 0 \/ ~ bought[k] > 0,
         NEW c, calls' \subseteq calls \cup {c}, CallOK(c)'
  PROVE  OtpInv'
<1> USE DEF OtpInv, OtpTypeOK
<1>1. \A t : Proven(t) => Proven(t)'
  BY ProvenKept
<1>2. \A d \in calls : CallOK(d)'
  BY <1>1 DEF ProofOK, CallOK
<1>3. ProofOK'
  BY <1>1, <1>2 DEF ProofOK, AcceptedTargetProven
<1>4. QED
  BY <1>3

(* A request answered without a token is in order.                         *)
LEMMA AnswerOK ==
  ASSUME OtpInv, NEW c \in calls, NEW what \in {"ok", "error"},
         what = "error" \/ c.kind = "send"
  PROVE  /\ [c EXCEPT !.answer = what] \in Call
         /\ mailed \subseteq mailed' => CallOK([c EXCEPT !.answer = what])'
<1> DEFINE d == [c EXCEPT !.answer = what]
<1>1. c \in Call /\ CallOK(c)
  BY DEF OtpInv, OtpTypeOK, ProofOK
<1>2. /\ d \in Call /\ d.kind = c.kind /\ d.target = c.target /\ d.guess = c.guess
      /\ d.answer = what
  BY <1>1 DEF Call
<1>3. mailed \subseteq mailed' => CallOK(d)'
  BY <1>1, <1>2 DEF CallOK
<1>4. QED
  BY <1>2, <1>3

LEMMA GenerateKeeps ==
  ASSUME OtpInv, NEW c \in calls, Generate(c)
  PROVE  OtpInv'
<1> USE DEF OtpInv, OtpTypeOK
<1>1. c.target \in Targets /\ c.kind = "send"
  BY DEF Generate, Asked, ProofOK, CallOK
<1>2. PICK what \in {"ok", "error"} : Answered(c, what)
  BY DEF Generate
<1>3. [c EXCEPT !.answer = what] \in Call /\ CallOK([c EXCEPT !.answer = what])'
  BY <1>1, <1>2, AnswerOK DEF Generate
<1>4. issued' = issued + 1 /\ issued' \in 1..MaxCodes /\ mailed' \subseteq mailed \cup {<<c.target, issued'>>}
  BY OtpAssumption DEF Generate
<1>5. codes' = [codes EXCEPT ![c.target] =
                  [code |-> issued', attempts |-> 0, live |-> TRUE, cooling |-> TRUE]]
  BY DEF Generate
<1>6. OtpTypeOK'
  <2>1. codes' \in [Targets -> [code: 0..issued', attempts: 0..MaxTries - 1,
                                live: BOOLEAN, cooling: BOOLEAN]]
    <3>1. [code |-> issued', attempts |-> 0, live |-> TRUE, cooling |-> TRUE]
            \in [code: 0..issued', attempts: 0..MaxTries - 1, live: BOOLEAN, cooling: BOOLEAN]
      BY <1>4, OtpAssumption
    <3>2. \A t \in Targets : codes[t] \in [code: 0..issued', attempts: 0..MaxTries - 1,
                                           live: BOOLEAN, cooling: BOOLEAN]
      BY <1>4, OtpAssumption
    <3>3. QED
      BY <1>1, <1>5, <3>1, <3>2
  <2>2. mailed' \subseteq Targets \X (1..issued')
    BY <1>1, <1>4
  <2>3. calls' \subseteq Call
    BY <1>2, <1>3 DEF Answered
  <2>4. QED
    BY <1>4, <2>1, <2>2, <2>3, OtpAssumption DEF Generate
<1>7. ASSUME NEW t \in Targets PROVE EntryOK(t)'
  <2>1. CASE t = c.target
    <3>1. codes'[t].code = issued' /\ codes'[t].attempts = 0
      BY <1>1, <1>5, <2>1
    <3>2. tried'[issued'] = 0 /\ bought'[issued'] = 0
      BY <1>4 DEF Generate, StoreOK
    <3>3. \A u \in Targets \ {t} : codes'[u].code # issued'
      BY <1>4, <1>5, <2>1
    <3>4. \A u \in Targets : <<u, issued'>> \in mailed' => u = t
      BY <1>4, <2>1
    <3>5. QED
      BY <1>4, <3>1, <3>2, <3>3, <3>4 DEF EntryOK
  <2>2. CASE t # c.target
    <3>1. codes'[t] = codes[t] /\ codes[t].code \in 0..issued
      BY <1>5, <2>2
    <3>2. \A u \in Targets : codes'[u].code = codes[u].code \/ codes'[u].code = issued'
      BY <1>1, <1>5
    <3>3. codes[t].code # issued'
      BY <1>4, <3>1
    <3>4. \A u \in Targets : <<u, codes[t].code>> \in mailed' => <<u, codes[t].code>> \in mailed
      BY <1>4, <3>3
    <3>5. EntryOK(t) /\ tried' = tried /\ bought' = bought
      BY DEF StoreOK, Generate
    <3>6. QED
      BY <3>1, <3>2, <3>3, <3>4, <3>5 DEF EntryOK
  <2>3. QED
    BY <2>1, <2>2
<1>8. StoreOK'
  BY <1>4, <1>7 DEF Generate, StoreOK, CodeBudget
<1>9. calls' \subseteq calls \cup {[c EXCEPT !.answer = what]} /\ mailed \subseteq mailed'
  BY <1>2 DEF Answered, Generate
<1>10. UNCHANGED <<token, filed, bought>> /\ issued <= issued'
  BY <1>4 DEF Generate
<1>11. QED
  BY <1>3, <1>6, <1>8, <1>9, <1>10, StoreStep

(* Guesses.  Each uses up the entry's attempt, or the entry.               *)

LEMMA ComparedEntry ==
  ASSUME OtpInv, NEW c \in calls, Compared(c)
  PROVE  /\ c \in Call /\ CallOK(c) /\ c.kind = "verify"
         /\ c.target \in Targets /\ EntryOK(c.target)
         /\ codes[c.target].code \in 1..issued /\ codes[c.target].code \in 1..MaxCodes
         /\ codes[c.target].attempts \in Nat /\ codes[c.target].attempts + 1 <= MaxTries
<1>1. c \in Call /\ CallOK(c)
  BY DEF OtpInv, OtpTypeOK, ProofOK
<1>2. c.target \in Targets /\ codes[c.target] # NoEntry /\ c.kind = "verify"
  BY DEF Compared, Pending, Asked
<1>3. EntryOK(c.target)
  BY <1>2 DEF OtpInv, StoreOK
<1>4. codes[c.target].code # 0
  BY <1>2, <1>3 DEF EntryOK
<1>5. codes[c.target].code \in 0..issued /\ codes[c.target].attempts \in 0..MaxTries - 1
  BY <1>2 DEF OtpInv, OtpTypeOK
<1>6. issued \in 0..MaxCodes
  BY DEF OtpInv, OtpTypeOK
<1>7. codes[c.target].attempts + 1 <= MaxTries
  BY DEF Compared
<1>8. QED
  BY <1>1, <1>2, <1>3, <1>4, <1>5, <1>6, <1>7, OtpAssumption

(* The code of an entry that changed belongs to no other.                  *)
LEMMA OtherEntry ==
  ASSUME OtpInv, NEW t \in Targets, NEW u \in Targets, u # t, codes[t].code # 0,
         codes'[u] = codes[u],
         codes'[t] = NoEntry \/ codes'[t].code = codes[t].code,
         \A v \in Targets \ {t} : codes'[v] = codes[v],
         \A k \in 1..MaxCodes : k # codes[t].code => tried'[k] = tried[k] /\ bought'[k] = bought[k],
         UNCHANGED mailed
  PROVE  EntryOK(u)'
<1>1. EntryOK(u) /\ EntryOK(t)
  BY DEF OtpInv, StoreOK
<1>2. CASE codes[u].code = 0
  BY <1>1, <1>2 DEF EntryOK
<1>3. CASE codes[u].code # 0
  <2>1. codes[u].code \in 1..MaxCodes
    BY <1>3, OtpAssumption DEF OtpInv, OtpTypeOK
  <2>2. codes[u].code # codes[t].code
    BY <1>1, <1>3 DEF EntryOK
  <2>3. tried'[codes[u].code] = codes[u].attempts /\ bought'[codes[u].code] = 0
    BY <1>1, <1>3, <2>1, <2>2 DEF EntryOK
  <2>4. \A v \in Targets : codes'[v].code = codes[u].code => v = u
    <3>1. codes'[t].code # codes[u].code
      BY <1>3, <2>2 DEF NoEntry
    <3>2. QED
      BY <1>1, <1>3, <3>1 DEF EntryOK
  <2>5. \A v \in Targets : <<v, codes[u].code>> \in mailed' => v = u
    BY <1>1, <1>3 DEF EntryOK
  <2>6. QED
    BY <1>3, <2>3, <2>4, <2>5 DEF EntryOK
<1>4. QED
  BY <1>2, <1>3

LEMMA VerifyWrongKeeps ==
  ASSUME OtpInv, NEW c \in calls, VerifyWrong(c)
  PROVE  OtpInv'
<1> DEFINE t == c.target
           k == codes[t].code
<1>1. /\ t \in Targets /\ EntryOK(t) /\ k \in 1..issued /\ k \in 1..MaxCodes
      /\ codes[t].attempts \in Nat /\ codes[t].attempts + 1 <= MaxTries
  BY ComparedEntry DEF VerifyWrong
<1>2. tried[k] = codes[t].attempts
  BY <1>1 DEF EntryOK
<1>3. tried' = [tried EXCEPT ![k] = tried[k] + 1] /\ tried \in [1..MaxCodes -> Nat]
  BY DEF VerifyWrong, Tally, OtpInv, OtpTypeOK
<1>4. [c EXCEPT !.answer = "error"] \in Call /\ CallOK([c EXCEPT !.answer = "error"])'
  BY AnswerOK DEF VerifyWrong
<1>5. /\ codes' \in [Targets -> [code: 0..issued, attempts: 0..MaxTries - 1,
                                 live: BOOLEAN, cooling: BOOLEAN]]
      /\ codes'[t] = NoEntry \/ (codes'[t].code = k /\ codes'[t].attempts = codes[t].attempts + 1)
      /\ \A u \in Targets \ {t} : codes'[u] = codes[u]
  <2>1. codes \in [Targets -> [code: 0..issued, attempts: 0..MaxTries - 1,
                              live: BOOLEAN, cooling: BOOLEAN]] /\ issued \in Nat
    BY OtpAssumption DEF OtpInv, OtpTypeOK
  <2>2. CASE LastTry(c)
    <3>1. codes' = [codes EXCEPT ![t] = NoEntry]
      BY <2>2 DEF VerifyWrong, Drop
    <3>2. NoEntry \in [code: 0..issued, attempts: 0..MaxTries - 1, live: BOOLEAN, cooling: BOOLEAN]
      BY <2>1, OtpAssumption DEF NoEntry
    <3>3. codes'[t] = NoEntry /\ \A u \in Targets \ {t} : codes'[u] = codes[u]
      BY <1>1, <2>1, <3>1
    <3>4. codes' \in [Targets -> [code: 0..issued, attempts: 0..MaxTries - 1,
                                 live: BOOLEAN, cooling: BOOLEAN]]
      BY <2>1, <3>1, <3>2
    <3>5. QED
      BY <3>3, <3>4
  <2>3. CASE ~ LastTry(c)
    <3> DEFINE e == [codes[t] EXCEPT !.attempts = codes[t].attempts + 1]
    <3>1. codes' = [codes EXCEPT ![t] = e]
      BY <1>1, <2>1, <2>3 DEF VerifyWrong
    <3>2. codes[t].attempts + 1 \in 0..MaxTries - 1
      BY <1>1, <2>3, OtpAssumption DEF LastTry
    <3>3. /\ e \in [code: 0..issued, attempts: 0..MaxTries - 1, live: BOOLEAN, cooling: BOOLEAN]
          /\ e.code = k /\ e.attempts = codes[t].attempts + 1
      BY <1>1, <2>1, <3>2
    <3> HIDE DEF e
    <3>4. QED
      BY <1>1, <2>1, <3>1, <3>3
  <2>4. QED
    BY <2>2, <2>3
<1>6. calls' \subseteq calls \cup {[c EXCEPT !.answer = "error"]}
  BY DEF VerifyWrong, Answered
<1>7. OtpTypeOK'
  <2>1. calls' \subseteq Call
    BY <1>4, <1>6 DEF OtpInv, OtpTypeOK
  <2>2. tried' \in [1..MaxCodes -> Nat]
    BY <1>1, <1>3
  <2>3. QED
    BY <1>5, <2>1, <2>2 DEF OtpInv, OtpTypeOK, VerifyWrong
<1>8. ASSUME NEW u \in Targets PROVE EntryOK(u)'
  <2>1. CASE u = t
    <3>1. tried'[k] = codes[t].attempts + 1
      BY <1>1, <1>2, <1>3
    <3>2. \A v \in Targets : codes'[v].code = k => v = t
      BY <1>1, <1>5 DEF EntryOK
    <3>3. UNCHANGED <<bought, mailed>>
      BY DEF VerifyWrong
    <3>4. CASE codes'[t] = NoEntry
      BY <2>1, <3>4 DEF EntryOK, NoEntry
    <3>5. CASE codes'[t].code = k /\ codes'[t].attempts = codes[t].attempts + 1
      BY <1>1, <2>1, <3>1, <3>2, <3>3, <3>5 DEF EntryOK
    <3>6. QED
      BY <1>5, <3>4, <3>5
  <2>2. CASE u # t
    <3>1. \A j \in 1..MaxCodes : j # k => tried'[j] = tried[j] /\ bought'[j] = bought[j]
      BY <1>1, <1>3 DEF VerifyWrong
    <3>2. QED
      BY <1>1, <1>5, <2>2, <3>1, OtherEntry DEF VerifyWrong
  <2>3. QED
    BY <2>1, <2>2
<1>9. StoreOK'
  <2>1. /\ tried'[k] <= MaxTries /\ \A j \in 1..MaxCodes : j # k => tried'[j] = tried[j]
        /\ UNCHANGED <<bought, issued>>
    BY <1>1, <1>2, <1>3 DEF VerifyWrong
  <2>2. \A j \in 1..MaxCodes : j > issued => j # k
    BY <1>1, OtpAssumption DEF OtpInv, OtpTypeOK
  <2>3. QED
    BY <1>8, <2>1, <2>2 DEF StoreOK, CodeBudget, OtpInv
<1>10. UNCHANGED <<token, filed, issued, mailed, bought>> /\ issued \in Nat
  BY OtpAssumption DEF VerifyWrong, OtpInv, OtpTypeOK
<1>11. QED
  BY <1>4, <1>6, <1>7, <1>9, <1>10, StoreStep

LEMMA VerifyMatchKeeps ==
  ASSUME OtpInv, NEW c \in calls, VerifyMatch(c)
  PROVE  OtpInv'
<1> DEFINE t == c.target
           k == codes[t].code
           d == [c EXCEPT !.answer = "ok"]
<1>1. /\ c \in Call /\ CallOK(c) /\ c.kind = "verify" /\ t \in Targets /\ EntryOK(t)
      /\ k \in 1..issued /\ k \in 1..MaxCodes
      /\ codes[t].attempts \in Nat /\ codes[t].attempts + 1 <= MaxTries
  BY ComparedEntry DEF VerifyMatch
<1>2. c.guess = k /\ UNCHANGED <<token, filed, issued, mailed>>
  BY DEF VerifyMatch
<1>3. tried[k] = codes[t].attempts /\ bought[k] = 0
  BY <1>1 DEF EntryOK
<1>4. /\ tried' = [tried EXCEPT ![k] = tried[k] + 1] /\ tried \in [1..MaxCodes -> Nat]
      /\ bought' = [bought EXCEPT ![k] = bought[k] + 1] /\ bought \in [1..MaxCodes -> Nat]
  BY <1>2 DEF VerifyMatch, Tally, OtpInv, OtpTypeOK
<1>5. bought'[k] = 1 /\ \A j \in 1..MaxCodes : j # k => tried'[j] = tried[j] /\ bought'[j] = bought[j]
  BY <1>1, <1>3, <1>4
<1>6. <<t, k>> \in mailed
  <2>1. k # WrongCode
    BY <1>1
  <2>2. PICK u \in Targets : <<u, k>> \in mailed
    BY <1>1, <1>2, <2>1 DEF CallOK
  <2>3. u = t
    BY <1>1, <2>1, <2>2 DEF EntryOK
  <2>4. QED
    BY <2>2, <2>3
<1>7. Proven(t)'
  BY <1>1, <1>2, <1>5, <1>6 DEF Proven
<1>8. d \in Call /\ CallOK(d)'
  <2>1. d \in Call /\ d.kind = "verify" /\ d.target = t /\ d.guess = k
    BY <1>1, <1>2 DEF Call
  <2>2. QED
    BY <1>1, <1>2, <1>6, <1>7, <2>1 DEF CallOK
<1>9. calls' \subseteq calls \cup {d}
  BY DEF VerifyMatch, Answered
<1>10. /\ codes' \in [Targets -> [code: 0..issued, attempts: 0..MaxTries - 1,
                                  live: BOOLEAN, cooling: BOOLEAN]]
       /\ codes'[t] = NoEntry /\ \A u \in Targets \ {t} : codes'[u] = codes[u]
  <2>1. codes \in [Targets -> [code: 0..issued, attempts: 0..MaxTries - 1,
                              live: BOOLEAN, cooling: BOOLEAN]]
    BY DEF OtpInv, OtpTypeOK
  <2>2. NoEntry \in [code: 0..issued, attempts: 0..MaxTries - 1, live: BOOLEAN, cooling: BOOLEAN]
    BY <1>1, OtpAssumption DEF NoEntry, OtpInv, OtpTypeOK
  <2>3. QED
    BY <1>1, <2>1, <2>2 DEF VerifyMatch, Drop
<1>11. OtpTypeOK'
  <2>1. calls' \subseteq Call
    BY <1>8, <1>9 DEF OtpInv, OtpTypeOK
  <2>2. tried' \in [1..MaxCodes -> Nat] /\ bought' \in [1..MaxCodes -> Nat]
    BY <1>1, <1>3, <1>4
  <2>3. QED
    BY <1>2, <1>10, <2>1, <2>2 DEF OtpInv, OtpTypeOK, VerifyMatch
<1>12. \A u \in Targets : EntryOK(u)'
  <2>1. EntryOK(t)'
    BY <1>10 DEF EntryOK, NoEntry
  <2>2. QED
    BY <1>1, <1>2, <1>5, <1>10, <2>1, OtherEntry
<1>13. StoreOK'
  <2>1. tried'[k] <= MaxTries
    BY <1>1, <1>3, <1>4
  <2>2. \A j \in 1..MaxCodes : j > issued => j # k
    BY <1>1, OtpAssumption DEF OtpInv, OtpTypeOK
  <2>3. QED
    BY <1>2, <1>5, <1>12, <2>1, <2>2 DEF StoreOK, CodeBudget, OtpInv
<1>14. /\ issued \in Nat /\ issued <= issued' /\ mailed \subseteq mailed'
       /\ \A j \in 1..issued : bought'[j] > 0 \/ ~ bought[j] > 0
  BY <1>2, <1>5, OtpAssumption DEF OtpInv, OtpTypeOK
<1>15. QED
  BY <1>2, <1>8, <1>9, <1>11, <1>13, <1>14, StoreStep

-----------------------------------------------------------------------------
(* Entries that age or go: nothing of the store grows.                     *)

LEMMA AgeKeeps ==
  ASSUME OtpInv, NEW t \in Targets, NEW e \in Entry,
         e = NoEntry \/ (e.code = codes[t].code /\ e.attempts = codes[t].attempts
                         /\ codes[t].code # 0),
         codes' = [codes EXCEPT ![t] = e],
         UNCHANGED <<issued, mailed, tried, bought>>
  PROVE  /\ StoreOK'
         /\ codes' \in [Targets -> [code: 0..issued, attempts: 0..MaxTries - 1,
                                    live: BOOLEAN, cooling: BOOLEAN]]
<1> USE DEF OtpInv, OtpTypeOK, Entry
<1>1. e \in [code: 0..issued, attempts: 0..MaxTries - 1, live: BOOLEAN, cooling: BOOLEAN]
  BY OtpAssumption DEF NoEntry
<1>2. codes'[t] = e /\ \A u \in Targets \ {t} : codes'[u] = codes[u]
  OBVIOUS
<1>3. \A u \in Targets : EntryOK(u)'
  <2>1. \A u \in Targets : codes'[u].code # 0 =>
          codes'[u].code = codes[u].code /\ codes'[u].attempts = codes[u].attempts
    BY <1>2 DEF NoEntry
  <2>2. \A u \in Targets : codes'[u].code = 0 => codes'[u] = NoEntry
    BY <1>2 DEF StoreOK, EntryOK
  <2>3. QED
    BY <2>1, <2>2 DEF StoreOK, EntryOK
<1>4. QED
  BY <1>1, <1>2, <1>3 DEF StoreOK, CodeBudget

(* A step that lets an entry age or go and leaves everything else alone.   *)
LEMMA AgedStep ==
  ASSUME OtpInv, StoreOK',
         codes' \in [Targets -> [code: 0..issued, attempts: 0..MaxTries - 1,
                                live: BOOLEAN, cooling: BOOLEAN]],
         UNCHANGED <<issued, mailed, tried, bought, pageVars, calls, filed>>,
         faults' \in 0..MaxFaults
  PROVE  OtpInv'
<1>1. OtpTypeOK'
  BY DEF OtpInv, OtpTypeOK
<1>2. ProofOK'
  BY DEF OtpInv, ProofOK, CallOK, AcceptedTargetProven, Proven
<1>3. QED
  BY <1>1, <1>2 DEF OtpInv

LEMMA TimeKeeps ==
  ASSUME OtpInv,
         \/ \E t \in Targets : CoolDown(t) \/ CodeExpires(t) \/ CleanUp(t)
         \/ Restart
  PROVE  OtpInv'
<1>1. /\ codes \in [Targets -> [code: 0..issued, attempts: 0..MaxTries - 1,
                                live: BOOLEAN, cooling: BOOLEAN]]
      /\ NoEntry \in Entry /\ NoEntry.live = FALSE /\ NoEntry.cooling = FALSE
      /\ \A t \in Targets : codes[t] \in Entry
      /\ faults \in 0..MaxFaults /\ issued \in Nat
  BY OtpAssumption DEF OtpInv, OtpTypeOK, NoEntry, Entry
<1>2. \A t \in Targets : codes[t].code = 0 => codes[t] = NoEntry
  BY DEF OtpInv, StoreOK, EntryOK
<1>3. ASSUME NEW t \in Targets, CoolDown(t) PROVE OtpInv'
  <2> DEFINE e == [codes[t] EXCEPT !.cooling = FALSE]
  <2>1. codes' = [codes EXCEPT ![t] = e]
    BY <1>1, <1>3 DEF CoolDown
  <2>2. /\ e \in Entry /\ e.code = codes[t].code /\ e.attempts = codes[t].attempts
        /\ codes[t].code # 0
    BY <1>1, <1>2, <1>3 DEF CoolDown, Entry
  <2> HIDE DEF e
  <2>3. QED
    BY <1>1, <1>3, <2>1, <2>2, AgeKeeps, AgedStep DEF CoolDown
<1>4. ASSUME NEW t \in Targets, CodeExpires(t) PROVE OtpInv'
  <2> DEFINE e == [codes[t] EXCEPT !.live = FALSE]
  <2>1. codes' = [codes EXCEPT ![t] = e]
    BY <1>1, <1>4 DEF CodeExpires
  <2>2. /\ e \in Entry /\ e.code = codes[t].code /\ e.attempts = codes[t].attempts
        /\ codes[t].code # 0
    BY <1>1, <1>2, <1>4 DEF CodeExpires, Entry
  <2>3. faults' \in 0..MaxFaults
    BY <1>1, <1>4, OtpAssumption DEF CodeExpires, Fault
  <2> HIDE DEF e
  <2>4. QED
    BY <1>1, <1>4, <2>1, <2>2, <2>3, AgeKeeps, AgedStep DEF CodeExpires
<1>5. ASSUME NEW t \in Targets, CleanUp(t) PROVE OtpInv'
  BY <1>1, <1>5, AgeKeeps, AgedStep DEF CleanUp
<1>6. CASE Restart
  <2>1. /\ codes' = [t \in Targets |-> NoEntry] /\ faults' \in 0..MaxFaults
        /\ UNCHANGED <<issued, mailed, tried, bought, pageVars, calls, filed>>
    BY <1>1, <1>6, OtpAssumption DEF Restart, Fault
  <2>2. StoreOK'
    BY <2>1 DEF OtpInv, StoreOK, EntryOK, CodeBudget, NoEntry
  <2>3. codes' \in [Targets -> [code: 0..issued, attempts: 0..MaxTries - 1,
                               live: BOOLEAN, cooling: BOOLEAN]]
    BY <1>1, <2>1, OtpAssumption DEF NoEntry
  <2>4. QED
    BY <2>1, <2>2, <2>3, AgedStep
<1>7. QED
  BY <1>3, <1>4, <1>5, <1>6

-----------------------------------------------------------------------------
(* Answers, and the theorems.                                              *)

LEMMA ServeKeeps ==
  ASSUME OtpInv, NEW c \in calls, Serve(c)
  PROVE  OtpInv'
<1>1. CASE GenerateCooling(c)
  <2>1. [c EXCEPT !.answer = "error"] \in Call /\ CallOK([c EXCEPT !.answer = "error"])
    BY AnswerOK, <1>1 DEF GenerateCooling, CallOK, Proven
  <2>2. OtpTypeOK'
    BY <1>1, <2>1 DEF GenerateCooling, Answered, OtpInv, OtpTypeOK
  <2>3. QED
    BY <1>1, <2>1, <2>2, WizardKeeps
       DEF GenerateCooling, Answered, OtpInv, ProofOK, AcceptedTargetProven
<1>2. CASE VerifyNothing(c)
  <2>1. [c EXCEPT !.answer = "error"] \in Call /\ CallOK([c EXCEPT !.answer = "error"])'
    BY AnswerOK, <1>2 DEF VerifyNothing
  <2>2. /\ codes' \in [Targets -> [code: 0..issued, attempts: 0..MaxTries - 1,
                                   live: BOOLEAN, cooling: BOOLEAN]]
        /\ StoreOK'
    <3>1. CASE Pending(c)
      <4>1. NoEntry \in Entry
        BY DEF NoEntry, Entry
      <4>2. QED
        BY <1>2, <3>1, <4>1, AgeKeeps DEF VerifyNothing, Drop, Pending
    <3>2. CASE ~ Pending(c)
      BY <1>2, <3>2, StoreKept DEF VerifyNothing, OtpInv, OtpTypeOK
    <3>3. QED
      BY <3>1, <3>2
  <2>3. calls' \subseteq calls \cup {[c EXCEPT !.answer = "error"]}
    BY <1>2 DEF VerifyNothing, Answered
  <2>4. OtpTypeOK'
    BY <1>2, <2>1, <2>2, <2>3 DEF VerifyNothing, OtpInv, OtpTypeOK
  <2>5. UNCHANGED <<token, filed, issued, mailed, bought>> /\ issued \in Nat
    BY <1>2, OtpAssumption DEF VerifyNothing, OtpInv, OtpTypeOK
  <2>6. QED
    BY <2>1, <2>2, <2>3, <2>4, <2>5, StoreStep
<1>3. CASE SendAnswered(c)
  BY <1>3, WizardKeeps DEF SendAnswered, OtpInv, OtpTypeOK, ProofOK, AcceptedTargetProven
<1>4. CASE VerifyAnswered(c)
  <2>1. c \in Call /\ CallOK(c)
    BY DEF OtpInv, OtpTypeOK, ProofOK
  <2>2. OtpTypeOK'
    <3>1. token' \in [Pages -> [target: Addresses, live: BOOLEAN]] /\ calls' \subseteq Call
      BY <1>4, <2>1 DEF VerifyAnswered, OtpInv, OtpTypeOK, Call
    <3>2. field' \in [Pages -> [sent: BOOLEAN, sending: BOOLEAN,
                               verifying: BOOLEAN, editing: BOOLEAN]]
      <4>1. \A p \in Pages : field[p] \in [sent: BOOLEAN, sending: BOOLEAN,
                                           verifying: BOOLEAN, editing: BOOLEAN]
        BY DEF OtpInv, OtpTypeOK
      <4>2. c.page \in Pages
        BY <2>1 DEF Call
      <4> DEFINE one == [field[c.page] EXCEPT !.verifying = FALSE]
                 all == [one EXCEPT !.sent = FALSE, !.editing = FALSE]
      <4>3. \E f \in {field[c.page], one, all} : field' = [field EXCEPT ![c.page] = f]
        BY <1>4, <4>2 DEF VerifyAnswered, OtpInv, OtpTypeOK
      <4>4. {field[c.page], one, all} \subseteq [sent: BOOLEAN, sending: BOOLEAN,
                                                verifying: BOOLEAN, editing: BOOLEAN]
        BY <4>1, <4>2
      <4> HIDE DEF one, all
      <4>5. PICK f \in [sent: BOOLEAN, sending: BOOLEAN, verifying: BOOLEAN, editing: BOOLEAN] :
              field' = [field EXCEPT ![c.page] = f]
        BY <4>3, <4>4
      <4>6. field \in [Pages -> [sent: BOOLEAN, sending: BOOLEAN,
                                verifying: BOOLEAN, editing: BOOLEAN]]
        BY DEF OtpInv, OtpTypeOK
      <4>7. QED
        BY <4>5, <4>6
    <3>3. QED
      BY <1>4, <3>1, <3>2 DEF VerifyAnswered, OtpInv, OtpTypeOK
  <2>3. \A p \in Pages : token'[p].live => Proven(token'[p].target)
    BY <1>4, <2>1 DEF VerifyAnswered, OtpInv, OtpTypeOK, ProofOK, CallOK, Call
  <2>4. QED
    BY <1>4, <2>2, <2>3, WizardKeeps DEF VerifyAnswered, OtpInv, ProofOK, AcceptedTargetProven
<1>5. QED
  BY <1>1, <1>2, <1>3, <1>4, GenerateKeeps, VerifyWrongKeeps, VerifyMatchKeeps DEF Serve

LEMMA NextOtp == OtpInv /\ [Next]_vars => OtpInv'
<1> SUFFICES ASSUME OtpInv, [Next]_vars PROVE OtpInv'
  OBVIOUS
<1>1. ASSUME NEW p \in Pages, TokenExpires(p) PROVE OtpInv'
  <2>1. faults' \in 0..MaxFaults
    BY <1>1, OtpAssumption DEF TokenExpires, Fault, OtpInv, OtpTypeOK
  <2>2. /\ token' \in [Pages -> [target: Addresses, live: BOOLEAN]]
        /\ \A q \in Pages : token'[q].live => token'[q] = token[q]
    BY <1>1 DEF TokenExpires, OtpInv, OtpTypeOK
  <2>3. OtpTypeOK'
    BY <1>1, <2>1, <2>2 DEF TokenExpires, OtpInv, OtpTypeOK
  <2>4. \A q \in Pages : token'[q].live => Proven(token'[q].target)
    BY <2>2 DEF OtpInv, ProofOK
  <2>5. QED
    BY <1>1, <2>3, <2>4, WizardKeeps
       DEF TokenExpires, OtpInv, ProofOK, AcceptedTargetProven
<1>2. ASSUME NEW c \in calls, Lose(c) PROVE OtpInv'
  <2>1. [c EXCEPT !.answer = "error"] \in Call /\ CallOK([c EXCEPT !.answer = "error"])
    BY AnswerOK, <1>2 DEF Lose, CallOK, Proven
  <2>2. OtpTypeOK'
    <3>1. faults' \in 0..MaxFaults
      BY <1>2, OtpAssumption DEF Lose, Fault, OtpInv, OtpTypeOK
    <3>2. calls' \subseteq Call
      BY <1>2, <2>1 DEF Lose, Answered, OtpInv, OtpTypeOK
    <3>3. QED
      BY <1>2, <3>1, <3>2 DEF Lose, OtpInv, OtpTypeOK
  <2>3. QED
    BY <1>2, <2>1, <2>2, WizardKeeps
       DEF Lose, Answered, OtpInv, ProofOK, AcceptedTargetProven
<1>3. CASE UNCHANGED vars
  BY <1>3, WizardKeeps DEF OtpInv, OtpTypeOK, ProofOK, AcceptedTargetProven
<1>4. QED
  BY <1>1, <1>2, <1>3, ApplicantKeeps, ServeKeeps, TimeKeeps DEF Next

(* The invariant holds throughout.                                         *)
LEMMA OtpInvHolds == Spec => []OtpInv
  BY InitOtp, NextOtp, PTL DEF Spec

(* The variables keep their types: the attempts of a kept entry stay below *)
(* maxTries, and no code beyond those issued is stored or mailed.          *)
THEOREM OtpTypes == Spec => []OtpTypeOK
<1>1. OtpInv => OtpTypeOK
  BY DEF OtpInv
<1>2. QED
  BY <1>1, OtpInvHolds, PTL

(* A code is compared with at most maxTries guesses and buys at most one   *)
(* token, for any number of tabs, requests, resends and restarts.          *)
THEOREM OtpBudget == Spec => []CodeBudget
<1>1. OtpInv => CodeBudget
  BY DEF OtpInv, StoreOK
<1>2. QED
  BY <1>1, OtpInvHolds, PTL

(* registerInit accepts an address only if a code mailed to that address   *)
(* bought a token.                                                         *)
THEOREM OtpAccepted == Spec => []AcceptedTargetProven
<1>1. OtpInv => AcceptedTargetProven
  BY DEF OtpInv, ProofOK
<1>2. QED
  BY <1>1, OtpInvHolds, PTL
=============================================================================
