-------------------------- MODULE VerificationDesk --------------------------
(***************************************************************************)
(* The operator's desk (frontend, pages/client/Dashboard.jsx with the      *)
(* full-screen overlays it opens) against the portal's verification rows.  *)
(*                                                                         *)
(* One browser tab.  Every click runs to its first await and leaves a call *)
(* in `calls`; the answer is applied to whatever the desk shows by then,   *)
(* which may be another candidate.  The overlays cover the page: a control *)
(* is an action only where the page lets the pointer reach it.             *)
(***************************************************************************)
EXTENDS Naturals, FiniteSets

CONSTANTS
  Candidates,    \* the roll numbers the operator may look up
  NoCandidate,   \* an empty desk
  Enrolled,      \* [Candidates -> SUBSET Modalities]: what is on file
  MaxSessions    \* bound: lookups that find a candidate

Modalities == {"face", "fp", "iris"}

ASSUME DeskAssumption ==
  /\ NoCandidate \notin Candidates
  /\ Enrolled \in [Candidates -> SUBSET Modalities]
  /\ MaxSessions \in Nat

VARIABLES
  desk,       \* the state resetDesk clears
  screen,     \* the state resetDesk leaves alone
  calls,      \* requests whose answer has not been applied
  rows,       \* server: the verification row saved under each session's key
  earned,     \* history: the modalities that matched in each session
  sessions,   \* idempotency keys handed out
  guide,      \* the browser could load the blink detector
  orphaned    \* history: the desk was cleared with a call still in flight

vars == <<desk, screen, calls, rows, earned, sessions, guide, orphaned>>

Keys == 1..MaxSessions
NoRow == [cand |-> NoCandidate, status |-> "none"]

EmptyDesk ==
  [stage |-> 0, cand |-> NoCandidate, key |-> 0,
   face |-> "none", liveOK |-> FALSE, passing |-> FALSE, passed |-> FALSE,
   detector |-> "off", fp |-> "idle", iris |-> "idle", vid |-> 0, result |-> "none"]

FirstScreen ==
  [searching |-> FALSE, submitting |-> FALSE, step |-> "fp", open |-> FALSE,
   lids |-> "open"]

Scans == {"idle", "scanning", "pass", "fail"}
Desks ==
  [stage: 0..4, cand: Candidates \cup {NoCandidate}, key: 0..MaxSessions,
   face: {"none", "ok", "miss", "error"}, liveOK: BOOLEAN, passing: BOOLEAN,
   passed: BOOLEAN, detector: {"off", "armed", "blinked", "failed"}, fp: Scans, iris: Scans,
   vid: 0..MaxSessions, result: {"none", "verified", "denied"}]
Screens ==
  [searching: BOOLEAN, submitting: BOOLEAN, step: {"fp", "iris"},
   open: BOOLEAN, lids: {"open", "closing", "shut"}]

Init ==
  /\ desk = EmptyDesk
  /\ screen = FirstScreen
  /\ calls = {}
  /\ rows = [k \in Keys |-> NoRow]
  /\ earned = [k \in Keys |-> {}]
  /\ sessions = 0
  /\ guide \in BOOLEAN
  /\ orphaned = FALSE

---------------------------------------------------------------------------
(* What a render leads to                                                  *)

OnFile(c) == IF c = NoCandidate THEN {} ELSE Enrolled[c]
NeedsBiometric(c) == OnFile(c) \cap {"fp", "iris"} # {}

(* The effects that keep the biometric step in line with the record.  The *)
(* eye never skips the finger, and every step starts on its prep card.     *)
BioStepOf(d, s) ==
  IF d.stage # 3 THEN s.step
  ELSE IF "fp" \notin OnFile(d.cand) THEN "iris"
  ELSE IF d.fp # "pass" THEN "fp" ELSE s.step

Show(d, s) ==
  /\ desk' = d
  /\ screen' = [s EXCEPT !.step = BioStepOf(d, s),
                         !.open = @ /\ d.stage = 3 /\ BioStepOf(d, s) = screen.step]

ShowDesk(d) == Show(d, screen)
ShowScreen(s) == Show(desk, s)

serverVars == <<rows, earned, sessions, guide>>
Ask(call) == calls' = calls \cup {call}
Quiet == UNCHANGED <<calls, serverVars, orphaned>>

Clickable == screen.lids = "open"
Bio == IF screen.step = "fp" THEN desk.fp ELSE desk.iris
SetBio(m, result) ==
  IF m = "fp" THEN [desk EXCEPT !.fp = result] ELSE [desk EXCEPT !.iris = result]

---------------------------------------------------------------------------
(* Lookup                                                                  *)

(* The search form is there only while no candidate is.                    *)
MayLookUp ==
  Clickable /\ desk.stage = 0 /\ desk.cand = NoCandidate /\ ~screen.searching

LookUp(c) ==
  /\ MayLookUp
  /\ ShowScreen([screen EXCEPT !.searching = TRUE])
  /\ Ask([kind |-> "lookup", cand |-> c])
  /\ UNCHANGED <<serverVars, orphaned>>

(* Mutant: two candidates in a row get the same key. *)
LookupFoundMutant(call) ==
  /\ call.kind = "lookup" /\ sessions < MaxSessions
  /\ ShowDesk([desk EXCEPT !.cand = call.cand, !.key = sessions + 1])
  /\ calls' = (calls \ {call}) \cup {[kind |-> "record", cand |-> call.cand]}
  /\ UNCHANGED <<sessions, rows, earned, guide, orphaned>>

LookupFound(call) ==
  /\ call.kind = "lookup" /\ sessions < MaxSessions
  /\ sessions' = sessions + 1
  /\ ShowDesk([desk EXCEPT !.cand = call.cand, !.key = sessions + 1])
  /\ calls' = (calls \ {call}) \cup {[kind |-> "record", cand |-> call.cand]}
  /\ UNCHANGED <<rows, earned, guide, orphaned>>

(* Not found, no purse, wallet empty, or no answer.                        *)
LookupRefused(call) ==
  /\ call.kind = "lookup"
  /\ Show([desk EXCEPT !.cand = NoCandidate], [screen EXCEPT !.searching = FALSE])
  /\ calls' = calls \ {call}
  /\ UNCHANGED <<serverVars, orphaned>>

(* Photo, template and attempts have come, or failed: neither matters.     *)
RecordShown(call) ==
  /\ call.kind = "record"
  /\ Show([desk EXCEPT !.stage = 1], [screen EXCEPT !.searching = FALSE])
  /\ calls' = calls \ {call}
  /\ UNCHANGED <<serverVars, orphaned>>

TakePhoto ==
  /\ Clickable /\ desk.stage = 1 /\ desk.cand # NoCandidate
  /\ ShowDesk([desk EXCEPT !.stage = 2])
  /\ Quiet

---------------------------------------------------------------------------
(* Liveness and face                                                       *)

ShowRetake == ~desk.passed /\ desk.face = "miss"

(* The detector runs from the click that arms it until the first blink, or*)
(* until it reports __error__: models that do not load, no usable video.   *)
Watching ==
  guide /\ desk.stage = 2 /\ desk.detector = "armed" /\ ~desk.liveOK

CompleteLivenessPass(d) ==
  /\ ShowDesk([d EXCEPT !.passing = TRUE, !.face = "none"])
  /\ Ask([kind |-> "liveness", cand |-> desk.cand, key |-> desk.key])
  /\ UNCHANGED <<serverVars, orphaned>>

(* "Take the photo": arms the detector, or without one goes straight on.   *)
MayCapture ==
  Clickable /\ desk.stage = 2 /\ ~ShowRetake /\ ~desk.passed /\ ~desk.passing

CaptureLiveness ==
  /\ MayCapture
  /\ IF guide
     THEN ShowDesk([desk EXCEPT !.detector = IF @ = "off" THEN "armed" ELSE @]) /\ Quiet
     ELSE CompleteLivenessPass(desk)

(* The detector's callback sees livenessPassed as it was at the click.     *)
MayBlink == Watching

Blink == MayBlink /\ CompleteLivenessPass([desk EXCEPT !.detector = "blinked"])

(* The head-up display reads on as before; nothing is disarmed.            *)
DetectorFails ==
  /\ Watching
  /\ ShowDesk([desk EXCEPT !.detector = "failed"])
  /\ Quiet

(* Mutant: a failed check or a retake leaves the detector armed. *)
NotLiveMutant(d) ==
  [d EXCEPT !.passing = FALSE, !.passed = FALSE]

NotLive(d) ==
  [d EXCEPT !.passing = FALSE, !.passed = FALSE, !.liveOK = FALSE,
            !.detector = "off"]

LivenessFailed(call) ==
  /\ call.kind = "liveness"
  /\ ShowDesk(NotLive(desk))
  /\ calls' = calls \ {call}
  /\ UNCHANGED <<serverVars, orphaned>>

(* The gate row is written; the still photo goes to the face match unless  *)
(* no photo is enrolled, or no still could be taken.                       *)
LivenessPassed(call, snapped) ==
  /\ call.kind = "liveness"
  /\ LET faceOnFile == "face" \in OnFile(call.cand)
     IN \/ /\ faceOnFile /\ snapped
           /\ ShowDesk([desk EXCEPT !.liveOK = TRUE])
           /\ calls' = (calls \ {call}) \cup
                       {[kind |-> "face", cand |-> call.cand, key |-> call.key]}
        \/ /\ faceOnFile /\ ~snapped
           /\ ShowDesk([desk EXCEPT !.liveOK = TRUE, !.passing = FALSE, !.passed = FALSE])
           /\ calls' = calls \ {call}
        \/ /\ ~faceOnFile
           /\ ShowDesk([desk EXCEPT !.liveOK = TRUE, !.face = "ok",
                                    !.passing = FALSE, !.passed = TRUE])
           /\ calls' = calls \ {call}
  /\ UNCHANGED <<serverVars, orphaned>>

Earn(call, m, verdict) ==
  earned' = IF verdict THEN [earned EXCEPT ![call.key] = @ \cup {m}] ELSE earned

FaceAnswered(call, outcome) ==
  /\ call.kind = "face"
  /\ Earn(call, "face", outcome = "ok")
  /\ ShowDesk([desk EXCEPT !.face = outcome, !.passing = FALSE,
                           !.passed = outcome = "ok"])
  /\ calls' = calls \ {call}
  /\ UNCHANGED <<rows, sessions, guide, orphaned>>

RetakePhoto ==
  /\ Clickable /\ desk.stage = 2 /\ ShowRetake /\ ~desk.passing
  /\ ShowDesk([NotLive(desk) EXCEPT !.face = "none"])
  /\ Quiet

MayCarryOn == Clickable /\ desk.stage = 2 /\ ShowRetake

CarryOn ==
  /\ MayCarryOn
  /\ ShowDesk([desk EXCEPT !.passing = FALSE, !.passed = TRUE])
  /\ Quiet

(* "Next", which reads "Finish the check" when nothing else is enrolled.   *)
MayMoveOn == Clickable /\ desk.stage = 2 /\ ~ShowRetake /\ desk.passed

NextStage ==
  /\ MayMoveOn
  /\ ShowDesk([desk EXCEPT !.stage = IF NeedsBiometric(desk.cand) THEN 3 ELSE 4])
  /\ Quiet

---------------------------------------------------------------------------
(* Fingerprint and iris                                                    *)

OpenBio ==
  /\ Clickable /\ desk.stage = 3 /\ ~screen.open
  /\ ShowScreen([screen EXCEPT !.open = TRUE])
  /\ Quiet

(* Escape and the close chip are dead while a scan is in flight.           *)
CloseBio ==
  /\ Clickable /\ screen.open /\ Bio # "scanning"
  /\ ShowScreen([screen EXCEPT !.open = FALSE])
  /\ Quiet

(* Back is not.                                                            *)
BackToFinger ==
  /\ Clickable /\ screen.open /\ screen.step = "iris" /\ "fp" \in OnFile(desk.cand)
  /\ ShowScreen([screen EXCEPT !.step = "fp"])
  /\ Quiet

MayScan == Clickable /\ screen.open /\ Bio \notin {"pass", "scanning"}

Scan ==
  /\ MayScan
  /\ ShowDesk(SetBio(screen.step, "scanning"))
  /\ Ask([kind |-> screen.step, cand |-> desk.cand, key |-> desk.key])
  /\ UNCHANGED <<serverVars, orphaned>>

(* "idle" is a device or daemon that is not there.                         *)
ScanAnswered(call, outcome) ==
  /\ call.kind \in {"fp", "iris"}
  /\ Earn(call, call.kind, outcome = "pass")
  /\ ShowDesk(SetBio(call.kind, outcome))
  /\ calls' = calls \ {call}
  /\ UNCHANGED <<rows, sessions, guide, orphaned>>

MayMovePast == Clickable /\ screen.open /\ Bio = "pass"

BioNext ==
  /\ MayMovePast
  /\ IF screen.step = "fp" /\ "iris" \in OnFile(desk.cand) /\ desk.iris # "pass"
     THEN ShowScreen([screen EXCEPT !.step = "iris"])
     ELSE ShowScreen([screen EXCEPT !.lids = "closing"])
  /\ Quiet

---------------------------------------------------------------------------
(* Saving the verdict                                                      *)

Flags ==
  {m \in Modalities : \/ m = "face" /\ desk.face = "ok"
                      \/ m = "fp" /\ desk.fp = "pass"
                      \/ m = "iris" /\ desk.iris = "pass"}

(* Mutant: one modality that matched is taken for all of them. *)
VerdictMutant(c, flags) ==
  IF OnFile(c) \cap flags # {} THEN "verified" ELSE "denied"

(* Strict AND over what is enrolled; nothing enrolled is a denial.         *)
Verdict(c, flags) ==
  IF OnFile(c) # {} /\ OnFile(c) \subseteq flags THEN "verified" ELSE "denied"

Submission ==
  [kind |-> "save", cand |-> desk.cand, key |-> desk.key, row |-> desk.vid,
   flags |-> Flags, status |-> Verdict(desk.cand, Flags)]

(* The desk saves while the lids are down, unless a save is under way.     *)
LidsShut ==
  /\ screen.lids = "closing"
  /\ IF desk.stage # 4 /\ ~screen.submitting
     THEN /\ Show([desk EXCEPT !.result = "none"],
                  [screen EXCEPT !.lids = "shut", !.submitting = TRUE])
          /\ Ask(Submission)
     ELSE /\ ShowScreen([screen EXCEPT !.lids = "shut"])
          /\ UNCHANGED calls
  /\ UNCHANGED <<serverVars, orphaned>>

(* They open on the certificate, or by themselves after MAX_HOLD.          *)
LidsOpen ==
  /\ screen.lids = "shut"
  /\ ShowScreen([screen EXCEPT !.lids = "open"])
  /\ Quiet

(* POST saves a row once per key and answers a repeat with the row there;  *)
(* PATCH decides again, on the record of the row's own roll number.        *)
SavedRow(call) ==
  IF call.row # 0
    THEN [rows[call.row] EXCEPT !.status = Verdict(rows[call.row].cand, call.flags)]
  ELSE IF rows[call.key] # NoRow THEN rows[call.key]
  ELSE [cand |-> call.cand, status |-> call.status]

RowId(call) == IF call.row # 0 THEN call.row ELSE call.key

SaveVerification(call) ==
  /\ call.kind = "save"
  /\ rows' = [rows EXCEPT ![RowId(call)] = SavedRow(call)]
  /\ calls' = (calls \ {call}) \cup
              {[kind |-> "saved", row |-> RowId(call), status |-> SavedRow(call).status]}
  /\ UNCHANGED <<desk, screen, earned, sessions, guide, orphaned>>

(* Mutant: the answer's status is ignored and the desk assumes a pass. *)
SaveAnsweredMutant(call) ==
  /\ call.kind = "saved"
  /\ Show([desk EXCEPT !.vid = call.row, !.result = "verified", !.stage = 4],
          [screen EXCEPT !.submitting = FALSE])
  /\ calls' = calls \ {call}
  /\ UNCHANGED <<serverVars, orphaned>>

SaveAnswered(call) ==
  /\ call.kind = "saved"
  /\ Show([desk EXCEPT !.vid = call.row, !.result = call.status, !.stage = 4],
          [screen EXCEPT !.submitting = FALSE])
  /\ calls' = calls \ {call}
  /\ UNCHANGED <<serverVars, orphaned>>

(* The request or its answer is lost: the desk may ask again.              *)
SaveFailed(call) ==
  /\ call.kind \in {"save", "saved"}
  /\ ShowScreen([screen EXCEPT !.submitting = FALSE])
  /\ calls' = calls \ {call}
  /\ UNCHANGED <<serverVars, orphaned>>

---------------------------------------------------------------------------
(* Leaving the candidate                                                   *)

(* "Start over" in the header and "Next candidate" on the certificate: the *)
(* header is under the capture and biometric overlays while they are up.   *)
MayReset == Clickable /\ desk.stage # 0 /\ desk.stage # 2 /\ ~screen.open

ResetDesk ==
  /\ MayReset
  /\ ShowDesk(EmptyDesk)
  /\ orphaned' = (orphaned \/ calls # {})
  /\ UNCHANGED <<calls, serverVars>>

(* A reload, or leaving the page, forgets everything; a session is never   *)
(* resumed half-way.                                                       *)
Reload ==
  /\ desk' = EmptyDesk /\ screen' = FirstScreen
  /\ calls' = {}
  /\ UNCHANGED <<serverVars, orphaned>>

---------------------------------------------------------------------------

Operator ==
  \/ \E c \in Candidates : LookUp(c)
  \/ TakePhoto \/ CaptureLiveness \/ RetakePhoto \/ CarryOn \/ NextStage
  \/ OpenBio \/ CloseBio \/ BackToFinger \/ Scan \/ BioNext
  \/ ResetDesk

Answer ==
  \E call \in calls :
    \/ LookupFound(call) \/ LookupRefused(call) \/ RecordShown(call)
    \/ LivenessFailed(call) \/ \E snapped \in BOOLEAN : LivenessPassed(call, snapped)
    \/ \E outcome \in {"ok", "miss", "error"} : FaceAnswered(call, outcome)
    \/ \E outcome \in {"pass", "fail", "idle"} : ScanAnswered(call, outcome)
    \/ SaveVerification(call) \/ SaveAnswered(call) \/ SaveFailed(call)

Next == Operator \/ Blink \/ DetectorFails \/ Answer \/ LidsShut \/ LidsOpen \/ Reload

Spec == Init /\ [][Next]_vars

---------------------------------------------------------------------------
(* Properties                                                              *)

(* The desk, the screen, the rows and the history keep their types, and a  *)
(* key beyond the ones handed out has neither a row nor a match.           *)
DeskTypeOK ==
  /\ desk \in Desks
  /\ screen \in Screens
  /\ rows \in [Keys -> [cand: Candidates \cup {NoCandidate},
                        status: {"none", "verified", "denied"}]]
  /\ earned \in [Keys -> SUBSET Modalities]
  /\ sessions \in 0..MaxSessions
  /\ guide \in BOOLEAN /\ orphaned \in BOOLEAN
  /\ \A k \in Keys : k > sessions => rows[k] = NoRow /\ earned[k] = {}

Verified(k) == rows[k].status = "verified"
Earned(k) == rows[k].cand \in Candidates /\ Enrolled[rows[k].cand] \subseteq earned[k]

(* submitFinalVerification says a candidate enrolled with face, finger and *)
(* iris needs all three, "so a partial match can never be spoofed into a   *)
(* pass": whatever was retaken, carried on, lost and sent again, a row     *)
(* says verified only if every enrolled modality matched in the row's own  *)
(* session -- as long as no call outlived its candidate on the desk.       *)
VerdictEarned == ~orphaned => \A k \in Keys : Verified(k) => Earned(k)

(* The same with no condition, as the comment states it.                   *)
VerdictAlwaysEarned == \A k \in Keys : Verified(k) => Earned(k)

SavedForDesk ==
  /\ desk.key # 0 /\ desk.vid = desk.key
  /\ rows[desk.vid] = [cand |-> desk.cand, status |-> desk.result]

(* The certificate shows the row the portal holds for the candidate it     *)
(* names, with the portal's verdict -- unless a call outlived its          *)
(* candidate, or nothing but the face (or nothing at all) is enrolled, in  *)
(* which case the desk goes to the certificate without a save.             *)
CertificateTruthful ==
  ~orphaned /\ desk.stage = 4 /\ NeedsBiometric(desk.cand) => SavedForDesk

(* A fail "must NEVER be a dead end that traps them" (anyEnrolledFailed),  *)
(* and without the detector the capture is to "still work"                 *)
(* (handleCaptureLiveness).  With no answer pending the operator, or the   *)
(* candidate's blink, can always change something, whatever was missed,    *)
(* refused, repeated or lost -- but for two states of the full-screen      *)
(* capture, where the only button arms a detector that is armed already:   *)
(* the detector has reported an error, or the gate has passed and the face *)
(* match came to no decision (an error, or no still photo was taken).      *)
DetectorLost == desk.detector = "failed" /\ ~desk.liveOK

NoDecision == desk.liveOK /\ ~desk.passed /\ desk.face # "miss"

StuckInCapture == guide /\ desk.stage = 2 /\ (DetectorLost \/ NoDecision)

NeverTrapped ==
  calls = {} /\ screen.lids = "open" /\ ~StuckInCapture
    => ENABLED <<Operator \/ Blink>>_vars
=============================================================================
