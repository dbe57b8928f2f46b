----------------------- MODULE VerificationDesk_proofs -----------------------
(***************************************************************************)
(* Proofs about VerificationDesk, for any candidates and enrolments and    *)
(* any number of sessions: a row says verified only if all that is         *)
(* enrolled matched in its own session, the certificate shows the row, and *)
(* the desk never waits for an answer that cannot come.                    *)
(***************************************************************************)
EXTENDS VerificationDesk, TLAPS

USE DEF serverVars, Keys
USE DEF MayLookUp, MayCapture, MayBlink, MayCarryOn, MayMoveOn, MayScan, MayMovePast, MayReset

-----------------------------------------------------------------------------
(* The inductive invariant.                                                *)

Verdicts == {"verified", "denied"}
Entry == {"lookup", "record"}
Keyed == {"liveness", "face", "fp", "iris", "save"}
Saving == {"save", "saved"}
Saved(k) == rows[k] # NoRow

RowsOK ==
  \A k \in Keys : Saved(k) => rows[k].cand \in Candidates /\ rows[k].status \in Verdicts

(* The desk and the screen, whatever calls have been left behind.          *)
DeskOK ==
  /\ desk.cand = NoCandidate <=> desk.key = 0
  /\ desk.key <= sessions
  /\ desk.stage \in {2, 3} => desk.cand # NoCandidate
  /\ desk.vid # 0 => Saved(desk.vid)
  /\ screen.open => desk.stage = 3
  /\ screen.lids = "closing" => desk.stage \in {3, 4}

(* A call names what it is about.  The page has one lookup and one save in *)
(* flight at most, and knows of both, even when it has left the candidate. *)
CallOK(c) ==
  /\ c.kind \in Entry \cup Keyed \cup {"saved"}
  /\ c.kind \in Entry => /\ c.cand \in Candidates
                         /\ screen.searching /\ screen.lids # "closing"
                         /\ desk.stage \in {0, 4}
  /\ c.kind = "lookup" => desk.cand = NoCandidate
  /\ c.kind \in Keyed => c.cand \in Candidates /\ c.key \in 1..sessions
  /\ c.kind \in Saving => screen.submitting /\ c.status \in Verdicts
  /\ c.kind = "save" => /\ c.row = 0 \/ (c.row \in Keys /\ Saved(c.row))
                        /\ c.flags \subseteq Modalities
  /\ c.kind = "saved" => c.row \in Keys /\ Saved(c.row)

CallsOK == \A c \in calls : CallOK(c)

Single ==
  \A c, d \in calls :
    \/ c.kind \in Entry /\ d.kind \in Entry
    \/ c.kind \in Saving /\ d.kind \in Saving
    => c = d

(* What a set of flags may hold of a candidate in session k.               *)
Backed(c, k, flags) == \A m \in flags : m \in earned[k] \/ m \notin OnFile(c)

(* As long as no call outlived its candidate: what the desk shows was      *)
(* earned in the desk's session, every call is about that session, and the *)
(* certificate is the last word.                                           *)
LoyalDesk ==
  /\ desk.cand = NoCandidate => desk.stage = 0 /\ Flags = {} /\ desk.vid = 0
  /\ desk.cand # NoCandidate =>
       /\ Backed(desk.cand, desk.key, Flags)
       /\ desk.vid \in {0, desk.key}
       /\ Saved(desk.key) => rows[desk.key].cand = desk.cand
  /\ desk.stage = 4 /\ NeedsBiometric(desk.cand) =>
       SavedForDesk /\ \A c \in calls : c.kind \notin Saving

LoyalCall(c) ==
  /\ c.kind = "record" => desk.cand = c.cand
  /\ c.kind \in Keyed => c.cand = desk.cand /\ c.key = desk.key
  /\ c.kind = "save" => /\ Backed(c.cand, c.key, c.flags)
                        /\ c.status = "verified" => Enrolled[c.cand] \subseteq c.flags
                        /\ c.row \in {0, c.key}
  /\ c.kind = "saved" => c.row = desk.key /\ c.status = rows[c.row].status

Loyal == ~orphaned => LoyalDesk /\ \A c \in calls : LoyalCall(c)

DeskInv == DeskTypeOK /\ RowsOK /\ DeskOK /\ CallsOK /\ Single /\ Loyal /\ VerdictEarned

LEMMA InitDesk == Init => DeskInv
<1> SUFFICES ASSUME Init PROVE DeskInv
  OBVIOUS
<1>1. /\ desk = EmptyDesk /\ screen = FirstScreen /\ calls = {} /\ sessions = 0
      /\ rows = [k \in Keys |-> NoRow] /\ earned = [k \in Keys |-> {}]
      /\ orphaned = FALSE /\ guide \in BOOLEAN
  BY DEF Init
<1>2. desk \in Desks /\ screen \in Screens /\ sessions \in 0..MaxSessions
  BY <1>1, DeskAssumption DEF EmptyDesk, FirstScreen, Desks, Screens, Scans
<1>3. DeskTypeOK
  BY <1>1, <1>2, DeskAssumption DEF DeskTypeOK, NoRow
<1>4. RowsOK /\ CallsOK /\ Single /\ VerdictEarned
  BY <1>1 DEF RowsOK, Saved, CallsOK, Single, VerdictEarned, Verified, NoRow
<1>5. DeskOK
  BY <1>1 DEF DeskOK, EmptyDesk, FirstScreen
<1>6. Loyal
  BY <1>1 DEF Loyal, LoyalDesk, EmptyDesk, Flags
<1>7. QED
  BY <1>3, <1>4, <1>5, <1>6 DEF DeskInv

(* What a render keeps: the screen it leads to differs from the one asked  *)
(* for in the step and in that a biometric card may have closed.           *)
LEMMA ShowKeeps ==
  ASSUME NEW d \in Desks, NEW s \in Screens, Show(d, s)
  PROVE  /\ desk' = d /\ screen' \in Screens
         /\ screen'.searching = s.searching /\ screen'.submitting = s.submitting
         /\ screen'.lids = s.lids
         /\ screen'.open => s.open /\ d.stage = 3
<1>1. BioStepOf(d, s) \in {"fp", "iris"}
  BY DEF BioStepOf, Screens
<1>2. QED
  BY <1>1 DEF Show, Screens

-----------------------------------------------------------------------------
(* Most steps render the same session anew: they may show less than has    *)
(* been earned, move on to another stage, answer some calls and make more  *)
(* of the kinds that check the candidate.                                  *)
Checks == {"liveness", "face", "fp", "iris"}
Idle(kinds) == \A c \in calls : c.kind \notin kinds

SameSession ==
  /\ desk'.cand = desk.cand /\ desk'.key = desk.key
  /\ desk'.vid = desk.vid /\ desk'.result = desk.result

StageMoves ==
  \/ desk'.stage = desk.stage
  \/ /\ Idle(Entry)'
     /\ desk'.stage \in {2, 3} \/ ~orphaned => desk.cand # NoCandidate
     /\ desk'.stage = 4 => ~NeedsBiometric(desk.cand)

ScreenFits ==
  /\ screen'.searching = screen.searching \/ Idle(Entry)'
  /\ screen'.submitting = screen.submitting \/ Idle(Saving)'
  /\ screen'.open => desk'.stage = 3
  /\ screen'.lids = "closing" =>
       desk'.stage \in {3, 4} /\ (screen.lids = "closing" \/ desk.stage = 3)

Earns ==
  /\ earned' \in [Keys -> SUBSET Modalities]
  /\ \A k \in Keys : earned[k] \subseteq earned'[k] /\ (k > sessions => earned'[k] = {})

FlagsFit ==
  ~orphaned => /\ desk.cand = NoCandidate => Flags = {}
               /\ desk.cand # NoCandidate => Backed(desk.cand, desk.key, Flags)

Checking(more) ==
  \A c \in more : /\ c.kind \in Checks
                  /\ c.cand \in Candidates /\ c.key \in 1..sessions
                  /\ ~orphaned => c.cand = desk.cand /\ c.key = desk.key

LEMMA BackedKept ==
  ASSUME NEW c, NEW k \in Keys, NEW flags, Backed(c, k, flags), Earns
  PROVE  Backed(c, k, flags)'
  BY DEF Backed, Earns, OnFile

LEMMA SessionKeeps ==
  ASSUME DeskInv, NEW more, Checking(more), calls' \subseteq calls \cup more,
         UNCHANGED <<rows, sessions, guide, orphaned>>, Earns,
         desk' \in Desks, screen' \in Screens, SameSession, StageMoves, ScreenFits,
         FlagsFit'
  PROVE  DeskInv'
<1>1. DeskTypeOK' /\ RowsOK' /\ VerdictEarned'
  <2>1. DeskTypeOK'
    BY DEF DeskInv, DeskTypeOK, Earns
  <2>2. RowsOK'
    BY DEF DeskInv, RowsOK, Saved
  <2>3. VerdictEarned'
    BY DEF DeskInv, VerdictEarned, Verified, Earned, Earns
  <2>4. QED
    BY <2>1, <2>2, <2>3
<1>2. DeskOK'
  BY DEF DeskInv, DeskOK, Saved, SameSession, StageMoves, ScreenFits, DeskTypeOK
<1>3. CallsOK'
  <2>1. ASSUME NEW c \in calls', c \in calls
        PROVE  CallOK(c)'
    BY <2>1 DEF DeskInv, CallsOK, CallOK, Saved, SameSession, StageMoves, ScreenFits, Idle,
         Entry, Keyed, Saving
  <2>2. ASSUME NEW c \in more
        PROVE  CallOK(c)'
    BY DEF CallOK, Entry, Keyed, Saving, Checks, Checking
  <2>3. QED
    BY <2>1, <2>2 DEF CallsOK
<1>4. Single'
  BY DEF DeskInv, Single, Entry, Saving, Checks, Checking
<1>5. ASSUME ~orphaned
      PROVE  LoyalDesk' /\ \A c \in calls' : LoyalCall(c)'
  <2>1. /\ LoyalDesk /\ \A c \in calls : LoyalCall(c)
    BY <1>5 DEF DeskInv, Loyal
  <2>2. LoyalDesk'
    <3>1. desk.cand = NoCandidate => desk'.stage = 0 /\ Flags' = {} /\ desk'.vid = 0
      BY <1>5, <2>1 DEF LoyalDesk, SameSession, StageMoves, FlagsFit
    <3>2. desk.cand # NoCandidate => /\ Backed(desk.cand, desk.key, Flags)'
                                     /\ desk'.vid \in {0, desk'.key}
                                     /\ Saved(desk.key)' => rows'[desk'.key].cand = desk'.cand
      BY <1>5, <2>1 DEF LoyalDesk, SameSession, Saved, FlagsFit
    <3>3. desk'.stage = 4 /\ NeedsBiometric(desk'.cand) =>
            SavedForDesk' /\ \A c \in calls' : c.kind \notin Saving
      BY <2>1 DEF LoyalDesk, SameSession, StageMoves, SavedForDesk, Saving, Checks, Checking
    <3>4. QED
      BY <3>1, <3>2, <3>3 DEF LoyalDesk, SameSession, NeedsBiometric, OnFile, Backed, Saved
  <2>3. ASSUME NEW c \in calls', c \in calls
        PROVE  LoyalCall(c)'
    <3>1. LoyalCall(c) /\ CallOK(c) /\ sessions \in 0..MaxSessions
      BY <2>1, <2>3 DEF DeskInv, CallsOK, DeskTypeOK
    <3>2. c.kind = "save" => Backed(c.cand, c.key, c.flags)'
      BY <3>1, BackedKept, DeskAssumption DEF LoyalCall, CallOK, Keyed
    <3>3. QED
      BY <3>1, <3>2 DEF LoyalCall, SameSession
  <2>4. ASSUME NEW c \in more
        PROVE  LoyalCall(c)'
    BY <1>5 DEF LoyalCall, SameSession, Checks, Checking, Keyed
  <2>5. QED
    BY <2>2, <2>3, <2>4
<1>6. QED
  BY <1>1, <1>2, <1>3, <1>4, <1>5 DEF DeskInv, Loyal

-----------------------------------------------------------------------------
(* The operator's clicks and the candidate's blink.                        *)

LEMMA TypedDesk ==
  ASSUME DeskInv
  PROVE  /\ desk \in Desks /\ screen \in Screens /\ sessions \in 0..MaxSessions
         /\ earned \in [Keys -> SUBSET Modalities]
         /\ \A k \in Keys : k > sessions => earned[k] = {}
         /\ desk.cand \in Candidates \cup {NoCandidate} /\ desk.key \in 0..sessions
         /\ desk.cand # NoCandidate => desk.cand \in Candidates /\ desk.key \in 1..sessions
  BY DEF DeskInv, DeskTypeOK, DeskOK, Desks

LEMMA NoEntry ==
  ASSUME DeskInv, desk.stage \in {1, 2, 3}
  PROVE  Idle(Entry)
  BY DEF DeskInv, CallsOK, CallOK, Idle

LEMMA ShownIsBacked == DeskInv => FlagsFit
  BY DEF DeskInv, Loyal, LoyalDesk, FlagsFit

(* A click that only renders.                                              *)
Renders(d, s) ==
  /\ d \in Desks /\ s \in Screens
  /\ d.cand = desk.cand /\ d.key = desk.key /\ d.vid = desk.vid /\ d.result = desk.result
  /\ d.face = "ok" => desk.face = "ok"
  /\ d.fp = "pass" => desk.fp = "pass"
  /\ d.iris = "pass" => desk.iris = "pass"
  /\ \/ d.stage = desk.stage
     \/ /\ desk.stage \in {1, 2} /\ d.stage \in {2, 3, 4} /\ desk.cand # NoCandidate
        /\ d.stage = 4 => ~NeedsBiometric(desk.cand)
  /\ s.searching = screen.searching /\ s.submitting = screen.submitting
  /\ \/ s.lids = screen.lids /\ screen.lids # "closing"
     \/ s.lids = "open"
     \/ s.lids = "closing" /\ desk.stage = 3 /\ d.stage = 3

LEMMA RenderKeeps ==
  ASSUME DeskInv, Quiet, NEW d, NEW s, Renders(d, s), Show(d, s)
  PROVE  DeskInv'
<1>1. /\ desk' = d /\ screen' \in Screens /\ screen'.searching = screen.searching
      /\ screen'.submitting = screen.submitting /\ screen'.lids = s.lids
      /\ screen'.open => d.stage = 3
  BY ShowKeeps DEF Renders
<1>2. UNCHANGED <<calls, rows, earned, sessions, guide, orphaned>>
  BY DEF Quiet
<1>3. Earns
  BY <1>2, TypedDesk DEF Earns
<1>4. SameSession /\ ScreenFits
  BY <1>1 DEF SameSession, ScreenFits, Renders
<1>5. StageMoves
  BY <1>1, <1>2, NoEntry DEF StageMoves, Idle, Renders
<1>6. Flags' \subseteq Flags
  BY <1>1 DEF Flags, Renders
<1>7. FlagsFit'
  BY <1>2, <1>4, <1>6, ShownIsBacked DEF FlagsFit, SameSession, Backed, OnFile
<1>8. calls' \subseteq calls \cup {} /\ desk' \in Desks /\ screen' \in Screens
  BY <1>1, <1>2 DEF Renders
<1>9. UNCHANGED <<rows, sessions, guide, orphaned>> /\ Checking({})
  BY <1>2 DEF Checking
<1>10. QED
  BY <1>3, <1>4, <1>5, <1>7, <1>8, <1>9, SessionKeeps

LEMMA RendersKeep ==
  ASSUME DeskInv,
         \/ TakePhoto \/ RetakePhoto \/ CarryOn \/ NextStage
         \/ OpenBio \/ CloseBio \/ BackToFinger \/ BioNext \/ LidsOpen
  PROVE  DeskInv'
<1>1. SUFFICES \E d, s : Renders(d, s) /\ Show(d, s) /\ Quiet
  BY RenderKeeps
<1>2. CASE TakePhoto
  <2> DEFINE d == [desk EXCEPT !.stage = 2]
             s == screen
  <2>1. Show(d, s) /\ Quiet
    BY <1>2 DEF TakePhoto, ShowDesk
  <2>2. Renders(d, s)
    BY <1>2, TypedDesk DEF TakePhoto, Clickable, Renders, Desks, Screens
  <2>3. QED
    BY <2>1, <2>2
<1>3. CASE RetakePhoto
  <2> DEFINE d == [NotLive(desk) EXCEPT !.face = "none"]
             s == screen
  <2>1. Show(d, s) /\ Quiet
    BY <1>3 DEF RetakePhoto, ShowDesk
  <2>2. Renders(d, s)
    BY <1>3, TypedDesk DEF RetakePhoto, Clickable, Renders, Desks, Screens, NotLive
  <2>3. QED
    BY <2>1, <2>2
<1>4. CASE CarryOn
  <2> DEFINE d == [desk EXCEPT !.passing = FALSE, !.passed = TRUE]
             s == screen
  <2>1. Show(d, s) /\ Quiet
    BY <1>4 DEF CarryOn, ShowDesk
  <2>2. Renders(d, s)
    BY <1>4, TypedDesk DEF CarryOn, Clickable, Renders, Desks, Screens
  <2>3. QED
    BY <2>1, <2>2
<1>5. CASE NextStage
  <2> DEFINE d == [desk EXCEPT !.stage = IF NeedsBiometric(desk.cand) THEN 3 ELSE 4]
             s == screen
  <2>1. Show(d, s) /\ Quiet
    BY <1>5 DEF NextStage, ShowDesk
  <2>2. Renders(d, s)
    BY <1>5, TypedDesk DEF NextStage, Clickable, Renders, Desks, Screens, DeskInv, DeskOK
  <2>3. QED
    BY <2>1, <2>2
<1>6. CASE OpenBio
  <2> DEFINE d == desk
             s == [screen EXCEPT !.open = TRUE]
  <2>1. Show(d, s) /\ Quiet
    BY <1>6 DEF OpenBio, ShowScreen
  <2>2. Renders(d, s)
    BY <1>6, TypedDesk DEF OpenBio, Clickable, Renders, Desks, Screens
  <2>3. QED
    BY <2>1, <2>2
<1>7. CASE CloseBio
  <2> DEFINE d == desk
             s == [screen EXCEPT !.open = FALSE]
  <2>1. Show(d, s) /\ Quiet
    BY <1>7 DEF CloseBio, ShowScreen
  <2>2. Renders(d, s)
    BY <1>7, TypedDesk DEF CloseBio, Clickable, Renders, Desks, Screens
  <2>3. QED
    BY <2>1, <2>2
<1>8. CASE BackToFinger
  <2> DEFINE d == desk
             s == [screen EXCEPT !.step = "fp"]
  <2>1. Show(d, s) /\ Quiet
    BY <1>8 DEF BackToFinger, ShowScreen
  <2>2. Renders(d, s)
    BY <1>8, TypedDesk DEF BackToFinger, Clickable, Renders, Desks, Screens
  <2>3. QED
    BY <2>1, <2>2
<1>9. CASE LidsOpen
  <2> DEFINE d == desk
             s == [screen EXCEPT !.lids = "open"]
  <2>1. Show(d, s) /\ Quiet
    BY <1>9 DEF LidsOpen, ShowScreen
  <2>2. Renders(d, s)
    BY <1>9, TypedDesk DEF LidsOpen, Clickable, Renders, Desks, Screens
  <2>3. QED
    BY <2>1, <2>2
<1>10. CASE BioNext
  <2>1. desk.stage = 3 /\ screen.lids = "open" /\ Quiet
    BY <1>10 DEF BioNext, Clickable, DeskInv, DeskOK
  <2>2. CASE ShowScreen([screen EXCEPT !.step = "iris"])
    <3> DEFINE s == [screen EXCEPT !.step = "iris"]
    <3>1. Renders(desk, s)
      BY <2>1, TypedDesk DEF Renders, Screens
    <3>2. QED
      BY <2>1, <2>2, <3>1 DEF ShowScreen
  <2>3. CASE ShowScreen([screen EXCEPT !.lids = "closing"])
    <3> DEFINE s == [screen EXCEPT !.lids = "closing"]
    <3>1. Renders(desk, s)
      BY <2>1, TypedDesk DEF Renders, Screens
    <3>2. QED
      BY <2>1, <2>3, <3>1 DEF ShowScreen
  <2>4. QED
    BY <1>10, <2>2, <2>3 DEF BioNext
<1>11. QED
  BY <1>2, <1>3, <1>4, <1>5, <1>6, <1>7, <1>8, <1>9, <1>10

-----------------------------------------------------------------------------
(* The checks: asked of the desk's candidate, answered to whoever is there.*)
Stays(d, s) ==
  /\ d \in Desks /\ s \in Screens
  /\ d.cand = desk.cand /\ d.key = desk.key /\ d.vid = desk.vid /\ d.result = desk.result
  /\ d.stage = desk.stage /\ s.lids = screen.lids
  /\ s.searching = screen.searching \/ Idle(Entry)'
  /\ s.submitting = screen.submitting \/ Idle(Saving)'

LEMMA StayKeeps ==
  ASSUME DeskInv, NEW d, NEW s, NEW more, Show(d, s), Stays(d, s),
         Checking(more), calls' \subseteq calls \cup more,
         UNCHANGED <<rows, sessions, guide, orphaned>>, Earns, FlagsFit'
  PROVE  DeskInv'
<1>1. /\ desk' = d /\ screen' \in Screens /\ screen'.searching = s.searching
      /\ screen'.submitting = s.submitting /\ screen'.lids = s.lids
      /\ screen'.open => d.stage = 3 /\ d \in Desks
  BY ShowKeeps DEF Stays
<1>2. SameSession /\ StageMoves
  BY <1>1 DEF SameSession, StageMoves, Stays
<1>3. ScreenFits
  BY <1>1 DEF ScreenFits, Stays, DeskInv, DeskOK
<1>4. desk' \in Desks /\ screen' \in Screens
  BY <1>1 DEF Stays
<1>5. QED
  BY <1>2, <1>3, <1>4, SessionKeeps

LEMMA SameEarns ==
  ASSUME DeskInv, UNCHANGED earned
  PROVE  Earns
  BY TypedDesk DEF Earns

LEMMA NewEarns ==
  ASSUME DeskInv, NEW call \in calls, call.kind \in Checks, NEW m \in Modalities,
         NEW verdict \in BOOLEAN, Earn(call, m, verdict)
  PROVE  Earns /\ (verdict => m \in earned'[call.key])
<1>1. call.key \in 1..sessions /\ call.key \in Keys
  BY TypedDesk, DeskAssumption DEF DeskInv, CallsOK, CallOK, Checks, Keyed
<1>2. CASE verdict
  BY <1>1, <1>2, TypedDesk DEF Earn, Earns
<1>3. CASE ~verdict
  BY <1>3, SameEarns DEF Earn
<1>4. QED
  BY <1>2, <1>3

(* An answer to a check may add what it is about to what the desk shows.   *)
LEMMA FlagsGrow ==
  ASSUME DeskInv, Earns, SameSession, orphaned' = orphaned,
         \A m \in Flags' : \/ m \in Flags
                           \/ orphaned
                           \/ /\ desk.cand # NoCandidate
                              /\ m \in earned'[desk.key] \/ m \notin OnFile(desk.cand)
  PROVE  FlagsFit'
<1> SUFFICES ASSUME ~orphaned'
             PROVE  /\ desk.cand = NoCandidate => Flags' = {}
                    /\ desk.cand # NoCandidate =>
                         \A m \in Flags' : m \in earned'[desk.key] \/ m \notin OnFile(desk.cand)
  BY DEF FlagsFit, SameSession, Backed, OnFile
<1>1. FlagsFit /\ ~orphaned
  BY ShownIsBacked
<1>2. desk.cand = NoCandidate => Flags' = {}
  BY <1>1 DEF FlagsFit
<1>3. ASSUME desk.cand # NoCandidate, NEW m \in Flags'
      PROVE  m \in earned'[desk.key] \/ m \notin OnFile(desk.cand)
  <2>1. desk.key \in Keys
    BY <1>3, TypedDesk, DeskAssumption
  <2>2. QED
    BY <1>1, <1>3, <2>1 DEF FlagsFit, Backed, Earns
<1>4. QED
  BY <1>2, <1>3

LEMMA Placed ==
  ASSUME DeskInv, desk.stage \in {2, 3}
  PROVE  desk.cand \in Candidates /\ desk.key \in 1..sessions
  BY TypedDesk DEF DeskInv, DeskOK

LEMMA PassKeeps ==
  ASSUME NEW e, DeskInv, desk.stage = 2, CompleteLivenessPass(e),
         e = desk \/ e = [desk EXCEPT !.detector = "blinked"]
  PROVE  DeskInv'
<1> DEFINE d == [e EXCEPT !.passing = TRUE, !.face = "none"]
           c == [kind |-> "liveness", cand |-> desk.cand, key |-> desk.key]
<1>1. Show(d, screen) /\ calls' = calls \cup {c}
      /\ UNCHANGED <<rows, sessions, guide, orphaned>> /\ earned' = earned
  BY DEF CompleteLivenessPass, ShowDesk, Ask
<1>2. Stays(d, screen)
  BY TypedDesk DEF Stays, Desks
<1>3. Checking({c})
  BY Placed DEF Checking, Checks
<1>4. desk' = d
  BY <1>1 DEF Show
<1>5. SameSession /\ Flags' \subseteq Flags
  BY <1>4, TypedDesk DEF SameSession, Flags, Desks
<1>6. Earns /\ FlagsFit'
  BY <1>1, <1>5, SameEarns, FlagsGrow
<1> HIDE DEF c, d
<1>7. QED
  BY <1>1, <1>2, <1>3, <1>6, StayKeeps

LEMMA LivenessKeeps ==
  ASSUME DeskInv, CaptureLiveness \/ Blink \/ DetectorFails
  PROVE  DeskInv'
<1>1. desk.stage = 2
  BY DEF CaptureLiveness, Blink, DetectorFails, Watching
<1>2. CASE CompleteLivenessPass(desk) \/ Blink
  BY <1>1, <1>2, PassKeeps DEF Blink
<1>3. CASE (CaptureLiveness /\ guide) \/ DetectorFails
  <2>1. PICK x \in {"armed", "failed", desk.detector} :
           ShowDesk([desk EXCEPT !.detector = x]) /\ Quiet
    BY <1>3 DEF CaptureLiveness, DetectorFails
  <2> DEFINE d == [desk EXCEPT !.detector = x]
  <2>2. Show(d, screen) /\ Quiet
    BY <2>1 DEF ShowDesk
  <2>3. x \in {"off", "armed", "blinked", "failed"}
    BY <2>1, TypedDesk DEF Desks
  <2>4. screen.lids # "closing"
    BY <1>1, TypedDesk DEF DeskInv, DeskOK
  <2>5. Renders(d, screen)
    BY <2>3, <2>4, TypedDesk DEF Renders, Desks
  <2> HIDE DEF d
  <2>6. QED
    BY <2>2, <2>5, RenderKeeps
<1>4. QED
  BY <1>2, <1>3 DEF CaptureLiveness

LEMMA ScanKeeps ==
  ASSUME DeskInv, Scan
  PROVE  DeskInv'
<1> DEFINE d == SetBio(screen.step, "scanning")
           c == [kind |-> screen.step, cand |-> desk.cand, key |-> desk.key]
<1>1. Show(d, screen) /\ calls' = calls \cup {c}
      /\ UNCHANGED <<rows, sessions, guide, orphaned>> /\ earned' = earned
  BY DEF Scan, ShowDesk, Ask
<1>2. desk.stage = 3 /\ screen.step \in {"fp", "iris"}
  BY TypedDesk DEF Scan, DeskInv, DeskOK, Screens
<1>3. Stays(d, screen)
  BY TypedDesk DEF Stays, SetBio, Desks, Scans
<1>4. Checking({c})
  BY <1>2, Placed DEF Checking, Checks
<1>5. desk' = d
  BY <1>1 DEF Show
<1>6. SameSession /\ Flags' \subseteq Flags
  BY <1>5, TypedDesk DEF SameSession, SetBio, Flags, Desks
<1>7. Earns /\ FlagsFit'
  BY <1>1, <1>6, SameEarns, FlagsGrow
<1> HIDE DEF c, d
<1>8. QED
  BY <1>1, <1>3, <1>4, <1>7, StayKeeps

(* A check's answer is of the desk's session, unless it is an orphan.      *)
LEMMA OwnCheck ==
  ASSUME DeskInv, NEW call \in calls, call.kind \in Checks
  PROVE  /\ call.cand \in Candidates /\ call.key \in 1..sessions
         /\ ~orphaned => call.cand = desk.cand /\ call.key = desk.key
         /\ ~orphaned => desk.cand # NoCandidate
<1>1. CallOK(call) /\ (~orphaned => LoyalCall(call))
  BY DEF DeskInv, CallsOK, Loyal
<1>2. QED
  BY <1>1, DeskAssumption DEF CallOK, LoyalCall, Checks, Keyed

LEMMA LivenessAnswerKeeps ==
  ASSUME DeskInv, NEW call \in calls, NEW snapped \in BOOLEAN,
         LivenessFailed(call) \/ LivenessPassed(call, snapped)
  PROVE  DeskInv'
<1>1. call.kind \in Checks /\ UNCHANGED <<rows, sessions, guide, orphaned>> /\ earned' = earned
  BY DEF LivenessFailed, LivenessPassed, Checks
<1>2. CASE LivenessFailed(call)
  <2> DEFINE d == NotLive(desk)
  <2>1. Show(d, screen) /\ calls' = calls \ {call} /\ desk' = d
    BY <1>2 DEF LivenessFailed, ShowDesk, Show
  <2>2. Stays(d, screen) /\ Checking({})
    BY TypedDesk DEF Stays, NotLive, Desks, Checking
  <2>3. SameSession /\ Flags' \subseteq Flags
    BY <2>1, TypedDesk DEF SameSession, NotLive, Flags, Desks
  <2>4. Earns /\ FlagsFit'
    BY <1>1, <2>3, SameEarns, FlagsGrow
  <2>5. calls' \subseteq calls \cup {}
    BY <2>1
  <2> HIDE DEF d
  <2>6. QED
    BY <1>1, <2>1, <2>2, <2>4, <2>5, StayKeeps
<1>3. CASE LivenessPassed(call, snapped) /\ snapped /\ "face" \in OnFile(call.cand)
  <2> DEFINE d == [desk EXCEPT !.liveOK = TRUE]
             c == [kind |-> "face", cand |-> call.cand, key |-> call.key]
  <2>1. Show(d, screen) /\ calls' = (calls \ {call}) \cup {c} /\ desk' = d
    BY <1>3 DEF LivenessPassed, ShowDesk, Show
  <2>2. Stays(d, screen)
    BY TypedDesk DEF Stays, Desks
  <2>3. Checking({c})
    BY <1>1, OwnCheck DEF Checking, Checks
  <2>4. SameSession /\ Flags' \subseteq Flags
    BY <2>1, TypedDesk DEF SameSession, Flags, Desks
  <2>5. Earns /\ FlagsFit'
    BY <1>1, <2>4, SameEarns, FlagsGrow
  <2>6. calls' \subseteq calls \cup {c}
    BY <2>1
  <2> HIDE DEF c, d
  <2>7. QED
    BY <1>1, <2>1, <2>2, <2>3, <2>5, <2>6, StayKeeps
<1>4. CASE LivenessPassed(call, snapped) /\ "face" \notin OnFile(call.cand)
  <2> DEFINE d == [desk EXCEPT !.liveOK = TRUE, !.face = "ok", !.passing = FALSE, !.passed = TRUE]
  <2>1. Show(d, screen) /\ calls' = calls \ {call} /\ desk' = d
    BY <1>4 DEF LivenessPassed, ShowDesk, Show
  <2>2. Stays(d, screen) /\ Checking({})
    BY TypedDesk DEF Stays, Desks, Checking
  <2>3. SameSession /\ \A m \in Flags' : m \in Flags \/ m = "face"
    BY <2>1, TypedDesk DEF SameSession, Flags, Desks
  <2>4. ~orphaned => desk.cand # NoCandidate /\ "face" \notin OnFile(desk.cand)
    BY <1>1, <1>4, OwnCheck
  <2>5. Earns
    BY <1>1, SameEarns
  <2>6. FlagsFit'
    BY <1>1, <2>3, <2>4, <2>5, FlagsGrow
  <2>7. calls' \subseteq calls \cup {}
    BY <2>1
  <2> HIDE DEF d
  <2>8. QED
    BY <1>1, <2>1, <2>2, <2>5, <2>6, <2>7, StayKeeps
<1>5. CASE LivenessPassed(call, snapped) /\ ~snapped /\ "face" \in OnFile(call.cand)
  <2> DEFINE d == [desk EXCEPT !.liveOK = TRUE, !.passing = FALSE, !.passed = FALSE]
  <2>1. Show(d, screen) /\ calls' = calls \ {call} /\ desk' = d
    BY <1>5 DEF LivenessPassed, ShowDesk, Show
  <2>2. Stays(d, screen) /\ Checking({})
    BY TypedDesk DEF Stays, Desks, Checking
  <2>3. SameSession /\ Flags' \subseteq Flags
    BY <2>1, TypedDesk DEF SameSession, Flags, Desks
  <2>4. Earns /\ FlagsFit'
    BY <1>1, <2>3, SameEarns, FlagsGrow
  <2>5. calls' \subseteq calls \cup {}
    BY <2>1
  <2> HIDE DEF d
  <2>6. QED
    BY <1>1, <2>1, <2>2, <2>4, <2>5, StayKeeps
<1>6. QED
  BY <1>2, <1>3, <1>4, <1>5

LEMMA FaceAnswerKeeps ==
  ASSUME DeskInv, NEW call \in calls, NEW outcome \in {"ok", "miss", "error"},
         FaceAnswered(call, outcome)
  PROVE  DeskInv'
<1> DEFINE d == [desk EXCEPT !.face = outcome, !.passing = FALSE, !.passed = outcome = "ok"]
<1>1. /\ call.kind = "face" /\ call.kind \in Checks /\ UNCHANGED <<rows, sessions, guide, orphaned>>
      /\ Show(d, screen) /\ calls' = calls \ {call} /\ desk' = d
      /\ Earn(call, "face", outcome = "ok")
  BY DEF FaceAnswered, ShowDesk, Show, Checks
<1>2. Stays(d, screen) /\ Checking({})
  BY TypedDesk DEF Stays, Desks, Checking
<1>3. "face" \in Modalities /\ (outcome = "ok") \in BOOLEAN
  BY DEF Modalities
<1>4. Earns /\ (outcome = "ok" => "face" \in earned'[call.key])
  BY <1>1, <1>3, NewEarns
<1>5. SameSession /\ \A m \in Flags' : m \in Flags \/ (m = "face" /\ outcome = "ok")
  BY <1>1, TypedDesk DEF SameSession, Flags, Desks
<1>6. ~orphaned => desk.cand # NoCandidate /\ call.key = desk.key
  BY <1>1, OwnCheck
<1>7. FlagsFit'
  BY <1>1, <1>4, <1>5, <1>6, FlagsGrow
<1>8. calls' \subseteq calls \cup {}
  BY <1>1
<1> HIDE DEF d
<1>9. QED
  BY <1>1, <1>2, <1>4, <1>7, <1>8, StayKeeps

LEMMA ScanAnswerKeeps ==
  ASSUME DeskInv, NEW call \in calls, NEW outcome \in {"pass", "fail", "idle"},
         ScanAnswered(call, outcome)
  PROVE  DeskInv'
<1> DEFINE d == SetBio(call.kind, outcome)
<1>1. /\ call.kind \in {"fp", "iris"} /\ call.kind \in Checks
      /\ UNCHANGED <<rows, sessions, guide, orphaned>>
      /\ Show(d, screen) /\ calls' = calls \ {call} /\ desk' = d
      /\ Earn(call, call.kind, outcome = "pass")
  BY DEF ScanAnswered, ShowDesk, Show, Checks
<1>2. Stays(d, screen) /\ Checking({})
  BY TypedDesk DEF Stays, SetBio, Desks, Scans, Checking
<1>3. call.kind \in Modalities /\ (outcome = "pass") \in BOOLEAN
  BY <1>1 DEF Modalities
<1>4. Earns /\ (outcome = "pass" => call.kind \in earned'[call.key])
  BY <1>1, <1>3, NewEarns
<1>5. SameSession /\ \A m \in Flags' : m \in Flags \/ (m = call.kind /\ outcome = "pass")
  BY <1>1, TypedDesk DEF SameSession, SetBio, Flags, Desks
<1>6. ~orphaned => desk.cand # NoCandidate /\ call.key = desk.key
  BY <1>1, OwnCheck
<1>7. FlagsFit'
  BY <1>1, <1>4, <1>5, <1>6, FlagsGrow
<1>8. calls' \subseteq calls \cup {}
  BY <1>1
<1> HIDE DEF d
<1>9. QED
  BY <1>1, <1>2, <1>4, <1>7, <1>8, StayKeeps

-----------------------------------------------------------------------------
(* The lookup.                                                             *)

LEMMA LookUpKeeps ==
  ASSUME DeskInv, NEW c \in Candidates, LookUp(c)
  PROVE  DeskInv'
<1> DEFINE s == [screen EXCEPT !.searching = TRUE]
           n == [kind |-> "lookup", cand |-> c]
<1>1. /\ desk.stage = 0 /\ desk.cand = NoCandidate /\ ~screen.searching /\ screen.lids = "open"
      /\ Show(desk, s) /\ calls' = calls \cup {n}
      /\ UNCHANGED <<rows, earned, sessions, guide, orphaned>>
  BY DEF LookUp, Clickable, ShowScreen, Ask
<1>2. s \in Screens /\ s.searching /\ s.lids = "open" /\ s.submitting = screen.submitting
      /\ desk \in Desks
  BY <1>1, TypedDesk DEF Screens
<1>3. n.kind = "lookup" /\ n.cand \in Candidates
  OBVIOUS
<1> HIDE DEF s, n
<1>4. /\ desk' = desk /\ screen' \in Screens /\ screen'.searching /\ screen'.lids = "open"
      /\ screen'.submitting = screen.submitting /\ (screen'.open => desk.stage = 3)
  BY <1>1, <1>2, ShowKeeps
<1>5. Idle(Entry)
  BY <1>1 DEF DeskInv, CallsOK, CallOK, Idle
<1>6. DeskTypeOK' /\ RowsOK' /\ VerdictEarned'
  BY <1>1, <1>4 DEF DeskInv, DeskTypeOK, RowsOK, Saved, VerdictEarned, Verified, Earned
<1>7. DeskOK'
  BY <1>1, <1>4 DEF DeskInv, DeskOK, Saved
<1>8. CallsOK'
  <2>1. ASSUME NEW d \in calls
        PROVE  CallOK(d)'
    BY <1>1, <1>4 DEF DeskInv, CallsOK, CallOK, Saved
  <2>2. CallOK(n)'
    BY <1>1, <1>4, <1>3 DEF CallOK, Entry, Keyed, Saving
  <2>3. QED
    BY <1>1, <2>1, <2>2 DEF CallsOK
<1>9. Single'
  BY <1>1, <1>5, <1>3 DEF DeskInv, Single, Idle, Saving
<1>10. Loyal'
  <2>1. LoyalDesk => LoyalDesk'
    BY <1>1, <1>4 DEF LoyalDesk, Flags, Backed, Saved
  <2>2. \A d \in calls : LoyalCall(d) => LoyalCall(d)'
    BY <1>1, <1>4 DEF LoyalCall, Backed
  <2>3. LoyalCall(n)'
    BY <1>3 DEF LoyalCall, Keyed
  <2>4. QED
    BY <1>1, <2>1, <2>2, <2>3 DEF DeskInv, Loyal
<1>11. QED
  BY <1>6, <1>7, <1>8, <1>9, <1>10 DEF DeskInv

(* A lookup in flight finds an empty desk, and no other entry beside it.   *)
LEMMA EmptyForLookup ==
  ASSUME DeskInv, NEW call \in calls, call.kind = "lookup"
  PROVE  /\ desk.cand = NoCandidate /\ desk.key = 0 /\ desk.stage \in {0, 4}
         /\ call.cand \in Candidates /\ screen.searching /\ screen.lids # "closing"
         /\ \A c \in calls : c.kind \in Entry => c = call
  BY DEF DeskInv, CallsOK, CallOK, Entry, Single, DeskOK

(* So the new session is the desk's alone: under a key with no row yet.    *)
LEMMA LookupFoundKeeps ==
  ASSUME DeskInv, NEW call \in calls, LookupFound(call)
  PROVE  DeskInv'
<1> DEFINE d == [desk EXCEPT !.cand = call.cand, !.key = sessions + 1]
           n == [kind |-> "record", cand |-> call.cand]
<1>1. /\ call.kind = "lookup" /\ sessions < MaxSessions /\ sessions' = sessions + 1
      /\ Show(d, screen) /\ calls' = (calls \ {call}) \cup {n}
      /\ UNCHANGED <<rows, earned, guide, orphaned>>
  BY DEF LookupFound, ShowDesk
<1>2. /\ desk.cand = NoCandidate /\ desk.key = 0 /\ desk.stage \in {0, 4}
      /\ call.cand \in Candidates /\ screen.searching /\ screen.lids # "closing"
      /\ \A c \in calls : c.kind \in Entry => c = call
  BY <1>1, EmptyForLookup
<1>3. sessions \in Nat /\ MaxSessions \in Nat /\ sessions + 1 \in Keys
  BY <1>1, TypedDesk, DeskAssumption
<1>4. d \in Desks /\ screen \in Screens
  <2>1. sessions + 1 \in 0..MaxSessions
    BY <1>3
  <2>2. QED
    BY <1>2, <2>1, TypedDesk DEF Desks
<1>5. /\ d.cand = call.cand /\ d.key = sessions + 1 /\ d.stage = desk.stage /\ d.vid = desk.vid
      /\ d.face = desk.face /\ d.fp = desk.fp /\ d.iris = desk.iris
  BY TypedDesk DEF Desks
<1>6. /\ desk' = d /\ screen' \in Screens /\ screen'.searching /\ screen'.lids # "closing"
      /\ screen'.submitting = screen.submitting /\ (screen'.open => d.stage = 3)
  BY <1>1, <1>2, <1>4, ShowKeeps
<1>7. n.kind = "record" /\ n.cand = call.cand
  OBVIOUS
<1>8. call.cand # NoCandidate
  BY <1>2, DeskAssumption
<1> HIDE DEF d, n
<1>9. DeskTypeOK' /\ RowsOK' /\ VerdictEarned'
  <2>1. DeskTypeOK'
    BY <1>1, <1>3, <1>4, <1>6 DEF DeskInv, DeskTypeOK
  <2>2. RowsOK' /\ VerdictEarned'
    BY <1>1 DEF DeskInv, RowsOK, Saved, VerdictEarned, Verified, Earned
  <2>3. QED
    BY <2>1, <2>2
<1>10. DeskOK'
  BY <1>1, <1>2, <1>3, <1>5, <1>6, <1>8 DEF DeskInv, DeskOK, Saved
<1>11. CallsOK'
  <2>1. ASSUME NEW c \in calls, c # call
        PROVE  CallOK(c)'
    BY <1>1, <1>2, <1>3, <1>6, <2>1 DEF DeskInv, CallsOK, CallOK, Saved, Entry
  <2>2. CallOK(n)'
    BY <1>1, <1>2, <1>5, <1>6, <1>7 DEF CallOK, Entry, Keyed, Saving
  <2>3. QED
    BY <1>1, <2>1, <2>2 DEF CallsOK
<1>12. Single'
  BY <1>1, <1>2, <1>7 DEF DeskInv, Single, Saving
<1>13. ASSUME ~orphaned
       PROVE  LoyalDesk' /\ \A c \in calls' : LoyalCall(c)'
  <2>1. LoyalDesk /\ \A c \in calls : LoyalCall(c) /\ CallOK(c)
    BY <1>13 DEF DeskInv, Loyal, CallsOK
  <2>2. desk.stage = 0 /\ Flags = {} /\ desk.vid = 0 /\ ~Saved(sessions + 1)
    BY <1>2, <1>3, <2>1 DEF LoyalDesk, DeskInv, DeskTypeOK, Saved
  <2>3. Flags' = {} /\ desk'.stage = 0 /\ desk'.vid = 0 /\ ~Saved(desk.key)'
    BY <1>1, <1>5, <1>6, <2>2 DEF Flags, Saved
  <2>4. LoyalDesk'
    BY <1>5, <1>6, <1>8, <2>3 DEF LoyalDesk, Backed
  <2>5. ASSUME NEW c \in calls, c # call
        PROVE  LoyalCall(c)'
    <3>1. c.kind \notin Keyed /\ c.kind # "saved" /\ c.kind \notin Entry
      BY <1>2, <2>1, <2>5, DeskAssumption DEF LoyalCall, CallOK
    <3>2. QED
      BY <3>1 DEF LoyalCall, Entry, Keyed
  <2>6. LoyalCall(n)'
    BY <1>5, <1>6, <1>7 DEF LoyalCall, Keyed
  <2>7. QED
    BY <1>1, <2>4, <2>5, <2>6
<1>14. Loyal'
  BY <1>1, <1>13 DEF Loyal
<1>15. QED
  BY <1>9, <1>10, <1>11, <1>12, <1>14 DEF DeskInv

LEMMA LookupRefusedKeeps ==
  ASSUME DeskInv, NEW call \in calls, LookupRefused(call)
  PROVE  DeskInv'
<1> DEFINE d == [desk EXCEPT !.cand = NoCandidate]
           s == [screen EXCEPT !.searching = FALSE]
<1>1. /\ call.kind = "lookup" /\ Show(d, s) /\ calls' = calls \ {call} /\ desk' = d
      /\ UNCHANGED <<rows, sessions, guide, orphaned>> /\ earned' = earned
  BY DEF LookupRefused, Show
<1>2. Idle(Entry)'
  BY <1>1, EmptyForLookup DEF Idle
<1>3. d = desk
  BY <1>1, EmptyForLookup, TypedDesk DEF Desks
<1>4. Stays(d, s) /\ Checking({})
  BY <1>2, <1>3, TypedDesk DEF Stays, Screens, Checking
<1>5. SameSession /\ Flags' \subseteq Flags
  BY <1>1, <1>3 DEF SameSession, Flags
<1>6. Earns /\ FlagsFit'
  BY <1>1, <1>5, SameEarns, FlagsGrow
<1>7. calls' \subseteq calls \cup {}
  BY <1>1
<1> HIDE DEF d, s
<1>8. QED
  BY <1>1, <1>4, <1>6, <1>7, StayKeeps

LEMMA RecordShownKeeps ==
  ASSUME DeskInv, NEW call \in calls, RecordShown(call)
  PROVE  DeskInv'
<1> DEFINE d == [desk EXCEPT !.stage = 1]
           s == [screen EXCEPT !.searching = FALSE]
<1>1. /\ call.kind = "record" /\ Show(d, s) /\ calls' = calls \ {call} /\ desk' = d
      /\ UNCHANGED <<rows, sessions, guide, orphaned>> /\ earned' = earned
  BY DEF RecordShown, Show
<1>2. d \in Desks /\ s \in Screens /\ d.stage = 1 /\ s.submitting = screen.submitting
      /\ s.lids = screen.lids /\ screen.lids # "closing"
  <2>1. screen.lids # "closing"
    BY <1>1 DEF DeskInv, CallsOK, CallOK, Entry
  <2>2. d \in Desks /\ d.stage = 1
    BY TypedDesk DEF Desks
  <2>3. s \in Screens /\ s.submitting = screen.submitting /\ s.lids = screen.lids
    BY TypedDesk DEF Screens
  <2>4. QED
    BY <2>1, <2>2, <2>3
<1>3. Idle(Entry)'
  BY <1>1 DEF DeskInv, Single, Idle, Entry
<1>4. ~orphaned => desk.cand # NoCandidate
  BY <1>1, DeskAssumption DEF DeskInv, Loyal, LoyalCall, CallsOK, CallOK, Entry
<1>5. SameSession /\ Flags' \subseteq Flags
  BY <1>1, TypedDesk DEF SameSession, Flags, Desks
<1>6. Earns /\ FlagsFit'
  BY <1>1, <1>5, SameEarns, FlagsGrow
<1>7. calls' \subseteq calls \cup {} /\ Checking({})
  BY <1>1 DEF Checking
<1> HIDE DEF d, s
<1>8. /\ screen' \in Screens /\ screen'.submitting = s.submitting /\ screen'.lids = s.lids
      /\ (screen'.open => d.stage = 3)
  BY <1>1, <1>2, ShowKeeps
<1>9. ScreenFits
  BY <1>1, <1>2, <1>3, <1>8 DEF ScreenFits
<1>10. StageMoves
  BY <1>1, <1>2, <1>3, <1>4 DEF StageMoves
<1>11. desk' \in Desks /\ screen' \in Screens
  BY <1>1, <1>2, <1>8
<1>12. QED
  BY <1>1, <1>5, <1>6, <1>7, <1>9, <1>10, <1>11, SessionKeeps

-----------------------------------------------------------------------------
(* Saving.                                                                 *)

LEMMA SaveFailedKeeps ==
  ASSUME DeskInv, NEW call \in calls, SaveFailed(call)
  PROVE  DeskInv'
<1> DEFINE s == [screen EXCEPT !.submitting = FALSE]
<1>1. /\ call.kind \in Saving /\ Show(desk, s) /\ calls' = calls \ {call} /\ desk' = desk
      /\ UNCHANGED <<rows, sessions, guide, orphaned>> /\ earned' = earned
  BY DEF SaveFailed, ShowScreen, Show, Saving
<1>2. Idle(Saving)'
  BY <1>1 DEF DeskInv, Single, Idle
<1>3. Stays(desk, s) /\ Checking({})
  BY <1>2, TypedDesk DEF Stays, Screens, Checking
<1>4. SameSession /\ Flags' \subseteq Flags
  BY <1>1 DEF SameSession, Flags
<1>5. Earns /\ FlagsFit'
  BY <1>1, <1>4, SameEarns, FlagsGrow
<1>6. calls' \subseteq calls \cup {}
  BY <1>1
<1> HIDE DEF s
<1>7. QED
  BY <1>1, <1>3, <1>5, <1>6, StayKeeps

(* The desk saves what it shows: with its own session still on it, that is *)
(* what was earned there.                                                  *)
LEMMA SubmissionKeeps ==
  ASSUME DeskInv, LidsShut, desk.stage # 4, ~screen.submitting
  PROVE  DeskInv'
<1> DEFINE d == [desk EXCEPT !.result = "none"]
           s == [screen EXCEPT !.lids = "shut", !.submitting = TRUE]
<1> PICK n : n = Submission
  OBVIOUS
<1>1. /\ screen.lids = "closing" /\ Show(d, s) /\ calls' = calls \cup {n}
      /\ UNCHANGED <<rows, earned, sessions, guide, orphaned>>
  BY DEF LidsShut, Ask
<1>2. /\ desk.stage = 3 /\ desk.cand \in Candidates /\ desk.cand # NoCandidate
      /\ desk.key \in 1..sessions
  <2>1. desk.stage = 3
    BY <1>1 DEF DeskInv, DeskOK
  <2>2. QED
    BY <2>1, Placed, DeskAssumption
<1>3. d \in Desks /\ s \in Screens /\ s.submitting /\ s.lids = "shut"
      /\ s.searching = screen.searching
  <2>1. d \in Desks
    BY TypedDesk DEF Desks
  <2>2. s \in Screens /\ s.submitting /\ s.lids = "shut" /\ s.searching = screen.searching
    BY TypedDesk DEF Screens
  <2>3. QED
    BY <2>1, <2>2
<1>4. /\ d.cand = desk.cand /\ d.key = desk.key /\ d.stage = 3 /\ d.vid = desk.vid
      /\ d.face = desk.face /\ d.fp = desk.fp /\ d.iris = desk.iris
  BY <1>2, TypedDesk DEF Desks
<1> HIDE DEF d, s
<1>5. /\ desk' = d /\ screen' \in Screens /\ screen'.searching = screen.searching
      /\ screen'.submitting /\ screen'.lids = "shut" /\ (screen'.open => d.stage = 3)
  BY <1>1, <1>3, ShowKeeps
<1>6. Idle(Saving)
  BY DEF DeskInv, CallsOK, CallOK, Idle
<1>7. /\ n.kind = "save" /\ n.cand = desk.cand /\ n.key = desk.key
      /\ n.row = desk.vid /\ n.flags = Flags
      /\ n.status = Verdict(desk.cand, Flags)
  BY DEF Submission
<1>8. DeskTypeOK' /\ RowsOK' /\ VerdictEarned'
  <2>1. DeskTypeOK'
    BY <1>1, <1>3, <1>5 DEF DeskInv, DeskTypeOK
  <2>2. RowsOK' /\ VerdictEarned'
    BY <1>1 DEF DeskInv, RowsOK, Saved, VerdictEarned, Verified, Earned
  <2>3. QED
    BY <2>1, <2>2
<1>9. DeskOK'
  BY <1>1, <1>2, <1>4, <1>5 DEF DeskInv, DeskOK, Saved
<1>10. CallsOK'
  <2>1. ASSUME NEW c \in calls
        PROVE  CallOK(c)'
    BY <1>1, <1>4, <1>5, <1>6 DEF DeskInv, CallsOK, CallOK, Saved, Idle
  <2>2. desk.vid = 0 \/ (desk.vid \in Keys /\ Saved(desk.vid))
    BY TypedDesk, DeskAssumption DEF DeskInv, DeskOK, Desks
  <2>3. n.status \in Verdicts /\ n.flags \subseteq Modalities
    BY <1>7 DEF Verdicts, Verdict, Flags
  <2>4. CallOK(n)'
    BY <1>1, <1>2, <1>5, <1>7, <2>2, <2>3 DEF CallOK, Entry, Keyed, Saving, Saved
  <2>5. QED
    BY <1>1, <2>1, <2>4 DEF CallsOK
<1>11. Single'
  BY <1>1, <1>6, <1>7 DEF DeskInv, Single, Idle, Entry
<1>12. ASSUME ~orphaned
       PROVE  LoyalDesk' /\ \A c \in calls' : LoyalCall(c)'
  <2>1. LoyalDesk /\ \A c \in calls : LoyalCall(c)
    BY <1>12 DEF DeskInv, Loyal
  <2>2. Flags' = Flags
    BY <1>4, <1>5 DEF Flags
  <2>3. LoyalDesk'
    BY <1>1, <1>2, <1>4, <1>5, <2>1, <2>2 DEF LoyalDesk, Backed, Saved
  <2>4. ASSUME NEW c \in calls
        PROVE  LoyalCall(c)'
    BY <1>1, <1>4, <1>5, <2>1 DEF LoyalCall, Backed
  <2>5. n.status = "verified" => Enrolled[n.cand] \subseteq n.flags
    BY <1>2, <1>7 DEF Verdict, OnFile
  <2>6. Backed(n.cand, n.key, n.flags)
    BY <1>2, <1>7, <2>1 DEF LoyalDesk
  <2>7. n.row \in {0, n.key}
    BY <1>2, <1>7, <2>1 DEF LoyalDesk
  <2>8. LoyalCall(n)'
    BY <1>1, <1>4, <1>5, <1>7, <2>5, <2>6, <2>7 DEF LoyalCall, Backed
  <2>9. QED
    BY <1>1, <2>3, <2>4, <2>8
<1>13. Loyal'
  BY <1>1, <1>12 DEF Loyal
<1>14. QED
  BY <1>8, <1>9, <1>10, <1>11, <1>13 DEF DeskInv

LEMMA LidsShutKeeps ==
  ASSUME DeskInv, LidsShut
  PROVE  DeskInv'
<1>1. CASE desk.stage # 4 /\ ~screen.submitting
  BY <1>1, SubmissionKeeps
<1>2. CASE ~(desk.stage # 4 /\ ~screen.submitting)
  <2> DEFINE s == [screen EXCEPT !.lids = "shut"]
  <2>1. /\ Show(desk, s) /\ calls' \subseteq calls \cup {} /\ desk' = desk
        /\ UNCHANGED <<rows, sessions, guide, orphaned>> /\ earned' = earned
    BY <1>2 DEF LidsShut, ShowScreen, Show
  <2>2. /\ s \in Screens /\ s.lids = "shut" /\ s.searching = screen.searching
        /\ s.submitting = screen.submitting /\ desk \in Desks
    BY TypedDesk DEF Screens
  <2> HIDE DEF s
  <2>3. /\ screen' \in Screens /\ screen'.searching = screen.searching
        /\ screen'.submitting = screen.submitting /\ screen'.lids = "shut"
        /\ screen'.open => desk.stage = 3
    BY <2>1, <2>2, ShowKeeps
  <2>4. SameSession /\ StageMoves /\ ScreenFits /\ Flags' \subseteq Flags /\ Checking({})
    BY <2>1, <2>3 DEF SameSession, StageMoves, ScreenFits, Flags, Checking
  <2>5. Earns /\ FlagsFit'
    BY <2>1, <2>4, SameEarns, FlagsGrow
  <2>6. desk' \in Desks /\ screen' \in Screens
    BY <2>1, <2>2, <2>3
  <2>7. QED
    BY <2>1, <2>4, <2>5, <2>6, SessionKeeps
<1>3. QED
  BY <1>1, <1>2

(* The portal writes one row: the desk's own, and no other save is in      *)
(* flight; a repeated POST, or a PATCH, keeps the row's candidate.         *)
LEMMA SavedRowOK ==
  ASSUME DeskInv, NEW call \in calls, call.kind = "save"
  PROVE  /\ RowId(call) \in Keys /\ RowId(call) <= sessions
         /\ SavedRow(call) \in [cand: Candidates, status: Verdicts]
         /\ SavedRow(call) # NoRow
<1>1. /\ call.cand \in Candidates /\ call.key \in 1..sessions /\ call.status \in Verdicts
      /\ call.row = 0 \/ (call.row \in Keys /\ Saved(call.row))
  BY DEF DeskInv, CallsOK, CallOK, Keyed, Saving
<1>2. /\ rows \in [Keys -> [cand: Candidates \cup {NoCandidate},
                            status: {"none", "verified", "denied"}]]
      /\ sessions \in 0..MaxSessions
      /\ \A k \in Keys : k > sessions => ~Saved(k)
      /\ \A k \in Keys : Saved(k) => rows[k].cand \in Candidates /\ rows[k].status \in Verdicts
  BY DEF DeskInv, DeskTypeOK, RowsOK, Saved
<1>3. call.key \in Keys
  BY <1>1, <1>2, DeskAssumption
<1>4. RowId(call) \in Keys /\ RowId(call) <= sessions
  BY <1>1, <1>2, <1>3 DEF RowId
<1>5. SavedRow(call) \in [cand: Candidates, status: Verdicts]
  <2>1. CASE call.row # 0
    <3>1. Verdict(rows[call.row].cand, call.flags) \in Verdicts
      BY DEF Verdict, Verdicts
    <3>2. QED
      BY <1>1, <1>2, <2>1, <3>1 DEF SavedRow
  <2>2. CASE call.row = 0 /\ Saved(call.key)
    BY <1>2, <1>3, <2>2 DEF SavedRow, Saved
  <2>3. CASE call.row = 0 /\ ~Saved(call.key)
    BY <1>1, <2>3 DEF SavedRow, Saved
  <2>4. QED
    BY <2>1, <2>2, <2>3
<1>6. QED
  BY <1>4, <1>5 DEF NoRow, Verdicts

LEMMA SaveVerificationKeeps ==
  ASSUME DeskInv, NEW call \in calls, SaveVerification(call)
  PROVE  DeskInv'
<1> PICK r : r = RowId(call)
  OBVIOUS
<1> PICK v : v = SavedRow(call)
  OBVIOUS
<1> PICK n : n = [kind |-> "saved", row |-> r, status |-> v.status]
  OBVIOUS
<1>1. /\ call.kind = "save" /\ rows' = [rows EXCEPT ![r] = v] /\ calls' = (calls \ {call}) \cup {n}
      /\ UNCHANGED <<desk, screen, earned, sessions, guide, orphaned>>
  BY DEF SaveVerification
<1>2. /\ r \in Keys /\ r <= sessions /\ v.cand \in Candidates /\ v.status \in Verdicts
      /\ v \in [cand: Candidates, status: Verdicts] /\ v # NoRow
  BY <1>1, SavedRowOK
<1>3. /\ rows \in [Keys -> [cand: Candidates \cup {NoCandidate},
                            status: {"none", "verified", "denied"}]]
      /\ sessions \in 0..MaxSessions
  BY DEF DeskInv, DeskTypeOK
<1>4. rows'[r] = v /\ \A k \in Keys : k # r => rows'[k] = rows[k]
  BY <1>1, <1>2, <1>3
<1>5. Saved(r)' /\ \A k \in Keys : Saved(k) => Saved(k)'
  BY <1>2, <1>4 DEF Saved, NoRow
<1>6. n.kind = "saved" /\ n.row = r /\ n.status = v.status
  OBVIOUS
<1>7. \A c \in calls : c.kind \in Saving => c = call
  BY <1>1 DEF DeskInv, Single, Saving
<1>8. DeskTypeOK'
  <2>1. v \in [cand: Candidates \cup {NoCandidate}, status: {"none", "verified", "denied"}]
    BY <1>2 DEF Verdicts
  <2>2. rows' \in [Keys -> [cand: Candidates \cup {NoCandidate},
                            status: {"none", "verified", "denied"}]]
    BY <1>1, <1>3, <2>1
  <2>3. \A k \in Keys : k > sessions => rows'[k] = NoRow /\ earned[k] = {}
    BY <1>2, <1>3, <1>4 DEF DeskInv, DeskTypeOK
  <2>4. QED
    BY <1>1, <2>2, <2>3 DEF DeskInv, DeskTypeOK
<1>9. RowsOK'
  BY <1>2, <1>4 DEF DeskInv, RowsOK, Saved
<1>10. DeskOK'
  <2>1. desk.vid # 0 => Saved(desk.vid)'
    <3>1. desk.vid \in 0..MaxSessions
      BY TypedDesk DEF Desks
    <3>2. desk.vid # 0 => desk.vid \in Keys /\ Saved(desk.vid)
      BY <3>1, DeskAssumption DEF DeskInv, DeskOK
    <3>3. QED
      BY <1>1, <1>5, <3>2 DEF Saved
  <2>2. QED
    BY <1>1, <2>1 DEF DeskInv, DeskOK, Saved
<1>11. CallsOK'
  <2>1. ASSUME NEW c \in calls
        PROVE  CallOK(c)'
    BY <1>1, <1>5 DEF DeskInv, CallsOK, CallOK
  <2>2. screen.submitting
    BY <1>1 DEF DeskInv, CallsOK, CallOK, Saving
  <2>3. CallOK(n)'
    BY <1>1, <1>2, <1>5, <1>6, <2>2 DEF CallOK, Entry, Keyed, Saving
  <2>4. QED
    BY <1>1, <2>1, <2>3 DEF CallsOK
<1>12. Single'
  BY <1>1, <1>6, <1>7 DEF DeskInv, Single, Entry
<1>13. ASSUME ~orphaned
       PROVE  /\ LoyalDesk' /\ \A c \in calls' : LoyalCall(c)'
              /\ Verified(r)' => Earned(r)'
  <2>1. LoyalDesk /\ LoyalCall(call) /\ CallOK(call) /\ \A c \in calls : LoyalCall(c)
    BY <1>13 DEF DeskInv, Loyal, CallsOK
  <2>2. /\ call.cand = desk.cand /\ call.key = desk.key /\ desk.cand \in Candidates
        /\ desk.cand # NoCandidate /\ desk.key # 0 /\ desk.key \in Keys
        /\ r = desk.key
    BY <1>1, <1>3, <2>1, DeskAssumption DEF LoyalCall, CallOK, Keyed, RowId
  <2>3. v.cand = desk.cand
    <3>1. CASE call.row # 0
      BY <1>3, <2>1, <2>2, <3>1, <1>1 DEF SavedRow, RowId, LoyalDesk, CallOK, Saved
    <3>2. CASE call.row = 0
      BY <1>3, <2>1, <2>2, <3>2 DEF SavedRow, LoyalDesk, Saved
    <3>3. QED
      BY <3>1, <3>2
  <2>4. ~(desk.stage = 4 /\ NeedsBiometric(desk.cand))
    BY <1>1, <2>1 DEF LoyalDesk, Saving
  <2>5. LoyalDesk'
    <3>1. Flags' = Flags
      BY <1>1 DEF Flags
    <3>2. Saved(desk.key)' => rows'[desk.key].cand = desk.cand
      BY <1>4, <2>2, <2>3
    <3>3. QED
      BY <1>1, <2>1, <2>4, <3>1, <3>2 DEF LoyalDesk, Backed, NeedsBiometric, OnFile, Saved
  <2>6. ASSUME NEW c \in calls, c # call
        PROVE  LoyalCall(c)'
    <3>1. c.kind # "save" /\ c.kind # "saved"
      BY <1>7, <2>6 DEF Saving
    <3>2. QED
      BY <1>1, <2>1, <3>1 DEF LoyalCall
  <2>7. LoyalCall(n)'
    BY <1>1, <1>4, <1>6, <2>2 DEF LoyalCall, Keyed
  <2>8. ASSUME v.status = "verified"
        PROVE  Enrolled[v.cand] \subseteq earned[r]
    <3>1. Backed(desk.cand, desk.key, call.flags)
      BY <1>1, <2>1, <2>2 DEF LoyalCall
    <3>2. CASE call.row # 0
      <4>1. v.status = Verdict(rows[call.row].cand, call.flags) /\ v.cand = rows[call.row].cand
        BY <1>3, <2>1, <3>2, <1>1 DEF SavedRow, CallOK
      <4>2. Enrolled[v.cand] \subseteq call.flags
        BY <2>2, <2>3, <2>8, <4>1 DEF Verdict, OnFile
      <4>3. QED
        BY <2>2, <2>3, <3>1, <4>2 DEF Backed, OnFile
    <3>3. CASE call.row = 0 /\ Saved(call.key)
      <4>1. v = rows[r]
        BY <2>2, <3>3 DEF SavedRow, Saved
      <4>2. Verified(r) => Earned(r)
        BY <1>2, <1>13 DEF DeskInv, VerdictEarned
      <4>3. QED
        BY <2>8, <4>1, <4>2 DEF Verified, Earned
    <3>4. CASE call.row = 0 /\ ~Saved(call.key)
      <4>1. v.status = call.status /\ v.cand = call.cand
        BY <3>4 DEF SavedRow, Saved
      <4>2. Enrolled[v.cand] \subseteq call.flags
        BY <1>1, <2>1, <2>8, <4>1 DEF LoyalCall
      <4>3. QED
        BY <2>2, <2>3, <3>1, <4>2 DEF Backed, OnFile
    <3>5. QED
      BY <3>2, <3>3, <3>4
  <2>9. Verified(r)' => Earned(r)'
    BY <1>1, <1>2, <1>4, <2>8 DEF Verified, Earned
  <2>10. QED
    BY <1>1, <2>5, <2>6, <2>7, <2>9
<1>14. VerdictEarned'
  BY <1>1, <1>4, <1>13 DEF DeskInv, VerdictEarned, Verified, Earned
<1>15. Loyal'
  BY <1>1, <1>13 DEF Loyal
<1>16. QED
  BY <1>8, <1>9, <1>10, <1>11, <1>12, <1>14, <1>15 DEF DeskInv

(* What the answer to a save puts on the desk is of the desk's types.      *)
LEMMA AnswerTyped ==
  ASSUME NEW d \in Desks, NEW row \in 0..MaxSessions, NEW status \in Verdicts
  PROVE  [d EXCEPT !.vid = row, !.result = status, !.stage = 4] \in Desks
<1>1. PICK e : e = [d EXCEPT !.vid = row]
  OBVIOUS
<1>2. e \in Desks
  BY <1>1 DEF Desks
<1>3. PICK f : f = [e EXCEPT !.result = status]
  OBVIOUS
<1>4. f \in Desks
  BY <1>2, <1>3 DEF Desks, Verdicts
<1>5. [f EXCEPT !.stage = 4] \in Desks
  BY <1>4 DEF Desks
<1>6. [d EXCEPT !.vid = row, !.result = status, !.stage = 4] = [f EXCEPT !.stage = 4]
  BY <1>1, <1>3 DEF Desks
<1>7. QED
  BY <1>5, <1>6

LEMMA SaveAnsweredKeeps ==
  ASSUME DeskInv, NEW call \in calls, SaveAnswered(call)
  PROVE  DeskInv'
<1> DEFINE d == [desk EXCEPT !.vid = call.row, !.result = call.status, !.stage = 4]
           s == [screen EXCEPT !.submitting = FALSE]
<1>1. /\ call.kind = "saved" /\ Show(d, s) /\ calls' = calls \ {call}
      /\ UNCHANGED <<rows, earned, sessions, guide, orphaned>>
  BY DEF SaveAnswered
<1>2. call.row \in Keys /\ Saved(call.row) /\ call.status \in Verdicts
  BY <1>1 DEF DeskInv, CallsOK, CallOK, Saving
<1>3. d \in Desks
  <2>1. call.row \in 0..MaxSessions
    BY <1>2, DeskAssumption
  <2>2. QED
    BY <1>2, <2>1, TypedDesk, AnswerTyped
<1>4. /\ d.cand = desk.cand /\ d.key = desk.key /\ d.stage = 4 /\ d.vid = call.row
      /\ d.result = call.status /\ d.face = desk.face /\ d.fp = desk.fp /\ d.iris = desk.iris
  BY TypedDesk DEF Desks
<1>5. /\ s \in Screens /\ ~s.submitting /\ s.searching = screen.searching
      /\ s.lids = screen.lids
  BY TypedDesk DEF Screens
<1> HIDE DEF d, s
<1>6. /\ desk' = d /\ screen' \in Screens /\ screen'.searching = screen.searching
      /\ screen'.lids = screen.lids /\ (screen'.open => d.stage = 3)
  BY <1>1, <1>3, <1>5, ShowKeeps
<1>7. \A c \in calls' : c \in calls /\ c.kind \notin Saving
  BY <1>1 DEF DeskInv, Single, Saving
<1>8. DeskTypeOK' /\ RowsOK' /\ VerdictEarned'
  <2>1. DeskTypeOK'
    BY <1>1, <1>3, <1>6 DEF DeskInv, DeskTypeOK
  <2>2. RowsOK' /\ VerdictEarned'
    BY <1>1 DEF DeskInv, RowsOK, Saved, VerdictEarned, Verified, Earned
  <2>3. QED
    BY <2>1, <2>2
<1>9. DeskOK'
  BY <1>1, <1>2, <1>4, <1>6 DEF DeskInv, DeskOK, Saved
<1>10. CallsOK' /\ Single'
  BY <1>1, <1>4, <1>6, <1>7 DEF DeskInv, CallsOK, CallOK, Single, Saved, Saving
<1>11. ASSUME ~orphaned
       PROVE  LoyalDesk' /\ \A c \in calls' : LoyalCall(c)'
  <2>1. LoyalDesk /\ LoyalCall(call) /\ \A c \in calls : LoyalCall(c)
    BY <1>11 DEF DeskInv, Loyal
  <2>2. /\ call.row = desk.key /\ call.status = rows[call.row].status
        /\ desk.key # 0 /\ desk.cand # NoCandidate
    BY <1>1, <1>2, <2>1, TypedDesk, DeskAssumption DEF LoyalCall, DeskInv, DeskOK
  <2>3. rows[desk.key] = [cand |-> desk.cand, status |-> call.status]
    <3>1. rows[desk.key] \in [cand: Candidates \cup {NoCandidate},
                              status: {"none", "verified", "denied"}]
      BY <1>2, <2>2 DEF DeskInv, DeskTypeOK
    <3>2. rows[desk.key].cand = desk.cand /\ rows[desk.key].status = call.status
      BY <1>2, <2>1, <2>2 DEF LoyalDesk
    <3>3. QED
      BY <3>1, <3>2
  <2>4. Flags' = Flags
    BY <1>4, <1>6 DEF Flags
  <2>5. SavedForDesk'
    BY <1>1, <1>4, <1>6, <2>2, <2>3 DEF SavedForDesk
  <2>6. Backed(desk.cand, desk.key, Flags)' /\ (Saved(desk.key)' => rows'[desk'.key].cand = desk'.cand)
    BY <1>1, <1>4, <1>6, <2>1, <2>2, <2>4 DEF LoyalDesk, Backed, Saved
  <2>7. LoyalDesk'
    BY <1>4, <1>6, <1>7, <2>2, <2>5, <2>6 DEF LoyalDesk
  <2>8. ASSUME NEW c \in calls'
        PROVE  LoyalCall(c)'
    BY <1>1, <1>4, <1>6, <1>7, <2>1 DEF LoyalCall, Saving
  <2>9. QED
    BY <2>7, <2>8
<1>12. Loyal'
  BY <1>1, <1>11 DEF Loyal
<1>13. QED
  BY <1>8, <1>9, <1>10, <1>12 DEF DeskInv

-----------------------------------------------------------------------------
(* Leaving the candidate, and the theorems.                                *)

LEMMA LeavingKeeps ==
  ASSUME DeskInv, ResetDesk \/ Reload
  PROVE  DeskInv'
<1>1. /\ desk' = EmptyDesk /\ UNCHANGED <<rows, earned, sessions, guide>>
      /\ screen' \in Screens /\ screen'.lids = "open" /\ ~screen'.open
      /\ \/ calls' = {}
         \/ /\ calls' = calls /\ orphaned' /\ screen'.searching = screen.searching
            /\ screen'.submitting = screen.submitting
      /\ orphaned' \in BOOLEAN /\ (orphaned => orphaned')
  <2>1. CASE Reload
    BY <2>1 DEF Reload, FirstScreen, Screens, DeskInv, DeskTypeOK
  <2>2. CASE ResetDesk
    <3>1. Show(EmptyDesk, screen) /\ screen.lids = "open" /\ EmptyDesk.stage = 0
      BY <2>2 DEF ResetDesk, Clickable, ShowDesk, EmptyDesk
    <3>2. EmptyDesk \in Desks
      BY DeskAssumption DEF EmptyDesk, Desks, Scans
    <3>3. /\ screen' \in Screens /\ screen'.searching = screen.searching
          /\ screen'.submitting = screen.submitting /\ screen'.lids = "open" /\ ~screen'.open
      BY <3>1, <3>2, ShowKeeps, TypedDesk
    <3>4. QED
      BY <2>2, <3>1, <3>3 DEF ResetDesk, Show, DeskInv, DeskTypeOK
  <2>3. QED
    BY <2>1, <2>2
<1>2. EmptyDesk \in Desks /\ EmptyDesk.cand = NoCandidate /\ EmptyDesk.key = 0
      /\ EmptyDesk.stage = 0 /\ EmptyDesk.vid = 0
  BY DeskAssumption DEF EmptyDesk, Desks, Scans
<1>3. DeskTypeOK' /\ RowsOK' /\ VerdictEarned'
  <2>1. DeskTypeOK'
    BY <1>1, <1>2 DEF DeskInv, DeskTypeOK
  <2>2. RowsOK' /\ VerdictEarned'
    BY <1>1 DEF DeskInv, RowsOK, Saved, VerdictEarned, Verified, Earned
  <2>3. QED
    BY <2>1, <2>2
<1>4. DeskOK'
  BY <1>1, <1>2, TypedDesk DEF DeskOK
<1>5. CallsOK' /\ Single'
  BY <1>1, <1>2 DEF DeskInv, CallsOK, CallOK, Single, Saved
<1>6. Loyal'
  BY <1>1, <1>2 DEF Loyal, LoyalDesk, Flags, EmptyDesk, NeedsBiometric, OnFile
<1>7. QED
  BY <1>3, <1>4, <1>5, <1>6 DEF DeskInv

LEMMA NextDesk == DeskInv /\ [Next]_vars => DeskInv'
<1> SUFFICES ASSUME DeskInv, [Next]_vars
             PROVE  DeskInv'
  OBVIOUS
<1>1. ASSUME NEW c \in Candidates, LookUp(c)
      PROVE  DeskInv'
  BY <1>1, LookUpKeeps
<1>2. CASE \/ TakePhoto \/ RetakePhoto \/ CarryOn \/ NextStage
           \/ OpenBio \/ CloseBio \/ BackToFinger \/ BioNext \/ LidsOpen
  BY <1>2, RendersKeep
<1>3. CASE CaptureLiveness \/ Blink \/ DetectorFails
  BY <1>3, LivenessKeeps
<1>4. CASE Scan
  BY <1>4, ScanKeeps
<1>5. CASE ResetDesk \/ Reload
  BY <1>5, LeavingKeeps
<1>6. CASE LidsShut
  BY <1>6, LidsShutKeeps
<1>7. CASE Answer
  <2>1. PICK call \in calls :
          \/ LookupFound(call) \/ LookupRefused(call) \/ RecordShown(call)
          \/ LivenessFailed(call) \/ \E snapped \in BOOLEAN : LivenessPassed(call, snapped)
          \/ \E outcome \in {"ok", "miss", "error"} : FaceAnswered(call, outcome)
          \/ \E outcome \in {"pass", "fail", "idle"} : ScanAnswered(call, outcome)
          \/ SaveVerification(call) \/ SaveAnswered(call) \/ SaveFailed(call)
    BY <1>7 DEF Answer
  <2>2. CASE LookupFound(call) \/ LookupRefused(call) \/ RecordShown(call)
    BY <2>2, LookupFoundKeeps, LookupRefusedKeeps, RecordShownKeeps
  <2>3. CASE LivenessFailed(call) \/ \E snapped \in BOOLEAN : LivenessPassed(call, snapped)
    BY <2>3, LivenessAnswerKeeps
  <2>4. ASSUME NEW outcome \in {"ok", "miss", "error"}, FaceAnswered(call, outcome)
        PROVE  DeskInv'
    BY <2>4, FaceAnswerKeeps
  <2>5. ASSUME NEW outcome \in {"pass", "fail", "idle"}, ScanAnswered(call, outcome)
        PROVE  DeskInv'
    BY <2>5, ScanAnswerKeeps
  <2>6. CASE SaveVerification(call) \/ SaveAnswered(call) \/ SaveFailed(call)
    BY <2>6, SaveVerificationKeeps, SaveAnsweredKeeps, SaveFailedKeeps
  <2>7. QED
    BY <2>1, <2>2, <2>3, <2>4, <2>5, <2>6
<1>8. CASE UNCHANGED vars
  <2>1. /\ desk' = desk /\ screen' = screen /\ calls' \subseteq calls \cup {}
        /\ UNCHANGED <<rows, sessions, guide, orphaned>> /\ earned' = earned
    BY <1>8 DEF vars
  <2>2. SameSession /\ StageMoves /\ ScreenFits /\ Flags' \subseteq Flags /\ Checking({})
    BY <2>1 DEF SameSession, StageMoves, ScreenFits, Flags, Checking, DeskInv, DeskOK
  <2>3. Earns /\ FlagsFit'
    BY <2>1, <2>2, SameEarns, FlagsGrow
  <2>4. desk' \in Desks /\ screen' \in Screens
    BY <2>1, TypedDesk
  <2>5. QED
    BY <2>1, <2>2, <2>3, <2>4, SessionKeeps
<1>9. QED
  BY <1>1, <1>2, <1>3, <1>4, <1>5, <1>6, <1>7, <1>8 DEF Next, Operator

LEMMA DeskInvHolds == Spec => []DeskInv
<1>1. Init => DeskInv
  BY InitDesk
<1>2. DeskInv /\ [Next]_vars => DeskInv'
  BY NextDesk
<1>3. QED
  BY <1>1, <1>2, PTL DEF Spec

(* The desk, the screen, the rows and the history keep their types: the    *)
(* vid is the id of a row, and a key not handed out has no row.            *)
THEOREM DeskTypes == Spec => []DeskTypeOK
<1>1. DeskInv => DeskTypeOK
  BY DEF DeskInv
<1>2. QED
  BY <1>1, DeskInvHolds, PTL

(* A row says verified only if every modality on the file of its candidate *)
(* matched in the row's own session, whatever was retaken, carried on,     *)
(* lost and saved again, while no call outlived its candidate.             *)
THEOREM DeskVerdict == Spec => []VerdictEarned
<1>1. DeskInv => VerdictEarned
  BY DEF DeskInv
<1>2. QED
  BY <1>1, DeskInvHolds, PTL

(* The certificate names a candidate whose row is saved with the verdict   *)
(* it shows, while no call outlived its candidate.                         *)
THEOREM DeskCertificate == Spec => []CertificateTruthful
<1>1. DeskInv => CertificateTruthful
  BY DEF DeskInv, Loyal, LoyalDesk, CertificateTruthful
<1>2. QED
  BY <1>1, DeskInvHolds, PTL

-----------------------------------------------------------------------------
(* The way out.  Whatever makes the desk wait has a call in flight that    *)
(* ends it: nothing spins, stays disabled or hides its buttons for a call  *)
(* that was answered, lost or never made.                                  *)
Pending(kinds) == \E c \in calls : c.kind \in kinds
Capture == {"liveness", "face"}

AwaitsRecord(d) == d.stage = 0 /\ d.cand # NoCandidate
AwaitsCapture(d) == d.passing
AwaitsBlink(d) == d.detector = "blinked" /\ ~d.liveOK

Waiting ==
  /\ screen.searching => Pending(Entry)
  /\ screen.submitting => Pending(Saving)
  /\ AwaitsRecord(desk) => Pending({"record"})
  /\ AwaitsCapture(desk) => Pending(Capture)
  /\ AwaitsBlink(desk) => Pending({"liveness"})
  /\ desk.fp = "scanning" => Pending({"fp"})
  /\ desk.iris = "scanning" => Pending({"iris"})

(* A call the step leaves is pending after it.                             *)
LEMMA Asked ==
  ASSUME NEW call, NEW kinds, call.kind \in kinds, call \in calls'
  PROVE  Pending(kinds)'
  BY DEF Pending

(* A wait goes on when it was there before and the step answered nothing   *)
(* it waits for, or when the step itself leaves a call that ends it.       *)
WaitsOn(after, before, kinds, call) ==
  after => (before /\ call.kind \notin kinds) \/ Pending(kinds)'

LEMMA ShowWaits ==
  ASSUME Waiting, NEW d \in Desks, NEW s \in Screens, Show(d, s),
         NEW call, calls \ {call} \subseteq calls',
         WaitsOn(s.searching, screen.searching, Entry, call),
         WaitsOn(s.submitting, screen.submitting, Saving, call),
         WaitsOn(AwaitsRecord(d), AwaitsRecord(desk), {"record"}, call),
         WaitsOn(AwaitsCapture(d), AwaitsCapture(desk), Capture, call),
         WaitsOn(AwaitsBlink(d), AwaitsBlink(desk), {"liveness"}, call),
         WaitsOn(d.fp = "scanning", desk.fp = "scanning", {"fp"}, call),
         WaitsOn(d.iris = "scanning", desk.iris = "scanning", {"iris"}, call)
  PROVE  Waiting'
<1>1. desk' = d /\ screen'.searching = s.searching /\ screen'.submitting = s.submitting
  BY ShowKeeps
<1>2. ASSUME NEW kinds, call.kind \notin kinds, Pending(kinds)
      PROVE  Pending(kinds)'
  BY <1>2 DEF Pending
<1>3. QED
  BY <1>1, <1>2 DEF Waiting, WaitsOn

(* A step that answers nothing.                                            *)
LEMMA GrowWaits ==
  ASSUME Waiting, NEW d \in Desks, NEW s \in Screens, Show(d, s), calls \subseteq calls',
         \/ s.searching => screen.searching
         \/ Pending(Entry)',
         \/ s.submitting => screen.submitting
         \/ Pending(Saving)',
         AwaitsRecord(d) => AwaitsRecord(desk),
         \/ AwaitsCapture(d) => AwaitsCapture(desk)
         \/ Pending(Capture)',
         \/ AwaitsBlink(d) => AwaitsBlink(desk)
         \/ Pending({"liveness"})',
         \/ d.fp = "scanning" => desk.fp = "scanning"
         \/ Pending({"fp"})',
         \/ d.iris = "scanning" => desk.iris = "scanning"
         \/ Pending({"iris"})'
  PROVE  Waiting'
<1> DEFINE none == [kind |-> "none"]
<1>1. calls \ {none} \subseteq calls' /\ none.kind \notin Entry \cup Saving \cup Capture
      /\ none.kind \notin {"record", "liveness", "fp", "iris"}
  BY DEF Entry, Saving, Capture
<1> HIDE DEF none
<1>2. QED
  BY <1>1, ShowWaits DEF WaitsOn

(* A click that makes no call.                                             *)
LEMMA ClickWaits ==
  ASSUME Waiting, UNCHANGED calls, NEW d \in Desks, NEW s \in Screens, Show(d, s),
         s.searching => screen.searching, s.submitting => screen.submitting,
         AwaitsRecord(d) => AwaitsRecord(desk), AwaitsCapture(d) => AwaitsCapture(desk),
         AwaitsBlink(d) => AwaitsBlink(desk),
         d.fp = "scanning" => desk.fp = "scanning",
         d.iris = "scanning" => desk.iris = "scanning"
  PROVE  Waiting'
  BY GrowWaits

LEMMA ClicksWait ==
  ASSUME Waiting, DeskInv,
         \/ TakePhoto \/ RetakePhoto \/ CarryOn \/ NextStage
         \/ OpenBio \/ CloseBio \/ BackToFinger \/ BioNext \/ LidsOpen
         \/ ResetDesk \/ DetectorFails
  PROVE  Waiting'
<1>1. desk \in Desks /\ screen \in Screens /\ UNCHANGED calls
  BY TypedDesk DEF TakePhoto, RetakePhoto, CarryOn, NextStage, OpenBio, CloseBio,
       BackToFinger, BioNext, LidsOpen, ResetDesk, DetectorFails, Quiet
<1>2. ASSUME NEW s \in Screens, ShowScreen(s),
             s.searching = screen.searching, s.submitting = screen.submitting
      PROVE  Waiting'
  BY <1>1, <1>2, ClickWaits DEF ShowScreen
<1>3. ASSUME NEW d \in Desks, ShowDesk(d), ~AwaitsRecord(d), AwaitsCapture(d) => AwaitsCapture(desk),
             AwaitsBlink(d) => AwaitsBlink(desk),
             d.fp \in {"idle", desk.fp}, d.iris \in {"idle", desk.iris}
      PROVE  Waiting'
  BY <1>1, <1>3, ClickWaits DEF ShowDesk
<1>4. CASE TakePhoto
  <2> DEFINE d == [desk EXCEPT !.stage = 2]
  <2>1. d \in Desks /\ ~AwaitsRecord(d) /\ AwaitsCapture(d) = AwaitsCapture(desk) /\ AwaitsBlink(d) = AwaitsBlink(desk)
        /\ d.fp = desk.fp /\ d.iris = desk.iris
    BY <1>1 DEF Desks, AwaitsRecord, AwaitsCapture, AwaitsBlink
  <2>2. ShowDesk(d)
    BY <1>4 DEF TakePhoto
  <2>3. QED
    BY <1>3, <2>1, <2>2
<1>5. CASE RetakePhoto
  <2> DEFINE d == [NotLive(desk) EXCEPT !.face = "none"]
  <2>1. desk.stage = 2 /\ ShowDesk(d)
    BY <1>5 DEF RetakePhoto
  <2>2. d \in Desks /\ d.stage = 2 /\ d.passing = FALSE /\ d.detector = "off"
        /\ d.fp = desk.fp /\ d.iris = desk.iris
    BY <1>1, <2>1 DEF NotLive, Desks
  <2> HIDE DEF d
  <2>3. QED
    BY <1>3, <2>1, <2>2 DEF AwaitsRecord, AwaitsCapture, AwaitsBlink
<1>6. CASE CarryOn
  <2> DEFINE d == [desk EXCEPT !.passing = FALSE, !.passed = TRUE]
  <2>1. desk.stage = 2 /\ ShowDesk(d)
    BY <1>6 DEF CarryOn
  <2>2. d \in Desks /\ d.stage = 2 /\ d.passing = FALSE /\ d.detector = desk.detector
        /\ d.liveOK = desk.liveOK /\ d.fp = desk.fp /\ d.iris = desk.iris
    BY <1>1, <2>1 DEF Desks
  <2> HIDE DEF d
  <2>3. QED
    BY <1>3, <2>1, <2>2 DEF AwaitsRecord, AwaitsCapture, AwaitsBlink
<1>7. CASE NextStage
  <2> DEFINE d == [desk EXCEPT !.stage = IF NeedsBiometric(desk.cand) THEN 3 ELSE 4]
  <2>1. d \in Desks /\ ~AwaitsRecord(d) /\ AwaitsCapture(d) = AwaitsCapture(desk) /\ AwaitsBlink(d) = AwaitsBlink(desk)
        /\ d.fp = desk.fp /\ d.iris = desk.iris
    BY <1>1 DEF Desks, AwaitsRecord, AwaitsCapture, AwaitsBlink
  <2>2. ShowDesk(d)
    BY <1>7 DEF NextStage
  <2>3. QED
    BY <1>3, <2>1, <2>2
<1>8. CASE ResetDesk
  <2>1. EmptyDesk \in Desks /\ ~AwaitsRecord(EmptyDesk) /\ ~AwaitsCapture(EmptyDesk)
        /\ ~AwaitsBlink(EmptyDesk)
        /\ EmptyDesk.fp = "idle" /\ EmptyDesk.iris = "idle"
    BY DeskAssumption DEF EmptyDesk, Desks, Scans, AwaitsRecord, AwaitsCapture, AwaitsBlink
  <2>2. ShowDesk(EmptyDesk)
    BY <1>8 DEF ResetDesk
  <2>3. QED
    BY <1>3, <2>1, <2>2
<1>9. CASE OpenBio \/ CloseBio \/ BackToFinger \/ BioNext \/ LidsOpen
  <2>1. \E s \in Screens : /\ ShowScreen(s)
                           /\ s.searching = screen.searching
                           /\ s.submitting = screen.submitting
    <3> DEFINE Shown(s) == s \in Screens /\ ShowScreen(s) /\ s.searching = screen.searching
                           /\ s.submitting = screen.submitting
    <3>1. CASE OpenBio
      <4>1. Shown([screen EXCEPT !.open = TRUE])
        BY <1>1, <3>1 DEF OpenBio, Screens
      <4>2. QED
        BY <4>1
    <3>2. CASE CloseBio
      <4>1. Shown([screen EXCEPT !.open = FALSE])
        BY <1>1, <3>2 DEF CloseBio, Screens
      <4>2. QED
        BY <4>1
    <3>3. CASE BackToFinger
      <4>1. Shown([screen EXCEPT !.step = "fp"])
        BY <1>1, <3>3 DEF BackToFinger, Screens
      <4>2. QED
        BY <4>1
    <3>4. CASE BioNext
      <4>1. Shown([screen EXCEPT !.step = "iris"]) \/ Shown([screen EXCEPT !.lids = "closing"])
        BY <1>1, <3>4 DEF BioNext, Screens
      <4>2. QED
        BY <4>1
    <3>5. CASE LidsOpen
      <4>1. Shown([screen EXCEPT !.lids = "open"])
        BY <1>1, <3>5 DEF LidsOpen, Screens
      <4>2. QED
        BY <4>1
    <3>6. QED
      BY <1>9, <3>1, <3>2, <3>3, <3>4, <3>5
  <2>2. QED
    BY <1>2, <2>1
<1>10. CASE DetectorFails
  <2> DEFINE d == [desk EXCEPT !.detector = "failed"]
  <2>1. desk.stage = 2 /\ ShowDesk(d)
    BY <1>10 DEF DetectorFails, Watching
  <2>2. d \in Desks /\ d.stage = 2 /\ d.passing = desk.passing /\ d.detector = "failed"
        /\ d.fp = desk.fp /\ d.iris = desk.iris
    BY <1>1, <2>1 DEF Desks
  <2> HIDE DEF d
  <2>3. QED
    BY <1>3, <2>1, <2>2 DEF AwaitsRecord, AwaitsCapture, AwaitsBlink
<1>11. QED
  BY <1>4, <1>5, <1>6, <1>7, <1>8, <1>9, <1>10

(* The actions that leave a call: it ends the wait they begin.             *)
LEMMA AsksWait ==
  ASSUME Waiting, DeskInv,
         \/ \E c \in Candidates : LookUp(c)
         \/ CaptureLiveness \/ Blink \/ Scan \/ LidsShut
  PROVE  Waiting'
<1>1. desk \in Desks /\ screen \in Screens
  BY TypedDesk
<1>2. CASE \E c \in Candidates : LookUp(c)
  <2>1. PICK c \in Candidates : LookUp(c)
    BY <1>2
  <2> DEFINE s == [screen EXCEPT !.searching = TRUE]
             n == [kind |-> "lookup", cand |-> c]
  <2>2. Show(desk, s) /\ calls' = calls \cup {n} /\ s \in Screens
        /\ s.submitting = screen.submitting
    BY <1>1, <2>1 DEF LookUp, ShowScreen, Ask, Screens
  <2>3. Pending(Entry)'
    <3>1. n.kind \in Entry /\ n \in calls'
      BY <2>2 DEF Entry
    <3>2. QED
      BY <3>1, Asked
  <2> HIDE DEF s
  <2>4. QED
    BY <1>1, <2>2, <2>3, GrowWaits
<1>3. ASSUME NEW e \in Desks, CompleteLivenessPass(e),
             e.stage = desk.stage, e.cand = desk.cand, e.fp = desk.fp, e.iris = desk.iris
      PROVE  Waiting'
  <2> DEFINE d == [e EXCEPT !.passing = TRUE, !.face = "none"]
             n == [kind |-> "liveness", cand |-> desk.cand, key |-> desk.key]
  <2>1. Show(d, screen) /\ calls' = calls \cup {n} /\ d \in Desks
        /\ d.fp = desk.fp /\ d.iris = desk.iris
        /\ AwaitsRecord(d) = AwaitsRecord(desk)
    BY <1>1, <1>3 DEF CompleteLivenessPass, ShowDesk, Ask, Desks, AwaitsRecord
  <2>2. Pending(Capture)' /\ Pending({"liveness"})'
    <3>1. n.kind \in Capture /\ n.kind \in {"liveness"} /\ n \in calls'
      BY <2>1 DEF Capture
    <3> HIDE DEF n
    <3>2. QED
      BY <3>1, Asked
  <2> HIDE DEF d
  <2>3. QED
    BY <1>1, <2>1, <2>2, GrowWaits
<1>4. CASE CaptureLiveness
  <2> DEFINE d == [desk EXCEPT !.detector = IF @ = "off" THEN "armed" ELSE @]
  <2>1. CASE guide
    <3>1. Show(d, screen) /\ UNCHANGED calls
      BY <1>4, <2>1 DEF CaptureLiveness, ShowDesk, Quiet
    <3>2. d \in Desks /\ d.fp = desk.fp /\ d.iris = desk.iris
          /\ AwaitsRecord(d) = AwaitsRecord(desk) /\ AwaitsCapture(d) = AwaitsCapture(desk)
          /\ AwaitsBlink(d) = AwaitsBlink(desk)
      BY <1>1 DEF Desks, AwaitsRecord, AwaitsCapture, AwaitsBlink
    <3> HIDE DEF d
    <3>3. QED
      BY <1>1, <3>1, <3>2, ClickWaits
  <2>2. CASE CompleteLivenessPass(desk)
    BY <1>1, <1>3, <2>2
  <2>3. QED
    BY <1>4, <2>1, <2>2 DEF CaptureLiveness
<1>7. CASE Blink
  <2> DEFINE e == [desk EXCEPT !.detector = "blinked"]
  <2>1. CompleteLivenessPass(e)
    BY <1>7 DEF Blink
  <2>2. e \in Desks /\ e.stage = desk.stage /\ e.cand = desk.cand
        /\ e.fp = desk.fp /\ e.iris = desk.iris
    BY <1>1 DEF Desks
  <2> HIDE DEF e
  <2>3. QED
    BY <1>3, <2>1, <2>2
<1>5. CASE Scan
  <2> DEFINE d == SetBio(screen.step, "scanning")
             n == [kind |-> screen.step, cand |-> desk.cand, key |-> desk.key]
  <2>1. Show(d, screen) /\ calls' = calls \cup {n}
    BY <1>5 DEF Scan, ShowDesk, Ask
  <2>2. d \in Desks /\ AwaitsRecord(d) = AwaitsRecord(desk)
        /\ AwaitsCapture(d) = AwaitsCapture(desk) /\ AwaitsBlink(d) = AwaitsBlink(desk)
        /\ \/ screen.step = "fp" /\ d.iris = desk.iris
           \/ screen.step = "iris" /\ d.fp = desk.fp
    BY <1>1 DEF SetBio, Desks, Screens, Scans, AwaitsRecord, AwaitsCapture, AwaitsBlink
  <2>3. /\ screen.step = "fp" => Pending({"fp"})'
        /\ screen.step = "iris" => Pending({"iris"})'
    <3>1. n.kind = screen.step /\ n \in calls'
      BY <2>1
    <3> HIDE DEF n
    <3>2. QED
      BY <3>1, Asked
  <2> HIDE DEF d
  <2>4. QED
    <3>1. \/ d.fp = desk.fp /\ d.iris = desk.iris
          \/ d.fp = desk.fp /\ Pending({"iris"})'
          \/ d.iris = desk.iris /\ Pending({"fp"})'
      BY <2>2, <2>3
    <3>2. QED
      BY <1>1, <2>1, <2>2, <3>1, GrowWaits
<1>6. CASE LidsShut
  <2>1. CASE desk.stage # 4 /\ ~screen.submitting
    <3> DEFINE d == [desk EXCEPT !.result = "none"]
               s == [screen EXCEPT !.lids = "shut", !.submitting = TRUE]
    <3>1. Show(d, s) /\ calls' = calls \cup {Submission}
      BY <1>6, <2>1 DEF LidsShut, Ask
    <3>2. d \in Desks /\ s \in Screens /\ s.searching = screen.searching
          /\ AwaitsRecord(d) = AwaitsRecord(desk) /\ AwaitsCapture(d) = AwaitsCapture(desk) /\ AwaitsBlink(d) = AwaitsBlink(desk)
          /\ d.fp = desk.fp /\ d.iris = desk.iris
      BY <1>1 DEF Desks, Screens, AwaitsRecord, AwaitsCapture, AwaitsBlink
    <3>3. Pending(Saving)'
      <4>1. Submission.kind \in Saving /\ Submission \in calls'
        BY <3>1 DEF Saving, Submission
      <4>2. QED
        BY <4>1, Asked
    <3> HIDE DEF d, s
    <3>4. QED
      BY <3>1, <3>2, <3>3, GrowWaits
  <2>2. CASE ~(desk.stage # 4 /\ ~screen.submitting)
    <3> DEFINE s == [screen EXCEPT !.lids = "shut"]
    <3>1. Show(desk, s) /\ UNCHANGED calls
      BY <1>6, <2>2 DEF LidsShut, ShowScreen
    <3>2. s \in Screens /\ s.searching = screen.searching /\ s.submitting = screen.submitting
      BY <1>1 DEF Screens
    <3> HIDE DEF s
    <3>3. QED
      BY <1>1, <3>1, <3>2, ClickWaits
  <2>3. QED
    BY <2>1, <2>2
<1>8. QED
  BY <1>2, <1>4, <1>5, <1>6, <1>7

(* The answers: each ends the wait for the call it takes away, or leaves   *)
(* the call the desk waits for next.                                       *)
LEMMA LookupAnswersWait ==
  ASSUME Waiting, DeskInv, NEW call \in calls,
         LookupFound(call) \/ LookupRefused(call) \/ RecordShown(call)
  PROVE  Waiting'
<1>1. /\ desk \in Desks /\ screen \in Screens /\ call.kind \in Entry
      /\ calls \ {call} \subseteq calls'
  BY TypedDesk DEF LookupFound, LookupRefused, RecordShown, Entry
<1>2. /\ call.kind \notin Saving /\ call.kind \notin Capture
      /\ call.kind \notin {"fp", "iris"} /\ call.kind # "liveness"
  BY <1>1 DEF Entry, Saving, Capture
<1>3. CASE LookupFound(call)
  <2> DEFINE d == [desk EXCEPT !.cand = call.cand, !.key = sessions + 1]
             n == [kind |-> "record", cand |-> call.cand]
  <2>1. Show(d, screen) /\ n \in calls' /\ sessions < MaxSessions
    BY <1>3 DEF LookupFound, ShowDesk
  <2>2. call.cand \in Candidates
    BY <1>1 DEF DeskInv, CallsOK, CallOK
  <2>3. d \in Desks
    <3>1. sessions + 1 \in 0..MaxSessions
      BY <2>1, TypedDesk, DeskAssumption
    <3>2. QED
      BY <1>1, <2>2, <3>1 DEF Desks
  <2>4. AwaitsCapture(d) = AwaitsCapture(desk) /\ AwaitsBlink(d) = AwaitsBlink(desk) /\ d.fp = desk.fp /\ d.iris = desk.iris
    BY <1>1 DEF Desks, AwaitsCapture, AwaitsBlink
  <2>5. Pending(Entry)' /\ Pending({"record"})'
    BY <2>1, Asked DEF Entry
  <2> HIDE DEF d
  <2>6. QED
    BY <1>1, <1>2, <2>1, <2>3, <2>4, <2>5, ShowWaits DEF WaitsOn
<1>4. CASE LookupRefused(call)
  <2> DEFINE d == [desk EXCEPT !.cand = NoCandidate]
             s == [screen EXCEPT !.searching = FALSE]
  <2>1. Show(d, s)
    BY <1>4 DEF LookupRefused
  <2>2. d \in Desks /\ ~AwaitsRecord(d) /\ AwaitsCapture(d) = AwaitsCapture(desk) /\ AwaitsBlink(d) = AwaitsBlink(desk)
        /\ d.fp = desk.fp /\ d.iris = desk.iris
    BY <1>1 DEF Desks, AwaitsRecord, AwaitsCapture, AwaitsBlink
  <2>3. s \in Screens /\ s.searching = FALSE /\ s.submitting = screen.submitting
    BY <1>1 DEF Screens
  <2> HIDE DEF d, s
  <2>4. QED
    BY <1>1, <1>2, <2>1, <2>2, <2>3, ShowWaits DEF WaitsOn
<1>5. CASE RecordShown(call)
  <2> DEFINE d == [desk EXCEPT !.stage = 1]
             s == [screen EXCEPT !.searching = FALSE]
  <2>1. Show(d, s)
    BY <1>5 DEF RecordShown
  <2>2. d \in Desks /\ ~AwaitsRecord(d) /\ AwaitsCapture(d) = AwaitsCapture(desk) /\ AwaitsBlink(d) = AwaitsBlink(desk)
        /\ d.fp = desk.fp /\ d.iris = desk.iris
    BY <1>1 DEF Desks, AwaitsRecord, AwaitsCapture, AwaitsBlink
  <2>3. s \in Screens /\ s.searching = FALSE /\ s.submitting = screen.submitting
    BY <1>1 DEF Screens
  <2> HIDE DEF d, s
  <2>4. QED
    BY <1>1, <1>2, <2>1, <2>2, <2>3, ShowWaits DEF WaitsOn
<1>6. QED
  BY <1>3, <1>4, <1>5

(* An answer about the capture leaves the desk waiting for nothing, or for *)
(* the face match it has asked for.                                        *)
LEMMA CaptureAnswersWait ==
  ASSUME Waiting, DeskInv, NEW call \in calls,
         \/ LivenessFailed(call) \/ \E snapped \in BOOLEAN : LivenessPassed(call, snapped)
         \/ \E outcome \in {"ok", "miss", "error"} : FaceAnswered(call, outcome)
  PROVE  Waiting'
<1>1. /\ desk \in Desks /\ screen \in Screens /\ call.kind \in Capture
      /\ calls \ {call} \subseteq calls'
  BY TypedDesk DEF LivenessFailed, LivenessPassed, FaceAnswered, Capture
<1>2. call.kind \notin Entry /\ call.kind \notin Saving
      /\ call.kind \notin {"record", "fp", "iris"}
  BY <1>1 DEF Entry, Saving, Capture
<1>3. ASSUME NEW d \in Desks, Show(d, screen), d.stage = desk.stage, d.cand = desk.cand,
             d.fp = desk.fp, d.iris = desk.iris, ~AwaitsCapture(d) \/ Pending(Capture)',
             ~AwaitsBlink(d) \/ (call.kind # "liveness" /\ AwaitsBlink(desk))
      PROVE  Waiting'
  <2>1. AwaitsRecord(d) = AwaitsRecord(desk)
    BY <1>3 DEF AwaitsRecord
  <2>2. QED
    BY <1>1, <1>2, <1>3, <2>1, ShowWaits DEF WaitsOn
<1>4. CASE LivenessFailed(call)
  <2> DEFINE d == NotLive(desk)
  <2>1. Show(d, screen)
    BY <1>4 DEF LivenessFailed, ShowDesk
  <2>2. d \in Desks /\ d.stage = desk.stage /\ d.cand = desk.cand /\ d.fp = desk.fp
        /\ d.iris = desk.iris /\ d.passing = FALSE /\ d.detector = "off"
    BY <1>1 DEF NotLive, Desks
  <2> HIDE DEF d
  <2>3. QED
    BY <1>3, <2>1, <2>2 DEF AwaitsCapture, AwaitsBlink
<1>5. CASE LivenessPassed(call, TRUE) /\ "face" \in OnFile(call.cand)
  <2> DEFINE d == [desk EXCEPT !.liveOK = TRUE]
             n == [kind |-> "face", cand |-> call.cand, key |-> call.key]
  <2>1. Show(d, screen) /\ n \in calls'
    BY <1>5 DEF LivenessPassed, ShowDesk
  <2>2. d \in Desks /\ d.stage = desk.stage /\ d.cand = desk.cand /\ d.fp = desk.fp
        /\ d.iris = desk.iris /\ d.liveOK = TRUE
    BY <1>1 DEF Desks
  <2>3. Pending(Capture)'
    BY <2>1, Asked DEF Capture
  <2> HIDE DEF d
  <2>4. QED
    BY <1>3, <2>1, <2>2, <2>3 DEF AwaitsBlink
<1>6. ASSUME NEW snapped \in BOOLEAN, LivenessPassed(call, snapped),
             ~snapped \/ "face" \notin OnFile(call.cand)
      PROVE  Waiting'
  <2>1. PICK d \in Desks :
           /\ Show(d, screen)
           /\ d.stage = desk.stage /\ d.cand = desk.cand /\ d.fp = desk.fp
           /\ d.iris = desk.iris /\ d.passing = FALSE /\ d.liveOK = TRUE
    <3> DEFINE unseen == [desk EXCEPT !.liveOK = TRUE, !.passing = FALSE, !.passed = FALSE]
               noFace == [desk EXCEPT !.liveOK = TRUE, !.face = "ok", !.passing = FALSE,
                                      !.passed = TRUE]
    <3>1. Show(unseen, screen) \/ Show(noFace, screen)
      BY <1>6 DEF LivenessPassed, ShowDesk
    <3>2. ASSUME NEW d \in {unseen, noFace}
          PROVE  /\ d \in Desks /\ d.stage = desk.stage /\ d.cand = desk.cand
                 /\ d.fp = desk.fp /\ d.iris = desk.iris /\ d.passing = FALSE /\ d.liveOK = TRUE
      BY <1>1, <3>2 DEF Desks
    <3> HIDE DEF unseen, noFace
    <3>3. QED
      BY <3>1, <3>2
  <2>2. QED
    BY <1>3, <2>1 DEF AwaitsCapture, AwaitsBlink
<1>7. ASSUME NEW outcome \in {"ok", "miss", "error"}, FaceAnswered(call, outcome)
      PROVE  Waiting'
  <2> DEFINE d == [desk EXCEPT !.face = outcome, !.passing = FALSE,
                               !.passed = outcome = "ok"]
  <2>1. Show(d, screen)
    BY <1>7 DEF FaceAnswered, ShowDesk
  <2>2. d \in Desks /\ d.stage = desk.stage /\ d.cand = desk.cand /\ d.fp = desk.fp
        /\ d.iris = desk.iris /\ d.passing = FALSE /\ d.detector = desk.detector
        /\ d.liveOK = desk.liveOK /\ call.kind = "face"
    BY <1>1, <1>7 DEF Desks, FaceAnswered
  <2> HIDE DEF d
  <2>3. QED
    BY <1>3, <2>1, <2>2 DEF AwaitsCapture, AwaitsBlink
<1>8. QED
  <2>1. ASSUME NEW snapped \in BOOLEAN, LivenessPassed(call, snapped)
        PROVE  Waiting'
    BY <1>5, <1>6, <2>1
  <2>2. QED
    BY <1>4, <1>7, <2>1

LEMMA OtherAnswersWait ==
  ASSUME Waiting, DeskInv, NEW call \in calls,
         \/ \E outcome \in {"pass", "fail", "idle"} : ScanAnswered(call, outcome)
         \/ SaveVerification(call) \/ SaveAnswered(call) \/ SaveFailed(call)
  PROVE  Waiting'
<1>1. /\ desk \in Desks /\ screen \in Screens
      /\ calls \ {call} \subseteq calls'
  BY TypedDesk DEF ScanAnswered, SaveVerification, SaveAnswered, SaveFailed
<1>2. ASSUME NEW outcome \in {"pass", "fail", "idle"}, ScanAnswered(call, outcome)
      PROVE  Waiting'
  <2> DEFINE d == SetBio(call.kind, outcome)
  <2>1. Show(d, screen) /\ call.kind \in {"fp", "iris"}
    BY <1>2 DEF ScanAnswered, ShowDesk
  <2>2. d \in Desks /\ AwaitsRecord(d) = AwaitsRecord(desk)
        /\ AwaitsCapture(d) = AwaitsCapture(desk) /\ AwaitsBlink(d) = AwaitsBlink(desk)
    BY <1>1, <2>1 DEF SetBio, Desks, Scans, AwaitsRecord, AwaitsCapture, AwaitsBlink
  <2>3. \/ call.kind = "fp" /\ d.fp # "scanning" /\ d.iris = desk.iris
        \/ call.kind = "iris" /\ d.iris # "scanning" /\ d.fp = desk.fp
    BY <1>1, <2>1 DEF SetBio, Desks
  <2>4. call.kind \notin Entry /\ call.kind \notin Saving /\ call.kind \notin Capture
        /\ call.kind # "record" /\ call.kind # "liveness"
    BY <2>1 DEF Entry, Saving, Capture
  <2> HIDE DEF d
  <2>5. QED
    BY <1>1, <2>1, <2>2, <2>3, <2>4, ShowWaits DEF WaitsOn
<1>3. ASSUME call.kind \in Saving
      PROVE  call.kind \notin Entry /\ call.kind \notin Capture
             /\ call.kind \notin {"record", "liveness", "fp", "iris"}
  BY <1>3 DEF Entry, Saving, Capture
<1>4. CASE SaveVerification(call)
  <2> DEFINE n == [kind |-> "saved", row |-> RowId(call), status |-> SavedRow(call).status]
  <2>1. desk' = desk /\ screen' = screen /\ n \in calls' /\ call.kind \in Saving
    BY <1>4 DEF SaveVerification, Saving
  <2>2. Pending(Saving)'
    BY <2>1, Asked DEF Saving
  <2>3. ASSUME NEW kinds, call.kind \notin kinds, Pending(kinds)
        PROVE  Pending(kinds)'
    BY <1>1, <2>3 DEF Pending
  <2>4. QED
    BY <1>3, <2>1, <2>2, <2>3 DEF Waiting
<1>5. ASSUME NEW d \in Desks, NEW s \in Screens, Show(d, s), call.kind \in Saving,
             d.stage = desk.stage \/ d.stage = 4, d.cand = desk.cand,
             AwaitsCapture(d) = AwaitsCapture(desk) /\ AwaitsBlink(d) = AwaitsBlink(desk), d.fp = desk.fp, d.iris = desk.iris,
             s.searching = screen.searching, s.submitting = FALSE
      PROVE  Waiting'
  <2>1. AwaitsRecord(d) => AwaitsRecord(desk)
    BY <1>5 DEF AwaitsRecord
  <2>2. QED
    BY <1>1, <1>3, <1>5, <2>1, ShowWaits DEF WaitsOn
<1>6. CASE SaveAnswered(call)
  <2> DEFINE d == [desk EXCEPT !.vid = call.row, !.result = call.status, !.stage = 4]
             s == [screen EXCEPT !.submitting = FALSE]
  <2>1. Show(d, s) /\ call.kind = "saved"
    BY <1>6 DEF SaveAnswered
  <2>2. call.row \in 0..MaxSessions /\ call.status \in Verdicts
    BY <2>1, DeskAssumption DEF DeskInv, CallsOK, CallOK, Saving
  <2>3. d \in Desks /\ d.stage = 4 /\ d.cand = desk.cand /\ d.fp = desk.fp
        /\ d.iris = desk.iris /\ d.liveOK = desk.liveOK /\ d.passing = desk.passing
        /\ d.detector = desk.detector
    BY <1>1, <2>2, AnswerTyped DEF Desks
  <2>4. s \in Screens /\ s.searching = screen.searching /\ s.submitting = FALSE
    BY <1>1 DEF Screens
  <2> HIDE DEF d, s
  <2>5. QED
    BY <1>5, <2>1, <2>3, <2>4 DEF Saving, AwaitsCapture, AwaitsBlink
<1>7. CASE SaveFailed(call)
  <2> DEFINE s == [screen EXCEPT !.submitting = FALSE]
  <2>1. Show(desk, s) /\ call.kind \in Saving
    BY <1>7 DEF SaveFailed, ShowScreen, Saving
  <2>2. s \in Screens /\ s.searching = screen.searching /\ s.submitting = FALSE
    BY <1>1 DEF Screens
  <2> HIDE DEF s
  <2>3. QED
    BY <1>1, <1>5, <2>1, <2>2
<1>8. QED
  BY <1>2, <1>4, <1>6, <1>7

LEMMA NextWaiting == DeskInv /\ Waiting /\ [Next]_vars => Waiting'
<1> SUFFICES ASSUME DeskInv, Waiting, [Next]_vars
             PROVE  Waiting'
  OBVIOUS
<1>1. CASE Operator \/ Blink \/ DetectorFails \/ LidsShut \/ LidsOpen
  BY <1>1, ClicksWait, AsksWait DEF Operator
<1>2. CASE Answer
  BY <1>2, LookupAnswersWait, CaptureAnswersWait, OtherAnswersWait DEF Answer
<1>3. CASE Reload
  <2>1. desk' = EmptyDesk /\ screen' = FirstScreen
    BY <1>3 DEF Reload
  <2>2. QED
    BY <2>1 DEF Waiting, AwaitsRecord, AwaitsCapture, AwaitsBlink, EmptyDesk, FirstScreen
<1>4. CASE UNCHANGED vars
  BY <1>4 DEF vars, Waiting, Pending
<1>5. QED
  BY <1>1, <1>2, <1>3, <1>4 DEF Next

LEMMA WaitingHolds == Spec => [](DeskInv /\ Waiting)
<1>1. Init => Waiting
  BY DEF Init, EmptyDesk, FirstScreen, Waiting, AwaitsRecord, AwaitsCapture, AwaitsBlink
<1>2. Init => DeskInv /\ Waiting
  BY <1>1, InitDesk
<1>3. DeskInv /\ Waiting /\ [Next]_vars => (DeskInv /\ Waiting)'
  BY NextDesk, NextWaiting
<1>4. QED
  BY <1>2, <1>3, PTL DEF Spec

(* Nothing waits in vain: the search button, the save, the capture's own   *)
(* button and each scan are disabled only while a call is in flight whose  *)
(* answer enables them, even if the desk was cleared in between.           *)
THEOREM DeskWaits == Spec => []Waiting
  BY WaitingHolds, PTL

(* The controls that change something whenever the page lets the operator  *)
(* reach them, and the blink the armed detector waits for.                 *)
WayOut ==
  \/ MayLookUp \/ MayReset \/ MayCarryOn \/ MayMoveOn
  \/ MayCapture /\ ~(guide /\ desk.detector # "off")
  \/ MayBlink
  \/ MayScan \/ MayMovePast

LEMMA IdleHasWayOut ==
  ASSUME DeskInv, Waiting, calls = {}, screen.lids = "open", ~StuckInCapture
  PROVE  WayOut
<1>1. \A kinds : ~Pending(kinds)
  BY DEF Pending
<1>2. /\ ~screen.searching /\ ~AwaitsRecord(desk) /\ ~AwaitsCapture(desk)
      /\ ~AwaitsBlink(desk) /\ desk.fp # "scanning" /\ desk.iris # "scanning"
  BY <1>1 DEF Waiting
<1>3. desk \in Desks /\ (screen.open => desk.stage = 3)
  BY TypedDesk DEF DeskInv, DeskOK
<1>4. CASE desk.stage = 0
  BY <1>2, <1>4 DEF WayOut, AwaitsRecord, Clickable
<1>5. CASE desk.stage \in {1, 3, 4} /\ ~screen.open
  BY <1>5 DEF WayOut, Clickable
<1>6. CASE screen.open
  BY <1>2, <1>6 DEF WayOut, Clickable, Bio
<1>7. CASE desk.stage = 2
  <2>1. CASE ShowRetake \/ desk.passed
    BY <1>7, <2>1 DEF WayOut, Clickable, ShowRetake
  <2>2. CASE ~ShowRetake /\ ~desk.passed /\ ~(guide /\ desk.detector # "off")
    BY <1>2, <1>7, <2>2 DEF WayOut, Clickable, AwaitsCapture
  <2>3. CASE ~ShowRetake /\ ~desk.passed /\ guide /\ desk.detector # "off"
    <3>1. ~desk.liveOK /\ desk.detector # "failed"
      BY <1>3, <1>7, <2>3 DEF ShowRetake, StuckInCapture, DetectorLost, NoDecision, Desks
    <3>2. desk.detector = "armed"
      BY <1>2, <1>3, <2>3, <3>1 DEF AwaitsBlink, Desks
    <3>3. QED
      BY <1>7, <2>3, <3>1, <3>2 DEF WayOut, Watching
  <2>4. QED
    BY <2>1, <2>2, <2>3
<1>8. QED
  BY <1>3, <1>4, <1>5, <1>6, <1>7 DEF Desks

(* A fail is never a dead end: with every call answered and the lids up,   *)
(* some control that changes something is there for the operator, or the   *)
(* detector waits for a blink -- except in the full-screen capture, after  *)
(* the detector has reported an error or a passed check has been followed  *)
(* by no decision about the face.                                          *)
THEOREM DeskWayOut ==
  Spec => [](calls = {} /\ screen.lids = "open" /\ ~StuckInCapture => WayOut)
<1>1. DeskInv /\ Waiting => (calls = {} /\ screen.lids = "open" /\ ~StuckInCapture
                               => WayOut)
  BY IdleHasWayOut
<1>2. QED
  BY <1>1, WaitingHolds, PTL
=============================================================================
