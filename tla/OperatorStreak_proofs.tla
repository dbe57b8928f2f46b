----------------------- MODULE OperatorStreak_proofs -----------------------
(***************************************************************************)
(* Proofs about OperatorStreak, for any number of operators, requests and  *)
(* keys and any threshold.                                                 *)
(*                                                                         *)
(* LockoutOnRecord is not inductive: a request that has read the streak    *)
(* writes it later, whatever happened in between.  What is inductive is    *)
(* that each denial on record pays for one unit of the streak, either one  *)
(* already counted or one a request under way has yet to count.            *)
(***************************************************************************)
EXTENDS OperatorStreak, FiniteSetTheorems, TLAPS

(* A slot is unused or works for an operator.                              *)
Placed == \A r \in Requests : call[r] # Idle => call[r].stage # "idle" /\ Who(r) \in Operators

Below == \A o \in Operators : lock[o] = "enabled" => denials[o] < Threshold

KeysUnique ==
  \A i, j \in 1..Len(verifications) :
    verifications[i].key = verifications[j].key /\ verifications[i].key # NoKey => i = j

AnswersOnRecord ==
  \A x \in answers :
    /\ x[3] \in 1..Len(verifications)
    /\ verifications[x[3]].key = x[2]
    /\ verifications[x[3]].operator = x[1]

(* The requests that have recorded a denial of o and not counted it yet.   *)
Pending(o) ==
  {r \in Requests :
     /\ Who(r) = o
     /\ call[r].stage = "write" \/ (call[r].stage = "bump" /\ call[r].verdict = "denied")}

Counted(o) ==
  /\ denials[o] + Cardinality(Pending(o)) <= Cardinality(Denied(o))
  /\ \A r \in Requests : call[r].stage = "write" /\ Who(r) = o =>
       call[r].oldStreak + Cardinality(Pending(o)) <= Cardinality(Denied(o))
  /\ lock[o] = "auto_streak" => Cardinality(Denied(o)) >= Threshold

AllCounted == \A o \in Operators : Counted(o)

StreakInv ==
  StreakTypeOK /\ Placed /\ Below /\ KeysUnique /\ AnswersOnRecord /\ AllCounted

---------------------------------------------------------------------------
LEMMA FinitePending ==
  ASSUME NEW o
  PROVE  IsFiniteSet(Pending(o)) /\ Cardinality(Pending(o)) \in Nat
<1>1. Pending(o) \in SUBSET Requests /\ IsFiniteSet(Requests)
  BY StreakAssumption DEF Pending
<1> QED BY <1>1, FS_Subset, FS_CardinalityType

LEMMA FiniteDenied ==
  ASSUME StreakTypeOK, NEW o
  PROVE  IsFiniteSet(Denied(o)) /\ Cardinality(Denied(o)) \in Nat
<1>1. Len(verifications) \in Nat
  BY DEF StreakTypeOK
<1>2. IsFiniteSet(1..Len(verifications))
  BY <1>1, FS_Interval
<1>3. Denied(o) \in SUBSET (1..Len(verifications))
  BY DEF Denied, RowsOf
<1> QED BY <1>2, <1>3, FS_Subset, FS_CardinalityType

(* After a step that leaves the rows' verdicts alone and adds nothing to   *)
(* Pending, there are no more pending denials than before.                 *)
LEMMA PendingShrinks ==
  ASSUME NEW o, Pending(o)' \subseteq Pending(o)
  PROVE  Cardinality(Pending(o)') \in Nat /\ Cardinality(Pending(o)') <= Cardinality(Pending(o))
BY FinitePending, FS_Subset, FS_CardinalityType

---------------------------------------------------------------------------
(* Types, the operator of a slot, and an enabled account's streak.         *)
LEMMA SlotStep ==
  ASSUME StreakTypeOK, Placed, Below, NEW r \in Requests,
         NEW c \in Calls, c # Idle => c.stage # "idle" /\ c.operator \in Operators,
         call' = [call EXCEPT ![r] = c]
  PROVE  call' \in [Requests -> Calls] /\ Placed'
BY DEF StreakTypeOK, Placed, Who

LEMMA IdleSlot == Idle \in Calls /\ Idle.stage = "idle"
BY StreakAssumption DEF Idle, Calls, Stages, Verdicts

(* A slot that moves on keeps its operator.                                *)
LEMMA GotoStep ==
  ASSUME StreakTypeOK, Placed, Below, NEW r \in Requests, call[r].stage # "idle",
         NEW stage \in Stages \ {"idle"}, Goto(r, stage) \/ Finish(r)
  PROVE  call' \in [Requests -> Calls] /\ Placed'
<1>1. CASE Goto(r, stage)
  <2> DEFINE c == [call[r] EXCEPT !.stage = stage]
  <2>1. call[r] \in Calls /\ call[r].operator \in Operators
    BY IdleSlot DEF StreakTypeOK, Placed, Who
  <2>2. c \in Calls /\ c.stage # "idle" /\ c.operator \in Operators
    BY <2>1 DEF Calls
  <2>3. call' = [call EXCEPT ![r] = c]
    BY <1>1 DEF Goto
  <2> HIDE DEF c
  <2> QED BY <2>2, <2>3, SlotStep
<1>2. CASE Finish(r)
  BY <1>2, IdleSlot, SlotStep DEF Finish
<1> QED BY <1>1, <1>2

LEMMA TypeStep ==
  ASSUME StreakTypeOK, Placed, Below, [Next]_vars
  PROVE  (StreakTypeOK /\ Placed /\ Below)'
<1> DEFINE Goal == StreakTypeOK /\ Placed /\ Below
<1>1. ASSUME NEW r \in Requests, NEW o \in Operators, NEW k \in Keys \cup {NoKey},
             NEW v \in Verdicts, Arrive(r, o, k, v)
      PROVE  Goal'
  <2> DEFINE c == [Idle EXCEPT !.stage = IF k = NoKey THEN "insert" ELSE "find",
                     !.operator = o, !.key = k, !.verdict = v]
  <2>1. c \in Calls /\ c.stage # "idle" /\ c.operator \in Operators
    <3>1. Idle \in Calls
      BY IdleSlot
    <3>2. CASE k = NoKey
      BY <3>1, <3>2 DEF Calls, Stages
    <3>3. CASE k # NoKey
      BY <3>1, <3>3 DEF Calls, Stages
    <3> QED BY <3>2, <3>3
  <2>2. call' = [call EXCEPT ![r] = c]
    BY <1>1 DEF Arrive
  <2> HIDE DEF c
  <2>3. call' \in [Requests -> Calls] /\ Placed'
    BY <2>1, <2>2, SlotStep
  <2>4. overlapped' \subseteq Operators
    BY <1>1 DEF Arrive, StreakTypeOK
  <2> QED BY <1>1, <2>3, <2>4 DEF Arrive, users, StreakTypeOK, Below
<1>2. ASSUME NEW r \in Requests, FindByIdempotencyKey(r) \/ FindAgain(r)
      PROVE  Goal'
  <2>1. Goto(r, "insert") \/ Finish(r)
    BY <1>2 DEF FindByIdempotencyKey, FindAgain, Replay
  <2>2. call[r].stage # "idle" /\ "insert" \in Stages
    BY <1>2 DEF FindByIdempotencyKey, FindAgain, Stages
  <2>3. call' \in [Requests -> Calls] /\ Placed'
    BY <2>1, <2>2, GotoStep
  <2>4. ASSUME NEW i \in Own(r)
        PROVE  <<Who(r), call[r].key, i>> \in Operators \X Keys \X (Nat \ {0})
    BY <2>2, <2>4, IdleSlot DEF Own, Taken, StreakTypeOK, Placed, Calls, Who
  <2>5. answers' \subseteq Operators \X Keys \X (Nat \ {0})
    BY <1>2, <2>4 DEF FindByIdempotencyKey, FindAgain, Replay, StreakTypeOK
  <2> QED
    BY <1>2, <2>3, <2>5 DEF FindByIdempotencyKey, FindAgain, users, StreakTypeOK, Below
<1>3. ASSUME NEW r \in Requests, InsertVerification(r)
      PROVE  Goal'
  <2>1. call[r].stage # "idle" /\ "bump" \in Stages /\ "refind" \in Stages
    BY <1>3 DEF InsertVerification, Stages
  <2>2. call' \in [Requests -> Calls] /\ Placed'
    BY <1>3, <2>1, GotoStep DEF InsertVerification
  <2>3. Who(r) \in Operators /\ call[r] \in Calls
    BY <2>1, IdleSlot DEF StreakTypeOK, Placed
  <2>4. CASE Taken(r) # {}
    BY <1>3, <2>2, <2>4 DEF InsertVerification, users, StreakTypeOK, Below
  <2>5. CASE Taken(r) = {}
    <3> DEFINE row == [operator |-> Who(r), key |-> call[r].key,
                       verdict |-> call[r].verdict, status |-> call[r].verdict]
    <3>1. row \in Verification
      BY <2>3 DEF Verification, Calls
    <3>2. verifications' = Append(verifications, row)
      BY <1>3, <2>5 DEF InsertVerification
    <3> HIDE DEF row
    <3>3. verifications' \in Seq(Verification) /\ Len(verifications') \in Nat \ {0}
      BY <3>1, <3>2 DEF StreakTypeOK
    <3>4. answers' \subseteq Operators \X Keys \X (Nat \ {0})
      BY <1>3, <2>3, <2>5, <3>3 DEF InsertVerification, StreakTypeOK, Calls
    <3> QED BY <1>3, <2>2, <3>3, <3>4 DEF InsertVerification, users, StreakTypeOK, Below
  <2> QED BY <2>4, <2>5
<1>4. ASSUME NEW r \in Requests, ResetStreak(r)
      PROVE  Goal'
  <2>1. call' \in [Requests -> Calls] /\ Placed'
    BY <1>4, GotoStep DEF ResetStreak, Stages
  <2>2. Who(r) \in Operators
    BY <1>4, IdleSlot DEF ResetStreak, Placed
  <2>3. denials' \in [Operators -> 0..Threshold] /\ Below'
    BY <1>4, <2>2, StreakAssumption DEF ResetStreak, StreakTypeOK, Below
  <2> QED BY <1>4, <2>1, <2>3 DEF ResetStreak, history, StreakTypeOK
<1>5. ASSUME NEW r \in Requests, ReadStreak(r)
      PROVE  Goal'
  <2> DEFINE c == [call[r] EXCEPT !.stage = "write", !.oldStreak = denials[Who(r)]]
  <2>1. call[r].stage # "idle" /\ "write" \in Stages
    BY <1>5 DEF ReadStreak, Stages
  <2>2. call[r] \in Calls /\ call[r].operator \in Operators
    BY <2>1, IdleSlot DEF StreakTypeOK, Placed, Who
  <2>3. CASE lock[Who(r)] = "enabled"
    <3>1. denials[Who(r)] \in 0..Threshold - 1
      BY <2>2, <2>3, StreakAssumption DEF StreakTypeOK, Below, Who
    <3>2. c \in Calls /\ c.stage # "idle" /\ c.operator \in Operators
      BY <2>1, <2>2, <3>1 DEF Calls
    <3>3. call' = [call EXCEPT ![r] = c]
      BY <1>5, <2>3 DEF ReadStreak
    <3> HIDE DEF c
    <3> QED
      BY <1>5, <3>2, <3>3, SlotStep DEF ReadStreak, users, history, StreakTypeOK, Below
  <2>4. CASE lock[Who(r)] # "enabled"
    <3>1. call' \in [Requests -> Calls] /\ Placed'
      BY <1>5, <2>1, <2>4, GotoStep DEF ReadStreak
    <3> QED
      BY <1>5, <3>1 DEF ReadStreak, users, history, StreakTypeOK, Below
  <2> QED BY <2>3, <2>4
<1>6. ASSUME NEW r \in Requests, BumpStreak(r) \/ TripStreak(r)
      PROVE  Goal'
  <2>1. call[r].stage # "idle" /\ Finish(r)
    BY <1>6 DEF BumpStreak, TripStreak
  <2>2. call' \in [Requests -> Calls] /\ Placed'
    BY <2>1, GotoStep DEF Stages
  <2>3. Who(r) \in Operators /\ NewStreak(r) \in 0..Threshold
    BY <2>1, StreakAssumption, IdleSlot DEF StreakTypeOK, Placed, Calls, NewStreak
  <2>4. CASE BumpStreak(r)
    BY <2>2, <2>3, <2>4 DEF BumpStreak, history, StreakTypeOK, Below
  <2>5. CASE TripStreak(r)
    BY <2>2, <2>3, <2>5 DEF TripStreak, users, StreakTypeOK, Below
  <2> QED BY <1>6, <2>4, <2>5
<1>7. ASSUME NEW r \in Requests, Fail(r)
      PROVE  Goal'
  <2>1. call[r].stage # "idle" /\ Who(r) \in Operators
    BY <1>7 DEF Fail, Placed
  <2>2. call' \in [Requests -> Calls] /\ Placed'
    BY <1>7, <2>1, GotoStep DEF Fail, Stages
  <2> QED
    BY <1>7, <2>1, <2>2, StreakAssumption DEF Fail, users, StreakTypeOK, Below
<1>8. ASSUME NEW i \in 1..MaxVerdicts, NEW s \in Verdicts, PatchVerification(i, s)
      PROVE  Goal'
  <2>1. verifications' \in Seq(Verification)
    <3>1. i \in 1..Len(verifications) /\ verifications[i] \in Verification
      BY <1>8 DEF PatchVerification, StreakTypeOK
    <3> DEFINE row == [verifications[i] EXCEPT !.status = s]
    <3>2. row \in Verification
      BY <3>1 DEF Verification
    <3>3. verifications' = [verifications EXCEPT ![i] = row]
      BY <1>8 DEF PatchVerification
    <3> HIDE DEF row
    <3> QED BY <3>1, <3>2, <3>3 DEF StreakTypeOK
  <2> QED
    BY <1>8, <2>1, StreakAssumption
    DEF PatchVerification, Edit, users, history, StreakTypeOK, Placed, Who, Below
<1>9. ASSUME NEW o \in Operators, AdminDisable(o) \/ AdminEnable(o) \/ EnableAgent(o)
      PROVE  Goal'
  <2>1. edits' \in 0..MaxEdits /\ UNCHANGED <<verifications, call, faults, answers, overlapped>>
    BY <1>9, StreakAssumption DEF AdminDisable, AdminEnable, EnableAgent, Switch, Edit, StreakTypeOK
  <2>2. CASE AdminDisable(o)
    BY <2>1, <2>2 DEF AdminDisable, StreakTypeOK, Placed, Who, Below
  <2>3. CASE AdminEnable(o) \/ EnableAgent(o)
    <3>1. /\ lock' = [lock EXCEPT ![o] = "enabled"]
          /\ denials' = [denials EXCEPT ![o] = 0]
          /\ enabledAt' = [enabledAt EXCEPT ![o] = Len(verifications)]
      BY <2>3 DEF AdminEnable, EnableAgent, Enable
    <3>2. awaiting' \subseteq Operators
      BY <2>3 DEF AdminEnable, EnableAgent, StreakTypeOK
    <3> QED
      BY <2>1, <3>1, <3>2, StreakAssumption DEF StreakTypeOK, Placed, Who, Below
  <2> QED BY <1>9, <2>2, <2>3
<1>10. ASSUME UNCHANGED vars
       PROVE  Goal'
  BY <1>10 DEF vars, users, history, StreakTypeOK, Placed, Who, Below
<1> HIDE DEF Goal
<1>11. ASSUME NEW r \in Requests, Statement(r) \/ Fail(r)
       PROVE  Goal'
  BY <1>2, <1>3, <1>4, <1>5, <1>6, <1>7, <1>11 DEF Statement
<1>12. ASSUME Next
       PROVE  Goal'
  BY <1>1, <1>8, <1>9, <1>11, <1>12 DEF Next
<1>13. Goal'
  BY <1>10, <1>12
<1> QED BY <1>13 DEF Goal

---------------------------------------------------------------------------
(* One row per key, and answers that name it.                              *)
LEMMA KeyStep ==
  ASSUME StreakTypeOK, Placed, KeysUnique, AnswersOnRecord, [Next]_vars
  PROVE  (KeysUnique /\ AnswersOnRecord)'
<1> DEFINE Goal == KeysUnique /\ AnswersOnRecord
<1>1. ASSUME UNCHANGED <<verifications, answers>>
      PROVE  Goal'
  BY <1>1 DEF KeysUnique, AnswersOnRecord
<1>2. ASSUME NEW r \in Requests, Replay(r), UNCHANGED verifications
      PROVE  Goal'
  BY <1>2 DEF Replay, Own, Taken, Who, KeysUnique, AnswersOnRecord
<1>3. ASSUME NEW r \in Requests, InsertVerification(r), Taken(r) = {}
      PROVE  Goal'
  <2> DEFINE row == [operator |-> Who(r), key |-> call[r].key,
                     verdict |-> call[r].verdict, status |-> call[r].verdict]
             n == Len(verifications) + 1
  <2>1. verifications' = Append(verifications, row)
    BY <1>3 DEF InsertVerification
  <2>2. /\ Len(verifications) \in Nat /\ Len(verifications') = n
        /\ verifications'[n] = row
        /\ \A i \in 1..Len(verifications) : verifications'[i] = verifications[i]
    BY <2>1 DEF StreakTypeOK
  <2>3. \A i \in 1..Len(verifications) :
          verifications[i].key = row.key => row.key = NoKey
    BY <1>3 DEF Taken
  <2>4. /\ answers' = answers \/ answers' = answers \cup {<<Who(r), call[r].key, n>>}
        /\ row.operator = Who(r) /\ row.key = call[r].key
    BY <1>3, <2>2 DEF InsertVerification
  <2> HIDE DEF row
  <2>5. 1..n = 1..Len(verifications) \cup {n} /\ n \notin 1..Len(verifications)
    BY <2>2
  <2> HIDE DEF n
  <2>6. KeysUnique'
    BY <2>2, <2>3, <2>5 DEF KeysUnique
  <2>7. AnswersOnRecord'
    BY <2>2, <2>4, <2>5 DEF AnswersOnRecord
  <2> QED BY <2>6, <2>7
<1>4. ASSUME NEW i, NEW s, PatchVerification(i, s)
      PROVE  Goal'
  <2>1. /\ i \in 1..Len(verifications) /\ answers' = answers
        /\ verifications' = [verifications EXCEPT ![i].status = s]
    BY <1>4 DEF PatchVerification, history
  <2>2. /\ Len(verifications') = Len(verifications)
        /\ \A j \in 1..Len(verifications) :
             /\ verifications'[j].key = verifications[j].key
             /\ verifications'[j].operator = verifications[j].operator
    BY <2>1 DEF StreakTypeOK, Verification
  <2> QED BY <2>1, <2>2 DEF KeysUnique, AnswersOnRecord
<1> HIDE DEF Goal
<1>5. ASSUME NEW r \in Requests, Statement(r) \/ Fail(r)
      PROVE  Goal'
  <2>1. CASE FindByIdempotencyKey(r) \/ FindAgain(r)
    BY <1>1, <1>2, <2>1 DEF FindByIdempotencyKey, FindAgain
  <2>2. CASE InsertVerification(r)
    BY <1>1, <1>3, <2>2 DEF InsertVerification
  <2>3. CASE ResetStreak(r) \/ ReadStreak(r) \/ BumpStreak(r) \/ TripStreak(r) \/ Fail(r)
    BY <1>1, <2>3 DEF ResetStreak, ReadStreak, BumpStreak, TripStreak, Fail, history
  <2> QED BY <1>5, <2>1, <2>2, <2>3 DEF Statement
<1>6. ASSUME NEW r, NEW o, NEW k, NEW v, Arrive(r, o, k, v)
      PROVE  Goal'
  BY <1>1, <1>6 DEF Arrive
<1>7. ASSUME NEW o, AdminDisable(o) \/ AdminEnable(o) \/ EnableAgent(o)
      PROVE  Goal'
  BY <1>1, <1>7 DEF AdminDisable, AdminEnable, EnableAgent, Switch
<1>8. ASSUME Next
      PROVE  Goal'
  BY <1>4, <1>5, <1>6, <1>7, <1>8 DEF Next
<1>9. ASSUME UNCHANGED vars
      PROVE  Goal'
  BY <1>1, <1>9 DEF vars, history
<1>10. Goal'
  BY <1>8, <1>9
<1> QED BY <1>10 DEF Goal

---------------------------------------------------------------------------
(* The count.  A slot is no new burden to o if it has not moved, works for *)
(* somebody else, or has no denial to count.                               *)
Light(s, o) ==
  \/ call[s].operator # o
  \/ call[s].stage \in {"idle", "find", "insert", "refind"}
  \/ call[s].stage = "bump" /\ call[s].verdict = "verified"

LEMMA CalmStep ==
  ASSUME StreakTypeOK, NEW o \in Operators, Counted(o),
         Denied(o)' = Denied(o),
         \A s \in Requests : call'[s] = call[s] \/ Light(s, o)',
         denials'[o] = denials[o] \/ denials'[o] = 0,
         lock'[o] = "auto_streak" => lock[o] = "auto_streak"
  PROVE  Counted(o)'
<1>1. Pending(o)' \subseteq Pending(o)
  BY DEF Pending, Light, Who, Verdicts
<1>2. \A s \in Requests : call'[s].stage = "write" /\ call'[s].operator = o => call'[s] = call[s]
  BY DEF Light
<1> DEFINE p == Cardinality(Pending(o))
           q == Cardinality(Pending(o)')
           d == Cardinality(Denied(o))
<1>3. p \in Nat /\ q \in Nat /\ d \in Nat /\ q <= p
  BY <1>1, FinitePending, FiniteDenied, PendingShrinks
<1>4. denials[o] \in Nat /\ denials[o] + p <= d
  BY StreakAssumption DEF StreakTypeOK, Counted
<1>5. \A s \in Requests : call[s].oldStreak \in Nat
  BY StreakAssumption DEF StreakTypeOK, Calls
<1>6. \A s \in Requests : call[s].stage = "write" /\ call[s].operator = o =>
        call[s].oldStreak + p <= d
  BY DEF Counted, Who
<1>7. lock[o] = "auto_streak" => d >= Threshold
  BY DEF Counted
<1>8. Cardinality(Pending(o)') = q /\ Cardinality(Denied(o)') = d
  OBVIOUS
<1> HIDE DEF p, q, d
<1>9. denials'[o] + q <= d
  BY <1>3, <1>4
<1>10. \A s \in Requests : call'[s].stage = "write" /\ call'[s].operator = o =>
         call'[s].oldStreak + q <= d
  BY <1>2, <1>3, <1>5, <1>6
<1>11. lock'[o] = "auto_streak" => d >= Threshold
  BY <1>7
<1> QED BY <1>8, <1>9, <1>10, <1>11 DEF Counted, Who

(* The streak is written: one denial moves from pending to counted.        *)
LEMMA WriteStep ==
  ASSUME StreakTypeOK, Placed, NEW r \in Requests,
         NEW o \in Operators, Who(r) = o, Counted(o),
         call[r].stage = "write",
         UNCHANGED verifications, call' = [call EXCEPT ![r] = Idle],
         \/ denials'[o] = NewStreak(r)
         \/ denials'[o] = denials[o],
         lock'[o] = "auto_streak" =>
           lock[o] = "auto_streak" \/ NewStreak(r) >= Threshold
  PROVE  Counted(o)'
<1>1. call[r].operator = o
  BY DEF Who
<1>2. Denied(o)' = Denied(o)
  BY DEF Denied, RowsOf
<1>3. r \in Pending(o) /\ Pending(o)' = Pending(o) \ {r}
  <2>1. Idle.operator = NoOperator /\ NoOperator \notin Operators
    BY StreakAssumption DEF Idle
  <2>2. \A s \in Requests : s # r => call'[s] = call[s]
    BY DEF StreakTypeOK
  <2>3. call'[r] = Idle
    BY DEF StreakTypeOK
  <2> QED BY <1>1, <2>1, <2>2, <2>3 DEF Pending, Who
<1> DEFINE p == Cardinality(Pending(o))
           d == Cardinality(Denied(o))
<1>4. p \in Nat /\ d \in Nat /\ Cardinality(Pending(o)') = p - 1 /\ Cardinality(Denied(o)') = d
  BY <1>2, <1>3, FinitePending, FiniteDenied, FS_RemoveElement
<1>5. /\ denials[o] \in Nat /\ denials[o] + p <= d
      /\ call[r].oldStreak \in Nat /\ call[r].oldStreak + p <= d
      /\ lock[o] = "auto_streak" => d >= Threshold
      /\ \A s \in Requests : call[s].stage = "write" /\ call[s].operator = o =>
           call[s].oldStreak + p <= d
      /\ \A s \in Requests : call[s].oldStreak \in Nat
  BY <1>1, StreakAssumption DEF StreakTypeOK, Calls, Counted, Who
<1>6. Pending(o) # {}
  BY <1>3
<1>7. p >= 1
  BY <1>4, <1>6, FinitePending, FS_EmptySet
<1> HIDE DEF p, d
<1>8. denials'[o] + (p - 1) <= d
  BY <1>1, <1>4, <1>5, <1>7 DEF NewStreak
<1>9. \A s \in Requests : call'[s].stage = "write" /\ call'[s].operator = o =>
        call'[s].oldStreak + (p - 1) <= d
  <2>1. \A s \in Requests : call'[s] = call[s] \/ call'[s] = Idle
    BY DEF StreakTypeOK
  <2> QED BY <1>4, <1>5, <2>1, IdleSlot
<1>10. lock'[o] = "auto_streak" => d >= Threshold
  <2>1. Threshold \in Nat
    BY StreakAssumption
  <2> QED BY <1>1, <1>4, <1>5, <1>7, <2>1 DEF NewStreak
<1>11. Counted(o)'
  BY <1>4, <1>8, <1>9, <1>10 DEF Counted, Who
<1> QED BY <1>11

LEMMA DeniedKept ==
  ASSUME UNCHANGED verifications
  PROVE  \A o \in Operators : Denied(o)' = Denied(o)
BY DEF Denied, RowsOf

(* A recorded denial is one more row and one more to be counted.           *)
LEMMA InsertCounted ==
  ASSUME StreakTypeOK, Placed, NEW r \in Requests, InsertVerification(r),
         NEW o \in Operators, Counted(o)
  PROVE  Counted(o)'
<1>1. /\ Who(r) \in Operators /\ call[r].stage = "insert"
      /\ UNCHANGED <<denials, lock>>
      /\ \A s \in Requests : s # r => call'[s] = call[s]
      /\ call'[r].operator = call[r].operator /\ call'[r].verdict = call[r].verdict
      /\ call[r].verdict \in {"verified", "denied"}
  BY IdleSlot DEF InsertVerification, Goto, users, StreakTypeOK, Placed, Calls, Verdicts
<1>2. CASE Taken(r) # {}
  <2>1. UNCHANGED verifications /\ call'[r].stage = "refind"
    <3>1. UNCHANGED verifications /\ Goto(r, "refind")
      BY <1>2 DEF InsertVerification
    <3> QED BY <3>1 DEF Goto, StreakTypeOK, Calls
  <2>2. Denied(o)' = Denied(o)
    BY <2>1, DeniedKept
  <2> QED BY <1>1, <2>1, <2>2, CalmStep DEF Light
<1>3. CASE Taken(r) = {}
  <2> DEFINE row == [operator |-> Who(r), key |-> call[r].key,
                     verdict |-> call[r].verdict, status |-> call[r].verdict]
  <2>1. verifications' = Append(verifications, row) /\ call'[r].stage = "bump"
    <3>1. verifications' = Append(verifications, row) /\ Goto(r, "bump")
      BY <1>3 DEF InsertVerification
    <3> HIDE DEF row
    <3> QED BY <3>1 DEF Goto, StreakTypeOK, Calls
  <2>2. PICK n \in Nat : n = Len(verifications) + 1
    BY DEF StreakTypeOK
  <2>3. /\ Len(verifications) \in Nat /\ Len(verifications') = n
        /\ verifications'[n] = row
        /\ \A j \in 1..Len(verifications) : verifications'[j] = verifications[j]
    BY <2>1, <2>2 DEF StreakTypeOK
  <2>4. 1..n = 1..Len(verifications) \cup {n} /\ n \notin 1..Len(verifications)
    BY <2>2, <2>3
  <2>5. row.operator = Who(r) /\ row.verdict = call[r].verdict
    OBVIOUS
  <2> HIDE DEF row
  <2>6. CASE Who(r) # o \/ call[r].verdict = "verified"
    <3>1. Denied(o)' = Denied(o)
      BY <2>3, <2>4, <2>5, <2>6 DEF Denied, RowsOf
    <3>2. Light(r, o)'
      BY <1>1, <2>1, <2>6 DEF Light, Who
    <3> QED BY <1>1, <3>1, <3>2, CalmStep
  <2>7. CASE Who(r) = o /\ call[r].verdict = "denied"
    <3>1. Denied(o)' = Denied(o) \cup {n} /\ n \notin Denied(o)
      BY <2>3, <2>4, <2>5, <2>7 DEF Denied, RowsOf
    <3>2. Pending(o)' = Pending(o) \cup {r} /\ r \notin Pending(o)
      BY <1>1, <2>1, <2>7 DEF Pending, Who
    <3> DEFINE p == Cardinality(Pending(o))
               d == Cardinality(Denied(o))
    <3>3. /\ p \in Nat /\ d \in Nat
          /\ Cardinality(Pending(o)') = p + 1 /\ Cardinality(Denied(o)') = d + 1
      BY <3>1, <3>2, FinitePending, FiniteDenied, FS_AddElement
    <3>4. /\ denials[o] \in Nat /\ denials[o] + p <= d /\ Threshold \in Nat
          /\ lock[o] = "auto_streak" => d >= Threshold
          /\ \A s \in Requests : call[s].stage = "write" /\ call[s].operator = o =>
               call[s].oldStreak + p <= d
          /\ \A s \in Requests : call[s].oldStreak \in Nat
      BY StreakAssumption DEF StreakTypeOK, Calls, Counted, Who
    <3> HIDE DEF p, d
    <3>5. denials'[o] + (p + 1) <= d + 1
      BY <1>1, <3>3, <3>4
    <3>6. \A s \in Requests : call'[s].stage = "write" /\ call'[s].operator = o =>
            call'[s].oldStreak + (p + 1) <= d + 1
      BY <1>1, <2>1, <3>3, <3>4
    <3>7. lock'[o] = "auto_streak" => d + 1 >= Threshold
      BY <1>1, <3>3, <3>4
    <3> QED BY <3>3, <3>5, <3>6, <3>7 DEF Counted, Who
  <2> QED BY <1>1, <2>6, <2>7
<1> QED BY <1>2, <1>3

(* The streak is read: the request has yet to count its denial.            *)
LEMMA ReadCounted ==
  ASSUME StreakTypeOK, Placed, NEW r \in Requests, ReadStreak(r),
         NEW o \in Operators, Counted(o)
  PROVE  Counted(o)'
<1>1. /\ UNCHANGED <<verifications, denials, lock>>
      /\ call[r].stage = "bump" /\ call[r].verdict = "denied"
      /\ \A s \in Requests : s # r => call'[s] = call[s]
  BY DEF ReadStreak, Finish, users, StreakTypeOK
<1>2. Denied(o)' = Denied(o)
  BY <1>1, DeniedKept
<1>3. CASE lock[Who(r)] # "enabled"
  <2>1. call'[r] = Idle
    BY <1>3 DEF ReadStreak, Finish, StreakTypeOK
  <2> QED BY <1>1, <1>2, <2>1, IdleSlot, CalmStep DEF Light
<1>4. CASE lock[Who(r)] = "enabled"
  <2>1. /\ call'[r].stage = "write" /\ call'[r].operator = call[r].operator
        /\ call'[r].oldStreak = denials[Who(r)]
    BY <1>4 DEF ReadStreak, StreakTypeOK, Calls
  <2>2. CASE Who(r) # o
    BY <1>1, <1>2, <2>1, <2>2, CalmStep DEF Light, Who
  <2>3. CASE Who(r) = o
    <3>1. Pending(o)' = Pending(o)
      BY <1>1, <2>1, <2>3 DEF Pending, Who
    <3> DEFINE p == Cardinality(Pending(o))
               d == Cardinality(Denied(o))
    <3>2. Cardinality(Pending(o)') = p /\ Cardinality(Denied(o)') = d
      BY <1>2, <3>1
    <3>3. /\ denials[o] + p <= d
          /\ lock[o] = "auto_streak" => d >= Threshold
          /\ \A s \in Requests : call[s].stage = "write" /\ call[s].operator = o =>
               call[s].oldStreak + p <= d
      BY DEF Counted, Who
    <3> HIDE DEF p, d
    <3>4. \A s \in Requests : call'[s].stage = "write" /\ call'[s].operator = o =>
            call'[s].oldStreak + p <= d
      BY <1>1, <2>1, <2>3, <3>3
    <3> QED BY <1>1, <3>2, <3>3, <3>4 DEF Counted, Who
  <2> QED BY <2>2, <2>3
<1> QED BY <1>3, <1>4

(* The streak is written, for the request's own operator.                  *)
LEMMA BumpCounted ==
  ASSUME StreakTypeOK, Placed, NEW r \in Requests, BumpStreak(r) \/ TripStreak(r),
         NEW o \in Operators, Counted(o)
  PROVE  Counted(o)'
<1>1. /\ UNCHANGED verifications /\ call[r].stage = "write"
      /\ call' = [call EXCEPT ![r] = Idle] /\ Who(r) \in Operators
  BY IdleSlot DEF BumpStreak, TripStreak, Finish, Placed
<1>2. Denied(o)' = Denied(o) /\ call'[r] = Idle /\ \A s \in Requests : s # r => call'[s] = call[s]
  BY <1>1, DeniedKept DEF StreakTypeOK
<1>3. CASE Who(r) # o
  <2>1. denials'[o] = denials[o] /\ lock'[o] = lock[o]
    BY <1>3 DEF BumpStreak, TripStreak, users, StreakTypeOK
  <2> QED BY <1>2, <2>1, IdleSlot, CalmStep DEF Light
<1>4. CASE Who(r) = o
  <2>1. denials'[o] = NewStreak(r) \/ denials'[o] = denials[o]
    BY <1>4 DEF BumpStreak, TripStreak, users, StreakTypeOK
  <2>2. lock'[o] = "auto_streak" => lock[o] = "auto_streak" \/ NewStreak(r) >= Threshold
    BY <1>4 DEF BumpStreak, TripStreak, users, StreakTypeOK
  <2> QED BY <1>1, <1>4, <2>1, <2>2, WriteStep
<1> QED BY <1>3, <1>4

LEMMA CountStep ==
  ASSUME StreakTypeOK, Placed, [Next]_vars, NEW o \in Operators, Counted(o)
  PROVE  Counted(o)'
<1> DEFINE Calm ==
      /\ Denied(o)' = Denied(o)
      /\ \A s \in Requests : call'[s] = call[s] \/ Light(s, o)'
      /\ denials'[o] = denials[o] \/ denials'[o] = 0
      /\ lock'[o] = "auto_streak" => lock[o] = "auto_streak"
<1>1. Calm => Counted(o)'
  BY CalmStep
<1>2. ASSUME NEW r \in Requests, NEW w \in Operators, NEW k, NEW v, Arrive(r, w, k, v)
      PROVE  Counted(o)'
  <2>1. call'[r].stage \in {"insert", "find"} /\ \A s \in Requests : s # r => call'[s] = call[s]
    BY <1>2 DEF Arrive, StreakTypeOK, Idle
  <2>2. UNCHANGED <<verifications, denials, lock>>
    BY <1>2 DEF Arrive, users
  <2> QED BY <1>1, <2>1, <2>2, DeniedKept DEF Light
<1>3. ASSUME NEW r \in Requests, FindByIdempotencyKey(r) \/ FindAgain(r) \/ Fail(r)
      PROVE  Counted(o)'
  <2>1. Finish(r) \/ Goto(r, "insert")
    BY <1>3 DEF FindByIdempotencyKey, FindAgain, Replay, Fail
  <2>2. /\ call'[r].stage \in {"idle", "insert"}
        /\ \A s \in Requests : s # r => call'[s] = call[s]
    BY <2>1, IdleSlot DEF Finish, Goto, StreakTypeOK, Calls
  <2>3. UNCHANGED <<verifications, denials, lock>>
    BY <1>3 DEF FindByIdempotencyKey, FindAgain, Fail, users
  <2> QED BY <1>1, <2>2, <2>3, DeniedKept DEF Light
<1>4. ASSUME NEW r \in Requests, ResetStreak(r)
      PROVE  Counted(o)'
  <2>1. /\ call'[r] = Idle /\ \A s \in Requests : s # r => call'[s] = call[s]
        /\ denials'[o] = denials[o] \/ denials'[o] = 0
        /\ UNCHANGED <<verifications, lock>>
    BY <1>4 DEF ResetStreak, Finish, StreakTypeOK
  <2> QED BY <1>1, <2>1, IdleSlot, DeniedKept DEF Light
<1>5. ASSUME NEW i, NEW s, PatchVerification(i, s)
      PROVE  Counted(o)'
  <2>1. /\ i \in 1..Len(verifications)
        /\ verifications' = [verifications EXCEPT ![i].status = s]
        /\ UNCHANGED <<call, denials, lock>>
    BY <1>5 DEF PatchVerification, users
  <2>2. /\ Len(verifications') = Len(verifications)
        /\ \A j \in 1..Len(verifications) :
             /\ verifications'[j].verdict = verifications[j].verdict
             /\ verifications'[j].operator = verifications[j].operator
    BY <2>1 DEF StreakTypeOK, Verification
  <2>3. Denied(o)' = Denied(o)
    BY <2>2 DEF Denied, RowsOf
  <2> QED BY <1>1, <2>1, <2>3
<1>6. ASSUME NEW w \in Operators, AdminDisable(w) \/ AdminEnable(w) \/ EnableAgent(w)
      PROVE  Counted(o)'
  <2>1. UNCHANGED <<verifications, call>>
    BY <1>6 DEF AdminDisable, AdminEnable, EnableAgent, Switch
  <2>2. /\ denials'[o] = denials[o] \/ denials'[o] = 0
        /\ lock'[o] = "auto_streak" => lock[o] = "auto_streak"
    BY <1>6 DEF AdminDisable, AdminEnable, EnableAgent, Enable, StreakTypeOK
  <2> QED BY <1>1, <2>1, <2>2, DeniedKept
<1>7. ASSUME UNCHANGED vars
      PROVE  Counted(o)'
  BY <1>1, <1>7, DeniedKept DEF vars, users
<1> HIDE DEF Calm
<1>8. ASSUME NEW r \in Requests, Statement(r) \/ Fail(r)
      PROVE  Counted(o)'
  BY <1>3, <1>4, <1>8, InsertCounted, ReadCounted, BumpCounted DEF Statement
<1>9. ASSUME Next
      PROVE  Counted(o)'
  BY <1>2, <1>5, <1>6, <1>8, <1>9 DEF Next
<1> QED BY <1>7, <1>9

---------------------------------------------------------------------------
LEMMA InitInv == Init => StreakInv
<1> SUFFICES ASSUME Init PROVE StreakInv
  OBVIOUS
<1>1. StreakTypeOK
  BY StreakAssumption, IdleSlot DEF Init, StreakTypeOK
<1>2. Placed /\ Below /\ KeysUnique /\ AnswersOnRecord
  BY StreakAssumption DEF Init, Placed, Below, KeysUnique, AnswersOnRecord
<1>3. ASSUME NEW o \in Operators
      PROVE  Counted(o)
  <2>1. Pending(o) = {} /\ \A r \in Requests : call[r].stage # "write"
    BY IdleSlot DEF Init, Pending
  <2>2. Cardinality(Pending(o)) = 0
    BY <2>1, FS_EmptySet
  <2>3. Cardinality(Denied(o)) \in Nat
    BY <1>1, FiniteDenied
  <2>4. denials[o] = 0 /\ lock[o] = "enabled"
    BY DEF Init
  <2> QED BY <2>1, <2>2, <2>3, <2>4 DEF Counted
<1> QED BY <1>1, <1>2, <1>3 DEF StreakInv, AllCounted

LEMMA NextInv == StreakInv /\ [Next]_vars => StreakInv'
<1> SUFFICES ASSUME StreakInv, [Next]_vars PROVE StreakInv'
  OBVIOUS
<1>1. (StreakTypeOK /\ Placed /\ Below)'
  BY TypeStep DEF StreakInv
<1>2. (KeysUnique /\ AnswersOnRecord)'
  BY KeyStep DEF StreakInv
<1>3. AllCounted'
  BY CountStep DEF StreakInv, AllCounted
<1> QED BY <1>1, <1>2, <1>3 DEF StreakInv

(* The inductive invariant: every unit of a streak, written or about to be *)
(* written by a call of createVerification, has its own denial on record.  *)
THEOREM StreakInvariant == Spec => []StreakInv
BY InitInv, NextInv, PTL DEF Spec

(* Types; in particular a streak never passes the threshold, however many  *)
(* requests write it at once.                                              *)
THEOREM StreakTypes == Spec => []StreakTypeOK
<1>1. StreakInv => StreakTypeOK
  BY DEF StreakInv
<1> QED BY <1>1, StreakInvariant, PTL

(* bumpOperatorStreak never counts a denial that is not on record: no      *)
(* retry, lost race for a key, failure or switch inflates a streak.        *)
THEOREM StreakOnRecord == Spec => []LockoutOnRecord
<1>1. StreakInv => LockoutOnRecord
  <2> SUFFICES ASSUME StreakInv, NEW o \in Operators
               PROVE  /\ denials[o] <= Cardinality(Denied(o))
                      /\ lock[o] = "auto_streak" => Cardinality(Denied(o)) >= Threshold
    BY DEF LockoutOnRecord
  <2>1. Cardinality(Pending(o)) \in Nat /\ Cardinality(Denied(o)) \in Nat
    BY FinitePending, FiniteDenied DEF StreakInv
  <2>2. denials[o] \in Nat /\ Counted(o)
    BY StreakAssumption DEF StreakInv, StreakTypeOK, AllCounted
  <2> QED BY <2>1, <2>2 DEF Counted
<1> QED BY <1>1, StreakInvariant, PTL

(* Retries of one createVerification get one and the same row.             *)
THEOREM StreakRetry == Spec => []RetryGetsSameRow
<1>1. StreakInv => RetryGetsSameRow
  <2> SUFFICES ASSUME StreakInv, NEW x \in answers, NEW y \in answers, x[2] = y[2]
               PROVE  x = y
    BY DEF RetryGetsSameRow
  <2>1. x \in Operators \X Keys \X (Nat \ {0}) /\ y \in Operators \X Keys \X (Nat \ {0})
    BY DEF StreakInv, StreakTypeOK
  <2>2. x[2] # NoKey
    BY <2>1, StreakAssumption
  <2>3. x[3] = y[3] /\ x[1] = y[1]
    BY <2>2 DEF StreakInv, KeysUnique, AnswersOnRecord
  <2> QED BY <2>1, <2>3
<1> QED BY <1>1, StreakInvariant, PTL

---------------------------------------------------------------------------
(* The lockout rule, for an operator whose requests come one at a time.    *)

(* The last k of the given rows of o are denials.                          *)
InARow(of, o, k) == k <= Cardinality(of) /\ LastRows(of, k) \subseteq Denied(o)
Since(o) == {i \in RowsOf(o) : i > enabledAt[o]}

(* n is the streak of o: not more than its last denials in a row, and for  *)
(* an enabled account not fewer than those since it was last enabled.      *)
Run(o, n) ==
  /\ InARow(RowsOf(o), o, n)
  /\ lock[o] = "enabled" => \A k \in Nat : InARow(Since(o), o, k) => k <= n

(* A request of o whose row the streak does not count yet.                 *)
Deciding(r, o) == Who(r) = o /\ call[r].stage \in {"bump", "write"}

Alone(o) == \A r, s \in Requests : Who(r) = o /\ Who(s) = o => r = s

RunOK(o) ==
  /\ enabledAt[o] <= Len(verifications)
  /\ (\A r \in Requests : ~ Deciding(r, o)) => Run(o, denials[o])
  /\ \A r \in Requests : Deciding(r, o) =>
       \/ /\ call[r].stage = "bump" /\ call[r].verdict = "denied"
          /\ Run(o, denials[o] + 1)
       \/ /\ call[r].stage = "bump" /\ call[r].verdict = "verified"
          /\ \A k \in Nat : InARow(Since(o), o, k) => k = 0
       \/ /\ call[r].stage = "write" /\ denials[o] <= call[r].oldStreak
          /\ Run(o, call[r].oldStreak + 1)

RuleInv == \A o \in Operators \ overlapped : Alone(o) /\ RunOK(o)

LEMMA LastRowsMono ==
  ASSUME NEW of, IsFiniteSet(of), NEW k \in Int, NEW m \in Int, k <= m
  PROVE  LastRows(of, k) \subseteq LastRows(of, m)
<1>1. \A i \in of : Cardinality({j \in of : j > i}) \in Nat
  BY FS_Subset, FS_CardinalityType
<1> QED BY <1>1 DEF LastRows

(* A row after all the others is the last of one more.                     *)
LEMMA LastRowsGrow ==
  ASSUME NEW of \in SUBSET Nat, IsFiniteSet(of), NEW n \in Nat, \A i \in of : i < n,
         NEW k \in Nat
  PROVE  /\ LastRows(of \cup {n}, k + 1) = LastRows(of, k) \cup {n}
         /\ Cardinality(of \cup {n}) = Cardinality(of) + 1
<1>1. n \notin of
  OBVIOUS
<1>2. ASSUME NEW i \in of
      PROVE  Cardinality({j \in of \cup {n} : j > i}) < k + 1
               <=> Cardinality({j \in of : j > i}) < k
  <2> PICK later : later = {j \in of : j > i}
    OBVIOUS
  <2>1. IsFiniteSet(later) /\ n \notin later /\ {j \in of \cup {n} : j > i} = later \cup {n}
    BY <1>1, FS_Subset
  <2>2. Cardinality(later \cup {n}) = Cardinality(later) + 1 /\ Cardinality(later) \in Nat
    BY <2>1, FS_AddElement, FS_CardinalityType
  <2> QED BY <2>1, <2>2
<1>3. Cardinality({j \in of \cup {n} : j > n}) < k + 1
  <2>1. \A j \in of \cup {n} : j \in Nat /\ ~ (j > n)
    OBVIOUS
  <2>2. {j \in of \cup {n} : j > n} = {}
    BY <2>1
  <2> QED BY <2>2, FS_EmptySet
<1>4. Cardinality(of \cup {n}) = Cardinality(of) + 1
  BY <1>1, FS_AddElement
<1> QED BY <1>2, <1>3, <1>4 DEF LastRows

LEMMA RowsTyped ==
  ASSUME StreakTypeOK, NEW o
  PROVE  /\ RowsOf(o) \in SUBSET Nat /\ IsFiniteSet(RowsOf(o))
         /\ Since(o) \in SUBSET Nat /\ IsFiniteSet(Since(o))
         /\ \A i \in RowsOf(o) : i <= Len(verifications)
<1>1. Len(verifications) \in Nat
  BY DEF StreakTypeOK
<1>2. RowsOf(o) \in SUBSET (1..Len(verifications)) /\ IsFiniteSet(1..Len(verifications))
  BY <1>1, FS_Interval DEF RowsOf
<1>3. Since(o) \in SUBSET RowsOf(o)
  BY DEF Since
<1> QED BY <1>1, <1>2, <1>3, FS_Subset

LEMMA InARowMono ==
  ASSUME StreakTypeOK, NEW o, NEW k \in Int, NEW m \in Int, k <= m, InARow(RowsOf(o), o, m)
  PROVE  InARow(RowsOf(o), o, k)
<1>1. Cardinality(RowsOf(o)) \in Nat /\ LastRows(RowsOf(o), k) \subseteq LastRows(RowsOf(o), m)
  BY RowsTyped, LastRowsMono, FS_CardinalityType
<1> QED BY <1>1 DEF InARow

LEMMA NoneInARow ==
  ASSUME StreakTypeOK, NEW o
  PROVE  InARow(RowsOf(o), o, 0)
<1>1. \A i \in RowsOf(o) : Cardinality({j \in RowsOf(o) : j > i}) \in Nat
  BY RowsTyped, FS_Subset, FS_CardinalityType
<1>2. Cardinality(RowsOf(o)) \in Nat
  BY RowsTyped, FS_CardinalityType
<1> QED BY <1>1, <1>2 DEF InARow, LastRows

---------------------------------------------------------------------------
(* One request at a time.                                                  *)
LEMMA AloneStep ==
  ASSUME StreakTypeOK, Placed, [Next]_vars, NEW o \in Operators, o \notin overlapped',
         Alone(o)
  PROVE  Alone(o)'
<1>1. (\A r \in Requests : Who(r)' = o => Who(r) = o) => Alone(o)'
  BY DEF Alone
<1>2. Idle.operator # o
  BY StreakAssumption DEF Idle
<1>3. ASSUME NEW r \in Requests, Finish(r) \/ \E stage : Goto(r, stage)
      PROVE  Alone(o)'
  BY <1>1, <1>2, <1>3 DEF Finish, Goto, StreakTypeOK, Calls, Who
<1>4. ASSUME NEW r \in Requests, NEW w \in Operators, NEW k \in Keys \cup {NoKey},
             NEW v \in Verdicts, Arrive(r, w, k, v)
      PROVE  Alone(o)'
  <2>1. /\ \A s \in Requests : s # r => call'[s] = call[s]
        /\ call'[r].operator = w
    BY <1>4 DEF Arrive, StreakTypeOK, Idle
  <2>2. CASE w = o
    <3>1. \A s \in Requests : Who(s) # o
      BY <1>4, <2>2 DEF Arrive
    <3> QED BY <2>1, <3>1 DEF Alone, Who
  <2>3. CASE w # o
    BY <1>1, <2>1, <2>3 DEF Who
  <2> QED BY <2>2, <2>3
<1>5. ASSUME NEW r \in Requests, ReadStreak(r)
      PROVE  Alone(o)'
  <2>1. CASE lock[Who(r)] = "enabled"
    <3>1. /\ call'[r].operator = call[r].operator
          /\ \A s \in Requests : s # r => call'[s] = call[s]
      BY <1>5, <2>1 DEF ReadStreak, StreakTypeOK, Calls
    <3> QED BY <1>1, <3>1 DEF Who
  <2>2. CASE lock[Who(r)] # "enabled"
    BY <1>3, <1>5, <2>2 DEF ReadStreak
  <2> QED BY <2>1, <2>2
<1>6. ASSUME NEW r \in Requests, Statement(r) \/ Fail(r)
      PROVE  Alone(o)'
  BY <1>3, <1>5, <1>6 DEF Statement, FindByIdempotencyKey, InsertVerification, FindAgain, Replay,
       ResetStreak, BumpStreak, TripStreak, Fail
<1>7. ASSUME UNCHANGED call
      PROVE  Alone(o)'
  BY <1>7 DEF Alone, Who
<1> QED
  BY <1>4, <1>6, <1>7 DEF Next, PatchVerification, AdminDisable, AdminEnable, EnableAgent, Switch, vars

---------------------------------------------------------------------------
(* Steps that change neither the rows of o, nor its streak, nor a request  *)
(* that has yet to count.                                                  *)
SameRows(o) == RowsOf(o)' = RowsOf(o) /\ Denied(o)' = Denied(o)

LEMMA RunStays ==
  ASSUME NEW o, NEW n, SameRows(o), enabledAt'[o] = enabledAt[o],
         lock'[o] = "enabled" => lock[o] = "enabled", Run(o, n)
  PROVE  Run(o, n)'
<1>1. Since(o)' = Since(o)
  BY DEF SameRows, Since
<1> QED BY <1>1 DEF Run, InARow, SameRows

LEMMA RunLocked ==
  ASSUME StreakTypeOK, NEW o, NEW n \in Int, NEW m \in Int, n <= m, Run(o, m),
         SameRows(o), lock'[o] # "enabled"
  PROVE  Run(o, n)'
<1>1. InARow(RowsOf(o), o, n)
  BY InARowMono DEF Run
<1> QED BY <1>1 DEF Run, InARow, SameRows

LEMMA RunOKStays ==
  ASSUME StreakTypeOK, NEW o \in Operators, RunOK(o), SameRows(o),
         denials'[o] = denials[o], enabledAt'[o] = enabledAt[o],
         lock'[o] = "enabled" => lock[o] = "enabled",
         Len(verifications') \in Nat, Len(verifications) <= Len(verifications'),
         \A r \in Requests :
           /\ Deciding(r, o) => call'[r] = call[r]
           /\ Deciding(r, o)' => call'[r] = call[r]
  PROVE  RunOK(o)'
<1>1. enabledAt'[o] <= Len(verifications')
  BY DEF RunOK, StreakTypeOK
<1>2. Since(o)' = Since(o)
  BY DEF SameRows, Since
<1>3. (\A r \in Requests : ~ Deciding(r, o)') => Run(o, denials[o])'
  <2>1. (\A r \in Requests : ~ Deciding(r, o)') => \A r \in Requests : ~ Deciding(r, o)
    BY DEF Deciding, Who
  <2> QED BY <2>1, RunStays DEF RunOK, Run
<1>4. ASSUME NEW r \in Requests, Deciding(r, o)'
      PROVE  \/ /\ call'[r].stage = "bump" /\ call'[r].verdict = "denied"
                /\ Run(o, denials[o] + 1)'
             \/ /\ call'[r].stage = "bump" /\ call'[r].verdict = "verified"
                /\ \A k \in Nat : InARow(Since(o), o, k)' => k = 0
             \/ /\ call'[r].stage = "write" /\ denials'[o] <= call'[r].oldStreak
                /\ Run(o, call[r].oldStreak + 1)'
  <2>1. call'[r] = call[r] /\ Deciding(r, o)
    BY <1>4 DEF Deciding, Who
  <2>2. CASE call[r].stage = "bump" /\ call[r].verdict = "denied" /\ Run(o, denials[o] + 1)
    <3> PICK n : n = denials[o] + 1
      OBVIOUS
    <3>1. Run(o, n)'
      BY <2>2, RunStays
    <3> QED BY <2>1, <2>2, <3>1 DEF Run
  <2>3. CASE /\ call[r].stage = "bump" /\ call[r].verdict = "verified"
             /\ \A k \in Nat : InARow(Since(o), o, k) => k = 0
    BY <1>2, <2>1, <2>3 DEF InARow, SameRows
  <2>4. CASE /\ call[r].stage = "write" /\ denials[o] <= call[r].oldStreak
             /\ Run(o, call[r].oldStreak + 1)
    <3> PICK n : n = call[r].oldStreak + 1
      OBVIOUS
    <3>1. Run(o, n)'
      BY <2>4, RunStays
    <3> QED BY <2>1, <2>4, <3>1 DEF Run
  <2> QED BY <2>1, <2>2, <2>3, <2>4 DEF RunOK
<1> QED BY <1>1, <1>3, <1>4 DEF RunOK, Run

(* The row of a new verdict.                                               *)
LEMMA InsertRows ==
  ASSUME StreakTypeOK, Placed, NEW r \in Requests, InsertVerification(r), Taken(r) = {},
         NEW o \in Operators, NEW n \in Nat, n = Len(verifications) + 1
  PROVE  /\ Len(verifications') = n
         /\ Who(r) # o => SameRows(o)
         /\ Who(r) = o =>
              /\ RowsOf(o)' = RowsOf(o) \cup {n}
              /\ Denied(o)' = IF call[r].verdict = "denied" THEN Denied(o) \cup {n} ELSE Denied(o)
<1> DEFINE row == [operator |-> Who(r), key |-> call[r].key,
                   verdict |-> call[r].verdict, status |-> call[r].verdict]
<1>1. verifications' = Append(verifications, row)
  BY DEF InsertVerification
<1>2. row.operator = Who(r) /\ row.verdict = call[r].verdict
  OBVIOUS
<1> HIDE DEF row
<1>3. /\ Len(verifications) \in Nat /\ Len(verifications') = n /\ verifications'[n] = row
      /\ \A j \in 1..Len(verifications) : verifications'[j] = verifications[j]
  BY <1>1 DEF StreakTypeOK
<1>4. 1..n = 1..Len(verifications) \cup {n} /\ n \notin 1..Len(verifications)
  BY <1>3
<1>5. CASE Who(r) # o
  BY <1>2, <1>3, <1>4, <1>5 DEF SameRows, Denied, RowsOf
<1>6. CASE Who(r) = o
  <2>1. RowsOf(o)' = RowsOf(o) \cup {n}
    BY <1>2, <1>3, <1>4, <1>6 DEF RowsOf
  <2>2. Denied(o)' = IF call[r].verdict = "denied" THEN Denied(o) \cup {n} ELSE Denied(o)
    BY <1>2, <1>3, <1>4, <1>6 DEF RowsOf, Denied
  <2> QED BY <1>3, <1>6, <2>1, <2>2
<1> QED BY <1>3, <1>5, <1>6

LEMMA InsertRun ==
  ASSUME StreakTypeOK, Placed, NEW r \in Requests, InsertVerification(r), Taken(r) = {},
         NEW o \in Operators, Who(r) = o, Alone(o), RunOK(o)
  PROVE  RunOK(o)'
<1> PICK n \in Nat : n = Len(verifications) + 1
  BY DEF StreakTypeOK
<1> PICK d \in 0..Threshold : d = denials[o]
  BY DEF StreakTypeOK
<1>1. /\ Len(verifications') = n /\ RowsOf(o)' = RowsOf(o) \cup {n}
      /\ Denied(o)' = IF call[r].verdict = "denied" THEN Denied(o) \cup {n} ELSE Denied(o)
  BY InsertRows
<1>2. /\ UNCHANGED <<denials, lock, enabledAt>>
      /\ call'[r].stage = "bump" /\ call'[r].operator = o
      /\ call'[r].verdict = call[r].verdict /\ call[r].verdict \in {"verified", "denied"}
      /\ \A s \in Requests : s # r => call'[s] = call[s]
      /\ call[r].stage = "insert"
  BY DEF InsertVerification, Goto, users, StreakTypeOK, Calls, Who, Verdicts
<1>3. /\ RowsOf(o) \in SUBSET Nat /\ IsFiniteSet(RowsOf(o))
      /\ Since(o) \in SUBSET Nat /\ IsFiniteSet(Since(o))
      /\ \A i \in RowsOf(o) : i < n
      /\ enabledAt[o] < n /\ d \in Nat
  <2>1. Len(verifications) \in Nat /\ enabledAt[o] \in Nat /\ enabledAt[o] <= Len(verifications)
    BY DEF StreakTypeOK, RunOK
  <2>2. d \in Nat
    BY StreakAssumption
  <2> QED BY <2>1, <2>2, RowsTyped
<1>4. Since(o)' = Since(o) \cup {n} /\ n \notin Denied(o) /\ n \notin Since(o)
      /\ \A i \in Since(o) : i < n
  BY <1>1, <1>2, <1>3 DEF Since, Denied
<1>5. Run(o, d)
  <2>1. \A s \in Requests : ~ Deciding(s, o)
    BY <1>2 DEF Alone, Deciding
  <2> QED BY <2>1 DEF RunOK
<1>6. \A s \in Requests : Deciding(s, o)' => s = r
  BY <1>2 DEF Deciding, Alone, Who
<1>7. CASE call[r].verdict = "denied"
  <2>1. Denied(o)' = Denied(o) \cup {n}
    BY <1>1, <1>7
  <2>2. InARow(RowsOf(o), o, d + 1)'
    <3>1. /\ LastRows(RowsOf(o) \cup {n}, d + 1) = LastRows(RowsOf(o), d) \cup {n}
          /\ Cardinality(RowsOf(o) \cup {n}) = Cardinality(RowsOf(o)) + 1
      BY <1>3, LastRowsGrow
    <3>2. d <= Cardinality(RowsOf(o)) /\ LastRows(RowsOf(o), d) \subseteq Denied(o)
      BY <1>5 DEF Run, InARow
    <3>3. Cardinality(RowsOf(o)) \in Nat
      BY <1>3, FS_CardinalityType
    <3>4. d + 1 <= Cardinality(RowsOf(o)) + 1
      BY <1>3, <3>2, <3>3
    <3>5. /\ d + 1 <= Cardinality(RowsOf(o) \cup {n})
          /\ LastRows(RowsOf(o) \cup {n}, d + 1) \subseteq Denied(o) \cup {n}
      BY <3>1, <3>2, <3>4
    <3> QED BY <1>1, <2>1, <3>5 DEF InARow
  <2>3. ASSUME lock[o] = "enabled", NEW k \in Nat, InARow(Since(o), o, k)'
        PROVE  k <= d + 1
    <3>1. CASE k = 0
      BY <1>3, <3>1
    <3>2. CASE k # 0
      <4> PICK j \in Nat : k = j + 1
        <5>1. k - 1 \in Nat /\ k = (k - 1) + 1
          BY <3>2
        <5> QED BY <5>1
      <4>1. /\ LastRows(Since(o) \cup {n}, j + 1) = LastRows(Since(o), j) \cup {n}
            /\ Cardinality(Since(o) \cup {n}) = Cardinality(Since(o)) + 1
        BY <1>3, <1>4, LastRowsGrow
      <4>2. /\ j + 1 <= Cardinality(Since(o)) + 1
            /\ LastRows(Since(o), j) \subseteq Denied(o) \cup {n}
        BY <1>4, <2>1, <2>3, <4>1 DEF InARow
      <4>3. Cardinality(Since(o)) \in Nat /\ LastRows(Since(o), j) \subseteq Since(o)
        BY <1>3, FS_CardinalityType DEF LastRows
      <4>4. InARow(Since(o), o, j)
        BY <1>4, <4>2, <4>3 DEF InARow
      <4>5. j <= d
        BY <1>5, <2>3, <4>4 DEF Run
      <4> QED BY <1>3, <4>5
    <3> QED BY <3>1, <3>2
  <2>4. Run(o, d + 1)'
    BY <1>2, <2>2, <2>3 DEF Run
  <2>5. Run(o, denials[o] + 1)'
    BY <1>2, <2>4 DEF Run
  <2>6. Deciding(r, o)' /\ enabledAt'[o] <= Len(verifications')
    BY <1>1, <1>2, <1>3 DEF Deciding, Who, StreakTypeOK
  <2> QED BY <1>2, <1>6, <1>7, <2>5, <2>6 DEF RunOK
<1>8. CASE call[r].verdict = "verified"
  <2>1. Denied(o)' = Denied(o)
    BY <1>1, <1>8
  <2>2. ASSUME NEW k \in Nat, InARow(Since(o), o, k)', k # 0
        PROVE  FALSE
    <3> PICK j \in Nat : k = j + 1
      <4>1. k - 1 \in Nat /\ k = (k - 1) + 1
        BY <2>2
      <4> QED BY <4>1
    <3>1. LastRows(Since(o) \cup {n}, j + 1) = LastRows(Since(o), j) \cup {n}
      BY <1>3, <1>4, LastRowsGrow
    <3> QED BY <1>4, <2>1, <2>2, <3>1 DEF InARow
  <2>3. Deciding(r, o)' /\ enabledAt'[o] <= Len(verifications')
    BY <1>1, <1>2, <1>3 DEF Deciding, Who, StreakTypeOK
  <2> QED BY <1>2, <1>6, <1>8, <2>2, <2>3 DEF RunOK
<1> QED BY <1>2, <1>7, <1>8

(* The account is enabled: no row is since then.                           *)
LEMMA EnableRun ==
  ASSUME StreakTypeOK, NEW o \in Operators, RunOK(o), Enable(o), UNCHANGED <<verifications, call>>
  PROVE  RunOK(o)'
<1>1. SameRows(o)
  BY DEF SameRows, Denied, RowsOf
<1>2. /\ denials'[o] = 0 /\ enabledAt'[o] = Len(verifications) /\ lock'[o] = "enabled"
      /\ Len(verifications) \in Nat
  BY DEF Enable, StreakTypeOK
<1>3. Since(o)' = {}
  <2>1. \A i \in RowsOf(o) : i \in Nat /\ ~ (i > Len(verifications))
    BY <1>2, RowsTyped
  <2> QED BY <1>1, <1>2, <2>1 DEF Since, SameRows
<1>4. \A k \in Nat : InARow(Since(o), o, k)' => k = 0
  BY <1>3, FS_EmptySet DEF InARow
<1>5. ASSUME NEW n \in Nat, InARow(RowsOf(o), o, n)
      PROVE  Run(o, n)'
  BY <1>1, <1>4, <1>5 DEF Run, InARow, SameRows
<1>6. \A r \in Requests : Deciding(r, o)' => Deciding(r, o) /\ call'[r] = call[r]
  BY DEF Deciding, Who
<1>7. ASSUME NEW r \in Requests, Deciding(r, o)
      PROVE  \/ /\ call'[r].stage = "bump" /\ call'[r].verdict = "denied"
                /\ Run(o, denials[o] + 1)'
             \/ /\ call'[r].stage = "bump" /\ call'[r].verdict = "verified"
                /\ \A k \in Nat : InARow(Since(o), o, k)' => k = 0
             \/ /\ call'[r].stage = "write" /\ denials'[o] <= call'[r].oldStreak
                /\ Run(o, call[r].oldStreak + 1)'
  <2>1. denials[o] \in Nat /\ call[r].oldStreak \in Nat
    BY StreakAssumption DEF StreakTypeOK, Calls
  <2>2. CASE call[r].stage = "bump" /\ call[r].verdict = "denied" /\ Run(o, denials[o] + 1)
    <3>1. InARow(RowsOf(o), o, 1)
      BY <2>1, <2>2, InARowMono DEF Run
    <3>2. Run(o, 1)'
      BY <1>5, <3>1
    <3> QED BY <1>2, <2>2, <3>2 DEF Run
  <2>3. CASE call[r].stage = "bump" /\ call[r].verdict = "verified"
    BY <1>4, <2>3
  <2>4. CASE call[r].stage = "write" /\ Run(o, call[r].oldStreak + 1)
    <3> PICK n \in Nat : n = call[r].oldStreak + 1
      BY <2>1
    <3>1. Run(o, n)'
      BY <1>5, <2>4 DEF Run
    <3> QED BY <1>2, <2>1, <2>4, <3>1 DEF Run
  <2> QED BY <1>7, <2>2, <2>3, <2>4 DEF RunOK
<1>8. Run(o, denials[o])'
  <2>1. Run(o, 0)'
    BY <1>5, NoneInARow
  <2> QED BY <1>2, <2>1 DEF Run
<1> QED BY <1>2, <1>6, <1>7, <1>8 DEF RunOK, Run

(* The streak is reset, read and written for the operator of the request.  *)
LEMMA CountRun ==
  ASSUME StreakTypeOK, Placed, NEW r \in Requests,
         ResetStreak(r) \/ ReadStreak(r) \/ BumpStreak(r) \/ TripStreak(r),
         NEW o \in Operators, Who(r) = o, Alone(o), RunOK(o)
  PROVE  RunOK(o)'
<1> PICK d \in Nat : d = denials[o]
  BY StreakAssumption DEF StreakTypeOK
<1> PICK old \in Nat : old = call[r].oldStreak
  BY StreakAssumption DEF StreakTypeOK, Calls
<1>1. /\ UNCHANGED <<verifications, enabledAt>> /\ call[r].stage \in {"bump", "write"}
      /\ \A s \in Requests : s # r => call'[s] = call[s]
  BY DEF ResetStreak, ReadStreak, BumpStreak, TripStreak, Finish, history, StreakTypeOK
<1>2. SameRows(o) /\ enabledAt'[o] <= Len(verifications')
  BY <1>1 DEF SameRows, Denied, RowsOf, RunOK
<1>3. \A s \in Requests : s # r => ~ Deciding(s, o)'
  BY <1>1 DEF Deciding, Who, Alone
<1>4. Deciding(r, o)
  BY <1>1 DEF Deciding
<1>5. ASSUME Finish(r), Run(o, denials[o])'
      PROVE  RunOK(o)'
  <2>1. call'[r] = Idle
    BY <1>5 DEF Finish, StreakTypeOK
  <2>2. \A s \in Requests : ~ Deciding(s, o)'
    BY <1>3, <2>1, IdleSlot DEF Deciding
  <2> QED BY <1>2, <1>5, <2>2 DEF RunOK
<1>6. CASE ResetStreak(r)
  <2>1. call[r].verdict = "verified" /\ call[r].stage = "bump" /\ denials'[o] = 0
        /\ lock' = lock /\ Finish(r)
    BY <1>6 DEF ResetStreak, StreakTypeOK
  <2>2. \A k \in Nat : InARow(Since(o), o, k) => k = 0
    BY <1>4, <2>1 DEF RunOK
  <2>3. Run(o, 0)
    BY <2>2, NoneInARow DEF Run
  <2>4. Run(o, 0)'
    BY <1>1, <1>2, <2>1, <2>3, RunStays
  <2> QED BY <1>5, <2>1, <2>4 DEF Run
<1>7. CASE ReadStreak(r)
  <2>1. /\ call[r].verdict = "denied" /\ call[r].stage = "bump" /\ UNCHANGED <<lock, denials>>
        /\ Run(o, d + 1)
    BY <1>4, <1>7 DEF ReadStreak, users, RunOK
  <2>2. CASE lock[o] = "enabled"
    <3>1. /\ call'[r].stage = "write" /\ call'[r].oldStreak = d /\ call'[r].operator = o
      BY <1>7, <2>2 DEF ReadStreak, StreakTypeOK, Calls, Who
    <3>2. Run(o, d + 1)'
      BY <1>1, <1>2, <2>1, RunStays
    <3>3. Run(o, call[r].oldStreak + 1)'
      BY <3>1, <3>2 DEF Run
    <3>4. denials'[o] <= call'[r].oldStreak /\ Deciding(r, o)'
      BY <2>1, <3>1 DEF Deciding, Who
    <3> QED BY <1>2, <1>3, <3>1, <3>3, <3>4 DEF RunOK
  <2>3. CASE lock[o] # "enabled"
    <3>1. Run(o, d)'
      BY <1>2, <2>1, <2>3, RunLocked
    <3>2. Run(o, denials[o])'
      BY <2>1, <3>1 DEF Run
    <3> QED BY <1>5, <1>7, <2>3, <3>2 DEF ReadStreak
  <2> QED BY <2>2, <2>3
<1>8. CASE BumpStreak(r) \/ TripStreak(r)
  <2>1. call[r].stage = "write" /\ Finish(r) /\ d <= old /\ Run(o, old + 1)
    BY <1>4, <1>8 DEF BumpStreak, TripStreak, RunOK
  <2>2. CASE BumpStreak(r) \/ lock[o] = "enabled"
    <3>1. denials'[o] = old + 1 /\ (lock'[o] = "enabled" => lock[o] = "enabled")
      BY <1>8, <2>2 DEF BumpStreak, TripStreak, NewStreak, StreakTypeOK
    <3>2. Run(o, old + 1)'
      BY <1>1, <1>2, <2>1, <3>1, RunStays
    <3> QED BY <1>5, <2>1, <3>1, <3>2 DEF Run
  <2>3. CASE TripStreak(r) /\ lock[o] # "enabled"
    <3>1. denials'[o] = d /\ lock'[o] # "enabled"
      BY <2>3 DEF TripStreak, users
    <3>2. Run(o, d)'
      BY <1>2, <2>1, <3>1, RunLocked
    <3> QED BY <1>5, <2>1, <3>1, <3>2 DEF Run
  <2> QED BY <1>8, <2>2, <2>3
<1> QED BY <1>6, <1>7, <1>8

LEMMA RunStep ==
  ASSUME StreakTypeOK, Placed, [Next]_vars, NEW o \in Operators, o \notin overlapped',
         Alone(o), RunOK(o)
  PROVE  RunOK(o)'
<1> DEFINE Quiet ==
      /\ SameRows(o) /\ denials'[o] = denials[o] /\ enabledAt'[o] = enabledAt[o]
      /\ lock'[o] = "enabled" => lock[o] = "enabled"
      /\ Len(verifications') \in Nat /\ Len(verifications) <= Len(verifications')
      /\ \A r \in Requests :
           /\ Deciding(r, o) => call'[r] = call[r]
           /\ Deciding(r, o)' => call'[r] = call[r]
<1>1. Quiet => RunOK(o)'
  BY RunOKStays
<1>2. Len(verifications) \in Nat /\ Idle.operator # o
  BY StreakAssumption DEF StreakTypeOK, Idle
<1>3. UNCHANGED verifications => SameRows(o) /\ Len(verifications') \in Nat
                                 /\ Len(verifications) <= Len(verifications')
  BY <1>2 DEF SameRows, Denied, RowsOf
<1>4. ASSUME NEW r \in Requests, NEW w \in Operators, NEW k \in Keys \cup {NoKey},
             NEW v \in Verdicts, Arrive(r, w, k, v)
      PROVE  RunOK(o)'
  <2>1. /\ \A s \in Requests : s # r => call'[s] = call[s]
        /\ call[r] = Idle /\ call'[r].stage \in {"insert", "find"}
        /\ UNCHANGED <<verifications, denials, lock, enabledAt>>
    BY <1>4 DEF Arrive, StreakTypeOK, Idle, users
  <2>2. \A s \in Requests :
          /\ Deciding(s, o) => call'[s] = call[s]
          /\ Deciding(s, o)' => call'[s] = call[s]
    BY <2>1, IdleSlot DEF Deciding
  <2> QED BY <1>1, <1>3, <2>1, <2>2
<1>5. ASSUME NEW r \in Requests, FindByIdempotencyKey(r) \/ FindAgain(r)
      PROVE  RunOK(o)'
  <2>1. /\ Finish(r) \/ Goto(r, "insert")
        /\ call[r].stage \in {"find", "refind"}
        /\ UNCHANGED <<verifications, denials, lock, enabledAt>>
    BY <1>5 DEF FindByIdempotencyKey, FindAgain, Replay, users
  <2>2. /\ call'[r].stage \in {"idle", "insert"}
        /\ \A s \in Requests : s # r => call'[s] = call[s]
    BY <2>1, IdleSlot DEF Finish, Goto, StreakTypeOK, Calls
  <2>3. \A s \in Requests :
          /\ Deciding(s, o) => call'[s] = call[s]
          /\ Deciding(s, o)' => call'[s] = call[s]
    BY <2>1, <2>2 DEF Deciding
  <2> QED BY <1>1, <1>3, <2>1, <2>3
<1>6. ASSUME NEW r \in Requests, InsertVerification(r)
      PROVE  RunOK(o)'
  <2>1. /\ \A s \in Requests : s # r => call'[s] = call[s]
        /\ call'[r].operator = call[r].operator /\ call[r].stage = "insert"
        /\ UNCHANGED <<denials, lock, enabledAt>>
    BY <1>6 DEF InsertVerification, Goto, users, StreakTypeOK, Calls
  <2>2. CASE Taken(r) # {}
    <3>1. UNCHANGED verifications /\ call'[r].stage = "refind"
      <4>1. UNCHANGED verifications /\ Goto(r, "refind")
        BY <1>6, <2>2 DEF InsertVerification
      <4> QED BY <4>1 DEF Goto, StreakTypeOK, Calls
    <3>2. \A s \in Requests :
            /\ Deciding(s, o) => call'[s] = call[s]
            /\ Deciding(s, o)' => call'[s] = call[s]
      BY <2>1, <3>1 DEF Deciding
    <3> QED BY <1>1, <1>3, <2>1, <3>1, <3>2
  <2>3. CASE Taken(r) = {} /\ Who(r) # o
    <3> PICK n \in Nat : n = Len(verifications) + 1
      BY <1>2
    <3>1. SameRows(o) /\ Len(verifications') = n
      BY <1>6, <2>3, InsertRows
    <3>2. \A s \in Requests :
            /\ Deciding(s, o) => call'[s] = call[s]
            /\ Deciding(s, o)' => call'[s] = call[s]
      BY <2>1, <2>3 DEF Deciding, Who
    <3>3. Len(verifications') \in Nat /\ Len(verifications) <= Len(verifications')
      BY <1>2, <3>1
    <3> QED BY <1>1, <2>1, <3>1, <3>2, <3>3
  <2>4. CASE Taken(r) = {} /\ Who(r) = o
    BY <1>6, <2>4, InsertRun
  <2> QED BY <2>2, <2>3, <2>4
<1>7. ASSUME NEW r \in Requests,
             ResetStreak(r) \/ ReadStreak(r) \/ BumpStreak(r) \/ TripStreak(r)
      PROVE  RunOK(o)'
  <2>1. CASE Who(r) = o
    BY <1>7, <2>1, CountRun
  <2>2. CASE Who(r) # o
    <3>1. /\ UNCHANGED <<verifications, enabledAt>>
          /\ denials'[o] = denials[o] /\ lock'[o] = lock[o]
      BY <1>7, <2>2 DEF ResetStreak, ReadStreak, BumpStreak, TripStreak, history, users, StreakTypeOK
    <3>2. /\ \A s \in Requests : s # r => call'[s] = call[s]
          /\ Who(r)' # o
      <4>1. CASE Finish(r)
        BY <1>2, <4>1 DEF Finish, StreakTypeOK, Who
      <4>2. CASE ReadStreak(r) /\ lock[Who(r)] = "enabled"
        BY <2>2, <4>2 DEF ReadStreak, StreakTypeOK, Calls, Who
      <4> QED BY <1>7, <4>1, <4>2 DEF ResetStreak, ReadStreak, BumpStreak, TripStreak
    <3>3. \A s \in Requests :
            /\ Deciding(s, o) => call'[s] = call[s]
            /\ Deciding(s, o)' => call'[s] = call[s]
      BY <2>2, <3>2 DEF Deciding
    <3> QED BY <1>1, <1>3, <3>1, <3>3
  <2> QED BY <2>1, <2>2
<1>8. ASSUME NEW r \in Requests, Fail(r)
      PROVE  RunOK(o)'
  <2>1. /\ Who(r) # o /\ Finish(r)
        /\ UNCHANGED <<verifications, denials, lock, enabledAt>>
    BY <1>8 DEF Fail, users
  <2>2. call'[r] = Idle /\ \A s \in Requests : s # r => call'[s] = call[s]
    BY <2>1 DEF Finish, StreakTypeOK
  <2>3. \A s \in Requests :
          /\ Deciding(s, o) => call'[s] = call[s]
          /\ Deciding(s, o)' => call'[s] = call[s]
    BY <1>2, <2>1, <2>2 DEF Deciding, Who
  <2> QED BY <1>1, <1>3, <2>1, <2>3
<1>9. ASSUME NEW i, NEW s, PatchVerification(i, s)
      PROVE  RunOK(o)'
  <2>1. /\ i \in 1..Len(verifications)
        /\ verifications' = [verifications EXCEPT ![i].status = s]
        /\ UNCHANGED <<call, denials, lock, enabledAt>>
    BY <1>9 DEF PatchVerification, users, history
  <2>2. /\ Len(verifications') = Len(verifications)
        /\ \A j \in 1..Len(verifications) :
             /\ verifications'[j].verdict = verifications[j].verdict
             /\ verifications'[j].operator = verifications[j].operator
    BY <2>1 DEF StreakTypeOK, Verification
  <2>3. SameRows(o)
    BY <2>2 DEF SameRows, Denied, RowsOf
  <2> QED BY <1>1, <1>2, <2>1, <2>2, <2>3
<1>10. ASSUME NEW w \in Operators, AdminDisable(w) \/ AdminEnable(w) \/ EnableAgent(w)
       PROVE  RunOK(o)'
  <2>1. UNCHANGED <<verifications, call>>
    BY <1>10 DEF AdminDisable, AdminEnable, EnableAgent, Switch
  <2>2. CASE w = o /\ Enable(o)
    BY <2>1, <2>2, EnableRun
  <2>3. CASE w # o /\ Enable(w)
    BY <1>1, <1>3, <2>1, <2>3 DEF Enable, StreakTypeOK
  <2>4. CASE AdminDisable(w)
    <3>1. /\ denials'[o] = denials[o] /\ enabledAt'[o] = enabledAt[o]
          /\ lock'[o] = "enabled" => lock[o] = "enabled"
      BY <2>4 DEF AdminDisable, StreakTypeOK
    <3> QED BY <1>1, <1>3, <2>1, <3>1
  <2> QED BY <1>10, <2>2, <2>3, <2>4 DEF AdminEnable, EnableAgent
<1>11. ASSUME UNCHANGED vars
       PROVE  RunOK(o)'
  BY <1>1, <1>3, <1>11 DEF vars, users, history
<1> HIDE DEF Quiet
<1>12. ASSUME Next
       PROVE  RunOK(o)'
  BY <1>4, <1>5, <1>6, <1>7, <1>8, <1>9, <1>10, <1>12 DEF Next, Statement
<1> QED BY <1>11, <1>12

LEMMA InitRule == Init => RuleInv
<1> SUFFICES ASSUME Init, NEW o \in Operators PROVE Alone(o) /\ RunOK(o)
  BY DEF RuleInv
<1>1. \A r \in Requests : Who(r) # o
  BY StreakAssumption DEF Init, Idle, Who
<1>2. StreakTypeOK
  BY InitInv DEF StreakInv
<1>3. RowsOf(o) = {} /\ Since(o) = {} /\ enabledAt[o] = 0 /\ denials[o] = 0
      /\ Len(verifications) = 0
  BY DEF Init, RowsOf, Since
<1>4. Run(o, 0)
  BY <1>2, <1>3, NoneInARow, FS_EmptySet DEF Run, InARow
<1> QED BY <1>1, <1>3, <1>4 DEF Alone, RunOK, Deciding

LEMMA NextRule == StreakInv /\ RuleInv /\ [Next]_vars => RuleInv'
<1> SUFFICES ASSUME StreakInv, RuleInv, [Next]_vars, NEW o \in Operators, o \notin overlapped'
             PROVE  Alone(o)' /\ RunOK(o)'
  BY DEF RuleInv
<1>1. o \notin overlapped
  BY DEF Next, Statement, Arrive, FindByIdempotencyKey, InsertVerification, FindAgain, ResetStreak,
         ReadStreak, BumpStreak, TripStreak, Fail, PatchVerification, AdminDisable, AdminEnable,
         EnableAgent, Switch, vars, history
<1>2. Alone(o) /\ RunOK(o) /\ StreakTypeOK /\ Placed
  BY <1>1 DEF RuleInv, StreakInv
<1> QED BY <1>2, AloneStep, RunStep

LEMMA RuleInvHolds == Spec => [](StreakInv /\ RuleInv)
<1>1. StreakInv /\ RuleInv /\ [Next]_vars => (StreakInv /\ RuleInv)'
  BY NextInv, NextRule
<1> QED BY InitInv, InitRule, <1>1, PTL DEF Spec

(* Nobody whose requests come one at a time and all go through is left     *)
(* enabled after Threshold denials in a row.                               *)
THEOREM StreakLocksOut == Spec => []ThreeDenialsLockOut
<1>1. StreakInv /\ RuleInv => ThreeDenialsLockOut
  <2> SUFFICES ASSUME StreakInv, RuleInv, NEW o \in Operators \ overlapped,
                      lock[o] = "enabled", \A r \in Requests : Who(r) # o,
                      Cardinality(Since(o)) >= Threshold,
                      LastRows(Since(o), Threshold) \subseteq Denied(o)
               PROVE  FALSE
    BY DEF ThreeDenialsLockOut, Since
  <2>1. Run(o, denials[o])
    BY DEF RuleInv, RunOK, Deciding
  <2>2. Threshold \in Nat /\ Cardinality(Since(o)) \in Nat
    BY StreakAssumption, RowsTyped, FS_CardinalityType DEF StreakInv
  <2>3. InARow(Since(o), o, Threshold)
    BY <2>2 DEF InARow
  <2>4. Threshold <= denials[o] /\ denials[o] < Threshold /\ denials[o] \in 0..Threshold
    BY <2>1, <2>2, <2>3 DEF Run, StreakInv, StreakTypeOK, Below
  <2> QED BY <2>2, <2>4
<1> QED BY <1>1, RuleInvHolds, PTL

(* The step that auto-disables such an operator has Threshold denials in a *)
(* row before it.                                                          *)
LEMMA TripFollows ==
  ASSUME StreakInv, RuleInv, [Next]_vars, NEW o \in Operators \ overlapped,
         lock'[o] = "auto_streak", lock[o] = "enabled"
  PROVE  /\ Cardinality(RowsOf(o)) >= Threshold
         /\ LastRows(RowsOf(o), Threshold) \subseteq Denied(o)
<1>1. StreakTypeOK /\ Alone(o) /\ RunOK(o)
  BY DEF StreakInv, RuleInv
<1>2. PICK r \in Requests : TripStreak(r) /\ Who(r) = o
  <2>1. ASSUME NEW w \in Operators, AdminDisable(w) \/ AdminEnable(w) \/ EnableAgent(w)
        PROVE  lock'[o] # "auto_streak"
    BY <1>1, <2>1 DEF AdminDisable, AdminEnable, EnableAgent, Enable, StreakTypeOK
  <2>2. ASSUME UNCHANGED lock
        PROVE  FALSE
    BY <2>2
  <2>3. PICK r \in Requests : TripStreak(r)
    BY <2>1, <2>2 DEF Next, Statement, Arrive, FindByIdempotencyKey, InsertVerification, FindAgain,
         ResetStreak, ReadStreak, BumpStreak, Fail, PatchVerification, vars, users
  <2> QED BY <1>1, <2>3 DEF TripStreak, users, StreakTypeOK
<1> PICK n \in Nat : n = call[r].oldStreak + 1
  BY <1>1, StreakAssumption DEF StreakTypeOK, Calls
<1>3. n >= Threshold /\ InARow(RowsOf(o), o, n)
  BY <1>1, <1>2 DEF TripStreak, NewStreak, RunOK, Deciding, Run
<1>4. InARow(RowsOf(o), o, Threshold)
  BY <1>1, <1>3, StreakAssumption, InARowMono
<1>5. Cardinality(RowsOf(o)) \in Nat
  BY <1>1, RowsTyped, FS_CardinalityType
<1> QED BY <1>4, <1>5, StreakAssumption DEF InARow

(* Who is auto-disabled, and never had two requests under way at once, has *)
(* just been denying Threshold times in a row.                             *)
THEOREM StreakFollows == Spec => LockoutFollowsDenials
<1>1. StreakInv /\ RuleInv /\ [Next]_vars =>
        [\A o \in Operators \ overlapped : lock'[o] = "auto_streak" /\ lock[o] = "enabled" =>
           /\ Cardinality(RowsOf(o)) >= Threshold
           /\ LastRows(RowsOf(o), Threshold) \subseteq Denied(o)]_vars
  BY TripFollows
<1> QED BY <1>1, RuleInvHolds, PTL DEF Spec, LockoutFollowsDenials
===========================================================================
