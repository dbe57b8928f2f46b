--------------------------- MODULE OperatorStreak ---------------------------
(***************************************************************************)
(* Verdicts and the lockout they lead to: createVerification with its      *)
(* idempotency key, bumpOperatorStreak after it, patchVerification for a   *)
(* recapture, and the switches an admin, a reviewer and a superadmin have. *)
(*                                                                         *)
(* Every database statement is an action of its own and nothing here runs  *)
(* in a transaction: the streak is read by one statement and written by    *)
(* another, with any other request in between.                             *)
(***************************************************************************)
EXTENDS Integers, Sequences, FiniteSets

CONSTANTS
  Operators,    \* verification agents
  NoOperator,   \* the operator of a slot without a request
  Requests,     \* slots for POST /verifications calls under way at once
  Keys,         \* idempotency keys
  NoKey,        \* the key of a request that carries none
  Threshold,    \* streakDenyThreshold
  MaxVerdicts,  \* bound: verification rows
  MaxEdits,     \* bound: recaptures, and accounts switched by hand
  MaxFaults     \* bound: requests that end before the streak is written

ASSUME StreakAssumption ==
  /\ NoKey \notin Keys /\ NoOperator \notin Operators
  /\ IsFiniteSet(Requests)
  /\ Threshold \in Nat \ {0}
  /\ MaxVerdicts \in Nat /\ MaxEdits \in Nat /\ MaxFaults \in Nat

VARIABLES
  verifications,  \* the table, in insertion order
  denials,        \* users.consecutive_denials
  lock,           \* users.disabled_at and users.disable_reason
  call,           \* the request in each slot
  edits,          \* recaptures and switchings so far
  faults,         \* faults so far
  answers,        \* history: operator, key and row of every 2xx
  enabledAt,      \* history: rows in the table when last enabled
  awaiting,       \* history: the operators auto-disabled since a reviewer or
                  \* a superadmin last enabled them
  overlapped      \* history: the operators who have had two requests under way
                  \* at once, or one that failed

users == <<denials, lock, awaiting>>
history == <<answers, enabledAt, overlapped>>
vars == <<verifications, users, call, edits, faults, history>>

Verdicts == {"verified", "denied"}
Stages == {"idle", "find", "insert", "refind", "bump", "write"}

(* verdict is what the operator submitted, status what the row says now.   *)
Verification ==
  [operator: Operators, key: Keys \cup {NoKey}, verdict: Verdicts, status: Verdicts]

Idle ==
  [stage |-> "idle", operator |-> NoOperator, key |-> NoKey,
   verdict |-> "denied", oldStreak |-> 0]

Calls ==
  [stage: Stages, operator: Operators \cup {NoOperator}, key: Keys \cup {NoKey},
   verdict: Verdicts, oldStreak: 0..Threshold - 1]

StreakTypeOK ==
  /\ verifications \in Seq(Verification)
  /\ denials \in [Operators -> 0..Threshold]
  /\ lock \in [Operators -> {"enabled", "manual", "auto_streak"}]
  /\ call \in [Requests -> Calls]
  /\ edits \in 0..MaxEdits
  /\ faults \in 0..MaxFaults
  /\ answers \subseteq Operators \X Keys \X (Nat \ {0})
  /\ enabledAt \in [Operators -> Nat]
  /\ awaiting \subseteq Operators
  /\ overlapped \subseteq Operators

Init ==
  /\ verifications = << >>
  /\ denials = [o \in Operators |-> 0]
  /\ lock = [o \in Operators |-> "enabled"]
  /\ call = [r \in Requests |-> Idle]
  /\ edits = 0
  /\ faults = 0
  /\ answers = {}
  /\ enabledAt = [o \in Operators |-> 0]
  /\ awaiting = {}
  /\ overlapped = {}

---------------------------------------------------------------------------
(* POST /verifications                                                     *)

Who(r) == call[r].operator
Goto(r, stage) == call' = [call EXCEPT ![r].stage = stage]
Finish(r) == call' = [call EXCEPT ![r] = Idle]

(* The middleware lets an enabled account in.                              *)
Arrive(r, o, k, v) ==
  /\ call[r] = Idle
  /\ lock[o] = "enabled"
  /\ call' = [call EXCEPT ![r] = [Idle EXCEPT
       !.stage = IF k = NoKey THEN "insert" ELSE "find",
       !.operator = o, !.key = k, !.verdict = v]]
  /\ overlapped' = IF \E s \in Requests : Who(s) = o THEN overlapped \cup {o} ELSE overlapped
  /\ UNCHANGED <<verifications, users, edits, faults, answers, enabledAt>>

(* The rows under the request's key, and those its operator may see.       *)
Taken(r) == {i \in 1..Len(verifications) :
  call[r].key # NoKey /\ verifications[i].key = call[r].key}
Own(r) == {i \in Taken(r) : verifications[i].operator = Who(r)}

(* Operators named ...Mutant are bugs the properties must be able to see;  *)
(* no specification uses them.  Here a replayed denial counts again.       *)
ReplayMutant(r) ==
  /\ answers' = answers \cup {<<Who(r), call[r].key, i>> : i \in Own(r)}
  /\ Goto(r, "bump")

Replay(r) ==
  /\ answers' = answers \cup {<<Who(r), call[r].key, i>> : i \in Own(r)}
  /\ Finish(r)

FindByIdempotencyKey(r) ==
  /\ call[r].stage = "find"
  /\ IF Own(r) # {} THEN Replay(r) ELSE Goto(r, "insert") /\ UNCHANGED answers
  /\ UNCHANGED <<verifications, users, edits, faults, enabledAt, overlapped>>

(* Mutant: no unique index behind the look-up.                             *)
InsertVerificationMutant(r) ==
  /\ call[r].stage = "insert"
  /\ Len(verifications) < MaxVerdicts
  /\ verifications' = Append(verifications,
       [operator |-> Who(r), key |-> call[r].key,
        verdict |-> call[r].verdict, status |-> call[r].verdict])
  /\ answers' = IF call[r].key = NoKey THEN answers
                ELSE answers \cup {<<Who(r), call[r].key, Len(verifications')>>}
  /\ Goto(r, "bump")
  /\ UNCHANGED <<users, edits, faults, enabledAt, overlapped>>

(* The key is unique over the whole table, whoever inserted it.            *)
InsertVerification(r) ==
  /\ call[r].stage = "insert"
  /\ Len(verifications) < MaxVerdicts
  /\ IF Taken(r) # {}
     THEN Goto(r, "refind") /\ UNCHANGED <<verifications, answers>>
     ELSE /\ verifications' = Append(verifications,
               [operator |-> Who(r), key |-> call[r].key,
                verdict |-> call[r].verdict, status |-> call[r].verdict])
          /\ answers' = IF call[r].key = NoKey THEN answers
                        ELSE answers \cup {<<Who(r), call[r].key, Len(verifications')>>}
          /\ Goto(r, "bump")
  /\ UNCHANGED <<users, edits, faults, enabledAt, overlapped>>

(* The winner's row, or a plain error when the key is another operator's.  *)
FindAgain(r) ==
  /\ call[r].stage = "refind"
  /\ Replay(r)
  /\ UNCHANGED <<verifications, users, edits, faults, enabledAt, overlapped>>

---------------------------------------------------------------------------
(* bumpOperatorStreak                                                      *)

(* Mutant: an approval leaves the streak alone.                            *)
ResetStreakMutant(r) ==
  /\ call[r].stage = "bump" /\ call[r].verdict = "verified"
  /\ Finish(r)
  /\ UNCHANGED <<verifications, users, edits, faults, history>>

ResetStreak(r) ==
  /\ call[r].stage = "bump" /\ call[r].verdict = "verified"
  /\ denials' = [denials EXCEPT ![Who(r)] = 0]
  /\ Finish(r)
  /\ UNCHANGED <<verifications, lock, awaiting, edits, faults, history>>

ReadStreak(r) ==
  /\ call[r].stage = "bump" /\ call[r].verdict = "denied"
  /\ IF lock[Who(r)] = "enabled"
     THEN call' = [call EXCEPT ![r].stage = "write", ![r].oldStreak = denials[Who(r)]]
     ELSE Finish(r)
  /\ UNCHANGED <<verifications, users, edits, faults, history>>

(* Mutant: the denial that is being recorded is not counted.               *)
NewStreakMutant(r) == call[r].oldStreak

NewStreak(r) == call[r].oldStreak + 1

(* Mutant: the threshold is off by one.                                    *)
BumpStreakMutant(r) ==
  /\ call[r].stage = "write" /\ NewStreak(r) <= Threshold
  /\ denials' = [denials EXCEPT ![Who(r)] = NewStreak(r)]
  /\ Finish(r)
  /\ UNCHANGED <<verifications, lock, awaiting, edits, faults, history>>

BumpStreak(r) ==
  /\ call[r].stage = "write" /\ NewStreak(r) < Threshold
  /\ denials' = [denials EXCEPT ![Who(r)] = NewStreak(r)]
  /\ Finish(r)
  /\ UNCHANGED <<verifications, lock, awaiting, edits, faults, history>>

(* UPDATE ... WHERE disabled_at IS NULL: the second of two changes nothing. *)
TripStreak(r) ==
  LET o == Who(r) IN
  /\ call[r].stage = "write" /\ NewStreak(r) >= Threshold
  /\ IF lock[o] = "enabled"
     THEN /\ denials' = [denials EXCEPT ![o] = NewStreak(r)]
          /\ lock' = [lock EXCEPT ![o] = "auto_streak"]
          /\ awaiting' = awaiting \cup {o}
     ELSE UNCHANGED users
  /\ Finish(r)
  /\ UNCHANGED <<verifications, edits, faults, answers, enabledAt, overlapped>>

(* A statement fails or the request is cancelled; whatever it has inserted *)
(* stays, and the streak is not written.                                   *)
Fail(r) ==
  /\ call[r] # Idle
  /\ faults < MaxFaults /\ faults' = faults + 1
  /\ Finish(r)
  /\ overlapped' = overlapped \cup {Who(r)}
  /\ UNCHANGED <<verifications, users, edits, answers, enabledAt>>

---------------------------------------------------------------------------
(* Recapture and the switches                                              *)

Edit == edits < MaxEdits /\ edits' = edits + 1

(* PATCH /verifications/{id}: the row's status is recomputed.              *)
PatchVerification(i, s) ==
  /\ i \in 1..Len(verifications)
  /\ lock[verifications[i].operator] = "enabled"
  /\ verifications' = [verifications EXCEPT ![i].status = s]
  /\ Edit
  /\ UNCHANGED <<users, call, faults, history>>

Switch ==
  /\ Edit
  /\ UNCHANGED <<verifications, call, faults, answers, overlapped>>

Enable(o) ==
  /\ lock' = [lock EXCEPT ![o] = "enabled"]
  /\ denials' = [denials EXCEPT ![o] = 0]
  /\ enabledAt' = [enabledAt EXCEPT ![o] = Len(verifications)]

AdminDisable(o) ==
  /\ lock' = [lock EXCEPT ![o] = "manual"]
  /\ Switch /\ UNCHANGED <<denials, awaiting, enabledAt>>

AdminEnable(o) ==
  /\ lock[o] # "auto_streak"
  /\ Enable(o)
  /\ Switch /\ UNCHANGED awaiting

(* The superadmin, and a reviewer of a client the institution works for.   *)
EnableAgent(o) ==
  /\ Enable(o)
  /\ awaiting' = awaiting \ {o}
  /\ Switch

---------------------------------------------------------------------------
Statement(r) ==
  \/ FindByIdempotencyKey(r) \/ InsertVerification(r) \/ FindAgain(r)
  \/ ResetStreak(r) \/ ReadStreak(r) \/ BumpStreak(r) \/ TripStreak(r)

Next ==
  \/ \E r \in Requests, o \in Operators, k \in Keys \cup {NoKey}, v \in Verdicts :
       Arrive(r, o, k, v)
  \/ \E r \in Requests : Statement(r) \/ Fail(r)
  \/ \E i \in 1..MaxVerdicts, s \in Verdicts : PatchVerification(i, s)
  \/ \E o \in Operators : AdminDisable(o) \/ AdminEnable(o) \/ EnableAgent(o)

Spec == Init /\ [][Next]_vars

---------------------------------------------------------------------------
(* Properties                                                              *)

RowsOf(o) == {i \in 1..Len(verifications) : verifications[i].operator = o}
Denied(o) == {i \in RowsOf(o) : verifications[i].verdict = "denied"}

(* The last n rows of o among a set of its rows (all of them if fewer).    *)
LastRows(of, n) == {i \in of : Cardinality({j \in of : j > i}) < n}

(* A lockout rests on that many denials on record: a retry of a denial that*)
(* was recorded already, or that lost the race for its key, never counts.  *)
LockoutOnRecord ==
  \A o \in Operators :
    /\ denials[o] <= Cardinality(Denied(o))
    /\ lock[o] = "auto_streak" => Cardinality(Denied(o)) >= Threshold

(* Retries of one request get the same row, whether they found it first,   *)
(* inserted it or lost the race; no key ever answers two operators.        *)
RetryGetsSameRow ==
  \A x, y \in answers : x[2] = y[2] => x = y

(* The rule, in both directions, for an operator whose requests came one at *)
(* a time and all went through, whatever the others and the admins do      *)
(* meanwhile.  Who is auto-disabled has just been denying Threshold times  *)
(* in a row ...                                                            *)
LockoutFollowsDenials ==
  [][\A o \in Operators \ overlapped : lock'[o] = "auto_streak" /\ lock[o] = "enabled" =>
       /\ Cardinality(RowsOf(o)) >= Threshold
       /\ LastRows(RowsOf(o), Threshold) \subseteq Denied(o)]_vars

(* ... and nobody goes on after Threshold denials in a row since the       *)
(* account was last enabled.  Two requests at once do break this: both     *)
(* read the same streak, and one of the denials is lost from the count.    *)
ThreeDenialsLockOut ==
  \A o \in Operators \ overlapped :
    LET since == {i \in RowsOf(o) : i > enabledAt[o]} IN
    /\ lock[o] = "enabled"
    /\ \A r \in Requests : Who(r) # o
    /\ Cardinality(since) >= Threshold
    => ~(LastRows(since, Threshold) \subseteq Denied(o))

(* "Lockouts marked 'auto_streak' can ONLY be lifted by a superadmin or the*)
(* client's reviewer" (operator_streak_handlers.go:14).                    *)
OnlyReviewerLifts == \A o \in awaiting : lock[o] # "enabled"
===========================================================================
