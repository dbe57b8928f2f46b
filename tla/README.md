# A verification of the identity-verification portal

This directory models the parts of the repository whose correctness depends on
what several actors do at once (operators' requests, institution admins,
reviewers, browser tabs, the payment gateway, handlers that die half way) as
TLA+ modules. TLC checks them on small instances. TLAPS proves the safety
properties of every module, and the refinements between them, for every value of
their constants.

Paths below are relative to `src/`; `api/x.go` is
`backend/internal/api/x.go`, `wallet/x.go` is `backend/internal/wallet/x.go`,
`controlplane/...`, `otp/...` and `magiclink/...` likewise; a bare `X.jsx` or
`x.js` is a file of `frontend/src/` (`Dashboard.jsx` is the one in
`pages/client/`).

* [1. Inventory](#1-inventory)
* [2. Modules](#2-modules)
* [3. Runs](#3-runs)
* [4. Proofs](#4-proofs)
* [5. Findings](#5-findings)
* [6. Plan](#6-plan)
* [7. What is not modelled](#7-what-is-not-modelled)

## 1. Inventory

The program is a Go backend in two binaries over two Postgres databases:
`backend/cmd/server` (the *data plane*: institutions, operators, candidates,
verifications, wallet) and `backend/cmd/control-plane` (the *control plane*:
clients, the review of institutions). React frontends and Java matching
services surround it. Each browser tab runs its handlers to the next `await`,
applies the answer to whatever it shows by then, and shares nothing with other
tabs but `localStorage`. Several instances of the data plane may serve one
database. Every request runs in its own goroutine. Postgres runs at READ
COMMITTED, so the only coordination is row locks, unique indexes, foreign keys
and conditional `UPDATE`s.

| Component | State | Operations | Interacts with | Hard behaviour | What makes it correct |
|---|---|---|---|---|---|
| Wallet store, `wallet/wallet.go`, `db/schema.sql` | `wallets`, `wallet_transactions`, `users.spending_cap_paise`, `users.spent_paise` | `Debit`, `Credit`, `History`, `FindByRazorpayPaymentID` | all payers and payees below | overlapping transactions, two rows under one transaction, stale cap, deletion of the actor | balance = sum of the ledger; no overdraft; one credit per payment; charge and counter move together; cap honoured |
| Charge middleware, `api/wallet_middleware.go` | none of its own | `walletCharge` around the liveness handlers | wallet store, liveness handler, operator row | checks on reads that are stale at the debit; debit after the side effect; cancelled context; lost `COMMIT` answer | no charge without a pass; the answer tells the charge; every request is answered |
| Top-ups, `api/wallet_handlers.go`, `api/razorpay_webhook.go`, `wallet/orders.go` | `razorpay_orders` | order, verify-payment, webhook, admin credit | gateway, browser, wallet store | duplicated and late webhooks, two reporters of one payment, crashes between steps | 2xx only for credited payments; right organisation and amount; captured money is credited in the end |
| Verdicts and streak, `api/verify_candidate_handlers.go`, `api/operator_streak_handlers.go` | `verifications`, `users.consecutive_denials`, `users.disabled_at/_reason` | create, patch, bump streak, enable, disable | operators, admins, reviewers, superadmin, mail | retries under one key, read-then-write of the streak, switches in between | one row per key; lockout exactly after three denials; only a reviewer lifts it |
| Operator administration, `api/admin_operators_v2_handlers.go` | `users`, exam assignments | create, PATCH, DELETE, enable/disable, bulk import | purse, streak, sessions | a deletion or PATCH during a charge | purse never overcounts; ledger actors exist |
| Liveness and face gate, `api/verify_liveness_handlers.go`, `api/verify_face_handlers.go` | `liveness_checks` (90 s) | liveness-check, liveness-client-verified, face-match | charge middleware | pass recorded before it is paid; expiry against the match | no match without a fresh pass of the same session |
| Operator desk, `Dashboard.jsx` | the component's state, requests in flight | look-up, liveness and face, retake, finger, iris, save, certificate | verification rows | answers that land after the desk was cleared; saves repeated after a lost answer; controls hidden by overlays | verified only what was earned; the certificate shows the row; never a dead end |
| KYC control plane, `controlplane/api/kyc_handlers.go` | `institution_applications` of its own, `clients.kyc_review_mode` | submit, approve, reject, revoke, resubmit | data plane over HTTP, two desks of reviewers | commit here, best-effort call there; decisions from pages that are old | an approval is final; both sides agree when nothing was lost |
| KYC data plane, `api/onboarding_register_handlers.go`, `api/reverse_proxy_kyc.go`, `api/internal_handlers.go`, `api/admin_kyc_resubmit_handlers.go` | `institution_applications`, documents, `organizations` | draft, upload, submit, create organisation, mirror decisions, mend and resubmit | control plane, wizard | lost answers, drafts of two tabs, reads in two statements | the login opens what is reviewed; unlocked only if approved |
| Registration wizard, `Register.jsx`, `OtpVerificationField.jsx` | steps, files, OTP tokens | type, send and verify a code, choose documents, submit | data plane, code store | late answers, edits while a submission runs | "submitted" is filed; an accepted address was proven |
| KYC pages, `KycInbox.jsx`, `ApplicationDetail.jsx` of the control plane's portal, `KycResubmit.jsx` | lists and drawers | approve, reject, revoke, resubmit | both planes | a page may be old | see the planes |
| One-time passwords, `otp/otp.go` | in-memory map under a mutex | send, verify, proof token | mail | cooldown, expiry, attempts, process restart | a bounded number of guesses and one token per code |
| Magic links, `magiclink/magiclink.go`, `api/onboarding_setpassword_handlers.go`, `SetPassword.jsx` | `magic_links`, `users.password_hash` | issue, verify, consume | landing page | two consumers at once, lost answers, rollbacks | consumed at most once; the page's word can be trusted |
| Portal session, `authStorage.js`, `api.js`, `auth.jsx`, `OperatorSelfieGate.jsx` | token in `localStorage`, flags per tab, a latch | sign in, 401, selfie, sign out, reload, back | `auth/jwt.go`, `api/helpers.go` | tabs that share a token, late answers, a latch | no desk before a selfie; a dead session's desk closes |
| Capture storage, `storage/captures.go` | S3 objects | put temporary, promote | verdicts | promotion by a goroutine after the answer | recorded rows find their images |
| Read-only, stateless and CRUD parts | | dashboards, exports, PDF, matching clients, exam catalogue, candidate index, mail, SMS | | | |

`PROJECT.json` lists every component with its status, and under `hazards`
every place where a test would hardly reach, with the property that covers it.

## 2. Modules

```
WalletLedger            what a wallet promises
   ^ implements (proved)
WalletStore             Debit and Credit, statement by statement, with locks
   ^ extends, implements (proved)        ^ extends, implements (proved)
WalletCharge            the middleware   WalletTopUp      orders, browser, webhook

OperatorStreak          server: verdicts, streak, lockout
VerificationDesk        browser: one operator's desk, its requests in flight

KycApplication          what a registration promises an institution
   ^ implements (proved)
KycPlanes               wizard tabs, data plane, control plane, two desks

OtpProof                wizard's OTP field, code store, registerInit's check

OneTimeLink             what a magic link promises
   ^ implements (proved)
MagicLink               landing page, links, the account's password

PortalSession           tabs of one browser, one token
```

Each `X_proofs` holds the theorems of module `X`, `WalletPayments_proofs` those of
`WalletCharge` and `WalletTopUp`, which share their lemmas about the store; each
`MCX` instantiates `X`.

### WalletLedger
The abstract specification: `balance` and `book` per organisation, one action
`Post`. A posting changes both at once, never overdraws, and carries a payment
id that is nowhere on any book.

### WalletStore
Models `wallet/wallet.go` and the constraints of `db/schema.sql` it leans on.
The table variables (`balance`, `ledger`, `nextId`, `cap`, `spent`, `live`) hold
*committed* values only. What a transaction has written so far is `row[t]` with
the locks it holds (`walletLock`, `userLock`); rollback therefore means only
dropping those. The slots `Tx` are concurrent calls.

| Code | Action |
|---|---|
| `Debit`: `UPDATE wallets ... WHERE balance >= amount` and the ledger `INSERT` | `DebitWallet`; `DebitInsufficient`; `DebitActorGone` (foreign key) |
| `Debit`: `UPDATE users SET spent = spent + amount WHERE cap IS NULL or spent + amount <= cap` | `DebitUser`; no row touched: `DebitOverCap` |
| `Debit`: re-read of the user | `DebitCapExceeded`, `DebitUncapped` |
| `Credit` | `CreditWallet`, `CreditDuplicate` (unique index), `CreditActorGone` |
| `tx.Commit` | `Commit(t, "ok")`, `Commit(t, "error")` when the answer is lost |
| deferred `tx.Rollback`, cancelled context, crash | `Abort` |
| PATCH and DELETE of an operator (`api/admin_operators_v2_handlers.go`) | `PatchPurse`, `DeleteUser` |

READ COMMITTED is modelled as follows. A conditional `UPDATE` that is false on
the committed row touches nothing and does not wait. One that is true waits for
the row lock, and then decides again. The first statement of both calls updates
the wallet row, so it and the ledger `INSERT` behind it are one action: nothing
between them is visible to anyone. The `INSERT` takes a key-share lock on its
actor's row, which blocks a deletion and not an update. A deletion that races an
uncommitted charge waits and then fails on the foreign key, so it is the same as
a deletion that does not happen. `nextId` is an identity sequence and is not
rolled back.

Two history variables, which nothing but properties reads, go with the purse.
`billed` is what an operator was charged since the last reset. `raced` holds the
operators whose cap an admin has cleared between the two looks `Debit` takes at
the user, that is, with a charge at `recheck` (`ClearsUnderCharge`): only then does
`DebitUncapped` commit a charge the counter does not show (section 5). A reset
with no charge of the operator open takes the operator out again, as it makes
both numbers 0. Clearing a cap at any other time is an ordinary step.

The branch of `Debit` that treats a missing user as a no-op cannot be reached,
because the ledger `INSERT` has failed before. The kind `refund` has no caller.

### WalletCharge
Models `walletCharge` from the read of the operator row to the answer, on top of
`WalletStore`. A request passes the stages *idle, balance, inner, debit,
debiting, done*. `Arrive` is the read of the operator's window, cap and counter,
`CheckBalance` the read of the balance, `InnerPass` and `InnerNoPass` the
wrapped liveness handler. `StartDebit` to `DebitCommits` are the call of `Debit`
and the answer each of its outcomes gets. `passer` is the `liveness_checks`
table: a session with a row is open for the face match, and the row keeps the
operator who first passed it, as the upsert's `COALESCE` does. The admin's
PATCH (whose check of the cap against the balance happens outside the
transaction that writes it), the deletion of an operator, and credits that
arrive meanwhile (the slots of `Tx` that are no requests) complete the system.

### WalletTopUp
Models the order handler, verify-payment and the webhook on top of
`WalletStore`. The gateway is external and modelled by what the handlers rely
on: it issues an order id, captures a payment for an order whose id has reached
a browser, and delivers the webhook until it sees a 2xx. A slot of `Tx` is one
handler call, and `call` is its program counter: find the payment, find the
order, credit, find again after any error of `Credit`, mark the order, reply.
The webhook looks for the order first and the browser for the payment first, as
in the code. `Crash` cuts a call off at any point, which includes a reply that
got lost. A signature is modelled by what it establishes: the order a payment
was captured for (`Ord`).

### OperatorStreak
Models `createVerification` with its idempotency key, `bumpOperatorStreak`,
`patchVerification`, and the three kinds of switches. No transaction spans two
statements there, so every statement is an action. `Arrive` carries the
middleware's check of `disabled_at`; a request that has been let in finishes
even if the account is switched off meanwhile. The variables under `history`
and `awaiting` are history variables. One of them, `overlapped`, holds the
operators who have had two requests under way at once, or one that failed half
way: for these the rule of three denials does not hold (section 5), for all
others it does, in both directions, whatever else happens around them.

| Code | Action |
|---|---|
| look-up by idempotency key | `FindByIdempotencyKey`, `Replay` |
| `INSERT`, and the look-up after a unique violation | `InsertVerification`, `FindAgain` |
| `bumpOperatorStreak`: reset; read; write; lock | `ResetStreak`, `ReadStreak`, `BumpStreak`, `TripStreak` |
| a request that ends before the streak is written | `Fail` |
| `patchVerification` | `PatchVerification` |
| admin's disable and enable, reviewer's or superadmin's enable | `AdminDisable`, `AdminEnable`, `EnableAgent` |

### VerificationDesk
Models `Dashboard.jsx` with its full-screen overlays against the verification
rows. `desk` is what `resetDesk` clears, `screen` what it leaves alone. Every
click leaves a call in `calls`; its answer is applied to whatever the desk shows
by then. A control is an action only where no overlay covers it, and the lids
(the transition that runs while the save is under way) hide everything.

| Code | Action |
|---|---|
| look-up, its answers, the record card | `LookUp`, `LookupFound`, `LookupRefused`, `RecordShown` |
| photo and liveness, with and without the blink detector | `TakePhoto`, `CaptureLiveness`, `Blink`, `LivenessPassed` (with or without a still photo), `LivenessFailed`, `FaceAnswered` |
| the detector's `__error__`: models that do not load, no usable video | `DetectorFails` |
| retake, continue anyway, next stage | `RetakePhoto`, `CarryOn`, `NextStage` |
| finger and iris | `OpenBio`, `CloseBio`, `BackToFinger`, `Scan`, `ScanAnswered`, `BioNext` |
| `submitFinalVerification`, its POST or PATCH, its answers | `LidsShut`, `LidsOpen`, `SaveVerification`, `SaveAnswered`, `SaveFailed` |
| `resetDesk`, reload | `ResetDesk`, `Reload` |

The verdict is computed as the code does, from what the desk shows at the save.
What the code takes for a match (an absent gallery template counts as one for
finger and iris, 1185 to 1187) is a match here. `detector` is *off, armed,
blinked* or *failed*: `livenessArmed` of the code is everything but *off*, and a
detector that has blinked or failed sends nothing more, though the code still
takes it for armed. `guide` says whether `face_guide.js` was loaded. `orphaned`
(history) says that the desk was cleared with a call still in flight. The guards of the controls that
always change something are named (`MayLookUp`, `MayCapture`, ...), because a
theorem speaks of them.

### KycApplication
The abstract specification of a registration: the application that is `filed`,
the reviewers' `ruling`, the applications a login has `opened` and a portal is
`unlocked` for. An application is filed once; a rejection can be reopened, an
approval is for good; a login opens what is filed, and the portal is unlocked
only for what was approved. There are no drafts, tabs, desks or calls in it.

### KycPlanes
Models one institution's application on three machines: wizard tabs, the data
plane (`dp`, `docs`, `org`) and the control plane (`cp`). A handler commits on
its own plane and then calls the other: the call is a member of `wire`, served
later or lost (`Lose`); the documents of a submission are read by a statement of
their own (`HydrateDocs`). Decisions come from pages that may be old: `listed`
keeps the slices a page of a desk may still show the row in.

| Code | Action |
|---|---|
| wizard: review, edit, choose or remove a file, submit, start over | `GoToReview`, `Edit`, `HandleFile`, `RemoveDoc`, `Finalize`, `StartOver`, `RequestFails` |
| `registerInit` with its clean-up of earlier rows, uploads, submit | `RegisterInit`, `InitRefused`, `RegisterUploadDoc`, `UploadRefused`, `Submit` |
| control plane: submission, provisioning, answer; data plane: mark as pending | `CpSubmit`, `SubmitRefused`, `Provision`, `SubmitAnswered`, `Reconcile` |
| decisions of either desk, single or bulk | `AdminApprove`, `ClientApprove`, `Reject`, `Revoke` |
| their fan-outs on the data plane | `MirrorApprove`, `MirrorReject`, `MirrorRevoke` |
| an admin mends a rejected application | `AdminDeleteDoc`, `AdminUploadDoc` |
| an admin resubmits: status; required documents; `UPDATE`; documents again for the call; the control plane | `AdminResubmit`, `CheckRequired`, `BackToPending`, `CallCPResubmit`, `CpResubmit` |

The login's handlers check the status of the application first and run their
statements afterwards; only a resubmission's `UPDATE` looks at the status again,
and how many rows it touched is ignored. So
`requireOwnedRejectedApp` is apart from what follows it. For a resubmission the
stages of its call in `wire` say how far it has come; for documents `edits` holds
what requests that were let in may still do, however late (`Admit`: whatever is
possible while the application is rejected). A `DELETE` names a document by its
id, so one that is late does nothing to a document uploaded since. `undercut` is
a history variable: a required document was deleted between a resubmission's two
reads of the documents (section 5).

All drafts carry the institution's own identity (AISHE code, PAN, email and
mobile), which is what `registerInit` and the control plane's unique indexes
compare. The short cut for a row submitted twice is left out, since the wizard
never submits a row twice; the review mode is fixed in each behaviour; fields
edited at a resubmission are not told apart.

`ImplementsApplication` maps `filed` and `ruling` to the control plane's row, and
reads `Opened` and `Unlocked` off the data plane: the row the login's organisation
points to, as long as it exists, and the rows marked approved.

### OtpProof
Models the wizard's OTP field, the in-memory store, and the check of the proof
token in `registerInit`. A code is the number of its issue; `value`, `token` and
`field` are a tab's, and the answer of a request finds whatever they are by then.

| Code | Action |
|---|---|
| type, send, verify; leaving and returning to the step | `Type`, `StartEditing`, `SendOtp`, `VerifyOtp`, `LeaveStep`, `ReturnToStep`, `StartOver` |
| answers | `SendAnswered`, `VerifyAnswered` |
| `Generate` | `Generate`, `GenerateCooling` |
| `Verify` | `VerifyNothing`, `VerifyWrong`, `VerifyMatch` |
| time: cooldown, expiry, clean-up; token's half hour | `CoolDown`, `CodeExpires`, `CleanUp`, `TokenExpires` |
| server restart, request lost | `Restart`, `Lose` |
| token checked against the address | `RegisterInit` |

### OneTimeLink
The abstract specification of a magic link: it is made, and used at most once,
and that use and nothing else sets the password of the link's account.

### MagicLink
Models the landing page, the two handlers and the store of links. A request runs
its statements one by one at READ COMMITTED: `DetectPurpose` (or `DetectFails`,
where a database error leaves the purpose at its default), `Select`, `Mark`
(waits while another request holds the row, then looks again), `Commit` of mark
and password, `Answered`. `RollBack`, `Expire`, `LoseAnswer`, `CheckFails` and
`Restart` are the faults. A password is named by the attempt that typed it.
`ImplementsOneTimeLink` maps a committed `used_at` to *used* (`LinkStates`); a link
that has expired or that a request holds is still only *made*.

### PortalSession
Models one portal's session in the tabs of one browser: the token in
`localStorage`, `onUnauthorized` with its latch, the selfie gate's flag in
`sessionStorage`. `Authenticate` and `SelfieServe` are the server's side of a
request; a heartbeat is judged when it is answered. A token is the number of the
sign-in, and tokens die in their order (`dead`), by age or because the account
is disabled; signing out only forgets the token. Two things are left out: an
account that is enabled again, whose unexpired tokens would live again, and a tab
the browser opens as a duplicate, which would start with a copy of the other's
`sessionStorage` (the flags).
`SignIn`, `Enter`, `Notice`, `Poll`, `SendSelfie`, `Logout`, `Load` (a page
load, which opens the latch again) and `BackForward` are what a tab does;
`LoginAnswered`, `LoginRefused`, `PollAnswered` and `SelfieAnswered` what
answers do to it; `Revoke` and `Lose` come from outside.

### Operators named `...Mutant`
Each is a plausible bug in the operator defined after it. No specification uses
them. `PROJECT.json` pairs each with a property that must fail once the bug
replaces the operator.

## 3. Runs

`tlc -config X.cfg MCModule.tla`, with the MC module named after the cfg's
prefix. Deadlock is checked in the desk and session runs; the other models have
bounds at which they stop (`MaxRows`, `TopUpRows`, `MaxVerdicts`, `MaxDrafts`,
`MaxCodes`, answered requests), so their cfgs say `CHECK_DEADLOCK FALSE`.

| Run | Cfg | Checks | Shows |
|---|---|---|---|
| `charge` | `MCWalletCharge` | `ChargeTypeOK`, `NoChargeWithoutPass`, `ReplyTellsCharge`, `PurseTruthful`, `LedgerChain`, `IdsInCommitOrder`, `ActorsExist`, `ChargeUsesStore`, `EveryRequestAnswered` | two requests of one or two operators, a credit, and an admin who sets, clears and resets caps and deletes operators: no overdraft, unbroken ledgers, nobody deleted is named; counter = charges but for finding 4; waits for row locks end |
| `purse_cleared` | `MCWalletChargeCleared` | `PurseAlwaysTruthful`, violated | finding 4 |
| `topup` | `MCWalletTopUp` | `TopUpTypeOK`, `AckedIsCredited`, `DepositMatchesOrder`, `PaymentCreditedOnce`, `TopUpUsesStore`, `AbstractLedger`, `CapturedIsCredited` | browser and webhook report one payment at once and repeatedly, two admins of two organisations with an order each, a call cut off anywhere: nobody's money lands elsewhere, twice, or is lost; the refinement of `WalletLedger` |
| `streak` | `MCOperatorStreak` | `StreakTypeOK`, `LockoutOnRecord`, `RetryGetsSameRow`, `ThreeDenialsLockOut`, `LockoutFollowsDenials` | two operators, two requests at once that may share a key or fail, a recapture or a switch between any two statements |
| `streak_lift` | `MCOperatorStreakLift` | `OnlyReviewerLifts`, violated | finding 1 |
| `desk` | `MCVerificationDesk` | `DeskTypeOK`, `VerdictEarned`, `CertificateTruthful`, `NeverTrapped` | candidates with every kind of enrolment, a detector that may fail, answers late, failed or lost, the candidate changed in between |
| `desk_late` | `MCVerificationDeskLate` | `VerdictAlwaysEarned`, violated | finding 2 |
| `kyc` | `MCKycPlanes` | `KycTypeOK`, `DoneIsFiled`, `ImplementsApplication`, `AgreeWhenQuiet`, `ApprovalIsFinal` | two tabs, two desks, calls late or lost, documents mended and resubmitted statement by statement, all three review modes; the refinement of `KycApplication` |
| `kyc_both` | `MCKycPlanesBoth` | `SuperadminFirst`, violated | finding 3 |
| `otp` | `MCOtpProof` | `OtpTypeOK`, `AcceptedTargetProven`, `CodeBudget` | two addresses, three requests in flight, codes that expire, are guessed, lost in the mail or forgotten by a restart |
| `links` | `MCMagicLink` | `LinkTypeOK`, `ImplementsOneTimeLink`, `DoneMeansSet`, `PageSettles` | two pages with two submissions each, an invitation and a reset link of one account, two faults; the refinement of `OneTimeLink` |
| `session` | `MCPortalSession` | `SessionTypeOK`, `SelfieBeforeDesk`, `DeadSessionEnds` | two tabs, two sign-ins, a token that expires, is replaced, signed out, reloaded and refused |

**Bounds, wallet.** Two concurrent calls are enough for every interference of two
transactions over one wallet row and one user row, since a third could only wait
for the same locks; the charge run has a third slot for credits. `MaxRows` (ids
handed out, rolled-back ones included) lets four rows be attempted in the charge
run: two credits, a charge against them, and a call that loses. A fee of 1
against a cap of 1 makes the first charge fit and the second overshoot, at once
and in turn, and the cap may be set, cleared and reset at any time. One
payment suffices, since what matters is that two reporters, or two
organisations, compete for it. In the top-up run two orders of two organisations
stand beside it, so a mix-up would show. `MaxFaults` = 1 cuts one call off at
any point; what follows is the retry. `WalletStore` has no run
of its own: the two runs check its invariants and its refinement where the calls
come from its real callers. There one payment is only ever credited to the
organisation of its order, so two transactions with the same payment meet at the
wallet row before they meet at the unique index; that the index and its waiters
(`IndexBusy`) also keep callers with different organisations apart is proved
(`PaymentCreditedOnceHolds`, `StoreImplementsLedger`).

**Bounds, streak.** The threshold is lowered to 2, so that three verdicts suffice
for a denial to race the one that trips the lock; `streak_lift` has the code's
own 3. `MaxEdits` bounds recaptures and switches by hand together.

**Bounds, browser and onboarding.** The desk run has four candidates, one for
each kind of enrolment, and two sessions, so that answers of the first can meet
the second. In `kyc` two tabs and two drafts let one replace the other's; three
numbered calls allow a rejection, a resubmission or revocation and an approval
to be under way at once; one call may be lost. In `otp` one tab with two
addresses shows every mix of answers and addresses (the store never looks at who
calls); two guesses instead of five make the last try and the one after it
happen. `links` and `session` have two tabs and two tries or tokens, so that
each may meet the other's and its own earlier one. The symmetry sets permute
slots, sessions, tabs, addresses or operators, which no action distinguishes;
runs with a liveness property use none.

**Fairness.** `charge` assumes strong fairness of each request's handler
(`SF_vars(Handle(r))`): a goroutine keeps running, and Postgres grants a
contested row lock to its waiters in turn, so a request that can take the lock
again and again takes it in the end. Of the credits it assumes only that an open
transaction ends. `topup` assumes weak fairness of handler steps, and strong
fairness of the webhook's delivery for each payment: the gateway retries until it
sees a 2xx (that is why handlers answer 5xx on failures) and browser calls occupy
a slot only for a while. `links` assumes that requests in flight and open
transactions are served and that the page's check is sent. `session` assumes
that the heartbeat of an open desk goes on (it is a timer) and that its requests
are answered or given up. Interruptions, credits, admins, operators, reviewers
and applicants are assumed nothing about.

## 4. Proofs

All constants are arbitrary sets; each module names its assumption
(`StoreAssumption`, `ChargeAssumption`, `TopUpAssumption`, `StreakAssumption`,
`DeskAssumption`, `OtpAssumption`, `LinkAssumption`, `KycAssumption`,
`SessionAssumption`), and TLC evaluates it in the run. They say what the
declarations say: amounts are positive, null values are no members, bounds are
naturals, every operator or admin has an organisation, the slots of requests are
finitely many.

* `WalletStore_proofs`: `StoreInv` is inductive. `LedgerChain` alone is not: a
  commit appends a row computed earlier, so one needs that an open transaction
  holds its wallet row (`WalletLocks`), that the row it has inserted still
  continues the committed balance and its payment is still unrecorded
  (`PendingRows`), and that a transaction holding a user's row carries a charge
  that fits the cap (`UserLocks`). `IdsHandedOut` makes the next id larger than
  all committed ones. `NextInv` has one lemma per action; from the invariant
  follow `TypeCorrect`, `LedgerChainHolds`, `IdsInCommitOrderHolds`,
  `PaymentCreditedOnceHolds`, `ActorsExistHolds`, and three statements that no run
  repeats: `PurseNeverOvercountsHolds`, `CapHonouredHolds` and
  `LedgerAppendOnlyHolds`. (`StoreTypeOK` is a part of `ChargeTypeOK` and of
  `TopUpTypeOK`.)

  `PurseTruthfulHolds` has no hypothesis: admins clear, set and reset caps at any
  time. Its exception is in the statement, the operators in `raced`. The proof
  adds `PurseInv`: a debit found over the cap was judged by a cap that is still
  set unless its operator is in `raced`, and so a charge about to commit holds its
  user's row. For all operators the counter is proved never to say too much
  (`PurseNeverOvercountsHolds`).

  `StoreImplementsLedger`: under the mapping that keeps of each ledger row its
  amount, balance and payment, `Commit` is a `Post`; every other step leaves both
  variables alone (the actor is not part of the mapping: that no row names a
  deleted user is `ActorsExist`). That a commit is a legal posting (no overdraft, payment not
  posted) is again `PendingRows`; unlinking an actor is invisible.
* `WalletPayments_proofs`: `ChargeInv` relates a request's stage, session, reply
  and payment. `ChargeUsesStoreHolds` shows that requests, PATCHes, deletions
  and credits are a behaviour of the store, so all theorems above hold under the
  middleware; `ChargePurseTruthful` states one of them there.
  `NoChargeWithoutPassHolds` and `ReplyTellsChargeHolds` follow from `ChargeInv`.

  `TopUpInv` ties a call to the money it is about
  (`CallOf`): a call under way has a captured payment, its open transaction
  carries that payment with its order's organisation and amount, and past the
  credit the payment is recorded. It is inductive only together with `StoreInv`,
  which says that a recorded payment stays recorded (`RecordedStays`, from the
  append-only ledger); so `NextTopUp` assumes both. From it follow
  `TopUpUsesStoreHolds`, `DepositMatchesOrderHolds`, `AckedIsCreditedHolds`,
  and, without a run, `VerifiedIsCreditedHolds` and `CapturedHasOrderHolds`.
* `OperatorStreak_proofs`: that the streak never exceeds the denials on record is
  not inductive, because a request that has inserted a denial will still add one.
  `StreakInv` says that every denial on record pays for one unit of the streak:
  the streak plus the requests that have recorded a denial and not counted it
  (`Pending`) is at most their number, and so is the streak a request has read
  and will write back (`Counted`). With the uniqueness of keys and of answers
  (`KeysUnique`, `AnswersOnRecord`) follow `StreakOnRecord` and `StreakRetry`.

  The other direction, that denials do lock out, holds of an operator whose
  requests come one at a time. `RuleInv` says of such an operator that at most one
  request is under way (`Alone`), that the streak is no more than the denials at
  the end of the operator's rows and, while enabled, no fewer than those since
  (`Run`), and that a request between its insert and its write carries the one row
  the streak has not counted (`RunOK`). The rows are a growing table, so the proof
  rests on how its last `k` rows change when one is added (`LastRowsGrow`,
  `LastRowsMono`). Hence `StreakLocksOut` and the action property `StreakFollows`.
* `VerificationDesk_proofs`: a verdict is put together from flags that were set by
  answers to calls started earlier, so `VerdictEarned` is not inductive. `DeskInv`
  adds that one save at most is in flight (`Single`) and, as long as no call has
  outlived its candidate, that every flag on the desk, and every flag a save
  carries, was earned in the desk's own session (or is of a modality not on file)
  and that every call is about that session (`Loyal`). `DeskVerdict` and
  `DeskCertificate` follow. Both properties have that condition in their
  statement; what happens without it is a finding of section 5.

  `Waiting` needs no such condition: whatever is disabled or spinning has a call in
  flight whose answer ends it (`DeskWaits`), because an answer either ends the wait
  for its own kind of call or leaves the call the desk waits for next
  (`ShowWaits`). Together with the stages a biometric card can be open in (`DeskOK`)
  it gives `DeskWayOut`: with every call answered one of the named guards holds, or a
  detector that works waits for a blink, except in the two states of
  `StuckInCapture` (section 5). This is the part of `NeverTrapped` that needs no
  `ENABLED`: that a control whose guard holds also changes something stays with TLC.
* `OtpProof_proofs`: `OtpInv`. The store's part (`EntryOK`): an entry holds a code
  no other entry holds and nobody has used, and its attempts are the guesses
  compared with it; hence `OtpBudget`. The browser's part (`ProofOK`): a
  right guess was mailed to somebody, and a token in a tab or in an answer under
  way stands for a proven address; hence `OtpAccepted`.
* `MagicLink_proofs`: `LinkInv`. While a request holds a link's row the link is
  unused, and no two hold it (`Apart`); a link is used exactly when one password
  was set by it (`SetOK`); a request a page still listens to is its last attempt.
  `LinkOnce` and `LinkDone` follow.

  `LinkRefinement`: `Commit` is a `Use`, `Generate` a `Make`, and every other step,
  restarts and rollbacks included, a stutter. That a commit is a legal use (the
  link made, and not used by another) is `LinkInv` together with `Made`: pages and
  requests are only ever about links that were made.
* `KycPlanes_proofs`: `KycInv`. Every call under way fits what is filed
  (`CallOK`, `Filing`): a mirror or a provision names a row the control plane
  holds, and an approval under way means that it is approved.
  `KycLogin` and the action property `KycApproval` follow.

  `KycRefinement` needs nothing more: by `KycInv` the login opens the application on
  file and only that one is ever marked approved (`Views`), so a step of the
  control plane files, rules, reopens or is invisible, a provisioning opens the
  login or unlocks the portal, and no late mirror, other tab's registration or
  resubmission undoes what is opened or unlocked. The login's late document
  requests touch that row and no other, because there are none without a login
  (`LoginInv`). It holds in every history,
  whereas the planes need agree only in calm ones.

  `FiledInv` is about who may still change a draft: the tab that uploads to it,
  then the call that submits it, then nobody, because it is on file (`OneOwner`).
  Each has, or has still to upload, every required document unless the draft was
  replaced meanwhile. A resubmission that has counted the required documents finds
  them at its second read unless it was undercut (`CallFull`), since nothing else
  takes documents from the row on file (`Moves`). This gives `KycDone`. `CalmInv` is about the two planes: in
  a history without losses and overlaps at most one call is under way, and what it
  has done and will do is all that separates them (`CalmCall`, for a resubmission
  by its stage); without a call they agree. This
  is `KycAgreement`.
* `PortalSession_proofs`: the desk is opened by the answer to a selfie, or by a flag
  an earlier answer left in the tab, so `SelfieBeforeDesk` is not inductive.
  `SessionInv` adds that a tab with a flag was photographed (`Selfied`), that an
  accepted selfie on its way back is on the server's record (`CallOK`), and that a
  tab awaits one sign-in and one selfie at most (`Single`), which `SessionTypes`
  counts. `SessionSelfie` follows.

`LinkOnce` and `KycLogin` say of the detailed state what the refinements say of the
abstract one; no run repeats them.

**Only model-checked:** the four liveness properties (the prover does not do
fairness), and `NeverTrapped` as it stands (`ENABLED`).

## 5. Findings

Each of the four is a run that must end in a violation.

1. `streak_lift`: an admin who disables an auto-disabled agent replaces the
   reason, and may then enable the agent; only a reviewer should.
2. `desk_late`: the answer of an iris scan counts for whoever is on the desk when
   it arrives. The next candidate's iris is then taken as matched, and the row is
   saved as verified although it never was.
3. `kyc_both`: in review mode `both` the client's desk approves, from an old page,
   what has gone back to the superadmin.
4. `purse_cleared`: if a cap is reached, `Debit`'s `UPDATE` of the counter touches
   no row and the user is read again. An admin who has cleared the cap in between
   lets the charge commit with the counter unmoved (`wallet/wallet.go:296`),
   where 260 to 262 say "either both happen or neither".

The following were met while modelling and have no run of their own. The models
contain the behaviour, and the checked properties are stated so as to hold with
it (the conditions `orphaned`, `StuckInCapture`, `overlapped`, `crossed`, `lost` and
`undercut` name it; the proofs show that nothing else breaks them).

**Wallet.**
* The pass is recorded before the debit; when the debit is refused or fails, the
  session stays open and unpaid. And every pass is charged, retakes included, as
  `api/wallet_middleware.go:93` says, while `api/server.go:286` calls retakes
  within five minutes free.
* Deleting an operator who was the first to pass a session's liveness check is
  refused by `liveness_checks.operator_id`, which the deletion does not clear.
  Deleting an admin who has ordered a top-up always fails, because
  `razorpay_orders.actor_user_id` is NOT NULL (`api/internal_handlers.go:860` says
  that every such column is nullable); `DeleteAdmin` models it.

**Streak.**
* Two denials at once read the same streak, so one is lost from the count. The
  lockout mail is sent also when the `UPDATE` touched no row because another
  request had tripped the streak.
* A recapture that turns a denial into an approval leaves the streak as it is.

**Desk.**
* Candidates of whom nothing or only a face is on file reach the certificate
  without a save (`Dashboard.jsx:1904`), and it shows VERIFIED unless the result
  is `denied`. A save error is not displayed there (1650).
* A slow answer to a save lands on the next candidate.
* The operator can be stuck in the full-screen capture, where "Take the photo" is
  the only control and only arms a detector that is armed already (1014 to 1021).
  `StuckInCapture` names the two states, both left only by a reload:
  - the detector has reported `__error__` (models that do not load, no usable
    video) before a blink. 589 to 595 go on as if a face were in view and leave
    `livenessArmed` set, so the effect that starts the detector does not run
    again. `face_guide.js:4` says "Any failure -> __error__ -> the screen's manual
    fallback", and the comment at 988 to 995 that the operator can finish without
    the detector; that fallback exists only where the script was never loaded.
  - the gate has passed and the face match gave no decision: it errored out (963
    to 969), or no still photo could be taken (975 to 980, "please try again").
    The gate row stands, so the detector does not start again either.
* A finger or iris without a gallery template counts as a pass (1185 to 1187). The
  comment at 1033 promises that a retake is not debited twice.

**KYC.**
* An approval whose fan-out is lost leaves the control plane approved and the
  data plane pending, and nothing repairs it (`controlplane/api/kyc_handlers.go:1374`,
  `api/internal_handlers.go:1347`); the same holds for the organisation of a
  submission (`controlplane/api/kyc_handlers.go:449`). A late fan-out of a
  rejection, after a revocation and an approval, finds the row no longer pending
  and changes nothing; before the approval's mirror it leaves the data plane
  `rejected`. `ApplicationDetail.jsx:186` reports a failed provisioning as a
  hand-over.
* A resubmission whose call failed cannot be retried: the retry finds the row
  pending and answers 409, while the comment
  (`api/admin_kyc_resubmit_handlers.go:511` to 513) says a retry fires it again.
* A resubmission does not keep what it has checked. The required documents are
  counted (`api/admin_kyc_resubmit_handlers.go:441` to 466), the row is updated
  (485), whatever rows that touched, and the documents are read a second time for
  the control plane (521), which counts nothing; a deletion checks the status and
  deletes with no look at it (361). A Remove clicked while Resubmit is under way,
  which the page allows in one tab (`KycResubmit.jsx`; another tab of the same
  login does as well), so files an application without a required document,
  where 418 to 424 promise that the "required document set" is on file. It is
  the condition `undercut` of `DoneIsFiled`.
* `Finalize` registers anew at each attempt and deletes the draft of a submission
  under way in another tab; the two reads of `hydrateDraftPayload` may then file
  an application without documents. After a rejection the institution cannot
  register again, since its login exists.

**Codes and links.**
* "Verified" may stand beside another address than the one proven (a late answer);
  the registration is then refused with "token target mismatch". The last wrong
  guess deletes the entry and with it the cooldown; the branch for
  `attempts > maxTries` cannot be reached. A mail that could not be sent leaves
  its code and cooldown behind.
* After a lost answer the retry is told "invalid or expired", although the
  password was set. Earlier reset links stay valid when a later one is used. A
  database error in the detection of the purpose makes an invitation look spent.

**Session.**
* The latch `redirectingToLogin` stays shut after a mistyped password on the login
  page, so that a later expiry is ignored in that tab (`api.js:49` to 76).
* A wrong password, or a late 401, in one tab clears the fresh session of another;
  so does a wrong current password in the change form (`api/auth_handlers.go:211`).
* A sign-in in another tab, or a late answer to a selfie, opens the desk without a
  selfie of this sign-in, though `App.jsx` says a new token forces one. At the
  gate an expired token never leads to the login page.

## 6. Plan

Modelled, checked and proved: the wallet, the streak, the operator's desk, the
onboarding (KYC, codes, links), the portal session. Next:

1. `LivenessGate`: `liveness_checks` with a clock, face match and verdict.
   Property: no match on another session's or an expired pass.
2. `CapturePromotion`: promotion after the answer, restarts, replayed keys.
3. Exam subscriptions and the client's review, which stay on the data plane.

## 7. What is not modelled

* `History`, `Balance` and the listing endpoints only read. `ensureWallet` is
  folded into the initial state.
* Organisations are not created or deleted and operators not created in the
  wallet models: a new row starts as the initial state has it.
* The expiry of a liveness pass; the organisation and roll number beside its
  session id.
* Passwords, hashes and signatures are pure functions; a valid one is assumed.
* Rate limiters only refuse requests, which every model allows anyway.
* Most lines of the frontends are markup, style and animation: login scenes,
  lists, charts, filters, previews. Pages other than those in section 2 read from
  the server and send single requests, whose effects are in the server's models.
  Camera, capture daemons and drawing are outside the desk's model, and so is its
  demonstration mode.
* Accounts that are enabled again while a token of theirs has not expired, and
  duplicated tabs that copy `sessionStorage`.
* The forced change of password and the other portals' sessions follow the code
  modelled in `PortalSession`. Forms are checked field by field; their rules are
  functions of one string.
* `registerDeleteDoc`, which no page calls.
* Dashboards, exports, PDF, matching services, image conversion, the exam
  catalogue, the candidate index, bulk import, mail, SMS, migrations and
  installers: read-only, stateless, or CRUD in single transactions.
