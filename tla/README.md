# Verification of flowbrand-api

TLA+ models of the parts of this NestJS service where several requests, queue
workers, cron sweeps and webhooks change the same rows; TLC runs on small
instances; TLAPS proofs for every instance. Paths are relative to the
repository (`src/` is its root directory here, so `src/src/...` is its code).

## 1. The system

Postgres (TypeORM) holds the truth, Redis holds Bull queues, session markers,
locks and rate limits, and `EventEmitter2` tells listeners in the same process
what happened. There is no lock between processes except Postgres row locks,
unique indexes, Redis `SET NX` and Bull's job locks.

| Component | State | Operations | Interacts with | Hard behaviour | What makes it correct |
|---|---|---|---|---|---|
| Funnel generation (`modules/funnels`, `queue/processors`) | `funnels` row with `status`, stages, tasks; job `funnel:<id>` | `createGeneration`, `handleGenerateFunnel`/`writeFunnelData`, `onFailed`, `deleteFunnel`, `renameFunnel` | Bull, LLM service, reaper, events | the job is queued before the commit; retries, stalls, late workers; delete and rename against a running job | one row per idempotency key; tasks exactly once and only when ACTIVE; ACTIVE is final; every generation ends |
| Reaper (`modules/tasks`) | none | `runSweeps`, by cron each minute and by `POST /tasks/trigger` | funnel and upload rows, events | SELECT, then UPDATE, then events; overlapping sweeps | announces what it wrote; overwrites nothing final |
| Stage progression (`modules/funnels`) | `funnel_stages.status`, `stage_tasks.status`, `stage_feedback` | `completeStage`, `updateTaskStatus`, `submitFeedback` | `deleteFunnel`, events | the same request from two tabs; a check in one statement, a write in another | stages in order, one winner, one announcement, nothing written out of turn |
| Payments (`modules/payments`) | `payments`, `subscriptions` | `initiatePayment`, `initiateSubscription`, `resolvePayment`, `processWebhookEvent`, `cancelUserSubscription` | Paystack, events | webhook against verification, lost reference, duplicated and reordered webhooks, errors answered 200 | one charge per key; a settled payment stays settled; SUCCESS together with its subscription; one open subscription per user |
| Uploads (`modules/upload`) | `uploaded_documents`, objects in MinIO, extraction jobs | `processOneFile`, `handleExtraction`, `onFailed`, `sweepStuckUploads`, `onApplicationBootstrap` | reaper, voice, funnel sources | stale whole-entity saves, roll-back of a half-done upload, reaper against a running extraction | READY has its text; a verdict is moved on only by who read the row before; an accepted upload has row and object; nothing is pending for ever |
| Sessions (`modules/auth`, guard, `modules/redis`) | `user_sessions`, Redis `sess:*`, `users` | `login`, `refresh`, `logout`, `changePassword`, `resetPassword`, `JwtAuthGuard`, the admin's password change | deletion, teams | two stores for one session, sessions listed and then revoked one by one, errors of Redis swallowed | a new password closes every open session; a closed session stays closed |
| One-time codes (`modules/auth`) | `otp_tokens`, Redis lock and reset id | `verifyOtp`, `verifyResetOtp`, `resendOtp`, `forgotPassword`, `resetPassword` | users, e-mail queue | a lock with a TTL, rows found by user and type, `await bcrypt.compare` between check and delete | a code is used once, a reset token is used once |
| Login lock (`modules/auth`, `modules/admin/auth`) | `auth_metadata`: failed attempts, lock | `login` of users and of admins | sessions | check, `await bcrypt.compare`, count and lock in steps, by two services on one row | guesses are bounded however many logins overlap |
| Sign-in with Google (`modules/auth`, `modules/users`) | `users.auth_provider`, `provider_user_id` | `register`, `handleOAuthLogin` | deletion, purge | find or create or link by several at once, against registration and deletion | an account keeps its kind and its identity |
| Account deletion (`modules/users`, `modules/admin/users`) | `users.deleted_at`, `is_active`, delayed job | `deleteAccount`, `deleteUser`, `updateUserStatus`, `handleHardDelete` | sessions, every table with a user | 30-day delay, foreign keys of payments, queue failure after the commit, a status written from an old read | a deletion closes the sessions |
| Onboarding wizard (`modules/onboarding`) | `wizard_sessions`, an advisory lock | `startWizardSession`, `saveStepAnswer`, `completeOnboarding` | funnels | two tabs, a stale session saved over COMPLETE | one open session per user |
| Voice (`modules/onboarding/voice`) | Redis list and hash, transcription jobs, markers | upload, processor, `completeSession` | uploads | job and counter apart, retries, list and hash that expire | no recording lost from the document |
| Admin teams (`modules/admin/teams`) | invitations, members | invite, revoke, accept, remove, delete | users, sessions, e-mail | revoke against accept, writes outside the transaction | a spent invitation admits nobody |
| Generated content (`modules/llm`, `FunnelTemplateService`) | none | Gemini, Groq, template, two validations | Funnel generation | fallbacks, validators that check different things | a funnel has its four stages |
| Avatar (`modules/users`) | `users.avatar_url`, objects in MinIO | `uploadAvatar`, `deleteAvatar` | | row and object without a transaction | the avatar in the row is in storage |
| Notification preferences | `notification_preferences` | get, update, listeners | users | get-or-create by several at once | nobody is refused |
| The 50 % notice (`modules/notifications`) | `notifications` | `onTaskCompleted` | Stage progression, preferences | listeners that run after the answer, beside one another and later requests | half-way is noticed |
| Other notification and activity listeners | one row per event | `@OnEvent` listeners | all emitters | errors swallowed | told only what is true: checked at the emitters |
| E-mail, profile, admin dashboard, search and logs, contact, waitlist, health, config, migrations | little or none | I/O, reads, single inserts | | | not modelled (section 7) |

`PROJECT.json` lists each of them with its status, and under `hazards` what can
go wrong, at the line where it bites.

## 2. Modules

| Module | What it is |
|---|---|
| `FunnelLifecycle` | abstract specification: what the funnel tables promise (Ask, Accept, Complete, Fail, Remove) |
| `FunnelGeneration` | the code: requests, queue, workers, reaper, deletion, rename, step by step |
| `FunnelGenerationInv` | the inductive invariant, in three layers |
| `FunnelGenerationProofs` | theorems |
| `MCFunnelGeneration` | instances for TLC |
| `FunnelPath` | abstract specification: what the stages of an ACTIVE funnel promise (Complete, Announce, Lose, Review, Remove) |
| `StageProgression`, `StageProgressionInv`, `StageProgressionProofs`, `MCStageProgression` | the same for the stages of an ACTIVE funnel |
| `ProPlan` | abstract specification: what a payment gives its user (Settle, Announce, Withdraw) |
| `Payments`, `PaymentsInv`, `PaymentsProofs`, `MCPayments` | charges and subscriptions: the code, its invariant, theorems, instances |
| `Uploads`, `UploadsInv`, `UploadsProofs`, `MCUploads` | an uploaded document, its object and its extraction job |
| `Accounts`, `AccountsInv`, `AccountsProofs`, `MCAccounts` | one account and its sessions, from login to the purge |
| `Codes` | one-time codes and reset tokens of one user |
| `Wizard` | onboarding sessions of one user |
| `Teams` | invitations of one address into one team |
| `Voice` | one voice session |
| `Content` | what a generation job writes |
| `Avatar` | the avatar of one user |
| `Preferences` | the notification preferences of one user |
| `Lockout` | failed logins to one account and their lock |
| `GoogleSignIn` | the account of one address, registered or signed in with Google |
| `Milestone` | the 50 % notice of one funnel |
| `Services`, `MCServices` | the last ten side by side, and their instance |
| `CredentialsProofs`, `OnboardingProofs`, `ServicesProofs` | their theorems: Codes, Lockout, GoogleSignIn; Wizard, Teams, Voice; Content, Avatar, Preferences, Milestone |

Where two parts meet, the step is in both modules: a deletion of the funnel is an
action of both funnel modules, `sweepStuckFunnels` belongs to FunnelGeneration and
`sweepStuckUploads` to Uploads (one cron calls both, one after the other, and the one
goes on when the other fails), a member's removal is in Teams and, with its sessions,
in Accounts, `resetPassword` is in Codes (the token) and Accounts (the sessions), a
purge in Accounts and, for the address it frees, in GoogleSignIn, a completed task in
StageProgression (which may be completed when) and Milestone (what follows), and
Content refines the one step `GenerateContent` of FunnelGeneration. Otherwise no two
modules write the same table.

A step of a model is the code between two awaits of Postgres or Redis. A
definition whose comment says "Mutant" is a plausible mistake of the code; no
behaviour uses it. It is kept beside the definition it alters to show which
property would notice.

### FunnelGeneration

* `request[f]` follows `createGeneration` (`funnels.service.ts:237-305`):
  `LookUpKey` (findByIdempotency), `RejectRequest` (rate limit and source
  validation), `InsertFunnel` (INSERT; waits for an open transaction with the
  same key, fails on a committed one), `EnqueueJob` (queue.add inside the
  transaction), `CommitFunnel`, `RollBackFunnel` (503, failed commit, crash).
* `job`, `attempts`, `stalls`, `lock` are Bull's job. Bull is not part of the
  repository; it is modelled from how the processor relies on it: `attemptsMade`
  is incremented before 'failed' fires, an active job without a lock is put back
  up to `maxStalledCount` times, a worker without its lock cannot complete or
  fail the job.
* `phase[w]`, `on[w]` follow a worker through `handleGenerateFunnel`,
  `writeFunnelData` and `onFailed` (`funnel-generation.processor.ts`).
  `ThrowInJob` stands for any await that throws, `Crash` for the process.
* `found[s]`, `old` are the reaper (`tasks.service.ts:34-57`,
  `funnel.action.ts:173-192`).
* `deleting`: the row `deleteFunnel` holds with FOR UPDATE; the DELETE cascades
  and so waits for stage rows a worker has updated. A worker that then wants
  the funnel row closes a cycle; Postgres' victim is `ThrowInJob` or
  `RollBackDelete`.
* `renaming[f]`: the status in the entity `renameFunnel` has loaded. TypeORM's
  `save` compares with the row it finds then and writes every differing column,
  or inserts when it finds none.

`StagesLocked` and `RowLocked` derive the row locks from who is inside which
transaction. The content of a funnel, and whether it validates, only decides
whether a step threw.

### StageProgression

* `stage[p]`, `done[p]`, `feedback[p]` are the tables by stage position.
* `pc[r]`, `at[r]`, `edit[r]`, `answer[r]` follow one request at a time through
  `completeStage` (`funnels.service.ts:408-529`), `updateTaskStatus` (642-695)
  or `submitFeedback` (710-761).
* The transaction of `completeStage` is READ COMMITTED: `CountTasks` and
  `UpdateStage` see what is committed when they run; between `UpdateStage` and
  `CommitCompletion` the row is locked.
* `Abort` is a query that throws, or a crash, at any await.

### Payments

* `request[p]`, `asked[p]` follow the POST that starts charge `p`
  (`payments.service.ts:80-129` and 334-420, behind the two guards): `Ask`,
  `CreatePayment` for a one-time charge, `InsertSubscription` and
  `CommitSubscription` for a subscription, `CallProvider`, `StoreReference`,
  `AbortRequest`. The idempotency key is the owner with what was asked: type (or
  billing cycle) and hour.
* `row[p]`, `ref[p]`, `sub[p]` are the tables; a subscription is named after the
  charge that inserted it.
* `checkout[p]`, `sent[p]` are Paystack, modelled from how the adapter uses it:
  a declined card may be tried again under the same reference, a charge may
  arrive with a wrong amount, a webhook is delivered any number of times, in any
  order and late. A `charge.success` names the amount (`Priced`) or does not
  (`Unpriced`): only the first is compared with the row (577), as the webhook tests
  settle with `data: {}`. A verification always compares.
* `pc[h]`, `on[h]`, `via[h]`, `target[h]` follow a verification (136-223) or a webhook
  (526-639). The transaction is READ COMMITTED: `StartSettlement` locks the
  payment, `FindSubscription` reads what is committed, `ActivateFound` or
  `InsertActive` locks or inserts the subscription, `CommitSettlement` makes all of
  it visible. `OpenInsert` is the wait of an INSERT for an open transaction that
  holds the same entry of the partial unique index.
* `told[p]` are the events emitted for the payment.
* Not there: `cancelUserSubscription` and the subscription webhooks. They look for
  a `provider_subscription_code`, and nothing in the code stores one (416-418 leave
  it to a `subscription.create` webhook that 529-549 does not handle), so they end
  before their first write.

### Uploads

* `request[d]` follows `processOneFile` (`upload.service.ts`) through row, object,
  progress, PARSING, queue and answer; `ThrowInRequest`, `UndoObject` and `UndoRow`
  are its roll-back, whose two deletes may each fail.
* `phase[w]`, `on[w]`, `copy[w]` follow a worker through `handleExtraction` and
  `onFailed`; `copy` is the entity it has loaded.
* TypeORM's `save` is two steps: `SelectForParsing`, `SelectForReady`,
  `SelectForReport` keep in `seen` what their SELECT finds; `SaveParsing`, `SaveReady`,
  `ReportFailed` then write the columns in which the entity differs from it
  (`WriteRow`), over whatever was written in between, or insert a row that was rolled
  back. `CreateRow` inserts under an id nobody knows, so it is one step; the other
  writes are single statements.
* `job`, `attempts`, `stalls`, `lock` are Bull's job, as in FunnelGeneration.
* `found[s]`, `old` are the sweep, `quiet` the age the recovery at start-up asks for.

### Accounts

* `row[s]`, `hashed[s]`, `key[s]` are a session in Postgres and in Redis; the guards
  look at the key and at the account (`Authorised`), a refresh looks at the row.
* `pc[r]`, `task[r]`, `on[r]`, `todo[r]` follow a request that opens or refreshes a
  session: the row first, then hash and key in either order (`Promise.all`).
* `list[r]`, `drop[r]` are the sessions found by a revocation and not yet revoked;
  `before[r]`, a history variable, those that were open when it wrote the password.
* bcrypt compares 72 bytes, which all refresh tokens of a user have in common, so
  the comparison of a refresh only tells whether a token was stored. Neither guards
  nor refresh look at the password; the lock after failed logins is in Lockout.
* `Purge` is the delayed job, `Remove` the `DELETE /users/:id` that deletes at once.

### Codes, Wizard, Teams

* Codes: `Replace` is `replaceToken`, which deletes the rows it has seen and inserts
  one; a verification takes the lock, reads, compares, deletes, and unlocks by
  GET and DEL (`CompareLock`, `Unlock`). `overran` records that the lock ran out under
  its holder: after that `CodeOnce` promises nothing.
* Wizard: `WriteSave` writes the `columns` in which the loaded `entity` differs from
  the row read again (`SelectForSave`); `reopened` are the sessions such a save set
  back from COMPLETE, which `OneOpen` excepts. The advisory lock is held to the end
  of the transaction of `FindActive` and `CreateSession`.
* Teams: `holder[i]` is the transaction that has claimed the invitation's row;
  `CreateAccount` and `GrantRole` are committed at once, since they run outside it.

### Voice, Content, Avatar, Preferences

* Voice: the list (`texts`) and the hash (`meta`) expire each on its own; `marked`
  are the jobs whose later runs return at once. `FindMeta` is the EXISTS before the
  HINCRBY of `CountCompleted`, which makes a new hash if the one found has gone
  meanwhile. `excused` records one of the known losses listed in section 6;
  `NothingLost` speaks of behaviours without.
* Content: a stage is its position and whether its texts are in bounds. `Accepted`
  is the service's validation, in which positions may repeat, `CheckStages` the
  processor's, which throws and has the job retried. `Sorted` is the service's sort by
  position, said by its result: in order, and each position as often as before.
* Avatar: `broken` are the paths in the row at the time a deletion died between the
  object and the row, or an upload undid an UPDATE that was carried out but not
  answered; `AvatarStored` excepts those.
* Preferences: get-or-create against the unique index.

### Lockout, GoogleSignIn, Milestone

* Lockout: `failed` and `locked` are the row both login services share; `guesses` counts
  the wrong passwords compared since the last login or the end of the last lock, `missed`
  those whose count or lock was lost to a failing query. `GuessesBounded`: below the limit
  each guess is counted, at the limit only requests already past `ReadMetadata` go on.
* GoogleSignIn: `row` is what the index on `email` lets exist, deleted or not; `found[r]`
  is the id a sign-in is about to link. The purge and a second registration may come in
  between, so an account has an id of its own. `letGo` are the accounts whose Google
  identity a deletion has set to null: when a status write undoes the deletion, the next
  sign-in may link another identity, which `OneIdentity` excepts.
* Milestone: requests complete and reopen tasks, and the listener of a completion reads
  the preferences, counts, looks and creates, each at an await of its own. `missed`
  records what excuses the notice: a listener lost, failed, or told not to.

`Services` composes the ten modules that share no state. A behaviour moves one of
them (`part`); interleaving parts that share nothing would add states and show nothing.
Each keeps its invariant (`IInv`, with its `TypeOK`) at its end.

## 3. Runs

| Run | Instance | Shows |
|---|---|---|
| `FunnelGeneration_safety` | 2 requests of one user, 2 keys, 2 worker slots, 1 sweep, 2 attempts, 1 stall | holds: `OneFunnelPerKey`, `TasksMatchStatus`, `GeneratedEventsHold`, `ActiveIsFinal`, refinement of `FunnelLifecycle`, and the inductive invariant `IInv` |
| `FunnelGeneration_liveness` | 1 funnel, 2 workers that may lose their locks, renames | holds: `GenerationSettles`, `JobsEnd` |
| `FunnelGeneration_delete` | 2 funnels, 1 worker | `KeepsAnActiveFunnel` is violated (finding 1) |
| `FunnelGeneration_rename` | 1 funnel, renames | `ActiveIsFinal` is violated (finding 2) |
| `FunnelGeneration_events` | 1 funnel, 1 sweep | `FailedEventsFollowWrite` is violated (finding 3) |
| `StageProgression_safety` | 3 stages, 1 task each, 2 requests | holds: `StagesInOrder`, `AnnouncedOnce`, `LockedStageUntouched`, `FeedbackOnce`, `ConflictMeansGone`, refinement of `FunnelPath`, `IInv` |
| `StageProgression_reopen` | 1 stage, 1 task, 2 requests | `CompletedWithAllDone` is violated (finding 4) |
| `Payments_safety` | 2 charges of one user, either kind, 2 hours, 2 handlers (1.3 million states) | holds: `OneOpenSubscription`, `OneCheckoutPerKey`, `SuccessIsEarned`, `PaidMeansPro`, refinement of `ProPlan`, `IInv` |
| `Payments_settled` | 1 charge, 2 handlers | `SettledIsFinal` is violated (finding 5) |
| `Uploads_safety` | 1 document, 2 worker slots, 2 sweeps, 3 attempts, 1 stall (249 thousand states) | holds: `ReadyHasText`, `AcceptedIsStored`, `VerdictStands`, `UploadSettles`, `IInv` |
| `Accounts_safety` | 2 sessions, 2 requests of any kind (466 thousand states) | holds: `PasswordClosesSessions`, `ClosedForGood`, `IInv` |
| `Services_safety` | 2 requests in each part, 2 codes, sessions, invitations and recordings, 3 avatars, 2 attempts and runs, a limit of 3 failures and 1 lost query, 2 accounts and 2 Google identities, 4 tasks (809 thousand states) | holds: `CodeOnce`, `ResetOnce`, `OneOpen`, `SpentAdmitsNobody`, `NothingLost`, `ContentComplete`, `AvatarStored`, `PreferencesServed`, `GuessesBounded`, `OneIdentity`, `HalfWayNoticed` |

Bounds. Two requests with a choice of two keys cover the equal and the distinct
case; every race on a row is between two parties. Two worker slots are a worker
and the one its stalled job is given to. Two attempts are a first and a last
one, one stall is one that is put back and one that is not; more only repeat
these. One sweep suffices to interleave with everything else; overlapping
sweeps are covered by the proofs. Three stages give a first, a middle and a
last one. Two charges of one user are all that can meet in an index (those of
different users share nothing; the proofs cover any owners), two hours are the
same key and another one, two handlers are a verification or webhook and the one
it races. Documents share neither row, object nor job, so one is enough; the cron and
the manual sweep may overlap on it, three attempts are a first, a middle and a last.
One account is enough for the same reason, and two sessions are the one a request
holds and another one; requests answer and start again without a bound, so two at a
time make up every pair of operations and any sequence of them. Two codes, sessions
or invitations are an old one and the one that replaces it; three avatars are one in
the row and two uploads in progress. A limit of three failures (five in the code) is one
counted, one that two requests may pass at once and the one that locks; two accounts of
an address are one and the one made after its purge; of four tasks exactly half can be
complete, by two requests and without. `BeforeLoss` (Services) leaves out only states
in which `NothingLost` is true by its exception. Symmetry is used in safety runs
only, over identifiers that nothing compares but for equality.

Deadlock checking is off: the system stops when all requests are answered and
every job has ended (FunnelGeneration, Uploads), when the funnel is deleted, when
every charge is refused (Payments), when the account is purged (Accounts), and when
the bounded codes, sessions, invitations, recordings, avatars and
accounts are used up (Services).

`TypeOK` of FunnelGeneration, StageProgression and Payments is a conjunct of `IInv` and
checked with it, as are those of Uploads and Accounts.

## 4. Fairness

`FairSpec` assumes that time passes (`Age`), that the cron fires and its UPDATE
succeeds sooner or later, that an open transaction ends, that a waiting job is
taken when a worker is free and a worker's next step happens, that Bull's
stalled-job check runs. Strong fairness is used where a row lock may disable a
step over and over: Postgres queues the waiters of a row. Nothing is assumed of
clients (a request may stop anywhere), no step is assumed not to throw, and
crashes and lost locks are allowed at all times, though attempts and stalls are
bounded by Bull.

`FairSpec` of Uploads assumes less: time passes (`Age`) and the sweeps keep coming and
get through sooner or later (`FindStuck` weakly, `MarkStuckFailed` strongly fair: an
UPDATE that fails is tried again a minute later). Nothing is assumed of requests,
workers, Bull or the recovery: the sweep alone settles a row, also one that was
inserted again by a late save. The other modules have safety properties only.

## 5. Proofs

All theorems hold for every number of funnels, users, keys, workers, sweeps,
attempts, stages, tasks, requests, charges, hours, handlers, documents, sessions,
codes, invitations, recordings, uploads and accounts.

FunnelGeneration's invariant has three layers.

1. `TypeInv` = `TypeOK` and `JobInv` (a worker in the processor has a funnel, only
   an active job has a lock, a job that may run has attempts left). No
   assumption: `TypeCorrect`.
2. `KeyInv`: a funnel *claims* its key from its INSERT on, before the row is
   visible, and claims exclude each other; that is what makes the invariant
   inductive, since `OneFunnelPerKey` itself says nothing of open transactions.
   No assumption: `IdempotentCreation`.
3. `WorkerInv` and `RowInv`: a worker in the processor holds the lock of its
   active job, hence is alone with it; until it writes the funnel is not
   ACTIVE and has no tasks, afterwards it is. This layer needs `Undisturbed`:
   no live worker loses its job lock and `renameFunnel` does not overlap. Both
   are real behaviours of the code and not artefacts: finding 2 is what
   a rename does, and with lost locks the re-check in the processor (EC-05) does
   not keep two workers from writing the tasks twice. From it:
   `Invariance`, `TasksExactlyOnce`, `AnnouncementsHold`, `ActiveStaysActive` and
   `ImplementsLifecycle` (each step maps to a step or a stutter of
   `FunnelLifecycle`).

StageProgression's `IInv` adds to the properties what a request relies on
between its look at a stage and its write (`RequestInv`: a stage it saw unlocked
is still not LOCKED, one it saw complete still is or is gone), who may be
between the UPDATE and the announcement of a stage (`CompletionInv`: first the row
lock, then the status excludes others), and that STAGE_UNLOCKED follows the
STAGE_COMPLETED of the stage before (`EventInv`). Theorems: `TypeCorrect`, `Invariance`,
`OrderedStages`, `OneCompletion`, `NoLateWrites`, `FeedbackOnly`, `ConflictsMeanGone`,
`ForwardOnly` and `ImplementsFunnelPath`. In the last, `CommitCompletion` maps to
`Complete` (its stage is the only ACTIVE one, by `StagesInOrder`), `Announce` to
`Announce`, `Abort` of a request that owed an announcement to `Lose` (nobody else owed
it, by `CompletionInv`: lemma `DebtSettled`), an `InsertFeedback` that is carried out to
`Review`, `DeleteFunnel` to `Remove`, every other step to a stutter. `ConflictsMeanGone`
rests on `RequestInv`: who lost the race for a stage has seen it ACTIVE and unlocked, so
that it can only be complete or gone.

Payments' `IInv` needs no assumption on the environment. `RequestInv` orders row,
checkout and reference; `KeyInv` lets one row exist per key, and with it
`OneCheckoutPerKey` follows; `ClaimInv` says that an open transaction which has
inserted a subscription is alone with it for its user, which
`OneOpenSubscription` cannot say, since it sees committed rows only;
`Relies(h)` is what a settlement has found and still holds when it commits. The
lemma `StepKeeps` (a step never takes back a row, a subscription, a paid
checkout, an event that was sent) carries all of it over the steps of others.
`EarnedSuccess` says that SUCCESS was paid for, and paid wrongly only if an event
without an amount was sent for it. Theorems: `TypeCorrect`,
`Invariance`, `OneSubscription`, `OneCheckout`, `EarnedSuccess`, `ProForPaid` and
`ImplementsProPlan`: `CommitSettlement` maps to `Settle`, `WriteFailed` to
`Withdraw`, `Announce` to `Announce`, every other step to a stutter.

Uploads' `IInv` says what a worker has loaded when it comes to save (`WorkerInv`:
nothing READY is saved as FAILED by who read READY), which requests have a job
(`JobInv`) and how long a request keeps row and object (`RequestInv`: to the answer,
since only its own roll-back deletes them). Since a save writes columns, a row might
become a mixture of two; `RowInv` says that it is always one of a few: before the job
`EarlyRows`, from then on one not there, PARSING, READY with text, or FAILED with or
without (`JobRows`). The last is the hard case: a save that has selected FAILED with
text writes no text of its own. `ReportInv` says why that is safe: a job is reported
once, only its report can leave such a row, and nobody takes the text from it
(`HoldsText`). Theorems: `Invariance`, `TypeCorrect`, `TextWithReady`, `AcceptedStored`,
`VerdictKept`, with lost locks, stalls, crashes and overlapping sweeps, without an
assumption on the environment.

Accounts' `PasswordInv` follows the sessions that were open when the password was
written: while they are revoked one by one, those still open are in the list; a
session opened later is not among them. `SessionInv` says that who holds a session
has created its row. Theorems: `Invariance`, `PasswordCloses`, `ClosedStays` (each step
keeps a closed session closed; closed includes that no refresh has it in hand,
without which the property is false).

The ten services are proved in the composition `Services`, each by an invariant of
its own (`...Invariance`); the lemmas `...Frames` say that a step of the composition is
a step of a service or leaves it alone.

* Codes: an alternative. Either a lock has run out under its holder (`overran`), or
  the lock's holder is the only request between lock and unlock, what it has read is
  still there, and a code with a row has not been granted (`LockInv`, `OwnerInv`,
  `GrantedInv`): `CodesAreOneTime`. `ResetsAreOneTime` does not need the alternative:
  GETDEL takes the id in one step (`TokenInv`).
* Lockout: `CountInv` says where each wrong password has gone: to the row, to a request
  that has still to count it, or missed; once the account is locked, only those that had
  passed the lock compare. It counts sets of requests, so its lemmas are about their
  cardinalities: `GuessesAreBounded`, for any limit.
* GoogleSignIn: what a request has found may be gone when it links, but if the row is
  there it is the same Google account, with this identity or with none since a deletion
  (`LinkInv`, `UnlinkedInv`): `IdentitiesStay`, an action property.
* Wizard: the advisory lock has one holder, and who has found no open session still
  holds it (`FoundInv`): `OneOpenSession`.
* Teams: a claimed row is pending and its claimant at work (`ClaimInv`), a spent
  invitation is never pending again (`PastInv`): `SpentInvitations`.
* Voice: a recording is expected once (`ExpectedInv`), and no more are counted as
  completed than have put their text in the list and gone past their count
  (`CompletedInv`). The two counts, not the recordings, are what `completeSession`
  compares; that equal counts mean equal sets is a fact of cardinalities
  (`VoiceCounts`). No text leaves the list before it is in a document (`TextInv`), and
  `WantedInv` follows a completion from its reading on: `NoRecordingLost`. All but the
  first is an alternative to `excused`. The hash that EXISTS has found may be gone
  at the HINCRBY: then `excused` says so (`VoiceFind`, `VoiceComplete`).
* Content: what is written has passed the check; four different positions of four are
  each there once (`DistinctStages`): `ContentIsComplete`.
* Avatar: a path belongs to one upload (`PathInv`), nobody has seen it before its UPDATE
  (`UnseenInv`), and one that has left the row does not return (`LeftInv`), so that no
  removal meets an object the row points at: `AvatarIsStored`.
* Preferences: who has seen the row, or was refused by its index, finds it again as long
  as the user exists (`SeenInv`): `NobodyIsRefused`.
* Milestone: a listener that stops has missed the notice, knows of one, or has counted
  fewer than half; a request that completes a task listens (`MilestoneGo`):
  `HalfWayIsNoticed`, for any number of tasks.

The only assumptions are the named ones of the modules (`ConstantsAssumption`,
`StageAssumption`, `PaymentAssumption`, `UploadConstants`, `AccountConstants`,
`ServicesAssumption`: requests and recordings are finite in number, bounds are numbers,
`None` is no request and no identity, a funnel has tasks and an account a limit) and,
where said, `Undisturbed`.

Every invariant, action property and refinement a run checks is proved. Only
model-checked: liveness (`GenerationSettles`, `JobsEnd`, `UploadSettles`), which is beyond
the prover, and the five violations. The runs check the invariants of Services' parts
through the properties they are for; the theorems state them one by one.

## 6. Findings

1. `deleteFunnel` can leave a user without an ACTIVE funnel: the count of the
   others is not locked (write skew).
2. `renameFunnel` saves a stale status over ACTIVE.
3. The sweep announces FUNNEL_FAILED for what it selected, not what it wrote.
4. `completeStage` counts tasks that may be reopened before its UPDATE.
5. `resolvePayment` and `handleChargeFailed` write FAILED over a SUCCESS committed
   since they read PENDING. The user stays Pro (`ImplementsProPlan`), the payment
   looks failed for good.

Seen while modelling, without a run: a resend that races its first request
gets the database's raw 23505 where the swagger page promises 200
(`funnels-swagger.doc.ts:221`); `job.progress(100)` may throw after the commit,
then the retry returns early and FUNNEL_GENERATED is never emitted
(`funnel-generation.processor.ts:114`); a crash between the commit and the emit of
a completion loses STAGE_COMPLETED. When the provider call of a checkout fails,
the row stays PENDING without a reference: the comment at
`payments.service.ts:114` sends the client to `verifyPayment`, which has nothing to
look for, and a subscription request leaves a PENDING subscription that refuses
every later one (guard, index) until a one-time payment activates it.
`DELETE /payments/subscription` always answers 500 (see Payments above). A
`charge.success` without an amount settles whatever was paid.

Sessions and accounts: `RedisService.del` swallows its errors
(`redis.service.ts:113-119`), so a logout whose DEL fails is answered as done and the
access token works until the key expires, while `auth-swagger.doc.ts:185-187` says
that neither token can be used after logout. `updateUserStatus` writes the
`deleted_at` it has read: a deletion committed in between is undone, and its purge,
which does not look again, removes the active account 30 days later. The admin's
own password change leaves the Redis keys of its sessions to expire. The purge of a user
with payments fails on their foreign keys at every attempt. `login` does not look at
`is_active`; the guards do.

Codes: when the lock of a verification runs out under its holder, a code may be
accepted twice (`overran`). Teams: account and role of an invitee are written outside
the transaction of the acceptance and stay when it is rolled back; an expired
invitation stays PENDING and its index entry refuses a new one. Wizard: an answer
saved late reopens a COMPLETE session (`reopened`). Avatar: a deletion that dies
halfway, or an upload whose UPDATE was done but not answered, leaves a path without
an object (`broken`).

Uploads: `onFailed` of an extraction leaves a READY it reads alone, but saves FAILED over
the READY that a late worker without its lock has committed since (the job was requeued
as stalled, and its last attempt failed), while `extraction.processor.ts:113` says "READY
is never overwritten". When the READY comes between the two halves of that save, the row
is FAILED with its text. `VerdictStands` names this way out of READY (`copy[w].status #
"ready"` in `onFailed`), `ReadyHasText` leaves FAILED free to have a text.

Login lock: two first logins of an admin both insert `auth_metadata`, and the second
is answered with the database's error (`AuthService` reads again). A login that succeeds
after others have failed clears the lock they have set, whenever its password was
compared. `failed_attempts` outlives the lock: after it, one failure locks again.
Sign-in with Google: an undone deletion of a Google account leaves it without identity,
and whichever identity signs in next with the address is linked. Milestone: two
completions at once may both find no notice and create one each, against the comment
"milestone idempotency" (`notification.action.ts:41`); a deleted notice is created anew by
the next completion. `rollbackRegistration` (`auth.service.ts`) is asked for by no caller:
a `register` whose code cannot be stored or mailed leaves an unverified account behind.

Voice loses a recording when (`excused`) its job runs twice and is counted twice, it is
counted as completed in a hash that does not count it as expected (not yet, or no longer
since the hash expired or was deleted between EXISTS and HINCRBY), the list expires
before the hash, or its text arrives while a completion deletes the list.

None of these has a run of its own; but for the pages and comments quoted, the repository
nowhere says otherwise.

## 7. Not modelled

* The e-mail queue: one job per mail, no state, nothing waits for it.
* Admin dashboard, search and logs, user state, funnel and notification lists: reads.
  Profile updates, contact, waitlist, activity log: single rows.
* The other notification and activity listeners: one row or mail per event, errors
  swallowed. What they are told is checked at the emitters. The weekly digest has no
  caller.
* Health, configuration, migrations, DTO validation and swagger.
* Within modelled parts: rate limits and validation only refuse (a choice, or left out);
  the exchange code that hands Google tokens to the browser is one GETDEL, as the reset
  token's in Codes; text, dates and amounts are left out but for what a check compares.

Much of the implementation has no behaviour to model: swagger decorators (about 4,600
lines), DTOs and entities (2,200), migrations (600), the template texts of
`funnels/data` (2,300), message constants, and controllers that pass a call on.
The definitions in `PROJECT.json` name the lines that decide something.

## 8. Plan

Done, in this order: FunnelGeneration, StageProgression, Payments, Uploads, Accounts,
Codes, Wizard, Teams, Voice, Content, Avatar, Preferences, Lockout, GoogleSignIn,
Milestone.

What could follow, in the order of its use: an abstract specification of an upload
(stored, then READY with its text or FAILED) refined by Uploads, and of a session
(open, then closed) refined by Accounts; `cancelUserSubscription` once a
subscription code is stored.
