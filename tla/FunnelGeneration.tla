-------------------------- MODULE FunnelGeneration --------------------------
(***************************************************************************)
(* The life of a funnel row, from the POST that asks for it to its         *)
(* deletion, and everybody who writes its status:                          *)
(*   - createGeneration: one transaction that inserts the row and its four *)
(*     stages and puts the Bull job on the queue before it commits;        *)
(*   - the workers of the funnel-generation queue, with Bull's retries,    *)
(*     stalled jobs and crashes, and the onFailed listener;                *)
(*   - the reaper sweeps (the cron and POST /tasks/trigger);               *)
(*   - deleteFunnel, whose row lock and cascade meet the worker's writes;  *)
(*   - renameFunnel, which saves a whole entity it read earlier.           *)
(*                                                                         *)
(* A step is what happens between two awaits of the database or of Redis.  *)
(* The content a language model produced, and whether it is valid, only    *)
(* matters as "the step threw or it did not" (ThrowInJob).                 *)
(*                                                                         *)
(* A definition marked "Mutant" is a mistake the code could contain; no    *)
(* behaviour uses it. It shows which property would notice.                *)
(***************************************************************************)
EXTENDS Naturals

CONSTANTS
    Funnels,        \* one id per POST /funnels/generate
    Owner,          \* [Funnels -> users]: who sends that request
    Keys,           \* the idempotency keys a client may send
    Workers,        \* job slots of the queue, over all processes
    Sweeps,         \* reaper sweeps that may overlap: the cron, a manual trigger
    MaxAttempts,    \* opts.attempts of the job
    MaxStalled,     \* Bull's maxStalledCount
    LockLoss,       \* may a live worker lose its job lock?
    Renames,        \* is renameFunnel called on these funnels?
    None            \* no worker, no funnel, nothing read

ASSUME ConstantsAssumption ==
    /\ MaxAttempts \in Nat \ {0}
    /\ MaxStalled \in Nat
    /\ LockLoss \in BOOLEAN
    /\ Renames \in BOOLEAN
    /\ "unset" \notin Keys
    /\ None \notin Workers \cup Funnels \cup {"GENERATING", "ACTIVE", "FAILED"}

VARIABLES
    request,        \* progress of createGeneration
    key,            \* the idempotency key the request carries
    funnel,         \* the committed row: its status, "none" or "deleted"
    taskSets,       \* committed sets of generated tasks under the funnel's stages
    old,            \* created_at is past the reaper's threshold
    job,            \* the state of job funnel:<id>; "waiting" includes delayed
    attempts,       \* job.attemptsMade
    stalls,         \* how often Bull found the job stalled
    lock,           \* the worker whose token is on the job's lock
    phase,          \* where each worker is in the processor
    on,             \* the funnel it works for
    found,          \* the ids each running sweep selected
    deleting,       \* funnels whose row a deleteFunnel transaction has locked
    renaming,       \* the status in the entity a running renameFunnel has loaded
    generatedEvents,\* funnels FUNNEL_GENERATED was emitted for
    failedEvents    \* funnels FUNNEL_FAILED was emitted for

requestVars == <<request, key>>
rowVars == <<funnel, taskSets, old>>
jobVars == <<job, attempts, stalls, lock>>
workerVars == <<phase, on>>
eventVars == <<generatedEvents, failedEvents>>
userVars == <<deleting, renaming>>
vars == <<requestVars, rowVars, jobVars, workerVars, found, userVars, eventVars>>

Statuses == {"GENERATING", "ACTIVE", "FAILED"}
RequestPhases == {"idle", "validating", "inserted", "enqueued", "accepted",
                  "existing", "rejected", "duplicate", "unavailable"}
OpenTx == {"inserted", "enqueued"}
RunPhases == {"loading", "generating", "writing", "updating", "activating",
              "written", "finishing", "throwing"}
FailPhases == {"failing", "marking"}
WorkerPhases == {"idle"} \cup RunPhases \cup FailPhases

SameKey(f, g) == Owner[f] = Owner[g] /\ key[f] = key[g]
Exists(f) == funnel[f] \in Statuses
KeyTaken(f, k) == \E g \in Funnels : Exists(g) /\ Owner[g] = Owner[f] /\ key[g] = k

\* The row locks of Postgres, derived from who is inside which transaction.
RowLocked(f) == f \in deleting
StagesLocked(f) == \E w \in Workers : phase[w] = "activating" /\ on[w] = f

TypeOK ==
    /\ request \in [Funnels -> RequestPhases]
    /\ key \in [Funnels -> Keys \cup {"unset"}]
    /\ funnel \in [Funnels -> Statuses \cup {"none", "deleted"}]
    /\ taskSets \in [Funnels -> Nat]
    /\ old \in [Funnels -> BOOLEAN]
    /\ job \in [Funnels -> {"none", "waiting", "active", "completed", "failed"}]
    /\ attempts \in [Funnels -> 0..MaxAttempts]
    /\ stalls \in [Funnels -> 0..MaxStalled]
    /\ lock \in [Funnels -> Workers \cup {None}]
    /\ phase \in [Workers -> WorkerPhases]
    /\ on \in [Workers -> Funnels \cup {None}]
    /\ found \in [Sweeps -> SUBSET Funnels]
    /\ deleting \subseteq Funnels
    /\ renaming \in [Funnels -> Statuses \cup {None}]
    /\ generatedEvents \subseteq Funnels
    /\ failedEvents \subseteq Funnels

Init ==
    /\ request = [f \in Funnels |-> "idle"]
    /\ key = [f \in Funnels |-> "unset"]
    /\ funnel = [f \in Funnels |-> "none"]
    /\ taskSets = [f \in Funnels |-> 0]
    /\ old = [f \in Funnels |-> FALSE]
    /\ job = [f \in Funnels |-> "none"]
    /\ attempts = [f \in Funnels |-> 0]
    /\ stalls = [f \in Funnels |-> 0]
    /\ lock = [f \in Funnels |-> None]
    /\ phase = [w \in Workers |-> "idle"]
    /\ on = [w \in Workers |-> None]
    /\ found = [s \in Sweeps |-> {}]
    /\ deleting = {}
    /\ renaming = [f \in Funnels |-> None]
    /\ generatedEvents = {}
    /\ failedEvents = {}

-----------------------------------------------------------------------------
(* createGeneration *)

Advance(f, from, to) ==
    /\ request[f] \in from
    /\ request' = [request EXCEPT ![f] = to]

\* findByIdempotency: a committed row with the same key is returned as it is.
LookUpKey(f, k) ==
    /\ Advance(f, {"idle"}, IF KeyTaken(f, k) THEN "existing" ELSE "validating")
    /\ key' = [key EXCEPT ![f] = k]
    /\ UNCHANGED <<rowVars, jobVars, workerVars, found, userVars, eventVars>>

\* The rate limit (429), an unfinished wizard or an upload that is not READY (422).
RejectRequest(f) ==
    /\ Advance(f, {"validating"}, "rejected")
    /\ UNCHANGED <<key, rowVars, jobVars, workerVars, found, userVars, eventVars>>

\* The unique index on (user_id, idempotency_key) makes an insert wait for an open
\* transaction that has inserted the same key.
NoOpenInsert(f) == \A g \in Funnels \ {f} : SameKey(f, g) => request[g] \notin OpenTx

\* Mutant of InsertFunnel: no unique index, the lookup is the only protection.
InsertFunnelUnindexed(f) ==
    /\ Advance(f, {"validating"}, "inserted")
    /\ UNCHANGED <<key, rowVars, jobVars, workerVars, found, userVars, eventVars>>

\* INSERT of the row and its stages; a committed row with the same key makes
\* it fail with a raw 23505.
InsertFunnel(f) ==
    /\ NoOpenInsert(f)
    /\ Advance(f, {"validating"}, IF KeyTaken(f, key[f]) THEN "duplicate" ELSE "inserted")
    /\ UNCHANGED <<key, rowVars, jobVars, workerVars, found, userVars, eventVars>>

\* queue.add runs inside the transaction: the job is visible to the workers
\* while the row is not.
EnqueueJob(f) ==
    /\ Advance(f, {"inserted"}, "enqueued")
    /\ job' = [job EXCEPT ![f] = "waiting"]
    /\ UNCHANGED <<key, rowVars, attempts, stalls, lock, workerVars, found, userVars,
                   eventVars>>

CommitFunnel(f) ==
    /\ Advance(f, {"enqueued"}, "accepted")
    /\ funnel' = [funnel EXCEPT ![f] = "GENERATING"]
    /\ UNCHANGED <<key, taskSets, old, jobVars, workerVars, found, userVars, eventVars>>

\* queue.add threw (503), or the commit failed, or the process died: the insert
\* is rolled back, a job that reached Redis stays.
RollBackFunnel(f) ==
    /\ Advance(f, OpenTx, "unavailable")
    /\ UNCHANGED <<key, rowVars, jobVars, workerVars, found, userVars, eventVars>>

-----------------------------------------------------------------------------
(* The queue's workers: handleGenerateFunnel and writeFunnelData *)

Goto(w, from, to) ==
    /\ phase[w] = from
    /\ phase' = [phase EXCEPT ![w] = to]

GoIdle(w) ==
    /\ phase' = [phase EXCEPT ![w] = "idle"]
    /\ on' = [on EXCEPT ![w] = None]

TakeJob(w, f) ==
    /\ phase[w] = "idle"
    /\ job[f] = "waiting"
    /\ job' = [job EXCEPT ![f] = "active"]
    /\ lock' = [lock EXCEPT ![f] = w]
    /\ phase' = [phase EXCEPT ![w] = "loading"]
    /\ on' = [on EXCEPT ![w] = f]
    /\ UNCHANGED <<requestVars, rowVars, attempts, stalls, found, userVars, eventVars>>

\* Mutant of AfterLoad: no EC-05 guard, whatever row is there is generated again.
AfterLoadUnguarded(f) ==
    IF Exists(f) THEN "generating"
    ELSE IF attempts[f] = 0 THEN "throwing" ELSE "finishing"

\* Mutant of AfterLoad: a missing row is polled for instead of retried.
AfterLoadPolling(f) ==
    IF ~Exists(f) THEN "loading"
    ELSE IF funnel[f] = "GENERATING" THEN "generating" ELSE "finishing"

\* No row on the first attempt: the commit may be in flight, throw and retry.
\* No row later: deleted, give up. ACTIVE or FAILED: nothing to do (EC-05).
AfterLoad(f) ==
    IF Exists(f)
    THEN IF funnel[f] = "GENERATING" THEN "generating" ELSE "finishing"
    ELSE IF attempts[f] = 0 THEN "throwing" ELSE "finishing"

LoadFunnel(w) ==
    /\ Goto(w, "loading", AfterLoad(on[w]))
    /\ UNCHANGED <<requestVars, rowVars, jobVars, on, found, userVars, eventVars>>

\* Gemini, then Groq, then the template; content that validates goes on.
GenerateContent(w) ==
    /\ Goto(w, "generating", "writing")
    /\ UNCHANGED <<requestVars, rowVars, jobVars, on, found, userVars, eventVars>>

\* The second look at the row and the transaction's read of the stages: either
\* finds nothing once the funnel is deleted.
FindStages(w) ==
    /\ Goto(w, "writing", IF Exists(on[w]) THEN "updating" ELSE "finishing")
    /\ UNCHANGED <<requestVars, rowVars, jobVars, on, found, userVars, eventVars>>

\* UPDATE of the stage rows, which stay locked, and INSERT of the tasks. When
\* the funnel went meanwhile the insert breaks the foreign key (23503).
WriteStages(w) ==
    /\ ~StagesLocked(on[w])
    /\ Goto(w, "updating", IF Exists(on[w]) THEN "activating" ELSE "finishing")
    /\ UNCHANGED <<requestVars, rowVars, jobVars, on, found, userVars, eventVars>>

\* UPDATE of the funnel, whatever its status is by now, and COMMIT.
ActivateFunnel(w) ==
    LET f == on[w] IN
    /\ ~RowLocked(f)
    /\ Goto(w, "activating", IF Exists(f) THEN "written" ELSE "finishing")
    /\ IF Exists(f)
       THEN /\ funnel' = [funnel EXCEPT ![f] = "ACTIVE"]
            /\ taskSets' = [taskSets EXCEPT ![f] = @ + 1]
       ELSE UNCHANGED <<funnel, taskSets>>
    /\ UNCHANGED <<requestVars, old, jobVars, on, found, userVars, eventVars>>

EmitGenerated(w) ==
    /\ Goto(w, "written", "finishing")
    /\ generatedEvents' = generatedEvents \cup {on[w]}
    /\ UNCHANGED <<requestVars, rowVars, jobVars, on, found, userVars, failedEvents>>

\* Any awaited call throws: a query, job.progress, the validation. The open
\* transaction, if there is one, is rolled back.
ThrowInJob(w) ==
    /\ phase[w] \in RunPhases \ {"finishing", "throwing"}
    /\ phase' = [phase EXCEPT ![w] = "throwing"]
    /\ UNCHANGED <<requestVars, rowVars, jobVars, on, found, userVars, eventVars>>

-----------------------------------------------------------------------------
(* Bull, and the onFailed listener *)

HoldsLock(w) == lock[on[w]] = w

CompleteJob(w) ==
    /\ phase[w] = "finishing"
    /\ GoIdle(w)
    /\ IF HoldsLock(w)
       THEN /\ job' = [job EXCEPT ![on[w]] = "completed"]
            /\ lock' = [lock EXCEPT ![on[w]] = None]
       ELSE UNCHANGED <<job, lock>>
    /\ UNCHANGED <<requestVars, rowVars, attempts, stalls, found, userVars, eventVars>>

\* Mutant of WillRetry: off by one.
WillRetryOnceMore(f) == attempts[f] < MaxAttempts

WillRetry(f) == attempts[f] + 1 < MaxAttempts

\* attemptsMade is incremented, the job goes back to wait for its backoff or is
\* failed for good; only then does 'failed' fire. A worker whose lock is gone
\* gets an error from Bull and changes nothing.
FailJob(w) ==
    LET f == on[w] IN
    /\ phase[w] = "throwing"
    /\ IF HoldsLock(w)
       THEN /\ attempts' = [attempts EXCEPT ![f] = @ + 1]
            /\ job' = [job EXCEPT ![f] = IF WillRetry(f) THEN "waiting" ELSE "failed"]
            /\ lock' = [lock EXCEPT ![f] = None]
       ELSE UNCHANGED <<attempts, job, lock>>
    /\ IF HoldsLock(w) /\ ~WillRetry(f)
       THEN /\ phase' = [phase EXCEPT ![w] = "failing"]
            /\ UNCHANGED on
       ELSE GoIdle(w)
    /\ UNCHANGED <<requestVars, rowVars, stalls, found, userVars, eventVars>>

\* Mutant of MayMarkFailed: onFailed only skips a funnel that is gone.
MayMarkFailedAny(f) == Exists(f)

MayMarkFailed(f) == Exists(f) /\ funnel[f] # "ACTIVE"

\* onFailed reads the row: gone or ACTIVE, it is left alone.
OnFailedRead(w) ==
    /\ phase[w] = "failing"
    /\ IF MayMarkFailed(on[w])
       THEN /\ phase' = [phase EXCEPT ![w] = "marking"]
            /\ UNCHANGED on
       ELSE GoIdle(w)
    /\ UNCHANGED <<requestVars, rowVars, jobVars, found, userVars, eventVars>>

\* ... and then writes FAILED by id alone, and says so.
MarkFailed(w) ==
    LET f == on[w] IN
    /\ phase[w] = "marking"
    /\ ~RowLocked(f)
    /\ funnel' = [funnel EXCEPT ![f] = IF Exists(f) THEN "FAILED" ELSE @]
    /\ failedEvents' = failedEvents \cup {f}
    /\ GoIdle(w)
    /\ UNCHANGED <<requestVars, taskSets, old, jobVars, found, userVars, generatedEvents>>

\* The process dies anywhere, or onFailed swallows a database error: locks and
\* the open transaction are gone, the job is left for the stalled-job check.
Crash(w) ==
    /\ phase[w] # "idle"
    /\ GoIdle(w)
    /\ lock' = [lock EXCEPT ![on[w]] = IF @ = w THEN None ELSE @]
    /\ UNCHANGED <<requestVars, rowVars, job, attempts, stalls, found, userVars, eventVars>>

\* The lock expires under a live worker (its renewal did not get through), which
\* keeps running.
LoseLock(w) ==
    /\ LockLoss
    /\ phase[w] \in RunPhases
    /\ HoldsLock(w)
    /\ lock' = [lock EXCEPT ![on[w]] = None]
    /\ UNCHANGED <<requestVars, rowVars, job, attempts, stalls, workerVars, found,
                   userVars, eventVars>>

\* An active job without a lock is put back, or failed when it stalled too often.
\* attemptsMade stays below the limit then, so onFailed sees "will retry" and
\* writes nothing.
RequeueStalled(f) ==
    /\ job[f] = "active" /\ lock[f] = None
    /\ IF stalls[f] < MaxStalled
       THEN /\ job' = [job EXCEPT ![f] = "waiting"]
            /\ stalls' = [stalls EXCEPT ![f] = @ + 1]
       ELSE /\ job' = [job EXCEPT ![f] = "failed"]
            /\ UNCHANGED stalls
    /\ UNCHANGED <<requestVars, rowVars, attempts, lock, workerVars, found, userVars,
                   eventVars>>

-----------------------------------------------------------------------------
(* The reaper: sweepStuckFunnels *)

Age(f) ==
    /\ funnel[f] = "GENERATING"
    /\ ~old[f]
    /\ old' = [old EXCEPT ![f] = TRUE]
    /\ UNCHANGED <<requestVars, funnel, taskSets, jobVars, workerVars, found, userVars,
                   eventVars>>

\* Mutant of StuckFunnels: the comparison with the cutoff is swapped.
StuckFunnelsYoung == {f \in Funnels : funnel[f] = "GENERATING" /\ ~old[f]}

StuckFunnels == {f \in Funnels : funnel[f] = "GENERATING" /\ old[f]}

FindStuck(s) ==
    /\ found[s] = {}
    /\ StuckFunnels # {}
    /\ found' = [found EXCEPT ![s] = StuckFunnels]
    /\ UNCHANGED <<requestVars, rowVars, jobVars, workerVars, userVars, eventVars>>

\* Mutant of Reaped: the UPDATE goes by id alone.
ReapedById(F) == F

\* UPDATE ... WHERE id IN (found) AND status = 'generating'.
Reaped(F) == {f \in F : funnel[f] = "GENERATING"}

UpdateRuns(s) ==
    /\ found[s] # {}
    /\ \A f \in Reaped(found[s]) : ~RowLocked(f)

\* One UPDATE over the found ids, then an event for every one of them.
MarkStuckFailed(s) ==
    /\ UpdateRuns(s)
    /\ funnel' = [f \in Funnels |-> IF f \in Reaped(found[s]) THEN "FAILED" ELSE funnel[f]]
    /\ failedEvents' = failedEvents \cup found[s]
    /\ found' = [found EXCEPT ![s] = {}]
    /\ UNCHANGED <<requestVars, taskSets, old, jobVars, workerVars, userVars,
                   generatedEvents>>

\* The UPDATE fails, caught and logged, or the process dies before it.
AbandonSweep(s) ==
    /\ UpdateRuns(s)
    /\ found' = [found EXCEPT ![s] = {}]
    /\ UNCHANGED <<requestVars, rowVars, jobVars, workerVars, userVars, eventVars>>

-----------------------------------------------------------------------------
(* deleteFunnel *)

OtherActive(f) ==
    \E g \in Funnels \ {f} : Owner[g] = Owner[f] /\ funnel[g] = "ACTIVE"

\* SELECT ... FOR UPDATE of this row only, and the count of the owner's other
\* ACTIVE rows, which are not locked. The only active funnel is refused (409).
LockForDelete(f) ==
    /\ Exists(f) /\ ~RowLocked(f)
    /\ funnel[f] = "ACTIVE" => OtherActive(f)
    /\ deleting' = deleting \cup {f}
    /\ UNCHANGED <<requestVars, rowVars, jobVars, workerVars, found, renaming, eventVars>>

\* Mutant of CommitDelete: the stages and tasks are left behind.
CommitDeleteAlone(f) ==
    /\ f \in deleting
    /\ funnel' = [funnel EXCEPT ![f] = "deleted"]
    /\ deleting' = deleting \ {f}
    /\ UNCHANGED <<requestVars, taskSets, old, jobVars, workerVars, found, renaming, eventVars>>

\* DELETE cascades to stages and tasks, so it waits for locked stage rows; COMMIT.
CommitDelete(f) ==
    /\ f \in deleting
    /\ ~StagesLocked(f)
    /\ funnel' = [funnel EXCEPT ![f] = "deleted"]
    /\ taskSets' = [taskSets EXCEPT ![f] = 0]
    /\ deleting' = deleting \ {f}
    /\ UNCHANGED <<requestVars, old, jobVars, workerVars, found, renaming, eventVars>>

\* An error rolls the deletion back; so does Postgres when it picks it as the
\* victim of a deadlock with a worker (which holds the stages and wants the row).
RollBackDelete(f) ==
    /\ f \in deleting
    /\ deleting' = deleting \ {f}
    /\ UNCHANGED <<requestVars, rowVars, jobVars, workerVars, found, renaming, eventVars>>

-----------------------------------------------------------------------------
(* renameFunnel *)

\* updateFunnelName loads the whole entity ...
ReadForRename(f) ==
    /\ Renames
    /\ Exists(f) /\ renaming[f] = None
    /\ renaming' = [renaming EXCEPT ![f] = funnel[f]]
    /\ UNCHANGED <<requestVars, rowVars, jobVars, workerVars, found, deleting, eventVars>>

\* ... and saves it: TypeORM writes every column that differs from the row it finds
\* then, the stale status among them, and inserts the entity again when it finds no
\* row (unless another funnel has the key by now).
SaveRename(f) ==
    /\ renaming[f] # None
    /\ ~RowLocked(f)
    /\ ~Exists(f) => NoOpenInsert(f)
    /\ funnel' = IF ~Exists(f) /\ KeyTaken(f, key[f]) THEN funnel
                 ELSE [funnel EXCEPT ![f] = renaming[f]]
    /\ renaming' = [renaming EXCEPT ![f] = None]
    /\ UNCHANGED <<requestVars, taskSets, old, jobVars, workerVars, found, deleting,
                   eventVars>>

-----------------------------------------------------------------------------
RequestStep(f) ==
    \/ \E k \in Keys : LookUpKey(f, k)
    \/ RejectRequest(f) \/ InsertFunnel(f)
    \/ EnqueueJob(f) \/ CommitFunnel(f) \/ RollBackFunnel(f)

WorkerStep(w) ==
    \/ LoadFunnel(w) \/ GenerateContent(w) \/ FindStages(w) \/ WriteStages(w)
    \/ ActivateFunnel(w) \/ EmitGenerated(w) \/ CompleteJob(w) \/ FailJob(w)
    \/ OnFailedRead(w) \/ MarkFailed(w)

WorkerFault(w) == ThrowInJob(w) \/ Crash(w) \/ LoseLock(w)

SweepStep(s) == FindStuck(s) \/ MarkStuckFailed(s) \/ AbandonSweep(s)

RenameStep(f) == ReadForRename(f) \/ SaveRename(f)

DeleteStep(f) == LockForDelete(f) \/ CommitDelete(f) \/ RollBackDelete(f)

Next ==
    \/ \E f \in Funnels : RequestStep(f) \/ RequeueStalled(f) \/ Age(f)
                               \/ DeleteStep(f) \/ RenameStep(f)
    \/ \E w \in Workers : WorkerStep(w) \/ WorkerFault(w)
    \/ \E w \in Workers, f \in Funnels : TakeJob(w, f)
    \/ \E s \in Sweeps : SweepStep(s)

Spec == Init /\ [][Next]_vars

\* The scheduler: time passes, the cron keeps running and its UPDATE gets
\* through sooner or later, open transactions end, workers take jobs and run on
\* (strongly fair where a row lock may keep them waiting: Postgres queues the
\* waiters), Bull keeps checking for stalled jobs. Nothing is assumed of the
\* clients and nothing forbids a crash.
Fairness ==
    /\ \A f \in Funnels :
          /\ WF_vars(Age(f))
          /\ WF_vars(RequeueStalled(f))
          /\ WF_vars(CommitDelete(f) \/ RollBackDelete(f))
          /\ WF_vars(\E w \in Workers : TakeJob(w, f))
    /\ \A w \in Workers : SF_vars(WorkerStep(w))
    /\ \A s \in Sweeps : WF_vars(FindStuck(s)) /\ SF_vars(MarkStuckFailed(s))

FairSpec == Spec /\ Fairness

-----------------------------------------------------------------------------
(* Properties *)

\* Two funnels of one user never carry the same idempotency key at the same
\* time, however the lookups, inserts and roll-backs of resent POSTs interleave
\* (createGeneration and the index UQ_funnels_user_idempotency).
OneFunnelPerKey ==
    \A f, g \in Funnels : f # g /\ SameKey(f, g) => ~(Exists(f) /\ Exists(g))

\* A funnel has its generated tasks exactly once when it is ACTIVE and not at all
\* otherwise: a retry, or a stalled job that runs again after its worker died, never
\* adds a second set, a roll-back or a cascade never leaves one behind
\* (handleGenerateFunnel, writeFunnelData, deleteFunnel). Only if every worker keeps
\* its lock while it runs (Undisturbed): one that goes on without it adds a second set.
TasksMatchStatus ==
    \A f \in Funnels : taskSets[f] = IF funnel[f] = "ACTIVE" THEN 1 ELSE 0

\* A funnel that is ACTIVE stays so until it is deleted: neither the reaper nor
\* an onFailed that looked earlier overwrites it.
ActiveIsFinal ==
    [][\A f \in Funnels :
          funnel[f] = "ACTIVE" => funnel'[f] \in {"ACTIVE", "deleted"}]_vars

\* FUNNEL_GENERATED is only ever announced for a funnel whose tasks are committed,
\* and the announcement stays true: that funnel is ACTIVE until it is deleted.
GeneratedEventsHold ==
    \A f \in generatedEvents : funnel[f] \in {"ACTIVE", "deleted"}

\* FUNNEL_FAILED is only announced for a funnel that has been written FAILED
\* (or deleted): "emit AFTER the database write completes".
FailedEventsFollowWrite ==
    [][\A f \in failedEvents' \ failedEvents :
          funnel'[f] \in {"FAILED", "deleted"}]_vars

\* Deleting an ACTIVE funnel leaves its owner another ACTIVE one.
KeepsAnActiveFunnel ==
    [][\A f \in Funnels :
          funnel[f] = "ACTIVE" /\ funnel'[f] = "deleted" =>
             \E g \in Funnels \ {f} : Owner[g] = Owner[f] /\ funnel'[g] = "ACTIVE"]_vars

\* The tables behave as FunnelLifecycle promises.
Lifecycle == INSTANCE FunnelLifecycle WITH status <- funnel
RefinesLifecycle == Lifecycle!Spec

\* No funnel is GENERATING for ever, whatever becomes of its job: the job that
\* never saw the row, the worker that died, the FAILED write that was lost.
GenerationSettles ==
    \A f \in Funnels : funnel[f] = "GENERATING" ~> funnel[f] # "GENERATING"

\* No job runs for ever: crashes, lost locks, deadlocks with a deletion and
\* throwing attempts together end in a completed or a failed job.
JobsEnd ==
    \A f \in Funnels : job[f] = "waiting" ~> job[f] \in {"completed", "failed"}
=============================================================================
