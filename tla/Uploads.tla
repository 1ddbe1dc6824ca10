------------------------------- MODULE Uploads -------------------------------
(***************************************************************************)
(* An uploaded document: the row of uploaded_documents, its object in the  *)
(* store and its job on the document-extraction queue, and everybody who   *)
(* writes them:                                                            *)
(*   - POST /funnels/upload, which stores the file and puts the job on the *)
(*     queue, and rolls back what it can when a step fails;                *)
(*   - the extraction workers, with Bull's retries, stalled jobs, lost     *)
(*     locks and crashes, and the onFailed listener;                       *)
(*   - sweepStuckUploads, every minute, over rows older than five minutes; *)
(*   - the recovery at start, over PARSING rows not written for fifteen.   *)
(*                                                                         *)
(* repository.save of an entity is two steps: a SELECT of the row, then an *)
(* UPDATE of the columns in which the entity differs from what was         *)
(* selected, or an INSERT when there was no row (WriteRow).                *)
(*                                                                         *)
(* A definition marked "Mutant" is a mistake the code could contain; no    *)
(* behaviour uses it.                                                      *)
(***************************************************************************)
EXTENDS Naturals

CONSTANTS
    Docs,           \* one id per uploaded file
    Workers,        \* job slots of the queue, over all processes
    Sweeps,         \* reaper sweeps that may overlap
    MaxAttempts,    \* attempts of a job
    MaxStalled,     \* Bull's maxStalledCount
    MaxTries,       \* maxRetries of withDbRetry
    None            \* no worker, no document

ASSUME UploadConstants ==
    /\ MaxAttempts \in Nat \ {0}
    /\ MaxStalled \in Nat
    /\ MaxTries \in Nat \ {0}
    /\ None \notin Workers \cup Docs
    /\ Docs \cap Workers = {}

VARIABLES
    request,        \* progress of the request for this file
    tries,          \* failed attempts of its withDbRetry so far
    status,         \* the row's status, "none" without a row
    percent,        \* percent_complete
    text,           \* does the row hold parsed text?
    old,            \* created_at is past the reaper's threshold
    quiet,          \* updated_at is past the recovery's threshold
    object,         \* is there an object at storage_path?
    job,            \* the state of the job; "waiting" includes delayed
    attempts,       \* job.attemptsMade
    stalls,         \* how often Bull found it stalled
    lock,           \* the worker whose token is on its lock
    phase,          \* where each worker is in the processor
    on,             \* the document it works for
    copy,           \* the entity it has loaded
    seen,           \* what the SELECT of the save in progress has found
    found           \* the ids each running sweep selected

requestVars == <<request, tries>>
rowVars == <<status, percent, text, quiet>>
jobVars == <<job, attempts, stalls, lock>>
workerVars == <<phase, on, copy, seen>>
vars == <<requestVars, rowVars, old, object, jobVars, workerVars, found>>

Pending == {"uploading", "parsing"}
Terminal == {"ready", "failed"}
Statuses == {"none"} \cup Pending \cup Terminal
InFlight == {"storing", "progress", "parsing", "writing", "queueing", "undoing",
             "undoingRow"}
RunPhases == {"loading", "fetching", "saving", "writing"}

\* What a SELECT returns.
Rows == [status : Statuses, percent : {0, 45, 50, 100}, text : BOOLEAN]
NoRow == [status |-> "none", percent |-> 0, text |-> FALSE]

TypeOK ==
    /\ request \in [Docs -> InFlight \cup {"idle", "accepted", "rejected", "lost"}]
    /\ tries \in [Docs -> 0..MaxTries]
    /\ status \in [Docs -> Statuses]
    /\ percent \in [Docs -> {0, 45, 50, 100}]
    /\ text \in [Docs -> BOOLEAN]
    /\ old \in [Docs -> BOOLEAN]
    /\ quiet \in [Docs -> BOOLEAN]
    /\ object \in [Docs -> BOOLEAN]
    /\ job \in [Docs -> {"none", "waiting", "active", "completed", "failed"}]
    /\ attempts \in [Docs -> 0..MaxAttempts]
    /\ stalls \in [Docs -> 0..MaxStalled]
    /\ lock \in [Docs -> Workers \cup {None}]
    /\ phase \in [Workers -> {"idle", "finishing", "throwing", "failing", "reporting",
                              "marking"} \cup RunPhases]
    /\ on \in [Workers -> Docs \cup {None}]
    /\ copy \in [Workers -> Rows]
    /\ seen \in [Docs \cup Workers -> Rows]
    /\ found \in [Sweeps -> SUBSET Docs]

Init ==
    /\ request = [d \in Docs |-> "idle"]
    /\ tries = [d \in Docs |-> 0]
    /\ status = [d \in Docs |-> "none"]
    /\ percent = [d \in Docs |-> 0]
    /\ text = [d \in Docs |-> FALSE]
    /\ old = [d \in Docs |-> FALSE]
    /\ quiet = [d \in Docs |-> FALSE]
    /\ object = [d \in Docs |-> FALSE]
    /\ job = [d \in Docs |-> "none"]
    /\ attempts = [d \in Docs |-> 0]
    /\ stalls = [d \in Docs |-> 0]
    /\ lock = [d \in Docs |-> None]
    /\ phase = [w \in Workers |-> "idle"]
    /\ on = [w \in Workers |-> None]
    /\ copy = [w \in Workers |-> NoRow]
    /\ seen = [x \in Docs \cup Workers |-> NoRow]
    /\ found = [s \in Sweeps |-> {}]

-----------------------------------------------------------------------------
(* The row *)

Row(d) == [status |-> status[d], percent |-> percent[d], text |-> text[d]]

Exists(d) == status[d] # "none"

SetRow(d, r) ==
    /\ status' = [status EXCEPT ![d] = r.status]
    /\ percent' = [percent EXCEPT ![d] = r.percent]
    /\ text' = [text EXCEPT ![d] = r.text]

Column(now, before, want) == IF want = before THEN now ELSE want

\* The row after the second half of a save that selected `before`. An UPDATE of a row
\* that has been deleted changes nothing.
Saved(d, before, want) ==
    CASE before = NoRow -> want
      [] before # NoRow /\ ~Exists(d) -> NoRow
      [] OTHER -> [status |-> Column(status[d], before.status, want.status),
                   percent |-> Column(percent[d], before.percent, want.percent),
                   text |-> Column(text[d], before.text, want.text)]

\* No statement is sent when nothing differs: updated_at stays too.
WriteRow(d, before, want) ==
    /\ SetRow(d, Saved(d, before, want))
    /\ quiet' = [quiet EXCEPT ![d] = IF want = before THEN @ ELSE FALSE]

\* The INSERT of a row that somebody else has inserted again meanwhile.
Duplicate(d, before) == before = NoRow /\ Exists(d)

Select(x, d) == seen' = [seen EXCEPT ![x] = Row(d)]
Forget(x) == seen' = [seen EXCEPT ![x] = NoRow]

\* Mutant of FailRows: percent_complete is left as it is.
FailStatus(D) ==
    /\ status' = [d \in Docs |-> IF d \in D THEN "failed" ELSE status[d]]
    /\ quiet' = [d \in Docs |-> IF d \in D THEN FALSE ELSE quiet[d]]
    /\ UNCHANGED <<percent, text>>

\* UPDATE ... SET status = 'failed', percent_complete = 0 of some rows.
FailRows(D) ==
    /\ status' = [d \in Docs |-> IF d \in D THEN "failed" ELSE status[d]]
    /\ percent' = [d \in Docs |-> IF d \in D THEN 0 ELSE percent[d]]
    /\ quiet' = [d \in Docs |-> IF d \in D THEN FALSE ELSE quiet[d]]
    /\ UNCHANGED text

-----------------------------------------------------------------------------
(* processOneFile *)

Advance(d, from, to) ==
    /\ request[d] \in from
    /\ request' = [request EXCEPT ![d] = to]

\* The rate limit, too many files, or a file that is truncated, empty, too large
\* or not what its extension, its MIME type and its first bytes agree on.
RejectFile(d) ==
    /\ Advance(d, {"idle"}, "rejected")
    /\ UNCHANGED <<tries, rowVars, old, object, jobVars, workerVars, found>>

\* The INSERT, under an id nobody knows yet. It may throw after it was carried out:
\* there is no entity to roll back.
CreateRow(d) ==
    /\ Advance(d, {"idle"}, "storing") \/ Advance(d, {"idle"}, "rejected")
    /\ SetRow(d, [NoRow EXCEPT !.status = "uploading"])
    /\ UNCHANGED <<tries, quiet, old, object, jobVars, workerVars, found>>

\* withDbRetry around a call that was carried out: it returns, or throws all the same
\* and is made again, or was made too often.
WithDbRetry(d, from, again, done) ==
    \/ /\ Advance(d, {from}, done)
       /\ tries' = [tries EXCEPT ![d] = 0]
    \/ /\ tries[d] + 1 < MaxTries
       /\ Advance(d, {from}, again)
       /\ tries' = [tries EXCEPT ![d] = @ + 1]
    \/ /\ tries[d] + 1 = MaxTries
       /\ Advance(d, {from}, "undoing")
       /\ tries' = [tries EXCEPT ![d] = 0]

\* Mutant of PutObject: the upload to the store is not awaited.
PutObjectLater(d) ==
    /\ Advance(d, {"storing"}, "progress")
    /\ \E written \in BOOLEAN : object' = [object EXCEPT ![d] = written]
    /\ UNCHANGED <<tries, rowVars, old, jobVars, workerVars, found>>

\* putObject; when it throws although the object was written, nobody deletes it.
PutObject(d) ==
    /\ Advance(d, {"storing"}, "progress") \/ Advance(d, {"storing"}, "undoingRow")
    /\ object' = [object EXCEPT ![d] = TRUE]
    /\ UNCHANGED <<tries, rowVars, old, jobVars, workerVars, found>>

\* UPDATE ... SET percent_complete = 45 WHERE percent_complete < 45.
UpdateProgress(d) ==
    /\ WithDbRetry(d, "progress", "progress", "parsing")
    /\ IF Exists(d) /\ percent[d] < 45
       THEN /\ percent' = [percent EXCEPT ![d] = 45]
            /\ quiet' = [quiet EXCEPT ![d] = FALSE]
       ELSE UNCHANGED <<percent, quiet>>
    /\ UNCHANGED <<status, text, old, object, jobVars, workerVars, found>>

\* The entity made at the start is saved as PARSING, whatever the row has become.
ParsingEntity == [status |-> "parsing", percent |-> 50, text |-> FALSE]

SelectForParsing(d) ==
    /\ Advance(d, {"parsing"}, "writing")
    /\ Select(d, d)
    /\ UNCHANGED <<tries, rowVars, old, object, jobVars, phase, on, copy, found>>

SaveParsing(d) ==
    /\ WithDbRetry(d, "writing", "parsing", "queueing")
    /\ WriteRow(d, seen[d], ParsingEntity)
    /\ Forget(d)
    /\ UNCHANGED <<old, object, jobVars, phase, on, copy, found>>

\* queue.add; it may throw although the job has reached Redis.
Enqueue(d) ==
    /\ Advance(d, {"queueing"}, "accepted") \/ Advance(d, {"queueing"}, "undoing")
    /\ job' = [job EXCEPT ![d] = "waiting"]
    /\ UNCHANGED <<tries, rowVars, old, object, attempts, stalls, lock, workerVars,
                   found>>

\* A call throws and has done nothing, the retries of withDbRetry included.
ThrowInRequest(d) ==
    /\ \/ Advance(d, {"storing"}, "undoingRow")
       \/ Advance(d, {"progress", "parsing", "writing", "queueing"}, "undoing")
    /\ tries' = [tries EXCEPT ![d] = 0]
    /\ Forget(d)
    /\ UNCHANGED <<rowVars, old, object, jobVars, phase, on, copy, found>>

\* rollbackSingleUpload, best effort: a deletion that throws is skipped.
UndoObject(d) ==
    /\ Advance(d, {"undoing"}, "undoingRow")
    /\ \E deleted \in BOOLEAN : object' = [object EXCEPT ![d] = @ /\ ~deleted]
    /\ UNCHANGED <<tries, rowVars, old, jobVars, workerVars, found>>

UndoRow(d) ==
    /\ Advance(d, {"undoingRow"}, "rejected")
    /\ \/ /\ SetRow(d, NoRow)
          /\ quiet' = [quiet EXCEPT ![d] = FALSE]
       \/ UNCHANGED rowVars
    /\ UNCHANGED <<tries, old, object, jobVars, workerVars, found>>

\* The process dies under the request.
CrashRequest(d) ==
    /\ Advance(d, InFlight, "lost")
    /\ tries' = [tries EXCEPT ![d] = 0]
    /\ Forget(d)
    /\ UNCHANGED <<rowVars, old, object, jobVars, phase, on, copy, found>>

-----------------------------------------------------------------------------
(* handleExtraction *)

Goto(w, from, to) ==
    /\ phase[w] = from
    /\ phase' = [phase EXCEPT ![w] = to]

GoIdle(w) ==
    /\ phase' = [phase EXCEPT ![w] = "idle"]
    /\ on' = [on EXCEPT ![w] = None]
    /\ copy' = [copy EXCEPT ![w] = NoRow]
    /\ Forget(w)

TakeJob(w, d) ==
    /\ Goto(w, "idle", "loading")
    /\ job[d] = "waiting"
    /\ job' = [job EXCEPT ![d] = "active"]
    /\ lock' = [lock EXCEPT ![d] = w]
    /\ on' = [on EXCEPT ![w] = d]
    /\ UNCHANGED <<requestVars, rowVars, old, object, attempts, stalls, copy, seen,
                   found>>

\* Mutant of AfterLoad: no idempotency guard.
AfterLoadUnguarded(s) == IF s = "none" THEN "throwing" ELSE "fetching"

\* No row: throw, so that Bull retries. READY or FAILED: nothing to do.
AfterLoad(s) ==
    CASE s = "none" -> "throwing"
      [] s \in Terminal -> "finishing"
      [] OTHER -> "fetching"

LoadRow(w) ==
    /\ Goto(w, "loading", AfterLoad(status[on[w]]))
    /\ copy' = [copy EXCEPT ![w] = Row(on[w])]
    /\ UNCHANGED <<requestVars, rowVars, old, object, jobVars, on, seen, found>>

\* getObject, and the extraction in a race with its 270 s.
Extract(w) ==
    /\ Goto(w, "fetching", IF object[on[w]] THEN "saving" ELSE "throwing")
    /\ UNCHANGED <<requestVars, rowVars, old, object, jobVars, on, copy, seen, found>>

\* The entity of LoadRow is saved as READY.
ReadyEntity == [status |-> "ready", percent |-> 100, text |-> TRUE]

SelectForReady(w) ==
    /\ Goto(w, "saving", "writing")
    /\ Select(w, on[w])
    /\ UNCHANGED <<requestVars, rowVars, old, object, jobVars, on, copy, found>>

\* The save may throw although it has written.
SaveReady(w) ==
    /\ phase[w] = "writing"
    /\ IF Duplicate(on[w], seen[w])
       THEN /\ phase' = [phase EXCEPT ![w] = "throwing"]
            /\ UNCHANGED rowVars
       ELSE /\ \E next \in {"finishing", "throwing"} : phase' = [phase EXCEPT ![w] = next]
            /\ WriteRow(on[w], seen[w], ReadyEntity)
    /\ Forget(w)
    /\ UNCHANGED <<requestVars, old, object, jobVars, on, copy, found>>

\* A query, the store, the extractor or its time limit.
ThrowInJob(w) ==
    /\ phase[w] \in RunPhases
    /\ phase' = [phase EXCEPT ![w] = "throwing"]
    /\ Forget(w)
    /\ UNCHANGED <<requestVars, rowVars, old, object, jobVars, on, copy, found>>

-----------------------------------------------------------------------------
(* Bull, and the onFailed listener *)

HoldsLock(w) == lock[on[w]] = w

CompleteJob(w) ==
    /\ phase[w] = "finishing"
    /\ GoIdle(w)
    /\ IF HoldsLock(w)
       THEN /\ job' = [job EXCEPT ![on[w]] = "completed"]
            /\ lock' = [lock EXCEPT ![on[w]] = None]
       ELSE UNCHANGED <<job, lock>>
    /\ UNCHANGED <<requestVars, rowVars, old, object, attempts, stalls, found>>

WillRetry(d) == attempts[d] + 1 < MaxAttempts

\* Back to wait for the backoff, or failed for good: only then does onFailed go on.
\* A worker whose lock is gone gets an error from Bull and changes nothing.
FailJob(w) ==
    LET d == on[w] IN
    /\ phase[w] = "throwing"
    /\ IF HoldsLock(w)
       THEN /\ attempts' = [attempts EXCEPT ![d] = @ + 1]
            /\ job' = [job EXCEPT ![d] = IF WillRetry(d) THEN "waiting" ELSE "failed"]
            /\ lock' = [lock EXCEPT ![d] = None]
       ELSE UNCHANGED <<attempts, job, lock>>
    /\ IF HoldsLock(w) /\ ~WillRetry(d)
       THEN /\ phase' = [phase EXCEPT ![w] = "failing"]
            /\ UNCHANGED <<on, copy, seen>>
       ELSE GoIdle(w)
    /\ UNCHANGED <<requestVars, rowVars, old, object, stalls, found>>

\* Mutant of MayReport: only a missing row is left alone.
MayReportAny(s) == s # "none"

MayReport(s) == s \notin {"none", "ready"}

ReadForReport(w) ==
    /\ phase[w] = "failing"
    /\ IF MayReport(status[on[w]])
       THEN /\ phase' = [phase EXCEPT ![w] = "reporting"]
            /\ copy' = [copy EXCEPT ![w] = Row(on[w])]
            /\ UNCHANGED <<on, seen>>
       ELSE GoIdle(w)
    /\ UNCHANGED <<requestVars, rowVars, old, object, jobVars, found>>

\* The entity of ReadForReport is saved as FAILED; nothing is assigned to its text.
FailedEntity(w) == [status |-> "failed", percent |-> 0, text |-> copy[w].text]

SelectForReport(w) ==
    /\ Goto(w, "reporting", "marking")
    /\ Select(w, on[w])
    /\ UNCHANGED <<requestVars, rowVars, old, object, jobVars, on, copy, found>>

ReportFailed(w) ==
    /\ phase[w] = "marking"
    /\ IF Duplicate(on[w], seen[w])
       THEN UNCHANGED rowVars
       ELSE WriteRow(on[w], seen[w], FailedEntity(w))
    /\ GoIdle(w)
    /\ UNCHANGED <<requestVars, old, object, jobVars, found>>

\* The process dies, or onFailed swallows a database error.
CrashWorker(w) ==
    /\ phase[w] # "idle"
    /\ GoIdle(w)
    /\ lock' = [lock EXCEPT ![on[w]] = IF @ = w THEN None ELSE @]
    /\ UNCHANGED <<requestVars, rowVars, old, object, job, attempts, stalls, found>>

\* A long synchronous parse keeps the lock from being renewed; the worker goes on.
LoseLock(w) ==
    /\ phase[w] \in RunPhases
    /\ HoldsLock(w)
    /\ lock' = [lock EXCEPT ![on[w]] = None]
    /\ UNCHANGED <<requestVars, rowVars, old, object, job, attempts, stalls, workerVars,
                   found>>

\* Put back, or failed when it stalled too often; onFailed then sees "will retry".
RequeueStalled(d) ==
    /\ job[d] = "active" /\ lock[d] = None
    /\ IF stalls[d] < MaxStalled
       THEN /\ job' = [job EXCEPT ![d] = "waiting"]
            /\ stalls' = [stalls EXCEPT ![d] = @ + 1]
       ELSE /\ job' = [job EXCEPT ![d] = "failed"]
            /\ UNCHANGED stalls
    /\ UNCHANGED <<requestVars, rowVars, old, object, attempts, lock, workerVars,
                   found>>

-----------------------------------------------------------------------------
(* sweepStuckUploads and UploadRecoveryService *)

Age(d) ==
    /\ Exists(d) /\ ~old[d]
    /\ old' = [old EXCEPT ![d] = TRUE]
    /\ UNCHANGED <<requestVars, rowVars, object, jobVars, workerVars, found>>

GoQuiet(d) ==
    /\ Exists(d) /\ old[d] /\ ~quiet[d]
    /\ quiet' = [quiet EXCEPT ![d] = TRUE]
    /\ UNCHANGED <<requestVars, status, percent, text, old, object, jobVars, workerVars,
                   found>>

\* Mutant of Stuck: a row that never got past UPLOADING is not looked for.
StuckParsing == {d \in Docs : status[d] = "parsing" /\ old[d]}

Stuck == {d \in Docs : status[d] \in Pending /\ old[d]}

FindStuck(s) ==
    /\ found[s] = {}
    /\ Stuck # {}
    /\ found' = [found EXCEPT ![s] = Stuck]
    /\ UNCHANGED <<requestVars, rowVars, old, object, jobVars, workerVars>>

\* Mutant of Reaped: the UPDATE goes by id alone.
ReapedById(D) == D

\* UPDATE ... WHERE id IN (found) AND status IN ('parsing', 'uploading').
Reaped(D) == {d \in D : status[d] \in Pending}

MarkStuckFailed(s) ==
    /\ found[s] # {}
    /\ FailRows(Reaped(found[s]))
    /\ found' = [found EXCEPT ![s] = {}]
    /\ UNCHANGED <<requestVars, old, object, jobVars, workerVars>>

\* The UPDATE fails, caught and logged, or the process dies before it.
AbandonSweep(s) ==
    /\ found[s] # {}
    /\ found' = [found EXCEPT ![s] = {}]
    /\ UNCHANGED <<requestVars, rowVars, old, object, jobVars, workerVars>>

\* markStaleParsing when a process starts.
Recover ==
    LET stale == {d \in Docs : status[d] = "parsing" /\ quiet[d]} IN
    /\ stale # {}
    /\ FailRows(stale)
    /\ UNCHANGED <<requestVars, old, object, jobVars, workerVars, found>>

-----------------------------------------------------------------------------
RequestStep(d) ==
    \/ RejectFile(d) \/ CreateRow(d) \/ PutObject(d) \/ UpdateProgress(d)
    \/ SelectForParsing(d) \/ SaveParsing(d) \/ Enqueue(d) \/ ThrowInRequest(d)
    \/ UndoObject(d) \/ UndoRow(d) \/ CrashRequest(d)

WorkerStep(w) ==
    \/ LoadRow(w) \/ Extract(w) \/ SelectForReady(w) \/ SaveReady(w) \/ CompleteJob(w)
    \/ FailJob(w) \/ ReadForReport(w) \/ SelectForReport(w) \/ ReportFailed(w)

WorkerFault(w) == ThrowInJob(w) \/ CrashWorker(w) \/ LoseLock(w)

SweepStep(s) == FindStuck(s) \/ MarkStuckFailed(s) \/ AbandonSweep(s)

Next ==
    \/ \E d \in Docs : RequestStep(d) \/ RequeueStalled(d) \/ Age(d) \/ GoQuiet(d)
    \/ \E w \in Workers : WorkerStep(w) \/ WorkerFault(w)
    \/ \E w \in Workers, d \in Docs : TakeJob(w, d)
    \/ \E s \in Sweeps : SweepStep(s)
    \/ Recover

Spec == Init /\ [][Next]_vars

\* Time passes, the cron keeps running and its UPDATE gets through sooner or
\* later. Nothing is assumed of requests, workers or Bull.
Fairness ==
    /\ \A d \in Docs : WF_vars(Age(d))
    /\ \A s \in Sweeps : WF_vars(FindStuck(s)) /\ SF_vars(MarkStuckFailed(s))

FairSpec == Spec /\ Fairness

-----------------------------------------------------------------------------
(* Properties *)

\* A READY document holds its text and stands at 100 %, and nobody else stands there
\* or is still pending with a text, though each save writes only the columns in which
\* the entity differed from an earlier SELECT: the funnel generation that asks for
\* READY rows gets their text (handleExtraction, onFailed, processOneFile). A FAILED
\* row may keep a text: onFailed may select before a late worker has written READY
\* and write afterwards.
ReadyHasText ==
    \A d \in Docs :
       /\ status[d] = "ready" => text[d]
       /\ status[d] = "ready" <=> percent[d] = 100
       /\ text[d] => status[d] \in Terminal

\* An upload that was answered with its id has its row and its object from then on,
\* whatever becomes of its job: no roll-back, sweep or recovery takes them
\* (processOneFile, rollbackSingleUpload).
AcceptedIsStored ==
    \A d \in Docs : request[d] = "accepted" => Exists(d) /\ object[d]

\* A row that has reached READY or FAILED is moved on only by somebody who read it
\* before: the request that still holds the entity it created, a worker that
\* loaded it pending, or an onFailed that loaded it before it was READY. A retried
\* or stalled job that starts after the verdict, the sweeps and the recovery leave
\* it alone.
VerdictStands ==
    [][\A d \in Docs :
          status[d] \in Terminal /\ status'[d] # status[d] =>
             \/ request[d] \in {"writing", "undoingRow"}
             \/ \E w \in Workers : /\ on[w] = d
                                   /\ phase[w] = "writing" /\ copy[w].status \in Pending
             \/ \E w \in Workers : /\ on[w] = d /\ phase[w] = "marking"
                                   /\ copy[w].status # "ready"]_vars

\* No document is left UPLOADING or PARSING for ever, and it is not moved back and
\* forth for ever either: a poller sees a final status, whatever crashed, was lost
\* or came late (sweepStuckUploads).
UploadSettles == \A d \in Docs : <>[](status[d] \notin Pending)
=============================================================================
