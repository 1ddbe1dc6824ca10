-------------------------- MODULE StageProgression --------------------------
(***************************************************************************)
(* An ACTIVE funnel's stages, and the requests of its owner that move them *)
(* on: completeStage, updateTaskStatus and submitFeedback, which may be    *)
(* sent from several tabs at once, while deleteFunnel may remove it all.   *)
(*                                                                         *)
(* A step is what happens between two awaits of the database; reads of     *)
(* rows that never change again are part of the step after them.           *)
(* completeStage runs in a READ COMMITTED transaction: its reads see what  *)
(* is committed by then, its UPDATE keeps the stage row locked until it    *)
(* commits or rolls back, and nobody sees it before.                       *)
(*                                                                         *)
(* A definition marked "Mutant" is a mistake the code could contain; no    *)
(* behaviour uses it.                                                      *)
(***************************************************************************)
EXTENDS Naturals

CONSTANTS
    StageCount,     \* the stages of a funnel, STAGE_NAMES.length
    Tasks,          \* the tasks of each stage
    Requests,       \* requests that may be in progress together
    None            \* no task to set

ASSUME StageAssumption == StageCount \in Nat \ {0} /\ Tasks # {}

Stages == 1..StageCount
Edits == [task : Tasks, complete : BOOLEAN]

VARIABLES
    stage,              \* the committed status by position, "gone" with the funnel
    done,               \* the tasks whose status is complete
    feedback,           \* feedback rows of the stage
    completedEvents,    \* STAGE_COMPLETED emitted
    unlockedEvents,     \* STAGE_UNLOCKED emitted
    pc,                 \* what each request awaits
    at,                 \* the stage it is about, until the next request
    edit,               \* the task it sets, and whether to complete
    answer              \* what it answered

tableVars == <<stage, done, feedback>>
eventVars == <<completedEvents, unlockedEvents>>
vars == <<tableVars, eventVars, pc, at, edit, answer>>

Answers == {"none", "completed", "already", "conflict", "saved", "refused", "error"}

TypeOK ==
    /\ stage \in [Stages -> {"LOCKED", "ACTIVE", "COMPLETE", "gone"}]
    /\ done \in [Stages -> SUBSET Tasks]
    /\ feedback \in [Stages -> Nat]
    /\ completedEvents \in [Stages -> Nat]
    /\ unlockedEvents \in [Stages -> Nat]
    /\ pc \in [Requests -> {"idle", "counting", "updating", "rereading", "committing",
                            "announcing", "reading", "saving", "lookingUp", "inserting"}]
    /\ at \in [Requests -> Stages]
    /\ edit \in [Requests -> Edits \cup {None}]
    /\ answer \in [Requests -> Answers]

Init ==
    /\ stage = [p \in Stages |-> IF p = 1 THEN "ACTIVE" ELSE "LOCKED"]
    /\ done = [p \in Stages |-> {}]
    /\ feedback = [p \in Stages |-> 0]
    /\ completedEvents = [p \in Stages |-> 0]
    /\ unlockedEvents = [p \in Stages |-> 0]
    /\ pc = [r \in Requests |-> "idle"]
    /\ at = [r \in Requests |-> 1]
    /\ edit = [r \in Requests |-> None]
    /\ answer = [r \in Requests |-> "none"]

-----------------------------------------------------------------------------
Await(r, from, to) ==
    /\ pc[r] = from
    /\ pc' = [pc EXCEPT ![r] = to]
    /\ UNCHANGED <<at, edit, answer>>

Answer(r, a) ==
    /\ pc' = [pc EXCEPT ![r] = "idle"]
    /\ answer' = [answer EXCEPT ![r] = a]
    /\ edit' = [edit EXCEPT ![r] = None]
    /\ UNCHANGED at

\* A request begins with a look at the funnel and the stage: it is answered at
\* once or goes on.
Begin(r, p, a, to) ==
    /\ pc[r] = "idle"
    /\ at' = [at EXCEPT ![r] = p]
    /\ pc' = [pc EXCEPT ![r] = to]
    /\ answer' = [answer EXCEPT ![r] = a]

Gone(p) == stage[p] = "gone"

\* The stage row is locked by a transaction that has updated it.
RowLocked(p) == \E r \in Requests : pc[r] = "committing" /\ at[r] = p

AllDone(p) == done[p] = Tasks

-----------------------------------------------------------------------------
(* completeStage *)

\* COMPLETE is answered idempotently (200); LOCKED (403) and gone (404) refused.
AskToComplete(r, p) ==
    /\ CASE stage[p] = "ACTIVE" -> Begin(r, p, "none", "counting")
         [] stage[p] = "COMPLETE" -> Begin(r, p, "already", "idle")
         [] OTHER -> Begin(r, p, "refused", "idle")
    /\ UNCHANGED <<tableVars, eventVars, edit>>

\* countTasksForStage: pending tasks, or none at all, refuse it (422).
CountTasks(r) ==
    /\ pc[r] = "counting"
    /\ IF ~Gone(at[r]) /\ AllDone(at[r])
       THEN Await(r, "counting", "updating")
       ELSE Answer(r, "refused")
    /\ UNCHANGED <<tableVars, eventVars>>

\* Mutant of StillActive: the UPDATE goes by id alone.
StillThere(p) == ~Gone(p)

\* updateStageStatusIfActive: WHERE status = 'active'.
StillActive(p) == stage[p] = "ACTIVE"

UpdateStage(r) ==
    /\ ~RowLocked(at[r])
    /\ Await(r, "updating", IF StillActive(at[r]) THEN "committing" ELSE "rereading")
    /\ UNCHANGED <<tableVars, eventVars>>

\* Mutant of LostRace: the stage is not read again.
LostRaceUnread(p) == "conflict"

LostRace(p) == IF stage[p] = "COMPLETE" THEN "already" ELSE "conflict"

\* Nothing was updated: somebody else completed the stage, or it is a conflict (409).
RereadStage(r) ==
    /\ pc[r] = "rereading"
    /\ Answer(r, LostRace(at[r]))
    /\ UNCHANGED <<tableVars, eventVars>>

\* Mutant of WithCompleted: the next stage is not unlocked.
OnlyCompleted(p) == [stage EXCEPT ![p] = "COMPLETE"]

\* activateStageIfLocked moves the next stage on in the same transaction.
WithCompleted(p) ==
    [q \in Stages |-> CASE q = p -> "COMPLETE"
                        [] q = p + 1 /\ stage[q] = "LOCKED" -> "ACTIVE"
                        [] OTHER -> stage[q]]

CommitCompletion(r) ==
    /\ Await(r, "committing", "announcing")
    /\ stage' = WithCompleted(at[r])
    /\ UNCHANGED <<done, feedback, eventVars>>

\* STAGE_COMPLETED, and STAGE_UNLOCKED when there is a next stage; the read of that
\* stage for the answer may still throw.
Announce(r) ==
    LET p == at[r] IN
    /\ pc[r] = "announcing"
    /\ completedEvents' = [completedEvents EXCEPT ![p] = @ + 1]
    /\ unlockedEvents' = [q \in Stages |-> unlockedEvents[q] + (IF q = p + 1 THEN 1 ELSE 0)]
    /\ \E a \in {"completed", "error"} : Answer(r, a)
    /\ UNCHANGED tableVars

-----------------------------------------------------------------------------
(* updateTaskStatus *)

\* Mutant of MayEdit: the stage's status is not looked at.
MayEditAny(p) == ~Gone(p)

\* A LOCKED stage refuses (403); an ACTIVE one and a COMPLETE one do not.
MayEdit(p) == ~Gone(p) /\ stage[p] # "LOCKED"

AskToEdit(r, p, e) ==
    /\ IF MayEdit(p)
       THEN Begin(r, p, "none", "reading") /\ edit' = [edit EXCEPT ![r] = e]
       ELSE Begin(r, p, "refused", "idle") /\ UNCHANGED edit
    /\ UNCHANGED <<tableVars, eventVars>>

\* findOwnedTask: a task that has the wanted status already is left alone.
ReadTask(r) ==
    /\ pc[r] = "reading"
    /\ IF Gone(at[r])
       THEN Answer(r, "refused")
       ELSE IF (edit[r].task \in done[at[r]]) = edit[r].complete
       THEN Answer(r, "saved")
       ELSE Await(r, "reading", "saving")
    /\ UNCHANGED <<tableVars, eventVars>>

\* Mutant of SaveTask: reopening a task reopens its stage.
SaveTaskReopening(r) ==
    LET p == at[r] t == edit[r].task IN
    /\ pc[r] = "saving"
    /\ ~Gone(p)
    /\ Answer(r, "saved")
    /\ done' = [done EXCEPT ![p] = IF edit[r].complete THEN @ \cup {t} ELSE @ \ {t}]
    /\ stage' = [stage EXCEPT ![p] = IF edit[r].complete THEN @ ELSE "ACTIVE"]
    /\ UNCHANGED <<feedback, eventVars>>

\* saveTask writes the wanted status, whatever the row or its stage has become. Its
\* SELECT finds no row: it tries to insert one and breaks the foreign key. Its UPDATE
\* finds none any more: it changes nothing, and is answered like any other.
SaveTask(r) ==
    LET p == at[r] t == edit[r].task IN
    /\ pc[r] = "saving"
    /\ IF Gone(p)
       THEN (Answer(r, "error") \/ Answer(r, "saved")) /\ UNCHANGED done
       ELSE /\ Answer(r, "saved")
            /\ done' = [done EXCEPT ![p] = IF edit[r].complete THEN @ \cup {t} ELSE @ \ {t}]
    /\ UNCHANGED <<stage, feedback, eventVars>>

-----------------------------------------------------------------------------
(* submitFeedback *)

AskForFeedback(r, p) ==
    /\ IF stage[p] = "COMPLETE"
       THEN Begin(r, p, "none", "lookingUp")
       ELSE Begin(r, p, "refused", "idle")
    /\ UNCHANGED <<tableVars, eventVars, edit>>

\* findExistingFeedback (409).
LookUpFeedback(r) ==
    /\ pc[r] = "lookingUp"
    /\ IF feedback[at[r]] > 0
       THEN Answer(r, "refused")
       ELSE Await(r, "lookingUp", "inserting")
    /\ UNCHANGED <<tableVars, eventVars>>

\* Mutant of Unique: no unique constraint, the lookup is the only protection.
NotUnique(p) == TRUE

\* The unique constraint on (user_id, stage_id).
Unique(p) == feedback[p] = 0

\* createFeedback: 23505 is answered as a second submission (409), a broken
\* foreign key (the funnel is gone) is thrown.
InsertFeedback(r) ==
    LET p == at[r] IN
    /\ pc[r] = "inserting"
    /\ IF ~Gone(p) /\ Unique(p)
       THEN Answer(r, "saved") /\ feedback' = [feedback EXCEPT ![p] = @ + 1]
       ELSE Answer(r, IF Gone(p) THEN "error" ELSE "refused") /\ UNCHANGED feedback
    /\ UNCHANGED <<stage, done, eventVars>>

-----------------------------------------------------------------------------
\* A query throws or the process dies: the open transaction is rolled back,
\* what was committed stays, an event not emitted by then is lost.
Abort(r) ==
    /\ pc[r] # "idle"
    /\ Answer(r, "error")
    /\ UNCHANGED <<tableVars, eventVars>>

\* deleteFunnel: the cascade waits for locked stage rows (see FunnelGeneration).
DeleteFunnel ==
    /\ \A p \in Stages : ~Gone(p) /\ ~RowLocked(p)
    /\ stage' = [p \in Stages |-> "gone"]
    /\ done' = [p \in Stages |-> {}]
    /\ feedback' = [p \in Stages |-> 0]
    /\ UNCHANGED <<eventVars, pc, at, edit, answer>>

RequestStep(r) ==
    \/ CountTasks(r) \/ UpdateStage(r) \/ RereadStage(r) \/ CommitCompletion(r)
    \/ Announce(r) \/ ReadTask(r) \/ SaveTask(r) \/ LookUpFeedback(r) \/ InsertFeedback(r)

NewRequest(r) ==
    \E p \in Stages :
       AskToComplete(r, p) \/ AskForFeedback(r, p) \/ \E e \in Edits : AskToEdit(r, p, e)

Next ==
    \/ \E r \in Requests : NewRequest(r) \/ RequestStep(r) \/ Abort(r)
    \/ DeleteFunnel

Spec == Init /\ [][Next]_vars

-----------------------------------------------------------------------------
(* Properties *)

\* The stages are COMPLETE up to some point, then one is ACTIVE (unless that was
\* the last), then all are LOCKED: however completions overlap, fail and are
\* resent, no stage is skipped and the funnel never gets stuck without an
\* ACTIVE stage (completeStage).
StagesInOrder ==
    \A p \in Stages :
       /\ stage[p] = "ACTIVE" => \A q \in Stages : /\ q < p => stage[q] = "COMPLETE"
                                                   /\ q > p => stage[q] = "LOCKED"
       /\ stage[p] = "LOCKED" => \E q \in Stages : stage[q] = "ACTIVE"

\* FunnelPath sees the committed stages, and what the requests still announce.
Path == INSTANCE FunnelPath WITH
    open <- {p \in Stages : stage[p] = "ACTIVE"},
    completed <- {p \in Stages : stage[p] = "COMPLETE"},
    owed <- {at[r] : r \in {q \in Requests : pc[q] = "announcing"}},
    announced <- completedEvents,
    unlocked <- unlockedEvents,
    reviews <- feedback

\* The stages behave as FunnelPath promises: however completeStage,
\* updateTaskStatus, submitFeedback and deleteFunnel overlap and fail, a completion
\* opens the next stage in the same step, is announced once or lost, and neither
\* it nor a feedback is ever undone.
RefinesFunnelPath == Path!Spec

\* A stage that was unlocked is never locked again, a completed one stays so.
NoStageGoesBack ==
    [][\A p \in Stages :
          /\ stage[p] = "COMPLETE" => stage'[p] \in {"COMPLETE", "gone"}
          /\ stage[p] = "ACTIVE" => stage'[p] # "LOCKED"]_vars

\* STAGE_COMPLETED and STAGE_UNLOCKED are each emitted at most once for a stage,
\* and never before it is true: of all requests that race to complete a stage,
\* one is told it did.
AnnouncedOnce ==
    \A p \in Stages :
       /\ completedEvents[p] <= IF stage[p] \in {"COMPLETE", "gone"} THEN 1 ELSE 0
       /\ unlockedEvents[p] <= IF stage[p] = "LOCKED" THEN 0 ELSE 1

\* No task of a LOCKED stage has been completed, however late the write of
\* updateTaskStatus comes after its look at the stage.
LockedStageUntouched ==
    \A p \in Stages : stage[p] = "LOCKED" => done[p] = {}

\* One feedback at most for a stage, and none before it is COMPLETE.
FeedbackOnce ==
    \A p \in Stages : feedback[p] <= IF stage[p] = "COMPLETE" THEN 1 ELSE 0

\* "Please retry" (409) is only ever answered when the funnel has gone: a request
\* that lost the race for a stage is told that the stage is complete.
ConflictMeansGone ==
    \A r \in Requests : answer[r] = "conflict" => Gone(at[r])

\* A stage becomes COMPLETE only when all its tasks are.
CompletedWithAllDone ==
    [][\A p \in Stages : stage[p] = "ACTIVE" /\ stage'[p] = "COMPLETE" => AllDone(p)]_vars
=============================================================================
