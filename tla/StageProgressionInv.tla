------------------------- MODULE StageProgressionInv -------------------------
(* The inductive invariant behind the safety properties of StageProgression. *)
EXTENDS StageProgression

Completed(p) == stage[p] \in {"COMPLETE", "gone"}

\* A request that is about to set a task knows which.
TypeInv ==
    /\ TypeOK
    /\ \A r \in Requests : pc[r] \in {"reading", "saving"} => edit[r] \in Edits

\* What a request has learnt of its stage is still so when it acts on it.
RequestInv ==
    \A r \in Requests :
       /\ pc[r] \in {"counting", "updating", "reading", "saving"} => stage[at[r]] # "LOCKED"
       /\ pc[r] \in {"lookingUp", "inserting", "rereading"} => Completed(at[r])

\* One request at a time is between its UPDATE of a stage and its announcement:
\* first the row lock, then the new status keeps the others out.
CompletionInv ==
    /\ \A r \in Requests :
          /\ pc[r] = "committing" => stage[at[r]] = "ACTIVE"
          /\ pc[r] = "announcing" => Completed(at[r]) /\ completedEvents[at[r]] = 0
    /\ \A r, s \in Requests :
          r # s /\ at[r] = at[s] /\ pc[r] \in {"committing", "announcing"} => pc[s] # pc[r]

\* STAGE_UNLOCKED follows STAGE_COMPLETED of the stage before.
EventInv ==
    /\ \A p \in Stages : completedEvents[p] <= IF Completed(p) THEN 1 ELSE 0
    /\ \A p \in Stages : unlockedEvents[p] = IF p = 1 THEN 0 ELSE completedEvents[p - 1]

DataInv == LockedStageUntouched /\ FeedbackOnce /\ ConflictMeansGone

\* Everything that is known of a reachable state: the order of the stages, what
\* the requests in progress rely on, who completes a stage and what was announced
\* (completeStage, updateTaskStatus, submitFeedback).
IInv ==
    /\ TypeInv
    /\ StagesInOrder
    /\ RequestInv
    /\ CompletionInv
    /\ EventInv
    /\ DataInv
=============================================================================
