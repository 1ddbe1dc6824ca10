----------------------- MODULE StageProgressionProofs -----------------------
(***************************************************************************)
(* The safety properties of StageProgression for every number of stages,   *)
(* tasks and requests. One lemma per part of IInv, with a step per action; *)
(* the two steps that need arithmetic on positions are lemmas themselves.  *)
(***************************************************************************)
EXTENDS StageProgressionInv, TLAPS

\* Stage 1 is ACTIVE, the others are LOCKED, and nobody has asked for anything.
LEMMA InitInv == Init => IInv
<1> SUFFICES ASSUME Init PROVE IInv
  OBVIOUS
<1> USE StageAssumption DEF Init, Stages
<1>1. TypeInv
  BY DEF TypeInv, TypeOK, Answers
<1>2. StagesInOrder
  BY DEF StagesInOrder
<1>3. RequestInv /\ CompletionInv
  BY DEF RequestInv, CompletionInv
<1>4. EventInv
  BY DEF EventInv
<1>5. DataInv
  BY DEF DataInv, LockedStageUntouched, FeedbackOnce, ConflictMeansGone
<1> QED
  BY <1>1, <1>2, <1>3, <1>4, <1>5 DEF IInv

\* Every action keeps the types; only updateTaskStatus sets a task, and its request
\* says which.
LEMMA TypeInvStep ==
  TypeInv /\ [Next]_vars => TypeInv'
<1> SUFFICES ASSUME TypeInv, [Next]_vars PROVE TypeInv'
  OBVIOUS
<1> USE StageAssumption DEF TypeInv, TypeOK, Answers, Await, Answer, tableVars,
   eventVars
<1>1. ASSUME NEW r \in Requests, RequestStep(r) PROVE TypeInv'
  <2>1. CASE CountTasks(r)
    BY <2>1 DEF CountTasks
  <2>2. CASE UpdateStage(r)
    BY <2>2 DEF UpdateStage
  <2>3. CASE RereadStage(r)
    BY <2>3 DEF RereadStage, LostRace
  <2>4. CASE CommitCompletion(r)
    BY <2>4 DEF CommitCompletion, WithCompleted
  <2>5. CASE Announce(r)
    BY <2>5 DEF Announce
  <2>6. CASE ReadTask(r)
    BY <2>6 DEF ReadTask
  <2>7. CASE SaveTask(r)
    BY <2>7 DEF SaveTask, Edits
  <2>8. CASE LookUpFeedback(r)
    BY <2>8 DEF LookUpFeedback
  <2>9. CASE InsertFeedback(r)
    BY <2>9 DEF InsertFeedback
  <2> QED
    BY <1>1, <2>1, <2>2, <2>3, <2>4, <2>5, <2>6, <2>7, <2>8, <2>9 DEF RequestStep
<1>2. ASSUME NEW r \in Requests, NEW p \in Stages, AskToComplete(r, p) PROVE TypeInv'
  BY <1>2 DEF AskToComplete, Begin
<1>3. ASSUME NEW r \in Requests, NEW p \in Stages, AskForFeedback(r, p) PROVE TypeInv'
  BY <1>3 DEF AskForFeedback, Begin
<1>4. ASSUME NEW r \in Requests, NEW p \in Stages, NEW e \in Edits, AskToEdit(r, p, e)
      PROVE TypeInv'
  BY <1>4 DEF AskToEdit, Begin, MayEdit
<1>5. ASSUME NEW r \in Requests, Abort(r) PROVE TypeInv'
  BY <1>5 DEF Abort
<1>6. CASE DeleteFunnel
  BY <1>6 DEF DeleteFunnel
<1>7. CASE UNCHANGED vars
  BY <1>7 DEF vars
<1> QED
  BY <1>1, <1>2, <1>3, <1>4, <1>5, <1>6, <1>7 DEF Next, NewRequest

\* The completed stage was ACTIVE, so all before it are COMPLETE and all after it
\* LOCKED: the commit moves the ACTIVE one by one position.
LEMMA OrderAfterCompletion ==
  ASSUME TypeInv, StagesInOrder, CompletionInv, NEW r \in Requests, CommitCompletion(r)
  PROVE  StagesInOrder'
<1> DEFINE p == at[r]
<1> USE StageAssumption DEF Stages
<1>1. p \in Stages /\ stage[p] = "ACTIVE"
  BY DEF CommitCompletion, Await, CompletionInv, TypeInv, TypeOK
<1>2. \A q \in Stages : (q < p => stage[q] = "COMPLETE") /\ (q > p => stage[q] = "LOCKED")
  BY <1>1 DEF StagesInOrder
<1>3. \A q \in Stages :
         stage'[q] = IF q <= p THEN "COMPLETE" ELSE IF q = p + 1 THEN "ACTIVE" ELSE "LOCKED"
  BY <1>1, <1>2 DEF CommitCompletion, WithCompleted
<1> HIDE DEF p
<1>4. ASSUME NEW q \in Stages, stage'[q] = "ACTIVE"
      PROVE \A o \in Stages : (o < q => stage'[o] = "COMPLETE") /\ (o > q => stage'[o] = "LOCKED")
  <2>1. q = p + 1
    BY <1>1, <1>3, <1>4
  <2> QED
    BY <1>1, <1>3, <2>1
<1>5. ASSUME NEW q \in Stages, stage'[q] = "LOCKED"
      PROVE \E o \in Stages : stage'[o] = "ACTIVE"
  <2>1. p + 1 \in Stages
    BY <1>1, <1>3, <1>5
  <2> QED
    BY <1>1, <1>3, <2>1
<1> QED
  BY <1>4, <1>5 DEF StagesInOrder

\* No other action changes a stage, but the deletion that takes them all.
LEMMA OrderStep ==
  TypeInv /\ StagesInOrder /\ CompletionInv /\ [Next]_vars => StagesInOrder'
<1> SUFFICES ASSUME TypeInv, StagesInOrder, CompletionInv, [Next]_vars PROVE StagesInOrder'
  OBVIOUS
<1> USE StageAssumption DEF TypeInv, TypeOK, Stages, StagesInOrder, Await, Answer,
   tableVars, eventVars
<1>1. ASSUME NEW r \in Requests, RequestStep(r) PROVE StagesInOrder'
  <2>1. CASE CountTasks(r)
    BY <2>1 DEF CountTasks
  <2>2. CASE UpdateStage(r)
    BY <2>2 DEF UpdateStage
  <2>3. CASE RereadStage(r)
    BY <2>3 DEF RereadStage
  <2>4. CASE CommitCompletion(r)
    BY <2>4, OrderAfterCompletion
  <2>5. CASE Announce(r)
    BY <2>5 DEF Announce
  <2>6. CASE ReadTask(r)
    BY <2>6 DEF ReadTask
  <2>7. CASE SaveTask(r)
    BY <2>7 DEF SaveTask
  <2>8. CASE LookUpFeedback(r)
    BY <2>8 DEF LookUpFeedback
  <2>9. CASE InsertFeedback(r)
    BY <2>9 DEF InsertFeedback
  <2> QED
    BY <1>1, <2>1, <2>2, <2>3, <2>4, <2>5, <2>6, <2>7, <2>8, <2>9 DEF RequestStep
<1>2. ASSUME NEW r \in Requests, NEW p \in Stages, AskToComplete(r, p) PROVE StagesInOrder'
  BY <1>2 DEF AskToComplete, Begin
<1>3. ASSUME NEW r \in Requests, NEW p \in Stages, AskForFeedback(r, p) PROVE StagesInOrder'
  BY <1>3 DEF AskForFeedback, Begin
<1>4. ASSUME NEW r \in Requests, NEW p \in Stages, NEW e \in Edits, AskToEdit(r, p, e)
      PROVE StagesInOrder'
  BY <1>4 DEF AskToEdit, Begin, MayEdit
<1>5. ASSUME NEW r \in Requests, Abort(r) PROVE StagesInOrder'
  BY <1>5 DEF Abort
<1>6. CASE DeleteFunnel
  BY <1>6 DEF DeleteFunnel
<1>7. CASE UNCHANGED vars
  BY <1>7 DEF vars
<1> QED
  BY <1>1, <1>2, <1>3, <1>4, <1>5, <1>6, <1>7 DEF Next, NewRequest

\* A stage never becomes LOCKED, and a COMPLETE one is at most deleted: what a
\* request has read of it holds when it goes on.
LEMMA RequestStepInv ==
  TypeInv /\ RequestInv /\ CompletionInv /\ [Next]_vars => RequestInv'
<1> SUFFICES ASSUME TypeInv, RequestInv, CompletionInv, [Next]_vars PROVE RequestInv'
  OBVIOUS
<1> USE DEF TypeInv, TypeOK, RequestInv, Completed, Gone, Await, Answer, tableVars,
   eventVars
<1>1. ASSUME NEW r \in Requests, RequestStep(r) PROVE RequestInv'
  <2>1. CASE CountTasks(r)
    BY <2>1 DEF CountTasks
  <2>2. CASE UpdateStage(r)
    BY <2>2 DEF UpdateStage, StillActive
  <2>3. CASE RereadStage(r)
    BY <2>3 DEF RereadStage
  <2>4. CASE CommitCompletion(r)
    BY <2>4 DEF CommitCompletion, WithCompleted, CompletionInv
  <2>5. CASE Announce(r)
    BY <2>5 DEF Announce
  <2>6. CASE ReadTask(r)
    BY <2>6 DEF ReadTask
  <2>7. CASE SaveTask(r)
    BY <2>7 DEF SaveTask
  <2>8. CASE LookUpFeedback(r)
    BY <2>8 DEF LookUpFeedback
  <2>9. CASE InsertFeedback(r)
    BY <2>9 DEF InsertFeedback
  <2> QED
    BY <1>1, <2>1, <2>2, <2>3, <2>4, <2>5, <2>6, <2>7, <2>8, <2>9 DEF RequestStep
<1>2. ASSUME NEW r \in Requests, NEW p \in Stages, AskToComplete(r, p) PROVE RequestInv'
  BY <1>2 DEF AskToComplete, Begin
<1>3. ASSUME NEW r \in Requests, NEW p \in Stages, AskForFeedback(r, p) PROVE RequestInv'
  BY <1>3 DEF AskForFeedback, Begin
<1>4. ASSUME NEW r \in Requests, NEW p \in Stages, NEW e \in Edits, AskToEdit(r, p, e)
      PROVE RequestInv'
  BY <1>4 DEF AskToEdit, Begin, MayEdit
<1>5. ASSUME NEW r \in Requests, Abort(r) PROVE RequestInv'
  BY <1>5 DEF Abort
<1>6. CASE DeleteFunnel
  BY <1>6 DEF DeleteFunnel
<1>7. CASE UNCHANGED vars
  BY <1>7 DEF vars
<1> QED
  BY <1>1, <1>2, <1>3, <1>4, <1>5, <1>6, <1>7 DEF Next, NewRequest

\* Two requests cannot both pass UpdateStage: the row lock keeps the second one
\* waiting, and it then finds the stage COMPLETE.
LEMMA CompletionStep ==
  TypeInv /\ CompletionInv /\ EventInv /\ [Next]_vars => CompletionInv'
<1> SUFFICES ASSUME TypeInv, CompletionInv, EventInv, [Next]_vars PROVE CompletionInv'
  OBVIOUS
<1> USE DEF TypeInv, TypeOK, CompletionInv, Completed, Await, Answer, tableVars,
   eventVars
<1>1. ASSUME NEW r \in Requests, RequestStep(r) PROVE CompletionInv'
  <2>1. CASE CountTasks(r)
    BY <2>1 DEF CountTasks
  <2>2. CASE UpdateStage(r)
    BY <2>2 DEF UpdateStage, StillActive, RowLocked
  <2>3. CASE RereadStage(r)
    BY <2>3 DEF RereadStage
  <2>4. CASE CommitCompletion(r)
    BY <2>4 DEF CommitCompletion, WithCompleted, EventInv, Completed
  <2>5. CASE Announce(r)
    BY <2>5 DEF Announce
  <2>6. CASE ReadTask(r)
    BY <2>6 DEF ReadTask
  <2>7. CASE SaveTask(r)
    BY <2>7 DEF SaveTask
  <2>8. CASE LookUpFeedback(r)
    BY <2>8 DEF LookUpFeedback
  <2>9. CASE InsertFeedback(r)
    BY <2>9 DEF InsertFeedback
  <2> QED
    BY <1>1, <2>1, <2>2, <2>3, <2>4, <2>5, <2>6, <2>7, <2>8, <2>9 DEF RequestStep
<1>2. ASSUME NEW r \in Requests, NEW p \in Stages, AskToComplete(r, p) PROVE CompletionInv'
  BY <1>2 DEF AskToComplete, Begin
<1>3. ASSUME NEW r \in Requests, NEW p \in Stages, AskForFeedback(r, p) PROVE CompletionInv'
  BY <1>3 DEF AskForFeedback, Begin
<1>4. ASSUME NEW r \in Requests, NEW p \in Stages, NEW e \in Edits, AskToEdit(r, p, e)
      PROVE CompletionInv'
  BY <1>4 DEF AskToEdit, Begin, MayEdit
<1>5. ASSUME NEW r \in Requests, Abort(r) PROVE CompletionInv'
  BY <1>5 DEF Abort
<1>6. CASE DeleteFunnel
  BY <1>6 DEF DeleteFunnel, RowLocked
<1>7. CASE UNCHANGED vars
  BY <1>7 DEF vars
<1> QED
  BY <1>1, <1>2, <1>3, <1>4, <1>5, <1>6, <1>7 DEF Next, NewRequest

\* The one request that announces a completion finds it unannounced.
LEMMA EventsAfterAnnouncement ==
  ASSUME TypeInv, CompletionInv, EventInv, NEW r \in Requests, Announce(r)
  PROVE  EventInv'
<1> DEFINE p == at[r]
<1> USE StageAssumption DEF Stages
<1>1. p \in Stages /\ completedEvents[p] = 0 /\ Completed(p) /\ stage' = stage
  BY DEF Announce, CompletionInv, TypeInv, TypeOK, tableVars
<1>2. \A q \in Stages : completedEvents'[q] = IF q = p THEN 1 ELSE completedEvents[q]
  BY <1>1 DEF Announce, TypeInv, TypeOK
<1>3. \A q \in Stages : unlockedEvents'[q] = unlockedEvents[q] + (IF q = p + 1 THEN 1 ELSE 0)
  BY DEF Announce
<1> HIDE DEF p
<1>4. \A q \in Stages : completedEvents'[q] <= IF Completed(q)' THEN 1 ELSE 0
  BY <1>1, <1>2 DEF EventInv, Completed
<1>5. ASSUME NEW q \in Stages
      PROVE unlockedEvents'[q] = IF q = 1 THEN 0 ELSE completedEvents'[q - 1]
  <2>1. unlockedEvents[q] = IF q = 1 THEN 0 ELSE completedEvents[q - 1]
    BY DEF EventInv
  <2>2. CASE q = 1
    BY <1>1, <1>3, <2>1, <2>2
  <2>3. CASE q # 1
    <3>1. q - 1 \in Stages /\ (q = p + 1 <=> q - 1 = p)
      BY <1>1, <2>3
    <3>2. completedEvents[q - 1] \in Nat
      BY <3>1 DEF TypeInv, TypeOK
    <3> QED
      BY <1>1, <1>2, <1>3, <2>1, <2>3, <3>1, <3>2
  <2> QED
    BY <2>2, <2>3
<1> QED
  BY <1>4, <1>5 DEF EventInv

\* Events are only counted by Announce, and no stage stops being complete.
LEMMA EventStep ==
  TypeInv /\ CompletionInv /\ EventInv /\ [Next]_vars => EventInv'
<1> SUFFICES ASSUME TypeInv, CompletionInv, EventInv, [Next]_vars PROVE EventInv'
  OBVIOUS
<1> USE StageAssumption DEF TypeInv, TypeOK, Stages, EventInv, Completed, Await, Answer,
   tableVars, eventVars
<1>1. ASSUME NEW r \in Requests, RequestStep(r) PROVE EventInv'
  <2>1. CASE CountTasks(r)
    BY <2>1 DEF CountTasks
  <2>2. CASE UpdateStage(r)
    BY <2>2 DEF UpdateStage
  <2>3. CASE RereadStage(r)
    BY <2>3 DEF RereadStage
  <2>4. CASE CommitCompletion(r)
    BY <2>4 DEF CommitCompletion, WithCompleted, CompletionInv
  <2>5. CASE Announce(r)
    BY <2>5, EventsAfterAnnouncement
  <2>6. CASE ReadTask(r)
    BY <2>6 DEF ReadTask
  <2>7. CASE SaveTask(r)
    BY <2>7 DEF SaveTask
  <2>8. CASE LookUpFeedback(r)
    BY <2>8 DEF LookUpFeedback
  <2>9. CASE InsertFeedback(r)
    BY <2>9 DEF InsertFeedback
  <2> QED
    BY <1>1, <2>1, <2>2, <2>3, <2>4, <2>5, <2>6, <2>7, <2>8, <2>9 DEF RequestStep
<1>2. ASSUME NEW r \in Requests, NEW p \in Stages, AskToComplete(r, p) PROVE EventInv'
  BY <1>2 DEF AskToComplete, Begin
<1>3. ASSUME NEW r \in Requests, NEW p \in Stages, AskForFeedback(r, p) PROVE EventInv'
  BY <1>3 DEF AskForFeedback, Begin
<1>4. ASSUME NEW r \in Requests, NEW p \in Stages, NEW e \in Edits, AskToEdit(r, p, e)
      PROVE EventInv'
  BY <1>4 DEF AskToEdit, Begin, MayEdit
<1>5. ASSUME NEW r \in Requests, Abort(r) PROVE EventInv'
  BY <1>5 DEF Abort
<1>6. CASE DeleteFunnel
  BY <1>6 DEF DeleteFunnel
<1>7. CASE UNCHANGED vars
  BY <1>7 DEF vars
<1> QED
  BY <1>1, <1>2, <1>3, <1>4, <1>5, <1>6, <1>7 DEF Next, NewRequest

\* Tasks, feedback and conflicts change only where RequestInv vouches for the stage.
LEMMA DataStep ==
  TypeInv /\ RequestInv /\ CompletionInv /\ DataInv /\ [Next]_vars => DataInv'
<1> SUFFICES ASSUME TypeInv, RequestInv, CompletionInv, DataInv, [Next]_vars PROVE DataInv'
  OBVIOUS
<1> USE DEF TypeInv, TypeOK, DataInv, LockedStageUntouched, FeedbackOnce,
   ConflictMeansGone, Completed, Gone, Await, Answer, tableVars, eventVars
<1>1. ASSUME NEW r \in Requests, RequestStep(r) PROVE DataInv'
  <2>1. CASE CountTasks(r)
    BY <2>1 DEF CountTasks
  <2>2. CASE UpdateStage(r)
    BY <2>2 DEF UpdateStage
  <2>3. CASE RereadStage(r)
    BY <2>3 DEF RereadStage, LostRace, RequestInv
  <2>4. CASE CommitCompletion(r)
    BY <2>4 DEF CommitCompletion, WithCompleted, CompletionInv
  <2>5. CASE Announce(r)
    BY <2>5 DEF Announce
  <2>6. CASE ReadTask(r)
    BY <2>6 DEF ReadTask
  <2>7. CASE SaveTask(r)
    BY <2>7 DEF SaveTask, RequestInv
  <2>8. CASE LookUpFeedback(r)
    BY <2>8 DEF LookUpFeedback
  <2>9. CASE InsertFeedback(r)
    BY <2>9 DEF InsertFeedback, RequestInv, Unique
  <2> QED
    BY <1>1, <2>1, <2>2, <2>3, <2>4, <2>5, <2>6, <2>7, <2>8, <2>9 DEF RequestStep
<1>2. ASSUME NEW r \in Requests, NEW p \in Stages, AskToComplete(r, p) PROVE DataInv'
  BY <1>2 DEF AskToComplete, Begin
<1>3. ASSUME NEW r \in Requests, NEW p \in Stages, AskForFeedback(r, p) PROVE DataInv'
  BY <1>3 DEF AskForFeedback, Begin
<1>4. ASSUME NEW r \in Requests, NEW p \in Stages, NEW e \in Edits, AskToEdit(r, p, e)
      PROVE DataInv'
  BY <1>4 DEF AskToEdit, Begin, MayEdit
<1>5. ASSUME NEW r \in Requests, Abort(r) PROVE DataInv'
  BY <1>5 DEF Abort
<1>6. CASE DeleteFunnel
  BY <1>6 DEF DeleteFunnel
<1>7. CASE UNCHANGED vars
  BY <1>7 DEF vars
<1> QED
  BY <1>1, <1>2, <1>3, <1>4, <1>5, <1>6, <1>7 DEF Next, NewRequest

-----------------------------------------------------------------------------
(* The steps of FunnelPath *)

\* A new funnel has its first stage open.
LEMMA PathInit == Init => Path!Init
<1> SUFFICES ASSUME Init PROVE Path!Init
  OBVIOUS
<1>1. {p \in Stages : stage[p] = "ACTIVE"} = {1}
  <2>1. 1 \in Stages
    BY StageAssumption DEF Stages
  <2>2. \A p \in Stages : stage[p] = "ACTIVE" <=> p = 1
    BY DEF Init
  <2> QED
    BY <2>1, <2>2
<1>2. {p \in Stages : stage[p] = "COMPLETE"} = {}
  BY DEF Init
<1>3. {at[r] : r \in {q \in Requests : pc[q] = "announcing"}} = {}
  BY DEF Init
<1> QED
  BY <1>1, <1>2, <1>3 DEF Init, Path!Init, Path!Stages, Stages

\* What a request does before it announces, or in its answers, is not seen.
LEMMA PathUnseen ==
  ASSUME UNCHANGED <<stage, feedback, eventVars>>,
         \A r \in Requests : /\ pc'[r] = "announcing" <=> pc[r] = "announcing"
                             /\ pc[r] = "announcing" => at'[r] = at[r]
  PROVE  UNCHANGED Path!pathVars
<1>1. {at'[r] : r \in {q \in Requests : pc'[q] = "announcing"}}
         = {at[r] : r \in {q \in Requests : pc[q] = "announcing"}}
  OBVIOUS
<1> QED
  BY <1>1 DEF Path!pathVars, eventVars

\* The request that leaves "announcing" was the only one that owed its stage.
LEMMA DebtSettled ==
  ASSUME TypeInv, CompletionInv, NEW r \in Requests, NEW a, pc[r] = "announcing", Answer(r, a)
  PROVE  {at'[s] : s \in {q \in Requests : pc'[q] = "announcing"}}
            = {at[s] : s \in {q \in Requests : pc[q] = "announcing"}} \ {at[r]}
<1>1. \A s \in Requests : pc'[s] = "announcing" <=> s # r /\ pc[s] = "announcing"
  BY DEF TypeInv, TypeOK, Answer
<1>2. \A s \in Requests : s # r /\ pc[s] = "announcing" => at[s] # at[r]
  BY DEF CompletionInv
<1>3. at' = at
  BY DEF Answer
<1> QED
  BY <1>1, <1>2, <1>3

\* The commit of completeStage is the one step that completes a stage.
LEMMA PathCompletes ==
  ASSUME IInv, NEW r \in Requests, NEW p \in Stages, p = at[r], CommitCompletion(r)
  PROVE  Path!Complete(p)
<1>1. /\ stage[p] = "ACTIVE"
      /\ stage' = WithCompleted(p) /\ at' = at /\ UNCHANGED <<feedback, eventVars>>
      /\ \A s \in Requests : pc'[s] = "announcing" <=> s = r \/ pc[s] = "announcing"
  BY DEF CommitCompletion, Await, CompletionInv, IInv, TypeInv, TypeOK
<1>2. \A q \in Stages : /\ stage[q] = "ACTIVE" <=> q = p
                        /\ q = p + 1 => stage[q] = "LOCKED" /\ q # p
  <2>1. \A q \in Stages : (q < p => stage[q] = "COMPLETE") /\ (q > p => stage[q] = "LOCKED")
    BY <1>1 DEF IInv, StagesInOrder
  <2> QED
    BY <1>1, <2>1, StageAssumption DEF Stages
<1>3. \A q \in Stages :
         stage'[q] = IF q = p THEN "COMPLETE" ELSE IF q = p + 1 THEN "ACTIVE" ELSE stage[q]
  BY <1>1, <1>2 DEF WithCompleted
<1>4. {q \in Stages : stage[q] = "ACTIVE"} = {p}
  BY <1>2
<1>5. {q \in Stages : stage'[q] = "ACTIVE"} = {p + 1} \cap Stages
  <2>1. \A q \in Stages : stage'[q] = "ACTIVE" <=> q = p + 1
    BY <1>2, <1>3
  <2> QED
    BY <2>1
<1>6. {q \in Stages : stage'[q] = "COMPLETE"} = {q \in Stages : stage[q] = "COMPLETE"} \cup {p}
  <2>1. \A q \in Stages : stage'[q] = "COMPLETE" <=> stage[q] = "COMPLETE" \/ q = p
    BY <1>2, <1>3
  <2> QED
    BY <2>1
<1>7. {at'[s] : s \in {q \in Requests : pc'[q] = "announcing"}}
         = {at[s] : s \in {q \in Requests : pc[q] = "announcing"}} \cup {p}
  BY <1>1
<1> QED
  BY <1>1, <1>4, <1>5, <1>6, <1>7 DEF Path!Complete, Path!Stages, Stages, eventVars

\* An announcement settles the debt of its stage.
LEMMA PathAnnounces ==
  ASSUME IInv, NEW r \in Requests, NEW p \in Stages, p = at[r], Announce(r)
  PROVE  Path!Announce(p)
<1>1. PICK a : Answer(r, a)
  BY DEF Announce
<1>2. pc[r] = "announcing" /\ UNCHANGED tableVars
  BY DEF Announce
<1>3. {at'[s] : s \in {q \in Requests : pc'[q] = "announcing"}}
         = {at[s] : s \in {q \in Requests : pc[q] = "announcing"}} \ {p}
  BY <1>1, <1>2, DebtSettled DEF IInv
<1>4. p \in {at[s] : s \in {q \in Requests : pc[q] = "announcing"}}
  BY <1>2
<1> QED
  BY <1>2, <1>3, <1>4 DEF Announce, Path!Announce, Path!Stages, Stages, tableVars

\* A process that dies may owe an announcement: it is lost.
LEMMA PathAborts ==
  ASSUME IInv, NEW r \in Requests, NEW p \in Stages, p = at[r], Abort(r)
  PROVE  Path!Lose(p) \/ UNCHANGED Path!pathVars
<1>1. Answer(r, "error") /\ UNCHANGED <<tableVars, eventVars>>
  BY DEF Abort
<1>2. CASE pc[r] = "announcing"
  <2>1. {at'[s] : s \in {q \in Requests : pc'[q] = "announcing"}}
           = {at[s] : s \in {q \in Requests : pc[q] = "announcing"}} \ {p}
    BY <1>1, <1>2, DebtSettled DEF IInv
  <2>2. p \in {at[s] : s \in {q \in Requests : pc[q] = "announcing"}}
    BY <1>2
  <2> QED
    BY <1>1, <2>1, <2>2 DEF Path!Lose, tableVars, eventVars
<1>3. CASE pc[r] # "announcing"
  <2>1. \A s \in Requests : /\ pc'[s] = "announcing" <=> pc[s] = "announcing"
                            /\ at'[s] = at[s]
    BY <1>1, <1>3 DEF Answer, IInv, TypeInv, TypeOK
  <2> QED
    BY <1>1, <2>1, PathUnseen DEF tableVars
<1> QED
  BY <1>2, <1>3

\* A feedback that is inserted is the first of its stage, which is COMPLETE still.
LEMMA PathReviews ==
  ASSUME IInv, NEW r \in Requests, NEW p \in Stages, p = at[r], InsertFeedback(r)
  PROVE  Path!Review(p) \/ UNCHANGED Path!pathVars
<1>1. /\ UNCHANGED <<stage, done, eventVars>>
      /\ \A s \in Requests : /\ pc'[s] = "announcing" <=> pc[s] = "announcing"
                             /\ at'[s] = at[s]
  BY DEF InsertFeedback, Answer, IInv, TypeInv, TypeOK
<1>2. CASE ~Gone(p) /\ Unique(p)
  <2>1. stage[p] = "COMPLETE"
    BY <1>2 DEF InsertFeedback, Gone, IInv, RequestInv, Completed, TypeInv, TypeOK
  <2>2. feedback[p] = 0 /\ feedback' = [feedback EXCEPT ![p] = 1]
    BY <1>2, <2>1 DEF InsertFeedback, Unique, IInv, TypeInv, TypeOK
  <2>3. {at'[s] : s \in {q \in Requests : pc'[q] = "announcing"}}
           = {at[s] : s \in {q \in Requests : pc[q] = "announcing"}}
    BY <1>1
  <2> QED
    BY <1>1, <2>1, <2>2, <2>3 DEF Path!Review, eventVars
<1>3. CASE ~(~Gone(p) /\ Unique(p))
  <2>1. UNCHANGED feedback
    BY <1>3 DEF InsertFeedback
  <2> QED
    BY <1>1, <2>1, PathUnseen
<1> QED
  BY <1>2, <1>3

\* The cascade of deleteFunnel takes all stages in one step.
LEMMA PathRemoved ==
  ASSUME IInv, DeleteFunnel
  PROVE  Path!Remove
<1>1. 1 \in Stages
  BY StageAssumption DEF Stages
<1>2. \E p \in Stages : stage[p] \in {"ACTIVE", "COMPLETE"}
  BY <1>1 DEF DeleteFunnel, Gone, IInv, TypeInv, TypeOK, StagesInOrder
<1>3. /\ {p \in Stages : stage'[p] = "ACTIVE"} = {}
      /\ {p \in Stages : stage'[p] = "COMPLETE"} = {}
  BY DEF DeleteFunnel
<1>4. {at'[s] : s \in {q \in Requests : pc'[q] = "announcing"}}
         = {at[s] : s \in {q \in Requests : pc[q] = "announcing"}}
  BY DEF DeleteFunnel
<1> QED
  BY <1>2, <1>3, <1>4 DEF DeleteFunnel, Path!Remove, Path!Stages, Stages, eventVars

\* Every step is a step of FunnelPath or not seen by it.
LEMMA PathStep ==
  IInv /\ [Next]_vars => [Path!Next]_(Path!pathVars)
<1> SUFFICES ASSUME IInv, [Next]_vars PROVE [Path!Next]_(Path!pathVars)
  OBVIOUS
<1> DEFINE Unseen == /\ UNCHANGED <<stage, feedback, eventVars>>
                     /\ \A r \in Requests : /\ pc'[r] = "announcing" <=> pc[r] = "announcing"
                                            /\ pc[r] = "announcing" => at'[r] = at[r]
<1>1. Unseen => UNCHANGED Path!pathVars
  BY PathUnseen
<1>2. \A r \in Requests : \E p \in Stages : p = at[r]
  BY DEF IInv, TypeInv, TypeOK
<1>3. \A p \in Stages : /\ Path!Complete(p) => Path!Next
                        /\ Path!Announce(p) => Path!Next
                        /\ Path!Lose(p) => Path!Next
                        /\ Path!Review(p) => Path!Next
  BY DEF Path!Next, Path!Stages, Stages
<1>4. ASSUME NEW r \in Requests, RequestStep(r) PROVE Path!Next \/ UNCHANGED Path!pathVars
  <2>0. PICK p \in Stages : p = at[r]
    BY <1>2
  <2> USE DEF Await, Answer, IInv, TypeInv, TypeOK, tableVars
  <2>1. CASE CountTasks(r)
    BY <1>1, <2>1 DEF CountTasks
  <2>2. CASE UpdateStage(r)
    BY <1>1, <2>2 DEF UpdateStage
  <2>3. CASE RereadStage(r)
    BY <1>1, <2>3 DEF RereadStage
  <2>4. CASE CommitCompletion(r)
    <3>1. Path!Complete(p)
      BY <2>0, <2>4, PathCompletes
    <3> QED
      BY <1>3, <3>1
  <2>5. CASE Announce(r)
    <3>1. Path!Announce(p)
      BY <2>0, <2>5, PathAnnounces
    <3> QED
      BY <1>3, <3>1
  <2>6. CASE ReadTask(r)
    BY <1>1, <2>6 DEF ReadTask
  <2>7. CASE SaveTask(r)
    BY <1>1, <2>7 DEF SaveTask
  <2>8. CASE LookUpFeedback(r)
    BY <1>1, <2>8 DEF LookUpFeedback
  <2>9. CASE InsertFeedback(r)
    <3>1. Path!Review(p) \/ UNCHANGED Path!pathVars
      BY <2>0, <2>9, PathReviews
    <3> QED
      BY <1>3, <3>1
  <2> QED
    BY <1>4, <2>1, <2>2, <2>3, <2>4, <2>5, <2>6, <2>7, <2>8, <2>9 DEF RequestStep
<1>5. ASSUME NEW r \in Requests, NewRequest(r) PROVE Unseen
  BY <1>5 DEF NewRequest, AskToComplete, AskForFeedback, AskToEdit, Begin, tableVars, IInv,
     TypeInv, TypeOK
<1>6. ASSUME NEW r \in Requests, Abort(r) PROVE Path!Next \/ UNCHANGED Path!pathVars
  <2>1. PICK p \in Stages : p = at[r]
    BY <1>2
  <2>2. Path!Lose(p) \/ UNCHANGED Path!pathVars
    BY <1>6, <2>1, PathAborts
  <2> QED
    BY <1>3, <2>2
<1>7. CASE DeleteFunnel
  BY <1>7, PathRemoved DEF Path!Next
<1>8. CASE UNCHANGED vars
  BY <1>1, <1>8 DEF vars, tableVars
<1> QED
  BY <1>1, <1>4, <1>5, <1>6, <1>7, <1>8 DEF Next

-----------------------------------------------------------------------------
(* The theorems *)

\* IInv is inductive.
THEOREM Invariance == Spec => []IInv
<1>1. IInv /\ [Next]_vars => IInv'
  BY TypeInvStep, OrderStep, RequestStepInv, CompletionStep, EventStep, DataStep DEF IInv
<1> QED
  BY <1>1, InitInv, PTL DEF Spec

\* The types of the tables and of the requests in progress.
THEOREM TypeCorrect == Spec => []TypeOK
<1>1. IInv => TypeOK
  BY DEF IInv, TypeInv
<1> QED
  BY <1>1, Invariance, PTL

\* No stage is skipped and the funnel never gets stuck, whatever overlaps or fails.
THEOREM OrderedStages == Spec => []StagesInOrder
<1>1. IInv => StagesInOrder
  BY DEF IInv
<1> QED
  BY <1>1, Invariance, PTL

\* One of the requests that race for a stage announces it, once, when it is true.
THEOREM OneCompletion == Spec => []AnnouncedOnce
<1>1. ASSUME IInv, NEW p \in Stages
      PROVE /\ completedEvents[p] <= IF stage[p] \in {"COMPLETE", "gone"} THEN 1 ELSE 0
            /\ unlockedEvents[p] <= IF stage[p] = "LOCKED" THEN 0 ELSE 1
  <2> USE <1>1, StageAssumption DEF IInv, Stages
  <2>1. completedEvents[p] <= IF stage[p] \in {"COMPLETE", "gone"} THEN 1 ELSE 0
    BY DEF EventInv, Completed
  <2>2. CASE p = 1
    <3>1. unlockedEvents[p] = 0
      BY <2>2 DEF EventInv
    <3> QED
      BY <2>1, <3>1
  <2>3. CASE p # 1
    <3>1. p - 1 \in Stages /\ unlockedEvents[p] = completedEvents[p - 1]
      BY <2>3 DEF EventInv
    <3>2. completedEvents[p - 1] <= 1 /\ completedEvents[p - 1] \in Nat
      BY <3>1 DEF EventInv, TypeInv, TypeOK
    <3>3. stage[p] = "LOCKED" => completedEvents[p - 1] = 0
      <4>1. SUFFICES ASSUME stage[p] = "LOCKED" PROVE ~Completed(p - 1)
        BY <3>1, <3>2 DEF EventInv
      <4>2. PICK q \in Stages : stage[q] = "ACTIVE"
        BY <4>1 DEF StagesInOrder
      <4>3. \A o \in Stages : (o < q => stage[o] = "COMPLETE") /\ (o > q => stage[o] = "LOCKED")
        BY <4>2 DEF StagesInOrder
      <4>4. q < p
        BY <4>1, <4>2, <4>3
      <4> QED
        BY <3>1, <4>2, <4>3, <4>4 DEF Completed
    <3> QED
      BY <2>1, <3>1, <3>2, <3>3
  <2> QED
    BY <2>2, <2>3
<1>2. IInv => AnnouncedOnce
  BY <1>1 DEF AnnouncedOnce
<1> QED
  BY <1>2, Invariance, PTL

\* No late write of a task reaches a LOCKED stage (updateTaskStatus).
THEOREM NoLateWrites == Spec => []LockedStageUntouched
<1>1. IInv => LockedStageUntouched
  BY DEF IInv, DataInv
<1> QED
  BY <1>1, Invariance, PTL

\* A stage is given feedback once (submitFeedback).
THEOREM FeedbackOnly == Spec => []FeedbackOnce
<1>1. IInv => FeedbackOnce
  BY DEF IInv, DataInv
<1> QED
  BY <1>1, Invariance, PTL

\* A request is told of a conflict only when there is nothing left to complete
\* (completeStage).
THEOREM ConflictsMeanGone == Spec => []ConflictMeansGone
<1>1. IInv => ConflictMeansGone
  BY DEF IInv, DataInv
<1> QED
  BY <1>1, Invariance, PTL

\* The stages implement FunnelPath: completeStage opens the next stage as it
\* completes one, and nothing the owner's requests do is undone but by deleteFunnel.
THEOREM ImplementsFunnelPath == Spec => RefinesFunnelPath
<1>1. Init => Path!Init
  BY PathInit
<1>2. IInv /\ [Next]_vars => [Path!Next]_(Path!pathVars)
  BY PathStep
<1> QED
  BY <1>1, <1>2, Invariance, PTL DEF Spec, RefinesFunnelPath, Path!Spec

\* Stages only ever move forward.
THEOREM ForwardOnly == Spec => NoStageGoesBack
<1>1. ASSUME IInv, [Next]_vars, NEW p \in Stages
      PROVE /\ stage[p] = "COMPLETE" => stage'[p] \in {"COMPLETE", "gone"}
            /\ stage[p] = "ACTIVE" => stage'[p] # "LOCKED"
  <2>1. CASE \E r \in Requests : CommitCompletion(r)
    BY <1>1, <2>1 DEF CommitCompletion, WithCompleted, IInv, TypeInv, TypeOK, CompletionInv, Await
  <2>2. CASE DeleteFunnel
    BY <2>2 DEF DeleteFunnel
  <2>3. CASE UNCHANGED stage
    BY <2>3
  <2>4. ASSUME NEW r \in Requests, RequestStep(r), ~CommitCompletion(r) PROVE UNCHANGED stage
    BY <2>4 DEF RequestStep, CountTasks, UpdateStage, RereadStage, Announce, ReadTask, SaveTask,
       LookUpFeedback, InsertFeedback, tableVars
  <2>5. ASSUME NEW r \in Requests, NewRequest(r) \/ Abort(r) PROVE UNCHANGED stage
    BY <2>5 DEF NewRequest, AskToComplete, AskForFeedback, AskToEdit, Abort, tableVars
  <2>6. CASE UNCHANGED vars
    BY <2>3, <2>6 DEF vars, tableVars
  <2> QED
    BY <1>1, <2>1, <2>2, <2>3, <2>4, <2>5, <2>6 DEF Next
<1>2. IInv /\ [Next]_vars =>
         [\A p \in Stages :
             /\ stage[p] = "COMPLETE" => stage'[p] \in {"COMPLETE", "gone"}
             /\ stage[p] = "ACTIVE" => stage'[p] # "LOCKED"]_vars
  BY <1>1
<1> QED
  BY <1>2, Invariance, PTL DEF Spec, NoStageGoesBack
=============================================================================
